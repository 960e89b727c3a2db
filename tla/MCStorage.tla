------------------------------ MODULE MCStorage ------------------------------
(****************************************************************************)
(* What is stored, what is built of it and how it is named, one part per    *)
(* behaviour: the IndexedDB store, a search index, a file, a tree of        *)
(* directories and the Nostr resolver.  The other parts stay as they begin. *)
(*                                                                          *)
(* Three blobs of which not all fit, and a few calls of any kind; a call    *)
(* started by the eviction schedule or the timer counts as one.  One name   *)
(* of one user, a subscriber, a lister, two calls and one event of another  *)
(* device.                                                                  *)
(****************************************************************************)
EXTENDS BlobStore, RefResolver, TLC

CONSTANTS
  h1, h2, h3,
  MaxKeys, Null, Values,
  Nil, Tag, MaxSize, MaxPatches,
  Files, Metas, NoMeta, Missing, MaxDepth, MaxEntries

VARIABLES
  part,
  index, indexed, lowered,                             \* SearchIndex
  chunker, encrypted, file, writer, content, patches,  \* FileTree
  sealed, dir, flat, dirty                             \* DirTree

indexVars == <<index, indexed, lowered>>
fileVars == <<chunker, encrypted, file, writer, content, patches>>
dirVars == <<sealed, dir, flat, dirty>>

MCSizeOf == [h \in Hashes |-> IF h = h2 THEN 2 ELSE 1]

(* Three terms, the first two with a common prefix, and two items, each    *)
(* indexed under one term or under two.                                    *)
Terms == 1..3
Ids == 1..2
Words == {[from |-> 1, to |-> 2], [from |-> 3, to |-> 3]}
TermLists == {<<2>>, <<3, 1>>}
Collation == [k \in 3..11 |-> k]

(* Equal chunks, and a first chunk that is smaller.                        *)
Chunkers == {[first |-> 2, other |-> 2], [first |-> 1, other |-> 2]}

Names == 1..2

Index == INSTANCE SearchIndex WITH root <- index
File == INSTANCE FileTree WITH root <- file
Directory == INSTANCE DirTree WITH root <- dir, encrypted <- sealed

MCInit ==
  /\ part \in {"blobs", "index", "file", "directory", "names"}
  /\ Init
  /\ NamesInit
  /\ Index!Init
  /\ File!Init /\ (part = "file" \/ (chunker.first = 2 /\ encrypted = FALSE))
  /\ Directory!Init /\ (part = "directory" \/ sealed = FALSE)

MCNext ==
  /\ UNCHANGED part
  /\ \/ part = "blobs" /\ Next /\ UNCHANGED <<indexVars, fileVars, dirVars, namesVars>>
     \/ part = "index" /\ Index!Next /\ UNCHANGED <<vars, fileVars, dirVars, namesVars>>
     \/ part = "file" /\ File!Next /\ UNCHANGED <<vars, indexVars, dirVars, namesVars>>
     \/ part = "directory" /\ Directory!Next /\ UNCHANGED <<vars, indexVars, fileVars, namesVars>>
     \/ part = "names" /\ NamesNext /\ UNCHANGED <<vars, indexVars, fileVars, dirVars>>

MCSpec == MCInit /\ [][MCNext]_<<part, vars, indexVars, fileVars, dirVars, namesVars>>

(* Bounds: an index of up to three levels; of the entries of all           *)
(* directories one at a time has metadata.  An index with a node under too *)
(* low a name, directories after an edit that met a name twice or could not*)
(* read a directory, and names after a publish was overtaken are not       *)
(* followed further: there the properties say nothing any more.            *)
RECURSIVE Levels(_)
Levels(n) ==
  IF n = Null THEN 0
  ELSE IF n.leaf THEN 1 ELSE 1 + Levels(n.kids[CHOOSE m \in DOMAIN n.kids : TRUE])
Followed ==
  /\ ~lowered /\ Levels(index) <= 3
  /\ ~dirty /\ Cardinality({p \in flat : p.meta # NoMeta}) <= 1
  /\ ~overlap

(* Bound: calls are alike and numbered, so they are begun in order.         *)
InOrder ==
  /\ \A c, d \in Calls : c < d /\ call[d].pc # "idle" => call[c].pc # "idle"
  /\ \A c, d \in Publishes : c < d /\ calls[d] # Absent => calls[c] # Absent

-----------------------------------------------------------------------------
(* The properties of the parts, stated and explained in their modules.  The*)
(* other parts stay as they begin, where they hold.                        *)

\* SearchIndex: what was entered is there and is found.
IndexSound == part = "index" => Index!IndexSound
\* FileTree: a file reads as what was written and is stored under its content.
FilesSound == part = "file" => File!FilesSound
\* DirTree: the tree holds exactly the paths that the edits left.
EditsExact == part = "directory" => Directory!EditsExact
=============================================================================
