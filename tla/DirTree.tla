------------------------------ MODULE DirTree ------------------------------
(****************************************************************************)
(* Directory edits (tree/edit.ts, tree/editEncrypted.ts): a directory is an *)
(* immutable list of named entries, and an edit writes the directory at a   *)
(* path anew and then every directory above it, up to a new root.  A hash   *)
(* (with its key, in an encrypted tree) stands for what it names.           *)
(*                                                                          *)
(* A directory that cannot be read lists as empty: its block may be missing *)
(* or be encrypted where the tree is not, or it is a file.                  *)
(****************************************************************************)
EXTENDS Integers, Sequences, FiniteSets, SequencesExt

CONSTANTS Names,    \* 1..n, in their order as strings
          Files,    \* contents of files
          Metas,    \* metadata of entries
          NoMeta, Missing,
          MaxDepth, MaxEntries \* bounds: levels of directories, entries in all

VARIABLES
  encrypted, \* whether the root has a key, which edits then keep
  root,      \* an item: a file, or the entries of a directory in order
  flat,      \* history: the paths that should be there, with what is at them
  dirty      \* history: an edit met a name twice or a directory it could not read

vars == <<encrypted, root, flat, dirty>>

Entry(name, item, meta) == [name |-> name, item |-> item, meta |-> meta]
IsDir(item) == item \notin Files \cup {Missing}
EmptyDir == <<>>
Items == Files \cup {EmptyDir} \cup {<<Entry(n, f, NoMeta)>> : n \in Names, f \in Files}

ListDirectory(item) == IF IsDir(item) THEN item ELSE <<>>
Without(entries, name) == SelectSeq(entries, LAMBDA e : e.name # name)
\* putDirectory sorts by name; entries of one name stay in their order.
PutDirectory(entries) ==
  FlattenSeq([n \in 1..Cardinality(Names) |-> SelectSeq(entries, LAMBDA e : e.name = n)])

\* The first entry of a name counts.
Find(entries, name) ==
  LET found == SelectSeq(entries, LAMBDA e : e.name = name) IN IF found = <<>> THEN Missing ELSE found[1]
RECURSIVE ResolvePath(_, _)
ResolvePath(item, path) ==
  IF path = <<>> THEN item
  ELSE LET e == Find(ListDirectory(item), path[1])
       IN IF e = Missing THEN Missing ELSE ResolvePath(e.item, Tail(path))

\* Slip: the child is looked up in the parent by the first name of the path.
Replaced_First(entries, path, child) == [i \in DOMAIN entries |-> IF entries[i].name = path[1] THEN [entries[i] EXCEPT !.item = child] ELSE entries[i]]
Replaced(entries, path, child) ==
  [i \in DOMAIN entries |-> IF entries[i].name = path[Len(path)] THEN [entries[i] EXCEPT !.item = child] ELSE entries[i]]

\* rebuildPath: from the changed directory up, each parent read from the old
\* root; unread is a path whose directory cannot be read just then.
RECURSIVE RebuildPath(_, _, _, _)
RebuildPath(r, path, child, unread) ==
  IF path = <<>> THEN child
  ELSE LET up == Front(path)
           entries == IF up = unread THEN <<>> ELSE ListDirectory(ResolvePath(r, up))
       IN RebuildPath(r, up, PutDirectory(Replaced(entries, path, child)), unread)

Paths == {<<>>} \cup {<<n>> : n \in Names} \cup {<<n, m>> : n, m \in Names}
\* A directory on the path may be unreadable while an edit reads it.
Never == <<0>>
Unreadable(path) == {Never} \cup {SubSeq(path, 1, i) : i \in 0..Len(path)}

\* What is at every path, as walk lists it.
RECURSIVE Flat(_, _)
Flat(item, path) ==
  IF ~IsDir(item) THEN {}
  ELSE UNION {LET e == item[i] IN
                {[path |-> Append(path, e.name), is |-> IF IsDir(e.item) THEN EmptyDir ELSE e.item, meta |-> e.meta]}
                \cup Flat(e.item, Append(path, e.name)) : i \in DOMAIN item}
Under(path) == {p \in flat : IsPrefix(path, p.path)}

Init ==
  /\ encrypted \in BOOLEAN
  /\ root = EmptyDir /\ flat = {} /\ dirty = FALSE

\* What an edit of the entries at path gives; an edit that cannot resolve the
\* path throws, and nothing changes.
Edited(r, path, entries, unread) == RebuildPath(r, path, PutDirectory(entries), unread)
Seen(path, unread) == IF path = unread THEN <<>> ELSE ListDirectory(ResolvePath(root, path))
Changes(new, expected, path, unread) ==
  /\ root' = new
  /\ Cardinality(Flat(new, <<>>)) <= MaxEntries /\ \A p \in Flat(new, <<>>) : Len(p.path) <= MaxDepth
  /\ flat' = expected
  /\ dirty' = (dirty \/ unread # Never \/ ~IsDir(ResolvePath(root, path)))
  /\ UNCHANGED encrypted

SetEntry(path, name, item, meta, unread) ==
  /\ ResolvePath(root, path) # Missing
  /\ Changes(Edited(root, path, Append(Without(Seen(path, unread), name), Entry(name, item, meta)), unread),
             (flat \ Under(Append(path, name))) \cup Flat(<<Entry(name, item, meta)>>, path), path, unread)

RemoveEntry(path, name, unread) ==
  /\ ResolvePath(root, path) # Missing
  /\ Changes(Edited(root, path, Without(Seen(path, unread), name), unread),
             flat \ Under(Append(path, name)), path, unread)

RenameEntry(path, old, new) ==
  /\ old # new /\ ResolvePath(root, path) # Missing
  /\ LET entries == ListDirectory(ResolvePath(root, path))
         e == Find(entries, old) IN
     /\ e # Missing
     /\ root' = Edited(root, path, Append(Without(entries, old), [e EXCEPT !.name = new]), Never)
     /\ flat' = (flat \ Under(Append(path, old))) \cup Flat(<<[e EXCEPT !.name = new]>>, path)
     \* Nothing looks whether the new name is taken: then there are two.
     /\ dirty' = (dirty \/ Find(entries, new) # Missing)
     /\ UNCHANGED encrypted

\* Out of one directory and into another of the tree without it.  An encrypted
\* tree refuses a name that is taken and keeps the metadata; another one
\* replaces what is there and loses it.
MoveEntry(source, name, target) ==
  /\ ResolvePath(root, source) # Missing
  /\ LET e == Find(ListDirectory(ResolvePath(root, source)), name)
         removed == Edited(root, source, Without(ListDirectory(ResolvePath(root, source)), name), Never)
         entries == ListDirectory(ResolvePath(removed, target))
         moved == IF encrypted THEN e ELSE [e EXCEPT !.meta = NoMeta]
         left == flat \ Under(Append(source, name)) IN
     /\ e # Missing /\ ResolvePath(removed, target) # Missing
     /\ encrypted => Find(entries, name) = Missing
     /\ Changes(Edited(removed, target, Append(Without(entries, name), moved), Never),
                (left \ Under(Append(target, name))) \cup Flat(<<moved>>, target), target, Never)

Next ==
  \E path \in Paths, name \in Names :
    \/ \E item \in Items, meta \in Metas \cup {NoMeta}, unread \in Unreadable(path) : SetEntry(path, name, item, meta, unread)
    \/ \E unread \in Unreadable(path) : RemoveEntry(path, name, unread)
    \/ \E new \in Names : RenameEntry(path, name, new)
    \/ \E target \in Paths : MoveEntry(path, name, target)

Spec == Init /\ [][Next]_vars

-----------------------------------------------------------------------------
(* Properties. *)

TypeOK ==
  /\ encrypted \in BOOLEAN /\ dirty \in BOOLEAN
  /\ IsDir(root)
  /\ \A p \in flat : p.is \in Files \cup {EmptyDir} /\ p.meta \in Metas \cup {NoMeta}

\* After any sequence of edits at any depth the tree holds exactly the paths
\* that the edits left, each with its content and metadata, in order and each
\* name once; but for edits that met a directory they could not read or a name
\* that was taken (edit.ts:16-183, editEncrypted.ts:64-377).
EditsExact ==
  /\ TypeOK
  /\ ~dirty =>
       /\ Flat(root, <<>>) = flat
       /\ \A path \in Paths : LET entries == ListDirectory(ResolvePath(root, path)) IN
            \A i \in 1..(Len(entries) - 1) : entries[i].name < entries[i + 1].name
=============================================================================
