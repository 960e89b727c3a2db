------------------------------ MODULE FileTree ------------------------------
(****************************************************************************)
(* Files as trees of chunks: stored at once (tree/create.ts, builder.ts,    *)
(* encrypted.ts) or appended to (streaming.ts, StreamBuilder), read whole,  *)
(* by range and as a stream (tree/read.ts, encrypted.ts), and patched       *)
(* (tree/writeAt.ts).  What refers to a chunk, its link, carries a size;    *)
(* reads seek by it.  A link is modelled with the bytes it names: a hash    *)
(* stands for its content, and an encrypted chunk for its plaintext, Tag    *)
(* bytes longer.                                                            *)
(*                                                                          *)
(* This code builds flat trees; nested ones come from other implementations *)
(* of the format, and are read and patched all the same.                    *)
(****************************************************************************)
EXTENDS Integers, Sequences, FiniteSets, SequencesExt

CONSTANTS Nil,
          Chunkers, \* the sizes of the first and of every other chunk: [first, other]
          Tag,      \* bytes encryption adds to a chunk
          MaxSize,  \* bound: bytes of a file
          MaxPatches \* bound: patches of a file

VARIABLES
  chunker, encrypted, \* how this file is made
  root,    \* its root: [tree |-> whether it has links, data |-> links or bytes], Nil before
  writer,  \* the StreamWriter, Nil without one
  content, \* history: the bytes the file should have
  patches  \* how often it was patched

vars == <<chunker, encrypted, root, writer, content, patches>>

ChunkSize(i) == IF i = 1 THEN chunker.first ELSE chunker.other
Blob(bytes) == [leaf |-> TRUE, size |-> Len(bytes), data |-> bytes]
Declared(links) == FoldLeft(LAMBDA n, l : n + l.size, 0, links)
Node(links) == [leaf |-> FALSE, size |-> Declared(links), data |-> links]
Fresh(n) == [i \in 1..n |-> Len(content) + i]
Slice(bytes, from, to) == SubSeq(bytes, from + 1, IF to < Len(bytes) THEN to ELSE Len(bytes))
AtLeast0(n) == IF n < 0 THEN 0 ELSE n

Init ==
  /\ chunker \in Chunkers /\ encrypted \in BOOLEAN
  /\ root = Nil /\ writer = Nil /\ content = <<>> /\ patches = 0

-----------------------------------------------------------------------------
(* Building. *)

RECURSIVE Chunked(_, _)
Chunked(bytes, i) ==
  IF Len(bytes) <= ChunkSize(i) THEN <<Blob(bytes)>>
  ELSE <<Blob(SubSeq(bytes, 1, ChunkSize(i)))>> \o Chunked(SubSeq(bytes, ChunkSize(i) + 1, Len(bytes)), i + 1)

\* One link that is the whole file is the root itself.
BuildTree(links, total) ==
  IF Len(links) = 1 /\ links[1].size = total /\ links[1].leaf
  THEN [tree |-> FALSE, data |-> links[1].data]
  ELSE [tree |-> TRUE, data |-> links]

\* Only TreeBuilder, which does not encrypt, puts a file in chunks of two sizes.
PutFile(n) ==
  /\ root = Nil /\ writer = Nil
  /\ encrypted => chunker.first = chunker.other
  /\ content' = Fresh(n)
  /\ root' = BuildTree(Chunked(Fresh(n), 1), n)
  /\ UNCHANGED <<chunker, encrypted, writer, patches>>

CreateStream ==
  /\ root = Nil /\ writer = Nil
  /\ writer' = [buffer |-> <<>>, chunks |-> <<>>]
  /\ UNCHANGED <<chunker, encrypted, root, content, patches>>

FlushChunk(w) ==
  IF w.buffer = <<>> THEN w
  ELSE [w EXCEPT !.chunks = Append(@, Blob(w.buffer)), !.buffer = <<>>]

\* Slip: the buffer keeps the size of the first chunk.
TargetSize_First(w) == chunker.first
TargetSize(w) == ChunkSize(Len(w.chunks) + 1)

RECURSIVE Fill(_, _)
Fill(w, bytes) ==
  LET space == TargetSize(w) - Len(w.buffer)
      taken == IF space < Len(bytes) THEN space ELSE Len(bytes)
      filled == [w EXCEPT !.buffer = @ \o SubSeq(bytes, 1, taken)]
  IN IF bytes = <<>> THEN w
     ELSE Fill(IF taken = space THEN FlushChunk(filled) ELSE filled, SubSeq(bytes, taken + 1, Len(bytes)))

StreamAppend(n) ==
  /\ writer # Nil /\ root = Nil /\ n > 0
  /\ writer' = Fill(writer, Fresh(n))
  /\ content' = content \o Fresh(n)
  /\ UNCHANGED <<chunker, encrypted, root, patches>>

\* currentRoot: the tree as if the stream ended here, the writer untouched.
CurrentRoot(w) ==
  LET chunks == FlushChunk(w).chunks
  IN IF chunks = <<>> THEN Nil ELSE BuildTree(chunks, Declared(chunks))

Finalize ==
  /\ writer # Nil /\ root = Nil
  /\ writer' = FlushChunk(writer)
  /\ root' = IF CurrentRoot(writer) = Nil THEN [tree |-> FALSE, data |-> <<>>] ELSE CurrentRoot(writer)
  /\ UNCHANGED <<chunker, encrypted, content, patches>>

\* Another implementation groups the chunks of the file in nodes of two.
Nest ==
  /\ root # Nil /\ root.tree /\ patches = 0 /\ Len(root.data) > 2
  /\ \A i \in DOMAIN root.data : root.data[i].leaf
  /\ root' = [root EXCEPT !.data = <<Node(SubSeq(root.data, 1, 2)), Node(SubSeq(root.data, 3, Len(root.data)))>>]
  /\ UNCHANGED <<chunker, encrypted, writer, content, patches>>

-----------------------------------------------------------------------------
(* Reading. *)

RECURSIVE AssembleChunks(_)
AssembleChunks(links) ==
  FoldLeft(LAMBDA out, l : out \o (IF l.leaf THEN l.data ELSE AssembleChunks(l.data)), <<>>, links)
ReadFile(r) == IF r.tree THEN AssembleChunks(r.data) ELSE r.data

\* Reading with a limit fails, before anything is fetched, when the sizes say
\* that the file is longer.
TooLong(r, maxBytes) == (IF r.tree THEN Declared(r.data) ELSE Len(r.data)) > maxBytes

\* Of one chunk, from and to counted from its first byte; at most room bytes.
LeafRange(bytes, from, to, room) ==
  Slice(bytes, from, IF to < from + room THEN to ELSE from + room)

RECURSIVE RangeFrom(_, _, _)
RangeFrom(links, start, end) ==
  LET Step(s, l) ==
        LET room == end - start - Len(s.out) IN
        IF room <= 0 THEN s
        ELSE IF l.size > 0 /\ s.at + l.size <= start THEN [s EXCEPT !.at = @ + l.size]
        ELSE IF l.leaf
        THEN [at |-> s.at + Len(l.data),
              out |-> s.out \o LeafRange(l.data, AtLeast0(start - s.at), end - s.at, room)]
        ELSE [at |-> s.at + l.size,
              out |-> s.out \o Slice(RangeFrom(l.data, AtLeast0(start - s.at), end - s.at), 0, room)]
  IN FoldLeft(Step, [at |-> 0, out |-> <<>>], links).out
ReadFileRange(r, start, end) == IF r.tree THEN RangeFrom(r.data, start, end) ELSE Slice(r.data, start, end)

\* Links are counted by their size up to the offset, and what is before it is
\* cut off the first one streamed.
RECURSIVE StreamFrom(_, _)
StreamFrom(links, offset) ==
  LET Step(s, l) ==
        [at |-> s.at + l.size, skip |-> s.skip /\ l.size > 0 /\ s.at + l.size <= offset,
         out |-> IF s.skip /\ l.size > 0 /\ s.at + l.size <= offset THEN s.out
                 ELSE s.out \o (IF l.leaf THEN Slice(l.data, AtLeast0(offset - s.at), Len(l.data))
                                ELSE StreamFrom(l.data, AtLeast0(offset - s.at)))]
  IN FoldLeft(Step, [at |-> 0, skip |-> TRUE, out |-> <<>>], links).out
ReadFileStream(r, offset) == IF r.tree THEN StreamFrom(r.data, offset) ELSE Slice(r.data, offset, Len(r.data))

-----------------------------------------------------------------------------
(* Patching. *)

\* The bytes of a chunk with those of data that fall on it, when the chunk is
\* taken to start at linkStart.
Overwrite(bytes, linkStart, offset, data) ==
  [i \in DOMAIN bytes |->
     LET j == linkStart + i - offset IN IF j \in DOMAIN data THEN data[j] ELSE bytes[i]]

\* A link of an encrypted tree is taken to have the size of the ciphertext,
\* and gets it when it is rewritten.
AssumedSize(l) == IF encrypted /\ l.leaf THEN l.size - Tag ELSE l.size
Rewritten(bytes) == [Blob(bytes) EXCEPT !.size = IF encrypted THEN @ + Tag ELSE @]

\* Slip: an intermediate node is given the data from its first byte on.
ChildData_Unshifted(data, offset, start, end) == Slice(data, 0, end - offset)
ChildData(data, offset, start, end) == Slice(data, AtLeast0(start - offset), end - offset)

RECURSIVE WriteAtInNode(_, _, _)
WriteAtInNode(links, offset, data) ==
  LET Step(s, l) ==
        LET end == s.at + AssumedSize(l)
            new == IF end <= offset \/ s.at >= offset + Len(data) THEN l
                   ELSE IF l.leaf THEN Rewritten(Overwrite(l.data, s.at, offset, data))
                   ELSE LET kids == WriteAtInNode(l.data, AtLeast0(offset - s.at), ChildData(data, offset, s.at, end))
                        IN [l EXCEPT !.data = kids,
                                     !.size = IF encrypted THEN FoldLeft(LAMBDA n, k : n + AssumedSize(k), 0, kids) ELSE @]
        IN [at |-> end, links |-> Append(s.links, new)]
  IN FoldLeft(Step, [at |-> 0, links |-> <<>>], links).links

\* A write beyond the end is refused, by the sizes the links carry.
WriteAt(offset, n) ==
  /\ root # Nil /\ patches < MaxPatches
  /\ patches' = patches + 1
  /\ LET data == [i \in 1..n |-> 0 - i - MaxSize * patches]
         total == IF root.tree THEN Declared(root.data) ELSE Len(root.data) IN
     IF offset + n > total THEN UNCHANGED <<root, content>>
     ELSE /\ root' = IF root.tree THEN BuildTree(WriteAtInNode(root.data, offset, data), total)
                     ELSE [root EXCEPT !.data = Overwrite(@, 0, offset, data)]
          /\ content' = Overwrite(content, 0, offset, data)
  /\ UNCHANGED <<chunker, encrypted, writer>>

Next ==
  \/ \E n \in 0..MaxSize : PutFile(n)
  \/ CreateStream \/ Finalize \/ Nest
  \/ \E n \in 1..(MaxSize - Len(content)) : StreamAppend(n)
  \/ \E offset \in 0..MaxSize, n \in 0..MaxSize : WriteAt(offset, n)

Spec == Init /\ [][Next]_vars

-----------------------------------------------------------------------------
(* Properties. *)

TypeOK ==
  /\ chunker \in Chunkers /\ encrypted \in BOOLEAN /\ patches \in 0..MaxPatches
  /\ Len(content) <= MaxSize
  /\ root # Nil => DOMAIN root = {"tree", "data"}
  /\ writer # Nil => Len(writer.buffer) < TargetSize(writer)

ReadsAs(r, bytes) ==
  /\ ReadFile(r) = bytes
  /\ \A start \in 0..MaxSize, end \in 0..(MaxSize + 1) : ReadFileRange(r, start, end) = Slice(bytes, start, end)
  /\ \A offset \in 0..MaxSize : ReadFileStream(r, offset) = Slice(bytes, offset, Len(bytes))
  /\ \A maxBytes \in 0..MaxSize : TooLong(r, maxBytes) <=> Len(bytes) > maxBytes

Corrupted == encrypted /\ patches > 0 /\ root.tree

\* However a file was written, at once or by appends cut anywhere, patched
\* across chunks and nodes or not, it reads back as what was written: whole, in
\* every range and from every offset; but for an encrypted file of several
\* chunks that was patched (read.ts:76-330, writeAt.ts:140-211).
FileReads == TypeOK /\ (root # Nil /\ ~Corrupted => ReadsAs(root, content))

\* At every point of a stream its checkpoint is the tree that the same bytes
\* have when put at once: content is addressed by its bytes and not by how they
\* came (streaming.ts:78-215, create.ts:36-66).
StreamsAsPut ==
  writer # Nil /\ content # <<>> /\ patches = 0 =>
    CurrentRoot(writer) = BuildTree(Chunked(content, 1), Len(content))

\* A file is its bytes, to readers and to whoever addresses it by its content.
FilesSound == FileReads /\ StreamsAsPut

\* Writing at an offset of a file replaces those bytes and no others
\* (hashtree.ts:703-706; encrypted.ts:123 has links carry plaintext sizes,
\* writeAt.ts:216 takes them for ciphertext sizes).
PatchReplaces == root # Nil => ReadFile(root) = content
=============================================================================
