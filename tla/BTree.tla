------------------------------- MODULE BTree -------------------------------
(****************************************************************************)
(* The B-tree of hashtree-index (btree.ts): an immutable tree of            *)
(* directories, where an operation returns the new root.  A leaf maps keys  *)
(* to values; an inner node maps names to children, and a child holds the   *)
(* keys from its name up to the next name, the first child also those below *)
(* its name.  The operations on strings and on links (insert, insertLink,   *)
(* ...) are the same algorithm.  The code has two orders of keys: entries   *)
(* are sorted by localeCompare, which Collation ranks, while the descent    *)
(* and the ends of a range are decided by <, which is that of the numbers   *)
(* that stand for the keys.  Null is the empty tree.                        *)
(****************************************************************************)
EXTENDS Integers, FiniteSets, TLC, SequencesExt

CONSTANTS MaxKeys,   \* order - 1: a node with more entries is split
          Collation, \* the place of each key by localeCompare
          Null

Leaf(f) == [leaf |-> TRUE, kids |-> f]
Dir(f) == [leaf |-> FALSE, kids |-> f]
Names(n) == DOMAIN n.kids
SortEntries(n) == SetToSortSeq(Names(n), LAMBDA j, k : Collation[j] < Collation[k])
FirstName(n) == SortEntries(n)[1]
SetEntry(n, name, x) == [n EXCEPT !.kids = (name :> x) @@ @]
RemoveEntry(n, name) == [n EXCEPT !.kids = Restrict(@, Names(n) \ {name})]

\* Slip: a key that is itself the name of the next child is looked up before it.
FindChild_Before(n, k) ==
  LET sorted == SortEntries(n)
      below == {i \in 1..(Len(sorted) - 1) : k <= sorted[i + 1]}
  IN sorted[Min(below \cup {Len(sorted)})]
\* The first child, as they are sorted, before one with a name above the key.
FindChild(n, k) ==
  LET sorted == SortEntries(n)
      below == {i \in 1..(Len(sorted) - 1) : k < sorted[i + 1]}
  IN sorted[Min(below \cup {Len(sorted)})]

RECURSIVE Get(_, _)
Get(n, k) ==
  IF n = Null THEN Null
  ELSE IF n.leaf THEN IF k \in Names(n) THEN n.kids[k] ELSE Null
  ELSE Get(n.kids[FindChild(n, k)], k)

\* A node that is too large becomes two, the middle entry first of the second.
Split(n) ==
  LET sorted == SortEntries(n)
      mid == Len(sorted) \div 2
      Part(from, to) == [n EXCEPT !.kids = Restrict(@, {sorted[i] : i \in from..to})]
  IN <<Part(1, mid), Part(mid + 1, Len(sorted))>>
Parts(n) == IF Cardinality(Names(n)) > MaxKeys THEN Split(n) ELSE <<n>>

\* Each part is entered under its first name.
WithParts(n, parts) ==
  SetEntry(SetEntry(n, FirstName(parts[1]), parts[1]), FirstName(parts[2]), parts[2])

RECURSIVE InsertRecursive(_, _, _)
InsertRecursive(n, k, v) ==
  IF n.leaf THEN Parts(SetEntry(n, k, v))
  ELSE LET c == FindChild(n, k)
           parts == InsertRecursive(n.kids[c], k, v)
       IN Parts(IF Len(parts) = 1 THEN SetEntry(n, c, parts[1])
                ELSE WithParts(RemoveEntry(n, c), parts))

Insert(root, k, v) ==
  IF root = Null THEN Leaf(k :> v)
  ELSE IF Get(root, k) = v THEN root
  ELSE LET parts == InsertRecursive(root, k, v)
       IN IF Len(parts) = 1 THEN parts[1] ELSE WithParts(Dir(<<>>), parts)

\* A child that becomes empty is removed; an inner node with one child left
\* is replaced by it.
RECURSIVE Delete(_, _)
Delete(n, k) ==
  IF n.leaf
  THEN IF Names(n) = {k} THEN Null
       ELSE IF k \in Names(n) THEN RemoveEntry(n, k) ELSE n
  ELSE LET c == FindChild(n, k)
           child == Delete(n.kids[c], k)
           rest == RemoveEntry(n, c)
       IN IF child # Null THEN SetEntry(n, c, child)
          ELSE IF Names(rest) = {} THEN Null
          ELSE IF Cardinality(Names(rest)) = 1 THEN rest.kids[FirstName(rest)]
          ELSE rest

RECURSIVE Entries(_)
Entries(n) ==
  IF n = Null THEN <<>>
  ELSE LET sorted == SortEntries(n)
       IN IF n.leaf THEN [i \in DOMAIN sorted |-> <<sorted[i], n.kids[sorted[i]]>>]
          ELSE FoldLeft(LAMBDA es, m : es \o Entries(n.kids[m]), <<>>, sorted)

\* Slip: a child is skipped by its own name.
Skips_Own(n, sorted, i, from) == sorted[i] < from
\* A range skips what lies before its start: a key by itself, a child by the
\* name of the next.
Skips(n, sorted, i, from) ==
  IF n.leaf THEN sorted[i] < from ELSE i < Len(sorted) /\ sorted[i + 1] <= from

\* It leaves a node at the first name, as they are sorted, that it does not
\* skip and that is not before its end.
RECURSIVE Between(_, _, _)
Between(n, from, to) ==
  LET sorted == SortEntries(n)
      Ends(i) == ~Skips(n, sorted, i, from) /\ sorted[i] >= to
      Of(m) == IF n.leaf THEN <<<<m, n.kids[m]>>>> ELSE Between(n.kids[m], from, to)
  IN FoldLeftDomain(LAMBDA es, i : IF Skips(n, sorted, i, from) \/ \E j \in 1..i : Ends(j) THEN es ELSE es \o Of(sorted[i]),
                    <<>>, sorted)

Merge(base, other, preferOther) ==
  IF other = Null THEN base
  ELSE IF base = Null THEN other
  ELSE FoldLeft(LAMBDA r, e : IF Get(r, e[1]) = Null \/ preferOther THEN Insert(r, e[1], e[2]) ELSE r,
                base, Entries(other))
=============================================================================
