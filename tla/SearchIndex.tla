---------------------------- MODULE SearchIndex ----------------------------
(****************************************************************************)
(* The search index (search.ts) over the B-tree: an item is entered once    *)
(* per term, under the key term:id, and a query looks each of its words up  *)
(* as a prefix of terms.  An insert that fails is logged and skipped, as if *)
(* the term had not been given.                                             *)
(****************************************************************************)
EXTENDS BTree

CONSTANTS Terms,   \* 1..n, in their order as strings
          Ids,     \* 1..m
          Values,
          Words,   \* what a query can ask for, each [from, to]: the terms it is a prefix of
          TermLists \* bound: the lists of terms an item is indexed under

VARIABLES
  root,
  indexed, \* history: what the index should map keys to
  lowered  \* history: some inner node stood under too low a name

vars == <<root, indexed, lowered>>

Width == Cardinality(Ids) + 1
KeyOf(t, i) == t * Width + i
TermOf(k) == k \div Width
IdOf(k) == k % Width
Keys == {KeyOf(t, i) : t \in Terms, i \in Ids}

\* No inner node stands under a name below its own first one: it would be
\* given keys that belong before its first child.
RECURSIVE NamesFit(_)
NamesFit(n) ==
  n = Null \/ n.leaf \/ \A m \in Names(n) :
    NamesFit(n.kids[m]) /\ (n.kids[m].leaf \/ FirstName(n.kids[m]) <= m)

Init == root = Null /\ indexed = [k \in Keys |-> Null] /\ lowered = FALSE

IndexTerms(terms, i, v, r) == FoldLeft(LAMBDA n, t : Insert(n, KeyOf(t, i), v), r, terms)

Index(terms, i, v) ==
  /\ root' = IndexTerms(terms, i, v, root)
  /\ indexed' = [k \in Keys |-> IF \E j \in DOMAIN terms : k = KeyOf(terms[j], i) THEN v ELSE indexed[k]]
  /\ lowered' = (lowered \/ ~NamesFit(root'))

\* remove takes the same terms; it ends early when the tree is empty.
DeleteTerms(terms, i, r) ==
  FoldLeft(LAMBDA n, t : IF n = Null THEN Null ELSE Delete(n, KeyOf(t, i)), r, terms)

RemoveItem(terms, i) ==
  /\ root # Null
  /\ root' = DeleteTerms(terms, i, root)
  /\ indexed' = [k \in Keys |-> IF \E j \in DOMAIN terms : k = KeyOf(terms[j], i) THEN Null ELSE indexed[k]]
  /\ lowered' = (lowered \/ ~NamesFit(root'))

\* merge with another index, of one item, whose values win or not.
MergeIndex(terms, i, v, preferOther) ==
  /\ root' = Merge(root, IndexTerms(terms, i, v, Null), preferOther)
  /\ indexed' = [k \in Keys |-> IF (\E j \in DOMAIN terms : k = KeyOf(terms[j], i)) /\ (preferOther \/ indexed[k] = Null)
                                THEN v ELSE indexed[k]]
  /\ lowered' = (lowered \/ ~NamesFit(root'))

Next ==
  \E terms \in TermLists, i \in Ids :
    \/ RemoveItem(terms, i)
    \/ \E v \in Values : Index(terms, i, v)
    \/ \E v \in Values, preferOther \in BOOLEAN : MergeIndex(terms, i, v, preferOther)

Spec == Init /\ [][Next]_vars

-----------------------------------------------------------------------------
(* Queries. *)

\* The keys one word finds: at most twice the limit, with fullMatch those of
\* its own term alone.
Hits(word, fullMatch, limit) ==
  IF root = Null THEN {}
  ELSE LET found == Between(root, KeyOf(word.from, 0), KeyOf(IF fullMatch THEN word.from + 1 ELSE word.to + 1, 0))
       IN {e[1] : e \in ToSet(SubSeq(found, 1, Min({Len(found), 2 * limit})))}

\* search: by the number of entries found for an item over all words, then by
\* exact terms, by how much longer the terms are, and by id.
SearchFor(words, fullMatch, limit) ==
  LET hits == UNION {{<<w, k>> : k \in Hits(w, fullMatch, limit)} : w \in words}
      Of(i) == {h \in hits : IdOf(h[2]) = i}
      Score(i) == Cardinality(Of(i))
      Exact(i) == Cardinality({h \in Of(i) : TermOf(h[2]) = h[1].from})
      Distance(i) == MapThenSumSet(LAMBDA h : TermOf(h[2]) - h[1].from, Of(i))
      Before(i, j) == \/ Score(i) > Score(j)
                      \/ Score(i) = Score(j) /\ Exact(i) > Exact(j)
                      \/ Score(i) = Score(j) /\ Exact(i) = Exact(j) /\ Distance(i) < Distance(j)
                      \/ Score(i) = Score(j) /\ Exact(i) = Exact(j) /\ Distance(i) = Distance(j) /\ i < j
      results == {IdOf(h[2]) : h \in hits}
  IN {i \in results : Cardinality({j \in results : Before(j, i)}) < limit}

-----------------------------------------------------------------------------
(* Properties. *)

\* The keys that can be entered stand in one order by both comparisons.
OrdersAgree == \A j, k \in Keys : j < k <=> Collation[j] < Collation[k]

RECURSIVE NodesOf(_)
NodesOf(n) == {n} \cup (IF n.leaf THEN {} ELSE UNION {NodesOf(n.kids[m]) : m \in Names(n)})

TypeOK ==
  /\ indexed \in [Keys -> Values \cup {Null}] /\ lowered \in BOOLEAN
  /\ root # Null => \A n \in NodesOf(root) :
       /\ Cardinality(Names(n)) \in 1..MaxKeys
       /\ n.leaf => \A k \in Names(n) : k \in Keys /\ n.kids[k] \in Values

\* Through splits, merges and removals the index maps every key to what was
\* last entered for it, each key is in the tree once, the traversal is in
\* order and no node is larger than its order allows; but for an index from
\* which the first child of an inner node was removed (btree.ts:407-426, 443-474).
IndexIsMap ==
  /\ TypeOK
  /\ ~lowered =>
       /\ \A k \in Keys : Get(root, k) = indexed[k]
       /\ LET held == SetToSortSeq({k \in Keys : indexed[k] # Null}, <)
          IN Entries(root) = [j \in DOMAIN held |-> <<held[j], indexed[held[j]]>>]

\* A range over the index finds exactly the keys between its ends.
InRange(from, to) == {k \in Keys : from <= k /\ k < to /\ indexed[k] # Null}
Found(from, to) == {e[1] : e \in ToSet(Between(root, from, to))}

\* A range or prefix search finds exactly what lies between its ends, unless
\* it ends before the first name of the root; and then a query of one word
\* finds the items that have it, as many as it may return, each once
\* (btree.ts:515-548, search.ts:145-225).
SearchFinds ==
  root # Null /\ ~lowered =>
    /\ \A from, to \in Keys : from < to /\ (to > FirstName(root) \/ root.leaf) => Found(from, to) = InRange(from, to)
    /\ \A w \in Words, limit \in 1..Cardinality(Ids) :
         LET ids == {i \in Ids : indexed[KeyOf(w.from, i)] # Null}
             got == SearchFor({w}, TRUE, limit) IN
         KeyOf(w.from + 1, 0) > FirstName(root) \/ root.leaf =>
           got \subseteq ids /\ Cardinality(got) = Min({limit, Cardinality(ids)})

\* What was entered is there and is found, for keys that localeCompare and <
\* put in one order (btree.ts:413-430, 515-548).
IndexSound == OrdersAgree => IndexIsMap /\ SearchFinds

\* Whatever the order of its keys, an item that was indexed under a term is
\* found by a query of that term, here of no more words and with a limit above
\* the number of items (search.ts:28, 145-146).
TermsFound ==
  root # Null /\ ~lowered =>
    \A w \in Words, i \in Ids, fullMatch \in BOOLEAN :
      indexed[KeyOf(w.from, i)] # Null => i \in SearchFor({w}, fullMatch, Cardinality(Ids) + 1)
=============================================================================
