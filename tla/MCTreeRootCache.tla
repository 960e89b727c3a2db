-------------------------- MODULE MCTreeRootCache ---------------------------
(***************************************************************************)
(* Two root hashes and four events: two of the same second, one of which   *)
(* brings its key, a later one of the first root again, and one published  *)
(* locally, without an id, in that same later second.                      *)
(***************************************************************************)
EXTENDS TreeRootCache, TLC

CONSTANTS h1, h2, k1, k2

MCKeyOf == (h1 :> k1) @@ (h2 :> k2)
Event(at, id, hash, key) == [at |-> at, id |-> id, hash |-> hash, key |-> key]
MCEvents == {Event(1, 1, h1, None), Event(1, 2, h2, k2), Event(2, 1, h1, None), Event(2, 0, h2, None)}
Symmetry == Permutations(Calls)
=============================================================================
