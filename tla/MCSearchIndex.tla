--------------------------- MODULE MCSearchIndex ---------------------------
(****************************************************************************)
(* A search index of keys that localeCompare and < order differently: the   *)
(* terms are film and école, which < puts in this order, by code units, and *)
(* localeCompare in the other, by letters.  Such keys are common: a capital *)
(* and a small letter, or video2:id and video:id, where the colon is above  *)
(* the digit by < and below it by localeCompare, are two more pairs.        *)
(****************************************************************************)
EXTENDS SearchIndex

(* 1 is film, 2 is école; a query asks for either.                          *)
MCTerms == 1..2
MCIds == 1..2
MCWords == {[from |-> t, to |-> t] : t \in MCTerms}
MCTermLists == {<<1>>, <<2>>}

(* By localeCompare the keys of école come first.                           *)
MCCollation == [k \in {KeyOf(t, i) : t \in MCTerms, i \in MCIds} |-> IF TermOf(k) = 2 THEN k - 10 ELSE k]
=============================================================================
