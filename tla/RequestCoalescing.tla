------------------------- MODULE RequestCoalescing -------------------------
(***************************************************************************)
(* What the forwarding machine promises the node that embeds it, with no   *)
(* indexes, timers or limiter: a set of (hash, peer) pairs, "this peer is  *)
(* waiting for this content", and the reasons for which a pair may come or *)
(* go.  Peers join a hash one at a time.  All the peers of a hash are let  *)
(* go together, when its forward ends; a peer that leaves takes only its   *)
(* own pairs with it.                                                      *)
(***************************************************************************)
CONSTANTS Hashes, Peers

VARIABLE waiting

AbstractInit == waiting = {}

Join(h, p) == waiting' = waiting \cup {<<h, p>>}

ReleaseHash(h) == waiting' = {w \in waiting : w[1] # h}

ReleasePeer(p) == waiting' = {w \in waiting : w[2] # p}

ReleaseAll == waiting' = {}

AbstractNext ==
  \/ \E h \in Hashes, p \in Peers : Join(h, p)
  \/ \E h \in Hashes : ReleaseHash(h)
  \/ \E p \in Peers : ReleasePeer(p)
  \/ ReleaseAll

AbstractSpec == AbstractInit /\ [][AbstractNext]_waiting
=============================================================================
