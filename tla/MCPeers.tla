------------------------------ MODULE MCPeers -------------------------------
(***************************************************************************)
(* The WebRTC store of the Nostr package, one part per behaviour: requests *)
(* to one peer, the pool of Peers between two stores, and the reads that   *)
(* ask the peers.  The other parts stay as they begin.                     *)
(***************************************************************************)
EXTENDS MCPeerRequests, StorePeering, PendingReads

VARIABLE part

(* The reads are of one hash, called with the same Uint8Array or with two. *)
MCHashOf == [x \in {1, 2} |-> "hash"]

(* Which of the two arrays the first read has makes no difference.         *)
MCInit ==
  /\ part \in {"requests", "peering", "reads"}
  /\ Init /\ PeeringInit /\ ReadsInit
  /\ ref[1] = 1
  /\ part # "reads" => ref[2] = 1

MCNext ==
  /\ UNCHANGED part
  /\ \/ part = "requests" /\ Next /\ UNCHANGED <<peeringVars, readVars>>
     \/ part = "peering" /\ PeeringNext /\ UNCHANGED <<vars, readVars>>
     \/ part = "reads" /\ ReadsNext /\ UNCHANGED <<vars, peeringVars>>

MCSpec ==
  /\ MCInit
  /\ [][MCNext]_<<part, vars, peeringVars, readVars>>
  /\ Fairness /\ PeeringFairness /\ ReadsFairness

(* What is begun between peers ends: a request sent gets an answer, an     *)
(* attempt to connect is decided, a read returns; each is explained in its *)
(* module (peer.ts 515-548, store.ts 656-1010, 1330-1540).                 *)
PeersSettle == SendersSettle /\ AttemptsEnd /\ ReadsSettle
=============================================================================
