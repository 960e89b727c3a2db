--------------------------- MODULE MCPeerRequests ---------------------------
(***************************************************************************)
(* The content comes in two fragments; the peer may also hold damaged      *)
(* content under the hash, which it sends whole or, being longer, in three *)
(* fragments.                                                              *)
(***************************************************************************)
EXTENDS PeerRequests

MCContents == {[parts |-> 2, good |-> TRUE], [parts |-> 1, good |-> FALSE],
               [parts |-> 3, good |-> FALSE]}
=============================================================================
