-------------------------- MODULE MCPeerSignaling ---------------------------
(***************************************************************************)
(* Two nodes, one of which initiates, and a few connections and faults.    *)
(***************************************************************************)
EXTENDS PeerSignaling
=============================================================================
