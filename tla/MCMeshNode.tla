----------------------------- MODULE MCMeshNode -----------------------------
(***************************************************************************)
(* Two remote peers, a and b, in three scenarios that share one run:       *)
(*   serving   two requests and a response, while a may reconnect under    *)
(*             its id with a new WorkerPeer object; no backpressure        *)
(*   gets      a local get beside one request and a response; no           *)
(*             reconnection, no backpressure                               *)
(*   pressure  three requests while the channel to a fills and drains; no  *)
(*             response, no get, no reconnection                           *)
(***************************************************************************)
EXTENDS MeshNode, TLC

CONSTANTS a, b, a1, a2, b1

VARIABLE scenario

MCIds == {a, b}
MCConns == {a1, a2, b1}
MCIdOf == (a1 :> a) @@ (a2 :> a) @@ (b1 :> b)

Idle(calls) == {x \in DOMAIN calls : calls[x].pc = "idle"}
AtMostRequests(n) == Cardinality(Requests \ Idle(request)) <= n

(* Bounds of each scenario.                                                *)
Within ==
  \/ scenario = "serving" /\ AtMostRequests(2) /\ Idle(got) = Gets /\ paused = {}
  \/ scenario = "gets" /\ AtMostRequests(1) /\ peers[a] # a2 /\ paused = {}
  \/ scenario = "pressure" /\ Idle(got) = Gets /\ Idle(response) = Responses /\ peers[a] # a2
     /\ b1 \notin paused

MCInit == Init /\ scenario \in {"serving", "gets", "pressure"}
MCNext == Next /\ UNCHANGED scenario /\ Within'
MCSpec == MCInit /\ [][MCNext]_<<vars, scenario>>

Symmetry == Permutations(Requests)
=============================================================================
