------------------------------- MODULE MCIris -------------------------------
(***************************************************************************)
(* The Iris worker, one part per behaviour: the cache of tree roots,       *)
(* requests for media of trees that still grow, and the social graph that  *)
(* grows by contact lists.  The other parts stay as they begin.            *)
(***************************************************************************)
EXTENDS MCTreeRootCache, LiveMedia, ContactCrawl

CONSTANTS r1, r2, me, boot, u1, u2

VARIABLE part

(* One request by path, which may turn live, beside one by hash or of the  *)
(* service worker; a file that grows, and one that is not there at first.  *)
MCAsksOf == (r1 :> {[kind |-> "path", start |-> 0]})
         @@ (r2 :> {[kind |-> "file", start |-> 0], [kind |-> "cid", start |-> 0]})
MCFiles == {<<1, 2>>, <<Absent, 1>>}

(* A root with few follows, whose friend follows a further user, and a     *)
(* bootstrap user that follows the same.  The database may hold lists that *)
(* are not reached from the root.                                          *)
MCFollowsOf == (me :> {u1}) @@ (boot :> {u2, me}) @@ (u1 :> {u2}) @@ (u2 :> {})
MCSaved == {{}, {me, u1}, {boot, u1}}

MCInit ==
  /\ part \in {"roots", "media", "graph"}
  /\ Init
  /\ LiveInit /\ (part = "media" \/ (file = <<1, 2>> /\ cached = 0))
  /\ GraphInit /\ (part = "graph" \/ (graphRoot = me /\ database = {}))

MCNext ==
  /\ UNCHANGED part
  /\ \/ part = "roots" /\ Next /\ UNCHANGED <<liveVars, graphVars>>
     \/ part = "media" /\ LiveNext /\ UNCHANGED <<vars, graphVars>>
     \/ part = "graph" /\ GraphNext /\ UNCHANGED <<vars, liveVars>>

(* GraphFairness, for the behaviours in which the graph moves: it could    *)
(* always be loaded.                                                       *)
MCGraphFairness ==
  /\ WF_graphVars(part = "graph" /\ Load)
  /\ WF_graphVars(SaveBegins)
  /\ WF_graphVars(Save)

MCSpec ==
  /\ MCInit /\ [][MCNext]_<<part, vars, liveVars, graphVars>>
  /\ LiveFairness /\ MCGraphFairness

(* What the Iris worker has begun ends: each media request, and the saving *)
(* of what changed in the social graph (mediaHandler.ts, worker.ts).       *)
IrisSettles == RequestsEnd /\ GraphSaved
=============================================================================
