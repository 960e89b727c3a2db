------------------------------- MODULE MCPage -------------------------------
(***************************************************************************)
(* A page and its workers, one part per behaviour: the signaling between   *)
(* controller and proxy, and so between two nodes, one of which initiates; *)
(* the client with its worker; and a page that reads files through its     *)
(* service worker.  The other parts stay as they begin.                    *)
(***************************************************************************)
EXTENDS PeerSignaling, WorkerRpc, MediaStreaming, TLC

CONSTANTS c1, c2, c3, r1, r2, r3

VARIABLE part

(* Calls of the worker are alike, so what matters is which kinds meet: a   *)
(* close with two others, further closes included.                         *)
MCKindsOf == (c1 :> {"close"}) @@ (c2 :> {"put", "get", "close"})
               @@ (c3 :> {"getForPeer", "init", "close"})

(* A download, a head request of one, and reads of a file of three chunks, *)
(* each file given by the ends of its chunks.                              *)
Asking(file, from, to, head, download) ==
  [file |-> file, from |-> from, to |-> to, head |-> head, download |-> download]
Movie == <<2, 4, 5>>
MCRequestsOf ==
  (r1 :> {Asking(<<1>>, Absent, Absent, FALSE, TRUE)}) @@ (r2 :> {Asking(<<1>>, Absent, Absent, TRUE, TRUE)})
    @@ (r3 :> {Asking(Movie, Absent, Absent, FALSE, FALSE), Asking(Movie, 1, 2, FALSE, FALSE),
               Asking(Movie, 3, Absent, FALSE, FALSE), Asking(Movie, 5, Absent, FALSE, FALSE),
               Asking(Movie, Absent, Absent, TRUE, FALSE), Asking(<<>>, Absent, Absent, FALSE, FALSE)})

(* Bounds: the ranges are read apart from the downloads, with neither the  *)
(* head request nor the ranges is there a second setup or version, and     *)
(* with none of the requests a third setup.                                *)
Asked(requests) == \E r \in requests : asked[r] # Absent
MediaWithin ==
  /\ ~(Asked({r1, r2}) /\ Asked({r3}))
  /\ Asked({r1, r2, r3}) => setups <= 2
  /\ Asked({r2, r3}) => setups <= 1 /\ controller = 1 /\ ~waiting

MCInit ==
  /\ part \in {"signaling", "worker", "media"}
  /\ Init
  /\ RpcInit /\ (part = "worker" \/ held = FALSE)
  /\ MediaInit

MCNext ==
  /\ UNCHANGED part
  /\ \/ part = "signaling" /\ Next /\ UNCHANGED <<rpcVars, mediaVars>>
     \/ part = "worker" /\ RpcNext /\ UNCHANGED <<vars, mediaVars>>
     \/ part = "media" /\ MediaNext /\ MediaWithin' /\ UNCHANGED <<vars, rpcVars>>

(* The fairness of PeerSignaling, for the behaviours in which it moves.    *)
SignalingFairness ==
  \A l \in Links :
    /\ WF_vars(part = "signaling" /\ HandleHello(l[1], l[2]))
    /\ WF_vars(part = "signaling" /\ LinkStep(l[1], l[2]))
    /\ WF_vars(part = "signaling" /\ Deliver(l[1], l[2]))

MCSpec ==
  /\ MCInit
  /\ [][MCNext]_<<part, vars, rpcVars, mediaVars>>
  /\ SignalingFairness /\ RpcFairness /\ MediaFairness

\* PeerSignaling: without faults, two nodes that hear each other end up connected.
NodesConnect == part = "signaling" => EventuallyConnected

\* What a page asks ends: calls of its worker and fetches through the service
\* worker, though neither may ever answer (client.ts 46-165, sw.ts 213-240).
PageSettles == CallsSettle /\ FetchesEnd
=============================================================================
