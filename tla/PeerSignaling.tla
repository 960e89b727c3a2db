--------------------------- MODULE PeerSignaling ----------------------------
(***************************************************************************)
(* How two nodes of hashtree-worker's p2p agree on a WebRTC connection.    *)
(* On each node the controller (webrtcController.ts) keeps a record per    *)
(* peer and decides; the proxy (webrtcProxy.ts) owns the RTCPeerConnection *)
(* and reports.  Commands go one way and events the other, in order: as    *)
(* plain calls in the hashtree.cc app ("sync"), as posted messages between *)
(* a worker and the page in iris ("async").  Offers and answers go over    *)
(* relays, which may lose, reorder or replay them.  Nodes are their keys,  *)
(* compared as the code does.  ICE candidates are left out.                *)
(***************************************************************************)
EXTENDS Naturals, Sequences, FiniteSets

CONSTANTS
  Nodes,           \* public keys, as numbers: the lower one initiates
  MaxConnections,  \* poolConfig of the one pool
  Wiring,          \* "sync" or "async"
  MaxPcs,          \* bound: connections begun in all
  Faults,          \* bound: messages lost or replayed, failures, restarts
  None

Links == {l \in Nodes \X Nodes : l[1] # l[2]}

VARIABLES
  peer,    \* controllers' records: peers
  pc,      \* proxies' connections
  cmds,    \* commands on their way to the proxy
  events,  \* events on their way to the controller
  net,     \* offers and answers on their way
  made,    \* how many connections were created; their number is their id
  faults   \* faults left

vars == <<peer, pc, cmds, events, net, made, faults>>
queues == <<cmds, events>>

NewPeer(direction) == [direction |-> direction, state |-> "connecting", answerCreated |-> FALSE]
NewPc(id) ==
  [id |-> id, signaling |-> "stable", local |-> None, remote |-> None, ops |-> << >>, conn |-> "new"]
Offer(id) == [type |-> "offer", id |-> id, of |-> None]
Answer(id, offer) == [type |-> "answer", id |-> id, of |-> offer.id]
Item(type, arg) == [type |-> type, arg |-> arg]

Commands(n, m, items) == cmds' = [cmds EXCEPT ![<<n, m>>] = @ \o items]
Reports(n, m, items) == events' = [events EXCEPT ![<<n, m>>] = @ \o items]

(* With plain calls a node is through with one thing before the next.      *)
Quiet(n) ==
  Wiring = "sync" =>
    \A m \in Nodes \ {n} : cmds[<<n, m>>] = << >> /\ events[<<n, m>>] = << >>

Connections(n) == Cardinality({m \in Nodes \ {n} : peer[<<n, m>>] # None})

-----------------------------------------------------------------------------
(* The controller: handleHello.  Hellos come every few seconds for ever.   *)
\* Slip: both sides initiate.
Initiates_Both(n, m) == TRUE
Initiates(n, m) == n < m

HandleHello(n, m) ==
  /\ Quiet(n)
  /\ made < MaxPcs
  /\ peer[<<n, m>>] = None /\ Connections(n) < MaxConnections /\ Initiates(n, m)
  /\ peer' = [peer EXCEPT ![<<n, m>>] = NewPeer("outbound")]
  /\ Commands(n, m, <<Item("createPeer", None)>>)
  /\ UNCHANGED <<pc, events, net, made, faults>>

(* handleOffer and handleAnswer.  The polite side of a collision gives up  *)
(* its own offer.                                                          *)
HandleOffer(n, m, sdp) ==
  IF peer[<<n, m>>] = None
    THEN IF Connections(n) < MaxConnections /\ made < MaxPcs
           THEN /\ peer' = [peer EXCEPT ![<<n, m>>] = NewPeer("inbound")]
                /\ Commands(n, m, <<Item("createPeer", None), Item("setRemote", sdp)>>)
           ELSE UNCHANGED <<peer, cmds>>
    ELSE LET p == peer[<<n, m>>]
             collision == p.direction = "outbound" /\ p.state = "connecting"
         IN  IF collision /\ ~(n < m)
               THEN UNCHANGED <<peer, cmds>>
               ELSE /\ peer' = IF collision
                                 THEN [peer EXCEPT ![<<n, m>>].direction = "inbound",
                                                   ![<<n, m>>].answerCreated = FALSE]
                                 ELSE peer
                    /\ Commands(n, m, <<Item("setRemote", sdp)>>)

HandleAnswer(n, m, sdp) ==
  /\ IF peer[<<n, m>>] = None THEN UNCHANGED cmds ELSE Commands(n, m, <<Item("setRemote", sdp)>>)
  /\ UNCHANGED peer

(* A message arrives, and may be replayed when the node subscribes again.  *)
Receive(msg) ==
  /\ Quiet(msg.to)
  /\ \/ net' = net \ {msg} /\ UNCHANGED faults
     \/ faults > 0 /\ faults' = faults - 1 /\ UNCHANGED net
  /\ IF msg.sdp.type = "offer"
       THEN HandleOffer(msg.to, msg.from, msg.sdp)
       ELSE HandleAnswer(msg.to, msg.from, msg.sdp)
  /\ UNCHANGED <<pc, events, made>>

-----------------------------------------------------------------------------
(* The controller: handleProxyEvent.                                       *)
\* Slip: the proxy is not told to close.
Close_Silent(n, m) == peer' = [peer EXCEPT ![<<n, m>>] = None] /\ UNCHANGED cmds

\* Slip: the record is marked and never removed.
Close_KeepsRecord(n, m) ==
  /\ peer' = [peer EXCEPT ![<<n, m>>].state = "disconnected"]
  /\ Commands(n, m, <<Item("closePeer", None)>>)

Close(n, m) ==
  /\ peer' = [peer EXCEPT ![<<n, m>>] = None]
  /\ Commands(n, m, <<Item("closePeer", None)>>)

OnPeerCreated(n, m) ==
  /\ IF peer[<<n, m>>].direction = "outbound"
       THEN Commands(n, m, <<Item("createOffer", None)>>) ELSE UNCHANGED cmds
  /\ UNCHANGED <<peer, net>>

OnStateChange(n, m, state) ==
  /\ IF state = "failed" THEN Close(n, m)
       ELSE peer' = [peer EXCEPT ![<<n, m>>].state = "connected"] /\ UNCHANGED cmds
  /\ UNCHANGED net

(* onOfferCreated, onAnswerCreated.                                        *)
OnSdpCreated(n, m, sdp) ==
  /\ Commands(n, m, <<Item("setLocal", sdp)>>)
  /\ net' = net \cup {[from |-> n, to |-> m, sdp |-> sdp]}
  /\ UNCHANGED peer

\* Slip: an answer for every description that was set.
AnswerDue_Always(p) == p.direction = "inbound" /\ p.state = "connecting"
\* Slip: the negation is lost.
AnswerDue_Again(p) == p.direction = "inbound" /\ p.state = "connecting" /\ p.answerCreated
AnswerDue(p) == p.direction = "inbound" /\ p.state = "connecting" /\ ~p.answerCreated

OnDescriptionSet(n, m, ok) ==
  /\ IF ok /\ AnswerDue(peer[<<n, m>>])
       THEN /\ peer' = [peer EXCEPT ![<<n, m>>].answerCreated = TRUE]
            /\ Commands(n, m, <<Item("createAnswer", None)>>)
       ELSE UNCHANGED <<peer, cmds>>
  /\ UNCHANGED net

\* Slip: a closed data channel leaves the peer as it is.
HandleEvent_KeepsPeer(n, m, e) ==
  CASE e.type = "peerCreated" -> OnPeerCreated(n, m)
    [] e.type = "stateChange" -> OnStateChange(n, m, e.arg)
    [] e.type = "sdpCreated" -> OnSdpCreated(n, m, e.arg)
    [] e.type = "descriptionSet" -> OnDescriptionSet(n, m, e.arg)
    [] OTHER -> UNCHANGED <<peer, cmds, net>>

HandleEvent(n, m, e) ==
  CASE e.type = "peerCreated" -> OnPeerCreated(n, m)
    [] e.type = "stateChange" -> OnStateChange(n, m, e.arg)
    [] e.type = "sdpCreated" -> OnSdpCreated(n, m, e.arg)
    [] e.type = "descriptionSet" -> OnDescriptionSet(n, m, e.arg)
    [] OTHER -> Close(n, m) /\ UNCHANGED net        \* dataChannelClose

ControllerStep(n, m) ==
  /\ events[<<n, m>>] # << >>
  /\ events' = [events EXCEPT ![<<n, m>>] = Tail(@)]
  /\ LET e == Head(events[<<n, m>>]) IN
     IF peer[<<n, m>>] = None THEN UNCHANGED <<peer, cmds, net>>
     ELSE IF e.type = "peerClosed"
       THEN peer' = [peer EXCEPT ![<<n, m>>] = None] /\ UNCHANGED <<cmds, net>>
       ELSE HandleEvent(n, m, e)
  /\ UNCHANGED <<pc, made, faults>>

-----------------------------------------------------------------------------
(* The proxy: handleCommand.                                               *)
CreatePeer(n, m) ==
  /\ made' = made + 1
  /\ pc' = [pc EXCEPT ![<<n, m>>] = NewPc(made + 1)]
  /\ Reports(n, m, (IF pc[<<n, m>>] = None THEN << >> ELSE <<Item("peerClosed", None)>>)
                     \o <<Item("peerCreated", None)>>)

ClosePc(n, m) ==
  /\ pc' = [pc EXCEPT ![<<n, m>>] = None]
  /\ Reports(n, m, <<Item("peerClosed", None)>>)
  /\ UNCHANGED made

(* An offer that meets an exchange in progress rolls that one back.        *)
Ask(n, m, c) ==
  LET rolls == c.type = "setRemote" /\ c.arg.type = "offer" /\ pc[<<n, m>>].signaling # "stable"
  IN  /\ pc' = [pc EXCEPT ![<<n, m>>].ops = Append(@, IF rolls THEN Item("rollback", c.arg) ELSE c)]
      /\ UNCHANGED <<events, made>>

ProxyStep(n, m) ==
  /\ cmds[<<n, m>>] # << >>
  /\ cmds' = [cmds EXCEPT ![<<n, m>>] = Tail(@)]
  /\ LET c == Head(cmds[<<n, m>>]) IN
     IF c.type = "createPeer" THEN CreatePeer(n, m)
     ELSE IF pc[<<n, m>>] = None THEN UNCHANGED <<pc, events, made>>
     ELSE IF c.type = "closePeer" THEN ClosePc(n, m) ELSE Ask(n, m, c)
  /\ UNCHANGED <<peer, net, faults>>

-----------------------------------------------------------------------------
(* The browser: a connection does one operation after the other, and       *)
(* refuses those its signaling state does not allow.                       *)
OpResult(p, op) ==
  LET after(q, items) == [pc |-> [q EXCEPT !.ops = Tail(@)], reports |-> items]
      done(q) == after(q, <<Item("descriptionSet", TRUE)>>)
      refused == after(p, <<Item("descriptionSet", FALSE)>>)
      sdp == op.arg
  IN
  CASE op.type = "createOffer" -> after(p, <<Item("sdpCreated", Offer(p.id))>>)
    [] op.type = "createAnswer" ->
         IF p.signaling = "remoteOffer"
           THEN after(p, <<Item("sdpCreated", Answer(p.id, p.remote))>>) ELSE after(p, << >>)
    [] op.type = "setLocal" /\ sdp.type = "offer" ->
         IF p.signaling # "remoteOffer"
           THEN done([p EXCEPT !.signaling = "localOffer", !.local = sdp]) ELSE refused
    [] op.type = "setLocal" /\ sdp.type = "answer" ->
         IF p.signaling = "remoteOffer"
           THEN done([p EXCEPT !.signaling = "stable", !.local = sdp]) ELSE refused
    [] op.type = "rollback" ->
         IF p.signaling # "stable"
           THEN after([p EXCEPT !.signaling = "stable", !.local = None,
                             !.ops = Append(@, Item("setRemote", sdp))], << >>)
           ELSE refused
    [] op.type = "setRemote" /\ sdp.type = "offer" ->
         done([p EXCEPT !.signaling = "remoteOffer", !.remote = sdp])
    [] OTHER ->
         IF p.signaling = "localOffer"
           THEN done([p EXCEPT !.signaling = "stable", !.remote = sdp]) ELSE refused

PcStep(n, m) ==
  /\ Quiet(n)
  /\ pc[<<n, m>>] # None
  /\ pc[<<n, m>>].ops # << >>
  /\ LET r == OpResult(pc[<<n, m>>], Head(pc[<<n, m>>].ops)) IN
     pc' = [pc EXCEPT ![<<n, m>>] = r.pc] /\ Reports(n, m, r.reports)
  /\ UNCHANGED <<peer, cmds, net, made, faults>>

(* Two connections meet if each holds the other's description.             *)
Holds(p, q) ==
  /\ p.signaling = "stable" /\ p.remote # None /\ p.remote.id = q.id
  /\ \/ p.remote.type = "answer" /\ p.remote.of = p.id
     \/ p.remote.type = "offer" /\ p.local = Answer(p.id, p.remote)
Meet(n, m) ==
  /\ pc[<<n, m>>] # None /\ pc[<<m, n>>] # None
  /\ Holds(pc[<<n, m>>], pc[<<m, n>>]) /\ Holds(pc[<<m, n>>], pc[<<n, m>>])

Connects(n, m) ==
  /\ Quiet(n)
  /\ Meet(n, m) /\ pc[<<n, m>>].conn = "new"
  /\ pc' = [pc EXCEPT ![<<n, m>>].conn = "connected"]
  /\ Reports(n, m, <<Item("stateChange", "connected")>>)
  /\ UNCHANGED <<peer, cmds, net, made, faults>>

(* A connection fails if the other side's is gone, or at any time as a     *)
(* fault; before it has both descriptions it does not even try.            *)
Tries(p) == p.local # None /\ p.remote # None
Fails(n, m) ==
  /\ Quiet(n)
  /\ pc[<<n, m>>] # None
  /\ Tries(pc[<<n, m>>])
  /\ \/ pc[<<m, n>>] = None /\ UNCHANGED faults
     \/ pc[<<m, n>>] # None /\ pc[<<m, n>>].id # pc[<<n, m>>].remote.id /\ UNCHANGED faults
     \/ faults > 0 /\ faults' = faults - 1
  /\ \/ pc' = [pc EXCEPT ![<<n, m>>] = None] /\ Reports(n, m, <<Item("stateChange", "failed")>>)
     \/ /\ pc[<<n, m>>].conn = "connected"
        /\ pc' = [pc EXCEPT ![<<n, m>>].conn = "closed"]
        /\ Reports(n, m, <<Item("dataChannelClose", None)>>)
  /\ UNCHANGED <<peer, cmds, net, made>>

Lose(msg) ==
  /\ faults > 0 /\ faults' = faults - 1
  /\ net' = net \ {msg}
  /\ UNCHANGED <<peer, pc, queues, made>>

Restart(n) ==
  /\ faults > 0 /\ faults' = faults - 1
  /\ LET gone(f, nothing) == [l \in Links |-> IF l[1] = n THEN nothing ELSE f[l]] IN
     /\ peer' = gone(peer, None) /\ pc' = gone(pc, None)
     /\ cmds' = gone(cmds, << >>) /\ events' = gone(events, << >>)
  /\ UNCHANGED <<net, made>>

-----------------------------------------------------------------------------
Init ==
  /\ peer = [l \in Links |-> None] /\ pc = [l \in Links |-> None]
  /\ cmds = [l \in Links |-> << >>] /\ events = [l \in Links |-> << >>]
  /\ net = {} /\ made = 0 /\ faults = Faults

LinkStep(n, m) ==
  ControllerStep(n, m) \/ ProxyStep(n, m) \/ PcStep(n, m) \/ Connects(n, m)

Next ==
  \/ \E l \in Links : HandleHello(l[1], l[2]) \/ LinkStep(l[1], l[2]) \/ Fails(l[1], l[2])
  \/ \E msg \in net : Receive(msg) \/ Lose(msg)
  \/ \E n \in Nodes : Restart(n)

Deliver(n, m) == \E msg \in net : msg.from = n /\ msg.to = m /\ Receive(msg)

Spec == Init /\ [][Next]_vars

(* Queues are drained, relays deliver what they do not lose, browsers get  *)
(* on with what they were asked, and hellos come again and again.          *)
FairSpec ==
  /\ Spec
  /\ \A l \in Links : /\ WF_vars(HandleHello(l[1], l[2]))
                      /\ WF_vars(LinkStep(l[1], l[2]))
                      /\ WF_vars(Deliver(l[1], l[2]))

-----------------------------------------------------------------------------
Sdps == [type : {"offer", "answer"}, id : 1..made, of : {None} \cup 1..made]

TypeOK ==
  /\ \A l \in Links :
       /\ peer[l] \in {None} \cup [direction : {"inbound", "outbound"},
                                  state : {"connecting", "connected"}, answerCreated : BOOLEAN]
       /\ pc[l] # None =>
            /\ pc[l].id \in 1..made
            /\ pc[l].signaling \in {"stable", "localOffer", "remoteOffer"}
            /\ pc[l].local \in Sdps \cup {None} /\ pc[l].remote \in Sdps \cup {None}
            /\ pc[l].conn \in {"new", "connected", "closed"}
            /\ pc[l].signaling = "localOffer" => pc[l].local.type = "offer"
            /\ pc[l].signaling = "remoteOffer" => pc[l].remote.type = "offer"
  /\ \A msg \in net : msg.sdp \in Sdps

Still(n, m) == cmds[<<n, m>>] = << >> /\ events[<<n, m>>] = << >>
AtRest(n, m) == Still(n, m) /\ (pc[<<n, m>>] # None => pc[<<n, m>>].ops = << >>)

(* Whatever fails, is lost or restarts, a node that has caught up has a    *)
(* record for exactly the connections its proxy holds: none leaks, and no  *)
(* record waits for a connection that is not there.                        *)
ProxyAgrees == \A l \in Links : Still(l[1], l[2]) => (peer[l] = None <=> pc[l] = None)

(* A peer counts as connected only while its present connection is: no     *)
(* report of an earlier connection is taken for it.                        *)
ConnectedMeansOpen ==
  \A l \in Links :
    (Still(l[1], l[2]) /\ peer[l] # None /\ pc[l] # None /\ peer[l].state = "connected") =>
      pc[l].conn = "connected"

(* The sides never both call themselves the initiator, so no collision can *)
(* leave each waiting for the other's answer.                              *)
OneInitiator ==
  \A l \in Links :
    LET back == <<l[2], l[1]>> IN
    ~(/\ peer[l] # None /\ peer[l].direction = "outbound"
      /\ peer[back] # None /\ peer[back].direction = "outbound")

(* Controller and proxy, and the two sides, agree on what exists.          *)
HalvesAgree == TypeOK /\ ProxyAgrees /\ ConnectedMeansOpen /\ OneInitiator

(* createOutboundPeer: the proxy creates the peer and the controller, when *)
(* it hears of it, asks for an offer.  So the record is still there then,  *)
(* unless the controller has closed the peer again itself.                 *)
OfferRequested ==
  [][\A l \in Links :
       (/\ events[l] # << >> /\ Head(events[l]).type = "peerCreated"
        /\ events'[l] = Tail(events[l]) /\ peer[l] = None) =>
         \E i \in DOMAIN cmds[l] : cmds[l][i].type = "closePeer"]_vars

(* An answer is asked of the browser only when it holds an offer.          *)
AnswersAllowed ==
  [][\A l \in Links :
       (/\ pc[l] # None /\ pc[l].ops # << >> /\ Head(pc[l].ops).type = "createAnswer"
        /\ pc'[l] # None /\ pc'[l].ops = Tail(pc[l].ops)) => pc[l].signaling = "remoteOffer"]_vars

(* The controller's requests reach a connection that can serve them.       *)
RequestsInTime == OfferRequested /\ AnswersAllowed

(* If nothing is lost and nothing fails, two nodes that hear each other's  *)
(* hellos end up connected on both sides.                                  *)
EventuallyConnected ==
  [](faults = Faults) => <>[](\A l \in Links : peer[l] # None /\ peer[l].state = "connected")
=============================================================================
