-------------------------- MODULE MeshNode_proofs ---------------------------
(***************************************************************************)
(* The data plane of a mesh node, for any peers, requests, responses and   *)
(* gets: no entry and no deferred request is left with nobody to end it,   *)
(* no peer is sent more than it asked for, the marks are let go with the   *)
(* machine, and who is marked is served.                                   *)
(*                                                                         *)
(* The invariant has four parts that hardly touch one another: what the    *)
(* node knows of its peers, the entries with their timeouts, the requests  *)
(* with their queues, and the account of what was answered.                *)
(***************************************************************************)
EXTENDS MeshNode, FiniteSetTheorems, SequenceTheorems, TLAPS

NetOK ==
  /\ peers \in [Ids -> Conns \cup {None}]
  /\ ready \subseteq Conns /\ paused \subseteq Conns /\ marked \subseteq Conns
  /\ waiting \subseteq {Hash} \X Ids
  /\ recent \in BOOLEAN /\ echo \subseteq Ids /\ broken \subseteq Conns
  /\ blob \in {"none", "good"}

-----------------------------------------------------------------------------
(* Entries, their timeouts, and the gets and responses that hold them.     *)
Outcomes == {"none", "open", "data", "null"}

GetFrames ==
  [pc : {"idle", "waiting", "found", "nothing"}, rest : SUBSET Conns, task : [Conns -> Outcomes]]

ResponseFrames ==
  [pc : {"idle", "checking", "storing", "failed", "done"}, conn : Conns \cup {None},
   valid : BOOLEAN, owner : Owners \cup {None}, push : BOOLEAN, requested : BOOLEAN,
   asking : SUBSET Conns]

(* A response in progress knows who sent it, stores only what verified,    *)
(* and will push if somebody was marked when it came.                      *)
SoundFrames ==
  {frame \in ResponseFrames :
     /\ frame.pc \in {"checking", "storing"} => frame.conn \in Conns
     /\ frame.pc \in {"storing", "failed"} => frame.valid
     /\ frame.asking # {} => frame.push}

EntriesOK ==
  /\ pending \in [Conns -> Owners \cup {None}]
  /\ timers \subseteq Owners \X Conns
  /\ got \in [Gets -> GetFrames]
  /\ response \in [Responses -> SoundFrames]
  /\ \A c \in Open : pending[c] # None => <<pending[c], c>> \in timers

-----------------------------------------------------------------------------
(* Requests and the queues of paused peers: a queue holds the deferred     *)
(* requests of its peer, each once, and if the peer is not paused a loop   *)
(* is at work on them, or its last loop was ended by a throw.              *)
RequestFrames ==
  [pc : {"idle", "deferred", "reading", "done"}, conn : Conns \cup {None},
   forwardable : BOOLEAN, mayMiss : BOOLEAN, draining : BOOLEAN]

RequestTypes ==
  /\ request \in [Requests -> RequestFrames]
  /\ deferred \in [Conns -> Seq(Requests)]
  /\ \A r \in Requests : request[r].pc # "idle" => request[r].conn \in Conns

QueuesOK ==
  \A c \in Conns :
    /\ Len(deferred[c]) <= MaxDeferred
    /\ \A i \in 1..Len(deferred[c]) :
         /\ request[deferred[c][i]].pc = "deferred"
         /\ request[deferred[c][i]].conn = c
         /\ \A j \in 1..Len(deferred[c]) : deferred[c][i] = deferred[c][j] => i = j

Drains(c) == \E r \in Requests : Draining(r, c)
LoopsAtWork ==
  \A c \in Conns : c \notin paused \cup broken /\ deferred[c] # << >> => Drains(c)

RequestsOK == RequestTypes /\ QueuesOK /\ LoopsAtWork

-----------------------------------------------------------------------------
(* The account: the answers sent to a peer and the marks it has left are   *)
(* together no more than its requests that are over.                       *)
Marks(id) == {c \in marked : IdOf[c] = id}
Over(id) == {r \in Requests : /\ request[r].pc = "done" /\ request[r].conn # None
                              /\ IdOf[request[r].conn] = id}

AccountOK ==
  /\ answered \in [Ids -> Nat]
  /\ \A id \in Ids : answered[id] + Cardinality(Marks(id)) <= Cardinality(Over(id))

IInv == NetOK /\ EntriesOK /\ RequestsOK /\ AccountOK

-----------------------------------------------------------------------------
(* What the node knows of its peers stays of its type.                     *)
LEMMA NextKeepsNet ==
  ASSUME NetOK, EntriesOK, RequestTypes, Next
  PROVE  NetOK'
<1> USE ConnsAssumption DEF NetOK, netVars, entryVars
<1>1. ASSUME NEW c \in Conns, PeerStep(c) PROVE NetOK'
  <2>1. ASSUME NEW r \in Requests, NEW forwardable \in BOOLEAN, ReceiveRequest(r, c, forwardable)
        PROVE  NetOK'
    BY <2>1 DEF ReceiveRequest
  <2>2. ASSUME NEW s \in Responses, NEW valid \in BOOLEAN, ReceiveResponse(s, c, valid)
        PROVE  NetOK'
    <3>1. recent' \in BOOLEAN
      BY <2>2 DEF ReceiveResponse, ReceiveAwaited, ReceiveLate
    <3> QED  BY <2>2, <3>1 DEF ReceiveResponse
  <2>3. CASE BufferHigh(c)
    BY <2>3 DEF BufferHigh
  <2>4. CASE BufferLow(c)
    BY <2>4 DEF BufferLow
  <2>5. CASE CreatePeer(c)
    BY <2>5 DEF CreatePeer
  <2>6. CASE ChannelOpen(c)
    BY <2>6 DEF ChannelOpen
  <2>7. ASSUME NEW channelClosed \in BOOLEAN, ClosePeer(c, channelClosed)
        PROVE  NetOK'
    BY <2>7 DEF ClosePeer, Machine!ReleasePeer
  <2>8. ASSUME NEW owner \in Owners, EntryTimeout(owner, c) PROVE NetOK'
    BY <2>8 DEF EntryTimeout
  <2> QED  BY <1>1, <2>1, <2>2, <2>3, <2>4, <2>5, <2>6, <2>7, <2>8 DEF PeerStep
<1>2. ASSUME NEW r \in Requests, ReadHit(r) \/ ReadFails(r) PROVE NetOK'
  BY <1>2 DEF ReadHit, ReadFails, RequestTypes
<1>3. ASSUME NEW r \in Requests, ReadMiss(r) PROVE NetOK'
  <2>1. request[r].conn \in Conns
    BY <1>3 DEF ReadMiss, RequestTypes
  <2>2. marked' \subseteq Conns /\ waiting' \subseteq {Hash} \X Ids
    BY <1>3, <2>1 DEF ReadMiss, ReadMissKept, ReadMissRefused, ReadMissJoins, ReadMissForwards,
                     Machine!Join
  <2> QED  BY <1>3, <2>2 DEF ReadMiss
<1>4. ASSUME NEW s \in Responses, CheckResponse(s) \/ StorePut(s) \/ PutFails(s) PROVE NetOK'
  <2>1. blob' \in {"none", "good"}
    BY <1>4 DEF CheckResponse, StorePut, PutFails, EntriesOK, SoundFrames
  <2> QED  BY <1>4, <2>1 DEF CheckResponse, StorePut, PutFails
<1>5. ASSUME NEW s \in Responses, PushResponse(s) PROVE NetOK'
  BY <1>5 DEF PushResponse, PushToRequesters, Machine!ReleaseHash
<1>6. ASSUME NEW g \in Gets, GetStep(g) PROVE NetOK'
  BY <1>6 DEF GetStep, GetStart, GetHedge, GetReturn, GetGiveUp
<1>7. CASE ForwardTimeout
  BY <1>7 DEF ForwardTimeout, Machine!ReleaseHash
<1>8. ASSUME NEW id \in Ids, PeerClosed(id) PROVE NetOK'
  BY <1>8 DEF PeerClosed
<1> QED  BY <1>1, <1>2, <1>3, <1>4, <1>5, <1>6, <1>7, <1>8 DEF Next

-----------------------------------------------------------------------------
(* Entries keep their timeouts.                                            *)
LEMMA ResolveKeeps ==
  ASSUME got \in [Gets -> GetFrames], NEW owner, NEW c \in Conns, NEW outcome \in Outcomes,
         Resolve(owner, c, outcome)
  PROVE  got' \in [Gets -> GetFrames]
BY DEF Resolve, GetFrames

LEMMA SettledType == Settled \in SoundFrames /\ Settled.pc = "done"
BY DEF Settled, Response, ResponseFrames, SoundFrames

LEMMA CheckingType ==
  ASSUME NEW c \in Conns, NEW valid \in BOOLEAN, NEW owner \in Owners \cup {None},
         NEW push \in BOOLEAN, NEW requested \in BOOLEAN, NEW asking \in SUBSET Conns,
         asking # {} => push
  PROVE  Response("checking", c, valid, owner, push, requested, asking) \in SoundFrames
BY DEF Response, ResponseFrames, SoundFrames

LEMMA AskWaveKeeps ==
  ASSUME EntriesOK, NEW g \in Gets, NEW wave \in SUBSET Conns, NEW rest \in SUBSET Conns,
         AskWave(g, wave, rest), UNCHANGED <<peers, response>>
  PROVE  EntriesOK'
<1>1. g \in Owners
  BY DEF Owners
<1>2. pending' \in [Conns -> Owners \cup {None}] /\ timers' \subseteq Owners \X Conns
  BY <1>1 DEF AskWave, EntriesOK
<1>3. got' \in [Gets -> GetFrames]
  <2>1. [c \in Conns |-> IF c \in wave THEN "open" ELSE got[g].task[c]] \in [Conns -> Outcomes]
    BY DEF EntriesOK, GetFrames, Outcomes
  <2> DEFINE frame == Get("waiting", rest \ wave,
                          [c \in Conns |-> IF c \in wave THEN "open" ELSE got[g].task[c]])
  <2>2. frame \in GetFrames
    BY <2>1 DEF Get, GetFrames
  <2>3. got' = [got EXCEPT ![g] = frame]
    BY DEF AskWave
  <2> HIDE DEF frame
  <2> QED  BY <2>2, <2>3 DEF EntriesOK
<1>4. \A c \in Open' : pending'[c] # None => <<pending'[c], c>> \in timers'
  BY DEF AskWave, EntriesOK, Open, Current
<1> QED  BY <1>2, <1>3, <1>4 DEF EntriesOK

LEMMA ClearKeeps ==
  ASSUME EntriesOK, NEW g \in Gets, NEW keep, ClearPendingHash(keep),
         NEW pc \in {"found", "nothing"}, got' = [got EXCEPT ![g] = Get(pc, {}, NotAsked)],
         UNCHANGED <<peers, response>>
  PROVE  EntriesOK'
<1>1. pending' \in [Conns -> Owners \cup {None}] /\ timers' \subseteq Owners \X Conns
  BY DEF ClearPendingHash, EntriesOK
<1>2. got' \in [Gets -> GetFrames]
  <2>1. Get(pc, {}, NotAsked) \in GetFrames
    BY DEF Get, NotAsked, GetFrames, Outcomes
  <2> QED  BY <2>1 DEF EntriesOK
<1>3. \A c \in Open' : pending'[c] # None => <<pending'[c], c>> \in timers'
  <2> DEFINE cleared == {c \in Open : IdOf[c] # keep /\ pending[c] # None}
  <2>1. /\ pending' = [c \in Conns |-> IF c \in cleared THEN None ELSE pending[c]]
        /\ timers' = timers \ {<<pending[c], c>> : c \in cleared}
        /\ Open' = Open /\ Open \subseteq Conns
    BY DEF ClearPendingHash, Open, Current
  <2> SUFFICES ASSUME NEW c \in Open, pending'[c] # None PROVE <<pending'[c], c>> \in timers'
    BY <2>1
  <2> HIDE DEF cleared
  <2>2. c \in Conns /\ c \notin cleared /\ pending'[c] = pending[c]
    BY <2>1
  <2>3. <<pending[c], c>> \in timers
    BY <2>2 DEF EntriesOK
  <2> QED  BY <2>1, <2>2, <2>3
<1> QED  BY <1>1, <1>2, <1>3 DEF EntriesOK

LEMMA PeerStepKeepsEntries ==
  ASSUME NetOK, EntriesOK, NEW c \in Conns, PeerStep(c)
  PROVE  EntriesOK'
<1> USE ConnsAssumption, NoneAssumption DEF netVars, entryVars
<1>1. UNCHANGED <<peers, pending, timers, got, response>> => EntriesOK'
  BY DEF EntriesOK, Open, Current
<1>2. ASSUME NEW r \in Requests, NEW forwardable \in BOOLEAN, ReceiveRequest(r, c, forwardable)
      PROVE  EntriesOK'
  BY <1>1, <1>2 DEF ReceiveRequest
<1>3. ASSUME NEW s \in Responses, NEW valid \in BOOLEAN, ReceiveResponse(s, c, valid)
      PROVE  EntriesOK'
  <2>1. UNCHANGED <<peers, got>>
    BY <1>3 DEF ReceiveResponse
  <2>2. response' \in [Responses -> SoundFrames]
    <3>1. /\ pending[c] \in Owners \cup {None} /\ recent \in BOOLEAN
          /\ Open \cap marked \in SUBSET Conns
      BY DEF EntriesOK, NetOK, Open
    <3>2. PICK asking \in SUBSET Conns, some \in BOOLEAN :
            asking = Open \cap marked /\ some = HasRequesters /\ (asking # {} => some)
      BY <3>1 DEF HasRequesters
    <3>3. CASE ReceiveAwaited(s, c, valid)
      <4>1. Response("checking", c, valid, pending[c], TRUE, FALSE, asking) \in SoundFrames
        BY <3>1, CheckingType
      <4> QED  BY <3>2, <3>3, <4>1 DEF ReceiveAwaited, EntriesOK
    <3>4. CASE ReceiveLate(s, c, valid)
      <4>1. Response("checking", c, valid, None, some, recent, asking) \in SoundFrames
        BY <3>1, <3>2, CheckingType
      <4> QED  BY <3>2, <3>4, <4>1, SettledType DEF ReceiveLate, EntriesOK
    <3> QED  BY <1>3, <3>3, <3>4 DEF ReceiveResponse
  <2>3. /\ pending' \in [Conns -> Owners \cup {None}] /\ timers' \subseteq Owners \X Conns
        /\ \A d \in Open' : pending'[d] # None => <<pending'[d], d>> \in timers'
    BY <1>3, <2>1 DEF ReceiveResponse, ReceiveAwaited, ReceiveLate, EntriesOK, Open, Current
  <2> QED  BY <2>1, <2>2, <2>3 DEF EntriesOK
<1>4. CASE BufferHigh(c) \/ BufferLow(c) \/ ChannelOpen(c)
  BY <1>1, <1>4 DEF BufferHigh, BufferLow, ChannelOpen
<1>5. CASE CreatePeer(c)
  BY <1>5 DEF CreatePeer, EntriesOK, NetOK, Open, Current
<1>6. ASSUME NEW channelClosed \in BOOLEAN, ClosePeer(c, channelClosed) PROVE EntriesOK'
  <2>1. got' \in [Gets -> GetFrames]
    BY <1>6, ResolveKeeps DEF ClosePeer, EntriesOK, Outcomes
  <2>2. \A d \in Open' : d \in Open /\ d # c
    BY <1>6 DEF ClosePeer, NetOK, Open, Current
  <2>3. \A d \in Open' : pending'[d] # None => <<pending'[d], d>> \in timers'
    BY <1>6, <2>2 DEF ClosePeer, EntriesOK
  <2> QED  BY <1>6, <2>1, <2>3 DEF ClosePeer, EntriesOK
<1>7. ASSUME NEW owner \in Owners, EntryTimeout(owner, c) PROVE EntriesOK'
  <2>1. got' \in [Gets -> GetFrames]
    BY <1>7, ResolveKeeps DEF EntryTimeout, EntriesOK, Outcomes
  <2>2. \A d \in Open' : pending'[d] # None => <<pending'[d], d>> \in timers'
    BY <1>7 DEF EntryTimeout, EntriesOK, Open, Current
  <2> QED  BY <1>7, <2>1, <2>2 DEF EntryTimeout, EntriesOK
<1> QED  BY <1>2, <1>3, <1>4, <1>5, <1>6, <1>7 DEF PeerStep

LEMMA NextKeepsEntries ==
  ASSUME NetOK, EntriesOK, RequestTypes, Next
  PROVE  EntriesOK'
<1> USE ConnsAssumption, NoneAssumption DEF netVars, entryVars
<1>1. UNCHANGED <<peers, pending, timers, got, response>> => EntriesOK'
  BY DEF EntriesOK, Open, Current
<1>2. ASSUME NEW r \in Requests, ReadHit(r) \/ ReadFails(r) PROVE EntriesOK'
  BY <1>1, <1>2 DEF ReadHit, ReadFails
<1>3. ASSUME NEW r \in Requests, ReadMiss(r) PROVE EntriesOK'
  <2>1. UNCHANGED <<peers, got, response>>
    BY <1>3 DEF ReadMiss
  <2>2. CASE UNCHANGED entryVars
    BY <1>1, <2>1, <2>2
  <2>3. CASE ReadMissForwards(r)
    <3>1. r \in Owners /\ Targets(request[r].conn) \subseteq Conns
      BY DEF Owners, Targets, Open
    <3> QED  BY <2>1, <2>3, <3>1 DEF ReadMissForwards, EntriesOK, Open, Current
  <2> QED  BY <1>3, <2>2, <2>3 DEF ReadMiss, ReadMissKept, ReadMissRefused, ReadMissJoins
<1>4. ASSUME NEW s \in Responses, CheckResponse(s) \/ StorePut(s) \/ PutFails(s) PROVE EntriesOK'
  <2>1. CASE CheckResponse(s)
    <3>1. response[s] \in SoundFrames /\ response[s].conn \in Conns
      BY <2>1 DEF CheckResponse, EntriesOK, SoundFrames
    <3>2. got' \in [Gets -> GetFrames]
      BY <2>1, <3>1, ResolveKeeps DEF CheckResponse, EntriesOK, Outcomes
    <3>3. response' \in [Responses -> SoundFrames]
      <4>1. CASE response' = [response EXCEPT ![s] = Settled]
        BY <4>1, SettledType DEF EntriesOK
      <4>2. CASE response' = [response EXCEPT ![s].pc = "storing"] /\ response[s].valid
        <5>1. [response[s] EXCEPT !.pc = "storing"] \in SoundFrames
          BY <3>1, <4>2 DEF ResponseFrames, SoundFrames
        <5> QED  BY <4>2, <5>1 DEF EntriesOK
      <4> QED  BY <2>1, <4>1, <4>2 DEF CheckResponse
    <3> QED  BY <2>1, <3>2, <3>3 DEF CheckResponse, EntriesOK, Open, Current
  <2>2. CASE StorePut(s)
    BY <1>1, <2>2 DEF StorePut
  <2>3. CASE PutFails(s)
    <3>1. /\ response[s].valid \in BOOLEAN /\ response[s].valid
      BY <2>3 DEF PutFails, EntriesOK, SoundFrames, ResponseFrames
    <3>2. Response("failed", None, response[s].valid, None, FALSE, FALSE, {}) \in SoundFrames
      BY <3>1 DEF Response, ResponseFrames, SoundFrames
    <3> QED  BY <2>3, <3>2 DEF PutFails, EntriesOK, Open, Current
  <2> QED  BY <1>4, <2>1, <2>2, <2>3
<1>5. ASSUME NEW s \in Responses, PushResponse(s) PROVE EntriesOK'
  <2>1. response[s].conn \in Conns
    BY <1>5 DEF PushResponse, EntriesOK, SoundFrames
  <2>2. got' \in [Gets -> GetFrames]
    BY <1>5, <2>1, ResolveKeeps DEF PushResponse, EntriesOK, Outcomes
  <2> QED  BY <1>5, <2>2, SettledType DEF PushResponse, EntriesOK, Open, Current
<1>6. ASSUME NEW g \in Gets, GetStep(g) PROVE EntriesOK'
  <2>1. ASSUME NEW wave \in SUBSET Conns, GetStart(g, wave) PROVE EntriesOK'
    <3>1. Open \cap ready \in SUBSET Conns
      BY DEF NetOK
    <3> QED  BY <2>1, <3>1, AskWaveKeeps DEF GetStart
  <2>2. ASSUME NEW wave \in SUBSET Conns, GetHedge(g, wave) PROVE EntriesOK'
    <3>1. got[g].rest \in SUBSET Conns
      BY DEF EntriesOK, GetFrames
    <3> QED  BY <2>2, <3>1, AskWaveKeeps DEF GetHedge
  <2>3. ASSUME NEW c \in Conns, GetReturn(g, c) PROVE EntriesOK'
    BY <2>3, ClearKeeps DEF GetReturn
  <2>4. CASE GetGiveUp(g)
    BY <2>4, ClearKeeps DEF GetGiveUp
  <2> QED  BY <1>6, <2>1, <2>2, <2>3, <2>4 DEF GetStep
<1>7. CASE ForwardTimeout
  BY <1>1, <1>7 DEF ForwardTimeout
<1>8. ASSUME NEW id \in Ids, PeerClosed(id) PROVE EntriesOK'
  <2>1. \A d \in Open' : d \in Open
    BY <1>8 DEF PeerClosed, NetOK, Open, Current
  <2> QED  BY <1>8, <2>1 DEF PeerClosed, EntriesOK
<1> QED  BY <1>2, <1>3, <1>4, <1>5, <1>6, <1>7, <1>8, PeerStepKeepsEntries DEF Next

-----------------------------------------------------------------------------
(* Queues keep their loops.  First, what it means that the loop of a peer  *)
(* shifts its queue after requests that are not deferred may have changed. *)
LEMMA ReadingType ==
  ASSUME RequestTypes, NEW r \in Requests, NEW draining \in BOOLEAN
  PROVE  /\ Reading(r, draining) \in RequestFrames
         /\ Reading(r, draining).pc = "reading" /\ Reading(r, draining).conn = request[r].conn
         /\ Reading(r, draining).draining = draining
BY DEF RequestTypes, RequestFrames, Reading

LEMMA DoneType ==
  ASSUME NEW frame \in RequestFrames
  PROVE  /\ Done(frame) \in RequestFrames
         /\ Done(frame).pc = "done" /\ Done(frame).conn = frame.conn
BY DEF RequestFrames, Done

LEMMA QueueShifts ==
  ASSUME RequestTypes, QueuesOK, NEW c \in Conns, deferred[c] # << >>
  PROVE  /\ Head(deferred[c]) \in Requests /\ Head(deferred[c]) = deferred[c][1]
         /\ request[Head(deferred[c])].pc = "deferred" /\ request[Head(deferred[c])].conn = c
         /\ Tail(deferred[c]) \in Seq(Requests) /\ Len(Tail(deferred[c])) < Len(deferred[c])
         /\ \A i \in 1..Len(Tail(deferred[c])) :
              /\ Tail(deferred[c])[i] = deferred[c][i + 1] /\ i + 1 \in 1..Len(deferred[c])
              /\ Tail(deferred[c])[i] # Head(deferred[c])
<1> DEFINE queue == deferred[c]
<1>1. queue \in Seq(Requests) /\ queue # << >>
  BY DEF RequestTypes
<1>2. Len(queue) \in Nat \ {0}
  BY <1>1, EmptySeq
<1>3. /\ Head(queue) \in Requests /\ Head(queue) = queue[1]
      /\ Tail(queue) \in Seq(Requests) /\ Len(Tail(queue)) = Len(queue) - 1
      /\ \A i \in 1..Len(Tail(queue)) : Tail(queue)[i] = queue[i + 1]
  BY <1>1, HeadTailProperties
<1>4. \A i \in 1..Len(queue) :
         /\ request[queue[i]].pc = "deferred" /\ request[queue[i]].conn = c
         /\ \A j \in 1..Len(queue) : queue[i] = queue[j] => i = j
  BY DEF QueuesOK
<1> HIDE DEF queue
<1>5. 1 \in 1..Len(queue) /\ \A i \in 1..Len(Tail(queue)) : i + 1 \in 1..Len(queue) /\ i + 1 # 1
  BY <1>2, <1>3
<1>6. \A i \in 1..Len(Tail(queue)) : Tail(queue)[i] # Head(queue)
  BY <1>3, <1>4, <1>5
<1>7. Len(Tail(queue)) < Len(queue)
  BY <1>2, <1>3
<1> QED  BY <1>3, <1>4, <1>5, <1>6, <1>7 DEF queue

LEMMA DrainedKeeps ==
  ASSUME RequestTypes, QueuesOK, NEW c \in Conns, NEW again \in BOOLEAN,
         NEW requests \in [Requests -> RequestFrames],
         \A x \in Requests : request[x].pc = "deferred" => requests[x] = request[x],
         \A x \in Requests : requests[x].pc # "idle" => requests[x].conn \in Conns,
         Drained(c, again, requests)
  PROVE  /\ RequestTypes' /\ QueuesOK'
         /\ ~again /\ deferred'[c] # << >> => Drains(c)'
         /\ \A d \in Conns \ {c} : deferred'[d] = deferred[d]
         /\ \A x \in Requests :
              \/ request'[x] = requests[x]
              \/ /\ request[x].pc = "deferred"
                 /\ request'[x].pc = "reading" /\ request'[x].conn = request[x].conn
<1>1. CASE ~again /\ deferred[c] # << >>
  <2> DEFINE head == Head(deferred[c])
             tail == Tail(deferred[c])
  <2>1. /\ head \in Requests
        /\ request[head].pc = "deferred" /\ request[head].conn = c
        /\ tail \in Seq(Requests) /\ Len(tail) < Len(deferred[c])
        /\ \A i \in 1..Len(tail) :
             tail[i] = deferred[c][i + 1] /\ i + 1 \in 1..Len(deferred[c]) /\ tail[i] # head
    BY <1>1, QueueShifts
  <2>2. /\ request' = [requests EXCEPT ![head] = Reading(head, TRUE)]
        /\ deferred' = [deferred EXCEPT ![c] = tail]
    BY <1>1 DEF Drained
  <2> HIDE DEF head, tail
  <2>3. /\ Reading(head, TRUE) \in RequestFrames
        /\ Reading(head, TRUE).pc = "reading" /\ Reading(head, TRUE).conn = c
        /\ Reading(head, TRUE).draining
    BY <2>1, ReadingType
  <2>4. RequestTypes'
    BY <2>1, <2>2, <2>3 DEF RequestTypes
  <2>5. \A d \in Conns : deferred'[d] = IF d = c THEN tail ELSE deferred[d]
    BY <2>2 DEF RequestTypes
  <2>6. /\ request'[head] = Reading(head, TRUE)
        /\ \A x \in Requests \ {head} : request'[x] = requests[x]
    BY <2>1, <2>2
  <2>7. QueuesOK'
    <3> SUFFICES ASSUME NEW d \in Conns
                 PROVE  /\ Len(deferred'[d]) <= MaxDeferred
                        /\ \A i \in 1..Len(deferred'[d]) :
                             /\ request'[deferred'[d][i]].pc = "deferred"
                             /\ request'[deferred'[d][i]].conn = d
                             /\ \A j \in 1..Len(deferred'[d]) :
                                  deferred'[d][i] = deferred'[d][j] => i = j
      BY DEF QueuesOK
    <3>1. deferred[d] \in Seq(Requests) /\ Len(deferred[d]) \in Nat /\ Len(tail) \in Nat
      BY <2>1, LenProperties DEF RequestTypes
    <3>2. \A i \in 1..Len(deferred[d]) : deferred[d][i] \in Requests
      BY <3>1, ElementOfSeq
    <3>3. \A i \in 1..Len(deferred[d]) :
             /\ request[deferred[d][i]].pc = "deferred" /\ request[deferred[d][i]].conn = d
             /\ \A j \in 1..Len(deferred[d]) : deferred[d][i] = deferred[d][j] => i = j
      BY DEF QueuesOK
    <3>4. CASE d # c
      <4>1. \A i \in 1..Len(deferred[d]) : deferred[d][i] # head
        BY <2>1, <3>3, <3>4
      <4>2. \A i \in 1..Len(deferred[d]) : request'[deferred[d][i]] = request[deferred[d][i]]
        BY <2>6, <3>2, <3>3, <4>1
      <4>3. Len(deferred[d]) <= MaxDeferred
        BY DEF QueuesOK
      <4> QED  BY <2>5, <3>3, <3>4, <4>2, <4>3
    <3>5. CASE d = c
      <4>1. \A i \in 1..Len(tail) : request'[tail[i]] = request[tail[i]]
        BY <2>1, <2>6, <3>2, <3>3, <3>5
      <4>2. Len(tail) <= MaxDeferred
        BY <2>1, <3>1, <3>5, ConnsAssumption DEF QueuesOK
      <4>3. \A i, j \in 1..Len(tail) : tail[i] = tail[j] => i = j
        BY <2>1, <3>1, <3>3, <3>5
      <4>4. \A i \in 1..Len(tail) : request[tail[i]].pc = "deferred" /\ request[tail[i]].conn = c
        BY <2>1, <3>3, <3>5
      <4> QED  BY <2>5, <3>5, <4>1, <4>2, <4>3, <4>4
    <3> QED  BY <3>4, <3>5
  <2>8. Drains(c)'
    BY <2>1, <2>3, <2>6 DEF Drains, Draining
  <2>9. \A x \in Requests :
          \/ request'[x] = requests[x]
          \/ /\ request[x].pc = "deferred"
             /\ request'[x].pc = "reading" /\ request'[x].conn = request[x].conn
    BY <2>1, <2>3, <2>6
  <2> QED  BY <2>4, <2>5, <2>7, <2>8, <2>9
<1>2. CASE again \/ deferred[c] = << >>
  <2>1. request' = requests /\ deferred' = deferred
    BY <1>2 DEF Drained
  <2>2. \A d \in Conns : \A i \in 1..Len(deferred[d]) : deferred[d][i] \in Requests
    BY ElementOfSeq DEF RequestTypes
  <2>3. QueuesOK'
    BY <2>1, <2>2 DEF QueuesOK
  <2> QED  BY <1>2, <2>1, <2>3 DEF RequestTypes
<1> QED  BY <1>1, <1>2

(* A request that has read ends, and its loop goes on.                     *)
LEMMA FinishKeeps ==
  ASSUME RequestsOK, NEW r \in Requests, request[r].pc = "reading", FinishRequest(r),
         UNCHANGED <<paused, broken>>
  PROVE  /\ RequestsOK'
         /\ request'[r].pc = "done" /\ request'[r].conn = request[r].conn
         /\ \A x \in Requests \ {r} : /\ request'[x].conn = request[x].conn
                                      /\ request'[x].pc = "done" <=> request[x].pc = "done"
<1> DEFINE finished == [request EXCEPT ![r] = Done(@)]
<1>1. RequestTypes /\ QueuesOK /\ LoopsAtWork /\ request[r] \in RequestFrames
  BY DEF RequestsOK, RequestTypes
<1> PICK c \in Conns : c = request[r].conn
  BY DEF RequestsOK, RequestTypes
<1>2. /\ finished \in [Requests -> RequestFrames]
      /\ finished[r].pc = "done" /\ finished[r].conn = c
      /\ \A x \in Requests \ {r} : finished[x] = request[x]
  BY <1>1, DoneType DEF RequestTypes
<1>3. /\ \A x \in Requests : request[x].pc = "deferred" => finished[x] = request[x]
      /\ \A x \in Requests : finished[x].pc # "idle" => finished[x].conn \in Conns
  BY <1>1, <1>2 DEF RequestTypes
<1>4. CASE request[r].draining
  <2>1. PICK again \in BOOLEAN : again <=> c \in paused
    <3>1. CASE c \in paused
      BY <3>1
    <3>2. CASE c \notin paused
      BY <3>2
    <3> QED  BY <3>1, <3>2
  <2>2. Drained(c, again, finished)
    <3>1. Drained(c, c \in paused, finished)
      BY <1>4 DEF FinishRequest
    <3> QED  BY <2>1, <3>1 DEF Drained
  <2> HIDE DEF finished
  <2>3. /\ RequestTypes' /\ QueuesOK'
        /\ c \notin paused /\ deferred'[c] # << >> => Drains(c)'
        /\ \A d \in Conns \ {c} : deferred'[d] = deferred[d]
        /\ \A x \in Requests :
              \/ request'[x] = finished[x]
              \/ /\ request[x].pc = "deferred"
                 /\ request'[x].pc = "reading" /\ request'[x].conn = request[x].conn
    BY <1>1, <1>2, <1>3, <2>1, <2>2, DrainedKeeps
  <2>4. LoopsAtWork'
    <3> SUFFICES ASSUME NEW d \in Conns, d \notin paused \cup broken, deferred'[d] # << >>
                 PROVE  Drains(d)'
      BY DEF LoopsAtWork
    <3>1. CASE d # c
      <4>1. PICK x \in Requests : /\ request[x].conn = d /\ request[x].pc = "reading"
                                  /\ request[x].draining
        BY <1>1, <2>3, <3>1 DEF LoopsAtWork, Drains, Draining
      <4>2. request'[x] = request[x]
        BY <1>2, <2>3, <3>1, <4>1
      <4> QED  BY <4>1, <4>2 DEF Drains, Draining
    <3> QED  BY <2>3, <3>1 DEF Drains, Draining
  <2>5. \A x \in Requests \ {r} : /\ request'[x].conn = request[x].conn
                                  /\ request'[x].pc = "done" <=> request[x].pc = "done"
    BY <1>2, <2>3
  <2> QED  BY <1>2, <2>3, <2>4, <2>5 DEF RequestsOK
<1>5. CASE ~request[r].draining
  <2>1. request' = finished /\ deferred' = deferred
    BY <1>5 DEF FinishRequest
  <2> HIDE DEF finished
  <2>2. RequestTypes'
    BY <1>1, <1>2, <1>3, <2>1 DEF RequestTypes
  <2>3. \A d \in Conns : \A i \in 1..Len(deferred[d]) : deferred[d][i] \in Requests
    BY <1>1, ElementOfSeq DEF RequestTypes
  <2>4. QueuesOK'
    BY <1>1, <1>3, <2>1, <2>3 DEF QueuesOK
  <2>5. LoopsAtWork'
    BY <1>1, <1>2, <1>5, <2>1 DEF LoopsAtWork, Drains, Draining
  <2> QED  BY <1>2, <2>1, <2>2, <2>4, <2>5 DEF RequestsOK
<1> QED  BY <1>4, <1>5

(* A request whose read rejects ends, and so does its loop: the peer is    *)
(* left without one only if it is counted as broken.                       *)
LEMMA ReadFailsKeepsRequests ==
  ASSUME RequestsOK, NEW r \in Requests, ReadFails(r)
  PROVE  /\ RequestsOK'
         /\ \A x \in Requests : /\ request'[x].conn = request[x].conn
                                /\ request[x].pc = "done" => request'[x].pc = "done"
<1>1. /\ RequestTypes /\ QueuesOK /\ LoopsAtWork /\ request[r] \in RequestFrames
      /\ request[r].pc = "reading" /\ request[r].conn \in Conns
      /\ UNCHANGED <<paused, deferred>>
  BY DEF RequestsOK, RequestTypes, ReadFails, netVars
<1>2. /\ request' \in [Requests -> RequestFrames]
      /\ request'[r].pc = "done" /\ request'[r].conn = request[r].conn
      /\ \A x \in Requests \ {r} : request'[x] = request[x]
  BY <1>1, DoneType DEF ReadFails, RequestTypes
<1>3. RequestTypes'
  BY <1>1, <1>2 DEF RequestTypes
<1>4. QueuesOK'
  <2>1. \A d \in Conns : \A i \in 1..Len(deferred[d]) : deferred[d][i] \in Requests
    BY <1>1, ElementOfSeq DEF RequestTypes
  <2> QED  BY <1>1, <1>2, <2>1 DEF QueuesOK
<1>5. LoopsAtWork'
  <2> SUFFICES ASSUME NEW d \in Conns, d \notin paused, d \notin broken', deferred[d] # << >>
               PROVE  Drains(d)'
    BY <1>1 DEF LoopsAtWork
  <2>1. d \notin broken
    BY DEF ReadFails
  <2>2. PICK x \in Requests : Draining(x, d)
    BY <1>1, <2>1 DEF LoopsAtWork, Drains
  <2>3. CASE x # r
    BY <1>2, <2>2, <2>3 DEF Drains, Draining
  <2>4. CASE x = r
    <3>1. request[r].conn = d /\ request[r].draining
      BY <2>2, <2>4 DEF Draining
    <3>2. PICK other \in Requests \ {r} : Draining(other, d)
      BY <3>1 DEF ReadFails
    <3> QED  BY <1>2, <3>2 DEF Drains, Draining
  <2> QED  BY <2>3, <2>4
<1> QED  BY <1>1, <1>2, <1>3, <1>4, <1>5 DEF RequestsOK

(* A request that arrives is read, queued or refused.                      *)
LEMMA ReceiveKeepsRequests ==
  ASSUME NetOK, RequestsOK, NEW c \in Conns, NEW r \in Requests, NEW forwardable \in BOOLEAN,
         ReceiveRequest(r, c, forwardable)
  PROVE  /\ RequestsOK'
         /\ request'[r].pc # "idle" /\ request[r].pc = "idle" /\ request'[r].conn = c
         /\ \A x \in Requests \ {r} : request'[x] = request[x]
<1>1. /\ RequestTypes /\ QueuesOK /\ LoopsAtWork /\ request[r].pc = "idle"
      /\ UNCHANGED <<paused, broken>>
  BY DEF RequestsOK, ReceiveRequest, netVars
<1>2. PICK frame \in RequestFrames :
        /\ frame.conn = c
        /\ request' = [request EXCEPT ![r] = frame]
        /\ \/ frame.pc \in {"reading", "done"} /\ deferred' = deferred
           \/ /\ frame.pc = "deferred" /\ c \in paused /\ HasQueueRoom(c)
              /\ deferred' = [deferred EXCEPT ![c] = Append(@, r)]
  <2> DEFINE req == [request[r] EXCEPT !.conn = c, !.forwardable = forwardable]
  <2>1. req \in RequestFrames /\ req.conn = c
    BY <1>1 DEF RequestTypes, RequestFrames
  <2>2. (blob = "none") \in BOOLEAN
    OBVIOUS
  <2>3. /\ [req EXCEPT !.pc = "reading", !.mayMiss = blob = "none"] \in RequestFrames
        /\ [req EXCEPT !.pc = "reading", !.mayMiss = blob = "none"].pc = "reading"
        /\ [req EXCEPT !.pc = "reading", !.mayMiss = blob = "none"].conn = c
    <3> HIDE DEF req
    <3> QED  BY <2>1, <2>2 DEF RequestFrames
  <2>4. /\ [req EXCEPT !.pc = "deferred"] \in RequestFrames
        /\ [req EXCEPT !.pc = "deferred"].pc = "deferred"
        /\ [req EXCEPT !.pc = "deferred"].conn = c
    <3> HIDE DEF req
    <3> QED  BY <2>1 DEF RequestFrames
  <2>5. Done(req) \in RequestFrames /\ Done(req).pc = "done" /\ Done(req).conn = c
    <3> HIDE DEF req
    <3> QED  BY <2>1, DoneType
  <2>6. \/ /\ request' = [request EXCEPT
                 ![r] = [req EXCEPT !.pc = "reading", !.mayMiss = blob = "none"]]
           /\ deferred' = deferred
        \/ /\ c \in paused /\ HasQueueRoom(c)
           /\ request' = [request EXCEPT ![r] = [req EXCEPT !.pc = "deferred"]]
           /\ deferred' = [deferred EXCEPT ![c] = Append(@, r)]
        \/ /\ request' = [request EXCEPT ![r] = Done(req)]
           /\ deferred' = deferred
    BY DEF ReceiveRequest
  <2> HIDE DEF req
  <2> QED  BY <2>3, <2>4, <2>5, <2>6
<1>3. /\ request'[r] = frame
      /\ \A x \in Requests \ {r} : request'[x] = request[x]
  BY <1>1, <1>2 DEF RequestTypes
<1>4. \A d \in Conns : \A i \in 1..Len(deferred[d]) :
         /\ deferred[d][i] \in Requests \ {r}
         /\ request'[deferred[d][i]] = request[deferred[d][i]]
  <2> SUFFICES ASSUME NEW d \in Conns, NEW i \in 1..Len(deferred[d])
               PROVE  deferred[d][i] \in Requests \ {r}
    BY <1>3
  <2>1. deferred[d][i] \in Requests
    BY <1>1, ElementOfSeq DEF RequestTypes
  <2>2. request[deferred[d][i]].pc = "deferred"
    BY <1>1 DEF QueuesOK
  <2> QED  BY <1>1, <2>1, <2>2
<1>5. CASE deferred' = deferred
  <2>1. RequestTypes'
    BY <1>1, <1>2, <1>3, <1>5 DEF RequestTypes
  <2>2. QueuesOK'
    BY <1>1, <1>4, <1>5 DEF QueuesOK
  <2>3. LoopsAtWork'
    <3>1. \A d \in Conns : Drains(d) => Drains(d)'
      BY <1>1, <1>3 DEF Drains, Draining
    <3> QED  BY <1>1, <1>5, <3>1 DEF LoopsAtWork
  <2> QED  BY <1>1, <1>2, <1>3, <2>1, <2>2, <2>3 DEF RequestsOK
<1>6. CASE /\ frame.pc = "deferred" /\ c \in paused /\ HasQueueRoom(c)
           /\ deferred' = [deferred EXCEPT ![c] = Append(@, r)]
  <2> DEFINE queue == Append(deferred[c], r)
  <2>1. /\ deferred[c] \in Seq(Requests) /\ Len(deferred[c]) \in Nat
        /\ queue \in Seq(Requests) /\ Len(queue) = Len(deferred[c]) + 1
        /\ queue[Len(queue)] = r
        /\ \A i \in 1..Len(deferred[c]) : queue[i] = deferred[c][i]
    BY <1>1 DEF RequestTypes
  <2>2. \A d \in Conns : deferred'[d] = IF d = c THEN queue ELSE deferred[d]
    BY <1>1, <1>6 DEF RequestTypes
  <2> HIDE DEF queue
  <2>3. RequestTypes'
    <3>1. deferred' = [deferred EXCEPT ![c] = queue]
      BY <1>6 DEF queue
    <3> QED  BY <1>1, <1>2, <1>3, <2>1, <3>1 DEF RequestTypes
  <2>4. QueuesOK'
    <3>1. Len(queue) <= MaxDeferred
      BY <1>6, <2>1, ConnsAssumption DEF HasQueueRoom
    <3>2. \A i \in 1..Len(queue) : \/ i = Len(queue)
                                   \/ i \in 1..Len(deferred[c]) /\ queue[i] # r
      BY <1>4, <2>1
    <3>3. \A i \in 1..Len(queue) :
             /\ request'[queue[i]].pc = "deferred" /\ request'[queue[i]].conn = c
             /\ \A j \in 1..Len(queue) : queue[i] = queue[j] => i = j
      <4> SUFFICES ASSUME NEW i \in 1..Len(queue)
                   PROVE  /\ request'[queue[i]].pc = "deferred" /\ request'[queue[i]].conn = c
                          /\ \A j \in 1..Len(queue) : queue[i] = queue[j] => i = j
        OBVIOUS
      <4>1. CASE i = Len(queue)
        BY <1>2, <1>3, <1>6, <2>1, <3>2, <4>1
      <4>2. CASE i \in 1..Len(deferred[c]) /\ queue[i] # r
        <5>1. request'[queue[i]].pc = "deferred" /\ request'[queue[i]].conn = c
          BY <1>1, <1>4, <2>1, <4>2 DEF QueuesOK
        <5>2. \A j \in 1..Len(queue) : queue[i] = queue[j] => i = j
          BY <1>1, <2>1, <3>2, <4>2 DEF QueuesOK
        <5> QED  BY <5>1, <5>2
      <4> QED  BY <3>2, <4>1, <4>2
    <3> QED  BY <1>1, <1>4, <2>2, <3>1, <3>3 DEF QueuesOK
  <2>5. LoopsAtWork'
    <3>1. \A d \in Conns : Drains(d) => Drains(d)'
      BY <1>1, <1>3 DEF Drains, Draining
    <3> QED  BY <1>1, <1>6, <2>2, <3>1 DEF LoopsAtWork
  <2> QED  BY <1>1, <1>2, <1>3, <1>6, <2>3, <2>4, <2>5 DEF RequestsOK
<1> QED  BY <1>2, <1>5, <1>6

LEMMA BufferLowKeepsRequests ==
  ASSUME NetOK, RequestsOK, NEW c \in Conns, BufferLow(c)
  PROVE  /\ RequestsOK'
         /\ \A x \in Requests : /\ request'[x].conn = request[x].conn
                                /\ request'[x].pc = "done" <=> request[x].pc = "done"
<1>1. /\ RequestTypes /\ QueuesOK /\ LoopsAtWork
      /\ Drained(c, FALSE, request) /\ paused' = paused \ {c} /\ broken' = broken \ {c}
  BY DEF RequestsOK, BufferLow
<1>2. /\ RequestTypes' /\ QueuesOK'
      /\ deferred'[c] # << >> => Drains(c)'
      /\ \A d \in Conns \ {c} : deferred'[d] = deferred[d]
      /\ \A x \in Requests :
            \/ request'[x] = request[x]
            \/ /\ request[x].pc = "deferred"
               /\ request'[x].pc = "reading" /\ request'[x].conn = request[x].conn
  BY <1>1, DrainedKeeps DEF RequestTypes
<1>3. LoopsAtWork'
  <2>1. \A d \in Conns : Drains(d) => Drains(d)'
    BY <1>2 DEF Drains, Draining
  <2> QED  BY <1>1, <1>2, <2>1 DEF LoopsAtWork, Drains, Draining
<1> QED  BY <1>2, <1>3 DEF RequestsOK

LEMMA NextKeepsRequests ==
  ASSUME NetOK, RequestsOK, Next
  PROVE  RequestsOK'
<1> USE DEF netVars, entryVars
<1>1. UNCHANGED <<request, deferred, paused, broken>> => RequestsOK'
  BY DEF RequestsOK, RequestTypes, QueuesOK, LoopsAtWork, Drains, Draining
<1>2. ASSUME NEW c \in Conns, PeerStep(c) PROVE RequestsOK'
  <2>1. CASE BufferHigh(c)
    <3>1. UNCHANGED <<request, deferred, broken>> /\ paused' = paused \cup {c}
      BY <2>1 DEF BufferHigh
    <3> QED  BY <3>1 DEF RequestsOK, RequestTypes, QueuesOK, LoopsAtWork, Drains, Draining
  <2>2. ASSUME NEW s \in Responses, NEW valid \in BOOLEAN, ReceiveResponse(s, c, valid)
        PROVE  RequestsOK'
    BY <1>1, <2>2 DEF ReceiveResponse
  <2>3. ASSUME NEW channelClosed \in BOOLEAN, ClosePeer(c, channelClosed) PROVE RequestsOK'
    BY <1>1, <2>3 DEF ClosePeer
  <2>4. ASSUME NEW owner \in Owners, EntryTimeout(owner, c) PROVE RequestsOK'
    BY <1>1, <2>4 DEF EntryTimeout
  <2>5. CASE CreatePeer(c) \/ ChannelOpen(c)
    BY <1>1, <2>5 DEF CreatePeer, ChannelOpen
  <2> QED  BY <1>2, <2>1, <2>2, <2>3, <2>4, <2>5, ReceiveKeepsRequests, BufferLowKeepsRequests
           DEF PeerStep
<1>3. ASSUME NEW r \in Requests, ReadHit(r) \/ ReadMiss(r) \/ ReadFails(r) PROVE RequestsOK'
  BY <1>3, FinishKeeps, ReadFailsKeepsRequests DEF ReadHit, ReadMiss
<1>4. ASSUME NEW s \in Responses,
             CheckResponse(s) \/ StorePut(s) \/ PutFails(s) \/ PushResponse(s)
      PROVE  RequestsOK'
  BY <1>1, <1>4 DEF CheckResponse, StorePut, PutFails, PushResponse
<1>5. ASSUME NEW g \in Gets, GetStep(g) PROVE RequestsOK'
  BY <1>1, <1>5 DEF GetStep, GetStart, GetHedge, GetReturn, GetGiveUp
<1>6. CASE ForwardTimeout
  BY <1>1, <1>6 DEF ForwardTimeout
<1>7. ASSUME NEW id \in Ids, PeerClosed(id) PROVE RequestsOK'
  BY <1>1, <1>7 DEF PeerClosed
<1> QED  BY <1>2, <1>3, <1>4, <1>5, <1>6, <1>7 DEF Next

-----------------------------------------------------------------------------
(* The account.  What is counted is finite.                                *)
LEMMA CountsFinite ==
  ASSUME marked \subseteq Conns, NEW id
  PROVE  /\ IsFiniteSet(Marks(id)) /\ Cardinality(Marks(id)) \in Nat
         /\ IsFiniteSet(Over(id)) /\ Cardinality(Over(id)) \in Nat
<1>1. Marks(id) \in SUBSET Conns /\ Over(id) \in SUBSET Requests
  BY DEF Marks, Over
<1>2. IsFiniteSet(Marks(id)) /\ IsFiniteSet(Over(id))
  BY <1>1, FS_Subset, FiniteAssumption
<1> QED  BY <1>2, FS_CardinalityType

LEMMA AnswerCounts ==
  ASSUME AccountOK, NEW to \in SUBSET Conns, Answer(to)
  PROVE  /\ answered' \in [Ids -> Nat]
         /\ \A id \in Ids :
              /\ IsFiniteSet({c \in to \cap ready : IdOf[c] = id})
              /\ answered'[id] = answered[id] + Cardinality({c \in to \cap ready : IdOf[c] = id})
<1>1. \A id : /\ IsFiniteSet({c \in to \cap ready : IdOf[c] = id})
              /\ Cardinality({c \in to \cap ready : IdOf[c] = id}) \in Nat
  <2> SUFFICES ASSUME NEW id
               PROVE  /\ IsFiniteSet({c \in to \cap ready : IdOf[c] = id})
                      /\ Cardinality({c \in to \cap ready : IdOf[c] = id}) \in Nat
    OBVIOUS
  <2>1. {c \in to \cap ready : IdOf[c] = id} \in SUBSET Conns
    OBVIOUS
  <2>2. IsFiniteSet({c \in to \cap ready : IdOf[c] = id})
    BY <2>1, FS_Subset, FiniteAssumption
  <2> QED  BY <2>2, FS_CardinalityType
<1> DEFINE count(id) == Cardinality({c \in to \cap ready : IdOf[c] = id})
<1>2. answered' = [id \in Ids |-> answered[id] + count(id)]
  BY DEF Answer
<1>3. \A id \in Ids : count(id) \in Nat
  BY <1>1
<1> HIDE DEF count
<1>4. answered' \in [Ids -> Nat] /\ \A id \in Ids : answered'[id] = answered[id] + count(id)
  BY <1>2, <1>3 DEF AccountOK
<1> QED  BY <1>1, <1>4 DEF count

(* Marks may go and requests may end without an answer.                    *)
LEMMA AccountStays ==
  ASSUME NetOK, AccountOK, answered' = answered, marked' \subseteq marked,
         \A x \in Requests : /\ request[x].pc = "done" => request'[x].pc = "done"
                             /\ request[x].pc = "done" => request'[x].conn = request[x].conn
  PROVE  AccountOK'
<1> SUFFICES ASSUME NEW id \in Ids
             PROVE  answered'[id] + Cardinality(Marks(id)') <= Cardinality(Over(id)')
  BY DEF AccountOK
<1>1. Marks(id)' \in SUBSET Marks(id) /\ Over(id) \in SUBSET Over(id)'
  BY DEF Marks, Over
<1>2. /\ IsFiniteSet(Marks(id)) /\ IsFiniteSet(Over(id)')
      /\ Cardinality(Marks(id)) \in Nat /\ Cardinality(Over(id)) \in Nat
      /\ Cardinality(Over(id)') \in Nat
  <2>1. Over(id)' \in SUBSET Requests
    BY DEF Over
  <2>2. IsFiniteSet(Over(id)')
    BY <2>1, FS_Subset, FiniteAssumption
  <2> QED  BY <2>2, CountsFinite, FS_CardinalityType DEF NetOK
<1>3. IsFiniteSet(Marks(id)') /\ Cardinality(Marks(id)') <= Cardinality(Marks(id))
  BY <1>1, <1>2, FS_Subset
<1>4. Cardinality(Marks(id)') \in Nat
  BY <1>3, FS_CardinalityType
<1>5. Cardinality(Over(id)) <= Cardinality(Over(id)')
  BY <1>1, <1>2, FS_Subset
<1>6. answered[id] \in Nat /\ answered[id] + Cardinality(Marks(id)) <= Cardinality(Over(id))
  BY DEF AccountOK
<1> QED  BY <1>2, <1>3, <1>4, <1>5, <1>6

(* A request that ends after its read is one more that is over.            *)
LEMMA OverGrows ==
  ASSUME NetOK, RequestsOK, NEW r \in Requests, request[r].pc = "reading", FinishRequest(r),
         UNCHANGED <<paused, broken>>, NEW id
  PROVE  /\ Cardinality(Over(id)) \in Nat
         /\ Cardinality(Over(id)') = IF IdOf[request[r].conn] = id THEN Cardinality(Over(id)) + 1
                                                                   ELSE Cardinality(Over(id))
<1>1. /\ request'[r].pc = "done" /\ request'[r].conn = request[r].conn
      /\ \A x \in Requests \ {r} : /\ request'[x].conn = request[x].conn
                                   /\ request'[x].pc = "done" <=> request[x].pc = "done"
      /\ request[r].conn # None
  BY FinishKeeps, NoneAssumption DEF RequestsOK, RequestTypes
<1>2. Over(id)' = IF IdOf[request[r].conn] = id THEN Over(id) \cup {r} ELSE Over(id)
  BY <1>1 DEF Over
<1>3. r \notin Over(id)
  BY DEF Over
<1>4. IsFiniteSet(Over(id)) /\ Cardinality(Over(id)) \in Nat
  BY CountsFinite DEF NetOK
<1>5. Cardinality(Over(id) \cup {r}) = Cardinality(Over(id)) + 1
  BY <1>3, <1>4, FS_AddElement
<1> QED  BY <1>2, <1>4, <1>5

LEMMA ReadHitKeepsAccount ==
  ASSUME NetOK, RequestsOK, AccountOK, NEW r \in Requests, ReadHit(r)
  PROVE  AccountOK'
<1> DEFINE from == request[r].conn
           sent(id) == {c \in {from} \cap ready : IdOf[c] = id}
<1>1. /\ from \in Conns /\ marked' = marked /\ Answer({from})
      /\ request[r].pc = "reading" /\ FinishRequest(r)
      /\ UNCHANGED <<paused, broken>>
  BY DEF ReadHit, RequestsOK, RequestTypes, netVars
<1>2. /\ answered' \in [Ids -> Nat]
      /\ \A id \in Ids : /\ IsFiniteSet(sent(id))
                         /\ answered'[id] = answered[id] + Cardinality(sent(id))
  BY <1>1, AnswerCounts
<1> SUFFICES ASSUME NEW id \in Ids
             PROVE  answered'[id] + Cardinality(Marks(id)') <= Cardinality(Over(id)')
  BY <1>2 DEF AccountOK
<1>3. Marks(id)' = Marks(id)
  BY <1>1 DEF Marks
<1>4. Cardinality(sent(id)) \in IF IdOf[from] = id THEN 0..1 ELSE {0}
  <2>1. sent(id) = {} \/ (sent(id) = {from} /\ IdOf[from] = id)
    OBVIOUS
  <2>2. Cardinality({from}) = 1 /\ Cardinality({}) = 0
    BY FS_Singleton, FS_EmptySet
  <2> HIDE DEF from, sent
  <2> QED  BY <2>1, <2>2
<1>5. /\ Cardinality(Over(id)) \in Nat
      /\ Cardinality(Over(id)') = IF IdOf[from] = id THEN Cardinality(Over(id)) + 1
                                                     ELSE Cardinality(Over(id))
  BY <1>1, OverGrows
<1>6. /\ Cardinality(Marks(id)) \in Nat /\ answered[id] \in Nat
      /\ answered[id] + Cardinality(Marks(id)) <= Cardinality(Over(id))
  BY CountsFinite DEF NetOK, AccountOK
<1> HIDE DEF from, sent
<1> QED  BY <1>2, <1>3, <1>4, <1>5, <1>6

LEMMA ReadMissKeepsAccount ==
  ASSUME NetOK, RequestsOK, AccountOK, NEW r \in Requests, ReadMiss(r)
  PROVE  AccountOK'
<1> DEFINE from == request[r].conn
<1>1. /\ from \in Conns /\ answered' = answered /\ marked' \subseteq marked \cup {from}
      /\ request[r].pc = "reading" /\ FinishRequest(r)
      /\ UNCHANGED <<paused, broken>>
  BY DEF ReadMiss, ReadMissKept, ReadMissRefused, ReadMissJoins, ReadMissForwards,
         RequestsOK, RequestTypes, netVars
<1> SUFFICES ASSUME NEW id \in Ids
             PROVE  answered'[id] + Cardinality(Marks(id)') <= Cardinality(Over(id)')
  BY <1>1 DEF AccountOK
<1>2. IsFiniteSet(Marks(id)) /\ Cardinality(Marks(id)) \in Nat
  BY CountsFinite DEF NetOK
<1>3. /\ Cardinality(Marks(id)') \in Nat
      /\ Cardinality(Marks(id)') <= IF IdOf[from] = id THEN Cardinality(Marks(id)) + 1
                                                       ELSE Cardinality(Marks(id))
  <2>1. CASE IdOf[from] = id
    <3>1. Marks(id)' \in SUBSET (Marks(id) \cup {from})
      BY <1>1 DEF Marks
    <3>2. /\ IsFiniteSet(Marks(id) \cup {from})
          /\ Cardinality(Marks(id) \cup {from}) \in
               {Cardinality(Marks(id)), Cardinality(Marks(id)) + 1}
      BY <1>2, FS_AddElement
    <3>3. /\ IsFiniteSet(Marks(id)')
          /\ Cardinality(Marks(id)') <= Cardinality(Marks(id) \cup {from})
      BY <3>1, <3>2, FS_Subset
    <3>4. Cardinality(Marks(id)') \in Nat
      BY <3>3, FS_CardinalityType
    <3> HIDE DEF from
    <3> QED  BY <1>2, <2>1, <3>2, <3>3, <3>4
  <2>2. CASE IdOf[from] # id
    <3>1. Marks(id)' \in SUBSET Marks(id)
      BY <1>1, <2>2 DEF Marks
    <3>2. IsFiniteSet(Marks(id)') /\ Cardinality(Marks(id)') <= Cardinality(Marks(id))
      BY <1>2, <3>1, FS_Subset
    <3> QED  BY <2>2, <3>2, FS_CardinalityType
  <2> QED  BY <2>1, <2>2
<1>4. /\ Cardinality(Over(id)) \in Nat
      /\ Cardinality(Over(id)') = IF IdOf[from] = id THEN Cardinality(Over(id)) + 1
                                                     ELSE Cardinality(Over(id))
  BY <1>1, OverGrows
<1>5. answered[id] \in Nat /\ answered[id] + Cardinality(Marks(id)) <= Cardinality(Over(id))
  BY DEF AccountOK
<1> HIDE DEF from
<1> QED  BY <1>1, <1>2, <1>3, <1>4, <1>5

(* A push spends a mark of each peer it answers.                           *)
LEMMA PushKeepsAccount ==
  ASSUME NetOK, AccountOK, NEW from, PushToRequesters(from), request' = request
  PROVE  AccountOK'
<1> DEFINE served == {c \in Open \cap marked : IdOf[c] # from}
           sent(id) == {c \in served \cap ready : IdOf[c] = id}
<1>1. served \in SUBSET Conns /\ served \subseteq marked
  BY DEF Open
<1>2. Answer(served) /\ marked' = marked \ served
  BY DEF PushToRequesters
<1> HIDE DEF served
<1>3. /\ answered' \in [Ids -> Nat]
      /\ \A id \in Ids : /\ IsFiniteSet(sent(id))
                         /\ answered'[id] = answered[id] + Cardinality(sent(id))
  BY <1>1, <1>2, AnswerCounts
<1> SUFFICES ASSUME NEW id \in Ids
             PROVE  answered'[id] + Cardinality(Marks(id)') <= Cardinality(Over(id)')
  BY <1>3 DEF AccountOK
<1>4. Marks(id)' \cup sent(id) \in SUBSET Marks(id) /\ Marks(id)' \cap sent(id) = {}
  BY <1>1, <1>2 DEF Marks
<1>5. IsFiniteSet(Marks(id)) /\ Cardinality(Marks(id)) \in Nat
  BY CountsFinite DEF NetOK
<1>6. IsFiniteSet(Marks(id)') /\ IsFiniteSet(sent(id))
  <2>1. Marks(id)' \in SUBSET Marks(id)
    BY <1>4
  <2> QED  BY <1>3, <1>5, <2>1, FS_Subset
<1>7. Cardinality(Marks(id)') + Cardinality(sent(id)) <= Cardinality(Marks(id))
  <2>1. Cardinality(Marks(id)' \cup sent(id)) <= Cardinality(Marks(id))
    BY <1>4, <1>5, FS_Subset
  <2>2. Cardinality(Marks(id)' \cup sent(id)) =
          Cardinality(Marks(id)') + Cardinality(sent(id)) - Cardinality(Marks(id)' \cap sent(id))
    BY <1>6, FS_Union
  <2>3. Cardinality(Marks(id)' \cap sent(id)) = 0
    BY <1>4, FS_EmptySet
  <2>4. Cardinality(Marks(id)') \in Nat /\ Cardinality(sent(id)) \in Nat
    BY <1>6, FS_CardinalityType
  <2> HIDE DEF sent
  <2> QED  BY <2>1, <2>2, <2>3, <2>4
<1>8. Cardinality(Marks(id)') \in Nat /\ Cardinality(sent(id)) \in Nat
  BY <1>6, FS_CardinalityType
<1>9. /\ Over(id)' = Over(id) /\ answered[id] \in Nat /\ Cardinality(Over(id)) \in Nat
      /\ answered[id] + Cardinality(Marks(id)) <= Cardinality(Over(id))
  BY CountsFinite DEF Over, NetOK, AccountOK
<1>10. answered'[id] = answered[id] + Cardinality(sent(id))
  BY <1>3
<1> HIDE DEF sent
<1> QED  BY <1>5, <1>7, <1>8, <1>9, <1>10

LEMMA NextKeepsAccount ==
  ASSUME NetOK, RequestsOK, AccountOK, Next
  PROVE  AccountOK'
<1> USE DEF netVars, entryVars
<1>1. answered' = answered /\ marked' \subseteq marked /\ request' = request => AccountOK'
  BY AccountStays
<1>2. ASSUME NEW c \in Conns, PeerStep(c) PROVE AccountOK'
  <2>1. ASSUME NEW r \in Requests, NEW forwardable \in BOOLEAN, ReceiveRequest(r, c, forwardable)
        PROVE  AccountOK'
    <3>1. request[r].pc = "idle" /\ \A x \in Requests \ {r} : request'[x] = request[x]
      BY <2>1, ReceiveKeepsRequests
    <3>2. answered' = answered /\ marked' \subseteq marked
      BY <2>1 DEF ReceiveRequest
    <3> QED  BY <3>1, <3>2, AccountStays
  <2>2. CASE BufferLow(c)
    <3>1. answered' = answered /\ marked' \subseteq marked
      BY <2>2 DEF BufferLow
    <3> QED  BY <2>2, <3>1, BufferLowKeepsRequests, AccountStays
  <2>3. ASSUME NEW s \in Responses, NEW valid \in BOOLEAN, ReceiveResponse(s, c, valid)
        PROVE  AccountOK'
    BY <1>1, <2>3 DEF ReceiveResponse
  <2>4. ASSUME NEW channelClosed \in BOOLEAN, ClosePeer(c, channelClosed) PROVE AccountOK'
    BY <1>1, <2>4 DEF ClosePeer
  <2>5. ASSUME NEW owner \in Owners, EntryTimeout(owner, c) PROVE AccountOK'
    BY <1>1, <2>5 DEF EntryTimeout
  <2>6. CASE BufferHigh(c) \/ CreatePeer(c) \/ ChannelOpen(c)
    BY <1>1, <2>6 DEF BufferHigh, CreatePeer, ChannelOpen
  <2> QED  BY <1>2, <2>1, <2>2, <2>3, <2>4, <2>5, <2>6 DEF PeerStep
<1>3. ASSUME NEW r \in Requests, ReadHit(r) \/ ReadMiss(r) \/ ReadFails(r) PROVE AccountOK'
  <2>1. CASE ReadFails(r)
    <3>1. answered' = answered /\ marked' = marked
      BY <2>1 DEF ReadFails
    <3> QED  BY <2>1, <3>1, ReadFailsKeepsRequests, AccountStays
  <2> QED  BY <1>3, <2>1, ReadHitKeepsAccount, ReadMissKeepsAccount
<1>4. ASSUME NEW s \in Responses, CheckResponse(s) \/ StorePut(s) \/ PutFails(s) PROVE AccountOK'
  BY <1>1, <1>4 DEF CheckResponse, StorePut, PutFails
<1>5. ASSUME NEW s \in Responses, PushResponse(s) PROVE AccountOK'
  <2>1. request' = request
    BY <1>5 DEF PushResponse
  <2>2. \/ PushToRequesters(IdOf[response[s].conn])
        \/ UNCHANGED <<marked, answered>>
    BY <1>5 DEF PushResponse
  <2> QED  BY <1>1, <2>1, <2>2, PushKeepsAccount
<1>6. ASSUME NEW g \in Gets, GetStep(g) PROVE AccountOK'
  BY <1>1, <1>6 DEF GetStep, GetStart, GetHedge, GetReturn, GetGiveUp
<1>7. CASE ForwardTimeout
  BY <1>1, <1>7 DEF ForwardTimeout
<1>8. ASSUME NEW id \in Ids, PeerClosed(id) PROVE AccountOK'
  BY <1>1, <1>8 DEF PeerClosed
<1> QED  BY <1>2, <1>3, <1>4, <1>5, <1>6, <1>7, <1>8 DEF Next

-----------------------------------------------------------------------------
LEMMA InitHolds == Init => IInv
<1> SUFFICES ASSUME Init PROVE IInv
  OBVIOUS
<1>1. NetOK
  BY DEF Init, NetOK
<1>2. EntriesOK
  <2>1. Response("idle", None, FALSE, None, FALSE, FALSE, {}) \in SoundFrames
    BY DEF Response, ResponseFrames, SoundFrames
  <2>2. Get("idle", {}, NotAsked) \in GetFrames
    BY DEF Get, NotAsked, GetFrames, Outcomes
  <2> QED  BY <2>1, <2>2, ConnsAssumption, NoneAssumption DEF Init, EntriesOK, Open, Current
<1>3. RequestsOK
  <2>1. \A c \in Conns : deferred[c] = << >> /\ Len(deferred[c]) = 0
    BY DEF Init
  <2>2. RequestTypes
    BY DEF Init, RequestTypes, RequestFrames
  <2> QED  BY <2>1, <2>2, ConnsAssumption DEF RequestsOK, QueuesOK, LoopsAtWork
<1>4. AccountOK
  <2>1. \A id \in Ids : Marks(id) = {} /\ Over(id) = {}
    BY DEF Init, Marks, Over
  <2>2. \A id \in Ids : Cardinality(Marks(id)) = 0 /\ Cardinality(Over(id)) = 0
    BY <2>1, FS_EmptySet
  <2> QED  BY <2>2 DEF Init, AccountOK
<1> QED  BY <1>1, <1>2, <1>3, <1>4 DEF IInv

THEOREM InvariantHolds == Spec => []IInv
<1>1. IInv /\ [Next]_vars => IInv'
  <2> SUFFICES ASSUME IInv, [Next]_vars PROVE IInv'
    OBVIOUS
  <2>1. CASE Next
    BY <2>1, NextKeepsNet, NextKeepsEntries, NextKeepsRequests, NextKeepsAccount
       DEF IInv, RequestsOK
  <2>2. CASE UNCHANGED vars
    <3>1. NetOK' /\ EntriesOK'
      BY <2>2 DEF vars, IInv, NetOK, EntriesOK, Open, Current
    <3>2. RequestsOK'
      BY <2>2 DEF vars, IInv, RequestsOK, RequestTypes, QueuesOK, LoopsAtWork, Drains, Draining
    <3>3. AccountOK'
      BY <2>2 DEF vars, IInv, AccountOK, Marks, Over
    <3> QED  BY <3>1, <3>2, <3>3 DEF IInv
  <2> QED  BY <2>1, <2>2
<1> QED  BY <1>1, InitHolds, PTL DEF Spec

THEOREM TypeCorrect == Spec => []TypeOK
<1>1. IInv => TypeOK
  BY DEF IInv, NetOK, EntriesOK, RequestsOK, RequestTypes, QueuesOK, TypeOK,
         GetFrames, SoundFrames, ResponseFrames, RequestFrames
<1> QED  BY <1>1, InvariantHolds, PTL

(* An entry of a connected peer has its own timeout, and a peer that is    *)
(* not paused has a loop at work on what was deferred.                     *)
THEOREM NothingIsStranded == Spec => []NothingStranded
<1>1. IInv => EntriesExpire
  BY DEF IInv, NetOK, EntriesOK, EntriesExpire
<1>2. IInv /\ TypeOK => DeferredDrained
  BY DEF IInv, RequestsOK, LoopsAtWork, Drains, Draining, DeferredDrained
<1>3. EntriesExpire /\ DeferredDrained => NothingStranded
  BY DEF NothingStranded
<1> QED  BY <1>1, <1>2, <1>3, InvariantHolds, TypeCorrect, PTL

(* Requests that are over were asked: a peer is sent no more than that.    *)
THEOREM AnswersAreAsked == Spec => []AnswersWereAsked
<1>1. IInv => AnswersWereAsked
  <2> SUFFICES ASSUME IInv, NEW id \in Ids
               PROVE  answered[id] <=
                        Cardinality({r \in Requests : /\ request[r].conn # None
                                                      /\ IdOf[request[r].conn] = id})
    BY DEF AnswersWereAsked
  <2> DEFINE asked == {r \in Requests : request[r].conn # None /\ IdOf[request[r].conn] = id}
  <2>1. asked \in SUBSET Requests /\ Over(id) \in SUBSET asked
    BY DEF Over
  <2>2. IsFiniteSet(asked) /\ Cardinality(asked) \in Nat
    BY <2>1, FS_Subset, FS_CardinalityType, FiniteAssumption
  <2>3. Cardinality(Over(id)) <= Cardinality(asked)
    BY <2>1, <2>2, FS_Subset
  <2>4. /\ answered[id] \in Nat /\ Cardinality(Marks(id)) \in Nat /\ Cardinality(Over(id)) \in Nat
        /\ answered[id] + Cardinality(Marks(id)) <= Cardinality(Over(id))
    BY CountsFinite DEF IInv, NetOK, AccountOK
  <2> HIDE DEF asked
  <2>5. answered[id] <= Cardinality(asked)
    BY <2>2, <2>3, <2>4
  <2> QED  BY <2>5 DEF asked
<1> QED  BY <1>1, InvariantHolds, PTL

-----------------------------------------------------------------------------
(* What a step may do to the waiting set and the marks of a peer that      *)
(* stays connected.                                                        *)
LEMMA ReleasedTogether ==
  ASSUME IInv, Next, NEW c \in Open \cap marked,
         Waits(IdOf[c]), ~Waits(IdOf[c])', Current(c)'
  PROVE  \/ c \notin marked'
         \/ \E s \in Responses : /\ response[s].pc = "storing" /\ response'[s].pc = "done"
                                 /\ IdOf[response[s].conn] = IdOf[c]
<1> USE ConnsAssumption, NoneAssumption DEF netVars, entryVars, Waits
<1>1. waiting' # waiting
  OBVIOUS
<1>2. ASSUME NEW d \in Conns, PeerStep(d) PROVE c \notin marked'
  <2>1. PICK channelClosed \in BOOLEAN : ClosePeer(d, channelClosed)
    BY <1>1, <1>2 DEF PeerStep, ReceiveRequest, ReceiveResponse, BufferHigh, BufferLow,
                     CreatePeer, ChannelOpen, EntryTimeout
  <2>2. waiting' = {w \in waiting : w[2] # IdOf[d]} /\ peers' = [peers EXCEPT ![IdOf[d]] = None]
    BY <2>1 DEF ClosePeer, Machine!ReleasePeer
  <2>3. IdOf[c] = IdOf[d]
    BY <2>2
  <2> QED  BY <2>2, <2>3 DEF IInv, NetOK, Open, Current
<1>3. ASSUME NEW r \in Requests, ReadHit(r) \/ ReadMiss(r) \/ ReadFails(r) PROVE FALSE
  BY <1>1, <1>3 DEF ReadHit, ReadFails, ReadMiss, ReadMissKept, ReadMissRefused, ReadMissJoins,
                   ReadMissForwards, Machine!Join
<1>4. ASSUME NEW s \in Responses, CheckResponse(s) \/ StorePut(s) \/ PutFails(s) PROVE FALSE
  BY <1>1, <1>4 DEF CheckResponse, StorePut, PutFails
<1>5. ASSUME NEW s \in Responses, PushResponse(s)
      PROVE  \/ c \notin marked'
             \/ /\ response[s].pc = "storing" /\ response'[s].pc = "done"
                /\ IdOf[response[s].conn] = IdOf[c]
  <2>1. PushToRequesters(IdOf[response[s].conn]) /\ response[s].pc = "storing"
    BY <1>1, <1>5 DEF PushResponse
  <2>2. response'[s].pc = "done"
    BY <1>5, SettledType DEF PushResponse, IInv, EntriesOK
  <2> QED  BY <2>1, <2>2 DEF PushToRequesters
<1>6. ASSUME NEW g \in Gets, GetStep(g) PROVE FALSE
  BY <1>1, <1>6 DEF GetStep, GetStart, GetHedge, GetReturn, GetGiveUp
<1>7. CASE ForwardTimeout
  BY <1>7 DEF ForwardTimeout
<1>8. ASSUME NEW id \in Ids, PeerClosed(id) PROVE FALSE
  BY <1>1, <1>8 DEF PeerClosed
<1> QED  BY <1>2, <1>3, <1>4, <1>5, <1>6, <1>7, <1>8 DEF Next

(* A connected peer stops waiting and loses its mark in the same step,     *)
(* unless it sent the content.                                             *)
THEOREM MarksSettleTogether == Spec => SettledTogether
<1>1. IInv /\ [Next]_vars =>
        [\A c \in Open \cap marked :
           (Waits(IdOf[c]) /\ ~Waits(IdOf[c])' /\ Current(c)') =>
              \/ c \notin marked'
              \/ \E s \in Responses : /\ response[s].pc = "storing" /\ response'[s].pc = "done"
                                      /\ IdOf[response[s].conn] = IdOf[c]]_vars
  BY ReleasedTogether
<1> QED  BY <1>1, InvariantHolds, PTL DEF Spec, SettledTogether

-----------------------------------------------------------------------------
(* Only its own push settles a response that was stored, and it answers    *)
(* each marked peer that is connected once.                                *)
LEMMA StoredIsPushed ==
  ASSUME IInv, Next, NEW s \in Responses, response[s].pc = "storing", response'[s].pc = "done"
  PROVE  PushResponse(s)
<1> USE DEF netVars, entryVars
<1>1. response' # response /\ response \in [Responses -> SoundFrames]
  BY DEF IInv, EntriesOK
<1>2. ASSUME NEW c \in Conns, PeerStep(c) PROVE FALSE
  <2>1. PICK t \in Responses, valid \in BOOLEAN : ReceiveResponse(t, c, valid)
    BY <1>1, <1>2 DEF PeerStep, ReceiveRequest, BufferHigh, BufferLow, CreatePeer, ChannelOpen,
                     ClosePeer, EntryTimeout
  <2>2. response[t].pc = "idle" /\ \A u \in Responses \ {t} : response'[u] = response[u]
    BY <1>1, <2>1 DEF ReceiveResponse, ReceiveAwaited, ReceiveLate
  <2> QED  BY <2>2
<1>3. ASSUME NEW r \in Requests, ReadHit(r) \/ ReadMiss(r) \/ ReadFails(r) PROVE FALSE
  BY <1>1, <1>3 DEF ReadHit, ReadMiss, ReadFails
<1>4. ASSUME NEW t \in Responses, CheckResponse(t) \/ StorePut(t) \/ PutFails(t) PROVE FALSE
  <2>1. CASE CheckResponse(t)
    <3>1. response[t].pc = "checking" /\ \A u \in Responses \ {t} : response'[u] = response[u]
      BY <1>1, <2>1 DEF CheckResponse
    <3> QED  BY <3>1
  <2>2. CASE StorePut(t)
    BY <1>1, <2>2 DEF StorePut
  <2>3. CASE PutFails(t)
    <3>1. /\ response'[t] = Response("failed", None, response[t].valid, None, FALSE, FALSE, {})
          /\ \A u \in Responses \ {t} : response'[u] = response[u]
      BY <1>1, <2>3 DEF PutFails
    <3>2. response'[t].pc = "failed"
      BY <3>1 DEF Response
    <3> QED  BY <3>1, <3>2
  <2> QED  BY <1>4, <2>1, <2>2, <2>3
<1>5. ASSUME NEW t \in Responses, PushResponse(t) PROVE t = s
  BY <1>1, <1>5 DEF PushResponse
<1>6. ASSUME NEW g \in Gets, GetStep(g) PROVE FALSE
  BY <1>1, <1>6 DEF GetStep, GetStart, GetHedge, GetReturn, GetGiveUp
<1>7. CASE ForwardTimeout
  BY <1>1, <1>7 DEF ForwardTimeout
<1>8. ASSUME NEW id \in Ids, PeerClosed(id) PROVE FALSE
  BY <1>1, <1>8 DEF PeerClosed
<1> QED  BY <1>2, <1>3, <1>4, <1>5, <1>6, <1>7, <1>8 DEF Next

(* Who was marked on arrival makes the response push, through both awaits. *)
LEMMA PushAnswersOnce ==
  ASSUME IInv, NEW s \in Responses, PushResponse(s), response[s].asking # {}
  PROVE  /\ waiting' = {}
         /\ \A c \in Open \cap marked \cap ready :
              IdOf[c] # IdOf[response[s].conn] =>
                answered'[IdOf[c]] = answered[IdOf[c]] + 1 /\ c \notin marked'
<1> DEFINE served == {d \in Open \cap marked : IdOf[d] # IdOf[response[s].conn]}
<1>1. /\ response[s].push /\ response[s].pc = "storing" /\ waiting \subseteq {Hash} \X Ids
      /\ Open \subseteq Conns
  BY DEF IInv, NetOK, EntriesOK, SoundFrames, PushResponse, Open
<1>2. Answer(served) /\ marked' = marked \ served /\ Machine!ReleaseHash(Hash)
  BY <1>1 DEF PushResponse, PushToRequesters
<1>3. waiting' = {}
  BY <1>1, <1>2 DEF Machine!ReleaseHash
<1>4. ASSUME NEW c \in Open \cap marked \cap ready, IdOf[c] # IdOf[response[s].conn]
      PROVE  answered'[IdOf[c]] = answered[IdOf[c]] + 1 /\ c \notin marked'
  <2>1. c \in served /\ IdOf[c] \in Ids
    BY <1>1, <1>4, ConnsAssumption
  <2>2. \A d \in served : IdOf[d] = IdOf[c] => d = c
    BY DEF Open, Current
  <2> HIDE DEF served
  <2>3. {d \in served \cap ready : IdOf[d] = IdOf[c]} = {c}
    BY <2>1, <2>2
  <2>4. Cardinality({c}) = 1
    BY FS_Singleton
  <2> QED  BY <1>2, <2>1, <2>3, <2>4 DEF Answer
<1> QED  BY <1>3, <1>4

(* Whoever was marked when the response arrived and is marked still when   *)
(* its content has been stored is sent that content, once, and nobody is   *)
(* left waiting for it.                                                    *)
THEOREM MarkedPeersAreServed == Spec => MarkedAreServed
<1>1. IInv /\ [Next]_vars =>
        [\A s \in Responses :
           (response[s].pc = "storing" /\ response'[s].pc = "done" /\ response[s].asking # {}) =>
             /\ waiting' = {}
             /\ \A c \in response[s].asking \cap Open \cap marked \cap ready :
                  IdOf[c] # IdOf[response[s].conn] =>
                    answered'[IdOf[c]] = answered[IdOf[c]] + 1 /\ c \notin marked']_vars
  BY StoredIsPushed, PushAnswersOnce
<1> QED  BY <1>1, InvariantHolds, PTL DEF Spec, MarkedAreServed
=============================================================================
