------------------------------ MODULE MeshNode ------------------------------
(***************************************************************************)
(* packages/hashtree-worker/src/p2p/webrtcController.ts, the data plane:   *)
(* how a node answers the requests of its peers, forwards those it cannot  *)
(* answer, takes in responses, and runs its own hedged gets.               *)
(*                                                                         *)
(* The module follows one content hash.  Hashes meet only in the deferred  *)
(* queue, whose other entries are abstracted away, and in the limiter,     *)
(* which may refuse at any time.  The forwarding machine is used through   *)
(* what QueryForwarding is shown to implement, the set of RequestCoalescing*)
(* (a hash is in flight exactly when somebody waits for it).               *)
(*                                                                         *)
(* The controller runs in one JavaScript thread: a step runs from one      *)
(* await of a store, a digest or a timer to the next.  Remote peers may    *)
(* send any request or response at any time.                               *)
(***************************************************************************)
EXTENDS Naturals, Sequences, FiniteSets

CONSTANTS
  Hash,         \* the content hash the module follows
  Ids,          \* peer ids
  Conns,        \* WorkerPeer objects; a peer that reconnects gets a new one
  IdOf,         \* the peer id of each
  Requests,     \* requests that may arrive from peers
  Responses,    \* responses that may arrive from peers
  Gets,         \* local calls of get()
  MaxDeferred,  \* how many requests a paused peer may queue (100)
  None

ASSUME ConnsAssumption == IdOf \in [Conns -> Ids] /\ MaxDeferred \in Nat
ASSUME FiniteAssumption == IsFiniteSet(Conns) /\ IsFiniteSet(Requests)
ASSUME NoneAssumption == None \notin Conns \cup Requests \cup Gets

VARIABLES
  peers,     \* the Map: id -> its WorkerPeer, or None
  ready,     \* dataChannelReady
  paused,    \* bufferPaused
  pending,   \* pendingRequests of the hash: who set the entry, or None
  timers,    \* armed entry timeouts, as <<who armed it, on which peer>>
  marked,    \* theirRequests has the hash
  deferred,  \* deferredRequests
  waiting,   \* the forwarding machine
  blob,      \* what the local store holds under the hash
  recent,    \* recentRequests has the hash
  echo,      \* ids whose rtc:peerClosed is still on its way back
  request, response, got,  \* the calls in progress
  answered,  \* history: responses sent so far, by id
  broken     \* history: whose last drain loop a rejected read ended

netVars == <<peers, ready, paused, echo>>
entryVars == <<pending, timers>>
vars == <<peers, ready, paused, pending, timers, marked, deferred, waiting, blob,
          recent, echo, request, response, got, answered, broken>>

Machine == INSTANCE RequestCoalescing WITH Hashes <- {Hash}, Peers <- Ids

Owners == Requests \cup Gets
Waits(id) == <<Hash, id>> \in waiting
Current(c) == peers[IdOf[c]] = c
Open == {c \in Conns : Current(c)}
HasRequesters == Open \cap marked # {}

-----------------------------------------------------------------------------
\* Slip: sent once per object that asked, on the channel or not.
Answer_Twice(to) ==
  answered' = [id \in Ids |-> answered[id] + 2 * Cardinality({c \in to \cap ready : IdOf[c] = id})]

(* sendResponse sends nothing once the peer's channel has closed.          *)
Answer(to) ==
  answered' = [id \in Ids |-> answered[id] + Cardinality({c \in to \cap ready : IdOf[c] = id})]

(* A request whose read of the local store begins.  The blob may be        *)
(* missing from what it reads only if it is missing now.                   *)
Reading(r, draining) ==
  [request[r] EXCEPT !.pc = "reading", !.mayMiss = blob = "none", !.draining = draining]

(* processDeferredRequests: the loop shifts the next request, unless the   *)
(* peer is paused again or nothing is left.                                *)
Drained(c, pausedAgain, requests) ==
  IF ~pausedAgain /\ deferred[c] # << >>
    THEN /\ request' = [requests EXCEPT ![Head(deferred[c])] = Reading(Head(deferred[c]), TRUE)]
         /\ deferred' = [deferred EXCEPT ![c] = Tail(@)]
    ELSE /\ request' = requests
         /\ UNCHANGED deferred

(* A finished call keeps nothing but who asked.                            *)
Done(call) == [call EXCEPT !.pc = "done", !.forwardable = FALSE, !.mayMiss = FALSE,
                           !.draining = FALSE]

(* A request is finished; the loop that processed it, if any, goes on.     *)
\* Slip: the loop ends after one request.
FinishRequest_Once(r) ==
  /\ request' = [request EXCEPT ![r] = Done(@)]
  /\ UNCHANGED deferred

FinishRequest(r) ==
  LET finished == [request EXCEPT ![r] = Done(@)] IN
  IF request[r].draining
    THEN Drained(request[r].conn, request[r].conn \in paused, finished)
    ELSE request' = finished /\ UNCHANGED deferred

\* Slip: one more than the limit.
HasQueueRoom_OneMore(c) == Len(deferred[c]) <= MaxDeferred
HasQueueRoom(c) == Len(deferred[c]) < MaxDeferred

ReceiveRequest(r, c, forwardable) ==
  /\ Current(c) /\ c \in ready
  /\ request[r].pc = "idle"
  /\ LET req == [request[r] EXCEPT !.conn = c, !.forwardable = forwardable] IN
       \/ /\ c \notin paused
          /\ request' = [request EXCEPT
               ![r] = [req EXCEPT !.pc = "reading", !.mayMiss = blob = "none"]]
          /\ UNCHANGED deferred
       \/ /\ c \in paused
          /\ HasQueueRoom(c)
          /\ request' = [request EXCEPT ![r] = [req EXCEPT !.pc = "deferred"]]
          /\ deferred' = [deferred EXCEPT ![c] = Append(@, r)]
       \/ /\ c \in paused
          /\ ~HasQueueRoom(c)
          /\ request' = [request EXCEPT ![r] = Done(req)]
          /\ UNCHANGED deferred
  /\ UNCHANGED <<netVars, entryVars, marked, waiting, blob, recent, response, got, answered,
                 broken>>

(* processRequest after its read of the store.                             *)
ReadHit(r) ==
  /\ request[r].pc = "reading"
  /\ blob # "none"
  /\ Answer({request[r].conn})
  /\ FinishRequest(r)
  /\ UNCHANGED <<netVars, entryVars, marked, waiting, blob, recent, response, got, broken>>

Targets(c) == {d \in Open \cap ready : IdOf[d] # IdOf[c]}

(* Marked for a later push; the hop limit forbids forwarding.              *)
ReadMissKept(r) ==
  /\ ~request[r].forwardable
  /\ marked' = marked \cup {request[r].conn}
  /\ UNCHANGED <<entryVars, waiting>>

(* no_targets and rate_limited: the mark is taken back.                    *)
ReadMissRefused(r) ==
  /\ request[r].forwardable
  /\ Targets(request[r].conn) = {} \/ waiting = {}
  /\ marked' = marked \ {request[r].conn}
  /\ UNCHANGED <<entryVars, waiting>>

ReadMissJoins(r) ==
  /\ request[r].forwardable
  /\ Targets(request[r].conn) # {} /\ waiting # {}
  /\ marked' = marked \cup {request[r].conn}
  /\ Machine!Join(Hash, IdOf[request[r].conn])
  /\ UNCHANGED entryVars

(* forwardRequest: every target gets an entry of its own, over whatever    *)
(* entry it had, and the timeout of that one stays armed.                  *)
ReadMissForwards(r) ==
  /\ request[r].forwardable
  /\ Targets(request[r].conn) # {} /\ waiting = {}
  /\ marked' = marked \cup {request[r].conn}
  /\ Machine!Join(Hash, IdOf[request[r].conn])
  /\ pending' = [c \in Conns |-> IF c \in Targets(request[r].conn) THEN r ELSE pending[c]]
  /\ timers' = timers \cup ({r} \X Targets(request[r].conn))

ReadMiss(r) ==
  /\ request[r].pc = "reading"
  /\ request[r].mayMiss
  /\ ReadMissKept(r) \/ ReadMissRefused(r) \/ ReadMissJoins(r) \/ ReadMissForwards(r)
  /\ FinishRequest(r)
  /\ UNCHANGED <<netVars, blob, recent, response, got, answered, broken>>

Draining(r, c) == request[r].conn = c /\ request[r].pc = "reading" /\ request[r].draining

(* The read is a call of the storage worker and may reject.  The request   *)
(* ends without a mark or an answer, and processDeferredRequests, if it    *)
(* made the call, ends with it: what is still queued stays there.          *)
ReadFails(r) ==
  LET c == request[r].conn IN
  /\ request[r].pc = "reading"
  /\ request' = [request EXCEPT ![r] = Done(@)]
  /\ broken' = IF request[r].draining /\ \A other \in Requests \ {r} : ~Draining(other, c)
                 THEN broken \cup {c} ELSE broken
  /\ UNCHANGED <<netVars, entryVars, marked, deferred, waiting, blob, recent, response, got,
                 answered>>

-----------------------------------------------------------------------------
BufferHigh(c) ==
  /\ Current(c)
  /\ paused' = paused \cup {c}
  /\ UNCHANGED <<peers, ready, echo, entryVars, marked, deferred, waiting, blob, recent,
                 request, response, got, answered, broken>>

BufferLow(c) ==
  /\ Current(c)
  /\ paused' = paused \ {c}
  /\ Drained(c, FALSE, request)
  /\ broken' = broken \ {c}
  /\ UNCHANGED <<peers, ready, echo, entryVars, marked, waiting, blob, recent,
                 response, got, answered>>

-----------------------------------------------------------------------------
(* A response being handled; asking is a history of who was marked when it *)
(* came.                                                                   *)
Response(pc, c, valid, owner, push, requested, asking) ==
  [pc |-> pc, conn |-> c, valid |-> valid, owner |-> owner, push |-> push,
   requested |-> requested, asking |-> asking]
Settled == Response("done", None, FALSE, None, FALSE, FALSE, {})

(* handleResponse.  An entry is consumed on arrival.  Without one, the     *)
(* response is late: it is of use if somebody waits or the hash was asked  *)
(* for in the last minute (a record that turns out older is dropped).      *)
\* Slip: the timeout of the entry is not cleared and the entry stays.
ReceiveAwaited_Kept(s, c, valid) ==
  /\ pending[c] # None
  /\ timers' = timers \ {<<pending[c], c>>}
  /\ response' = [response EXCEPT
       ![s] = Response("checking", c, valid, pending[c], TRUE, FALSE, Open \cap marked)]
  /\ UNCHANGED <<recent, pending>>

ReceiveAwaited(s, c, valid) ==
  /\ pending[c] # None
  /\ timers' = timers \ {<<pending[c], c>>}
  /\ pending' = [pending EXCEPT ![c] = None]
  /\ response' = [response EXCEPT
       ![s] = Response("checking", c, valid, pending[c], TRUE, FALSE, Open \cap marked)]
  /\ UNCHANGED recent

\* Slip: only who waits in the machine counts as a requester.
ReceiveLate_Waiters(s, c, valid) ==
  /\ pending[c] = None
  /\ \E expired \in {FALSE, recent} :
       /\ recent' = (recent /\ ~expired)
       /\ response' = [response EXCEPT ![s] =
            IF waiting # {} \/ recent'
              THEN Response("checking", c, valid, None, waiting # {}, recent, Open \cap marked)
              ELSE Settled]
  /\ UNCHANGED entryVars

ReceiveLate(s, c, valid) ==
  /\ pending[c] = None
  /\ \E expired \in {FALSE, recent} :
       /\ recent' = (recent /\ ~expired)
       /\ response' = [response EXCEPT ![s] =
            IF HasRequesters \/ recent'
              THEN Response("checking", c, valid, None, HasRequesters, recent, Open \cap marked)
              ELSE Settled]
  /\ UNCHANGED entryVars

ReceiveResponse(s, c, valid) ==
  /\ Current(c) /\ c \in ready
  /\ response[s].pc = "idle"
  /\ ReceiveAwaited(s, c, valid) \/ ReceiveLate(s, c, valid)
  /\ UNCHANGED <<netVars, marked, deferred, waiting, blob, request, got, answered, broken>>

(* pending.resolve: a get's promise settles once; a forward has none.      *)
Resolve(owner, c, outcome) ==
  got' = [g \in Gets |->
    IF g = owner /\ got[g].task[c] = "open" THEN [got[g] EXCEPT !.task[c] = outcome]
                                            ELSE got[g]]

(* After verifyHash: what does not verify goes no further.                 *)
\* Slip: the digest is not compared.
CheckResponse_Unverified(s) ==
  /\ response[s].pc = "checking"
  /\ response' = [response EXCEPT ![s].pc = "storing"]
  /\ UNCHANGED <<netVars, entryVars, marked, deferred, waiting, blob, recent, request, got,
                 answered, broken>>

CheckResponse(s) ==
  /\ response[s].pc = "checking"
  /\ \/ /\ response[s].valid
        /\ response' = [response EXCEPT ![s].pc = "storing"]
        /\ UNCHANGED got
     \/ /\ ~response[s].valid
        /\ response' = [response EXCEPT ![s] = Settled]
        /\ Resolve(response[s].owner, response[s].conn, "null")
  /\ UNCHANGED <<netVars, entryVars, marked, deferred, waiting, blob, recent, request, answered,
                 broken>>

(* localStore.put is a call of the storage worker: it takes effect some    *)
(* time after it was made, even if the caller has given it up by then.     *)
StorePut(s) ==
  /\ response[s].pc \in {"storing", "failed"}
  /\ blob' = IF response[s].valid THEN "good" ELSE "bad"
  /\ UNCHANGED <<netVars, entryVars, marked, deferred, waiting, recent, request, response, got,
                 answered, broken>>

(* The put rejects: nothing is resolved, pushed or let go of.              *)
PutFails(s) ==
  /\ response[s].pc = "storing"
  /\ response' = [response EXCEPT
       ![s] = Response("failed", None, @.valid, None, FALSE, FALSE, {})]
  /\ UNCHANGED <<netVars, entryVars, marked, deferred, waiting, blob, recent, request, got,
                 answered, broken>>

(* pushToRequesters: every marked peer of the Map but the one that sent it.*)
\* Slip: only peers that wait in the machine are pushed to.
PushToRequesters_Waiters(from) ==
  LET served == {c \in Open \cap marked : IdOf[c] # from /\ Waits(IdOf[c])} IN
  Answer(served) /\ marked' = marked \ served

PushToRequesters(from) ==
  LET served == {c \in Open \cap marked : IdOf[c] # from} IN
  Answer(served) /\ marked' = marked \ served

(* Once localStore.put has returned: the awaited get resolves, the content is pushed   *)
(* and the forward resolved.  A late response does so only if somebody was *)
(* waiting when it arrived.                                                *)
PushResponse(s) ==
  LET res == response[s] IN
  /\ res.pc = "storing" /\ blob # "none"
  /\ response' = [response EXCEPT ![s] = Settled]
  /\ Resolve(res.owner, res.conn, "data")
  /\ recent' = (recent /\ ~res.requested)
  /\ \/ res.push /\ PushToRequesters(IdOf[res.conn]) /\ Machine!ReleaseHash(Hash)
     \/ ~res.push /\ UNCHANGED <<marked, waiting, answered>>
  /\ UNCHANGED <<netVars, entryVars, deferred, blob, request, broken>>

(* onForwardTimeout and clearRequesterMarkers.                             *)
\* Slip: the marks of the peers that waited stay.
ForwardTimeout_KeepMarks ==
  /\ waiting # {}
  /\ Machine!ReleaseHash(Hash)
  /\ UNCHANGED <<netVars, entryVars, marked, deferred, blob, recent, request, response, got,
                 answered, broken>>

ForwardTimeout ==
  /\ waiting # {}
  /\ Machine!ReleaseHash(Hash)
  /\ marked' = marked \ {c \in Open : Waits(IdOf[c])}
  /\ UNCHANGED <<netVars, entryVars, deferred, blob, recent, request, response, got, answered,
                 broken>>

(* The timeout of an entry deletes the entry the peer has by then, which   *)
(* may be somebody else's.                                                 *)
EntryTimeout(owner, c) ==
  /\ <<owner, c>> \in timers
  /\ timers' = timers \ {<<owner, c>>}
  /\ pending' = [pending EXCEPT ![c] = None]
  /\ Resolve(owner, c, "null")
  /\ UNCHANGED <<netVars, marked, deferred, waiting, blob, recent, request, response, answered,
                 broken>>

-----------------------------------------------------------------------------
Get(pc, rest, task) == [pc |-> pc, rest |-> rest, task |-> task]
NotAsked == [c \in Conns |-> "none"]

(* get: the connected peers are listed once and asked in waves.            *)
AskWave(g, wave, rest) ==
  /\ pending' = [c \in Conns |-> IF c \in wave THEN g ELSE pending[c]]
  /\ timers' = timers \cup ({g} \X wave)
  /\ got' = [got EXCEPT ![g] =
       Get("waiting", rest \ wave, [c \in Conns |-> IF c \in wave THEN "open" ELSE @.task[c]])]

GetStart(g, wave) ==
  /\ got[g].pc = "idle"
  /\ wave \subseteq Open \cap ready
  /\ AskWave(g, wave, Open \cap ready)
  /\ recent' = TRUE
  /\ UNCHANGED <<netVars, marked, deferred, waiting, blob, request, response, answered, broken>>

GetHedge(g, wave) ==
  /\ got[g].pc = "waiting"
  /\ wave \subseteq got[g].rest
  /\ AskWave(g, wave, got[g].rest)
  /\ UNCHANGED <<netVars, marked, deferred, waiting, blob, recent, request, response, answered,
                 broken>>

(* clearPendingHashFromPeers clears the entries of the hash whoever set    *)
(* them, on every peer of the Map but the one to keep.                     *)
ClearPendingHash(keep) ==
  LET cleared == {c \in Open : IdOf[c] # keep /\ pending[c] # None} IN
  /\ pending' = [c \in Conns |-> IF c \in cleared THEN None ELSE pending[c]]
  /\ timers' = timers \ {<<pending[c], c>> : c \in cleared}

GetReturn(g, c) ==
  /\ got[g].pc = "waiting"
  /\ got[g].task[c] = "data"
  /\ got' = [got EXCEPT ![g] = Get("found", {}, NotAsked)]
  /\ ClearPendingHash(IdOf[c])
  /\ UNCHANGED <<netVars, marked, deferred, waiting, blob, recent, request, response, answered,
                 broken>>

GetGiveUp(g) ==
  /\ got[g].pc = "waiting"
  /\ got' = [got EXCEPT ![g] = Get("nothing", {}, NotAsked)]
  /\ ClearPendingHash(None)
  /\ UNCHANGED <<netVars, marked, deferred, waiting, blob, recent, request, response, answered,
                 broken>>

-----------------------------------------------------------------------------
(* createPeer under an id the Map does not have; its channel opens after   *)
(* the proxy has sent whatever it still had to say of the old connection.  *)
CreatePeer(c) ==
  /\ peers[IdOf[c]] = None
  /\ pending[c] = None /\ c \notin ready /\ ~\E r \in Requests : request[r].conn = c
  /\ peers' = [peers EXCEPT ![IdOf[c]] = c]
  /\ UNCHANGED <<ready, paused, echo, entryVars, marked, deferred, waiting, blob, recent,
                 request, response, got, answered, broken>>

ChannelOpen(c) ==
  /\ Current(c) /\ IdOf[c] \notin echo
  /\ ready' = ready \cup {c}
  /\ UNCHANGED <<peers, paused, echo, entryVars, marked, deferred, waiting, blob, recent,
                 request, response, got, answered, broken>>

(* closePeer, for a channel that closed or a connection that failed: only  *)
(* the first says the channel is not ready any more.                       *)
ClosePeer(c, channelClosed) ==
  /\ Current(c)
  /\ ready' = IF channelClosed THEN ready \ {c} ELSE ready
  /\ timers' = timers \ {<<pending[c], c>>}
  /\ Resolve(pending[c], c, "null")
  /\ peers' = [peers EXCEPT ![IdOf[c]] = None]
  /\ echo' = echo \cup {IdOf[c]}
  /\ Machine!ReleasePeer(IdOf[c])
  /\ UNCHANGED <<paused, pending, marked, deferred, blob, recent, request, response, answered,
                 broken>>

(* onPeerClosed: the proxy confirms, and the Map forgets the id, whichever *)
(* object is there by now.                                                 *)
PeerClosed(id) ==
  /\ id \in echo
  /\ echo' = echo \ {id}
  /\ peers' = [peers EXCEPT ![id] = None]
  /\ UNCHANGED <<ready, paused, entryVars, marked, deferred, waiting, blob, recent,
                 request, response, got, answered, broken>>

-----------------------------------------------------------------------------
Init ==
  /\ peers = [id \in Ids |-> None]
  /\ ready = {} /\ paused = {} /\ marked = {} /\ timers = {} /\ echo = {}
  /\ pending = [c \in Conns |-> None]
  /\ deferred = [c \in Conns |-> << >>]
  /\ waiting = {}
  /\ blob = "none" /\ recent = FALSE
  /\ request = [r \in Requests |-> [pc |-> "idle", conn |-> None, forwardable |-> FALSE,
                                    mayMiss |-> FALSE, draining |-> FALSE]]
  /\ response = [s \in Responses |-> Response("idle", None, FALSE, None, FALSE, FALSE, {})]
  /\ got = [g \in Gets |-> Get("idle", {}, NotAsked)]
  /\ answered = [id \in Ids |-> 0]
  /\ broken = {}

PeerStep(c) ==
  \/ \E r \in Requests, forwardable \in BOOLEAN : ReceiveRequest(r, c, forwardable)
  \/ \E s \in Responses, valid \in BOOLEAN : ReceiveResponse(s, c, valid)
  \/ BufferHigh(c)
  \/ BufferLow(c)
  \/ CreatePeer(c)
  \/ ChannelOpen(c)
  \/ \E channelClosed \in BOOLEAN : ClosePeer(c, channelClosed)
  \/ \E owner \in Owners : EntryTimeout(owner, c)

GetStep(g) ==
  \/ \E wave \in SUBSET Conns \ {{}} : GetStart(g, wave) \/ GetHedge(g, wave)
  \/ \E c \in Conns : GetReturn(g, c)
  \/ GetGiveUp(g)

Next ==
  \/ \E c \in Conns : PeerStep(c)
  \/ \E r \in Requests : ReadHit(r) \/ ReadMiss(r) \/ ReadFails(r)
  \/ \E s \in Responses : CheckResponse(s) \/ StorePut(s) \/ PutFails(s) \/ PushResponse(s)
  \/ \E g \in Gets : GetStep(g)
  \/ ForwardTimeout
  \/ \E id \in Ids : PeerClosed(id)

Spec == Init /\ [][Next]_vars

-----------------------------------------------------------------------------
TypeOK ==
  /\ peers \in [Ids -> Conns \cup {None}]
  /\ ready \subseteq Conns /\ paused \subseteq Conns /\ marked \subseteq Conns
  /\ pending \in [Conns -> Owners \cup {None}]
  /\ timers \subseteq Owners \X Conns
  /\ \A c \in Conns : Len(deferred[c]) <= MaxDeferred
  /\ waiting \subseteq {Hash} \X Ids
  /\ recent \in BOOLEAN /\ echo \subseteq Ids /\ broken \subseteq Conns
  /\ \A r \in Requests : request[r].pc \in {"idle", "deferred", "reading", "done"}
  /\ \A s \in Responses : response[s].pc \in {"idle", "checking", "storing", "failed", "done"}
  /\ \A g \in Gets : got[g].pc \in {"idle", "waiting", "found", "nothing"}

(* A peer is never sent more responses than it made requests, however its  *)
(* requests, pushes, late responses and store reads interleave: a mark is  *)
(* spent by the answer it earns.                                           *)
AnswersWereAsked ==
  \A id \in Ids : answered[id] <=
    Cardinality({r \in Requests : request[r].conn # None /\ IdOf[request[r].conn] = id})

(* An entry of a peer in the Map still has its own timeout armed, so that  *)
(* it cannot pin the hash on that peer for ever, although entries overwrite*)
(* one another and timeouts delete entries that are not theirs; and what an*)
(* entry brings is stored, served and pushed on only when it verifies.     *)
EntriesExpire ==
  /\ blob # "bad"
  /\ \A c \in Open : pending[c] # None => <<pending[c], c>> \in timers

(* Requests left in the queue of a peer that is not paused have a loop at  *)
(* work on them: none is stranded by pausing and resuming in between, by   *)
(* two loops at once or by a departure; and a queue keeps its limit.  What *)
(* strands them is a read that rejects: it throws through the last loop of *)
(* the peer, and the queue then waits for the channel to fill and drain    *)
(* once more (webrtcController.ts 705-710).                                *)
DeferredDrained ==
  /\ TypeOK
  /\ \A c \in Conns : c \notin paused \cup broken /\ deferred[c] # << >> =>
       \E r \in Requests : Draining(r, c)

(* Neither an entry nor a deferred request is left with nobody to end it.  *)
NothingStranded == EntriesExpire /\ DeferredDrained

(* The marks and the machine let go of a connected peer together: when it  *)
(* stops waiting, its mark is gone too, unless it sent the content itself. *)
SettledTogether ==
  [][\A c \in Open \cap marked :
       (Waits(IdOf[c]) /\ ~Waits(IdOf[c])' /\ Current(c)') =>
          \/ c \notin marked'
          \/ \E s \in Responses : /\ response[s].pc = "storing" /\ response'[s].pc = "done"
                                  /\ IdOf[response[s].conn] = IdOf[c]]_vars

(* Whoever was marked when a response arrived, early or late, and is still *)
(* marked and connected two awaits later, when the content is verified and *)
(* stored, is sent the content, also one whose hop limit kept it from      *)
(* waiting in the machine; and then nobody waits for the hash any more.    *)
(* Left out are a put that rejects, after which the marks stay, and peers  *)
(* marked only after a late response that nobody was marked for arrived    *)
(* (950): the content is stored for them but not pushed.                   *)
MarkedAreServed ==
  [][\A s \in Responses :
       (response[s].pc = "storing" /\ response'[s].pc = "done" /\ response[s].asking # {}) =>
         /\ waiting' = {}
         /\ \A c \in response[s].asking \cap Open \cap marked \cap ready :
              IdOf[c] # IdOf[response[s].conn] =>
                answered'[IdOf[c]] = answered[IdOf[c]] + 1 /\ c \notin marked']_vars
=============================================================================
