-------------------------- MODULE QueryForwarding --------------------------
(***************************************************************************)
(* packages/hashtree-worker/src/p2p/queryForwardingMachine.ts: the part of *)
(* a mesh node that remembers which peers wait for which content hash, so  *)
(* that one request per hash goes out however many peers ask, bounded by a *)
(* timeout per forward and by a sliding-window limiter per requester.      *)
(*                                                                         *)
(* The JavaScript Maps are partial functions.  Time is only ever read as a *)
(* difference, so it is kept as ages: the limiter's timestamps are ages    *)
(* that stop growing at Window (they are only compared with it), and a     *)
(* pending setTimeout counts down.  A due timeout may run late.            *)
(***************************************************************************)
EXTENDS Naturals, Sequences, FiniteSets

CONSTANTS
  Hashes,          \* content hashes
  Peers,           \* peer ids
  TimerIds,        \* handles setTimeout may return
  RequestTimeout,  \* requestTimeoutMs, in ticks
  MaxForwards,     \* maxForwardsPerPeerWindow
  Window           \* forwardRateLimitWindowMs, in ticks

ASSUME TimesAssumption ==
  /\ RequestTimeout \in Nat
  /\ MaxForwards \in Nat
  /\ Window \in Nat

VARIABLES
  inFlightByHash,    \* hash -> [requesters, timeoutId]
  hashesByRequester, \* peer -> set of hashes
  eventsByPeer,      \* peer -> ages of its forwards, oldest first
  timers,            \* armed setTimeout handles -> [hash, left]
  output             \* what the last call returned, or the callback it made

vars == <<inFlightByHash, hashesByRequester, eventsByPeer, timers, output>>

-----------------------------------------------------------------------------
EmptyMap == [x \in {} |-> x]
MapSet(m, k, v) == [x \in DOMAIN m \cup {k} |-> IF x = k THEN v ELSE m[x]]
MapDelete(m, gone) == [x \in DOMAIN m \ gone |-> m[x]]

PartialFunctions(D, R) == UNION {[S -> R] : S \in SUBSET D}

InFlight == DOMAIN inFlightByHash
Requesters(h) == IF h \in InFlight THEN inFlightByHash[h].requesters ELSE {}
HashesOf(p) == IF p \in DOMAIN hashesByRequester THEN hashesByRequester[p] ELSE {}
Events(p) == IF p \in DOMAIN eventsByPeer THEN eventsByPeer[p] ELSE << >>

Returned(kind, h, ids) == [kind |-> kind, hash |-> h, ids |-> ids]
Outputs == [kind : {"forward", "suppressed", "rate_limited", "no_targets", "cleared",
                    "timeout", "peer_removed", "stopped", "none"},
            hash : SUBSET Hashes, ids : SUBSET Peers]

-----------------------------------------------------------------------------
(* SlidingWindowRateLimiter.allow: the expired prefix is dropped in every  *)
(* case, then the event is recorded if there is room for it.               *)
ExpiredPrefix(s) == {i \in 1..Len(s) : \A j \in 1..i : s[j] >= Window}
\* Slip: the expired events are never dropped.
DropExpired_Never(s) == s
DropExpired(s) == SubSeq(s, Cardinality(ExpiredPrefix(s)) + 1, Len(s))

\* Slip: one event too many is let through.
HasRoom_OffByOne(p) == Len(DropExpired(Events(p))) <= MaxForwards
HasRoom(p) == Len(DropExpired(Events(p))) < MaxForwards
\* Slip: unshift instead of push.
RecordEvent_Unshift(p) ==
  eventsByPeer' = MapSet(eventsByPeer, p, <<0>> \o DropExpired(Events(p)))
RecordEvent(p) ==
  eventsByPeer' = MapSet(eventsByPeer, p, Append(DropExpired(Events(p)), 0))
DenyEvent(p) ==
  eventsByPeer' = MapSet(eventsByPeer, p, DropExpired(Events(p)))

(* trackRequester: both directions of the index are written together.      *)
TrackInIndex(h, p) ==
  hashesByRequester' = MapSet(hashesByRequester, p, HashesOf(p) \cup {h})

-----------------------------------------------------------------------------
(* beginForward, one disjunct per decision, in the order of its tests.     *)
NoTargets(h, p, candidates) ==
  /\ candidates \ {p} = {}
  /\ output' = Returned("no_targets", {h}, {})
  /\ UNCHANGED <<inFlightByHash, hashesByRequester, eventsByPeer, timers>>

\* Slip: the requester replaces the ones already waiting.
Suppress_Replace(h, p, candidates) ==
  /\ candidates \ {p} # {}
  /\ h \in InFlight
  /\ inFlightByHash' = [inFlightByHash EXCEPT ![h].requesters = {p}]
  /\ TrackInIndex(h, p)
  /\ output' = Returned("suppressed", {h}, {p})
  /\ UNCHANGED <<eventsByPeer, timers>>

\* Slip: a suppressed request restarts the timeout of the forward it joins.
Suppress_Rearm(h, p, candidates) ==
  /\ candidates \ {p} # {}
  /\ h \in InFlight
  /\ inFlightByHash' = [inFlightByHash EXCEPT ![h].requesters = @ \cup {p}]
  /\ timers' = [timers EXCEPT ![inFlightByHash[h].timeoutId].left = RequestTimeout]
  /\ TrackInIndex(h, p)
  /\ output' = Returned("suppressed", {h}, {p})
  /\ UNCHANGED eventsByPeer

Suppress(h, p, candidates) ==
  /\ candidates \ {p} # {}
  /\ h \in InFlight
  /\ inFlightByHash' = [inFlightByHash EXCEPT ![h].requesters = @ \cup {p}]
  /\ TrackInIndex(h, p)
  /\ output' = Returned("suppressed", {h}, {p})
  /\ UNCHANGED <<eventsByPeer, timers>>

RateLimit(h, p, candidates) ==
  /\ candidates \ {p} # {}
  /\ h \notin InFlight
  /\ ~HasRoom(p)
  /\ DenyEvent(p)
  /\ output' = Returned("rate_limited", {h}, {p})
  /\ UNCHANGED <<inFlightByHash, hashesByRequester, timers>>

StartForward(h, p, candidates) ==
  /\ candidates \ {p} # {}
  /\ h \notin InFlight
  /\ HasRoom(p)
  /\ RecordEvent(p)
  /\ TrackInIndex(h, p)
  /\ \E id \in TimerIds \ DOMAIN timers :
       /\ timers' = MapSet(timers, id, [hash |-> h, left |-> RequestTimeout])
       /\ inFlightByHash' =
            MapSet(inFlightByHash, h, [requesters |-> {p}, timeoutId |-> id])
  /\ output' = Returned("forward", {h}, candidates \ {p})

BeginForward(h, p, candidates) ==
  \/ NoTargets(h, p, candidates)
  \/ Suppress(h, p, candidates)
  \/ RateLimit(h, p, candidates)
  \/ StartForward(h, p, candidates)

-----------------------------------------------------------------------------
(* What clearForward leaves of the requester index: the hash is deleted    *)
(* from its requesters' entries, and an entry that becomes empty goes too. *)
\* Slip: the index is left alone.
IndexWithout_Forgotten(h) == hashesByRequester

IndexWithout(h) ==
  LET after(q) == IF q \in Requesters(h) THEN hashesByRequester[q] \ {h}
                                        ELSE hashesByRequester[q]
  IN [q \in {r \in DOMAIN hashesByRequester : r \notin Requesters(h) \/ after(r) # {}}
        |-> after(q)]

TimerOf(h) == inFlightByHash[h].timeoutId

\* Slip: the timeout stays armed.
ClearForward_KeepTimer(h, kind) ==
  /\ inFlightByHash' = MapDelete(inFlightByHash, {h})
  /\ hashesByRequester' = IndexWithout(h)
  /\ output' = Returned(kind, {h}, Requesters(h))
  /\ UNCHANGED <<eventsByPeer, timers>>

(* clearForward of a hash that is in flight.                               *)
ClearForward(h, kind) ==
  /\ timers' = MapDelete(timers, {TimerOf(h)})
  /\ inFlightByHash' = MapDelete(inFlightByHash, {h})
  /\ hashesByRequester' = IndexWithout(h)
  /\ output' = Returned(kind, {h}, Requesters(h))
  /\ UNCHANGED eventsByPeer

(* resolveForward and cancelForward are the same call; on a hash that is   *)
(* not in flight it returns no ids and changes nothing.                    *)
ResolveForward(h) ==
  \/ h \in InFlight /\ ClearForward(h, "cleared")
  \/ /\ h \notin InFlight
     /\ output' = Returned("cleared", {h}, {})
     /\ UNCHANGED <<inFlightByHash, hashesByRequester, eventsByPeer, timers>>

(* The callback of setTimeout.  The handle that ran is spent; clearForward *)
(* also clears the handle the forward remembers.                           *)
HandleForwardTimeout(id) ==
  /\ timers[id].left = 0
  /\ LET h == timers[id].hash IN
       \/ /\ h \in InFlight
          /\ inFlightByHash' = MapDelete(inFlightByHash, {h})
          /\ hashesByRequester' = IndexWithout(h)
          /\ timers' = MapDelete(timers, {id, TimerOf(h)})
          /\ output' = Returned("timeout", {h}, Requesters(h))
       \/ /\ h \notin InFlight
          /\ timers' = MapDelete(timers, {id})
          /\ output' = Returned("none", {}, {})
          /\ UNCHANGED <<inFlightByHash, hashesByRequester>>
  /\ UNCHANGED eventsByPeer

(* removePeer: the peer is taken out of every forward its index names, a   *)
(* forward left with no requester is cleared without a notification, and   *)
(* the limiter forgets the peer.                                           *)
Abandoned(p) == {h \in HashesOf(p) \cap InFlight : Requesters(h) \ {p} = {}}

RemovePeer(p) ==
  /\ inFlightByHash' =
       [h \in InFlight \ Abandoned(p) |->
          IF h \in HashesOf(p)
            THEN [inFlightByHash[h] EXCEPT !.requesters = @ \ {p}]
            ELSE inFlightByHash[h]]
  /\ timers' = MapDelete(timers, {TimerOf(h) : h \in Abandoned(p)})
  /\ hashesByRequester' = MapDelete(hashesByRequester, {p})
  /\ eventsByPeer' = MapDelete(eventsByPeer, {p})
  /\ output' = Returned("peer_removed", {}, {p})

Stop ==
  /\ timers' = MapDelete(timers, {TimerOf(h) : h \in InFlight})
  /\ inFlightByHash' = EmptyMap
  /\ hashesByRequester' = EmptyMap
  /\ eventsByPeer' = EmptyMap
  /\ output' = Returned("stopped", {}, {})

(* A unit of time passes for every armed timeout and recorded event.       *)
Older(age) == IF age < Window THEN age + 1 ELSE age

Tick ==
  /\ timers' = [id \in DOMAIN timers |->
       [timers[id] EXCEPT !.left = IF @ > 0 THEN @ - 1 ELSE 0]]
  /\ eventsByPeer' = [p \in DOMAIN eventsByPeer |->
       [i \in 1..Len(eventsByPeer[p]) |-> Older(eventsByPeer[p][i])]]
  /\ output' = Returned("none", {}, {})
  /\ UNCHANGED <<inFlightByHash, hashesByRequester>>

-----------------------------------------------------------------------------
Init ==
  /\ inFlightByHash = EmptyMap
  /\ hashesByRequester = EmptyMap
  /\ eventsByPeer = EmptyMap
  /\ timers = EmptyMap
  /\ output = Returned("none", {}, {})

Next ==
  \/ \E h \in Hashes, p \in Peers, candidates \in SUBSET Peers :
       BeginForward(h, p, candidates)
  \/ \E h \in Hashes : ResolveForward(h)
  \/ \E id \in DOMAIN timers : HandleForwardTimeout(id)
  \/ \E p \in Peers : RemovePeer(p)
  \/ Stop
  \/ Tick

(* The event loop keeps time passing and runs every due callback.          *)
TimerFairness ==
  /\ WF_vars(Tick)
  /\ \A id \in TimerIds : WF_vars(id \in DOMAIN timers /\ HandleForwardTimeout(id))

Spec == Init /\ [][Next]_vars
FairSpec == Spec /\ TimerFairness

-----------------------------------------------------------------------------
(* Every Map holds what its declared type says, and the limiter's lists    *)
(* never exceed their maximum.                                             *)
TypeOK ==
  /\ inFlightByHash \in PartialFunctions(Hashes, [requesters : SUBSET Peers, timeoutId : TimerIds])
  /\ hashesByRequester \in PartialFunctions(Peers, SUBSET Hashes)
  /\ DOMAIN eventsByPeer \subseteq Peers
  /\ \A p \in DOMAIN eventsByPeer :
       eventsByPeer[p] \in Seq(0..Window) /\ Len(eventsByPeer[p]) <= MaxForwards
  /\ timers \in PartialFunctions(TimerIds, [hash : Hashes, left : 0..RequestTimeout])
  /\ output \in Outputs

(* The two Maps of the machine are one relation seen from both sides: a    *)
(* peer is a requester of a hash in flight exactly when the hash is in the *)
(* peer's entry, and neither side keeps an empty entry.  removePeer finds  *)
(* a leaving peer's forwards only through the second Map.                  *)
IndexAgrees ==
  /\ \A h \in Hashes, p \in Peers : p \in Requesters(h) <=> h \in HashesOf(p)
  /\ \A h \in InFlight : Requesters(h) # {}
  /\ \A p \in DOMAIN hashesByRequester : hashesByRequester[p] # {}

(* A forward in flight has one armed timeout, its own, and no timeout is   *)
(* armed for anything else: a forward cannot outlive its timeout, and the  *)
(* timeout of a finished forward cannot end a later one of the same hash.  *)
OneTimerPerForward ==
  /\ \A h \in InFlight : TimerOf(h) \in DOMAIN timers /\ timers[TimerOf(h)].hash = h
  /\ \A id \in DOMAIN timers : timers[id].hash \in InFlight /\ TimerOf(timers[id].hash) = id

(* The limiter lists its events oldest first: allow stops dropping at the  *)
(* first one still inside the window, and would keep dead ones behind it.  *)
LimiterOrdered ==
  \A p \in DOMAIN eventsByPeer : \A i, j \in 1..Len(eventsByPeer[p]) :
    i < j => eventsByPeer[p][i] >= eventsByPeer[p][j]

(* The two Maps, the timers and the limiter stay consistent with one       *)
(* another through every order of calls and callbacks.                     *)
Safety == TypeOK /\ IndexAgrees /\ OneTimerPerForward /\ LimiterOrdered

(* A request is refused only to a peer that really had its full allowance  *)
(* of forwards started within the window that ends now.                    *)
RefusedOnlyWhenSpent ==
  [][output'.kind = "rate_limited" =>
       \A p \in output'.ids :
         Cardinality({i \in 1..Len(Events(p)) : Events(p)[i] < Window})
           >= MaxForwards]_vars

(* No waiter is dropped in silence: a peer stops waiting for a hash only   *)
(* in a call that names it in the ids it returns or notifies, or because   *)
(* that peer was removed, or the machine stopped.                          *)
NoWaiterDropped ==
  [][\A h \in Hashes, p \in Peers :
       (p \in Requesters(h) /\ p \notin Requesters(h)') =>
          \/ output'.kind \in {"cleared", "timeout"} /\ h \in output'.hash /\ p \in output'.ids
          \/ output'.kind = "peer_removed" /\ p \in output'.ids
          \/ output'.kind = "stopped"]_vars

(* The machine implements the abstract waiting set.                        *)
Coalescing == INSTANCE RequestCoalescing
  WITH waiting <- {w \in Hashes \X Peers : w[2] \in Requesters(w[1])}
ImplementsCoalescing == Coalescing!AbstractSpec

(* No peer waits for ever: again and again it does not wait.  Whatever     *)
(* joins it on the hash in the meantime, its forward is answered,          *)
(* cancelled or timed out.                                                 *)
EveryWaiterReleased ==
  \A h \in Hashes, p \in Peers : []<>(p \notin Requesters(h))
=============================================================================
