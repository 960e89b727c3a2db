---------------------------- MODULE Stores_proofs ----------------------------
(***************************************************************************)
(* Proofs about where blocks go and come from, for every value of the      *)
(* constants.                                                              *)
(*                                                                         *)
(* The forwarding machine: the inductive invariant is TypeOK /\            *)
(* IndexAgrees /\ OneTimerPerForward: removePeer keeps the timers matched  *)
(* only because the index names every forward of the peer, and             *)
(* clearForward keeps the index only if what it returns is exactly who was *)
(* tracked.                                                                *)
(*                                                                         *)
(* The store with fallbacks (FallbackInv), the Blossom client (BlossomInv) *)
(* and the push of a tree (PushInv) follow, each with the invariant that   *)
(* its property needs.                                                     *)
(***************************************************************************)
EXTENDS QueryForwarding, FallbackStore, BlossomStore, TreePush, FiniteSetTheorems, SequenceTheorems, TLAPS

(* The shape of a map after a set and after a delete.                      *)
LEMMA MapSetType ==
  ASSUME NEW D, NEW R, NEW m \in PartialFunctions(D, R), NEW k \in D, NEW v \in R
  PROVE  MapSet(m, k, v) \in PartialFunctions(D, R)
<1>1. PICK S \in SUBSET D : m \in [S -> R]
  BY DEF PartialFunctions
<1>2. MapSet(m, k, v) \in [S \cup {k} -> R]
  BY <1>1 DEF MapSet
<1>3. S \cup {k} \in SUBSET D
  BY <1>1
<1> QED
  BY <1>2, <1>3 DEF PartialFunctions

LEMMA MapDeleteType ==
  ASSUME NEW D, NEW R, NEW m \in PartialFunctions(D, R), NEW gone
  PROVE  MapDelete(m, gone) \in PartialFunctions(D, R)
<1>1. PICK S \in SUBSET D : m \in [S -> R]
  BY DEF PartialFunctions
<1>2. MapDelete(m, gone) \in [S \ gone -> R]
  BY <1>1 DEF MapDelete
<1> QED
  BY <1>2, <1>1 DEF PartialFunctions

LEMMA PartialFunctionParts ==
  ASSUME NEW D, NEW R, NEW m \in PartialFunctions(D, R)
  PROVE  /\ DOMAIN m \in SUBSET D
         /\ m = [x \in DOMAIN m |-> m[x]]
         /\ \A x \in DOMAIN m : m[x] \in R
BY DEF PartialFunctions

(* Dropping the expired prefix leaves a suffix: no longer than the list,   *)
(* and made of ages the list held.                                         *)
LEMMA DropExpiredType ==
  ASSUME NEW s \in Seq(0..Window)
  PROVE  /\ DropExpired(s) \in Seq(0..Window)
         /\ Len(DropExpired(s)) <= Len(s)
<1> DEFINE len == Len(s)
           n == Cardinality(ExpiredPrefix(s))
<1>1. len \in Nat /\ s \in [1..len -> 0..Window]
  BY LenProperties
<1>2. IsFiniteSet(1..len) /\ Cardinality(1..len) = len
  <2>1. 1 \in Int /\ len \in Int
    BY <1>1
  <2>2. IsFiniteSet(1..len) /\ Cardinality(1..len) = IF 1 > len THEN 0 ELSE len - 1 + 1
    <3> HIDE DEF len
    <3> QED BY <2>1, FS_Interval, Zenon
  <2> QED BY <2>2, <1>1
<1>3. ExpiredPrefix(s) \subseteq 1..len
  BY DEF ExpiredPrefix
<1>4. n \in Nat /\ n <= len
  BY <1>2, <1>3, FS_Subset, FS_CardinalityType
<1>5. SubSeq(s, n + 1, len) \in Seq(0..Window) /\ Len(SubSeq(s, n + 1, len)) <= len
  <2> HIDE DEF n, len
  <2>1. n + 1 \in Int /\ len \in Int /\ \A i \in (n + 1)..len : s[i] \in 0..Window
    BY <1>1, <1>4
  <2>2. /\ SubSeq(s, n + 1, len) \in Seq(0..Window)
        /\ Len(SubSeq(s, n + 1, len)) = IF n + 1 <= len THEN len - (n + 1) + 1 ELSE 0
    BY <2>1, SubSeqProperties, Zenon
  <2> QED BY <2>2, <1>1, <1>4
<1> QED
  BY <1>1, <1>5 DEF DropExpired

LEMMA EventsType ==
  ASSUME TypeOK, NEW p \in Peers
  PROVE  DropExpired(Events(p)) \in Seq(0..Window) /\ Len(DropExpired(Events(p))) <= MaxForwards
<1>1. Events(p) \in Seq(0..Window) /\ Len(Events(p)) <= MaxForwards
  <2>1. CASE p \in DOMAIN eventsByPeer
    BY <2>1 DEF TypeOK, Events
  <2>2. CASE p \notin DOMAIN eventsByPeer
    BY <2>2, EmptySeq, TimesAssumption DEF Events
  <2> QED BY <2>1, <2>2
<1>2. Len(DropExpired(Events(p))) \in Nat /\ Len(Events(p)) \in Nat
  BY <1>1, DropExpiredType, LenProperties
<1> QED
  BY <1>1, <1>2, DropExpiredType, TimesAssumption

-----------------------------------------------------------------------------
(* The inductive invariant.                                                *)
IInv == TypeOK /\ IndexAgrees /\ OneTimerPerForward

Forwards == [requesters : SUBSET Peers, timeoutId : TimerIds]
Timeouts == [hash : Hashes, left : 0..RequestTimeout]

EventsOK ==
  /\ DOMAIN eventsByPeer \subseteq Peers
  /\ \A p \in DOMAIN eventsByPeer :
       eventsByPeer[p] \in Seq(0..Window) /\ Len(eventsByPeer[p]) <= MaxForwards

LEMMA InitIInv == Init => IInv
<1> SUFFICES ASSUME Init PROVE IInv
  OBVIOUS
<1>1. TypeOK
  <2>1. \A D, R : EmptyMap \in PartialFunctions(D, R)
    <3> SUFFICES ASSUME NEW D, NEW R PROVE EmptyMap \in PartialFunctions(D, R)
      OBVIOUS
    <3>1. EmptyMap \in [{} -> R] /\ {} \in SUBSET D
      BY DEF EmptyMap
    <3> QED BY <3>1 DEF PartialFunctions
  <2>2. DOMAIN EmptyMap = {}
    BY DEF EmptyMap
  <2>3. output \in Outputs
    BY DEF Init, Outputs, Returned
  <2> QED BY <2>1, <2>2, <2>3 DEF Init, TypeOK
<1>2. IndexAgrees /\ OneTimerPerForward
  BY DEF Init, IndexAgrees, OneTimerPerForward, EmptyMap, InFlight, Requesters, HashesOf
<1> QED
  BY <1>1, <1>2 DEF IInv

LEMMA NoTargetsIInv ==
  ASSUME IInv, NEW h \in Hashes, NEW p \in Peers, NEW candidates \in SUBSET Peers,
         NoTargets(h, p, candidates)
  PROVE  IInv'
<1>1. TypeOK'
  BY DEF IInv, NoTargets, TypeOK, Outputs, Returned
<1>2. IndexAgrees' /\ OneTimerPerForward'
  BY DEF IInv, NoTargets, IndexAgrees, OneTimerPerForward, InFlight, Requesters, HashesOf, TimerOf
<1> QED
  BY <1>1, <1>2 DEF IInv

LEMMA SuppressIInv ==
  ASSUME IInv, NEW h \in Hashes, NEW p \in Peers, NEW candidates \in SUBSET Peers,
         Suppress(h, p, candidates)
  PROVE  IInv'
<1>1. /\ h \in DOMAIN inFlightByHash
      /\ DOMAIN inFlightByHash' = DOMAIN inFlightByHash
      /\ \A g \in DOMAIN inFlightByHash :
           inFlightByHash'[g] = IF g = h THEN [inFlightByHash[h] EXCEPT !.requesters = @ \cup {p}]
                                         ELSE inFlightByHash[g]
  BY DEF IInv, TypeOK, Suppress, InFlight, PartialFunctions
<1>2. /\ DOMAIN hashesByRequester' = DOMAIN hashesByRequester \cup {p}
      /\ \A q \in DOMAIN hashesByRequester' :
           hashesByRequester'[q] = IF q = p THEN HashesOf(p) \cup {h} ELSE hashesByRequester[q]
  BY DEF Suppress, TrackInIndex, MapSet
<1>3. /\ DOMAIN inFlightByHash \subseteq Hashes
      /\ \A g \in DOMAIN inFlightByHash : inFlightByHash[g] \in Forwards
  <2>1. inFlightByHash \in PartialFunctions(Hashes, Forwards)
    BY DEF IInv, TypeOK, Forwards
  <2> QED BY <2>1, PartialFunctionParts
<1>4. TypeOK'
  <2>1. inFlightByHash' \in PartialFunctions(Hashes, Forwards)
    <3>1. inFlightByHash \in [DOMAIN inFlightByHash -> Forwards]
      BY <1>3 DEF IInv, TypeOK, PartialFunctions
    <3>2. inFlightByHash' \in [DOMAIN inFlightByHash -> Forwards]
      BY <3>1, <1>1, <1>3 DEF Suppress, Forwards
    <3> QED BY <3>2, <1>3 DEF PartialFunctions
  <2>2. hashesByRequester' \in PartialFunctions(Peers, SUBSET Hashes)
    <3>1. HashesOf(p) \cup {h} \in SUBSET Hashes
      BY PartialFunctionParts DEF IInv, TypeOK, HashesOf
    <3> QED BY <3>1, MapSetType DEF IInv, TypeOK, Suppress, TrackInIndex
  <2> QED BY <2>1, <2>2 DEF IInv, TypeOK, Suppress, Outputs, Returned, Forwards
<1>5. IndexAgrees'
  BY <1>1, <1>2, <1>3 DEF IInv, IndexAgrees, InFlight, Requesters, HashesOf, Forwards
<1>6. OneTimerPerForward'
  BY <1>1, <1>3 DEF IInv, OneTimerPerForward, Suppress, InFlight, TimerOf, Forwards
<1> QED
  BY <1>4, <1>5, <1>6 DEF IInv

LEMMA RateLimitIInv ==
  ASSUME IInv, NEW h \in Hashes, NEW p \in Peers, NEW candidates \in SUBSET Peers,
         RateLimit(h, p, candidates)
  PROVE  IInv'
<1>1. EventsOK'
  BY EventsType DEF IInv, TypeOK, RateLimit, DenyEvent, MapSet, EventsOK
<1>2. TypeOK'
  BY <1>1 DEF IInv, RateLimit, TypeOK, EventsOK, Outputs, Returned
<1>3. IndexAgrees' /\ OneTimerPerForward'
  BY DEF IInv, RateLimit, IndexAgrees, OneTimerPerForward, InFlight, Requesters, HashesOf, TimerOf
<1> QED
  BY <1>2, <1>3 DEF IInv

LEMMA StartForwardIInv ==
  ASSUME IInv, NEW h \in Hashes, NEW p \in Peers, NEW candidates \in SUBSET Peers,
         StartForward(h, p, candidates)
  PROVE  IInv'
<1>1. PICK id \in TimerIds \ DOMAIN timers :
        /\ timers' = MapSet(timers, id, [hash |-> h, left |-> RequestTimeout])
        /\ inFlightByHash' = MapSet(inFlightByHash, h, [requesters |-> {p}, timeoutId |-> id])
  BY DEF StartForward
<1>2. /\ h \notin DOMAIN inFlightByHash
      /\ DOMAIN inFlightByHash' = DOMAIN inFlightByHash \cup {h}
      /\ \A g \in DOMAIN inFlightByHash' :
           inFlightByHash'[g] = IF g = h THEN [requesters |-> {p}, timeoutId |-> id]
                                         ELSE inFlightByHash[g]
      /\ DOMAIN timers' = DOMAIN timers \cup {id}
      /\ \A t \in DOMAIN timers' :
           timers'[t] = IF t = id THEN [hash |-> h, left |-> RequestTimeout] ELSE timers[t]
  BY <1>1 DEF StartForward, MapSet, InFlight
<1>3. /\ DOMAIN hashesByRequester' = DOMAIN hashesByRequester \cup {p}
      /\ \A q \in DOMAIN hashesByRequester' :
           hashesByRequester'[q] = IF q = p THEN HashesOf(p) \cup {h} ELSE hashesByRequester[q]
  BY DEF StartForward, TrackInIndex, MapSet
<1>4. TypeOK'
  <2>1. inFlightByHash' \in PartialFunctions(Hashes, [requesters : SUBSET Peers, timeoutId : TimerIds])
    BY <1>1, MapSetType DEF IInv, TypeOK
  <2>2. timers' \in PartialFunctions(TimerIds, [hash : Hashes, left : 0..RequestTimeout])
    <3>1. [hash |-> h, left |-> RequestTimeout] \in [hash : Hashes, left : 0..RequestTimeout]
      BY TimesAssumption
    <3> QED BY <1>1, <3>1, MapSetType DEF IInv, TypeOK
  <2>3. hashesByRequester' \in PartialFunctions(Peers, SUBSET Hashes)
    <3>1. HashesOf(p) \cup {h} \in SUBSET Hashes
      BY PartialFunctionParts DEF IInv, TypeOK, HashesOf
    <3> QED BY <3>1, MapSetType DEF IInv, TypeOK, StartForward, TrackInIndex
  <2>4. EventsOK'
    <3> DEFINE kept == DropExpired(Events(p))
    <3>1. kept \in Seq(0..Window) /\ Len(kept) < MaxForwards /\ 0 \in 0..Window
      BY EventsType, TimesAssumption DEF IInv, StartForward, HasRoom
    <3>2. Append(kept, 0) \in Seq(0..Window) /\ Len(Append(kept, 0)) <= MaxForwards
      <4> HIDE DEF kept
      <4> QED BY <3>1, AppendProperties, LenProperties, TimesAssumption
    <3> QED BY <3>2 DEF IInv, TypeOK, StartForward, RecordEvent, MapSet, EventsOK
  <2> QED BY <2>1, <2>2, <2>3, <2>4 DEF TypeOK, EventsOK, StartForward, Outputs, Returned
<1>5. IndexAgrees'
  BY <1>2, <1>3 DEF IInv, IndexAgrees, InFlight, Requesters, HashesOf
<1>6. OneTimerPerForward'
  BY <1>2 DEF IInv, OneTimerPerForward, InFlight, TimerOf
<1> QED
  BY <1>4, <1>5, <1>6 DEF IInv

-----------------------------------------------------------------------------
(* clearForward.  "Cleared" is what its two callers, the answer and the    *)
(* timeout, do to the three Maps; the invariant follows from that alone.   *)
LEMMA ClearedIInv ==
  ASSUME IInv, NEW h \in InFlight,
         inFlightByHash' = MapDelete(inFlightByHash, {h}),
         hashesByRequester' = IndexWithout(h),
         timers' = MapDelete(timers, {TimerOf(h)}),
         UNCHANGED eventsByPeer, output' \in Outputs
  PROVE  IInv'
<1>1. /\ DOMAIN inFlightByHash' = DOMAIN inFlightByHash \ {h}
      /\ \A g \in DOMAIN inFlightByHash' : inFlightByHash'[g] = inFlightByHash[g]
      /\ DOMAIN timers' = DOMAIN timers \ {TimerOf(h)}
      /\ \A t \in DOMAIN timers' : timers'[t] = timers[t]
  BY DEF MapDelete
<1>2. /\ DOMAIN hashesByRequester' =
           {q \in DOMAIN hashesByRequester :
              q \notin Requesters(h) \/ hashesByRequester[q] \ {h} # {}}
      /\ \A q \in DOMAIN hashesByRequester' :
           hashesByRequester'[q] = IF q \in Requesters(h) THEN hashesByRequester[q] \ {h}
                                                          ELSE hashesByRequester[q]
  BY DEF IndexWithout
<1>3. h \in Hashes /\ DOMAIN hashesByRequester \subseteq Peers
  BY PartialFunctionParts DEF IInv, TypeOK, InFlight
<1>4. TypeOK'
  <2>1. hashesByRequester' \in PartialFunctions(Peers, SUBSET Hashes)
    <3>1. \A q \in DOMAIN hashesByRequester : hashesByRequester[q] \in SUBSET Hashes
      BY PartialFunctionParts DEF IInv, TypeOK
    <3>2. hashesByRequester' \in [DOMAIN hashesByRequester' -> SUBSET Hashes]
      BY <1>2, <3>1 DEF IndexWithout
    <3>3. DOMAIN hashesByRequester' \in SUBSET Peers
      BY <1>2, <1>3
    <3> QED BY <3>2, <3>3 DEF PartialFunctions
  <2>2. inFlightByHash' \in PartialFunctions(Hashes, [requesters : SUBSET Peers, timeoutId : TimerIds])
    BY MapDeleteType DEF IInv, TypeOK
  <2>3. timers' \in PartialFunctions(TimerIds, [hash : Hashes, left : 0..RequestTimeout])
    BY MapDeleteType DEF IInv, TypeOK
  <2> QED BY <2>1, <2>2, <2>3 DEF IInv, TypeOK
<1>5. /\ \A g \in Hashes : Requesters(g)' = IF g = h THEN {} ELSE Requesters(g)
      /\ \A q \in Peers : HashesOf(q)' = IF q \in Requesters(h) THEN HashesOf(q) \ {h}
                                                                ELSE HashesOf(q)
  <2>1. \A g \in Hashes : Requesters(g)' = IF g = h THEN {} ELSE Requesters(g)
    BY <1>1 DEF InFlight, Requesters
  <2>2. \A q \in Peers : q \in DOMAIN hashesByRequester' => HashesOf(q)' = hashesByRequester'[q]
    BY DEF HashesOf
  <2>3. \A q \in Peers : q \notin DOMAIN hashesByRequester' => HashesOf(q)' = {}
    BY DEF HashesOf
  <2>4. ASSUME NEW q \in Peers
        PROVE  HashesOf(q)' = IF q \in Requesters(h) THEN HashesOf(q) \ {h} ELSE HashesOf(q)
    <3>1. CASE q \in DOMAIN hashesByRequester'
      BY <3>1, <2>2, <1>2 DEF HashesOf
    <3>2. CASE q \notin DOMAIN hashesByRequester' /\ q \in DOMAIN hashesByRequester
      BY <3>2, <2>3, <1>2 DEF HashesOf
    <3>3. CASE q \notin DOMAIN hashesByRequester
      BY <3>3, <2>3, <1>2 DEF HashesOf
    <3> QED BY <3>1, <3>2, <3>3
  <2> QED BY <2>1, <2>4
<1>6. IndexAgrees'
  <2>1. \A g \in Hashes, q \in Peers : q \in Requesters(g)' <=> g \in HashesOf(q)'
    BY <1>3, <1>5 DEF IInv, IndexAgrees
  <2>2. \A g \in InFlight' : Requesters(g)' # {}
    BY <1>1 DEF IInv, IndexAgrees, InFlight, Requesters
  <2>3. \A q \in DOMAIN hashesByRequester' : hashesByRequester'[q] # {}
    BY <1>2 DEF IInv, IndexAgrees
  <2> QED BY <2>1, <2>2, <2>3 DEF IndexAgrees
<1>7. OneTimerPerForward'
  <2> DEFINE handle == inFlightByHash[h].timeoutId
  <2>1. /\ \A g \in DOMAIN inFlightByHash :
             /\ inFlightByHash[g].timeoutId \in DOMAIN timers
             /\ timers[inFlightByHash[g].timeoutId].hash = g
        /\ \A t \in DOMAIN timers :
             /\ timers[t].hash \in DOMAIN inFlightByHash
             /\ inFlightByHash[timers[t].hash].timeoutId = t
    BY DEF IInv, OneTimerPerForward, InFlight, TimerOf
  <2>2. /\ DOMAIN timers' = DOMAIN timers \ {handle}
        /\ \A t \in DOMAIN timers' : timers'[t] = timers[t]
    BY <1>1 DEF TimerOf
  <2>3. ASSUME NEW g \in DOMAIN inFlightByHash'
        PROVE  /\ inFlightByHash'[g].timeoutId \in DOMAIN timers'
               /\ timers'[inFlightByHash'[g].timeoutId].hash = g
    <3>1. g \in DOMAIN inFlightByHash /\ g # h /\ inFlightByHash'[g] = inFlightByHash[g]
      BY <1>1
    <3>2. inFlightByHash[g].timeoutId # handle /\ inFlightByHash[g].timeoutId \in DOMAIN timers
      BY <2>1, <3>1 DEF InFlight
    <3> DEFINE own == inFlightByHash[g].timeoutId
    <3>3. own \in DOMAIN timers' /\ timers[own].hash = g
      BY <2>1, <2>2, <3>1, <3>2
    <3>4. timers'[own] = timers[own]
      BY <3>3, <2>2
    <3>5. inFlightByHash'[g].timeoutId = own
      BY <3>1
    <3> QED BY <3>3, <3>4, <3>5
  <2>4. ASSUME NEW t \in DOMAIN timers'
        PROVE  /\ timers'[t].hash \in DOMAIN inFlightByHash'
               /\ inFlightByHash'[timers'[t].hash].timeoutId = t
    <3>1. t \in DOMAIN timers /\ t # handle /\ timers'[t] = timers[t]
      BY <2>2
    <3>2. timers[t].hash \in DOMAIN inFlightByHash' /\ inFlightByHash[timers[t].hash].timeoutId = t
      BY <2>1, <3>1, <1>1
    <3> QED BY <1>1, <3>1, <3>2
  <2> QED BY <2>3, <2>4 DEF OneTimerPerForward, InFlight, TimerOf
<1> QED
  BY <1>4, <1>6, <1>7 DEF IInv

LEMMA RequestersType ==
  ASSUME TypeOK, NEW h
  PROVE  Requesters(h) \in SUBSET Peers
<1>1. \A g \in DOMAIN inFlightByHash : inFlightByHash[g] \in Forwards
  <2>1. inFlightByHash \in PartialFunctions(Hashes, Forwards)
    BY DEF TypeOK, Forwards
  <2> QED BY <2>1, PartialFunctionParts
<1> QED
  BY <1>1 DEF Requesters, InFlight, Forwards

LEMMA ResolveForwardIInv ==
  ASSUME IInv, NEW h \in Hashes, ResolveForward(h)
  PROVE  IInv'
<1>1. CASE h \in InFlight /\ ClearForward(h, "cleared")
  <2>1. output' \in Outputs
    BY <1>1, RequestersType DEF IInv, ClearForward, Outputs, Returned
  <2> QED BY <1>1, <2>1, ClearedIInv DEF ClearForward
<1>2. CASE h \notin InFlight /\ ~(h \in InFlight /\ ClearForward(h, "cleared"))
  <2>1. /\ output' \in Outputs
        /\ UNCHANGED <<inFlightByHash, hashesByRequester, eventsByPeer, timers>>
    BY <1>2 DEF ResolveForward, Outputs, Returned
  <2>2. TypeOK'
    BY <2>1 DEF IInv, TypeOK
  <2>3. IndexAgrees' /\ OneTimerPerForward'
    BY <2>1 DEF IInv, IndexAgrees, OneTimerPerForward, InFlight, Requesters, HashesOf, TimerOf
  <2> QED BY <2>2, <2>3 DEF IInv
<1> QED
  BY <1>1, <1>2 DEF ResolveForward

(* The timeout that runs belongs to the forward it ends, so clearing the   *)
(* handle the forward remembers clears the one that ran.                   *)
LEMMA HandleForwardTimeoutIInv ==
  ASSUME IInv, NEW id \in DOMAIN timers, HandleForwardTimeout(id)
  PROVE  IInv'
<1> DEFINE h == timers[id].hash
<1>1. h \in InFlight /\ TimerOf(h) = id
  BY DEF IInv, OneTimerPerForward
<1>2. h \in Hashes
  BY <1>1, PartialFunctionParts DEF IInv, TypeOK, InFlight
<1>3. /\ inFlightByHash' = MapDelete(inFlightByHash, {h})
      /\ hashesByRequester' = IndexWithout(h)
      /\ timers' = MapDelete(timers, {TimerOf(h)})
      /\ output' = Returned("timeout", {h}, Requesters(h))
      /\ UNCHANGED eventsByPeer
  BY <1>1 DEF HandleForwardTimeout
<1>4. output' \in Outputs
  BY <1>2, <1>3, RequestersType DEF IInv, Outputs, Returned
<1> QED
  <2> HIDE DEF h
  <2> QED BY <1>1, <1>3, <1>4, ClearedIInv

-----------------------------------------------------------------------------
(* removePeer.  By IndexAgrees the hashes of the peer are the forwards it  *)
(* is a requester of, so each remaining forward keeps another requester    *)
(* and its own timeout.                                                    *)
LEMMA RemovePeerIInv ==
  ASSUME IInv, NEW p \in Peers, RemovePeer(p)
  PROVE  IInv'
<1> DEFINE gone == {TimerOf(h) : h \in Abandoned(p)}
<1>1. /\ inFlightByHash \in PartialFunctions(Hashes, Forwards)
      /\ DOMAIN inFlightByHash \subseteq Hashes
      /\ \A g \in DOMAIN inFlightByHash : inFlightByHash[g] \in Forwards
  <2>1. inFlightByHash \in PartialFunctions(Hashes, Forwards)
    BY DEF IInv, TypeOK, Forwards
  <2> QED BY <2>1, PartialFunctionParts
<1>2. /\ DOMAIN inFlightByHash' = DOMAIN inFlightByHash \ Abandoned(p)
      /\ \A g \in DOMAIN inFlightByHash' :
           /\ inFlightByHash'[g] \in Forwards
           /\ inFlightByHash'[g].timeoutId = inFlightByHash[g].timeoutId
           /\ inFlightByHash'[g].requesters = inFlightByHash[g].requesters \ {p}
  <2>1. DOMAIN inFlightByHash' = DOMAIN inFlightByHash \ Abandoned(p)
    BY DEF RemovePeer, InFlight
  <2>2. ASSUME NEW g \in DOMAIN inFlightByHash'
        PROVE  /\ inFlightByHash'[g] \in Forwards
               /\ inFlightByHash'[g].timeoutId = inFlightByHash[g].timeoutId
               /\ inFlightByHash'[g].requesters = inFlightByHash[g].requesters \ {p}
    <3>1. g \in DOMAIN inFlightByHash /\ g \in Hashes /\ inFlightByHash[g] \in Forwards
      BY <1>1, <2>1
    <3>2. CASE g \in HashesOf(p)
      <4>1. inFlightByHash'[g] = [inFlightByHash[g] EXCEPT !.requesters = @ \ {p}]
        BY <2>1, <3>1, <3>2 DEF RemovePeer, InFlight
      <4> QED BY <3>1, <4>1 DEF Forwards
    <3>3. CASE g \notin HashesOf(p)
      <4>1. inFlightByHash'[g] = inFlightByHash[g]
        BY <2>1, <3>1, <3>3 DEF RemovePeer, InFlight
      <4>2. p \notin inFlightByHash[g].requesters
        BY <3>1, <3>3 DEF IInv, IndexAgrees, Requesters, InFlight
      <4> QED BY <3>1, <4>1, <4>2
    <3> QED BY <3>2, <3>3
  <2> QED BY <2>1, <2>2
<1>3. /\ DOMAIN hashesByRequester' = DOMAIN hashesByRequester \ {p}
      /\ \A q \in DOMAIN hashesByRequester' : hashesByRequester'[q] = hashesByRequester[q]
      /\ DOMAIN timers' = DOMAIN timers \ gone
      /\ \A t \in DOMAIN timers' : timers'[t] = timers[t]
  BY DEF RemovePeer, MapDelete
<1>4. TypeOK'
  <2>1. inFlightByHash' \in PartialFunctions(Hashes, [requesters : SUBSET Peers, timeoutId : TimerIds])
    <3>1. inFlightByHash' = [g \in DOMAIN inFlightByHash' |-> inFlightByHash'[g]]
      BY DEF RemovePeer
    <3>2. inFlightByHash' \in [DOMAIN inFlightByHash' -> Forwards]
      BY <3>1, <1>2
    <3>3. DOMAIN inFlightByHash' \in SUBSET Hashes
      BY <1>1, <1>2
    <3> QED BY <3>2, <3>3 DEF PartialFunctions, Forwards
  <2>2. /\ timers' \in PartialFunctions(TimerIds, [hash : Hashes, left : 0..RequestTimeout])
        /\ hashesByRequester' \in PartialFunctions(Peers, SUBSET Hashes)
    BY MapDeleteType DEF IInv, TypeOK, RemovePeer
  <2>3. EventsOK' /\ output' \in Outputs
    BY DEF IInv, TypeOK, RemovePeer, MapDelete, EventsOK, Outputs, Returned
  <2> QED BY <2>1, <2>2, <2>3 DEF TypeOK, EventsOK
<1>5. /\ \A g \in Hashes : Requesters(g)' = Requesters(g) \ {p}
      /\ \A q \in Peers : HashesOf(q)' = IF q = p THEN {} ELSE HashesOf(q)
  <2>1. ASSUME NEW g \in Hashes PROVE Requesters(g)' = Requesters(g) \ {p}
    <3>1. CASE g \in DOMAIN inFlightByHash'
      BY <3>1, <1>2 DEF Requesters, InFlight
    <3>2. CASE g \in Abandoned(p)
      <4>1. Requesters(g) \ {p} = {}
        BY <3>2 DEF Abandoned
      <4>2. Requesters(g)' = {}
        BY <3>2, <1>2 DEF Requesters, InFlight
      <4> QED BY <4>1, <4>2
    <3>3. CASE g \notin DOMAIN inFlightByHash
      BY <3>3, <1>2 DEF Requesters, InFlight
    <3> QED BY <3>1, <3>2, <3>3, <1>2
  <2>2. \A q \in Peers : HashesOf(q)' = IF q = p THEN {} ELSE HashesOf(q)
    BY <1>3 DEF HashesOf
  <2> QED BY <2>1, <2>2
<1>6. IndexAgrees'
  <2>1. \A g \in Hashes, q \in Peers : q \in Requesters(g)' <=> g \in HashesOf(q)'
    BY <1>5 DEF IInv, IndexAgrees
  <2>2. ASSUME NEW g \in InFlight' PROVE Requesters(g)' # {}
    <3>1. g \in InFlight /\ g \notin Abandoned(p) /\ g \in Hashes
      BY <1>1, <1>2 DEF InFlight
    <3>2. CASE g \in HashesOf(p)
      BY <3>1, <3>2, <1>5 DEF Abandoned
    <3>3. CASE g \notin HashesOf(p)
      BY <3>1, <3>3, <1>5 DEF IInv, IndexAgrees
    <3> QED BY <3>2, <3>3
  <2>3. \A q \in DOMAIN hashesByRequester' : hashesByRequester'[q] # {}
    BY <1>3 DEF IInv, IndexAgrees
  <2> QED BY <2>1, <2>2, <2>3 DEF IndexAgrees
<1>7. OneTimerPerForward'
  <2>1. /\ \A g \in DOMAIN inFlightByHash :
             /\ inFlightByHash[g].timeoutId \in DOMAIN timers
             /\ timers[inFlightByHash[g].timeoutId].hash = g
        /\ \A t \in DOMAIN timers :
             /\ timers[t].hash \in DOMAIN inFlightByHash
             /\ inFlightByHash[timers[t].hash].timeoutId = t
    BY DEF IInv, OneTimerPerForward, InFlight, TimerOf
  <2>2. \A t : t \in gone <=> \E h \in Abandoned(p) : t = inFlightByHash[h].timeoutId
    BY DEF TimerOf
  <2>3. Abandoned(p) \subseteq DOMAIN inFlightByHash
    BY DEF Abandoned, InFlight
  <2>4. ASSUME NEW g \in DOMAIN inFlightByHash'
        PROVE  /\ inFlightByHash'[g].timeoutId \in DOMAIN timers'
               /\ timers'[inFlightByHash'[g].timeoutId].hash = g
    <3> DEFINE own == inFlightByHash[g].timeoutId
    <3>1. g \in DOMAIN inFlightByHash /\ g \notin Abandoned(p) /\ inFlightByHash'[g].timeoutId = own
      BY <1>2
    <3>2. own \in DOMAIN timers /\ timers[own].hash = g
      BY <2>1, <3>1
    <3>3. own \notin gone
      <4> SUFFICES ASSUME NEW h \in Abandoned(p), own = inFlightByHash[h].timeoutId
                   PROVE  FALSE
        BY <2>2
      <4>1. timers[inFlightByHash[h].timeoutId].hash = h
        BY <2>1, <2>3
      <4> QED BY <4>1, <3>1, <3>2
    <3>4. own \in DOMAIN timers' /\ timers'[own] = timers[own]
      BY <1>3, <3>2, <3>3
    <3> QED BY <3>1, <3>2, <3>4
  <2>5. ASSUME NEW t \in DOMAIN timers'
        PROVE  /\ timers'[t].hash \in DOMAIN inFlightByHash'
               /\ inFlightByHash'[timers'[t].hash].timeoutId = t
    <3> DEFINE h == timers[t].hash
    <3>1. t \in DOMAIN timers /\ t \notin gone /\ timers'[t] = timers[t]
      BY <1>3
    <3>2. h \in DOMAIN inFlightByHash /\ inFlightByHash[h].timeoutId = t
      BY <2>1, <3>1
    <3>3. h \notin Abandoned(p)
      BY <2>2, <3>1, <3>2
    <3>4. h \in DOMAIN inFlightByHash' /\ inFlightByHash'[h].timeoutId = t
      BY <1>2, <3>2, <3>3
    <3> QED BY <3>1, <3>4
  <2> QED BY <2>4, <2>5 DEF OneTimerPerForward, InFlight, TimerOf
<1> QED
  BY <1>4, <1>6, <1>7 DEF IInv

LEMMA StopIInv ==
  ASSUME IInv, Stop
  PROVE  IInv'
<1>1. DOMAIN timers' = {}
  <2>1. \A t \in DOMAIN timers : timers[t].hash \in InFlight /\ TimerOf(timers[t].hash) = t
    BY DEF IInv, OneTimerPerForward
  <2> QED BY <2>1 DEF Stop, MapDelete
<1>2. DOMAIN EmptyMap = {} /\ \A D, R : EmptyMap \in PartialFunctions(D, R)
  <2> SUFFICES ASSUME NEW D, NEW R PROVE DOMAIN EmptyMap = {} /\ EmptyMap \in PartialFunctions(D, R)
    OBVIOUS
  <2>1. EmptyMap \in [{} -> R] /\ {} \in SUBSET D /\ DOMAIN EmptyMap = {}
    BY DEF EmptyMap
  <2> QED BY <2>1 DEF PartialFunctions
<1>3. TypeOK'
  <2>1. timers' \in PartialFunctions(TimerIds, [hash : Hashes, left : 0..RequestTimeout])
    BY MapDeleteType DEF IInv, TypeOK, Stop
  <2> QED BY <1>2, <2>1 DEF Stop, TypeOK, Outputs, Returned
<1>4. IndexAgrees' /\ OneTimerPerForward'
  BY <1>1, <1>2 DEF Stop, IndexAgrees, OneTimerPerForward, InFlight, Requesters, HashesOf
<1> QED
  BY <1>3, <1>4 DEF IInv

LEMMA TickIInv ==
  ASSUME IInv, Tick
  PROVE  IInv'
<1>1. \A t \in DOMAIN timers : timers[t] \in Timeouts
  <2>1. timers \in PartialFunctions(TimerIds, Timeouts)
    BY DEF IInv, TypeOK, Timeouts
  <2> QED BY <2>1, PartialFunctionParts
<1>2. /\ DOMAIN timers' = DOMAIN timers
      /\ \A t \in DOMAIN timers' : timers'[t] \in Timeouts /\ timers'[t].hash = timers[t].hash
  <2>1. DOMAIN timers' = DOMAIN timers
    BY DEF Tick
  <2>2. ASSUME NEW t \in DOMAIN timers
        PROVE  timers'[t] \in Timeouts /\ timers'[t].hash = timers[t].hash
    <3>1. timers'[t] = [timers[t] EXCEPT !.left = IF @ > 0 THEN @ - 1 ELSE 0]
      BY DEF Tick
    <3>2. timers[t].left \in 0..RequestTimeout
      BY <1>1 DEF Timeouts
    <3>3. (IF timers[t].left > 0 THEN timers[t].left - 1 ELSE 0) \in 0..RequestTimeout
      BY <3>2, TimesAssumption
    <3> QED BY <1>1, <3>1, <3>3 DEF Timeouts
  <2> QED BY <2>1, <2>2
<1>3. TypeOK'
  <2>1. timers' \in PartialFunctions(TimerIds, [hash : Hashes, left : 0..RequestTimeout])
    <3>1. timers' = [t \in DOMAIN timers |-> timers'[t]]
      BY DEF Tick
    <3>2. timers' \in [DOMAIN timers -> Timeouts]
      BY <1>2, <3>1
    <3>3. DOMAIN timers \in SUBSET TimerIds
      BY PartialFunctionParts DEF IInv, TypeOK
    <3> QED BY <3>2, <3>3 DEF PartialFunctions, Timeouts
  <2>2. EventsOK'
    <3>1. DOMAIN eventsByPeer' = DOMAIN eventsByPeer /\ DOMAIN eventsByPeer \subseteq Peers
      BY DEF IInv, TypeOK, Tick
    <3>2. ASSUME NEW p \in DOMAIN eventsByPeer
          PROVE  eventsByPeer'[p] \in Seq(0..Window) /\ Len(eventsByPeer'[p]) <= MaxForwards
      <4> DEFINE s == eventsByPeer[p]
      <4>1. s \in Seq(0..Window) /\ Len(s) <= MaxForwards
        BY DEF IInv, TypeOK
      <4>2. Len(s) \in Nat /\ \A i \in 1..Len(s) : s[i] \in 0..Window
        BY <4>1, LenProperties
      <4>3. \A i \in 1..Len(s) : Older(s[i]) \in 0..Window
        BY <4>2, TimesAssumption DEF Older
      <4>4. eventsByPeer'[p] = [i \in 1..Len(s) |-> Older(s[i])]
        BY DEF Tick
      <4> HIDE DEF s
      <4>5. [i \in 1..Len(s) |-> Older(s[i])] \in [1..Len(s) -> 0..Window]
        BY <4>3
      <4>6. eventsByPeer'[p] \in Seq(0..Window)
        BY <4>2, <4>4, <4>5, IsASeq
      <4>7. DOMAIN eventsByPeer'[p] = 1..Len(s)
        BY <4>4
      <4>8. Len(eventsByPeer'[p]) = Len(s)
        BY <4>2, <4>6, <4>7, LenProperties
      <4> QED BY <4>1, <4>6, <4>8
    <3> QED BY <3>1, <3>2 DEF EventsOK
  <2> QED BY <2>1, <2>2 DEF IInv, TypeOK, Tick, EventsOK, Outputs, Returned
<1>4. IndexAgrees' /\ OneTimerPerForward'
  BY <1>2 DEF IInv, Tick, IndexAgrees, OneTimerPerForward, InFlight, Requesters, HashesOf, TimerOf
<1> QED
  BY <1>3, <1>4 DEF IInv

-----------------------------------------------------------------------------
LEMMA NextIInv == IInv /\ [Next]_vars => IInv'
<1> SUFFICES ASSUME IInv, [Next]_vars PROVE IInv'
  OBVIOUS
<1>1. ASSUME NEW h \in Hashes, NEW p \in Peers, NEW candidates \in SUBSET Peers,
             BeginForward(h, p, candidates)
      PROVE  IInv'
  BY <1>1, NoTargetsIInv, SuppressIInv, RateLimitIInv, StartForwardIInv DEF BeginForward
<1>2. ASSUME NEW h \in Hashes, ResolveForward(h) PROVE IInv'
  BY <1>2, ResolveForwardIInv
<1>3. ASSUME NEW id \in DOMAIN timers, HandleForwardTimeout(id) PROVE IInv'
  BY <1>3, HandleForwardTimeoutIInv
<1>4. ASSUME NEW p \in Peers, RemovePeer(p) PROVE IInv'
  BY <1>4, RemovePeerIInv
<1>5. CASE Stop
  BY <1>5, StopIInv
<1>6. CASE Tick
  BY <1>6, TickIInv
<1>7. CASE UNCHANGED vars
  <2>1. TypeOK'
    BY <1>7 DEF IInv, TypeOK, vars
  <2>2. IndexAgrees' /\ OneTimerPerForward'
    BY <1>7 DEF IInv, vars, IndexAgrees, OneTimerPerForward, InFlight, Requesters, HashesOf, TimerOf
  <2> QED BY <2>1, <2>2 DEF IInv
<1> QED
  BY <1>1, <1>2, <1>3, <1>4, <1>5, <1>6, <1>7 DEF Next

(* The inductive invariant holds in every behaviour.                       *)
THEOREM InvariantHolds == Spec => []IInv
BY InitIInv, NextIInv, PTL DEF Spec

(* Whatever the interleaving of requests, answers, timeouts and leaving    *)
(* peers, every Map of queryForwardingMachine.ts keeps its declared shape  *)
(* and no peer's limiter ever holds more than maxForwardsPerPeerWindow.    *)
THEOREM TypeCorrect == Spec => []TypeOK
<1>1. IInv => TypeOK
  BY DEF IInv
<1> QED
  BY <1>1, InvariantHolds, PTL

(* hashesByRequester and inFlightByHash are always the two sides of one    *)
(* relation, with no empty entry: removePeer misses no forward.            *)
THEOREM IndexesAgree == Spec => []IndexAgrees
<1>1. IInv => IndexAgrees
  BY DEF IInv
<1> QED
  BY <1>1, InvariantHolds, PTL

(* Forwards in flight and armed timeouts correspond one to one: no forward *)
(* is without its timeout, and no timeout outlives its forward.            *)
THEOREM TimersMatchForwards == Spec => []OneTimerPerForward
<1>1. IInv => OneTimerPerForward
  BY DEF IInv
<1> QED
  BY <1>1, InvariantHolds, PTL

-----------------------------------------------------------------------------
(* Who waits for what: the machine implements the waiting set of           *)
(* RequestCoalescing and drops no waiter in silence.  Both follow from     *)
(* what each operation does to the requesters of every hash, which is      *)
(* stated first, under the invariant above.                                *)

(* What the operations do to the requesters.                               *)
LEMMA RequestersKept ==
  ASSUME UNCHANGED inFlightByHash
  PROVE  \A g \in Hashes : Requesters(g)' = Requesters(g)
BY DEF Requesters, InFlight

LEMMA RequestersJoined ==
  ASSUME IInv, NEW h \in Hashes, NEW p \in Peers, NEW candidates \in SUBSET Peers,
         Suppress(h, p, candidates) \/ StartForward(h, p, candidates)
  PROVE  \A g \in Hashes :
           Requesters(g)' = IF g = h THEN Requesters(h) \cup {p} ELSE Requesters(g)
<1>1. CASE Suppress(h, p, candidates)
  <2>1. inFlightByHash \in PartialFunctions(Hashes, Forwards)
    BY DEF IInv, TypeOK, Forwards
  <2>2. /\ h \in DOMAIN inFlightByHash
        /\ inFlightByHash' = [inFlightByHash EXCEPT ![h].requesters = @ \cup {p}]
    BY <1>1 DEF Suppress, InFlight
  <2>3. inFlightByHash[h] \in Forwards
    BY <2>1, <2>2, PartialFunctionParts
  <2>4. /\ DOMAIN inFlightByHash' = DOMAIN inFlightByHash
        /\ inFlightByHash'[h].requesters = inFlightByHash[h].requesters \cup {p}
        /\ \A g \in DOMAIN inFlightByHash : g # h => inFlightByHash'[g] = inFlightByHash[g]
    BY <2>2, <2>3 DEF Forwards
  <2> QED BY <2>2, <2>4 DEF Requesters, InFlight
<1>2. CASE StartForward(h, p, candidates)
  BY <1>2 DEF StartForward, MapSet, Requesters, InFlight
<1> QED
  BY <1>1, <1>2

LEMMA RequestersCleared ==
  ASSUME NEW h \in Hashes, inFlightByHash' = MapDelete(inFlightByHash, {h})
  PROVE  \A g \in Hashes : Requesters(g)' = IF g = h THEN {} ELSE Requesters(g)
BY DEF MapDelete, Requesters, InFlight

LEMMA RequestersRemoved ==
  ASSUME IInv, NEW p \in Peers, RemovePeer(p)
  PROVE  \A g \in Hashes : Requesters(g)' = Requesters(g) \ {p}
<1> SUFFICES ASSUME NEW g \in Hashes PROVE Requesters(g)' = Requesters(g) \ {p}
  OBVIOUS
<1>1. DOMAIN inFlightByHash' = DOMAIN inFlightByHash \ Abandoned(p)
  BY DEF RemovePeer, InFlight
<1>2. p \in Requesters(g) <=> g \in HashesOf(p)
  BY DEF IInv, IndexAgrees
<1>3. CASE g \notin DOMAIN inFlightByHash
  BY <1>1, <1>3 DEF Requesters, InFlight
<1>4. CASE g \in Abandoned(p)
  BY <1>1, <1>4 DEF Requesters, InFlight, Abandoned
<1>5. CASE g \in DOMAIN inFlightByHash' /\ g \in HashesOf(p)
  <2>1. inFlightByHash \in PartialFunctions(Hashes, Forwards)
    BY DEF IInv, TypeOK, Forwards
  <2>2. inFlightByHash[g] \in Forwards
    BY <1>1, <1>5, <2>1, PartialFunctionParts
  <2>3. inFlightByHash'[g] = [inFlightByHash[g] EXCEPT !.requesters = @ \ {p}]
    BY <1>1, <1>5 DEF RemovePeer, InFlight
  <2>4. inFlightByHash'[g].requesters = inFlightByHash[g].requesters \ {p}
    BY <2>2, <2>3 DEF Forwards
  <2> QED BY <2>4, <1>1, <1>5 DEF Requesters, InFlight
<1>6. CASE g \in DOMAIN inFlightByHash' /\ g \notin HashesOf(p)
  <2>1. inFlightByHash'[g] = inFlightByHash[g]
    BY <1>1, <1>6 DEF RemovePeer, InFlight
  <2> QED BY <2>1, <1>1, <1>2, <1>6 DEF Requesters, InFlight
<1> QED
  BY <1>1, <1>3, <1>4, <1>5, <1>6

LEMMA RequestersStopped ==
  ASSUME Stop
  PROVE  \A g \in Hashes : Requesters(g)' = {}
BY DEF Stop, EmptyMap, Requesters, InFlight

(* The timeout that runs is that of the forward it names.                  *)
LEMMA TimeoutClears ==
  ASSUME IInv, NEW id \in DOMAIN timers, HandleForwardTimeout(id)
  PROVE  \E h \in Hashes : /\ inFlightByHash' = MapDelete(inFlightByHash, {h})
                           /\ output' = Returned("timeout", {h}, Requesters(h))
<1> DEFINE h == timers[id].hash
<1>1. h \in InFlight
  BY DEF IInv, OneTimerPerForward
<1>2. h \in Hashes
  BY <1>1, PartialFunctionParts DEF IInv, TypeOK, InFlight
<1>3. /\ inFlightByHash' = MapDelete(inFlightByHash, {h})
      /\ output' = Returned("timeout", {h}, Requesters(h))
  BY <1>1 DEF HandleForwardTimeout
<1> QED
  BY <1>2, <1>3

-----------------------------------------------------------------------------
(* The refinement: the initial states and every step map.                  *)
LEMMA CoalescingInit == Init => Coalescing!AbstractInit
BY DEF Init, EmptyMap, Requesters, InFlight, Coalescing!AbstractInit

Waiting == {w \in Hashes \X Peers : w[2] \in Requesters(w[1])}

LEMMA CoalescingStep ==
  ASSUME IInv, [Next]_vars
  PROVE  [Coalescing!AbstractNext]_Waiting
<1>1. ASSUME \A g \in Hashes : Requesters(g)' = Requesters(g)
      PROVE  Waiting' = Waiting
  BY <1>1 DEF Waiting
<1>2. ASSUME NEW h \in Hashes, NEW p \in Peers,
             \A g \in Hashes :
               Requesters(g)' = IF g = h THEN Requesters(h) \cup {p} ELSE Requesters(g)
      PROVE  Coalescing!AbstractNext
  <2>1. Coalescing!Join(h, p)
    BY <1>2 DEF Coalescing!Join
  <2> QED BY <2>1 DEF Coalescing!AbstractNext
<1>3. ASSUME NEW h \in Hashes,
             \A g \in Hashes : Requesters(g)' = IF g = h THEN {} ELSE Requesters(g)
      PROVE  Coalescing!AbstractNext
  <2>1. Coalescing!ReleaseHash(h)
    BY <1>3 DEF Coalescing!ReleaseHash
  <2> QED BY <2>1 DEF Coalescing!AbstractNext
<1>4. ASSUME NEW p \in Peers, \A g \in Hashes : Requesters(g)' = Requesters(g) \ {p}
      PROVE  Coalescing!AbstractNext
  <2>1. Coalescing!ReleasePeer(p)
    BY <1>4 DEF Coalescing!ReleasePeer
  <2> QED BY <2>1 DEF Coalescing!AbstractNext
<1>5. ASSUME \A g \in Hashes : Requesters(g)' = {}
      PROVE  Coalescing!AbstractNext
  <2>1. Coalescing!ReleaseAll
    BY <1>5 DEF Coalescing!ReleaseAll
  <2> QED BY <2>1 DEF Coalescing!AbstractNext
<1>6. ASSUME NEW h \in Hashes, NEW p \in Peers, NEW candidates \in SUBSET Peers,
             BeginForward(h, p, candidates)
      PROVE  [Coalescing!AbstractNext]_Waiting
  <2>1. CASE NoTargets(h, p, candidates) \/ RateLimit(h, p, candidates)
    BY <2>1, <1>1, RequestersKept DEF NoTargets, RateLimit
  <2>2. CASE Suppress(h, p, candidates) \/ StartForward(h, p, candidates)
    BY <2>2, <1>2, RequestersJoined
  <2> QED BY <1>6, <2>1, <2>2 DEF BeginForward
<1>7. ASSUME NEW h \in Hashes, ResolveForward(h)
      PROVE  [Coalescing!AbstractNext]_Waiting
  <2>1. CASE h \in InFlight /\ ClearForward(h, "cleared")
    BY <2>1, <1>3, RequestersCleared DEF ClearForward
  <2>2. CASE UNCHANGED inFlightByHash
    BY <2>2, <1>1, RequestersKept
  <2> QED BY <1>7, <2>1, <2>2 DEF ResolveForward
<1>8. ASSUME NEW id \in DOMAIN timers, HandleForwardTimeout(id)
      PROVE  [Coalescing!AbstractNext]_Waiting
  BY <1>8, <1>3, TimeoutClears, RequestersCleared
<1>9. ASSUME NEW p \in Peers, RemovePeer(p)
      PROVE  [Coalescing!AbstractNext]_Waiting
  BY <1>9, <1>4, RequestersRemoved
<1>10. CASE Stop
  BY <1>10, <1>5, RequestersStopped
<1>11. CASE Tick \/ UNCHANGED vars
  BY <1>11, <1>1, RequestersKept DEF Tick, vars
<1> QED
  BY <1>6, <1>7, <1>8, <1>9, <1>10, <1>11 DEF Next

(* The machine implements the waiting set: peers come one at a time, and   *)
(* go with their hash, alone, or all together, and for no other reason.    *)
THEOREM MachineCoalesces == Spec => ImplementsCoalescing
<1>1. IInv /\ [Next]_vars => [Coalescing!AbstractNext]_Waiting
  BY CoalescingStep
<1> QED
  BY <1>1, CoalescingInit, InvariantHolds, PTL
     DEF Spec, ImplementsCoalescing, Coalescing!AbstractSpec, Waiting

-----------------------------------------------------------------------------
(* What a call says of those it lets go.                                   *)
Named(h, p) ==
  \/ output'.kind \in {"cleared", "timeout"} /\ h \in output'.hash /\ p \in output'.ids
  \/ output'.kind = "peer_removed" /\ p \in output'.ids
  \/ output'.kind = "stopped"

LEMMA DroppedAreNamed ==
  ASSUME IInv, [Next]_vars, NEW h \in Hashes, NEW p \in Peers,
         p \in Requesters(h), p \notin Requesters(h)'
  PROVE  Named(h, p)
<1>1. ASSUME NEW g \in Hashes, NEW q \in Peers, NEW candidates \in SUBSET Peers,
             BeginForward(g, q, candidates)
      PROVE  FALSE
  <2>1. CASE NoTargets(g, q, candidates) \/ RateLimit(g, q, candidates)
    BY <2>1, RequestersKept DEF NoTargets, RateLimit
  <2>2. CASE Suppress(g, q, candidates) \/ StartForward(g, q, candidates)
    BY <2>2, RequestersJoined
  <2> QED BY <1>1, <2>1, <2>2 DEF BeginForward
<1>2. ASSUME NEW g \in Hashes, ResolveForward(g) PROVE Named(h, p)
  <2>1. CASE g \in InFlight /\ ClearForward(g, "cleared")
    <3>1. h = g
      BY <2>1, RequestersCleared DEF ClearForward
    <3> QED BY <2>1, <3>1 DEF ClearForward, Named, Returned
  <2>2. CASE UNCHANGED inFlightByHash
    BY <2>2, RequestersKept
  <2> QED BY <1>2, <2>1, <2>2 DEF ResolveForward
<1>3. ASSUME NEW id \in DOMAIN timers, HandleForwardTimeout(id) PROVE Named(h, p)
  <2>1. PICK g \in Hashes : /\ inFlightByHash' = MapDelete(inFlightByHash, {g})
                            /\ output' = Returned("timeout", {g}, Requesters(g))
    BY <1>3, TimeoutClears
  <2>2. h = g
    BY <2>1, RequestersCleared
  <2> QED BY <2>1, <2>2 DEF Named, Returned
<1>4. ASSUME NEW q \in Peers, RemovePeer(q) PROVE Named(h, p)
  <2>1. p = q
    BY <1>4, RequestersRemoved
  <2> QED BY <1>4, <2>1 DEF RemovePeer, Named, Returned
<1>5. CASE Stop
  BY <1>5 DEF Stop, Named, Returned
<1>6. CASE Tick \/ UNCHANGED vars
  BY <1>6, RequestersKept DEF Tick, vars
<1> QED
  BY <1>1, <1>2, <1>3, <1>4, <1>5, <1>6 DEF Next

(* Whoever stops waiting is among the ids the call returned or notified,   *)
(* was removed, or the machine stopped: the mesh node that pushes content  *)
(* to the ids it is given leaves nobody out.                               *)
THEOREM WaitersAreNamed == Spec => NoWaiterDropped
<1> DEFINE A == \A h \in Hashes, p \in Peers :
                  (p \in Requesters(h) /\ p \notin Requesters(h)') => Named(h, p)
<1>1. IInv /\ [Next]_vars => [A]_vars
  BY DroppedAreNamed
<1>2. Spec => [][A]_vars
  <2> HIDE DEF A
  <2> QED BY <1>1, InvariantHolds, PTL DEF Spec
<1> QED
  BY <1>2 DEF NoWaiterDropped, Named

-----------------------------------------------------------------------------
(* SlidingWindowRateLimiter: its lists stay in order, and so dropping the  *)
(* expired prefix drops every expired event; a refused peer has therefore  *)
(* used its whole allowance within the window.                             *)

Ages == 0..Window
Ordered(s) == \A i, j \in 1..Len(s) : i < j => s[i] >= s[j]

(* What dropping the expired prefix leaves, and where it comes from.       *)
LEMMA DropExpiredElements ==
  ASSUME NEW s \in Seq(Ages)
  PROVE  LET n == Cardinality(ExpiredPrefix(s))
             kept == DropExpired(s)
         IN /\ n \in 0..Len(s) /\ Len(s) \in Nat
            /\ Len(kept) = Len(s) - n
            /\ \A i \in 1..Len(kept) : kept[i] = s[n + i] /\ n + i \in 1..Len(s)
<1> DEFINE len == Len(s)
           n == Cardinality(ExpiredPrefix(s))
           kept == DropExpired(s)
<1>1. len \in Nat /\ s \in [1..len -> Ages]
  BY LenProperties
<1>2. n \in Nat /\ n <= len
  <2>1. 1 \in Int /\ len \in Int
    BY <1>1
  <2>2. IsFiniteSet(1..len) /\ Cardinality(1..len) = IF 1 > len THEN 0 ELSE len - 1 + 1
    <3> HIDE DEF len
    <3> QED BY <2>1, FS_Interval, Zenon
  <2>3. ExpiredPrefix(s) \subseteq 1..len
    BY DEF ExpiredPrefix
  <2>4. Cardinality(1..len) = len
    BY <1>1, <2>2
  <2> QED BY <2>2, <2>3, <2>4, FS_Subset, FS_CardinalityType
<1>3. kept = SubSeq(s, n + 1, len)
  BY DEF DropExpired
<1> HIDE DEF len, n, kept
<1>4. n + 1 \in Int /\ len \in Int /\ \A i \in (n + 1)..len : s[i] \in Ages
  BY <1>1, <1>2
<1>5. /\ Len(kept) = IF n + 1 <= len THEN len - (n + 1) + 1 ELSE 0
      /\ \A i \in 1..(len - (n + 1) + 1) : kept[i] = s[n + 1 + i - 1]
  <2> DEFINE m == n + 1
  <2>1. m \in Int /\ len \in Int /\ \A i \in m..len : s[i] \in Ages
    BY <1>4
  <2> HIDE DEF m
  <2>2. /\ Len(SubSeq(s, m, len)) = IF m <= len THEN len - m + 1 ELSE 0
        /\ \A i \in 1..len - m + 1 : SubSeq(s, m, len)[i] = s[m + i - 1]
    BY <2>1, SubSeqProperties
  <2> QED BY <1>3, <2>2 DEF m
<1>6. Len(kept) = len - n
  BY <1>1, <1>2, <1>5
<1>7. \A i \in 1..Len(kept) : kept[i] = s[n + i] /\ n + i \in 1..len
  <2> SUFFICES ASSUME NEW i \in 1..Len(kept) PROVE kept[i] = s[n + i] /\ n + i \in 1..len
    OBVIOUS
  <2>1. i \in 1..(len - (n + 1) + 1) /\ n + 1 + i - 1 = n + i /\ n + i \in 1..len
    BY <1>1, <1>2, <1>6
  <2> QED BY <1>5, <2>1
<1> QED
  BY <1>1, <1>2, <1>6, <1>7 DEF len, n, kept

LEMMA OrderedDrop ==
  ASSUME NEW s \in Seq(Ages), Ordered(s)
  PROVE  Ordered(DropExpired(s))
<1> DEFINE n == Cardinality(ExpiredPrefix(s))
           kept == DropExpired(s)
<1>1. /\ n \in 0..Len(s) /\ Len(s) \in Nat
      /\ Len(kept) = Len(s) - n
      /\ \A i \in 1..Len(kept) : kept[i] = s[n + i] /\ n + i \in 1..Len(s)
  BY DropExpiredElements
<1> HIDE DEF n, kept
<1>2. ASSUME NEW i \in 1..Len(kept), NEW j \in 1..Len(kept), i < j
      PROVE  kept[i] >= kept[j]
  <2>1. n + i < n + j
    BY <1>1, <1>2
  <2> QED BY <1>1, <2>1 DEF Ordered
<1> QED
  BY <1>2 DEF Ordered, kept

LEMMA OrderedAppend ==
  ASSUME NEW s \in Seq(Ages), Ordered(s)
  PROVE  Ordered(Append(s, 0))
<1>1. 0 \in Ages /\ Len(s) \in Nat /\ \A i \in 1..Len(s) : s[i] \in Ages
  BY LenProperties, TimesAssumption DEF Ages
<1>2. /\ Len(Append(s, 0)) = Len(s) + 1
      /\ \A i \in 1..Len(s) : Append(s, 0)[i] = s[i]
      /\ Append(s, 0)[Len(s) + 1] = 0
  BY <1>1, AppendProperties
<1>3. ASSUME NEW i \in 1..(Len(s) + 1), NEW j \in 1..(Len(s) + 1), i < j
      PROVE  Append(s, 0)[i] >= Append(s, 0)[j]
  <2>1. i \in 1..Len(s)
    BY <1>1, <1>3
  <2>2. CASE j \in 1..Len(s)
    BY <1>2, <1>3, <2>1, <2>2 DEF Ordered
  <2>3. CASE j = Len(s) + 1
    BY <1>1, <1>2, <2>1, <2>3, TimesAssumption DEF Ages
  <2> QED BY <1>1, <2>2, <2>3
<1> QED
  BY <1>2, <1>3 DEF Ordered

(* In an ordered list the expired events are its prefix, so a list that is *)
(* full after dropping them is full of events inside the window.           *)
LEMMA RecentAreKept ==
  ASSUME NEW s \in Seq(Ages), Ordered(s)
  PROVE  Cardinality({i \in 1..Len(s) : s[i] < Window}) = Len(DropExpired(s))
<1> DEFINE len == Len(s)
           expired == ExpiredPrefix(s)
           recent == {i \in 1..len : s[i] < Window}
<1>1. len \in Nat /\ \A i \in 1..len : s[i] \in Nat
  BY LenProperties, TimesAssumption DEF Ages
<1>2. expired = {i \in 1..len : s[i] >= Window}
  <2>1. ASSUME NEW i \in 1..len, s[i] >= Window, NEW j \in 1..i
        PROVE  s[j] >= Window
    <3>1. j \in 1..len /\ (j = i \/ j < i)
      BY <1>1
    <3>2. j < i => s[j] >= s[i]
      BY <3>1 DEF Ordered
    <3> QED BY <1>1, <2>1, <3>1, <3>2, TimesAssumption
  <2>2. \A i \in 1..len : i \in 1..i
    BY <1>1
  <2> QED BY <2>1, <2>2 DEF ExpiredPrefix
<1>3. recent = (1..len) \ expired /\ expired \subseteq 1..len
  <2>1. \A i \in 1..len : s[i] < Window <=> ~(s[i] >= Window)
    BY <1>1, TimesAssumption
  <2> QED BY <1>2, <2>1
<1>4. IsFiniteSet(1..len) /\ Cardinality(1..len) = len
  <2>1. 1 \in Int /\ len \in Int
    BY <1>1
  <2>2. IsFiniteSet(1..len) /\ Cardinality(1..len) = IF 1 > len THEN 0 ELSE len - 1 + 1
    <3> HIDE DEF len
    <3> QED BY <2>1, FS_Interval, Zenon
  <2> QED BY <1>1, <2>2
<1>5. Cardinality(recent) = len - Cardinality(expired)
  <2>1. Cardinality((1..len) \ expired) = Cardinality(1..len) - Cardinality((1..len) \cap expired)
    BY <1>4, FS_Difference
  <2>2. (1..len) \cap expired = expired
    BY <1>3
  <2> HIDE DEF recent, expired, len
  <2> QED BY <1>3, <1>4, <2>1, <2>2
<1>6. Len(DropExpired(s)) = len - Cardinality(expired)
  BY DropExpiredElements
<1> QED
  BY <1>5, <1>6

-----------------------------------------------------------------------------
LInv == IInv /\ LimiterOrdered

LEMMA EventsOrdered ==
  ASSUME LInv, NEW p \in Peers
  PROVE  Events(p) \in Seq(Ages) /\ Ordered(Events(p))
<1>1. CASE p \in DOMAIN eventsByPeer
  BY <1>1 DEF LInv, IInv, TypeOK, LimiterOrdered, Events, Ages, Ordered
<1>2. CASE p \notin DOMAIN eventsByPeer
  BY <1>2, EmptySeq DEF Events, Ordered
<1> QED
  BY <1>1, <1>2

LEMMA RecordedInOrder ==
  ASSUME LInv, NEW p \in Peers, DenyEvent(p) \/ RecordEvent(p)
  PROVE  LimiterOrdered'
<1> DEFINE kept == DropExpired(Events(p))
<1>1. kept \in Seq(Ages) /\ Ordered(kept)
  BY EventsOrdered, EventsType, OrderedDrop DEF LInv, IInv, Ages
<1>2. Ordered(Append(kept, 0))
  BY <1>1, OrderedAppend
<1>3. \A q \in DOMAIN eventsByPeer : Ordered(eventsByPeer[q])
  BY DEF LInv, LimiterOrdered, Ordered
<1>4. PICK list : Ordered(list) /\ eventsByPeer' = MapSet(eventsByPeer, p, list)
  BY <1>1, <1>2 DEF DenyEvent, RecordEvent
<1>5. \A q \in DOMAIN eventsByPeer' : Ordered(eventsByPeer'[q])
  BY <1>3, <1>4 DEF MapSet
<1> QED
  BY <1>5 DEF LimiterOrdered, Ordered

LEMMA OlderInOrder ==
  ASSUME LInv, Tick
  PROVE  LimiterOrdered'
<1>1. DOMAIN eventsByPeer' = DOMAIN eventsByPeer
  BY DEF Tick
<1>2. ASSUME NEW p \in DOMAIN eventsByPeer PROVE Ordered(eventsByPeer'[p])
  <2> DEFINE s == eventsByPeer[p]
  <2>1. s \in Seq(Ages) /\ Ordered(s)
    BY DEF LInv, IInv, TypeOK, LimiterOrdered, Ages, Ordered
  <2>2. eventsByPeer'[p] = [i \in 1..Len(s) |-> Older(s[i])]
    BY DEF Tick
  <2> HIDE DEF s
  <2>3. Len(s) \in Nat /\ \A i \in 1..Len(s) : s[i] \in Ages
    BY <2>1, LenProperties
  <2>4. Len(eventsByPeer'[p]) = Len(s)
    BY <2>2, <2>3
  <2>5. ASSUME NEW i \in 1..Len(s), NEW j \in 1..Len(s), i < j
        PROVE  Older(s[i]) >= Older(s[j])
    <3>1. s[i] >= s[j] /\ s[i] \in Ages /\ s[j] \in Ages
      BY <2>1, <2>3, <2>5 DEF Ordered
    <3> QED BY <3>1, TimesAssumption DEF Older, Ages
  <2> QED BY <2>2, <2>4, <2>5 DEF Ordered
<1> QED
  BY <1>1, <1>2 DEF LimiterOrdered, Ordered

LEMMA OrderKept == LInv /\ [Next]_vars => LInv'
<1> SUFFICES ASSUME LInv, [Next]_vars PROVE LInv'
  OBVIOUS
<1>1. IInv'
  BY NextIInv DEF LInv
<1>2. ASSUME UNCHANGED eventsByPeer PROVE LimiterOrdered'
  BY <1>2 DEF LInv, LimiterOrdered
<1>3. ASSUME NEW h \in Hashes, NEW p \in Peers, NEW candidates \in SUBSET Peers,
             BeginForward(h, p, candidates)
      PROVE  LimiterOrdered'
  <2>1. CASE NoTargets(h, p, candidates) \/ Suppress(h, p, candidates)
    BY <2>1, <1>2 DEF NoTargets, Suppress
  <2>2. CASE RateLimit(h, p, candidates) \/ StartForward(h, p, candidates)
    BY <2>2, RecordedInOrder DEF RateLimit, StartForward
  <2> QED BY <1>3, <2>1, <2>2 DEF BeginForward
<1>4. ASSUME NEW h \in Hashes, ResolveForward(h) PROVE LimiterOrdered'
  BY <1>4, <1>2 DEF ResolveForward, ClearForward
<1>5. ASSUME NEW id \in DOMAIN timers, HandleForwardTimeout(id) PROVE LimiterOrdered'
  BY <1>5, <1>2 DEF HandleForwardTimeout
<1>6. ASSUME NEW p \in Peers, RemovePeer(p) PROVE LimiterOrdered'
  BY <1>6 DEF RemovePeer, MapDelete, LInv, LimiterOrdered
<1>7. CASE Stop
  BY <1>1, <1>7 DEF Stop, EmptyMap, LimiterOrdered, LInv
<1>8. CASE Tick
  BY <1>1, <1>8, OlderInOrder DEF LInv
<1>9. CASE UNCHANGED vars
  BY <1>1, <1>2, <1>9 DEF vars, LInv
<1> QED
  BY <1>1, <1>3, <1>4, <1>5, <1>6, <1>7, <1>8, <1>9 DEF Next, LInv

LEMMA LimiterInvariant == Spec => []LInv
<1>1. Init => LInv
  BY InitIInv DEF LInv, Init, EmptyMap, LimiterOrdered
<1> QED
  BY <1>1, OrderKept, PTL DEF Spec

(* The limiter's events stay listed oldest first, whatever requests,       *)
(* departures and passing time do: allow may stop dropping at the first    *)
(* event still inside the window.                                          *)
THEOREM LimiterInOrder == Spec => []LimiterOrdered
<1>1. LInv => LimiterOrdered
  BY DEF LInv
<1> QED
  BY <1>1, LimiterInvariant, PTL

(* The tables of the machine agree with one another in every reachable     *)
(* state: requester index, forwards, timers and limiter together.          *)
THEOREM TablesAgree == Spec => []Safety
<1>1. TypeOK /\ IndexAgrees /\ OneTimerPerForward /\ LimiterOrdered => Safety
  BY DEF Safety
<1> QED
  BY <1>1, TypeCorrect, IndexesAgree, TimersMatchForwards, LimiterInOrder, PTL

LEMMA RefusedSpent ==
  ASSUME LInv, Next, output'.kind = "rate_limited"
  PROVE  \A p \in output'.ids :
           Cardinality({i \in 1..Len(Events(p)) : Events(p)[i] < Window}) >= MaxForwards
<1>1. ASSUME NEW h \in Hashes, NEW p \in Peers, NEW candidates \in SUBSET Peers,
             RateLimit(h, p, candidates)
      PROVE  Cardinality({i \in 1..Len(Events(p)) : Events(p)[i] < Window}) >= MaxForwards
  <2>1. Len(DropExpired(Events(p))) \in Nat
    BY EventsType, LenProperties DEF LInv, IInv
  <2>2. Len(DropExpired(Events(p))) >= MaxForwards
    BY <1>1, <2>1, TimesAssumption DEF RateLimit, HasRoom
  <2> QED BY <2>2, EventsOrdered, RecentAreKept
<1>2. ASSUME NEW h \in Hashes, NEW p \in Peers, NEW candidates \in SUBSET Peers,
             BeginForward(h, p, candidates)
      PROVE  RateLimit(h, p, candidates) /\ output'.ids = {p}
  BY <1>2 DEF BeginForward, NoTargets, Suppress, RateLimit, StartForward, Returned
<1>3. ASSUME NEW h \in Hashes, ResolveForward(h) PROVE FALSE
  BY <1>3 DEF ResolveForward, ClearForward, Returned
<1>4. ASSUME NEW id \in DOMAIN timers, HandleForwardTimeout(id) PROVE FALSE
  BY <1>4 DEF HandleForwardTimeout, Returned
<1>5. ASSUME NEW p \in Peers, RemovePeer(p) PROVE FALSE
  BY <1>5 DEF RemovePeer, Returned
<1>6. ~Stop /\ ~Tick
  BY DEF Stop, Tick, Returned
<1> QED
  BY <1>1, <1>2, <1>3, <1>4, <1>5, <1>6 DEF Next

(* Nobody is refused early: a peer that beginForward turns away has as     *)
(* many forwards inside the window as maxForwardsPerPeerWindow allows.     *)
THEOREM RefusalsEarned == Spec => RefusedOnlyWhenSpent
<1>1. LInv /\ [Next]_vars =>
        [output'.kind = "rate_limited" =>
           \A p \in output'.ids :
             Cardinality({i \in 1..Len(Events(p)) : Events(p)[i] < Window}) >= MaxForwards]_vars
  BY RefusedSpent
<1> QED
  BY <1>1, LimiterInvariant, PTL DEF Spec, RefusedOnlyWhenSpent

-----------------------------------------------------------------------------
(* The store with fallbacks.                                               *)

(* A read that ended has no fallback to wait for, if it ended with null,   *)
(* and the reads after the last have not begun.                            *)
ReadsKept ==
  /\ reads \in 0..MaxReads
  /\ fetch = [n \in Reads |-> fetch[n]]
  /\ \A n \in Reads : fetch[n] = [s \in Stores |-> fetch[n][s]]
  /\ result = [n \in Reads |-> result[n]]
  /\ \A n \in Reads : /\ result[n] \in {"open", "data", "null"}
                      /\ n > reads => result[n] = "open" /\ \A s \in Stores : fetch[n][s] = "no"
                      /\ result[n] = "null" => Pending(n, fetch) = {}

(* Who waits, or was told that there is nothing, has a read that says so.  *)
ReadersKept ==
  /\ reader = [r \in Readers |-> reader[r]]
  /\ \A r \in Readers :
       /\ reader[r].at = "waiting" => reader[r].read \in 1..reads
       /\ reader[r].at = "null" /\ reader[r].read # NoRead =>
            reader[r].read \in 1..reads /\ result[reader[r].read] = "null"

OneOpen ==
  /\ inflight # NoRead => inflight \in 1..reads
  /\ \A n \in 1..reads : result[n] = "open" => inflight = n

FallbackInv == FallbackTypeOK /\ ReadsKept /\ ReadersKept /\ OneOpen

LEMMA FallbackInvImplies == FallbackInv => ReadsShared
<1> SUFFICES ASSUME FallbackInv PROVE ReadsShared
  OBVIOUS
<1> USE FallbackAssumption DEF FallbackInv
<1> DEFINE Open == {n \in 1..reads : result[n] = "open"}
<1>1. Open = {} \/ Open = {inflight}
  BY DEF OneOpen
<1>2. Cardinality(Open) <= 1
  <2>1. Cardinality({}) = 0 /\ Cardinality({inflight}) = 1
    BY FS_EmptySet, FS_Singleton
  <2> HIDE DEF Open
  <2> QED  BY <1>1, <2>1
<1>3. \A r \in Readers : reader[r].at = "null" /\ reader[r].read # NoRead =>
        Pending(reader[r].read, fetch) = {} /\ result[reader[r].read] = "null"
  BY DEF ReadersKept, ReadsKept, Reads
<1> QED  BY <1>2, <1>3 DEF ReadsShared, OneOpen

LEMMA FallbackInitHolds == FallbackInit => FallbackInv
<1> SUFFICES ASSUME FallbackInit PROVE FallbackInv
  OBVIOUS
<1> USE FallbackAssumption DEF FallbackInit
<1>1. FallbackTypeOK
  BY DEF FallbackTypeOK, At
<1>2. ReadsKept
  BY DEF ReadsKept
<1>3. ReadersKept /\ OneOpen
  BY DEF ReadersKept, OneOpen, At
<1> QED  BY <1>1, <1>2, <1>3 DEF FallbackInv

(* A get goes on: to the primary store, to the read in flight, or back.    *)
LEMMA ReaderGoesOn ==
  ASSUME FallbackInv, NEW r \in Readers, NEW a, NEW n,
         reader' = [reader EXCEPT ![r] = At(a, n)],
         a \in {"idle", "primary", "waiting", "data", "null"}, n \in Reads \cup {NoRead},
         a = "waiting" => n \in 1..reads,
         a = "null" /\ n # NoRead => n \in 1..reads /\ result[n] = "null",
         UNCHANGED <<primary, has, fallbacks, reads, fetch, result, inflight, puts>>
  PROVE  FallbackInv'
<1> USE DEF FallbackInv
<1>1. /\ reader' = [x \in Readers |-> reader'[x]]
      /\ reader'[r].at = a /\ reader'[r].read = n
      /\ \A x \in Readers \ {r} : reader'[x] = reader[x]
  BY DEF ReadersKept, At
<1>2. FallbackTypeOK'
  <2>1. \A x \in Readers : reader'[x].at \in {"idle", "primary", "waiting", "data", "null"}
                           /\ reader'[x].read \in Reads \cup {NoRead}
    BY <1>1 DEF FallbackTypeOK
  <2> QED  BY <2>1 DEF FallbackTypeOK
<1>3. ReadsKept' /\ OneOpen'
  BY DEF ReadsKept, OneOpen, Pending
<1>4. ReadersKept'
  BY <1>1 DEF ReadersKept
<1> QED  BY <1>2, <1>3, <1>4

(* The first get that misses starts a read.                                *)
LEMMA ReadBegins ==
  ASSUME FallbackInv, NEW r \in Readers, PrimaryAnswers(r), reads' = reads + 1
  PROVE  FallbackInv'
<1> USE FallbackAssumption DEF FallbackInv
<1> DEFINE n == reads + 1
           asked == [s \in Stores |-> IF s \in fallbacks THEN "asked" ELSE "no"]
<1>1. reads \in Nat /\ reads # n
  BY DEF ReadsKept
<1>2. /\ inflight = NoRead /\ reads < MaxReads /\ reads' = n /\ inflight' = n
      /\ fetch' = [fetch EXCEPT ![n] = asked]
      /\ reader' = [reader EXCEPT ![r] = At("waiting", n)]
      /\ UNCHANGED <<primary, has, fallbacks, result, puts>>
  BY <1>1 DEF PrimaryAnswers, Joined
<1>3. n \in Reads /\ 1..n = (1..reads) \cup {n} /\ result[n] = "open"
  BY <1>1, <1>2 DEF Reads, ReadsKept
<1>4. \A m \in 1..reads : result[m] # "open"
  <2>1. NoRead \notin 1..reads
    BY <1>2, <1>1
  <2> QED  BY <1>2, <2>1 DEF OneOpen
<1>5. /\ reader' = [x \in Readers |-> reader'[x]]
      /\ reader'[r].at = "waiting" /\ reader'[r].read = n
      /\ \A x \in Readers \ {r} : reader'[x] = reader[x]
  BY <1>2 DEF ReadersKept, At
<1>6. FallbackTypeOK'
  <2>1. \A x \in Readers : reader'[x].at \in {"idle", "primary", "waiting", "data", "null"}
                           /\ reader'[x].read \in Reads \cup {NoRead}
    BY <1>3, <1>5 DEF FallbackTypeOK
  <2> QED  BY <1>2, <1>3, <2>1 DEF FallbackTypeOK
<1>7. ReadsKept'
  <2>1. fetch' = [m \in Reads |-> fetch'[m]] /\ fetch'[n] = asked
        /\ \A m \in Reads \ {n} : fetch'[m] = fetch[m]
    BY <1>2, <1>3 DEF ReadsKept
  <2>2. ASSUME NEW m \in Reads
        PROVE  /\ fetch'[m] = [s \in Stores |-> fetch'[m][s]]
               /\ m > reads' => result[m] = "open" /\ \A s \in Stores : fetch'[m][s] = "no"
               /\ result[m] = "null" => Pending(m, fetch') = {}
    <3>1. CASE m = n
      BY <1>1, <1>2, <1>3, <2>1, <3>1
    <3>2. CASE m # n
      <4>1. fetch'[m] = fetch[m]
        BY <2>1, <3>2
      <4>2. m > reads' => m > reads
        BY <1>1, <1>2 DEF Reads
      <4> QED  BY <4>1, <4>2 DEF ReadsKept, Pending
    <3> QED  BY <3>1, <3>2
  <2>3. reads' \in 0..MaxReads
    BY <1>1, <1>2
  <2> QED  BY <1>2, <2>1, <2>2, <2>3 DEF ReadsKept, Pending
<1>8. ReadersKept'
  BY <1>1, <1>2, <1>3, <1>5 DEF ReadersKept
<1>9. OneOpen'
  BY <1>2, <1>3, <1>4 DEF OneOpen
<1> QED  BY <1>6, <1>7, <1>8, <1>9

LEMMA PrimaryAnswersKeeps ==
  ASSUME FallbackInv, NEW r \in Readers, PrimaryAnswers(r)
  PROVE  FallbackInv'
<1>1. reads \in Nat
  BY FallbackAssumption DEF FallbackInv, ReadsKept
<1>2. CASE primary \/ fallbacks = {}
  <2> DEFINE a == IF primary THEN "data" ELSE "null"
  <2>1. /\ reader' = [reader EXCEPT ![r] = At(a, NoRead)]
        /\ UNCHANGED <<primary, has, fallbacks, reads, fetch, result, inflight, puts>>
    BY <1>2 DEF PrimaryAnswers
  <2>2. a \in {"data", "null"}
    OBVIOUS
  <2> HIDE DEF a
  <2> QED  BY <2>1, <2>2, ReaderGoesOn
<1>3. CASE ~(primary \/ fallbacks = {}) /\ inflight # NoRead
  <2>1. /\ reader' = [reader EXCEPT ![r] = At("waiting", inflight)]
        /\ UNCHANGED <<primary, has, fallbacks, reads, fetch, result, inflight, puts>>
    BY <1>3 DEF PrimaryAnswers, Joined
  <2>2. inflight \in 1..reads /\ inflight \in Reads
    BY <1>3 DEF FallbackInv, OneOpen, FallbackTypeOK
  <2> QED  BY <2>1, <2>2, ReaderGoesOn
<1>4. CASE ~(primary \/ fallbacks = {}) /\ inflight = NoRead
  BY <1>4, ReadBegins DEF PrimaryAnswers, Joined
<1> QED  BY <1>2, <1>3, <1>4

(* A fallback is done with, by its answer or its timeout.                  *)
LEMMA FetchEnds ==
  ASSUME FallbackInv, NEW n \in Reads, NEW s \in Stores, NEW how, how # "asked",
         fetch' = [fetch EXCEPT ![n][s] = how],
         \/ \E data \in BOOLEAN : Ends(n, fetch', data) /\ fetch[n][s] = "asked"
         \/ UNCHANGED result,
         UNCHANGED <<primary, has, fallbacks, reader, reads, inflight>>, puts' \in Nat,
         fetch[n][s] \in {"asked", "timedOut"}, n \in 1..reads
  PROVE  FallbackInv'
<1> USE DEF FallbackInv
<1>1. /\ fetch' = [m \in Reads |-> fetch'[m]]
      /\ fetch'[n] = [x \in Stores |-> IF x = s THEN how ELSE fetch[n][x]]
      /\ \A m \in Reads \ {n} : fetch'[m] = fetch[m]
  BY DEF ReadsKept
<1>2. \A m \in Reads : fetch'[m] = [x \in Stores |-> fetch'[m][x]] /\ Pending(m, fetch') \subseteq Pending(m, fetch)
  <2>1. ASSUME NEW m \in Reads
        PROVE  fetch'[m] = [x \in Stores |-> fetch'[m][x]] /\ Pending(m, fetch') \subseteq Pending(m, fetch)
    BY <1>1 DEF ReadsKept, Pending
  <2> QED  BY <2>1
<1>3. /\ result' = [m \in Reads |-> result'[m]]
      /\ \A m \in Reads \ {n} : result'[m] = result[m]
      /\ result[n] # "open" => result'[n] = result[n]
      /\ result[n] = "open" => \/ result'[n] \in {"open", "data"}
                               \/ result'[n] = "null" /\ Pending(n, fetch') = {}
  BY DEF Ends, ReadsKept
<1>4. FallbackTypeOK'
  BY DEF FallbackTypeOK
<1>5. ReadsKept'
  <2>1. ASSUME NEW m \in Reads
        PROVE  /\ result'[m] \in {"open", "data", "null"}
               /\ m > reads => result'[m] = "open" /\ \A x \in Stores : fetch'[m][x] = "no"
               /\ result'[m] = "null" => Pending(m, fetch') = {}
    <3>1. CASE m = n
      <4>1. ~(n > reads)
        BY FallbackAssumption DEF ReadsKept
      <4> QED  BY <1>2, <1>3, <3>1, <4>1 DEF ReadsKept
    <3>2. CASE m # n
      BY <1>1, <1>2, <1>3, <3>2 DEF ReadsKept
    <3> QED  BY <3>1, <3>2
  <2> QED  BY <1>1, <1>2, <1>3, <2>1 DEF ReadsKept, Pending
<1>6. \A m \in Reads : result[m] = "null" => result'[m] = "null"
  BY <1>3
<1>7. 1..reads \subseteq Reads
  BY FallbackAssumption DEF ReadsKept, Reads
<1>8. ReadersKept'
  BY <1>6, <1>7 DEF ReadersKept
<1>9. OneOpen'
  BY <1>3, <1>7 DEF OneOpen
<1> QED  BY <1>4, <1>5, <1>8, <1>9

LEMMA AskedIsBegun ==
  ASSUME FallbackInv, NEW n \in Reads, NEW s \in Stores, fetch[n][s] \in {"asked", "timedOut"}
  PROVE  n \in 1..reads
BY FallbackAssumption DEF FallbackInv, ReadsKept, Reads

LEMMA AnswerKeeps ==
  ASSUME FallbackInv, NEW n \in Reads, NEW s \in Stores,
         Timeout(n, s) \/ \E fails \in BOOLEAN : Answer(n, s, fails)
  PROVE  FallbackInv'
<1>1. CASE Timeout(n, s)
  <2>1. /\ fetch' = [fetch EXCEPT ![n][s] = "timedOut"] /\ Ends(n, fetch', FALSE) /\ fetch[n][s] = "asked"
        /\ UNCHANGED <<primary, has, fallbacks, reader, reads, inflight, puts>>
    BY <1>1 DEF Timeout
  <2>2. puts' \in Nat
    BY <2>1 DEF FallbackInv, FallbackTypeOK
  <2> QED  BY <2>1, <2>2, FetchEnds, AskedIsBegun
<1>2. CASE \E fails \in BOOLEAN : Answer(n, s, fails)
  <2> PICK fails \in BOOLEAN : Answer(n, s, fails)
    BY <1>2
  <2> DEFINE data == s \in has /\ ~fails
  <2>1. /\ fetch' = [fetch EXCEPT ![n][s] = "answered"] /\ fetch[n][s] \in {"asked", "timedOut"}
        /\ IF fetch[n][s] = "asked" THEN Ends(n, fetch', data) ELSE UNCHANGED result
        /\ UNCHANGED <<primary, has, fallbacks, reader, reads, inflight>>
        /\ puts' = puts + (IF data THEN 1 ELSE 0)
    BY DEF Answer
  <2>2. puts' \in Nat
    BY <2>1 DEF FallbackInv, FallbackTypeOK
  <2>3. data \in BOOLEAN
    OBVIOUS
  <2> HIDE DEF data
  <2>4. \/ \E d \in BOOLEAN : Ends(n, fetch', d) /\ fetch[n][s] = "asked"
        \/ UNCHANGED result
    BY <2>1, <2>3
  <2> QED  BY <2>1, <2>2, <2>4, FetchEnds, AskedIsBegun
<1> QED  BY <1>1, <1>2

LEMMA FinishKeeps ==
  ASSUME FallbackInv, NEW n \in Reads, Finish(n)
  PROVE  FallbackInv'
<1> USE FallbackAssumption DEF FallbackInv
<1>1. /\ inflight = n /\ result[n] # "open" /\ inflight' = NoRead
      /\ UNCHANGED <<primary, has, fallbacks, reader, reads, fetch, result, puts>>
  BY DEF Finish, Forgets
<1>2. FallbackTypeOK' /\ ReadsKept' /\ ReadersKept'
  BY <1>1 DEF FallbackTypeOK, ReadsKept, ReadersKept, Pending
<1>3. OneOpen'
  BY <1>1 DEF OneOpen
<1> QED  BY <1>2, <1>3

LEMMA ReadResumesKeeps ==
  ASSUME FallbackInv, NEW r \in Readers, ReadResumes(r)
  PROVE  FallbackInv'
<1> USE FallbackAssumption DEF FallbackInv
<1> DEFINE n == reader[r].read
           a == result[n]
<1>1. reader[r].at = "waiting" /\ a # "open"
      /\ UNCHANGED <<primary, has, fallbacks, reads, fetch, result, inflight, puts>>
      /\ n \in 1..reads /\ n \in Reads
  BY DEF ReadResumes, ReadersKept, ReadsKept, Reads
<1>2. a \in {"data", "null"}
  BY <1>1 DEF ReadsKept
<1>3. reader' = [reader EXCEPT ![r] = At(a, n)]
  BY DEF ReadResumes, ReadersKept
<1>4. a = "null" => result[n] = "null"
  OBVIOUS
<1> HIDE DEF a, n
<1> QED  BY <1>1, <1>2, <1>3, <1>4, ReaderGoesOn

(* The primary store and the list change; no read is touched.              *)
LEMMA StoresChange ==
  ASSUME FallbackInv, UNCHANGED <<reader, reads, fetch, result, inflight>>,
         primary' \in BOOLEAN, has' \subseteq Stores, fallbacks' \subseteq Stores, puts' \in Nat
  PROVE  FallbackInv'
<1>1. FallbackTypeOK'
  BY DEF FallbackInv, FallbackTypeOK
<1>2. ReadsKept' /\ ReadersKept' /\ OneOpen'
  BY DEF FallbackInv, ReadsKept, ReadersKept, OneOpen, Pending
<1> QED  BY <1>1, <1>2 DEF FallbackInv

LEMMA ChangeKeeps ==
  ASSUME FallbackInv,
         \/ \E refused \in BOOLEAN : Cached(refused)
         \/ Put \/ Delete
         \/ \E s \in Stores : AddFallback(s) \/ RemoveFallback(s)
  PROVE  FallbackInv'
<1>1. /\ UNCHANGED <<reader, reads, fetch, result, inflight>>
      /\ has' \subseteq Stores /\ fallbacks' \subseteq Stores
  BY DEF Cached, Put, Delete, AddFallback, RemoveFallback, Change, FallbackInv, FallbackTypeOK
<1>2. primary' \in BOOLEAN
  BY DEF Cached, Put, Delete, AddFallback, RemoveFallback, FallbackInv, FallbackTypeOK
<1>3. puts' \in Nat
  BY DEF Cached, Put, Delete, AddFallback, RemoveFallback, Change, FallbackInv, FallbackTypeOK
<1> QED  BY <1>1, <1>2, <1>3, StoresChange

LEMMA FallbackNextHolds == FallbackInv /\ [FallbackNext]_fallbackVars => FallbackInv'
<1> SUFFICES ASSUME FallbackInv, [FallbackNext]_fallbackVars PROVE FallbackInv'
  OBVIOUS
<1>1. CASE UNCHANGED fallbackVars
  <2>1. primary \in BOOLEAN /\ has \subseteq Stores /\ fallbacks \subseteq Stores /\ puts \in Nat
    BY DEF FallbackInv, FallbackTypeOK
  <2> QED  BY <1>1, <2>1, StoresChange DEF fallbackVars
<1>2. ASSUME NEW r \in Readers, Get(r)
      PROVE  FallbackInv'
  <2>1. /\ reader' = [reader EXCEPT ![r] = At("primary", NoRead)]
        /\ UNCHANGED <<primary, has, fallbacks, reads, fetch, result, inflight, puts>>
    BY <1>2 DEF Get
  <2> QED  BY <2>1, ReaderGoesOn
<1>3. CASE FallbackNext
  BY <1>2, <1>3, PrimaryAnswersKeeps, ReadResumesKeeps, AnswerKeeps, FinishKeeps, ChangeKeeps DEF FallbackNext
<1> QED  BY <1>1, <1>3

(* The inductive invariant of the reads through to the fallbacks.          *)
THEOREM FallbackInvHolds == FallbackSpec => []FallbackInv
BY FallbackInitHolds, FallbackNextHolds, PTL DEF FallbackSpec

(* ReadsShared: one read at a time is open and is the one that others      *)
(* join, and a get returns null only where every fallback is done with.    *)
THEOREM ReadsAreShared == FallbackSpec => []ReadsShared
BY FallbackInvHolds, FallbackInvImplies, PTL

-----------------------------------------------------------------------------
(* The Blossom client.                                                     *)

ServersKept ==
  /\ writes \subseteq Servers /\ readFrom \subseteq Servers
  /\ stored = [s \in Servers |-> stored[s]] /\ ever = [s \in Servers |-> ever[s]]
  /\ \A s \in Servers : stored[s] \subseteq ever[s]

Queued == [id : PutIds, hash : Blobs]

(* The put whose turn it is has not failed too often, asks write servers   *)
(* only, and has won where one of them has its blob.                       *)
TurnKept ==
  /\ queue \in Seq(Queued) /\ answer = [p \in PutIds |-> answer[p]]
  /\ put # Nothing =>
       /\ queue # <<>> /\ put.id = queue[1].id /\ put.hash = queue[1].hash
       /\ attempts[put.hash] < MaxHashAttempts
       /\ put.servers \subseteq writes /\ put.targets \subseteq writes
       /\ put.stage \in {"head", "upload"}
       /\ put.won => \E s \in writes : put.hash \in ever[s]

BlossomInv == BlossomTypeOK /\ ServersKept /\ TurnKept

LEMMA BlossomInitHolds == BlossomInit => BlossomInv
<1> SUFFICES ASSUME BlossomInit PROVE BlossomInv
  OBVIOUS
<1> USE BlossomAssumption DEF BlossomInit
<1>1. BlossomTypeOK
  BY DEF BlossomTypeOK
<1>2. ServersKept
  BY DEF ServersKept
<1>3. TurnKept
  BY DEF TurnKept
<1> QED  BY <1>1, <1>2, <1>3 DEF BlossomInv

-----------------------------------------------------------------------------
(* The health of the servers.                                              *)
HealthOK == errors \in [Servers -> 0..MaxErrors] /\ wait \in [Servers -> 0..MaxBackoff]

LEMMA HealthKept ==
  ASSUME HealthOK, NEW s \in Servers, RecordError(s) \/ RecordSuccess(s) \/ UNCHANGED health
  PROVE  HealthOK'
<1> USE BlossomAssumption DEF HealthOK
<1>1. CASE RecordError(s)
  <2>1. Smaller(errors[s] + 1, MaxErrors) \in 0..MaxErrors
    BY DEF Smaller
  <2>2. errors' = [errors EXCEPT ![s] = Smaller(errors[s] + 1, MaxErrors)]
    BY <1>1 DEF RecordError
  <2>3. \A n : Backoff(n) \in 0..MaxBackoff
    BY DEF Backoff
  <2>4. wait' = [wait EXCEPT ![s] = Backoff(errors'[s])]
    BY <1>1 DEF RecordError
  <2> QED  BY <2>1, <2>2, <2>3, <2>4
<1>2. CASE RecordSuccess(s)
  BY <1>2 DEF RecordSuccess
<1>3. CASE UNCHANGED health
  BY <1>3 DEF health
<1> QED  BY <1>1, <1>2, <1>3

LEMMA TypeIsHealth == BlossomTypeOK <=>
  /\ HealthOK
  /\ attempts \in [Blobs -> 0..MaxHashAttempts]
  /\ put = Nothing \/ put.stage \in {"head", "upload"}
BY DEF BlossomTypeOK, HealthOK

-----------------------------------------------------------------------------
(* A put ends and the turn passes on.                                      *)
LEMMA EndPutKeeps ==
  ASSUME BlossomInv, queue # <<>>, NEW how, EndPut(queue[1].id, how), HealthOK',
         attempts' \in [Blobs -> 0..MaxHashAttempts], ServersKept'
  PROVE  BlossomInv'
<1>1. put' = Nothing /\ queue' = Tail(queue) /\ answer' = [answer EXCEPT ![queue[1].id] = how]
  BY DEF EndPut, Turn
<1>2. queue \in Seq(Queued) /\ answer = [p \in PutIds |-> answer[p]]
  BY DEF BlossomInv, TurnKept
<1>3. queue' \in Seq(Queued)
  <2> HIDE DEF Queued
  <2> QED  BY <1>1, <1>2
<1>4. answer' = [p \in PutIds |-> answer'[p]]
  BY <1>1, <1>2
<1>5. TurnKept'
  BY <1>1, <1>3, <1>4 DEF TurnKept
<1> QED  BY <1>1, <1>5, TypeIsHealth DEF BlossomInv, BlossomTypeOK, HealthOK

(* The put goes on with other servers.                                     *)
LEMMA PutGoesOn ==
  ASSUME BlossomInv, queue # <<>>, UNCHANGED <<answer, queue, attempts, writes>>, HealthOK', ServersKept',
         put'.id = queue[1].id, put'.hash = queue[1].hash, put'.stage \in {"head", "upload"},
         put'.servers \subseteq writes, put'.targets \subseteq writes,
         attempts[put'.hash] < MaxHashAttempts,
         put'.won => \E s \in writes : put'.hash \in ever'[s]
  PROVE  BlossomInv'
<1>1. TurnKept'
  BY DEF BlossomInv, TurnKept
<1> QED  BY <1>1, TypeIsHealth DEF BlossomInv, BlossomTypeOK, HealthOK

LEMMA DoPutKeeps ==
  ASSUME BlossomInv, DoPut
  PROVE  /\ BlossomInv' /\ queue # <<>>
         /\ \A p \in PutIds : answer'[p] # answer[p] =>
              \/ answer'[p] = "error"
              \/ answer'[p] = "refused" /\ attempts[queue[1].hash] = MaxHashAttempts
<1> USE BlossomAssumption
<1> DEFINE p == queue[1].id
           h == queue[1].hash
<1>1. /\ put = Nothing /\ queue # <<>>
      /\ UNCHANGED <<writes, readFrom, large, stored, health, got, probes, ever>>
  BY DEF DoPut
<1>2. HealthOK' /\ ServersKept' /\ answer = [x \in PutIds |-> answer[x]]
  BY <1>1 DEF health, HealthOK, BlossomInv, BlossomTypeOK, ServersKept, TurnKept
<1>3. p \in PutIds /\ h \in Blobs /\ attempts \in [Blobs -> 0..MaxHashAttempts]
  <2>1. queue \in Seq(Queued) /\ attempts \in [Blobs -> 0..MaxHashAttempts]
    BY DEF BlossomInv, TurnKept, BlossomTypeOK
  <2>2. queue[1] \in Queued
    BY <1>1, <2>1
  <2> QED  BY <2>1, <2>2 DEF Queued
<1>4. CASE attempts[h] >= MaxHashAttempts
  <2>1. EndPut(p, "refused") /\ UNCHANGED attempts
    BY <1>4 DEF DoPut
  <2>2. BlossomInv'
    BY <1>1, <1>2, <1>3, <2>1, EndPutKeeps
  <2>3. attempts[h] = MaxHashAttempts
    BY <1>3, <1>4
  <2>4. answer' = [answer EXCEPT ![p] = "refused"]
    BY <2>1 DEF EndPut
  <2> QED  BY <1>1, <1>2, <2>2, <2>3, <2>4
<1>5. CASE attempts[h] < MaxHashAttempts /\ WriteServers = {}
  <2>1. EndPut(p, "error") /\ (UNCHANGED attempts \/ RecordHashFailure(h))
    BY <1>3, <1>5 DEF DoPut
  <2>2. attempts' \in [Blobs -> 0..MaxHashAttempts]
    BY <1>3, <1>5, <2>1 DEF RecordHashFailure
  <2>3. BlossomInv'
    BY <1>1, <1>2, <2>1, <2>2, EndPutKeeps
  <2>4. answer' = [answer EXCEPT ![p] = "error"]
    BY <2>1 DEF EndPut
  <2> QED  BY <1>1, <1>2, <2>3, <2>4
<1>6. CASE attempts[h] < MaxHashAttempts /\ WriteServers # {}
  <2>1. /\ UNCHANGED <<answer, attempts, queue>>
        /\ Stage("head", writes) \/ Stage("upload", WriteServers)
    BY <1>3, <1>6 DEF DoPut
  <2>2. /\ put'.id = p /\ put'.hash = h /\ put'.stage \in {"head", "upload"}
        /\ put'.servers \subseteq writes /\ put'.targets \subseteq writes /\ put'.won = FALSE
    BY <2>1 DEF Stage, WriteServers
  <2>3. BlossomInv'
    BY <1>1, <1>2, <1>6, <2>1, <2>2, PutGoesOn
  <2> QED  BY <1>1, <2>1, <2>3
<1> QED  BY <1>3, <1>4, <1>5, <1>6

(* A put that throws before it uploads.                                    *)
LEMMA PutThrowsKeeps ==
  ASSUME BlossomInv, PutThrows
  PROVE  BlossomInv' /\ \A p \in PutIds : answer'[p] # answer[p] => answer'[p] = "error"
<1>1. /\ EndPut(queue[1].id, "error")
      /\ UNCHANGED <<writes, readFrom, stored, health, attempts, ever>>
  BY DEF PutThrows
<1>2. queue # <<>> /\ answer = [p \in PutIds |-> answer[p]]
  BY DEF PutThrows, BlossomInv, TurnKept
<1>3. HealthOK' /\ ServersKept' /\ attempts' \in [Blobs -> 0..MaxHashAttempts]
  BY <1>1 DEF health, HealthOK, BlossomInv, BlossomTypeOK, ServersKept
<1>4. answer' = [answer EXCEPT ![queue[1].id] = "error"]
  BY <1>1 DEF EndPut
<1> QED  BY <1>1, <1>2, <1>3, <1>4, EndPutKeeps

(* Nothing of the put whose turn it is changes.                            *)
LEMMA TurnRemains ==
  ASSUME BlossomInv, UNCHANGED <<writes, put, queue, answer, attempts>>, HealthOK', ServersKept',
         \A s \in Servers : ever[s] \subseteq ever'[s]
  PROVE  BlossomInv'
<1>1. TurnKept'
  BY DEF BlossomInv, TurnKept, ServersKept
<1> QED  BY <1>1, TypeIsHealth DEF BlossomInv, BlossomTypeOK, HealthOK

LEMMA QueuePutKeeps ==
  ASSUME BlossomInv, NEW p \in PutIds, NEW h \in Blobs, QueuePut(p, h)
  PROVE  BlossomInv'
<1>1. /\ answer' = [answer EXCEPT ![p] = "queued"]
      /\ queue' = Append(queue, [id |-> p, hash |-> h])
      /\ UNCHANGED <<writes, readFrom, stored, errors, wait, attempts, put, ever>>
  BY DEF QueuePut
<1>2. queue \in Seq(Queued) /\ answer = [q \in PutIds |-> answer[q]]
  BY DEF BlossomInv, TurnKept
<1>3. [id |-> p, hash |-> h] \in Queued
  BY DEF Queued
<1>4. queue' \in Seq(Queued) /\ (queue # <<>> => queue' # <<>> /\ queue'[1] = queue[1])
  <2> HIDE DEF Queued
  <2> QED  BY <1>1, <1>2, <1>3
<1>5. answer' = [q \in PutIds |-> answer'[q]]
  BY <1>1, <1>2
<1>6. TurnKept'
  BY <1>1, <1>4, <1>5 DEF BlossomInv, TurnKept
<1>7. BlossomTypeOK' /\ ServersKept'
  BY <1>1 DEF BlossomInv, BlossomTypeOK, ServersKept
<1> QED  BY <1>6, <1>7 DEF BlossomInv

LEMMA HeadAnswersKeeps ==
  ASSUME BlossomInv, NEW s \in Servers, NEW how, HeadAnswers(s, how)
  PROVE  /\ BlossomInv' /\ queue # <<>> /\ (\E x \in writes : x = s)
         /\ \A p \in PutIds : answer'[p] # answer[p] =>
              answer'[p] = "false" /\ queue[1].hash \in ever'[s]
<1>1. /\ put # Nothing /\ put.stage = "head" /\ s \in put.servers
      /\ UNCHANGED <<writes, readFrom, large, stored, attempts, got, probes, ever>>
      /\ InBackoff(s) => how = "passed"
      /\ ~InBackoff(s) => how \in {IF put.hash \in stored[s] THEN "there" ELSE "missing", "failed"}
  BY DEF HeadAnswers, IsFirst
<1>2. /\ queue # <<>> /\ put.id = queue[1].id /\ put.hash = queue[1].hash
      /\ put.servers \subseteq writes /\ put.targets \subseteq writes
      /\ attempts[put.hash] < MaxHashAttempts
      /\ put.won => \E x \in writes : put.hash \in ever[x]
  BY <1>1 DEF BlossomInv, TurnKept
<1>3. RecordError(s) \/ RecordSuccess(s) \/ UNCHANGED health
  BY DEF HeadAnswers
<1>4. HealthOK' /\ ServersKept' /\ attempts' \in [Blobs -> 0..MaxHashAttempts]
  <2>1. HealthOK'
    BY <1>3, HealthKept, TypeIsHealth DEF BlossomInv
  <2> QED  BY <1>1, <2>1 DEF BlossomInv, BlossomTypeOK, ServersKept
<1>5. answer = [p \in PutIds |-> answer[p]] /\ \A x \in Servers : stored[x] \subseteq ever[x]
  BY DEF BlossomInv, TurnKept, ServersKept
<1>6. CASE how = "there"
  <2>1. EndPut(queue[1].id, "false")
    BY <1>2, <1>6 DEF HeadAnswers
  <2>2. BlossomInv'
    BY <1>2, <1>4, <2>1, EndPutKeeps
  <2>3. answer' = [answer EXCEPT ![queue[1].id] = "false"] /\ queue[1].hash \in ever'[s]
    BY <1>1, <1>2, <1>5, <1>6, <2>1 DEF EndPut
  <2> QED  BY <1>1, <1>2, <1>5, <2>2, <2>3
<1>7. CASE how # "there"
  <2>1. /\ UNCHANGED <<answer, queue>>
        /\ put' = IF put.servers = {s} THEN [put EXCEPT !.stage = "upload", !.servers = put.targets]
                   ELSE [put EXCEPT !.servers = @ \ {s}]
    BY <1>7 DEF HeadAnswers
  <2>2. /\ put'.id = put.id /\ put'.hash = put.hash /\ put'.targets = put.targets /\ put'.won = put.won
        /\ put'.stage \in {"head", "upload"}
        /\ put'.servers \subseteq writes
    BY <1>1, <1>2, <2>1
  <2>3. BlossomInv'
    BY <1>1, <1>2, <1>4, <2>1, <2>2, PutGoesOn
  <2> QED  BY <1>1, <1>2, <2>1, <2>3
<1> QED  BY <1>6, <1>7

LEMMA UploadAnswersKeeps ==
  ASSUME BlossomInv, NEW s \in Servers, NEW how, UploadAnswers(s, how),
         how \in {"new", "there", "failed", "lost"}
  PROVE  /\ BlossomInv' /\ queue # <<>>
         /\ \A p \in PutIds : answer'[p] # answer[p] =>
              \/ answer'[p] = "error"
              \/ answer'[p] \in {"true", "false"} /\ \E x \in writes : queue[1].hash \in ever'[x]
<1> USE BlossomAssumption
<1>1. /\ put # Nothing /\ put.stage = "upload" /\ s \in put.servers
      /\ UNCHANGED <<writes, readFrom, large, got, probes>>
      /\ stored' = [stored EXCEPT ![s] = IF how = "failed" THEN @ ELSE @ \cup {put.hash}]
      /\ ever' = [x \in Servers |-> ever[x] \cup stored'[x]]
      /\ RecordError(s) \/ RecordSuccess(s)
  BY DEF UploadAnswers
<1>2. /\ queue # <<>> /\ put.id = queue[1].id /\ put.hash = queue[1].hash
      /\ put.servers \subseteq writes /\ put.targets \subseteq writes
      /\ attempts[put.hash] < MaxHashAttempts
      /\ put.won => \E x \in writes : put.hash \in ever[x]
      /\ queue \in Seq(Queued)
  BY <1>1 DEF BlossomInv, TurnKept
<1>3. put.hash \in Blobs
  <2>1. queue[1] \in Queued
    BY <1>2
  <2> QED  BY <1>2, <2>1 DEF Queued
<1>4. /\ writes \subseteq Servers /\ stored = [x \in Servers |-> stored[x]] /\ ever = [x \in Servers |-> ever[x]]
      /\ answer = [p \in PutIds |-> answer[p]] /\ attempts \in [Blobs -> 0..MaxHashAttempts]
  BY DEF BlossomInv, ServersKept, TurnKept, BlossomTypeOK
<1>5. HealthOK'
  BY <1>1, HealthKept, TypeIsHealth DEF BlossomInv
<1>6. ServersKept'
  BY <1>1, <1>4 DEF BlossomInv, ServersKept
<1> DEFINE left == put.servers \ {s}
           won == Succeeded(put.won, how \in {"new", "there"})
           fresh == put.fresh \/ how = "new"
           end == IF ~won THEN "error" ELSE IF fresh THEN "true" ELSE "false"
<1>7. won => \E x \in writes : put.hash \in ever'[x]
  <2>1. CASE put.won
    BY <1>1, <1>2, <1>4, <2>1
  <2>2. CASE how \in {"new", "there"}
    <3>1. put.hash \in stored'[s] /\ s \in writes
      BY <1>1, <1>2, <1>4, <2>2
    <3> QED  BY <1>1, <1>4, <3>1
  <2> QED  BY <2>1, <2>2 DEF Succeeded
<1>8. CASE left # {}
  <2>1. /\ UNCHANGED <<answer, queue, attempts>>
        /\ put' = [put EXCEPT !.servers = left, !.won = won, !.fresh = fresh]
    BY <1>8 DEF UploadAnswers
  <2>2. /\ put'.id = put.id /\ put'.hash = put.hash /\ put'.targets = put.targets
        /\ put'.stage = put.stage /\ put'.servers = left /\ (put'.won => won)
    <3> HIDE DEF won, fresh, left
    <3> QED  BY <2>1
  <2>3. put'.won => \E x \in writes' : put'.hash \in ever'[x]
    <3> HIDE DEF won
    <3> QED  BY <1>1, <1>7, <2>2
  <2> HIDE DEF won, fresh
  <2>4. BlossomInv'
    BY <1>1, <1>2, <1>5, <1>6, <2>1, <2>2, <2>3, PutGoesOn
  <2> QED  BY <1>2, <2>1, <2>4
<1>9. CASE left = {}
  <2>1. EndPut(queue[1].id, end)
    BY <1>2, <1>9 DEF UploadAnswers
  <2>2. attempts' = [attempts EXCEPT ![put.hash] = 0] \/ attempts' = [attempts EXCEPT ![put.hash] = @ + 1]
    BY <1>9 DEF UploadAnswers, RecordHashFailure
  <2>3. attempts' \in [Blobs -> 0..MaxHashAttempts]
    BY <1>2, <1>3, <1>4, <2>2
  <2>4. answer' = [answer EXCEPT ![queue[1].id] = end]
    BY <2>1 DEF EndPut
  <2>5. end = "error" \/ (end \in {"true", "false"} /\ won)
    <3> HIDE DEF won, fresh
    <3> QED  OBVIOUS
  <2> HIDE DEF won, end
  <2>6. BlossomInv'
    BY <1>2, <1>5, <1>6, <2>1, <2>3, EndPutKeeps
  <2> QED  BY <1>2, <1>4, <1>7, <2>4, <2>5, <2>6
<1> QED  BY <1>8, <1>9

(* The other operations leave puts alone.                                  *)
LEMMA OthersKeep ==
  ASSUME BlossomInv,
         \/ \E g \in GetIds, h \in Blobs : GetBlob(g, h)
         \/ \E g \in GetIds, s \in Servers, how \in {"there", "missing", "failed"} : GetAnswers(g, s, how)
         \/ \E s \in Servers, failed \in BOOLEAN : Has(s, failed)
         \/ \E h \in Blobs : DeleteBlob(h)
         \/ BackoffTick
  PROVE  BlossomInv' /\ UNCHANGED answer
<1>0. HealthOK
  BY TypeIsHealth DEF BlossomInv
<1>1. ASSUME NEW g \in GetIds, NEW h \in Blobs, GetBlob(g, h)
      PROVE  BlossomInv' /\ UNCHANGED answer
  <2>1. UNCHANGED <<writes, readFrom, stored, ever, errors, wait, put, queue, answer, attempts>>
    BY <1>1 DEF GetBlob, calls, health
  <2>2. HealthOK' /\ ServersKept'
    BY <1>0, <2>1 DEF BlossomInv, HealthOK, ServersKept
  <2> QED  BY <2>1, <2>2, TurnRemains
<1>2. ASSUME NEW g \in GetIds, NEW s \in Servers, NEW how, GetAnswers(g, s, how)
      PROVE  BlossomInv' /\ UNCHANGED answer
  <2>1. /\ UNCHANGED <<writes, readFrom, stored, ever, put, queue, answer, attempts>>
        /\ RecordError(s) \/ RecordSuccess(s) \/ UNCHANGED health
    BY <1>2 DEF GetAnswers, calls
  <2>2. HealthOK' /\ ServersKept'
    BY <1>0, <2>1, HealthKept DEF BlossomInv, ServersKept
  <2> QED  BY <2>1, <2>2, TurnRemains
<1>3. ASSUME NEW s \in Servers, NEW failed, Has(s, failed)
      PROVE  BlossomInv' /\ UNCHANGED answer
  <2>1. /\ UNCHANGED <<writes, readFrom, stored, ever, put, queue, answer, attempts>>
        /\ RecordError(s) \/ RecordSuccess(s) \/ UNCHANGED health
    BY <1>3 DEF Has, calls
  <2>2. HealthOK' /\ ServersKept'
    BY <1>0, <2>1, HealthKept DEF BlossomInv, ServersKept
  <2> QED  BY <2>1, <2>2, TurnRemains
<1>4. ASSUME NEW h \in Blobs, DeleteBlob(h)
      PROVE  BlossomInv' /\ UNCHANGED answer
  <2>1. /\ UNCHANGED <<writes, readFrom, ever, errors, wait, put, queue, answer, attempts>>
        /\ \E s \in writes : stored' = [stored EXCEPT ![s] = @ \ {h}]
    BY <1>4 DEF DeleteBlob, calls, health
  <2>2. HealthOK' /\ ServersKept'
    BY <1>0, <2>1 DEF BlossomInv, HealthOK, ServersKept
  <2> QED  BY <2>1, <2>2, TurnRemains
<1>5. CASE BackoffTick
  <2>1. /\ UNCHANGED <<writes, readFrom, stored, ever, errors, put, queue, answer, attempts>>
        /\ wait' = [s \in Servers |-> IF InBackoff(s) THEN wait[s] - 1 ELSE 0]
    BY <1>5 DEF BackoffTick, calls
  <2>2. wait' \in [Servers -> 0..MaxBackoff]
    BY <1>0, <2>1, BlossomAssumption DEF HealthOK, InBackoff
  <2>3. HealthOK' /\ ServersKept'
    BY <1>0, <2>1, <2>2 DEF BlossomInv, HealthOK, ServersKept
  <2> QED  BY <2>1, <2>3, TurnRemains
<1> QED  BY <1>1, <1>2, <1>3, <1>4, <1>5

(* What a step says of the puts it answers.                                *)
Answered(p) ==
  CASE answer'[p] \in {"true", "false"} -> \E s \in writes : queue[1].hash \in ever'[s]
    [] answer'[p] = "refused" -> attempts[queue[1].hash] = MaxHashAttempts
    [] OTHER -> TRUE

LEMMA BlossomNextHolds ==
  ASSUME BlossomInv, [BlossomNext]_blossomVars
  PROVE  BlossomInv' /\ \A p \in PutIds : answer'[p] # answer[p] => Answered(p)
<1>1. ASSUME NEW p \in PutIds, NEW h \in Blobs, QueuePut(p, h)
      PROVE  BlossomInv' /\ \A q \in PutIds : answer'[q] # answer[q] => Answered(q)
  <2>1. answer' = [answer EXCEPT ![p] = "queued"] /\ answer = [q \in PutIds |-> answer[q]]
    BY <1>1 DEF QueuePut, BlossomInv, TurnKept
  <2>2. \A q \in PutIds : answer'[q] # answer[q] => answer'[q] = "queued"
    BY <2>1
  <2> QED  BY <1>1, <2>2, QueuePutKeeps DEF Answered
<1>2. CASE DoPut
  BY <1>2, DoPutKeeps DEF Answered
<1>3. ASSUME NEW s \in Servers, NEW how, HeadAnswers(s, how)
      PROVE  BlossomInv' /\ \A q \in PutIds : answer'[q] # answer[q] => Answered(q)
  BY <1>3, HeadAnswersKeeps DEF Answered
<1>4. ASSUME NEW s \in Servers, NEW how \in {"new", "there", "failed", "lost"}, UploadAnswers(s, how)
      PROVE  BlossomInv' /\ \A q \in PutIds : answer'[q] # answer[q] => Answered(q)
  BY <1>4, UploadAnswersKeeps DEF Answered
<1>5. CASE UNCHANGED blossomVars
  <2>1. UNCHANGED <<writes, readFrom, stored, ever, errors, wait, put, queue, answer, attempts>>
    BY <1>5 DEF blossomVars
  <2>2. HealthOK' /\ ServersKept'
    BY <2>1, TypeIsHealth DEF BlossomInv, HealthOK, ServersKept
  <2> QED  BY <2>1, <2>2, TurnRemains
<1>6. CASE \/ \E g \in GetIds, h \in Blobs : GetBlob(g, h)
           \/ \E g \in GetIds, s \in Servers, how \in {"there", "missing", "failed"} : GetAnswers(g, s, how)
           \/ \E s \in Servers, failed \in BOOLEAN : Has(s, failed)
           \/ \E h \in Blobs : DeleteBlob(h)
           \/ BackoffTick
  BY <1>6, OthersKeep
<1>7. CASE PutThrows
  BY <1>7, PutThrowsKeeps DEF Answered
<1> QED  BY <1>1, <1>2, <1>3, <1>4, <1>5, <1>6, <1>7 DEF BlossomNext

(* The records of the Blossom client agree with each other in every        *)
(* reachable state: a put that has won was taken by a write server, and    *)
(* one under way has not failed too often (blossom.ts:194-352).            *)
THEOREM BlossomInvHolds == BlossomSpec => []BlossomInv
<1>1. BlossomInv /\ [BlossomNext]_blossomVars => BlossomInv'
  BY BlossomNextHolds
<1> QED  BY <1>1, BlossomInitHolds, PTL DEF BlossomSpec

(* A put that resolves says what is true, whatever the servers do          *)
(* (PutsAreTrue, blossom.ts:205-352).                                      *)
THEOREM PutsTrue == BlossomSpec => PutsAreTrue
<1>1. BlossomInv => BlossomTypeOK
  BY DEF BlossomInv
<1>2. BlossomInv /\ [BlossomNext]_blossomVars =>
        [\A p \in PutIds : answer'[p] # answer[p] =>
           CASE answer'[p] \in {"true", "false"} -> \E s \in writes : queue[1].hash \in ever'[s]
             [] answer'[p] = "refused" -> attempts[queue[1].hash] = MaxHashAttempts
             [] OTHER -> TRUE]_blossomVars
  BY BlossomNextHolds DEF Answered
<1> QED  BY <1>1, <1>2, BlossomInvHolds, PTL DEF BlossomSpec, PutsAreTrue

-----------------------------------------------------------------------------
(* The push of a tree.                                                     *)

(* The queue and the stack as sets.                                        *)
LEMMA AppendSet ==
  ASSUME NEW S, NEW s \in Seq(S), NEW x \in S
  PROVE  ToSet(Append(s, x)) = ToSet(s) \cup {x}
<1>1. \A i \in 1..Len(s) : Append(s, x)[i] = s[i]
  OBVIOUS
<1>2. Append(s, x)[Len(s) + 1] = x /\ Len(Append(s, x)) = Len(s) + 1
  OBVIOUS
<1> QED  BY <1>1, <1>2 DEF ToSet

LEMMA ConcatSet ==
  ASSUME NEW S, NEW s \in Seq(S), NEW t \in Seq(S)
  PROVE  ToSet(s \o t) = ToSet(s) \cup ToSet(t)
<1>1. Len(s \o t) = Len(s) + Len(t) /\ s \o t \in Seq(S)
  OBVIOUS
<1>2. \A i \in 1..Len(s) : (s \o t)[i] = s[i]
  OBVIOUS
<1>3. \A i \in 1..Len(t) : (s \o t)[Len(s) + i] = t[i]
  OBVIOUS
<1>4. \A i \in 1..Len(s \o t) : i \in 1..Len(s) \/ i - Len(s) \in 1..Len(t)
  BY <1>1
<1>5. \A i \in 1..Len(s \o t) : (s \o t)[i] \in ToSet(s) \cup ToSet(t)
  <2> SUFFICES ASSUME NEW i \in 1..Len(s \o t) PROVE (s \o t)[i] \in ToSet(s) \cup ToSet(t)
    OBVIOUS
  <2>1. CASE i \in 1..Len(s)
    BY <1>2, <2>1 DEF ToSet
  <2>2. CASE i - Len(s) \in 1..Len(t)
    <3>1. (s \o t)[Len(s) + (i - Len(s))] = t[i - Len(s)]
      BY <1>3, <2>2
    <3>2. Len(s) + (i - Len(s)) = i
      OBVIOUS
    <3> QED  BY <2>2, <3>1, <3>2 DEF ToSet
  <2> QED  BY <1>4, <2>1, <2>2
<1>6. ToSet(s) \subseteq ToSet(s \o t)
  BY <1>1, <1>2 DEF ToSet
<1>7. ToSet(t) \subseteq ToSet(s \o t)
  <2> SUFFICES ASSUME NEW i \in 1..Len(t) PROVE t[i] \in ToSet(s \o t)
    BY DEF ToSet
  <2>1. Len(s) + i \in 1..Len(s \o t) /\ (s \o t)[Len(s) + i] = t[i]
    BY <1>1, <1>3
  <2> QED  BY <1>1, <2>1 DEF ToSet
<1>8. ToSet(s \o t) \subseteq ToSet(s) \cup ToSet(t)
  BY <1>1, <1>5 DEF ToSet
<1> QED  BY <1>6, <1>7, <1>8

LEMMA TailSet ==
  ASSUME NEW S, NEW s \in Seq(S), s # <<>>
  PROVE  /\ Tail(s) \in Seq(S) /\ s[1] \in S
         /\ ToSet(s) = {s[1]} \cup ToSet(Tail(s))
<1>1. Tail(s) \in Seq(S) /\ s[1] \in S /\ Len(s) \in Nat \ {0} /\ Len(Tail(s)) = Len(s) - 1
  OBVIOUS
<1>2. \A i \in 1..Len(Tail(s)) : Tail(s)[i] = s[i + 1] /\ i + 1 \in 1..Len(s)
  BY <1>1
<1>3. \A i \in 1..Len(s) : i = 1 \/ (i - 1 \in 1..Len(Tail(s)) /\ Tail(s)[i - 1] = s[i])
  BY <1>1
<1>4. ToSet(Tail(s)) \subseteq ToSet(s) /\ s[1] \in ToSet(s)
  BY <1>1, <1>2 DEF ToSet
<1>5. ToSet(s) \subseteq {s[1]} \cup ToSet(Tail(s))
  <2> SUFFICES ASSUME NEW i \in 1..Len(s) PROVE s[i] \in {s[1]} \cup ToSet(Tail(s))
    BY DEF ToSet
  <2>1. CASE i = 1
    BY <2>1
  <2>2. CASE i - 1 \in 1..Len(Tail(s)) /\ Tail(s)[i - 1] = s[i]
    <3>1. DOMAIN Tail(s) = 1..Len(Tail(s))
      BY <1>1
    <3> QED  BY <2>2, <3>1 DEF ToSet
  <2> QED  BY <1>3, <2>1, <2>2
<1> QED  BY <1>1, <1>4, <1>5

Distinct(s) == \A i, j \in DOMAIN s : s[i] = s[j] => i = j

LEMMA AppendDistinct ==
  ASSUME NEW S, NEW s \in Seq(S), NEW x \in S, Distinct(s), x \notin ToSet(s)
  PROVE  Distinct(Append(s, x))
<1>1. \A i \in 1..Len(s) : Append(s, x)[i] = s[i] /\ s[i] # x
  BY DEF ToSet
<1>2. Append(s, x)[Len(s) + 1] = x /\ DOMAIN Append(s, x) = 1..(Len(s) + 1)
  OBVIOUS
<1>3. \A i \in 1..(Len(s) + 1) : i \in 1..Len(s) \/ i = Len(s) + 1
  OBVIOUS
<1>4. \A i, j \in 1..Len(s) : s[i] = s[j] => i = j
  BY DEF Distinct
<1> QED  BY <1>1, <1>2, <1>3, <1>4 DEF Distinct

(* A queue is cut in two: what is taken and what stays are apart.          *)
Cut(s, k) == {s[i] : i \in 1..k}
Rest(s, k) == SubSeq(s, k + 1, Len(s))

LEMMA CutQueue ==
  ASSUME NEW S, NEW s \in Seq(S), NEW k \in 0..Len(s), Distinct(s)
  PROVE  /\ Rest(s, k) \in Seq(S) /\ Len(Rest(s, k)) = Len(s) - k /\ Distinct(Rest(s, k))
         /\ Cut(s, k) \subseteq S /\ Cut(s, k) \cap ToSet(Rest(s, k)) = {}
         /\ ToSet(s) = Cut(s, k) \cup ToSet(Rest(s, k))
         /\ IsFiniteSet(Cut(s, k)) /\ Cardinality(Cut(s, k)) <= k
<1> DEFINE front == {s[i] : i \in 1..k}
           rest == SubSeq(s, k + 1, Len(s))
<1>1. rest \in Seq(S) /\ Len(rest) = Len(s) - k
  OBVIOUS
<1>2. \A i \in 1..Len(rest) : rest[i] = s[k + i] /\ k + i \in 1..Len(s)
  OBVIOUS
<1>3. \A i \in 1..Len(s) : i \in 1..k \/ (i - k \in 1..Len(rest) /\ rest[i - k] = s[i])
  BY <1>1, <1>2
<1>4. DOMAIN s = 1..Len(s) /\ DOMAIN rest = 1..Len(rest) /\ Len(s) \in Nat /\ k \in Nat /\ k <= Len(s)
  BY <1>1
<1> HIDE DEF rest, front
<1>5. Distinct(rest)
  <2> SUFFICES ASSUME NEW i \in 1..Len(rest), NEW j \in 1..Len(rest), rest[i] = rest[j] PROVE i = j
    BY <1>4 DEF Distinct
  <2>1. s[k + i] = s[k + j] /\ k + i \in 1..Len(s) /\ k + j \in 1..Len(s)
    BY <1>2
  <2>2. k + i = k + j
    BY <1>4, <2>1 DEF Distinct
  <2>3. i \in Nat /\ j \in Nat /\ k \in Nat
    BY <1>1, <1>4
  <2> QED  BY <2>2, <2>3
<1>6. front \cap ToSet(rest) = {}
  <2> SUFFICES ASSUME NEW i \in 1..k, NEW j \in 1..Len(rest), s[i] = rest[j] PROVE FALSE
    BY <1>4 DEF ToSet, front
  <2>1. s[i] = s[k + j] /\ k + j \in 1..Len(s)
    BY <1>2
  <2>2. i \in 1..Len(s)
    BY <1>4
  <2>3. i = k + j
    BY <1>4, <2>1, <2>2 DEF Distinct
  <2>4. i \in Nat /\ j \in Nat /\ k \in Nat /\ i <= k /\ j > 0
    BY <1>1, <1>4
  <2> QED  BY <2>3, <2>4
<1>7. ToSet(s) = front \cup ToSet(rest)
  <2>1. ToSet(s) \subseteq front \cup ToSet(rest)
    BY <1>3, <1>4 DEF ToSet, front
  <2>2. front \subseteq ToSet(s)
    BY <1>4 DEF ToSet, front
  <2>3. ToSet(rest) \subseteq ToSet(s)
    BY <1>2, <1>4 DEF ToSet, front
  <2> QED  BY <2>1, <2>2, <2>3
<1>8. IsFiniteSet(front) /\ Cardinality(front) <= k
  <2>1. [i \in 1..k |-> s[i]] \in Surjection(1..k, front)
    BY DEF Surjection, front
  <2>2. IsFiniteSet(1..k) /\ Cardinality(1..k) = k
    <3>1. 1 \in Int /\ k \in Int
      OBVIOUS
    <3>2. IsFiniteSet(1..k) /\ Cardinality(1..k) = IF 1 > k THEN 0 ELSE k - 1 + 1
      BY <3>1, FS_Interval, Zenon
    <3> QED  BY <1>4, <3>2
  <2> QED  BY <2>1, <2>2, FS_Surjection
<1>9. front \subseteq S
  BY <1>4 DEF front
<1> QED  BY <1>1, <1>5, <1>6, <1>7, <1>8, <1>9 DEF front, rest, Cut, Rest

-----------------------------------------------------------------------------
(* What pull reaches when nothing is missing holds the root and the links  *)
(* of each of its blocks, and no closed set is smaller.                    *)
LEMMA ReachedClosed ==
  /\ TreeRoot \in Reached({}) /\ Reached({}) \subseteq Blocks
  /\ \A b \in Reached({}) : Links(b) \subseteq Reached({})
<1> USE PushAssumption
<1>1. \A b \in Blocks : Links(b) \subseteq Blocks
  BY DEF Links, ToSet
<1>2. TreeRoot \in Reached({}) /\ Reached({}) \subseteq Blocks
  BY DEF Reached
<1>3. ASSUME NEW b \in Reached({}), NEW c \in Links(b) PROVE c \in Reached({})
  <2>1. b \in Blocks /\ c \in Blocks
    BY <1>1, <1>2
  <2>2. \A S \in SUBSET Blocks :
          TreeRoot \in S /\ (\A d \in S \ {} : Links(d) \subseteq S) => b \in S
    BY DEF Reached
  <2>3. \A S \in SUBSET Blocks :
          TreeRoot \in S /\ (\A d \in S \ {} : Links(d) \subseteq S) => c \in S
    BY <2>2
  <2> QED  BY <2>1, <2>3 DEF Reached
<1> QED  BY <1>2, <1>3

LEMMA ReachedLeast ==
  ASSUME NEW S \in SUBSET Blocks, TreeRoot \in S, \A c \in S : Links(c) \subseteq S
  PROVE  Reached({}) \subseteq S
BY DEF Reached
-----------------------------------------------------------------------------
(* The inductive invariant.                                                *)
OnTheWay == enqueueing \cup ToSet(uploadQueue) \cup active
Ended == {b \in Blocks : settled[b] # "none"}
Held == {"full", "resumed"}
Ahead == visited \cup ToSet(stack)

PushTypes ==
  /\ found \subseteq Blocks /\ visited \subseteq Blocks /\ enqueueing \subseteq Blocks /\ active \subseteq Blocks
  /\ stack \in Seq(Blocks) /\ uploadQueue \in Seq(Blocks)
  /\ producer \in {"idle", "walking", "full", "resumed", "done", "thrown"}
  /\ consumer \in {"idle", "looping", "empty", "racing", "ending", "done"}
  /\ settled \in [Blocks -> Outcomes \cup {"none"}]

(* A visited block is in one place, unless it is one that was out of reach. *)
OnePlace ==
  /\ Distinct(uploadQueue)
  /\ enqueueing \cap ToSet(uploadQueue) = {} /\ enqueueing \cap active = {} /\ ToSet(uploadQueue) \cap active = {}
  /\ OnTheWay \cap Ended = {} /\ OnTheWay \cup Ended \subseteq visited
  /\ lost \/ visited \subseteq OnTheWay \cup Ended

(* The queue passes its limit by the one block that a cancelled push lets  *)
(* through.                                                                *)
Bounded ==
  /\ Len(uploadQueue) <= MaxQueueSize + 1
  /\ (aborted /\ producer \notin Held) \/ Len(uploadQueue) <= MaxQueueSize
  /\ Cardinality(active) <= Concurrency

(* Who is done and what is left for the others.                            *)
Stages ==
  /\ IF producer \in Held THEN \E b \in Blocks : enqueueing = {b} ELSE enqueueing = {}
  /\ producer = "idle" => visited = {} /\ stack = <<>>
  /\ producer = "done" => walkDone \/ aborted
  /\ walkDone => producer = "done" /\ (aborted \/ stack = <<>>)
  /\ consumer \in {"ending", "done"} =>
       aborted \/ (walkDone /\ uploadQueue = <<>> /\ active = {})

(* What is visited or on the stack is what pull counted, and closed under  *)
(* the links of what is visited.                                           *)
Walked ==
  \/ lost \/ producer = "idle"
  \/ /\ found = Reached({}) /\ Ahead \subseteq found
     /\ aborted \/ TreeRoot \in Ahead
     /\ \A b \in visited : Links(b) \subseteq Ahead

PushInv == PushTypes /\ OnePlace /\ Bounded /\ Stages /\ Walked

LEMMA PushInitHolds == PushInit => PushInv
<1> SUFFICES ASSUME PushInit PROVE PushInv
  OBVIOUS
<1> USE PushAssumption DEF PushInit
<1>1. ToSet(uploadQueue) = {}
  BY DEF ToSet
<1>2. PushTypes
  BY DEF PushTypes
<1>3. OnePlace
  BY <1>1 DEF OnePlace, OnTheWay, Ended, Distinct
<1>4. Bounded
  <2>1. Cardinality(active) = 0
    BY FS_EmptySet
  <2> QED  BY <2>1 DEF Bounded, MaxQueueSize, Held
<1>5. Stages
  BY DEF Stages, Held
<1>6. Walked
  BY DEF Walked
<1> QED  BY <1>2, <1>3, <1>4, <1>5, <1>6 DEF PushInv

LEMMA PullKeeps ==
  ASSUME PushInv, NEW missing, Pull(missing)
  PROVE  PushInv'
<1> USE PushAssumption DEF Pull
<1>1. visited = {} /\ stack = <<>> /\ enqueueing = {} /\ ~walkDone
  BY DEF PushInv, Stages, Held
<1>2. OnTheWay = {} /\ Ended = {} /\ ToSet(uploadQueue) = {}
  BY <1>1 DEF PushInv, OnePlace, OnTheWay
<1>3. found' \subseteq Blocks
  BY DEF Reached
<1>4. stack' = stack \/ stack' = <<TreeRoot>>
  OBVIOUS
<1>5. stack' \in Seq(Blocks)
  <2>1. <<TreeRoot>> \in Seq(Blocks) /\ <<>> \in Seq(Blocks)
    OBVIOUS
  <2> QED  BY <1>1, <1>4, <2>1
<1>6. \/ aborted /\ producer' = "done" /\ consumer' = "done" /\ stack' = stack
      \/ ~aborted /\ producer' = "walking" /\ consumer' = "looping" /\ stack' = <<TreeRoot>>
  OBVIOUS
<1>7. PushTypes'
  BY <1>3, <1>5, <1>6 DEF PushInv, PushTypes
<1>8. OnePlace'
  BY <1>1, <1>2 DEF PushInv, OnePlace, OnTheWay, Ended, Distinct
<1>9. Bounded'
  BY <1>6 DEF PushInv, Bounded, MaxQueueSize, Held
<1>10. Stages'
  BY <1>1, <1>6 DEF PushInv, Stages, Held
<1>11. Walked'
  <2>1. CASE missing = {}
    <3>1. found' = Reached({})
      BY <2>1
    <3>2. ToSet(stack') = {} \/ ToSet(stack') = {TreeRoot}
      BY <1>1, <1>4 DEF ToSet
    <3>3. aborted \/ ToSet(stack') = {TreeRoot}
      BY <1>6 DEF ToSet
    <3> QED  BY <1>1, <3>1, <3>2, <3>3, ReachedClosed DEF Walked, Ahead
  <2>2. CASE missing # {}
    BY <2>2 DEF Walked
  <2> QED  BY <2>1, <2>2
<1> QED  BY <1>7, <1>8, <1>9, <1>10, <1>11 DEF PushInv

-----------------------------------------------------------------------------
(* One block of the walk.                                                  *)
LEMMA EndWalkKeeps ==
  ASSUME PushInv, producer = "walking", EndWalk, stack = <<>> \/ aborted,
         UNCHANGED <<found, stack, active, aborted, settled>>
  PROVE  PushInv'
<1> USE DEF EndWalk, Woken
<1>1. PushTypes' /\ OnePlace'
  BY DEF PushInv, PushTypes, OnePlace, OnTheWay, Ended, Distinct
<1>2. Bounded' /\ Walked'
  BY DEF PushInv, Bounded, MaxQueueSize, Held, Walked, Ahead
<1>3. Stages'
  BY DEF PushInv, Stages, Held
<1> QED  BY <1>1, <1>2, <1>3 DEF PushInv

LEMMA BlockLinks == \A b \in Blocks : Links(b) \subseteq Blocks /\ Kids[b] \in Seq(Blocks) /\ Links(b) = ToSet(Kids[b])
BY PushAssumption DEF Links, ToSet

LEMMA WalkedOn ==
  ASSUME PushInv, producer = "walking", stack # <<>>,
         stack' = Kids[stack[1]] \o Tail(stack), visited' = visited \cup {stack[1]},
         UNCHANGED <<found, lost, aborted>>
  PROVE  Walked' /\ stack' \in Seq(Blocks)
<1> DEFINE b == stack[1]
<1>1. stack \in Seq(Blocks) /\ visited \subseteq Blocks /\ Walked
  BY DEF PushInv, PushTypes
<1>2. Tail(stack) \in Seq(Blocks) /\ b \in Blocks /\ ToSet(stack) = {b} \cup ToSet(Tail(stack))
  BY <1>1, TailSet
<1>3. Kids[b] \in Seq(Blocks) /\ Links(b) = ToSet(Kids[b])
  BY <1>2, BlockLinks
<1>4. stack' \in Seq(Blocks)
  BY <1>2, <1>3
<1>5. ToSet(stack') = Links(b) \cup ToSet(Tail(stack))
  <2>1. ToSet(Kids[b] \o Tail(stack)) = ToSet(Kids[b]) \cup ToSet(Tail(stack))
    <3> DEFINE k == Kids[b]
               r == Tail(stack)
    <3>1. k \in Seq(Blocks) /\ r \in Seq(Blocks)
      BY <1>2, <1>3
    <3> HIDE DEF b, k, r
    <3>2. ToSet(k \o r) = ToSet(k) \cup ToSet(r)
      BY <3>1, ConcatSet
    <3> QED  BY <3>2 DEF k, r
  <2> QED  BY <1>3, <2>1
<1>6. Ahead' = Ahead \cup Links(b) /\ b \in Ahead
  BY <1>2, <1>5 DEF Ahead
<1>7. Walked'
  <2>1. CASE lost
    BY <2>1 DEF Walked
  <2>2. CASE ~lost
    <3>1. /\ found = Reached({}) /\ Ahead \subseteq found /\ (aborted \/ TreeRoot \in Ahead)
          /\ \A c \in visited : Links(c) \subseteq Ahead
      BY <1>1, <2>2 DEF Walked
    <3>2. Links(b) \subseteq found
      BY <1>6, <3>1, ReachedClosed
    <3> QED  BY <1>6, <3>1, <3>2 DEF Walked
  <2> QED  BY <2>1, <2>2
<1> QED  BY <1>4, <1>7

LEMMA WalkKeeps ==
  ASSUME PushInv, NEW out, Walk(out)
  PROVE  PushInv'
<1> DEFINE b == stack[1]
<1>0. producer = "walking" /\ UNCHANGED <<found, active, aborted, settled>>
  BY DEF Walk
<1>1. /\ enqueueing = {} /\ ~walkDone /\ (consumer \in {"ending", "done"} => aborted)
      /\ stack \in Seq(Blocks) /\ uploadQueue \in Seq(Blocks)
  BY <1>0 DEF PushInv, Stages, Held, PushTypes
<1>2. CASE stack = <<>>
  <2>1. EndWalk /\ UNCHANGED stack
    BY <1>2 DEF Walk
  <2> QED  BY <1>0, <1>2, <2>1, EndWalkKeeps
<1>3. CASE stack # <<>> /\ b \in visited
  <2>1. stack' = Tail(stack) /\ UNCHANGED <<visited, enqueueing, uploadQueue, walkDone, producer, consumer, lost>>
    BY <1>3 DEF Walk, Visited
  <2>2. stack' \in Seq(Blocks) /\ ToSet(stack) = {b} \cup ToSet(stack')
    BY <1>1, <1>3, <2>1, TailSet
  <2>3. Ahead' = Ahead
    BY <1>3, <2>1, <2>2 DEF Ahead
  <2>4. PushTypes' /\ OnePlace'
    BY <1>0, <2>1, <2>2 DEF PushInv, PushTypes, OnePlace, OnTheWay, Ended, Distinct
  <2>5. Bounded' /\ Walked'
    BY <1>0, <2>1, <2>3 DEF PushInv, Bounded, MaxQueueSize, Held, Walked
  <2>6. Stages'
    BY <1>0, <1>1, <2>1 DEF PushInv, Stages, Held
  <2> QED  BY <2>4, <2>5, <2>6 DEF PushInv
<1>4. CASE stack # <<>> /\ b \notin visited /\ out
  <2>1. /\ stack' = Tail(stack) /\ visited' = visited \cup {b} /\ lost' = TRUE
        /\ UNCHANGED <<enqueueing, uploadQueue, walkDone, producer, consumer>>
    BY <1>4 DEF Walk, Visited
  <2>2. stack' \in Seq(Blocks) /\ b \in Blocks
    BY <1>1, <1>4, <2>1, TailSet
  <2>3. PushTypes' /\ OnePlace'
    BY <1>0, <2>1, <2>2 DEF PushInv, PushTypes, OnePlace, OnTheWay, Ended, Distinct
  <2>4. Bounded' /\ Walked'
    BY <1>0, <2>1 DEF PushInv, Bounded, MaxQueueSize, Held, Walked
  <2>5. Stages'
    BY <1>0, <1>1, <2>1 DEF PushInv, Stages, Held
  <2> QED  BY <2>3, <2>4, <2>5 DEF PushInv
<1>5. CASE stack # <<>> /\ b \notin visited /\ ~out /\ aborted
  <2>1. EndWalk /\ UNCHANGED stack
    BY <1>5 DEF Walk, Visited
  <2> QED  BY <1>0, <1>5, <2>1, EndWalkKeeps
<1>6. CASE stack # <<>> /\ b \notin visited /\ ~out /\ ~aborted
  <2>1. stack' = Kids[b] \o Tail(stack) /\ visited' = visited \cup {b} /\ UNCHANGED <<walkDone, lost>>
    BY <1>6 DEF Walk, Visited
  <2>2. Walked' /\ stack' \in Seq(Blocks)
    BY <1>0, <1>6, <2>1, WalkedOn
  <2>3. b \in Blocks
    BY <1>1, <1>6, TailSet
  <2>4. b \notin OnTheWay /\ b \notin Ended /\ settled[b] = "none"
    BY <1>6, <2>3 DEF PushInv, OnePlace, Ended
  <2>5. CASE Len(uploadQueue) >= MaxQueueSize
    <3>1. enqueueing' = {b} /\ producer' = "full" /\ UNCHANGED <<uploadQueue, consumer>>
      BY <1>6, <2>5 DEF Walk, Visited
    <3>2. PushTypes'
      BY <1>0, <2>1, <2>2, <2>3, <3>1 DEF PushInv, PushTypes
    <3>3. OnePlace'
      BY <1>0, <1>1, <2>1, <2>4, <3>1 DEF PushInv, OnePlace, OnTheWay, Ended
    <3>4. Bounded'
      BY <1>0, <1>6, <3>1 DEF PushInv, Bounded, MaxQueueSize, Held
    <3>5. Stages'
      BY <1>0, <1>1, <1>6, <2>1, <2>3, <3>1 DEF PushInv, Stages, Held
    <3> QED  BY <2>2, <3>2, <3>3, <3>4, <3>5 DEF PushInv
  <2>6. CASE ~(Len(uploadQueue) >= MaxQueueSize)
    <3>1. uploadQueue' = Append(uploadQueue, b) /\ consumer' = Woken /\ UNCHANGED <<enqueueing, producer>>
      BY <1>6, <2>6 DEF Walk, Visited, Enqueue
    <3>2. ToSet(uploadQueue') = ToSet(uploadQueue) \cup {b} /\ uploadQueue' \in Seq(Blocks)
      BY <1>1, <2>3, <3>1, AppendSet
    <3>3. Distinct(uploadQueue')
      BY <1>1, <2>3, <2>4, <3>1, AppendDistinct DEF PushInv, OnePlace, OnTheWay
    <3>4. PushTypes'
      BY <1>0, <2>1, <2>2, <2>3, <3>1, <3>2 DEF PushInv, PushTypes, Woken
    <3>5. OnePlace'
      BY <1>0, <1>1, <2>1, <2>4, <3>1, <3>2, <3>3 DEF PushInv, OnePlace, OnTheWay, Ended
    <3>6. Bounded'
      <4>1. Len(uploadQueue') = Len(uploadQueue) + 1 /\ Len(uploadQueue) \in Nat /\ MaxQueueSize \in Nat
        BY <1>1, <3>1, PushAssumption DEF MaxQueueSize
      <4>2. Len(uploadQueue') <= MaxQueueSize
        BY <2>6, <4>1
      <4> QED  BY <1>0, <3>1, <4>1, <4>2 DEF PushInv, Bounded, MaxQueueSize
    <3>7. Stages'
      BY <1>0, <1>1, <1>6, <2>1, <3>1 DEF PushInv, Stages, Held, Woken
    <3> QED  BY <2>2, <3>4, <3>5, <3>6, <3>7 DEF PushInv
  <2> QED  BY <2>5, <2>6
<1> QED  BY <1>2, <1>3, <1>4, <1>5, <1>6

LEMMA ResumeKeeps ==
  ASSUME PushInv, Resume
  PROVE  PushInv'
<1>0. producer = "resumed" /\ UNCHANGED <<found, stack, visited, active, walkDone, aborted, settled, lost>>
  BY DEF Resume
<1>1. PICK b \in Blocks : enqueueing = {b}
  BY <1>0 DEF PushInv, Stages, Held
<1>2. /\ ~walkDone /\ (consumer \in {"ending", "done"} => aborted)
      /\ uploadQueue \in Seq(Blocks) /\ Len(uploadQueue) <= MaxQueueSize
  BY <1>0 DEF PushInv, Stages, Held, PushTypes, Bounded
<1>3. CASE Len(uploadQueue) >= MaxQueueSize /\ ~aborted
  <2>1. producer' = "full" /\ UNCHANGED <<uploadQueue, consumer, enqueueing>>
    BY <1>3 DEF Resume
  <2>2. PushTypes' /\ OnePlace'
    BY <1>0, <2>1 DEF PushInv, PushTypes, OnePlace, OnTheWay, Ended
  <2>3. Bounded' /\ Walked'
    BY <1>0, <1>2, <2>1 DEF PushInv, Bounded, MaxQueueSize, Held, Walked, Ahead
  <2>4. Stages'
    BY <1>0, <1>1, <1>2, <2>1 DEF PushInv, Stages, Held
  <2> QED  BY <2>2, <2>3, <2>4 DEF PushInv
<1>4. CASE ~(Len(uploadQueue) >= MaxQueueSize /\ ~aborted)
  <2>1. /\ uploadQueue' = Append(uploadQueue, b) /\ consumer' = Woken
        /\ enqueueing' = {} /\ producer' = "walking"
    BY <1>1, <1>4 DEF Resume, Enqueue
  <2>2. ToSet(uploadQueue') = ToSet(uploadQueue) \cup {b} /\ uploadQueue' \in Seq(Blocks)
    BY <1>2, <2>1, AppendSet
  <2>3. Distinct(uploadQueue')
    BY <1>1, <1>2, <2>1, AppendDistinct DEF PushInv, OnePlace
  <2>4. PushTypes'
    BY <1>0, <2>1, <2>2 DEF PushInv, PushTypes, Woken
  <2>5. OnePlace'
    BY <1>0, <1>1, <2>1, <2>2, <2>3 DEF PushInv, OnePlace, OnTheWay, Ended
  <2>6. Bounded'
    <3>1. Len(uploadQueue') = Len(uploadQueue) + 1 /\ Len(uploadQueue) \in Nat /\ MaxQueueSize \in Nat
      BY <1>2, <2>1, PushAssumption DEF MaxQueueSize
    <3>2. aborted \/ Len(uploadQueue) < MaxQueueSize
      BY <1>4, <3>1
    <3>3. Len(uploadQueue') <= MaxQueueSize + 1 /\ (aborted \/ Len(uploadQueue') <= MaxQueueSize)
      BY <1>2, <3>1, <3>2
    <3> QED  BY <1>0, <2>1, <3>3 DEF PushInv, Bounded, MaxQueueSize, Held
  <2>7. Stages'
    BY <1>0, <1>2, <2>1 DEF PushInv, Stages, Held, Woken
  <2>8. Walked'
    BY <1>0, <2>1 DEF PushInv, Walked, Ahead
  <2> QED  BY <2>4, <2>5, <2>6, <2>7, <2>8 DEF PushInv
<1> QED  BY <1>3, <1>4

-----------------------------------------------------------------------------
(* The consumer.                                                           *)
LEMMA ConsumeKeeps ==
  ASSUME PushInv, Consume
  PROVE  PushInv'
<1> USE PushAssumption
<1>0. consumer = "looping" /\ UNCHANGED <<found, stack, visited, enqueueing, walkDone, aborted, settled, lost>>
  BY DEF Consume
<1>1. CASE aborted \/ (walkDone /\ uploadQueue = <<>> /\ active = {})
  <2>1. consumer' = "ending" /\ UNCHANGED <<uploadQueue, active, producer>>
    BY <1>1 DEF Consume
  <2>2. PushTypes' /\ OnePlace'
    BY <1>0, <2>1 DEF PushInv, PushTypes, OnePlace, OnTheWay, Ended
  <2>3. Bounded' /\ Walked'
    BY <1>0, <2>1 DEF PushInv, Bounded, MaxQueueSize, Held, Walked, Ahead
  <2>4. Stages'
    BY <1>0, <1>1, <2>1 DEF PushInv, Stages, Held
  <2> QED  BY <2>2, <2>3, <2>4 DEF PushInv
<1>2. CASE ~(aborted \/ (walkDone /\ uploadQueue = <<>> /\ active = {}))
  <2> DEFINE room == Concurrency - Cardinality(active)
             started == IF Len(uploadQueue) < room THEN Len(uploadQueue) ELSE room
             front == Cut(uploadQueue, started)
             rest == Rest(uploadQueue, started)
  <2>1. /\ active' = active \cup front /\ uploadQueue' = rest /\ producer' = Resumed(started)
        /\ consumer' \in {"empty", "racing", "looping"}
    BY <1>2 DEF Consume, Cut, Rest
  <2>2. /\ uploadQueue \in Seq(Blocks) /\ Distinct(uploadQueue) /\ active \subseteq Blocks
        /\ Cardinality(active) <= Concurrency /\ IsFiniteSet(Blocks)
        /\ Len(uploadQueue) \in Nat /\ Concurrency \in Nat
    BY DEF PushInv, PushTypes, OnePlace, Bounded
  <2>3. IsFiniteSet(active) /\ Cardinality(active) \in Nat
    BY <2>2, FS_Subset, FS_CardinalityType
  <2>4. started \in 0..Len(uploadQueue) /\ Cardinality(active) + started <= Concurrency
    BY <2>2, <2>3
  <2> HIDE DEF started
  <2>5. /\ rest \in Seq(Blocks) /\ Len(rest) = Len(uploadQueue) - started /\ Distinct(rest)
        /\ front \subseteq Blocks /\ front \cap ToSet(rest) = {}
        /\ ToSet(uploadQueue) = front \cup ToSet(rest)
        /\ IsFiniteSet(front) /\ Cardinality(front) <= started
    BY <2>2, <2>4, CutQueue
  <2> HIDE DEF front, rest
  <2>6. Cardinality(active \cup front) <= Concurrency
    <3>1. /\ Cardinality(front) \in Nat /\ IsFiniteSet(active \cap front)
          /\ Cardinality(active \cup front) = Cardinality(active) + Cardinality(front) - Cardinality(active \cap front)
      BY <2>3, <2>5, FS_CardinalityType, FS_Union, FS_Subset
    <3>2. Cardinality(active \cap front) \in Nat
      BY <3>1, FS_CardinalityType
    <3>3. started \in Nat
      BY <2>2, <2>4
    <3> QED  BY <2>2, <2>3, <2>4, <2>5, <3>1, <3>2, <3>3
  <2>7. /\ producer' = producer \/ (producer = "full" /\ producer' = "resumed")
    BY <2>1 DEF Resumed
  <2>8. PushTypes'
    BY <1>0, <2>1, <2>2, <2>5, <2>7 DEF PushInv, PushTypes
  <2>9. OnePlace'
    BY <1>0, <2>1, <2>5 DEF PushInv, OnePlace, OnTheWay, Ended
  <2>10. Bounded'
    <3>1. Len(rest) <= Len(uploadQueue) /\ Len(rest) \in Nat /\ MaxQueueSize \in Nat
      BY <2>2, <2>4, <2>5 DEF MaxQueueSize
    <3>2. producer' \in Held <=> producer \in Held
      BY <2>7 DEF Held
    <3>3. Len(uploadQueue) <= MaxQueueSize + 1 /\ ((aborted /\ producer \notin Held) \/ Len(uploadQueue) <= MaxQueueSize)
      BY DEF PushInv, Bounded
    <3>4. Len(rest) <= MaxQueueSize + 1 /\ ((aborted /\ producer \notin Held) \/ Len(rest) <= MaxQueueSize)
      BY <2>2, <3>1, <3>3
    <3>5. MaxQueueSize' = MaxQueueSize
      BY DEF MaxQueueSize
    <3> QED  BY <1>0, <2>1, <2>6, <3>2, <3>4, <3>5 DEF Bounded
  <2>11. Stages'
    BY <1>0, <2>1, <2>7 DEF PushInv, Stages, Held
  <2>12. Walked'
    BY <1>0, <2>7 DEF PushInv, Walked, Ahead
  <2> QED  BY <2>8, <2>9, <2>10, <2>11, <2>12 DEF PushInv
<1> QED  BY <1>1, <1>2

LEMMA UploadEndsKeeps ==
  ASSUME PushInv, NEW b \in Blocks, NEW how \in Outcomes, UploadEnds(b, how)
  PROVE  PushInv'
<1> USE PushAssumption
<1>1. /\ b \in active /\ active' = active \ {b} /\ settled' = [settled EXCEPT ![b] = how]
      /\ consumer' = consumer \/ (consumer = "racing" /\ consumer' = "looping")
      /\ UNCHANGED <<found, stack, visited, enqueueing, uploadQueue, walkDone, aborted, producer, lost>>
  BY DEF UploadEnds
<1>2. how # "none" /\ settled \in [Blocks -> Outcomes \cup {"none"}]
  BY DEF Outcomes, PushInv, PushTypes
<1>3. Ended' = Ended \cup {b}
  BY <1>1, <1>2 DEF Ended
<1>4. PushTypes'
  BY <1>1, <1>2 DEF PushInv, PushTypes
<1>5. OnePlace'
  BY <1>1, <1>3 DEF PushInv, OnePlace, OnTheWay
<1>6. Bounded'
  <2>1. active \subseteq Blocks /\ Cardinality(active) <= Concurrency
    BY DEF PushInv, PushTypes, Bounded
  <2>2. IsFiniteSet(active) /\ Cardinality(active) \in Nat
    BY <2>1, FS_Subset, FS_CardinalityType
  <2>3. Cardinality(active') = Cardinality(active) - 1
    BY <1>1, <2>2, FS_RemoveElement
  <2> QED  BY <1>1, <2>1, <2>2, <2>3 DEF PushInv, Bounded, MaxQueueSize
<1>7. Stages' /\ Walked'
  BY <1>1 DEF PushInv, Stages, Held, Walked, Ahead
<1> QED  BY <1>4, <1>5, <1>6, <1>7 DEF PushInv

(* The steps that move no block.                                           *)
LEMMA OthersKeepPush ==
  ASSUME PushInv, Abort \/ Throw \/ End \/ UNCHANGED pushVars
  PROVE  PushInv'
<1> USE DEF Abort, Throw, End, pushVars
<1>1. UNCHANGED <<found, stack, visited, enqueueing, uploadQueue, active, walkDone, settled, lost>>
  OBVIOUS
<1>2. /\ aborted' = aborted \/ aborted' = TRUE
      /\ producer' = producer \/ (producer = "walking" /\ producer' = "thrown")
      /\ consumer' = consumer \/ (consumer = "ending" /\ consumer' = "done")
  OBVIOUS
<1>3. PushTypes' /\ OnePlace'
  BY <1>1, <1>2 DEF PushInv, PushTypes, OnePlace, OnTheWay, Ended
<1>4. Bounded' /\ Walked'
  BY <1>1, <1>2 DEF PushInv, Bounded, MaxQueueSize, Held, Walked, Ahead
<1>5. Stages'
  BY <1>1, <1>2 DEF PushInv, Stages, Held
<1> QED  BY <1>3, <1>4, <1>5 DEF PushInv

(* The producer and the consumer keep every block in one place and walk    *)
(* all that pull counted, in every reachable state (hashtree.ts:478-569).  *)
THEOREM PushInvHolds == PushSpec => []PushInv
<1>1. ASSUME PushInv, [PushNext]_pushVars PROVE PushInv'
  BY <1>1, PullKeeps, WalkKeeps, ResumeKeeps, ConsumeKeeps, UploadEndsKeeps, OthersKeepPush DEF PushNext
<1> QED  BY <1>1, PushInitHolds, PTL DEF PushSpec

(* No block is in two places, so none is uploaded twice; a push that       *)
(* returns without having been cancelled has settled every block of the    *)
(* tree; and no more blocks end than pull counted (PushComplete,           *)
(* hashtree.ts:478-569).                                                   *)
THEOREM PushesComplete == PushSpec => []PushComplete
<1>1. ASSUME PushInv PROVE PushComplete
  <2> USE <1>1, PushAssumption
  <2>1. PushTypeOK
    BY DEF PushInv, PushTypes, Bounded, PushTypeOK
  <2>2. \A i, j \in DOMAIN uploadQueue : uploadQueue[i] = uploadQueue[j] => i = j
    BY DEF PushInv, OnePlace, Distinct
  <2>3. ASSUME NEW b \in Blocks
        PROVE  Cardinality({p \in {"enqueueing", "uploadQueue", "active", "settled"} :
                 \/ p = "enqueueing" /\ b \in enqueueing
                 \/ p = "uploadQueue" /\ b \in ToSet(uploadQueue)
                 \/ p = "active" /\ b \in active
                 \/ p = "settled" /\ settled[b] # "none"}) <= 1
    <3> DEFINE places == {p \in {"enqueueing", "uploadQueue", "active", "settled"} :
                            \/ p = "enqueueing" /\ b \in enqueueing
                            \/ p = "uploadQueue" /\ b \in ToSet(uploadQueue)
                            \/ p = "active" /\ b \in active
                            \/ p = "settled" /\ settled[b] # "none"}
    <3>1. \A p, q \in places : p = q
      BY <2>3 DEF PushInv, OnePlace, OnTheWay, Ended
    <3> HIDE DEF places
    <3>2. places = {} \/ \E p : places = {p}
      <4>1. ASSUME NEW p \in places PROVE places = {p}
        BY <3>1, <4>1
      <4> QED  BY <4>1
    <3>3. Cardinality(places) \in {0, 1}
      BY <3>2, FS_EmptySet, FS_Singleton
    <3>4. Cardinality(places) <= 1
      BY <3>3
    <3> QED  BY <3>4 DEF places
  <2>4. ASSUME PushOver, producer = "done", ~aborted, ~lost
        PROVE  \A b \in Reached({}) : settled[b] # "none"
    <3>1. /\ walkDone /\ stack = <<>> /\ uploadQueue = <<>> /\ active = {} /\ enqueueing = {}
      BY <2>4 DEF PushInv, Stages, PushOver, Held
    <3>2. ToSet(stack) = {} /\ ToSet(uploadQueue) = {}
      BY <3>1 DEF ToSet
    <3>3. visited \subseteq Ended
      BY <2>4, <3>1, <3>2 DEF PushInv, OnePlace, OnTheWay
    <3>4. TreeRoot \in visited /\ \A b \in visited : Links(b) \subseteq visited
      BY <2>4, <3>2 DEF PushInv, Walked, Ahead
    <3>5. Reached({}) \subseteq visited
      BY <3>4, ReachedLeast DEF PushInv, PushTypes
    <3> QED  BY <3>3, <3>5 DEF Ended
  <2>5. ~lost => Cardinality({b \in Blocks : settled[b] # "none"}) <= Cardinality(found)
    <3>1. found \subseteq Blocks /\ IsFiniteSet(found)
      BY FS_Subset DEF PushInv, PushTypes
    <3>2. ~lost => Ended \subseteq found
      BY DEF PushInv, OnePlace, Stages, Walked, Ahead
    <3>3. ~lost => Cardinality(Ended) <= Cardinality(found)
      BY <3>1, <3>2, FS_Subset
    <3> QED  BY <3>3 DEF Ended
  <2> QED  BY <2>1, <2>2, <2>3, <2>4, <2>5 DEF PushComplete
<1> QED  BY <1>1, PushInvHolds, PTL
=============================================================================
