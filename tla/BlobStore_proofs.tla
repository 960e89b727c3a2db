-------------------------- MODULE BlobStore_proofs --------------------------
(***************************************************************************)
(* The blob store's invariants, for any blobs, any calls and any limits:   *)
(* every blob keeps its row in accesses, noted uses are never stranded,    *)
(* and one eviction runs at a time.                                        *)
(***************************************************************************)
EXTENDS BlobStore, FiniteSetTheorems, SequenceTheorems, TLAPS

(* A call's frame has these fields and no others.                          *)
IsFrame(f) ==
  f = [pc |-> f.pc, kind |-> f.kind, hash |-> f.hash, at |-> f.at, awaits |-> f.awaits,
       queue |-> f.queue, excess |-> f.excess, removed |-> f.removed]

(* Until a put writes, it holds a hash and the time it was made.           *)
PutReady(f) ==
  f.kind = "put" /\ f.pc \in {"flush", "awaiting", "flushing"} =>
    f.hash \in Hashes /\ f.at \in Nat

CallsOK ==
  /\ call = [c \in Calls |-> call[c]]
  /\ \A c \in Calls : IsFrame(call[c]) /\ PutReady(call[c])

(* An eviction that runs is the one the schedule waits for.                *)
EvictionKnown == \A c \in Calls : call[c].kind = "evict" => evicting = c

IInv ==
  TypeOK /\ CallsOK /\ EveryBlobEvictable /\ TouchesNotStranded /\ EvictionKnown

-----------------------------------------------------------------------------
LEMMA InitHolds == Init => IInv
<1> USE NoneAssumption, SizesAssumption
<1> SUFFICES ASSUME Init PROVE IInv
  OBVIOUS
<1>1. TypeOK
  <2>1. writes \in 0..(EvictEvery - 1)
    BY DEF Init
  <2>2. access \in [Hashes -> Nat \cup {None}] /\ touched \in [Hashes -> Nat \cup {None}]
    BY DEF Init, Nothing
  <2>3. timer \in BOOLEAN /\ flushing \in Nat \cup {None} /\ evicting \in Calls \cup {None}
        /\ blobs \subseteq Hashes /\ now \in Nat /\ added \in Nat
    BY DEF Init
  <2> QED  BY <2>1, <2>2, <2>3 DEF TypeOK
<1>2. CallsOK
  <2>1. IsFrame(Idle) /\ PutReady(Idle)
    BY DEF IsFrame, PutReady, Idle
  <2>2. call = [c \in Calls |-> Idle]
    BY DEF Init
  <2> HIDE DEF Idle
  <2> QED  BY <2>1, <2>2 DEF CallsOK
<1>3. EveryBlobEvictable /\ TouchesNotStranded
  BY DEF Init, EveryBlobEvictable, TouchesNotStranded
<1>4. EvictionKnown
  BY DEF Init, EvictionKnown, Idle
<1> QED  BY <1>1, <1>2, <1>3, <1>4 DEF IInv

-----------------------------------------------------------------------------
(* One call moves: the others stay as they are.                            *)
LEMMA OneMoves ==
  ASSUME CallsOK, NEW c \in Calls, NEW f, IsFrame(f), PutReady(f),
         call' = [call EXCEPT ![c] = f]
  PROVE  CallsOK' /\ call'[c] = f /\ \A d \in Calls \ {c} : call'[d] = call[d]
<1>1. call'[c] = f /\ \A d \in Calls \ {c} : call'[d] = call[d]
  BY DEF CallsOK
<1>2. call' = [d \in Calls |-> call'[d]]
  BY DEF CallsOK
<1>3. \A d \in Calls : IsFrame(call[d]) /\ PutReady(call[d])
  BY DEF CallsOK
<1> QED  BY <1>1, <1>2, <1>3 DEF CallsOK

(* What Idle, Done and a frame with a new pc look like.                    *)
LEMMA Frames ==
  /\ IsFrame(Idle) /\ PutReady(Idle) /\ Idle.pc = "idle" /\ Idle.kind = "none"
  /\ IsFrame(Done) /\ PutReady(Done) /\ Done.pc = "done" /\ Done.kind = "none"
BY DEF IsFrame, PutReady, Idle, Done

LEMMA StartFrames ==
  ASSUME NEW kind, NEW h, NEW t
  PROVE  /\ IsFrame(Starts(kind, h, t))
         /\ Starts(kind, h, t).pc = "flush"
         /\ Starts(kind, h, t).kind = kind
         /\ kind # "put" \/ (h \in Hashes /\ t \in Nat) => PutReady(Starts(kind, h, t))
<1>1. PICK f : f = Starts(kind, h, t)
  OBVIOUS
<1>2. /\ IsFrame(f) /\ f.pc = "flush" /\ f.kind = kind /\ f.hash = h /\ f.at = t
  BY <1>1 DEF IsFrame, Starts, Idle
<1>3. kind # "put" \/ (h \in Hashes /\ t \in Nat) => PutReady(f)
  BY <1>2 DEF PutReady
<1> QED  BY <1>1, <1>2, <1>3

LEMMA PcMoves ==
  ASSUME NEW f, IsFrame(f), NEW pc
  PROVE  /\ IsFrame([f EXCEPT !.pc = pc])
         /\ [f EXCEPT !.pc = pc].pc = pc
         /\ [f EXCEPT !.pc = pc].kind = f.kind
         /\ [f EXCEPT !.pc = pc].hash = f.hash
         /\ [f EXCEPT !.pc = pc].at = f.at
BY DEF IsFrame

(* A call that moves without becoming an eviction, none being replaced.    *)
LEMMA PlainMove ==
  ASSUME IInv, NEW c \in Calls, NEW f, IsFrame(f), PutReady(f),
         f.kind = "evict" => call[c].kind = "evict",
         call' = [call EXCEPT ![c] = f], evicting' = evicting
  PROVE  /\ CallsOK' /\ EvictionKnown'
         /\ call'[c] = f /\ \A d \in Calls \ {c} : call'[d] = call[d]
<1>1. CallsOK' /\ call'[c] = f /\ \A d \in Calls \ {c} : call'[d] = call[d]
  BY OneMoves DEF IInv
<1>2. EvictionKnown'
  BY <1>1 DEF IInv, EvictionKnown
<1> QED  BY <1>1, <1>2

LEMMA CallFacts ==
  ASSUME IInv, NEW c \in Calls
  PROVE  IsFrame(call[c]) /\ PutReady(call[c]) /\ (call[c].kind = "evict" => evicting = c)
BY DEF IInv, CallsOK, EvictionKnown

(* A call leaves a state in which it was about to flush nothing.           *)
LEMMA NoFlusherMoves ==
  ASSUME IInv, NEW c \in Calls, call[c].pc \notin {"flush", "awaiting", "flushing"},
         \A d \in Calls \ {c} : call'[d] = call[d],
         touched' = touched, timer' = timer
  PROVE  TouchesNotStranded'
BY DEF IInv, TouchesNotStranded, Nothing

-----------------------------------------------------------------------------
(* A call begins.                                                          *)
LEMMA BeginsHolds ==
  ASSUME IInv, NEW c \in Calls, CallBegins(c)
  PROVE  IInv'
<1> USE NoneAssumption
<1>1. ASSUME NEW h \in Hashes, Get(c, h) PROVE IInv'
  <2> DEFINE f == IF h \in blobs
                    THEN [Idle EXCEPT !.pc = "hit", !.kind = "get", !.hash = h] ELSE Done
  <2>1. IsFrame(f) /\ PutReady(f) /\ f.kind # "evict"
    BY Frames DEF IsFrame, PutReady, Idle, Done
  <2>2. call' = [call EXCEPT ![c] = f] /\ call[c].pc = "idle" /\ evicting' = evicting
    BY <1>1 DEF Get, schedule
  <2>3. CallsOK' /\ EvictionKnown' /\ \A d \in Calls \ {c} : call'[d] = call[d]
    <3> HIDE DEF f
    <3> QED  BY <2>1, <2>2, PlainMove
  <2>4. TypeOK' /\ EveryBlobEvictable'
    BY <1>1 DEF IInv, TypeOK, EveryBlobEvictable, Get, tables, touches, schedule
  <2>5. TouchesNotStranded'
    BY <1>1, <2>2, <2>3, NoFlusherMoves DEF Get, touches
  <2> QED  BY <2>3, <2>4, <2>5 DEF IInv
<1>2. ASSUME NEW h \in Hashes, Put(c, h) PROVE IInv'
  <2> DEFINE f == Starts("put", h, now)
  <2>1. IsFrame(f) /\ PutReady(f) /\ f.kind # "evict"
    BY StartFrames DEF IInv, TypeOK
  <2>2. call' = [call EXCEPT ![c] = f] /\ call[c].pc = "idle" /\ evicting' = evicting
    BY <1>2 DEF Put, schedule
  <2>3. CallsOK' /\ EvictionKnown' /\ \A d \in Calls \ {c} : call'[d] = call[d]
    <3> HIDE DEF f
    <3> QED  BY <2>1, <2>2, PlainMove
  <2>4. TypeOK' /\ EveryBlobEvictable'
    BY <1>2 DEF IInv, TypeOK, EveryBlobEvictable, Put, tables, touches, schedule
  <2>5. TouchesNotStranded'
    BY <1>2, <2>2, <2>3, NoFlusherMoves DEF Put, touches
  <2> QED  BY <2>3, <2>4, <2>5 DEF IInv
<1>3. ASSUME NEW h \in Hashes, Delete(c, h) PROVE IInv'
  <2> DEFINE f == Starts("delete", h, None)
  <2>1. IsFrame(f) /\ PutReady(f) /\ f.kind # "evict"
    BY StartFrames
  <2>2. call' = [call EXCEPT ![c] = f] /\ call[c].pc = "idle" /\ evicting' = evicting
    BY <1>3 DEF Delete, schedule
  <2>3. CallsOK' /\ EvictionKnown' /\ \A d \in Calls \ {c} : call'[d] = call[d]
    <3> HIDE DEF f
    <3> QED  BY <2>1, <2>2, PlainMove
  <2>4. TypeOK' /\ EveryBlobEvictable'
    BY <1>3 DEF IInv, TypeOK, EveryBlobEvictable, Delete, tables, touches, schedule
  <2>5. TouchesNotStranded'
    BY <1>3, <2>2, <2>3, NoFlusherMoves DEF Delete, touches
  <2> QED  BY <2>3, <2>4, <2>5 DEF IInv
<1>4. ASSUME Clear(c) PROVE IInv'
  <2> DEFINE f == Starts("clear", None, None)
  <2>1. IsFrame(f) /\ PutReady(f) /\ f.kind # "evict"
    BY StartFrames
  <2>2. call' = [call EXCEPT ![c] = f] /\ call[c].pc = "idle" /\ evicting' = evicting
    BY <1>4 DEF Clear, schedule
  <2>3. CallsOK' /\ EvictionKnown' /\ \A d \in Calls \ {c} : call'[d] = call[d]
    <3> HIDE DEF f
    <3> QED  BY <2>1, <2>2, PlainMove
  <2>4. TypeOK' /\ EveryBlobEvictable'
    BY <1>4 DEF IInv, TypeOK, EveryBlobEvictable, Clear, tables, touches, schedule
  <2>5. TouchesNotStranded'
    BY <1>4, <2>2, <2>3, NoFlusherMoves DEF Clear, touches
  <2> QED  BY <2>3, <2>4, <2>5 DEF IInv
<1>5. ASSUME FlushTimer(c) PROVE IInv'
  <2> DEFINE f == Starts("timer", None, None)
  <2>1. IsFrame(f) /\ PutReady(f) /\ f.kind # "evict" /\ f.pc = "flush"
    BY StartFrames
  <2>2. call' = [call EXCEPT ![c] = f] /\ evicting' = evicting
    BY <1>5 DEF FlushTimer, schedule
  <2>3. CallsOK' /\ EvictionKnown' /\ call'[c].pc = "flush"
    <3> HIDE DEF f
    <3> QED  BY <2>1, <2>2, PlainMove
  <2>4. TypeOK' /\ EveryBlobEvictable'
    BY <1>5 DEF IInv, TypeOK, EveryBlobEvictable, FlushTimer, tables, schedule
  <2>5. TouchesNotStranded'
    BY <2>3 DEF TouchesNotStranded
  <2> QED  BY <2>3, <2>4, <2>5 DEF IInv
<1> QED  BY <1>1, <1>2, <1>3, <1>4, <1>5 DEF CallBegins

-----------------------------------------------------------------------------
(* The flush every writing call starts with.  The batch is taken, ...      *)
LEMMA BatchHolds ==
  ASSUME IInv, NEW c \in Calls, TakeBatch(c), timer' \in BOOLEAN,
         call[c].pc \in {"flush", "awaiting", "flushing"}
  PROVE  IInv'
<1> USE NoneAssumption
<1>1. PICK f : f = [call[c] EXCEPT !.pc = "flushing"]
  OBVIOUS
<1>2. IsFrame(f) /\ PutReady(f) /\ f.kind = call[c].kind
  BY <1>1, CallFacts, PcMoves DEF PutReady
<1>3. call' = [call EXCEPT ![c] = f]
  BY <1>1 DEF TakeBatch, Goes
<1>4. evicting' = evicting
  BY DEF TakeBatch, schedule
<1>5. CallsOK' /\ EvictionKnown'
  BY <1>2, <1>3, <1>4, PlainMove
<1>6. access' \in [Hashes -> Nat \cup {None}]
  BY DEF TakeBatch, IInv, TypeOK
<1>7. touched' \in [Hashes -> Nat \cup {None}]
  BY DEF TakeBatch, Nothing
<1>8. TypeOK'
  BY <1>6, <1>7 DEF IInv, TypeOK, TakeBatch, schedule
<1>9. EveryBlobEvictable'
  BY DEF IInv, TypeOK, EveryBlobEvictable, TakeBatch
<1>10. TouchesNotStranded'
  BY DEF TouchesNotStranded, TakeBatch, Nothing
<1> QED  BY <1>5, <1>8, <1>9, <1>10 DEF IInv

(* ... or there is nothing to flush and the call does its own work.        *)
LEMMA WorkHolds ==
  ASSUME IInv, NEW c \in Calls, AfterFlush(c), call[c].pc \in {"flush", "awaiting", "flushing"},
         touched = Nothing, touched' = touched,
         timer' \in BOOLEAN, flushing' \in Nat \cup {None}
  PROVE  IInv'
<1> USE NoneAssumption, SizesAssumption
<1>1. TouchesNotStranded'
  BY DEF TouchesNotStranded, Nothing
<1>2. touched' \in [Hashes -> Nat \cup {None}]
  BY DEF IInv, TypeOK
<1>3. CASE PutWrites(c)
  <2>1. PICK f : f = [call[c] EXCEPT !.pc = "written"]
    OBVIOUS
  <2>2. IsFrame(f) /\ f.pc = "written" /\ f.kind = call[c].kind
    <3>1. PICK g : g = call[c]
      OBVIOUS
    <3>2. IsFrame(g)
      BY <3>1, CallFacts
    <3>3. f = [g EXCEPT !.pc = "written"]
      BY <2>1, <3>1
    <3>4. IsFrame(f) /\ f.pc = "written" /\ f.kind = g.kind
      BY <3>2, <3>3 DEF IsFrame
    <3> QED  BY <3>1, <3>4
  <2>3. call' = [call EXCEPT ![c] = f] /\ evicting' = evicting
    BY <1>3, <2>1 DEF PutWrites, Goes, schedule
  <2>4. CallsOK' /\ EvictionKnown'
    BY <2>2, <2>3, PlainMove DEF PutReady
  <2>5. call[c].hash \in Hashes /\ call[c].at \in Nat
    BY <1>3, CallFacts DEF PutWrites, PutReady
  <2>6. TypeOK'
    BY <1>2, <1>3, <2>5 DEF IInv, TypeOK, PutWrites, Uses, schedule
  <2>7. EveryBlobEvictable'
    BY <1>3, <2>5 DEF IInv, TypeOK, EveryBlobEvictable, PutWrites
  <2> QED  BY <1>1, <2>4, <2>6, <2>7 DEF IInv
<1>4. CASE DeleteLooks(c)
  <2>1. PICK f : f = IF call[c].hash \in blobs THEN [call[c] EXCEPT !.pc = "deleting"] ELSE Done
    OBVIOUS
  <2>2. IsFrame(f) /\ PutReady(f) /\ (f.kind = "evict" => call[c].kind = "evict")
    BY <2>1, CallFacts, PcMoves, Frames DEF PutReady
  <2>3. call' = [call EXCEPT ![c] = f] /\ evicting' = evicting
    BY <1>4, <2>1 DEF DeleteLooks, Goes, schedule
  <2>4. CallsOK' /\ EvictionKnown'
    BY <2>2, <2>3, PlainMove
  <2>5. TypeOK' /\ EveryBlobEvictable'
    BY <1>2, <1>4 DEF IInv, TypeOK, EveryBlobEvictable, DeleteLooks, tables, schedule
  <2> QED  BY <1>1, <2>4, <2>5 DEF IInv
<1>5. CASE ClearRemoves(c)
  <2>1. call' = [call EXCEPT ![c] = Done] /\ evicting' = evicting
    BY <1>5 DEF ClearRemoves, schedule
  <2>2. CallsOK' /\ EvictionKnown'
    BY <2>1, PlainMove, Frames
  <2>3. access' \in [Hashes -> Nat \cup {None}] /\ blobs' = {}
    BY <1>5 DEF ClearRemoves, Nothing
  <2>4. TypeOK' /\ EveryBlobEvictable'
    BY <1>2, <1>5, <2>3 DEF IInv, TypeOK, EveryBlobEvictable, ClearRemoves, schedule
  <2> QED  BY <1>1, <2>2, <2>4 DEF IInv
<1>6. CASE EvictCounts(c)
  <2>1. TypeOK' /\ EveryBlobEvictable'
    BY <1>2, <1>6 DEF IInv, TypeOK, EveryBlobEvictable, EvictCounts, EvictReturns, tables, schedule
  <2>2. CASE EvictReturns(c)
    <3>1. call' = [call EXCEPT ![c] = Done]
      BY <2>2 DEF EvictReturns
    <3>2. CallsOK' /\ call'[c] = Done /\ \A d \in Calls \ {c} : call'[d] = call[d]
      BY <3>1, OneMoves, Frames DEF IInv
    <3>3. EvictionKnown'
      BY <2>2, <3>2, Frames DEF IInv, EvictionKnown, EvictReturns
    <3> QED  BY <1>1, <2>1, <3>2, <3>3 DEF IInv
  <2>3. CASE ~EvictReturns(c)
    <3>1. PICK f : f = [call[c] EXCEPT !.pc = "listing", !.excess = Total(blobs) - MaxBytes]
      OBVIOUS
    <3>2. IsFrame(f) /\ f.pc = "listing" /\ f.kind = call[c].kind
      <4>1. PICK g : g = call[c]
        OBVIOUS
      <4>2. PICK x : x = Total(blobs) - MaxBytes
        OBVIOUS
      <4>3. IsFrame(g)
        BY <4>1, CallFacts
      <4>4. f = [g EXCEPT !.pc = "listing", !.excess = x]
        BY <3>1, <4>1, <4>2
      <4>5. IsFrame(f) /\ f.pc = "listing" /\ f.kind = g.kind
        BY <4>3, <4>4 DEF IsFrame
      <4> QED  BY <4>1, <4>5
    <3>3. call' = [call EXCEPT ![c] = f] /\ evicting' = evicting
      BY <1>6, <2>3, <3>1 DEF EvictCounts, schedule
    <3>4. CallsOK' /\ EvictionKnown'
      BY <3>2, <3>3, PlainMove DEF PutReady
    <3> QED  BY <1>1, <2>1, <3>4 DEF IInv
  <2> QED  BY <2>2, <2>3
<1>7. CASE TimerDone(c)
  <2>1. call' = [call EXCEPT ![c] = Done] /\ evicting' = evicting
    BY <1>7 DEF TimerDone, schedule
  <2>2. CallsOK' /\ EvictionKnown'
    BY <2>1, PlainMove, Frames
  <2>3. TypeOK' /\ EveryBlobEvictable'
    BY <1>2, <1>7 DEF IInv, TypeOK, EveryBlobEvictable, TimerDone, tables, schedule
  <2> QED  BY <1>1, <2>2, <2>3 DEF IInv
<1> QED  BY <1>3, <1>4, <1>5, <1>6, <1>7 DEF AfterFlush

-----------------------------------------------------------------------------
(* A call that has begun goes on.                                          *)
LEMMA FlushHolds ==
  ASSUME IInv, NEW c \in Calls, FlushBegins(c) \/ FlushAwaited(c) \/ FlushReturns(c)
  PROVE  IInv'
<1> USE NoneAssumption
<1>1. call[c].pc \in {"flush", "awaiting", "flushing"}
  BY DEF FlushBegins, FlushAwaited, FlushReturns
<1>2. timer \in BOOLEAN /\ flushing \in Nat \cup {None}
  BY DEF IInv, TypeOK
<1>3. CASE TakeBatch(c)
  <2> timer' \in BOOLEAN
    BY <1>2 DEF FlushBegins, FlushAwaited, FlushReturns
  <2> QED  BY <1>1, <1>3, BatchHolds
<1>4. CASE AfterFlush(c) /\ touched = Nothing /\ touched' = touched
           /\ timer' \in BOOLEAN /\ flushing' \in Nat \cup {None}
  BY <1>1, <1>4, WorkHolds
<1>5. CASE /\ call' = [call EXCEPT ![c].pc = "awaiting", ![c].awaits = flushing]
           /\ UNCHANGED <<tables, touched, flushing, schedule, now, used, added>>
           /\ timer' = FALSE
  <2>1. PICK f : f = [call[c] EXCEPT !.pc = "awaiting", !.awaits = flushing]
    OBVIOUS
  <2>2. /\ IsFrame(f) /\ f.pc = "awaiting" /\ f.kind = call[c].kind
        /\ f.hash = call[c].hash /\ f.at = call[c].at
    <3>1. PICK g : g = call[c]
      OBVIOUS
    <3>2. IsFrame(g)
      BY <3>1, CallFacts
    <3>3. f = [g EXCEPT !.pc = "awaiting", !.awaits = flushing]
      BY <2>1, <3>1
    <3>4. IsFrame(f) /\ f.pc = "awaiting" /\ f.kind = g.kind /\ f.hash = g.hash /\ f.at = g.at
      BY <3>2, <3>3 DEF IsFrame
    <3> QED  BY <3>1, <3>4
  <2>3. PutReady(f)
    BY <1>1, <2>2, CallFacts DEF PutReady
  <2>4. call' = [call EXCEPT ![c] = f] /\ evicting' = evicting
    BY <1>5, <2>1 DEF schedule
  <2>5. CallsOK' /\ EvictionKnown' /\ call'[c] = f
    <3>1. IsFrame(f) /\ PutReady(f) /\ (f.kind = "evict" => call[c].kind = "evict")
      BY <2>2, <2>3, Zenon
    <3> QED  BY <2>4, <3>1, PlainMove
  <2>6. TypeOK' /\ EveryBlobEvictable'
    BY <1>5 DEF IInv, TypeOK, EveryBlobEvictable, tables, schedule
  <2>7. TouchesNotStranded'
    BY <2>2, <2>5 DEF TouchesNotStranded
  <2> QED  BY <2>5, <2>6, <2>7 DEF IInv
<1>6. CASE FlushBegins(c)
  BY <1>2, <1>3, <1>4, <1>5, <1>6 DEF FlushBegins, FlushOrGoOn
<1>7. CASE FlushAwaited(c)
  BY <1>2, <1>3, <1>4, <1>7 DEF FlushAwaited
<1>8. CASE FlushReturns(c)
  <2> timer' \in BOOLEAN
    BY <1>2, <1>8 DEF FlushReturns
  <2> QED  BY <1>2, <1>3, <1>4, <1>8 DEF FlushReturns, FlushOrGoOn
<1> QED  BY <1>6, <1>7, <1>8

LEMMA PutReturnsHolds ==
  ASSUME IInv, NEW c \in Calls, PutReturns(c)
  PROVE  IInv'
<1> USE NoneAssumption, SizesAssumption
<1>1. writes' \in 0..(EvictEvery - 1)
  BY DEF PutReturns, CountWrite, IInv, TypeOK
<1>2. CASE call' = [call EXCEPT ![c] = Done] /\ evicting' = evicting
  <2>1. CallsOK' /\ EvictionKnown' /\ \A d \in Calls \ {c} : call'[d] = call[d]
    BY <1>2, PlainMove, Frames
  <2>2. TypeOK' /\ EveryBlobEvictable'
    BY <1>1, <1>2 DEF IInv, TypeOK, EveryBlobEvictable, PutReturns, tables, touches
  <2>3. TouchesNotStranded'
    BY <2>1, NoFlusherMoves DEF PutReturns, touches
  <2> QED  BY <2>1, <2>2, <2>3 DEF IInv
<1>3. ASSUME NEW d \in Calls, call[d].pc = "idle", evicting = None, evicting' = d,
             call' = [Evict(d) EXCEPT ![c] = Done]
      PROVE  IInv'
  <2>1. c # d
    BY <1>3 DEF PutReturns
  <2>2. PICK f : f = Starts("evict", None, now)
    OBVIOUS
  <2>3. IsFrame(f) /\ PutReady(f) /\ f.kind = "evict"
    BY <2>2, StartFrames
  <2>4. call = [e \in Calls |-> call[e]]
    BY DEF IInv, CallsOK
  <2>5. call' = [[call EXCEPT ![d] = f] EXCEPT ![c] = Done]
    BY <1>3, <2>2 DEF Evict
  <2>6. /\ call'[c] = Done /\ call'[d] = f
        /\ \A e \in Calls \ {c, d} : call'[e] = call[e]
        /\ call' = [e \in Calls |-> call'[e]]
    BY <2>1, <2>4, <2>5
  <2>7. CallsOK'
    BY <2>3, <2>6, Frames DEF IInv, CallsOK
  <2>8. \A e \in Calls : call[e].kind # "evict"
    BY <1>3 DEF IInv, EvictionKnown
  <2>9. EvictionKnown'
    BY <1>3, <2>6, <2>8, Frames DEF EvictionKnown
  <2>10. TypeOK' /\ EveryBlobEvictable'
    BY <1>1, <1>3 DEF IInv, TypeOK, EveryBlobEvictable, PutReturns, tables, touches
  <2>11. TouchesNotStranded'
    <3>1. touched' = touched /\ timer' = timer
      BY DEF PutReturns, touches
    <3>2. call[c].pc = "written"
      BY DEF PutReturns
    <3>3. \A e \in Calls : call[e].pc \in {"flush", "awaiting", "flushing"} => call'[e] = call[e]
      BY <1>3, <2>6, <3>2
    <3> QED  BY <3>1, <3>3 DEF IInv, TouchesNotStranded, Nothing
  <2> QED  BY <2>7, <2>9, <2>10, <2>11 DEF IInv
<1> QED  BY <1>2, <1>3 DEF PutReturns, StartEviction

LEMMA OthersHold ==
  ASSUME IInv, NEW c \in Calls,
         Touch(c) \/ DeleteRemoves(c) \/ EvictLists(c) \/ EvictReads(c) \/ EvictRemoves(c)
  PROVE  IInv'
<1> USE NoneAssumption
<1>1. CASE Touch(c)
  <2>1. call' = [call EXCEPT ![c] = Done] /\ evicting' = evicting
    BY <1>1 DEF Touch, schedule
  <2>2. CallsOK' /\ EvictionKnown'
    BY <2>1, PlainMove, Frames
  <2>3. TypeOK' /\ EveryBlobEvictable'
    <3>1. now \in Nat /\ now' = now + 1 /\ timer' = TRUE
      BY <1>1 DEF IInv, TypeOK, Touch, Uses
    <3>2. touched' \in [Hashes -> Nat \cup {None}]
      BY <1>1, <3>1 DEF IInv, TypeOK, Touch
    <3> QED  BY <1>1, <3>1, <3>2 DEF IInv, TypeOK, EveryBlobEvictable, Touch, tables, schedule
  <2>4. TouchesNotStranded'
    BY <1>1 DEF Touch, TouchesNotStranded
  <2> QED  BY <2>2, <2>3, <2>4 DEF IInv
<1>2. CASE DeleteRemoves(c)
  <2>1. call' = [call EXCEPT ![c] = Done] /\ evicting' = evicting
    BY <1>2 DEF DeleteRemoves, schedule
  <2>2. CallsOK' /\ EvictionKnown' /\ \A d \in Calls \ {c} : call'[d] = call[d]
    BY <2>1, PlainMove, Frames
  <2>3. TypeOK' /\ EveryBlobEvictable'
    BY <1>2 DEF IInv, TypeOK, EveryBlobEvictable, DeleteRemoves, RemoveRows, touches, schedule
  <2>4. TouchesNotStranded'
    BY <1>2, <2>2, NoFlusherMoves DEF DeleteRemoves, touches
  <2> QED  BY <2>2, <2>3, <2>4 DEF IInv
<1>3. CASE EvictLists(c)
  <2>1. PICK q \in OldestFirst({h \in Hashes : access[h] # None}) :
            call' = [call EXCEPT ![c].pc = "removing", ![c].queue = q]
    BY <1>3 DEF EvictLists
  <2>2. PICK f : f = [call[c] EXCEPT !.pc = "removing", !.queue = q]
    OBVIOUS
  <2>3. IsFrame(f) /\ f.pc = "removing" /\ f.kind = call[c].kind
    <3>1. PICK g : g = call[c]
      OBVIOUS
    <3>2. IsFrame(g)
      BY <3>1, CallFacts
    <3>3. f = [g EXCEPT !.pc = "removing", !.queue = q]
      BY <2>2, <3>1
    <3>4. IsFrame(f) /\ f.pc = "removing" /\ f.kind = g.kind
      BY <3>2, <3>3 DEF IsFrame
    <3> QED  BY <3>1, <3>4
  <2>4. call' = [call EXCEPT ![c] = f] /\ evicting' = evicting
    BY <1>3, <2>1, <2>2 DEF EvictLists, schedule
  <2>5. CallsOK' /\ EvictionKnown' /\ \A d \in Calls \ {c} : call'[d] = call[d]
    BY <2>3, <2>4, PlainMove DEF PutReady
  <2>6. TypeOK' /\ EveryBlobEvictable'
    BY <1>3 DEF IInv, TypeOK, EveryBlobEvictable, EvictLists, tables, touches, schedule
  <2>7. TouchesNotStranded'
    BY <1>3, <2>5, NoFlusherMoves DEF EvictLists, touches
  <2> QED  BY <2>5, <2>6, <2>7 DEF IInv
<1>4. CASE EvictReads(c)
  <2>1. TypeOK' /\ EveryBlobEvictable'
    BY <1>4 DEF IInv, TypeOK, EveryBlobEvictable, EvictReads, EvictReturns, tables, touches, schedule
  <2>2. call[c].pc = "removing" /\ touched' = touched /\ timer' = timer
    BY <1>4 DEF EvictReads, touches
  <2>3. CASE EvictReturns(c)
    <3>1. call' = [call EXCEPT ![c] = Done]
      BY <2>3 DEF EvictReturns
    <3>2. CallsOK' /\ call'[c] = Done /\ \A d \in Calls \ {c} : call'[d] = call[d]
      BY <3>1, OneMoves, Frames DEF IInv
    <3>3. EvictionKnown'
      BY <2>3, <3>2, Frames DEF IInv, EvictionKnown, EvictReturns
    <3>4. TouchesNotStranded'
      BY <2>2, <3>2, NoFlusherMoves
    <3> QED  BY <2>1, <3>2, <3>3, <3>4 DEF IInv
  <2>4. CASE ~EvictReturns(c)
    <3>1. PICK h : h = Head(call[c].queue)
      OBVIOUS
    <3>2. PICK n : n = IF h \in blobs THEN call[c].removed + SizeOf[h] ELSE call[c].removed
      OBVIOUS
    <3>3. PICK t : t = Tail(call[c].queue)
      OBVIOUS
    <3>4. PICK f : f = [call[c] EXCEPT !.pc = "evicting", !.hash = h, !.queue = t, !.removed = n]
      OBVIOUS
    <3>5. IsFrame(f) /\ f.pc = "evicting" /\ f.kind = call[c].kind
      <4>1. PICK g : g = call[c]
        OBVIOUS
      <4>2. IsFrame(g)
        BY <4>1, CallFacts
      <4>3. f = [g EXCEPT !.pc = "evicting", !.hash = h, !.queue = t, !.removed = n]
        BY <3>4, <4>1
      <4>4. IsFrame(f) /\ f.pc = "evicting" /\ f.kind = g.kind
        BY <4>2, <4>3 DEF IsFrame
      <4> QED  BY <4>1, <4>4
    <3>6. call' = [call EXCEPT ![c] = f] /\ evicting' = evicting
      BY <1>4, <2>4, <3>1, <3>2, <3>3, <3>4 DEF EvictReads, schedule
    <3>7. CallsOK' /\ EvictionKnown' /\ \A d \in Calls \ {c} : call'[d] = call[d]
      BY <3>5, <3>6, PlainMove DEF PutReady
    <3>8. TouchesNotStranded'
      BY <2>2, <3>7, NoFlusherMoves
    <3> QED  BY <2>1, <3>7, <3>8 DEF IInv
  <2> QED  BY <2>3, <2>4
<1>5. CASE EvictRemoves(c)
  <2>1. PICK f : f = [call[c] EXCEPT !.pc = "removing"]
    OBVIOUS
  <2>2. IsFrame(f) /\ PutReady(f) /\ f.kind = call[c].kind
    BY <2>1, CallFacts, PcMoves DEF PutReady
  <2>3. call' = [call EXCEPT ![c] = f] /\ evicting' = evicting
    BY <1>5, <2>1 DEF EvictRemoves, Goes, schedule
  <2>4. CallsOK' /\ EvictionKnown' /\ \A d \in Calls \ {c} : call'[d] = call[d]
    BY <2>2, <2>3, PlainMove
  <2>5. TypeOK' /\ EveryBlobEvictable'
    BY <1>5 DEF IInv, TypeOK, EveryBlobEvictable, EvictRemoves, RemoveRows, touches, schedule
  <2>6. TouchesNotStranded'
    BY <1>5, <2>4, NoFlusherMoves DEF EvictRemoves, touches
  <2> QED  BY <2>4, <2>5, <2>6 DEF IInv
<1> QED  BY <1>1, <1>2, <1>3, <1>4, <1>5

LEMMA RestartHolds ==
  ASSUME IInv, Restart
  PROVE  IInv'
<1> USE NoneAssumption, SizesAssumption
<1>1. \A c \in Calls : call'[c] = IF call[c].pc = "idle" THEN Idle ELSE Done
  BY DEF Restart
<1>2. CallsOK'
  BY <1>1, Frames DEF Restart, IInv, CallsOK
<1>3. touched' \in [Hashes -> Nat \cup {None}]
  BY DEF Restart, Nothing
<1>4. TypeOK'
  <2>1. writes' \in 0..(EvictEvery - 1)
    BY DEF Restart
  <2>2. evicting' \in Calls \cup {None} /\ flushing' \in Nat \cup {None} /\ timer' \in BOOLEAN
    BY DEF Restart
  <2>3. /\ blobs' \subseteq Hashes /\ access' \in [Hashes -> Nat \cup {None}]
        /\ now' \in Nat /\ added' \in Nat
    BY DEF IInv, TypeOK, Restart, tables
  <2> QED  BY <1>3, <2>1, <2>2, <2>3 DEF TypeOK
<1>5. TouchesNotStranded'
  BY DEF TouchesNotStranded, Restart, Nothing
<1>6. EvictionKnown'
  BY <1>1, Frames DEF EvictionKnown
<1>7. EveryBlobEvictable'
  BY DEF IInv, EveryBlobEvictable, Restart, tables
<1> QED  BY <1>2, <1>4, <1>5, <1>6, <1>7 DEF IInv

-----------------------------------------------------------------------------
LEMMA NextHolds == IInv /\ [Next]_vars => IInv'
<1> SUFFICES ASSUME IInv, [Next]_vars PROVE IInv'
  OBVIOUS
<1>1. ASSUME NEW c \in Calls, CallBegins(c) PROVE IInv'
  BY <1>1, BeginsHolds
<1>2. ASSUME NEW c \in Calls, CallContinues(c) PROVE IInv'
  BY <1>2, FlushHolds, PutReturnsHolds, OthersHold DEF CallContinues
<1>3. CASE Restart
  BY <1>3, RestartHolds
<1>4. CASE UNCHANGED vars
  BY <1>4 DEF vars, IInv, TypeOK, CallsOK, EveryBlobEvictable, TouchesNotStranded, EvictionKnown, Nothing
<1> QED  BY <1>1, <1>2, <1>3, <1>4 DEF Next

LEMMA InvariantHolds == Spec => []IInv
<1>1. Init => IInv
  BY InitHolds
<1>2. IInv /\ [Next]_vars => IInv'
  BY NextHolds
<1> QED  BY <1>1, <1>2, PTL DEF Spec

(* The tables, the touches, the schedule and the clock keep their types.   *)
THEOREM TypeCorrect == Spec => []TypeOK
<1>1. IInv => TypeOK
  BY DEF IInv
<1> QED  BY <1>1, InvariantHolds, PTL

(* Whatever calls overlap and wherever the page stops, a blob in the store *)
(* has a row by which an eviction finds it.                                *)
THEOREM BlobsEvictable == Spec => []EveryBlobEvictable
<1>1. IInv => EveryBlobEvictable
  BY DEF IInv
<1> QED  BY <1>1, InvariantHolds, PTL

(* A noted use always has a timer or a flushing call to take it.           *)
THEOREM TouchesKept == Spec => []TouchesNotStranded
<1>1. IInv => TouchesNotStranded
  BY DEF IInv
<1> QED  BY <1>1, InvariantHolds, PTL

(* However many writes return while an eviction runs, no other is started. *)
THEOREM EvictionAlone == Spec => []OneEviction
<1>1. ASSUME EvictionKnown PROVE OneEviction
  <2> DEFINE E == {c \in Calls : call[c].kind = "evict"}
  <2>1. E \subseteq {evicting}
    BY <1>1 DEF EvictionKnown
  <2>2. IsFiniteSet({evicting}) /\ Cardinality({evicting}) = 1
    BY FS_Singleton
  <2>3. IsFiniteSet(E) /\ Cardinality(E) <= Cardinality({evicting})
    BY <2>1, <2>2, FS_Subset
  <2> QED  BY <2>2, <2>3 DEF OneEviction
<1>2. IInv => OneEviction
  BY <1>1 DEF IInv
<1> QED  BY <1>2, InvariantHolds, PTL

(* Together: what the run checks of the store in every state.              *)
THEOREM StoreIsSound == Spec => []StoreSound
<1>1. TypeOK /\ EveryBlobEvictable /\ TouchesNotStranded /\ OneEviction => StoreSound
  BY DEF StoreSound
<1> QED  BY <1>1, TypeCorrect, BlobsEvictable, TouchesKept, EvictionAlone, PTL
-----------------------------------------------------------------------------
(* The order of evictions.  What the tables and the noted uses know of the *)
(* last use of a blob lies in the time which that use took.                *)
UsesOK ==
  /\ used \in [Hashes -> [from : Nat, to : Nat]]
  /\ \A h \in Hashes :
       /\ used[h].to <= now
       /\ access[h] # None => access[h] <= used[h].to
       /\ touched[h] # None => used[h].from <= touched[h] /\ touched[h] <= used[h].to
       /\ access[h] # None /\ touched[h] = None => used[h].from <= access[h]

(* A call was made before now, and an eviction knows when.                 *)
Timed(f) ==
  /\ f.at # None => f.at \in Nat /\ f.at <= now
  /\ f.kind = "evict" \/ f.pc \in {"listing", "removing", "evicting"} => f.at # None

(* The last use of a stored blob was over before an eviction began, and an *)
(* eviction may take one such blob before another.                         *)
Over(h, t) == h \in blobs /\ used[h].to < t
MayPrecede(h, g, t) == Over(h, t) /\ Over(g, t) => used[h].from <= used[g].to

(* After its flush, an eviction misses no use but those made meanwhile.    *)
ListsAll(f) ==
  f.pc = "listing" => \A h \in Hashes : touched[h] # None => f.at <= used[h].to

(* The queue holds what was last used before the eviction, but for what it *)
(* removed and is about to remove, in an order in which it may go.         *)
Queued(f, g) == \E i \in 1..Len(f.queue) : f.queue[i] = g

QueueInOrder(f) ==
  f.pc \in {"removing", "evicting"} =>
    /\ f.queue \in Seq(Hashes)
    /\ \A i, j \in 1..Len(f.queue) : i < j => MayPrecede(f.queue[i], f.queue[j], f.at)
    /\ \A g \in Hashes : Over(g, f.at) => Queued(f, g) \/ (f.pc = "evicting" /\ g = f.hash)
    /\ f.pc = "evicting" =>
         f.hash \in Hashes /\ \A i \in 1..Len(f.queue) : MayPrecede(f.hash, f.queue[i], f.at)

FrameOK(f) ==
  Timed(f) /\ ListsAll(f) /\ QueueInOrder(f) /\ (f.pc = "hit" => f.hash \in Hashes)

OrderInv == UsesOK /\ \A c \in Calls : FrameOK(call[c])

-----------------------------------------------------------------------------
(* A step keeps frames in order if blobs that stay keep the end of their   *)
(* last use and do not begin it later, unless they are used in the step.   *)
Keeps ==
  /\ now' \in Nat /\ now <= now'
  /\ \A h \in Hashes : used'[h].from \in Nat /\ used'[h].to \in Nat
  /\ \A h \in Hashes : h \in blobs' =>
       \/ now <= used'[h].to
       \/ h \in blobs /\ used'[h].to = used[h].to /\ used'[h].from <= used[h].from
  /\ \A h \in Hashes : touched'[h] # None =>
       \/ now <= used'[h].to
       \/ touched[h] # None /\ used'[h].to = used[h].to

LEMMA StaysOver ==
  ASSUME Keeps, OrderInv, TypeOK, NEW h \in Hashes, NEW t \in Nat, t <= now, Over(h, t)'
  PROVE  Over(h, t) /\ used'[h].to = used[h].to /\ used'[h].from <= used[h].from
<1>1. now \in Nat /\ used'[h].to \in Nat
  BY DEF Keeps, TypeOK
<1>2. h \in blobs' /\ used'[h].to < t
  BY DEF Over
<1>3. ~(now <= used'[h].to)
  BY <1>1, <1>2
<1> QED  BY <1>2, <1>3 DEF Keeps, Over

LEMMA StaysOrdered ==
  ASSUME Keeps, OrderInv, TypeOK, NEW h \in Hashes, NEW g \in Hashes, NEW t \in Nat, t <= now,
         MayPrecede(h, g, t)
  PROVE  MayPrecede(h, g, t)'
<1> SUFFICES ASSUME Over(h, t)', Over(g, t)' PROVE used'[h].from <= used'[g].to
  BY DEF MayPrecede
<1>1. Over(h, t) /\ used'[h].from <= used[h].from
  BY StaysOver
<1>2. Over(g, t) /\ used'[g].to = used[g].to
  BY StaysOver
<1>3. used[h].from <= used[g].to
  BY <1>1, <1>2 DEF MayPrecede
<1>4. used[h].from \in Nat /\ used[g].to \in Nat /\ used'[h].from \in Nat
  BY DEF Keeps, OrderInv, UsesOK
<1> QED  BY <1>1, <1>2, <1>3, <1>4

(* The frame of a call that does not move.                                 *)
LEMMA FrameStays ==
  ASSUME Keeps, OrderInv, TypeOK, NEW f, FrameOK(f)
  PROVE  FrameOK(f)'
<1> USE NoneAssumption
<1>1. now \in Nat /\ now' \in Nat /\ now <= now'
  BY DEF Keeps, TypeOK
<1>2. f.at # None => f.at \in Nat /\ f.at <= now
  BY DEF FrameOK, Timed
<1>3. f.pc \in {"listing", "removing", "evicting"} => f.at # None
  BY DEF FrameOK, Timed
<1>4. Timed(f)'
  BY <1>1 DEF FrameOK, Timed
<1>5. ListsAll(f)'
  <2> SUFFICES ASSUME f.pc = "listing", NEW h \in Hashes, touched'[h] # None
               PROVE  f.at <= used'[h].to
    BY DEF ListsAll
  <2>1. f.at \in Nat /\ f.at <= now /\ used'[h].to \in Nat
    BY <1>2, <1>3 DEF Keeps
  <2>2. CASE now <= used'[h].to
    BY <1>1, <2>1, <2>2
  <2>3. CASE touched[h] # None /\ used'[h].to = used[h].to
    BY <2>3 DEF FrameOK, ListsAll
  <2> QED  BY <2>2, <2>3 DEF Keeps
<1>6. QueueInOrder(f)'
  <2> SUFFICES ASSUME f.pc \in {"removing", "evicting"} PROVE QueueInOrder(f)'
    BY DEF QueueInOrder
  <2>1. f.at \in Nat /\ f.at <= now
    BY <1>2, <1>3
  <2>2. /\ f.queue \in Seq(Hashes)
        /\ \A i, j \in 1..Len(f.queue) : i < j => MayPrecede(f.queue[i], f.queue[j], f.at)
        /\ \A g \in Hashes : Over(g, f.at) => Queued(f, g) \/ (f.pc = "evicting" /\ g = f.hash)
        /\ f.pc = "evicting" =>
             f.hash \in Hashes /\ \A i \in 1..Len(f.queue) : MayPrecede(f.hash, f.queue[i], f.at)
    BY DEF FrameOK, QueueInOrder
  <2>3. \A i \in 1..Len(f.queue) : f.queue[i] \in Hashes
    BY <2>2, ElementOfSeq
  <2>4. \A i, j \in 1..Len(f.queue) : i < j => MayPrecede(f.queue[i], f.queue[j], f.at)'
    BY <2>1, <2>2, <2>3, StaysOrdered
  <2>5. \A g \in Hashes : Over(g, f.at)' => Queued(f, g) \/ (f.pc = "evicting" /\ g = f.hash)
    BY <2>1, <2>2, StaysOver
  <2>6. f.pc = "evicting" => \A i \in 1..Len(f.queue) : MayPrecede(f.hash, f.queue[i], f.at)'
    BY <2>1, <2>2, <2>3, StaysOrdered
  <2> QED  BY <2>2, <2>4, <2>5, <2>6 DEF QueueInOrder, Queued
<1>7. f.pc = "hit" => f.hash \in Hashes
  BY DEF FrameOK
<1> QED  BY <1>4, <1>5, <1>6, <1>7 DEF FrameOK

(* A frame outside an eviction's work needs its time only.                 *)
LEMMA PlainFrame ==
  ASSUME NEW f, Timed(f), f.pc \notin {"listing", "removing", "evicting", "hit"}
  PROVE  FrameOK(f)
BY DEF FrameOK, ListsAll, QueueInOrder

LEMMA IdleFrames == FrameOK(Idle) /\ FrameOK(Done)
<1>1. Idle.at = None /\ Done.at = None
  BY DEF Idle, Done
<1>2. Timed(Idle) /\ Timed(Done)
  BY <1>1, Frames DEF Timed
<1> QED  BY <1>2, PlainFrame, Frames

(* One call moves and the step keeps the frames of the others.             *)
LEMMA OneFrameMoves ==
  ASSUME IInv, OrderInv, Keeps, UsesOK', NEW c \in Calls, NEW f, FrameOK(f)',
         call' = [call EXCEPT ![c] = f]
  PROVE  OrderInv'
<1>1. call'[c] = f /\ \A d \in Calls \ {c} : call'[d] = call[d]
  BY DEF IInv, CallsOK
<1>2. ASSUME NEW d \in Calls PROVE FrameOK(call[d])'
  <2>1. CASE d = c
    BY <1>1, <2>1 DEF FrameOK, Timed, ListsAll, QueueInOrder, Queued
  <2>2. CASE d # c
    <3>1. PICK g : g = call[d]
      OBVIOUS
    <3>2. FrameOK(g)
      BY <3>1 DEF OrderInv
    <3>3. FrameOK(g)'
      BY <3>2, FrameStays DEF IInv
    <3>4. call'[d] = g
      BY <1>1, <2>2, <3>1
    <3> QED  BY <3>3, <3>4 DEF FrameOK, Timed, ListsAll, QueueInOrder, Queued
  <2> QED  BY <2>1, <2>2
<1> QED  BY <1>2 DEF OrderInv

(* A step that leaves tables, noted uses and their history alone.          *)
Quiet ==
  /\ UNCHANGED <<blobs, access, touched, used>>
  /\ now' \in Nat /\ now <= now'

LEMMA QuietKeeps ==
  ASSUME IInv, OrderInv, Quiet
  PROVE  Keeps /\ UsesOK'
<1>1. \A h \in Hashes : used[h].from \in Nat /\ used[h].to \in Nat /\ used[h].to <= now
  BY DEF OrderInv, UsesOK
<1>2. now \in Nat
  BY DEF IInv, TypeOK
<1>3. Keeps
  BY <1>1 DEF Quiet, Keeps
<1>4. \A h \in Hashes : used[h].to <= now'
  BY <1>1, <1>2 DEF Quiet
<1>5. UsesOK'
  BY <1>4 DEF Quiet, OrderInv, UsesOK
<1> QED  BY <1>3, <1>5

(* What a call's frame becomes outside an eviction's work.                 *)
LEMMA PlainMoves ==
  ASSUME NEW f, f.at # None => f.at \in Nat /\ f.at <= now', f.kind = "evict" => f.at # None,
         f.pc \notin {"listing", "removing", "evicting"}, f.pc = "hit" => f.hash \in Hashes
  PROVE  FrameOK(f)'
BY DEF FrameOK, Timed, ListsAll, QueueInOrder

LEMMA DoneMoves == FrameOK(Idle)' /\ FrameOK(Done)'
<1>1. Idle.at = None /\ Done.at = None
  BY DEF Idle, Done
<1> QED  BY <1>1, PlainMoves, Frames

LEMMA TimeFacts ==
  ASSUME OrderInv, NEW c \in Calls
  PROVE  /\ call[c].pc = "hit" => call[c].hash \in Hashes
         /\ call[c].at # None => call[c].at \in Nat /\ call[c].at <= now
         /\ call[c].kind = "evict" => call[c].at # None
         /\ call[c].pc \in {"listing", "removing", "evicting"} => call[c].at # None
BY DEF OrderInv, FrameOK, Timed

(* A call that goes to another place outside an eviction's work.           *)
LEMMA PcFrame ==
  ASSUME IInv, OrderInv, Keeps, NEW c \in Calls, NEW p,
         p \notin {"listing", "removing", "evicting", "hit"},
         NEW f, f = [call[c] EXCEPT !.pc = p]
  PROVE  FrameOK(f)'
<1>1. PICK g : g = call[c]
  OBVIOUS
<1>2. IsFrame(g)
  BY <1>1, CallFacts
<1>3. f = [g EXCEPT !.pc = p]
  BY <1>1
<1>4. f.pc = p /\ f.kind = g.kind /\ f.at = g.at
  BY <1>2, <1>3 DEF IsFrame
<1>5. now \in Nat /\ now' \in Nat /\ now <= now'
  BY DEF IInv, TypeOK, Keeps
<1>6. g.at # None => g.at \in Nat /\ g.at <= now'
  BY <1>1, <1>5, TimeFacts
<1>7. g.kind = "evict" => g.at # None
  BY <1>1, TimeFacts
<1> QED  BY <1>4, <1>6, <1>7, PlainMoves

-----------------------------------------------------------------------------
LEMMA InitOrdered == Init => OrderInv
<1> SUFFICES ASSUME Init PROVE OrderInv
  OBVIOUS
<1>1. UsesOK
  BY DEF Init, UsesOK, Nothing
<1>2. call = [c \in Calls |-> Idle]
  BY DEF Init
<1>3. \A c \in Calls : call[c] = Idle
  BY <1>2
<1> QED  BY <1>1, <1>3, IdleFrames DEF OrderInv

(* The frame of a call that begins.                                        *)
Begins(f, t) ==
  /\ f.at \in {None, t} /\ (f.kind = "evict" => f.at # None)
  /\ f.pc \notin {"listing", "removing", "evicting"} /\ (f.pc = "hit" => f.hash \in Hashes)

LEMMA StartBegins ==
  ASSUME NEW kind, NEW h, NEW t \in Nat, NEW s \in {None, t}, kind = "evict" => s = t
  PROVE  Begins(Starts(kind, h, s), t)
<1>1. PICK f : f = Starts(kind, h, s)
  OBVIOUS
<1>2. f.at = s /\ f.kind = kind /\ f.pc = "flush"
  BY <1>1 DEF Starts, Idle
<1>3. Begins(f, t)
  BY <1>2, NoneAssumption DEF Begins
<1> QED  BY <1>1, <1>3

LEMMA GetBegins ==
  ASSUME NEW h \in Hashes, NEW t \in Nat
  PROVE  Begins(Done, t) /\ Begins([Idle EXCEPT !.pc = "hit", !.kind = "get", !.hash = h], t)
BY DEF Begins, Done, Idle

LEMMA BeginMoves ==
  ASSUME IInv, OrderInv, NEW c \in Calls, NEW f, Begins(f, now), Quiet,
         call' = [call EXCEPT ![c] = f]
  PROVE  OrderInv'
<1>1. now \in Nat /\ now <= now'
  BY DEF Quiet, IInv, TypeOK
<1>2. f.at # None => f.at \in Nat /\ f.at <= now'
  BY <1>1 DEF Begins
<1>3. FrameOK(f)'
  BY <1>2, PlainMoves DEF Begins
<1> QED  BY <1>3, QuietKeeps, OneFrameMoves

LEMMA BeginsOrdered ==
  ASSUME IInv, OrderInv, NEW c \in Calls, CallBegins(c)
  PROVE  OrderInv'
<1>1. now \in Nat
  BY DEF IInv, TypeOK
<1>2. ASSUME NEW h \in Hashes, Get(c, h) PROVE OrderInv'
  <2>1. PICK f : f = IF h \in blobs
                       THEN [Idle EXCEPT !.pc = "hit", !.kind = "get", !.hash = h] ELSE Done
    OBVIOUS
  <2>2. Begins(f, now)
    BY <1>1, <2>1, GetBegins
  <2>3. call' = [call EXCEPT ![c] = f] /\ Quiet
    BY <1>1, <1>2, <2>1 DEF Get, Quiet, tables, touches
  <2> QED  BY <2>2, <2>3, BeginMoves
<1>3. ASSUME NEW h \in Hashes, Put(c, h) PROVE OrderInv'
  <2>1. PICK f : f = Starts("put", h, now)
    OBVIOUS
  <2>2. call' = [call EXCEPT ![c] = f] /\ Quiet
    BY <1>1, <2>1, <1>3 DEF Put, Quiet, tables, touches
  <2>3. Begins(f, now)
    BY <1>1, <2>1, StartBegins
  <2> QED  BY <2>2, <2>3, BeginMoves
<1>4. ASSUME NEW h \in Hashes, Delete(c, h) PROVE OrderInv'
  <2>1. PICK f : f = Starts("delete", h, None)
    OBVIOUS
  <2>2. call' = [call EXCEPT ![c] = f] /\ Quiet
    BY <1>1, <2>1, <1>4 DEF Delete, Quiet, tables, touches
  <2>3. Begins(f, now)
    BY <1>1, <2>1, StartBegins
  <2> QED  BY <2>2, <2>3, BeginMoves
<1>5. CASE Clear(c)
  <2>1. PICK f : f = Starts("clear", None, None)
    OBVIOUS
  <2>2. call' = [call EXCEPT ![c] = f] /\ Quiet
    BY <1>1, <2>1, <1>5 DEF Clear, Quiet, tables, touches
  <2>3. Begins(f, now)
    BY <1>1, <2>1, StartBegins
  <2> QED  BY <2>2, <2>3, BeginMoves
<1>6. CASE FlushTimer(c)
  <2>1. PICK f : f = Starts("timer", None, None)
    OBVIOUS
  <2>2. call' = [call EXCEPT ![c] = f] /\ Quiet
    BY <1>1, <2>1, <1>6 DEF FlushTimer, Quiet, tables
  <2>3. Begins(f, now)
    BY <1>1, <2>1, StartBegins
  <2> QED  BY <2>2, <2>3, BeginMoves
<1> QED  BY <1>2, <1>3, <1>4, <1>5, <1>6 DEF CallBegins

-----------------------------------------------------------------------------
(* Noted uses reach the table with the times they were noted.              *)
LEMMA BatchOrdered ==
  ASSUME IInv, OrderInv, NEW c \in Calls, TakeBatch(c)
  PROVE  OrderInv'
<1>1. PICK f : f = [call[c] EXCEPT !.pc = "flushing"]
  OBVIOUS
<1>2. call' = [call EXCEPT ![c] = f]
  BY <1>1 DEF TakeBatch, Goes
<1>3. /\ blobs' = blobs /\ used' = used /\ now' = now /\ touched' = Nothing
      /\ \A h \in Hashes : access'[h] = IF touched[h] # None THEN touched[h] ELSE access[h]
      /\ \A h \in Hashes : touched'[h] = None
  BY DEF TakeBatch, Nothing
<1>4. now \in Nat /\ used \in [Hashes -> [from : Nat, to : Nat]]
  BY DEF IInv, TypeOK, OrderInv, UsesOK
<1>5. Keeps
  BY <1>3, <1>4 DEF Keeps
<1>6. UsesOK'
  BY <1>3, <1>4 DEF OrderInv, UsesOK
<1>7. FrameOK(f)'
  BY <1>1, <1>5, PcFrame
<1> QED  BY <1>2, <1>5, <1>6, <1>7, OneFrameMoves

(* A blob that is used now was used last in this use.                      *)
LEMMA UseKeeps ==
  ASSUME IInv, OrderInv, NEW x \in Hashes, NEW s \in Nat, s <= now, Uses(x, s),
         blobs' \subseteq blobs \cup {x},
         \A h \in Hashes : touched'[h] # None => h = x \/ touched[h] # None
  PROVE  Keeps
<1>1. now \in Nat /\ used \in [Hashes -> [from : Nat, to : Nat]] /\ now' = now + 1
  BY DEF IInv, TypeOK, OrderInv, UsesOK, Uses
<1>2. used'[x] = [from |-> s, to |-> now] /\ \A h \in Hashes \ {x} : used'[h] = used[h]
  BY <1>1 DEF Uses
<1>3. used'[x].from = s /\ used'[x].to = now
  BY <1>2
<1>4. \A h \in Hashes : used'[h].from \in Nat /\ used'[h].to \in Nat
  BY <1>1, <1>2, <1>3
<1> QED  BY <1>1, <1>2, <1>3, <1>4 DEF Keeps

LEMMA PutOrdered ==
  ASSUME IInv, OrderInv, NEW c \in Calls, PutWrites(c), touched = Nothing, touched' = touched,
         call[c].pc \in {"flush", "awaiting", "flushing"}
  PROVE  OrderInv'
<1> USE NoneAssumption
<1>1. PICK x : x = call[c].hash
  OBVIOUS
<1>2. PICK s : s = call[c].at
  OBVIOUS
<1>3. x \in Hashes /\ s \in Nat /\ s <= now
  BY <1>1, <1>2, CallFacts, TimeFacts DEF PutWrites, PutReady
<1>4. /\ blobs' = blobs \cup {x} /\ access' = [access EXCEPT ![x] = s] /\ Uses(x, s)
  BY <1>1, <1>2 DEF PutWrites
<1>5. \A h \in Hashes : touched'[h] = None
  BY DEF Nothing
<1>6. Keeps
  BY <1>3, <1>4, <1>5, UseKeeps
<1>7. UsesOK'
  <2>1. now \in Nat /\ used \in [Hashes -> [from : Nat, to : Nat]] /\ now' = now + 1
        /\ access \in [Hashes -> Nat \cup {None}]
    BY <1>4 DEF IInv, TypeOK, OrderInv, UsesOK, Uses
  <2>2. used' = [used EXCEPT ![x] = [from |-> s, to |-> now]]
    BY <1>4 DEF Uses
  <2>3. used' \in [Hashes -> [from : Nat, to : Nat]]
    BY <1>3, <2>1, <2>2
  <2>4. used'[x].from = s /\ used'[x].to = now /\ access'[x] = s
    BY <1>3, <1>4, <2>1, <2>2
  <2>5. \A h \in Hashes \ {x} : used'[h] = used[h] /\ access'[h] = access[h]
    BY <1>4, <2>1, <2>2
  <2>6. \A h \in Hashes \ {x} :
          /\ used[h].to <= now /\ used[h].to \in Nat
          /\ access[h] # None => access[h] <= used[h].to /\ used[h].from <= access[h]
    BY <1>5, <2>1 DEF OrderInv, UsesOK
  <2>7. \A h \in Hashes \ {x} : used[h].to <= now + 1
    BY <2>1, <2>6
  <2> QED  BY <1>3, <1>5, <2>1, <2>3, <2>4, <2>5, <2>6, <2>7 DEF UsesOK
<1>8. PICK f : f = [call[c] EXCEPT !.pc = "written"]
  OBVIOUS
<1>9. FrameOK(f)'
  BY <1>6, <1>8, PcFrame
<1>10. call' = [call EXCEPT ![c] = f]
  BY <1>8 DEF PutWrites, Goes
<1> QED  BY <1>6, <1>7, <1>9, <1>10, OneFrameMoves

LEMMA TouchOrdered ==
  ASSUME IInv, OrderInv, NEW c \in Calls, Touch(c)
  PROVE  OrderInv'
<1> USE NoneAssumption
<1>1. PICK x : x = call[c].hash
  OBVIOUS
<1>2. x \in Hashes
  BY <1>1, TimeFacts DEF Touch
<1>3. now \in Nat /\ used \in [Hashes -> [from : Nat, to : Nat]]
      /\ touched \in [Hashes -> Nat \cup {None}] /\ access \in [Hashes -> Nat \cup {None}]
  BY DEF IInv, TypeOK, OrderInv, UsesOK
<1>4. /\ blobs' = blobs /\ access' = access /\ touched' = [touched EXCEPT ![x] = now]
      /\ Uses(x, now) /\ call' = [call EXCEPT ![c] = Done]
  BY <1>1 DEF Touch, tables
<1>5. touched'[x] = now /\ \A h \in Hashes \ {x} : touched'[h] = touched[h]
  BY <1>2, <1>3, <1>4
<1>6. Keeps
  BY <1>2, <1>3, <1>4, <1>5, UseKeeps
<1>7. UsesOK'
  <2>1. used' = [used EXCEPT ![x] = [from |-> now, to |-> now]] /\ now' = now + 1
    BY <1>4 DEF Uses
  <2>2. used' \in [Hashes -> [from : Nat, to : Nat]]
    BY <1>3, <2>1
  <2>3. used'[x].from = now /\ used'[x].to = now
    BY <1>2, <1>3, <2>1
  <2>4. \A h \in Hashes \ {x} : used'[h] = used[h]
    BY <1>3, <2>1
  <2>5. \A h \in Hashes : used[h].to <= now /\ used[h].to \in Nat
    BY <1>3 DEF OrderInv, UsesOK
  <2>6. \A h \in Hashes : access[h] # None => access[h] <= now
    BY <1>3, <2>5 DEF OrderInv, UsesOK
  <2>7. \A h \in Hashes : used'[h].to <= now'
    BY <1>3, <2>1, <2>3, <2>4, <2>5
  <2>8. \A h \in Hashes \ {x} :
           /\ access[h] # None => access[h] <= used[h].to
           /\ touched[h] # None => used[h].from <= touched[h] /\ touched[h] <= used[h].to
           /\ access[h] # None /\ touched[h] = None => used[h].from <= access[h]
    BY DEF OrderInv, UsesOK
  <2>9. /\ access'[x] # None => access'[x] <= used'[x].to
        /\ used'[x].from <= touched'[x] /\ touched'[x] <= used'[x].to /\ touched'[x] # None
    BY <1>2, <1>3, <1>4, <1>5, <2>3, <2>6
  <2>10. \A h \in Hashes \ {x} :
           /\ access'[h] # None => access'[h] <= used'[h].to
           /\ touched'[h] # None => used'[h].from <= touched'[h] /\ touched'[h] <= used'[h].to
           /\ access'[h] # None /\ touched'[h] = None => used'[h].from <= access'[h]
    BY <1>4, <1>5, <2>4, <2>8
  <2> QED  BY <2>2, <2>7, <2>9, <2>10 DEF UsesOK
<1> QED  BY <1>4, <1>6, <1>7, DoneMoves, OneFrameMoves

(* The rest of what follows a flush, and the calls that end a write.       *)
LEMMA QuietMoves ==
  ASSUME IInv, OrderInv, NEW c \in Calls, Quiet, NEW p,
         p \notin {"listing", "removing", "evicting", "hit"},
         call' = [call EXCEPT ![c] = Done] \/ Goes(c, p)
  PROVE  OrderInv'
<1>1. PICK f : f = [call[c] EXCEPT !.pc = p]
  OBVIOUS
<1>2. Keeps /\ UsesOK'
  BY QuietKeeps
<1>3. FrameOK(f)'
  BY <1>1, <1>2, PcFrame
<1>4. CASE Goes(c, p)
  <2> call' = [call EXCEPT ![c] = f]
    BY <1>1, <1>4 DEF Goes
  <2> QED  BY <1>2, <1>3, OneFrameMoves
<1>5. CASE call' = [call EXCEPT ![c] = Done]
  BY <1>2, <1>5, DoneMoves, OneFrameMoves
<1> QED  BY <1>4, <1>5

LEMMA CountOrdered ==
  ASSUME IInv, OrderInv, NEW c \in Calls, EvictCounts(c), touched = Nothing, touched' = touched
  PROVE  OrderInv'
<1> USE NoneAssumption
<1>1. Quiet
  BY DEF EvictCounts, tables, Quiet, IInv, TypeOK
<1>2. Keeps /\ UsesOK'
  BY <1>1, QuietKeeps
<1>3. CASE call' = [call EXCEPT ![c] = Done]
  BY <1>2, <1>3, DoneMoves, OneFrameMoves
<1>4. CASE call' = [call EXCEPT ![c].pc = "listing", ![c].excess = Total(blobs) - MaxBytes]
  <2>1. PICK g : g = call[c]
    OBVIOUS
  <2>2. PICK x : x = Total(blobs) - MaxBytes
    OBVIOUS
  <2>3. PICK f : f = [g EXCEPT !.pc = "listing", !.excess = x]
    OBVIOUS
  <2>4. call' = [call EXCEPT ![c] = f]
    BY <1>4, <2>1, <2>2, <2>3
  <2>5. IsFrame(g)
    BY <2>1, CallFacts
  <2>6. f.pc = "listing" /\ f.kind = g.kind /\ f.at = g.at
    BY <2>3, <2>5 DEF IsFrame
  <2>7. g.kind = "evict"
    BY <2>1 DEF EvictCounts
  <2>8. f.at \in Nat /\ f.at <= now'
    BY <1>1, <2>1, <2>6, <2>7, TimeFacts DEF Quiet, IInv, TypeOK
  <2>9. FrameOK(f)'
    BY <2>6, <2>8 DEF FrameOK, Timed, ListsAll, QueueInOrder, Nothing
  <2> QED  BY <1>2, <2>4, <2>9, OneFrameMoves
<1> QED  BY <1>3, <1>4 DEF EvictCounts, EvictReturns

LEMMA ClearOrdered ==
  ASSUME IInv, OrderInv, NEW c \in Calls, ClearRemoves(c), touched = Nothing, touched' = touched
  PROVE  OrderInv'
<1>1. /\ blobs' = {} /\ used' = used /\ now' = now /\ call' = [call EXCEPT ![c] = Done]
      /\ \A h \in Hashes : access'[h] = None /\ touched'[h] = None
  BY DEF ClearRemoves, Nothing
<1>2. now \in Nat /\ used \in [Hashes -> [from : Nat, to : Nat]]
  BY DEF IInv, TypeOK, OrderInv, UsesOK
<1>3. Keeps
  BY <1>1, <1>2 DEF Keeps
<1>4. UsesOK'
  BY <1>1, <1>2 DEF OrderInv, UsesOK
<1> QED  BY <1>1, <1>3, <1>4, DoneMoves, OneFrameMoves

LEMMA WorkOrdered ==
  ASSUME IInv, OrderInv, NEW c \in Calls, AfterFlush(c), touched = Nothing, touched' = touched,
         call[c].pc \in {"flush", "awaiting", "flushing"}
  PROVE  OrderInv'
<1>1. CASE PutWrites(c)
  BY <1>1, PutOrdered
<1>2. CASE DeleteLooks(c)
  <2> Quiet /\ (call' = [call EXCEPT ![c] = Done] \/ Goes(c, "deleting"))
    BY <1>2 DEF DeleteLooks, tables, Quiet, IInv, TypeOK
  <2> QED  BY QuietMoves
<1>3. CASE ClearRemoves(c)
  BY <1>3, ClearOrdered
<1>4. CASE EvictCounts(c)
  BY <1>4, CountOrdered
<1>5. CASE TimerDone(c)
  <2> Quiet /\ call' = [call EXCEPT ![c] = Done]
    BY <1>5 DEF TimerDone, tables, Quiet, IInv, TypeOK
  <2> QED  BY QuietMoves
<1> QED  BY <1>1, <1>2, <1>3, <1>4, <1>5 DEF AfterFlush

LEMMA FlushOrdered ==
  ASSUME IInv, OrderInv, NEW c \in Calls, FlushBegins(c) \/ FlushAwaited(c) \/ FlushReturns(c)
  PROVE  OrderInv'
<1>1. call[c].pc \in {"flush", "awaiting", "flushing"}
  BY DEF FlushBegins, FlushAwaited, FlushReturns
<1>2. CASE TakeBatch(c)
  BY <1>2, BatchOrdered
<1>3. CASE AfterFlush(c) /\ touched = Nothing /\ touched' = touched
  BY <1>1, <1>3, WorkOrdered
<1>4. CASE /\ call' = [call EXCEPT ![c].pc = "awaiting", ![c].awaits = flushing]
           /\ UNCHANGED <<tables, touched, flushing, schedule, now, used, added>>
  <2>1. PICK g : g = call[c]
    OBVIOUS
  <2>2. PICK f : f = [g EXCEPT !.pc = "awaiting", !.awaits = flushing]
    OBVIOUS
  <2>3. call' = [call EXCEPT ![c] = f]
    BY <1>4, <2>1, <2>2
  <2>4. IsFrame(g)
    BY <2>1, CallFacts
  <2>5. f.pc = "awaiting" /\ f.kind = g.kind /\ f.at = g.at
    BY <2>2, <2>4 DEF IsFrame
  <2>6. Quiet /\ now' = now
    BY <1>4 DEF tables, Quiet, IInv, TypeOK
  <2>7. FrameOK(f)'
    BY <2>1, <2>5, <2>6, TimeFacts, PlainMoves
  <2> QED  BY <2>3, <2>6, <2>7, QuietKeeps, OneFrameMoves
<1>5. CASE FlushBegins(c)
  BY <1>2, <1>3, <1>4, <1>5 DEF FlushBegins, FlushOrGoOn
<1>6. CASE FlushAwaited(c)
  BY <1>2, <1>3, <1>6 DEF FlushAwaited
<1>7. CASE FlushReturns(c)
  BY <1>2, <1>3, <1>7 DEF FlushReturns, FlushOrGoOn
<1> QED  BY <1>5, <1>6, <1>7

LEMMA PutReturnsOrdered ==
  ASSUME IInv, OrderInv, NEW c \in Calls, PutReturns(c)
  PROVE  OrderInv'
<1>1. Quiet /\ now' = now /\ now \in Nat
  BY DEF PutReturns, tables, touches, Quiet, IInv, TypeOK
<1>2. CASE call' = [call EXCEPT ![c] = Done]
  BY <1>1, <1>2, QuietKeeps, DoneMoves, OneFrameMoves
<1>3. ASSUME NEW d \in Calls, call' = [Evict(d) EXCEPT ![c] = Done]
      PROVE  OrderInv'
  <2>1. PICK f : f = Starts("evict", None, now)
    OBVIOUS
  <2>2. Begins(f, now)
    BY <1>1, <2>1, StartBegins
  <2>3. FrameOK(f)'
    BY <1>1, <2>2, PlainMoves DEF Begins
  <2>4. call' = [[call EXCEPT ![d] = f] EXCEPT ![c] = Done]
    BY <1>3, <2>1 DEF Evict
  <2>5. \A e \in Calls : call'[e] \in {Done, f, call[e]}
    BY <2>4 DEF IInv, CallsOK
  <2>6. Keeps /\ UsesOK'
    BY <1>1, QuietKeeps
  <2>7. ASSUME NEW e \in Calls PROVE FrameOK(call[e])'
    <3>1. PICK g : g = call'[e]
      OBVIOUS
    <3>2. PICK b : b = call[e]
      OBVIOUS
    <3>3. FrameOK(b)'
      BY <2>6, <3>2, FrameStays DEF IInv, OrderInv
    <3>4. FrameOK(g)'
      BY <2>3, <2>5, <3>1, <3>2, <3>3, DoneMoves
    <3> QED  BY <3>1, <3>4 DEF FrameOK, Timed, ListsAll, QueueInOrder, Queued
  <2> QED  BY <2>6, <2>7 DEF OrderInv
<1> QED  BY <1>2, <1>3 DEF PutReturns, StartEviction

-----------------------------------------------------------------------------
(* Rows go: the blobs that stay keep their uses.                           *)
LEMMA RemovalKeeps ==
  ASSUME IInv, OrderInv, NEW h, RemoveRows(h), UNCHANGED <<touched, used, now>>
  PROVE  Keeps /\ UsesOK'
<1>1. now \in Nat /\ used \in [Hashes -> [from : Nat, to : Nat]]
      /\ access \in [Hashes -> Nat \cup {None}]
  BY DEF IInv, TypeOK, OrderInv, UsesOK
<1>2. blobs' \subseteq blobs /\ \A g \in Hashes : access'[g] \in {None, access[g]}
  BY <1>1 DEF RemoveRows
<1>3. Keeps
  BY <1>1, <1>2 DEF Keeps
<1>4. UsesOK'
  BY <1>1, <1>2 DEF OrderInv, UsesOK
<1> QED  BY <1>3, <1>4

LEMMA DeleteOrdered ==
  ASSUME IInv, OrderInv, NEW c \in Calls, DeleteRemoves(c)
  PROVE  OrderInv'
<1>1. RemoveRows(call[c].hash) /\ UNCHANGED <<touched, used, now>>
  BY DEF DeleteRemoves, touches
<1>2. call' = [call EXCEPT ![c] = Done]
  BY DEF DeleteRemoves
<1> QED  BY <1>1, <1>2, RemovalKeeps, DoneMoves, OneFrameMoves

(* The rows are listed by the time of use that they record.                *)
LEMMA ListOrdered ==
  ASSUME IInv, OrderInv, NEW c \in Calls, EvictLists(c)
  PROVE  OrderInv'
<1> USE NoneAssumption
<1> DEFINE rows == {h \in Hashes : access[h] # None}
<1>1. PICK q \in OldestFirst(rows) : call' = [call EXCEPT ![c].pc = "removing", ![c].queue = q]
  BY DEF EvictLists
<1>2. Quiet /\ now' = now /\ UNCHANGED <<blobs, used>>
  BY DEF EvictLists, tables, touches, Quiet, IInv, TypeOK
<1>3. PICK g : g = call[c]
  OBVIOUS
<1>4. PICK f : f = [g EXCEPT !.pc = "removing", !.queue = q]
  OBVIOUS
<1>5. call' = [call EXCEPT ![c] = f]
  BY <1>1, <1>3, <1>4
<1>6. IsFrame(g) /\ g.pc = "listing" /\ g.at # None /\ g.at \in Nat /\ g.at <= now
  BY <1>3, CallFacts, TimeFacts DEF EvictLists
<1>7. f.pc = "removing" /\ f.kind = g.kind /\ f.at = g.at /\ f.queue = q
  BY <1>4, <1>6 DEF IsFrame
<1>8. /\ q \in [1..Cardinality(rows) -> rows] /\ DOMAIN q = 1..Cardinality(rows)
      /\ Range(q) = rows
      /\ \A i, j \in DOMAIN q : i < j => access[q[i]] <= access[q[j]]
  BY DEF OldestFirst
<1>9. Cardinality(rows) \in Nat
  BY FS_Subset, FS_CardinalityType, SizesAssumption
<1>10. PICK n \in Nat : n = Cardinality(rows)
  BY <1>9
<1>11. q \in Seq(Hashes) /\ Len(q) = n /\ DOMAIN q = 1..n
  <2>1. q \in [1..n -> Hashes]
    BY <1>8, <1>10
  <2> HIDE DEF rows
  <2> QED  BY <2>1, <1>10
<1>12. \A i \in 1..n : q[i] \in Hashes /\ access[q[i]] # None
  BY <1>8, <1>10
<1>13. \A h \in Hashes : access[h] # None => \E i \in 1..n : q[i] = h
  BY <1>8, <1>10 DEF Range
<1>14. ASSUME NEW h \in Hashes, access[h] # None, Over(h, g.at)
       PROVE  used[h].from <= access[h] /\ access[h] <= used[h].to
              /\ used[h].from \in Nat /\ used[h].to \in Nat /\ access[h] \in Nat
  <2>1. used[h].from \in Nat /\ used[h].to \in Nat /\ access[h] \in Nat
    BY <1>14 DEF OrderInv, UsesOK, IInv, TypeOK
  <2>2. touched[h] = None
    <3>1. touched[h] # None => g.at <= used[h].to
      BY <1>3, <1>6 DEF OrderInv, FrameOK, ListsAll
    <3>2. used[h].to < g.at
      BY <1>14 DEF Over
    <3> QED  BY <1>6, <2>1, <3>1, <3>2
  <2> QED  BY <1>14, <2>1, <2>2 DEF OrderInv, UsesOK
<1>15. \A i, j \in 1..n : i < j => MayPrecede(q[i], q[j], g.at)
  <2> SUFFICES ASSUME NEW i \in 1..n, NEW j \in 1..n, i < j, Over(q[i], g.at), Over(q[j], g.at)
               PROVE  used[q[i]].from <= used[q[j]].to
    BY DEF MayPrecede
  <2>1. PICK x \in Hashes : x = q[i] /\ access[x] # None
    BY <1>12
  <2>2. PICK y \in Hashes : y = q[j] /\ access[y] # None
    BY <1>12
  <2>3. access[x] <= access[y]
    BY <1>8, <1>10, <2>1, <2>2
  <2>4. used[x].from <= access[x] /\ used[x].from \in Nat /\ access[x] \in Nat
    BY <1>14, <2>1
  <2>5. access[y] <= used[y].to /\ used[y].to \in Nat /\ access[y] \in Nat
    BY <1>14, <2>2
  <2> QED  BY <2>1, <2>2, <2>3, <2>4, <2>5
<1>16. \A h \in Hashes : Over(h, g.at) => \E i \in 1..n : q[i] = h
  BY <1>13 DEF Over, IInv, EveryBlobEvictable
<1>17. QueueInOrder(f)
  BY <1>7, <1>11, <1>15, <1>16 DEF QueueInOrder, Queued
<1>18. FrameOK(f)
  BY <1>6, <1>7, <1>17 DEF FrameOK, Timed, ListsAll
<1> QED  BY <1>2, <1>5, <1>18, QuietKeeps, FrameStays, OneFrameMoves DEF IInv

LEMMA ReadOrdered ==
  ASSUME IInv, OrderInv, NEW c \in Calls, EvictReads(c)
  PROVE  OrderInv'
<1> USE NoneAssumption
<1>1. Quiet
  BY DEF EvictReads, tables, touches, Quiet, IInv, TypeOK
<1>2. CASE call' = [call EXCEPT ![c] = Done]
  BY <1>1, <1>2, QuietKeeps, DoneMoves, OneFrameMoves
<1>3. CASE call' # [call EXCEPT ![c] = Done]
  <2>1. PICK g : g = call[c]
    OBVIOUS
  <2>2. PICK h : h = Head(g.queue)
    OBVIOUS
  <2>3. PICK n : n = IF h \in blobs THEN g.removed + SizeOf[h] ELSE g.removed
    OBVIOUS
  <2>4. PICK t : t = Tail(g.queue)
    OBVIOUS
  <2>5. PICK f : f = [g EXCEPT !.pc = "evicting", !.hash = h, !.queue = t, !.removed = n]
    OBVIOUS
  <2>6. call' = [call EXCEPT ![c] = f] /\ g.queue # << >> /\ g.pc = "removing"
    BY <1>3, <2>1, <2>2, <2>3, <2>4, <2>5 DEF EvictReads, EvictReturns
  <2>7. IsFrame(g) /\ FrameOK(g)
    BY <2>1, CallFacts DEF OrderInv
  <2>8. f.pc = "evicting" /\ f.kind = g.kind /\ f.at = g.at /\ f.queue = t /\ f.hash = h
    BY <2>5, <2>7 DEF IsFrame
  <2>9. /\ g.queue \in Seq(Hashes)
        /\ \A i, j \in 1..Len(g.queue) : i < j => MayPrecede(g.queue[i], g.queue[j], g.at)
        /\ \A x \in Hashes : Over(x, g.at) => Queued(g, x)
    BY <2>6, <2>7 DEF FrameOK, QueueInOrder
  <2>10. /\ h \in Hashes /\ h = g.queue[1] /\ t \in Seq(Hashes) /\ Len(g.queue) \in Nat \ {0}
         /\ Len(t) = Len(g.queue) - 1 /\ \A i \in 1..Len(t) : t[i] = g.queue[i + 1]
    BY <2>2, <2>4, <2>6, <2>9, HeadTailProperties, LenProperties, EmptySeq
  <2>11. \A i \in 1..Len(t) : i + 1 \in 1..Len(g.queue)
    BY <2>10
  <2>12. \A i, j \in 1..Len(t) : i < j => MayPrecede(t[i], t[j], g.at)
    BY <2>9, <2>10, <2>11
  <2>13. \A i \in 1..Len(t) : MayPrecede(h, t[i], g.at)
    BY <2>9, <2>10, <2>11
  <2>14. ASSUME NEW x \in Hashes, Over(x, g.at) PROVE x = h \/ \E i \in 1..Len(t) : t[i] = x
    <3>1. PICK k \in 1..Len(g.queue) : g.queue[k] = x
      BY <2>9, <2>14 DEF Queued
    <3>2. CASE k = 1
      BY <2>10, <3>1, <3>2
    <3>3. CASE k # 1
      <4>1. k - 1 \in 1..Len(t) /\ (k - 1) + 1 = k
        BY <2>10, <3>3
      <4> QED  BY <2>10, <3>1, <4>1
    <3> QED  BY <3>2, <3>3
  <2>15. QueueInOrder(f)
    BY <2>8, <2>10, <2>12, <2>13, <2>14 DEF QueueInOrder, Queued
  <2>16. FrameOK(f)
    BY <2>6, <2>7, <2>8, <2>15 DEF FrameOK, Timed, ListsAll
  <2> QED  BY <1>1, <2>6, <2>16, QuietKeeps, FrameStays, OneFrameMoves DEF IInv
<1> QED  BY <1>2, <1>3

LEMMA RemoveOrdered ==
  ASSUME IInv, OrderInv, NEW c \in Calls, EvictRemoves(c)
  PROVE  OrderInv'
<1>1. PICK g : g = call[c]
  OBVIOUS
<1>2. PICK f : f = [g EXCEPT !.pc = "removing"]
  OBVIOUS
<1>3. call' = [call EXCEPT ![c] = f]
  BY <1>1, <1>2 DEF EvictRemoves, Goes
<1>4. RemoveRows(g.hash) /\ UNCHANGED <<touched, used, now>> /\ g.pc = "evicting"
  BY <1>1 DEF EvictRemoves, touches
<1>5. Keeps /\ UsesOK'
  BY <1>4, RemovalKeeps
<1>6. IsFrame(g) /\ FrameOK(g)
  BY <1>1, CallFacts DEF OrderInv
<1>7. f.pc = "removing" /\ f.kind = g.kind /\ f.at = g.at /\ f.queue = g.queue
  BY <1>2, <1>6 DEF IsFrame
<1>8. FrameOK(g)'
  BY <1>5, <1>6, FrameStays DEF IInv
<1>9. ~Over(g.hash, g.at)'
  BY <1>4 DEF RemoveRows, Over
<1>10. QueueInOrder(f)'
  BY <1>4, <1>7, <1>8, <1>9 DEF FrameOK, QueueInOrder, Queued
<1>11. FrameOK(f)'
  BY <1>4, <1>7, <1>8, <1>10 DEF FrameOK, Timed, ListsAll
<1> QED  BY <1>3, <1>5, <1>11, OneFrameMoves

(* What the page forgets may have been used at any time before.            *)
LEMMA RestartOrdered ==
  ASSUME IInv, OrderInv, Restart
  PROVE  OrderInv'
<1> USE NoneAssumption
<1>1. \A c \in Calls : call'[c] \in {Idle, Done}
  BY DEF Restart
<1>2. ASSUME NEW c \in Calls PROVE FrameOK(call[c])'
  <2>1. PICK g : g = call'[c]
    OBVIOUS
  <2>2. FrameOK(g)'
    BY <1>1, <2>1, DoneMoves
  <2> QED  BY <2>1, <2>2 DEF FrameOK, Timed, ListsAll, QueueInOrder, Queued
<1>3. used \in [Hashes -> [from : Nat, to : Nat]]
  BY DEF OrderInv, UsesOK
<1>4. \A h \in Hashes :
        used'[h] = IF touched[h] = None THEN used[h] ELSE [used[h] EXCEPT !.from = 0]
  BY DEF Restart
<1>5. \A h \in Hashes :
        /\ used'[h] \in [from : Nat, to : Nat] /\ used'[h].to = used[h].to
        /\ used'[h].from = IF touched[h] = None THEN used[h].from ELSE 0
  <2> SUFFICES ASSUME NEW h \in Hashes
               PROVE  /\ used'[h] \in [from : Nat, to : Nat] /\ used'[h].to = used[h].to
                      /\ used'[h].from = IF touched[h] = None THEN used[h].from ELSE 0
    OBVIOUS
  <2>1. PICK u \in [from : Nat, to : Nat] : u = used[h]
    BY <1>3
  <2>2. PICK v : v = used'[h]
    OBVIOUS
  <2>3. v = IF touched[h] = None THEN u ELSE [u EXCEPT !.from = 0]
    BY <1>4, <2>1, <2>2
  <2>4. /\ v \in [from : Nat, to : Nat] /\ v.to = u.to
        /\ v.from = IF touched[h] = None THEN u.from ELSE 0
    BY <2>3
  <2> QED  BY <2>1, <2>2, <2>4
<1>6. used' \in [Hashes -> [from : Nat, to : Nat]]
  <2>1. used' = [h \in Hashes |-> used'[h]]
    BY DEF Restart
  <2> QED  BY <1>5, <2>1
<1>7. access' = access /\ now' = now /\ \A h \in Hashes : touched'[h] = None
  BY DEF Restart, Nothing, tables
<1>8. access \in [Hashes -> Nat \cup {None}]
  BY DEF IInv, TypeOK
<1>9. \A h \in Hashes : access[h] # None => used'[h].from <= access[h]
  BY <1>5, <1>8 DEF OrderInv, UsesOK
<1>10. UsesOK'
  BY <1>5, <1>6, <1>7, <1>9 DEF OrderInv, UsesOK
<1> QED  BY <1>2, <1>10 DEF OrderInv

-----------------------------------------------------------------------------
LEMMA NextOrdered == IInv /\ OrderInv /\ [Next]_vars => OrderInv'
<1> SUFFICES ASSUME IInv, OrderInv, [Next]_vars PROVE OrderInv'
  OBVIOUS
<1>1. ASSUME NEW c \in Calls, CallBegins(c) PROVE OrderInv'
  BY <1>1, BeginsOrdered
<1>2. ASSUME NEW c \in Calls, CallContinues(c) PROVE OrderInv'
  BY <1>2, TouchOrdered, FlushOrdered, PutReturnsOrdered, DeleteOrdered, ListOrdered,
     ReadOrdered, RemoveOrdered DEF CallContinues
<1>3. CASE Restart
  BY <1>3, RestartOrdered
<1>4. CASE UNCHANGED vars
  <2>1. UNCHANGED <<blobs, access, touched, call, now, used>>
    BY <1>4 DEF vars
  <2>2. UsesOK'
    BY <2>1 DEF OrderInv, UsesOK
  <2>3. ASSUME NEW f, FrameOK(f) PROVE FrameOK(f)'
    <3>1. \A h, g, t : MayPrecede(h, g, t)' <=> MayPrecede(h, g, t)
      BY <2>1 DEF MayPrecede, Over
    <3>2. \A g, t : Over(g, t)' <=> Over(g, t)
      BY <2>1 DEF Over
    <3> QED  BY <2>1, <2>3, <3>1, <3>2 DEF FrameOK, Timed, ListsAll, QueueInOrder, Queued
  <2> QED  BY <2>1, <2>2, <2>3 DEF OrderInv
<1> QED  BY <1>1, <1>2, <1>3, <1>4 DEF Next

LEMMA OrderHolds == Spec => []OrderInv
<1> QED  BY InitOrdered, NextOrdered, InvariantHolds, PTL DEF Spec

(* Whatever is read, written and deleted while an eviction runs, it removes*)
(* no blob before one whose last use was over before that of the first     *)
(* began.                                                                  *)
THEOREM OldestGoFirst == Spec => LeastRecentlyUsedFirst
<1> DEFINE Prop(c) ==
      call[c].pc = "evicting" /\ call'[c].pc = "removing" =>
       LET h == call[c].hash IN
       \A g \in blobs \ {h} :
         (h \in blobs /\ used[h].to < call[c].at /\ used[g].to < call[c].at) =>
           ~(used[g].to < used[h].from)
<1>1. ASSUME IInv, OrderInv, NEW c \in Calls PROVE Prop(c)
  <2> SUFFICES ASSUME call[c].pc = "evicting", NEW g \in blobs, g # call[c].hash,
                      Over(call[c].hash, call[c].at), Over(g, call[c].at)
               PROVE  ~(used[g].to < used[call[c].hash].from)
    BY DEF Over
  <2>1. PICK f : f = call[c]
    OBVIOUS
  <2>2. FrameOK(f)
    BY <1>1, <2>1 DEF OrderInv
  <2>3. g \in Hashes
    BY <1>1 DEF IInv, TypeOK
  <2>4. Queued(f, g) /\ f.hash \in Hashes
    BY <2>1, <2>2, <2>3 DEF FrameOK, QueueInOrder
  <2>5. MayPrecede(f.hash, g, f.at)
    BY <2>1, <2>2, <2>4 DEF FrameOK, QueueInOrder, Queued
  <2>6. used[f.hash].from <= used[g].to
    BY <2>1, <2>5 DEF MayPrecede
  <2>7. used[f.hash].from \in Nat /\ used[g].to \in Nat
    BY <1>1, <2>3, <2>4 DEF OrderInv, UsesOK
  <2> QED  BY <2>1, <2>6, <2>7
<1>2. IInv /\ OrderInv => [\A c \in Calls : Prop(c)]_vars
  BY <1>1
<1> QED  BY <1>2, InvariantHolds, OrderHolds, PTL DEF LeastRecentlyUsedFirst
-----------------------------------------------------------------------------
(* The bytes of finitely many blobs: counting them gives a number, fewer   *)
(* blobs have no more, and one more adds no more than its own.             *)
BytesOf(hs) == UNION {{h} \X (1..SizeOf[h]) : h \in hs}

LEMMA OwnBytes ==
  ASSUME NEW h \in Hashes
  PROVE  /\ SizeOf[h] \in Nat
         /\ IsFiniteSet({h} \X (1..SizeOf[h])) /\ Cardinality({h} \X (1..SizeOf[h])) = SizeOf[h]
<1>1. PICK n \in Nat : n = SizeOf[h]
  BY SizesAssumption
<1>2. IsFiniteSet({h}) /\ Cardinality({h}) = 1
  BY FS_Singleton
<1>3. IsFiniteSet(1..n) /\ Cardinality(1..n) = IF 1 > n THEN 0 ELSE n - 1 + 1
  <2> 1 \in Int /\ n \in Int
    OBVIOUS
  <2> QED  BY FS_Interval
<1>4. Cardinality(1..n) = n
  BY <1>3
<1>5. /\ IsFiniteSet({h} \X (1..n))
      /\ Cardinality({h} \X (1..n)) = Cardinality({h}) * Cardinality(1..n)
  BY <1>2, <1>3, FS_Product
<1>6. Cardinality({h} \X (1..n)) = n
  BY <1>2, <1>4, <1>5
<1> QED  BY <1>1, <1>5, <1>6

LEMMA BytesAreFinite ==
  ASSUME NEW hs \in SUBSET Hashes
  PROVE  IsFiniteSet(BytesOf(hs))
<1> USE SizesAssumption
<1> DEFINE Each == {{h} \X (1..SizeOf[h]) : h \in hs}
           of == [h \in hs |-> {h} \X (1..SizeOf[h])]
<1>1. IsFiniteSet(hs)
  BY FS_Subset
<1>2. of \in Surjection(hs, Each)
  BY DEF Surjection
<1>3. IsFiniteSet(Each)
  <2> HIDE DEF of, Each
  <2> QED  BY <1>1, <1>2, FS_Surjection
<1>4. ASSUME NEW b \in Each PROVE IsFiniteSet(b)
  <2>1. PICK h \in hs : b = {h} \X (1..SizeOf[h])
    OBVIOUS
  <2> QED  BY <2>1, OwnBytes
<1>5. IsFiniteSet(UNION Each)
  <2> HIDE DEF Each
  <2> QED  BY <1>3, <1>4, FS_UNION
<1> QED  BY <1>5 DEF BytesOf

LEMMA TotalIs == ASSUME NEW hs PROVE Total(hs) = Cardinality(BytesOf(hs))
BY DEF Total, BytesOf

LEMMA FewerBytes ==
  ASSUME NEW hs \in SUBSET Hashes, NEW gs \in SUBSET hs
  PROVE  Total(hs) \in Nat /\ Total(gs) \in Nat /\ Total(gs) <= Total(hs)
<1>1. BytesOf(gs) \in SUBSET BytesOf(hs)
  BY DEF BytesOf
<1>2. IsFiniteSet(BytesOf(gs)) /\ IsFiniteSet(BytesOf(hs))
  BY BytesAreFinite
<1> QED  BY <1>1, <1>2, FS_Subset, FS_CardinalityType, TotalIs

LEMMA OneMoreBlob ==
  ASSUME NEW hs \in SUBSET Hashes, NEW h \in Hashes
  PROVE  Total(hs \cup {h}) \in Nat /\ Total(hs) \in Nat /\ SizeOf[h] \in Nat
         /\ Total(hs \cup {h}) <= Total(hs) + SizeOf[h]
<1> DEFINE Own == {h} \X (1..SizeOf[h])
<1>1. SizeOf[h] \in Nat
  BY OwnBytes
<1>2. IsFiniteSet(Own) /\ Cardinality(Own) = SizeOf[h]
  BY OwnBytes
<1>3. BytesOf(hs \cup {h}) = BytesOf(hs) \cup Own
  BY DEF BytesOf
<1>4. IsFiniteSet(BytesOf(hs)) /\ Cardinality(BytesOf(hs)) \in Nat
  BY BytesAreFinite, FS_CardinalityType
<1>5. /\ IsFiniteSet(BytesOf(hs) \cap Own)
      /\ Cardinality(BytesOf(hs) \cap Own) \in Nat
  <2> HIDE DEF Own
  <2> QED  BY <1>4, FS_Intersection, FS_CardinalityType
<1>6. Cardinality(BytesOf(hs) \cup Own)
        = Cardinality(BytesOf(hs)) + SizeOf[h] - Cardinality(BytesOf(hs) \cap Own)
  <2> HIDE DEF Own
  <2> QED  BY <1>2, <1>4, FS_Union
<1>7. Cardinality(BytesOf(hs) \cup Own) \in Nat
  <2> HIDE DEF Own
  <2> QED  BY <1>2, <1>4, FS_Union, FS_CardinalityType
<1>8. Total(hs \cup {h}) = Cardinality(BytesOf(hs) \cup Own) /\ Total(hs) = Cardinality(BytesOf(hs))
  BY <1>3, TotalIs
<1> HIDE DEF Own
<1> QED  BY <1>1, <1>4, <1>5, <1>6, <1>7, <1>8

LEMMA OneLessBlob ==
  ASSUME NEW hs \in SUBSET Hashes, NEW h \in hs
  PROVE  /\ Total(hs \ {h}) \in Nat /\ Total(hs) \in Nat
         /\ Total(hs \ {h}) + SizeOf[h] <= Total(hs)
<1> DEFINE Own == {h} \X (1..SizeOf[h])
<1>1. SizeOf[h] \in Nat
  BY OwnBytes
<1>2. IsFiniteSet(Own) /\ Cardinality(Own) = SizeOf[h]
  BY OwnBytes
<1>3. BytesOf(hs) = BytesOf(hs \ {h}) \cup Own /\ BytesOf(hs \ {h}) \cap Own = {}
  BY DEF BytesOf
<1>4. IsFiniteSet(BytesOf(hs \ {h})) /\ Cardinality(BytesOf(hs \ {h})) \in Nat
  BY BytesAreFinite, FS_CardinalityType
<1>5. Cardinality(BytesOf(hs)) = Cardinality(BytesOf(hs \ {h})) + SizeOf[h] - Cardinality({})
  <2> HIDE DEF Own
  <2>1. Cardinality(BytesOf(hs \ {h}) \cup Own)
          = Cardinality(BytesOf(hs \ {h})) + Cardinality(Own) - Cardinality(BytesOf(hs \ {h}) \cap Own)
    BY <1>2, <1>4, FS_Union, Zenon
  <2> QED  BY <1>2, <1>3, <2>1, Zenon
<1> QED  BY <1>1, <1>4, <1>5, FS_EmptySet, TotalIs

-----------------------------------------------------------------------------
(* An eviction that has counted.  What the store holds, without the blob   *)
(* it is about to remove, and what it has removed are together no more     *)
(* than what it counted and what was written since.                        *)
Counted(f) == f.pc \in {"listing", "removing", "evicting"}
Uncounted(f) == f.pc \in {"flush", "awaiting", "flushing"}
Outside(f) == ~Counted(f) /\ (Uncounted(f) => f.removed = 0)
Kept(f) == IF f.pc = "evicting" THEN blobs \ {f.hash} ELSE blobs

FreedOK(f) ==
  \/ Outside(f)
  \/ /\ Counted(f) /\ f.kind = "evict" /\ f.excess \in Nat /\ f.removed \in Nat
     /\ Total(Kept(f)) + f.removed <= f.excess + MaxBytes + added

FreedInv == \A c \in Calls : FreedOK(call[c])

(* Blobs only go, or one comes that is counted as written.                 *)
OnlyGo == blobs' \subseteq blobs /\ added' = added
OneComes ==
  \E h \in Hashes :
    /\ blobs' = blobs \cup {h}
    /\ added' = IF h \in blobs THEN added ELSE added + SizeOf[h]

LEMMA FreedStays ==
  ASSUME TypeOK, OnlyGo \/ OneComes, NEW f, FreedOK(f)
  PROVE  FreedOK(f)'
<1> USE SizesAssumption
<1> SUFFICES ASSUME ~Outside(f)
             PROVE  Total(Kept(f))' + f.removed <= f.excess + MaxBytes + added'
  BY DEF FreedOK, Counted, Outside, Uncounted
<1>1. PICK g : g = IF f.pc = "evicting" THEN {f.hash} ELSE {}
  OBVIOUS
<1>2. Kept(f) = blobs \ g /\ Kept(f)' = blobs' \ g
  BY <1>1 DEF Kept
<1>3. blobs \in SUBSET Hashes /\ blobs \ g \in SUBSET Hashes /\ added \in Nat
  BY DEF TypeOK
<1>4. /\ f.excess \in Nat /\ f.removed \in Nat
      /\ Total(blobs \ g) + f.removed <= f.excess + MaxBytes + added
  BY <1>2 DEF FreedOK
<1>5. CASE OnlyGo
  <2>1. blobs' \ g \in SUBSET (blobs \ g)
    BY <1>5 DEF OnlyGo
  <2>2. /\ Total(blobs \ g) \in Nat /\ Total(blobs' \ g) \in Nat
        /\ Total(blobs' \ g) <= Total(blobs \ g)
    BY <1>3, <2>1, FewerBytes
  <2>3. added' = added
    BY <1>5 DEF OnlyGo
  <2>4. Total(blobs' \ g) + f.removed <= f.excess + MaxBytes + added'
    BY <1>3, <1>4, <2>2, <2>3
  <2> QED  BY <1>2, <2>4 DEF Total
<1>6. CASE OneComes
  <2>1. PICK h \in Hashes :
          /\ blobs' = blobs \cup {h}
          /\ added' = IF h \in blobs THEN added ELSE added + SizeOf[h]
    BY <1>6 DEF OneComes
  <2>2. CASE h \in blobs \/ h \in g
    <3>1. blobs' \ g = blobs \ g
      BY <2>1, <2>2
    <3>2. added' \in Nat /\ added <= added'
      BY <1>3, <2>1
    <3>3. Total(blobs \ g) \in Nat
      BY <1>3, FewerBytes
    <3>4. Total(blobs' \ g) + f.removed <= f.excess + MaxBytes + added'
      <4>1. PICK a \in Nat : a = Total(blobs \ g) /\ a = Total(blobs' \ g)
        BY <3>1, <3>3
      <4> QED  BY <1>3, <1>4, <3>2, <4>1
    <3> QED  BY <1>2, <3>4 DEF Total
  <2>3. CASE h \notin blobs /\ h \notin g
    <3>1. blobs' \ g = (blobs \ g) \cup {h} /\ added' = added + SizeOf[h]
      BY <2>1, <2>3
    <3>2. /\ Total(blobs' \ g) \in Nat /\ Total(blobs \ g) \in Nat /\ SizeOf[h] \in Nat
          /\ Total(blobs' \ g) <= Total(blobs \ g) + SizeOf[h]
      BY <1>3, <3>1, OneMoreBlob
    <3>3. Total(blobs' \ g) + f.removed <= f.excess + MaxBytes + added'
      <4>1. PICK a, b, n \in Nat : a = Total(blobs \ g) /\ b = Total(blobs' \ g) /\ n = SizeOf[h]
        BY <3>2
      <4> QED  BY <1>3, <1>4, <3>1, <3>2, <4>1
    <3> QED  BY <1>2, <3>3 DEF Total
  <2> QED  BY <2>2, <2>3
<1> QED  BY <1>5, <1>6

(* No call enters an eviction's work.                                      *)
LEMMA OutsideFreed ==
  ASSUME IInv, FreedInv, OnlyGo \/ OneComes,
         \A d \in Calls : call'[d] = call[d] \/ Outside(call'[d])
  PROVE  FreedInv'
<1> SUFFICES ASSUME NEW d \in Calls PROVE FreedOK(call[d])'
  BY DEF FreedInv
<1>1. CASE call'[d] = call[d]
  <2>1. PICK f : f = call[d]
    OBVIOUS
  <2>2. FreedOK(f)
    BY <2>1 DEF FreedInv
  <2>3. FreedOK(f)'
    BY <2>2, FreedStays DEF IInv
  <2> QED  BY <1>1, <2>1, <2>3 DEF FreedOK, Counted, Kept, Outside, Uncounted
<1>2. CASE Outside(call'[d])
  BY <1>2 DEF FreedOK, Counted, Outside, Uncounted
<1> QED  BY <1>1, <1>2

(* One call moves to a frame that is right.                                *)
LEMMA OneFreedMoves ==
  ASSUME IInv, FreedInv, OnlyGo \/ OneComes, NEW c \in Calls, NEW f, FreedOK(f)',
         call' = [call EXCEPT ![c] = f]
  PROVE  FreedInv'
<1>1. call'[c] = f /\ \A d \in Calls \ {c} : call'[d] = call[d]
  BY DEF IInv, CallsOK
<1>2. ASSUME NEW d \in Calls PROVE FreedOK(call[d])'
  <2>1. CASE d = c
    BY <1>1, <2>1 DEF FreedOK, Counted, Kept, Outside, Uncounted
  <2>2. CASE d # c
    <3>1. PICK g : g = call[d]
      OBVIOUS
    <3>2. FreedOK(g)
      BY <3>1 DEF FreedInv
    <3>3. FreedOK(g)'
      BY <3>2, FreedStays DEF IInv
    <3>4. call'[d] = g
      BY <1>1, <2>2, <3>1
    <3> QED  BY <3>3, <3>4 DEF FreedOK, Counted, Kept, Outside, Uncounted
  <2> QED  BY <2>1, <2>2
<1> QED  BY <1>2 DEF FreedInv

(* One call moves to a frame outside an eviction's work.                   *)
LEMMA PlainFreed ==
  ASSUME IInv, FreedInv, OnlyGo \/ OneComes, NEW c \in Calls, NEW f, Outside(f),
         call' = [call EXCEPT ![c] = f]
  PROVE  FreedInv'
<1>1. FreedOK(f)'
  BY DEF FreedOK, Outside, Counted, Uncounted
<1> QED  BY <1>1, OneFreedMoves

LEMMA GoesFreed ==
  ASSUME IInv, FreedInv, OnlyGo \/ OneComes, NEW c \in Calls, NEW p,
         p \notin {"listing", "removing", "evicting"},
         p \in {"flush", "awaiting", "flushing"} => Uncounted(call[c]), Goes(c, p)
  PROVE  FreedInv'
<1>1. PICK g : g = call[c]
  OBVIOUS
<1>2. PICK f : f = [g EXCEPT !.pc = p]
  OBVIOUS
<1>3. IsFrame(g) /\ FreedOK(g)
  BY <1>1, CallFacts DEF FreedInv
<1>4. f.pc = p /\ f.removed = g.removed
  BY <1>2, <1>3 DEF IsFrame
<1>5. Outside(f)
  BY <1>1, <1>3, <1>4 DEF FreedOK, Outside, Counted, Uncounted
<1> QED  BY <1>1, <1>2, <1>5, PlainFreed DEF Goes

LEMMA DoneFreed ==
  ASSUME IInv, FreedInv, OnlyGo \/ OneComes, NEW c \in Calls, call' = [call EXCEPT ![c] = Done]
  PROVE  FreedInv'
BY PlainFreed, Frames DEF Outside, Counted, Uncounted

-----------------------------------------------------------------------------
LEMMA InitFreed == Init => FreedInv
<1> SUFFICES ASSUME Init, NEW c \in Calls PROVE FreedOK(call[c])
  BY DEF FreedInv
<1>1. call[c] = Idle
  BY DEF Init
<1> QED  BY <1>1, Frames DEF FreedOK, Outside, Counted, Uncounted

LEMMA BeginsFreed ==
  ASSUME IInv, FreedInv, NEW c \in Calls, CallBegins(c)
  PROVE  FreedInv'
<1>1. ASSUME NEW h \in Hashes, Get(c, h) PROVE FreedInv'
  <2>1. PICK f : f = IF h \in blobs
                       THEN [Idle EXCEPT !.pc = "hit", !.kind = "get", !.hash = h] ELSE Done
    OBVIOUS
  <2>2. Outside(f)
    BY <2>1 DEF Outside, Counted, Uncounted, Idle, Done
  <2>3. OnlyGo /\ call' = [call EXCEPT ![c] = f]
    BY <1>1, <2>1 DEF Get, OnlyGo, tables
  <2> QED  BY <2>2, <2>3, PlainFreed
<1>2. ASSUME NEW kind, NEW h, NEW t, call' = [call EXCEPT ![c] = Starts(kind, h, t)], OnlyGo
      PROVE  FreedInv'
  <2>1. PICK f : f = Starts(kind, h, t)
    OBVIOUS
  <2>2. Outside(f)
    BY <2>1 DEF Starts, Idle, Outside, Counted, Uncounted
  <2> QED  BY <1>2, <2>1, <2>2, PlainFreed
<1>3. ASSUME NEW h \in Hashes, Put(c, h) PROVE FreedInv'
  BY <1>2, <1>3 DEF Put, OnlyGo, tables
<1>4. ASSUME NEW h \in Hashes, Delete(c, h) PROVE FreedInv'
  BY <1>2, <1>4 DEF Delete, OnlyGo, tables
<1>5. CASE Clear(c)
  BY <1>2, <1>5 DEF Clear, OnlyGo, tables
<1>6. CASE FlushTimer(c)
  BY <1>2, <1>6 DEF FlushTimer, OnlyGo, tables
<1> QED  BY <1>1, <1>3, <1>4, <1>5, <1>6 DEF CallBegins

(* Counting starts the account; no other eviction runs.                    *)
LEMMA CountFreed ==
  ASSUME IInv, FreedInv, NEW c \in Calls, EvictCounts(c), Uncounted(call[c])
  PROVE  FreedInv'
<1> USE SizesAssumption
<1>1. blobs' = blobs /\ added' = 0 /\ blobs \in SUBSET Hashes /\ call[c].kind = "evict"
  BY DEF EvictCounts, tables, IInv, TypeOK
<1>2. ASSUME NEW d \in Calls, d # c PROVE ~Counted(call[d])
  <2>1. call[d].kind # "evict"
    BY <1>1, <1>2 DEF IInv, EvictionKnown
  <2> QED  BY <2>1 DEF FreedInv, FreedOK, Outside
<1>3. PICK f : /\ call' = [call EXCEPT ![c] = f]
               /\ f = Done \/ /\ Total(blobs) > MaxBytes
                              /\ f = [call[c] EXCEPT !.pc = "listing", !.excess = Total(blobs) - MaxBytes]
  BY DEF EvictCounts, EvictReturns
<1>4. call'[c] = f /\ \A d \in Calls \ {c} : call'[d] = call[d]
  BY <1>3 DEF IInv, CallsOK
<1>5. FreedOK(f)'
  <2>1. CASE f = Done
    BY <2>1, Frames DEF FreedOK, Outside, Counted, Uncounted
  <2>2. CASE f # Done
    <3>1. PICK g : g = call[c]
      OBVIOUS
    <3>2. PICK x : x = Total(blobs) - MaxBytes
      OBVIOUS
    <3>3. f = [g EXCEPT !.pc = "listing", !.excess = x] /\ Total(blobs) > MaxBytes
      BY <1>3, <2>2, <3>1, <3>2
    <3>4. IsFrame(g) /\ g.removed = 0
      BY <3>1, CallFacts DEF FreedInv, FreedOK, Outside, Counted, Uncounted
    <3>5. f.pc = "listing" /\ f.kind = g.kind /\ f.excess = x /\ f.removed = g.removed
      BY <3>3, <3>4 DEF IsFrame
    <3>6. Total(blobs) \in Nat
      BY <1>1, FewerBytes
    <3>7. x \in Nat /\ Total(blobs) + 0 <= x + MaxBytes + 0
      BY <3>2, <3>3, <3>6
    <3> QED  BY <1>1, <3>1, <3>4, <3>5, <3>7 DEF FreedOK, Counted, Kept, Total
  <2> QED  BY <2>1, <2>2
<1>6. ASSUME NEW d \in Calls PROVE FreedOK(call[d])'
  <2>1. CASE d = c
    BY <1>4, <1>5, <2>1 DEF FreedOK, Counted, Kept, Outside, Uncounted
  <2>2. CASE d # c
    BY <1>2, <1>4, <2>2 DEF FreedInv, FreedOK, Outside, Counted, Uncounted
  <2> QED  BY <2>1, <2>2
<1> QED  BY <1>6 DEF FreedInv

LEMMA WorkFreed ==
  ASSUME IInv, FreedInv, NEW c \in Calls, AfterFlush(c), Uncounted(call[c])
  PROVE  FreedInv'
<1>1. CASE PutWrites(c)
  <2>1. call[c].hash \in Hashes
    BY <1>1, CallFacts DEF PutWrites, PutReady, Uncounted
  <2>2. OneComes /\ Goes(c, "written")
    BY <1>1, <2>1 DEF PutWrites, OneComes
  <2> QED  BY <2>2, GoesFreed
<1>2. CASE DeleteLooks(c)
  <2> OnlyGo /\ (Goes(c, "deleting") \/ call' = [call EXCEPT ![c] = Done])
    BY <1>2 DEF DeleteLooks, OnlyGo, tables
  <2> QED  BY GoesFreed, DoneFreed
<1>3. CASE ClearRemoves(c)
  BY <1>3, DoneFreed DEF ClearRemoves, OnlyGo
<1>4. CASE EvictCounts(c)
  BY <1>4, CountFreed
<1>5. CASE TimerDone(c)
  BY <1>5, DoneFreed DEF TimerDone, OnlyGo, tables
<1> QED  BY <1>1, <1>2, <1>3, <1>4, <1>5 DEF AfterFlush

LEMMA FlushFreed ==
  ASSUME IInv, FreedInv, NEW c \in Calls, FlushBegins(c) \/ FlushAwaited(c) \/ FlushReturns(c)
  PROVE  FreedInv'
<1>1. Uncounted(call[c])
  BY DEF FlushBegins, FlushAwaited, FlushReturns, Uncounted
<1>2. CASE TakeBatch(c)
  BY <1>1, <1>2, GoesFreed DEF TakeBatch, OnlyGo
<1>3. CASE AfterFlush(c)
  BY <1>1, <1>3, WorkFreed
<1>4. CASE /\ call' = [call EXCEPT ![c].pc = "awaiting", ![c].awaits = flushing]
           /\ UNCHANGED <<tables, added>>
  <2>1. PICK g : g = call[c]
    OBVIOUS
  <2>2. PICK f : f = [g EXCEPT !.pc = "awaiting", !.awaits = flushing]
    OBVIOUS
  <2>3. IsFrame(g) /\ FreedOK(g)
    BY <2>1, CallFacts DEF FreedInv
  <2>4. f.pc = "awaiting" /\ f.removed = g.removed
    BY <2>2, <2>3 DEF IsFrame
  <2>5. Outside(f)
    BY <1>1, <2>1, <2>3, <2>4 DEF FreedOK, Outside, Counted, Uncounted
  <2>6. OnlyGo /\ call' = [call EXCEPT ![c] = f]
    BY <1>4, <2>1, <2>2 DEF OnlyGo, tables
  <2> QED  BY <2>5, <2>6, PlainFreed
<1> QED  BY <1>2, <1>3, <1>4 DEF FlushBegins, FlushAwaited, FlushReturns, FlushOrGoOn

LEMMA PutReturnsFreed ==
  ASSUME IInv, FreedInv, NEW c \in Calls, PutReturns(c)
  PROVE  FreedInv'
<1>1. OnlyGo
  BY DEF PutReturns, OnlyGo, tables
<1>2. CASE call' = [call EXCEPT ![c] = Done]
  BY <1>1, <1>2, DoneFreed
<1>3. ASSUME NEW d \in Calls, call' = [Evict(d) EXCEPT ![c] = Done]
      PROVE  FreedInv'
  <2>1. PICK f : f = Starts("evict", None, now)
    OBVIOUS
  <2>2. Outside(f) /\ Outside(Done)
    BY <2>1 DEF Starts, Idle, Done, Outside, Counted, Uncounted
  <2>3. call' = [[call EXCEPT ![d] = f] EXCEPT ![c] = Done]
    BY <1>3, <2>1 DEF Evict
  <2>4. \A e \in Calls : call'[e] \in {Done, f, call[e]}
    BY <2>3 DEF IInv, CallsOK
  <2> QED  BY <1>1, <2>2, <2>4, OutsideFreed
<1> QED  BY <1>2, <1>3 DEF PutReturns, StartEviction

LEMMA ListFreed ==
  ASSUME IInv, FreedInv, NEW c \in Calls, EvictLists(c)
  PROVE  FreedInv'
<1>1. PICK q : call' = [call EXCEPT ![c].pc = "removing", ![c].queue = q]
  BY DEF EvictLists
<1>2. PICK g : g = call[c]
  OBVIOUS
<1>3. PICK f : f = [g EXCEPT !.pc = "removing", !.queue = q]
  OBVIOUS
<1>4. IsFrame(g) /\ FreedOK(g) /\ g.pc = "listing"
  BY <1>2, CallFacts DEF FreedInv, EvictLists
<1>5. f.pc = "removing" /\ f.kind = g.kind /\ f.excess = g.excess /\ f.removed = g.removed
  BY <1>3, <1>4 DEF IsFrame
<1>6. FreedOK(f)
  BY <1>4, <1>5 DEF FreedOK, Outside, Counted, Uncounted, Kept
<1>7. OnlyGo /\ call' = [call EXCEPT ![c] = f]
  BY <1>1, <1>2, <1>3 DEF EvictLists, OnlyGo, tables
<1> QED  BY <1>6, <1>7, FreedStays, OneFreedMoves DEF IInv

(* What is about to go is accounted for: a blob that is still there at its *)
(* size, one that is not at nothing.                                       *)
LEMMA ReadFreed ==
  ASSUME IInv, FreedInv, NEW c \in Calls, EvictReads(c)
  PROVE  FreedInv'
<1> USE SizesAssumption
<1>1. OnlyGo
  BY DEF EvictReads, OnlyGo, tables
<1>2. CASE call' = [call EXCEPT ![c] = Done]
  BY <1>1, <1>2, DoneFreed
<1>3. CASE call' # [call EXCEPT ![c] = Done]
  <2>1. PICK g : g = call[c]
    OBVIOUS
  <2>2. PICK h : h = Head(g.queue)
    OBVIOUS
  <2>3. PICK n : n = IF h \in blobs THEN g.removed + SizeOf[h] ELSE g.removed
    OBVIOUS
  <2>4. PICK t : t = Tail(g.queue)
    OBVIOUS
  <2>5. PICK f : f = [g EXCEPT !.pc = "evicting", !.hash = h, !.queue = t, !.removed = n]
    OBVIOUS
  <2>6. call' = [call EXCEPT ![c] = f] /\ g.pc = "removing"
    BY <1>3, <2>1, <2>2, <2>3, <2>4, <2>5 DEF EvictReads, EvictReturns
  <2>7. IsFrame(g) /\ FreedOK(g)
    BY <2>1, CallFacts DEF FreedInv
  <2>8. /\ f.pc = "evicting" /\ f.kind = g.kind /\ f.hash = h
        /\ f.excess = g.excess /\ f.removed = n
    BY <2>5, <2>7 DEF IsFrame
  <2>9. /\ g.kind = "evict" /\ g.excess \in Nat /\ g.removed \in Nat
        /\ Total(blobs) + g.removed <= g.excess + MaxBytes + added
    BY <2>6, <2>7 DEF FreedOK, Outside, Counted, Kept
  <2>10. blobs \in SUBSET Hashes /\ added \in Nat
    BY DEF IInv, TypeOK
  <2>11. n \in Nat /\ Total(blobs \ {h}) + n <= g.excess + MaxBytes + added
    <3>1. CASE h \notin blobs
      <4>1. blobs \ {h} = blobs
        BY <3>1
      <4> QED  BY <2>3, <2>9, <3>1, <4>1
    <3>2. CASE h \in blobs
      <4>1. SizeOf[h] \in Nat /\ n = g.removed + SizeOf[h]
        BY <2>3, <2>10, <3>2
      <4>2. /\ Total(blobs \ {h}) \in Nat /\ Total(blobs) \in Nat
            /\ Total(blobs \ {h}) + SizeOf[h] <= Total(blobs)
        BY <2>10, <3>2, OneLessBlob
      <4> QED  BY <2>9, <2>10, <4>1, <4>2
    <3> QED  BY <3>1, <3>2
  <2>12. FreedOK(f)
    BY <2>8, <2>9, <2>11 DEF FreedOK, Counted, Kept
  <2> QED  BY <1>1, <2>6, <2>12, FreedStays, OneFreedMoves DEF IInv
<1> QED  BY <1>2, <1>3

LEMMA RemoveFreed ==
  ASSUME IInv, FreedInv, NEW c \in Calls, EvictRemoves(c)
  PROVE  FreedInv'
<1>1. PICK g : g = call[c]
  OBVIOUS
<1>2. PICK f : f = [g EXCEPT !.pc = "removing"]
  OBVIOUS
<1>3. call' = [call EXCEPT ![c] = f] /\ g.pc = "evicting"
  BY <1>1, <1>2 DEF EvictRemoves, Goes
<1>4. IsFrame(g) /\ FreedOK(g)
  BY <1>1, CallFacts DEF FreedInv
<1>5. f.pc = "removing" /\ f.kind = g.kind /\ f.excess = g.excess /\ f.removed = g.removed
  BY <1>2, <1>4 DEF IsFrame
<1>6. blobs' = blobs \ {g.hash} /\ added' = added
  BY <1>1 DEF EvictRemoves, RemoveRows
<1>7. FreedOK(f)'
  BY <1>3, <1>4, <1>5, <1>6 DEF FreedOK, Outside, Counted, Uncounted, Kept, Total
<1>8. OnlyGo
  BY <1>6 DEF OnlyGo
<1> QED  BY <1>3, <1>7, <1>8, OneFreedMoves

LEMMA NextFreed == IInv /\ FreedInv /\ [Next]_vars => FreedInv'
<1> SUFFICES ASSUME IInv, FreedInv, [Next]_vars PROVE FreedInv'
  OBVIOUS
<1>1. ASSUME NEW c \in Calls, CallBegins(c) PROVE FreedInv'
  BY <1>1, BeginsFreed
<1>2. ASSUME NEW c \in Calls, Touch(c) \/ DeleteRemoves(c) PROVE FreedInv'
  <2> OnlyGo /\ call' = [call EXCEPT ![c] = Done]
    BY <1>2 DEF Touch, DeleteRemoves, RemoveRows, OnlyGo, tables
  <2> QED  BY DoneFreed
<1>3. ASSUME NEW c \in Calls, CallContinues(c) PROVE FreedInv'
  BY <1>2, <1>3, FlushFreed, PutReturnsFreed, ListFreed, ReadFreed, RemoveFreed DEF CallContinues
<1>4. CASE Restart
  <2>1. Outside(Idle) /\ Outside(Done)
    BY Frames DEF Outside, Counted, Uncounted
  <2>2. \A d \in Calls : call'[d] \in {Idle, Done}
    BY <1>4 DEF Restart
  <2>3. OnlyGo
    BY <1>4 DEF Restart, OnlyGo, tables
  <2> QED  BY <2>1, <2>2, <2>3, OutsideFreed
<1>5. CASE UNCHANGED vars
  BY <1>5 DEF vars, FreedInv, FreedOK, Outside, Counted, Uncounted, Kept, Total
<1> QED  BY <1>1, <1>3, <1>4, <1>5 DEF Next

LEMMA FreedHolds == Spec => []FreedInv
<1> QED  BY InitFreed, NextFreed, InvariantHolds, PTL DEF Spec

(* An eviction that ran until it had removed enough leaves no more than    *)
(* MaxBytes and what was written since it counted, whatever other calls    *)
(* put, delete and clear while it ran.                                     *)
THEOREM EvictionFrees == Spec => EvictionFreesEnough
<1> DEFINE Prop(c) ==
      (call[c].pc = "removing" /\ call'[c].pc = "done" /\ evicting' = None
         /\ evicting = c /\ Enough(call[c])) => Total(blobs) <= MaxBytes + added
<1>1. ASSUME IInv, FreedInv, NEW c \in Calls PROVE Prop(c)
  <2> SUFFICES ASSUME call[c].pc = "removing", Enough(call[c])
               PROVE  Total(blobs) <= MaxBytes + added
    OBVIOUS
  <2>1. /\ call[c].excess \in Nat /\ call[c].removed \in Nat
        /\ Total(blobs) + call[c].removed <= call[c].excess + MaxBytes + added
    BY <1>1 DEF FreedInv, FreedOK, Outside, Counted, Kept
  <2>2. call[c].removed >= call[c].excess
    BY DEF Enough
  <2>3. Total(blobs) \in Nat /\ added \in Nat
    BY <1>1, FewerBytes DEF IInv, TypeOK
  <2> QED  BY <2>1, <2>2, <2>3, SizesAssumption
<1>2. IInv /\ FreedInv => [\A c \in Calls : Prop(c)]_vars
  BY <1>1
<1> QED  BY <1>2, InvariantHolds, FreedHolds, PTL DEF EvictionFreesEnough
=============================================================================
