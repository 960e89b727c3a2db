----------------------------- MODULE BlobStore ------------------------------
(***************************************************************************)
(* packages/hashtree-dexie/src/index.ts, the blob store over IndexedDB,    *)
(* with the eviction schedule of hashtree-worker's idbStorage.ts above it. *)
(*                                                                         *)
(* Two tables: blobs, and accesses, which says when a blob was last used.  *)
(* Reads only note the use in a Map, which is flushed to accesses in       *)
(* batches.  Every call is a little process that runs to its next await.   *)
(* IndexedDB runs overlapping transactions in the order they were asked    *)
(* for, so each takes effect in the step that asks for it.  Time is a      *)
(* clock that advances at each use.                                        *)
(***************************************************************************)
EXTENDS Naturals, Sequences, FiniteSets, SequencesExt

CONSTANTS
  Hashes,
  SizeOf,      \* bytes of the blob of each hash
  Calls,       \* calls that may be made
  MaxBytes,    \* what an eviction leaves at most
  EvictEvery,  \* EVICTION_WRITE_INTERVAL
  None

ASSUME SizesAssumption ==
  /\ IsFiniteSet(Hashes) /\ SizeOf \in [Hashes -> Nat]
  /\ MaxBytes \in Nat /\ EvictEvery \in Nat \ {0}
ASSUME NoneAssumption == None \notin Nat /\ None \notin Calls

VARIABLES
  blobs,      \* hashes in the blobs table
  access,     \* the accesses table: time of last use, or None
  touched,    \* pendingLastAccessUpdates
  timer,      \* lastAccessFlushTimer is armed
  flushing,   \* lastAccessFlushPromise: when its batch was taken, or None
  call,       \* the calls
  writes,     \* writesSinceEviction
  evicting,   \* the eviction behind evictionPromise, or None
  now,        \* the clock
  used,       \* from when to when the last use of each blob really was
  added       \* bytes written since the running eviction counted

vars == <<blobs, access, touched, timer, flushing, call, writes, evicting, now, used, added>>
tables == <<blobs, access>>
touches == <<touched, timer, flushing>>
schedule == <<writes, evicting>>

Nothing == [h \in Hashes |-> None]
(* The bytes stored: as many of each blob as it is long.                   *)
Total(hs) == Cardinality(UNION {{h} \X (1..SizeOf[h]) : h \in hs})
Idle == [pc |-> "idle", kind |-> "none", hash |-> None, at |-> None, awaits |-> None,
         queue |-> << >>, excess |-> 0, removed |-> 0]
Done == [Idle EXCEPT !.pc = "done"]
(* A call whose first step is to flush, for a hash and a time if it has    *)
(* them.                                                                   *)
Starts(kind, h, t) == [Idle EXCEPT !.pc = "flush", !.kind = kind, !.hash = h, !.at = t]
(* A use that began at a time and ends now.                                *)
Uses(h, from) ==
  /\ used' = [used EXCEPT ![h] = [from |-> from, to |-> now]]
  /\ now' = now + 1
Goes(c, pc) == call' = [call EXCEPT ![c].pc = pc]

-----------------------------------------------------------------------------
(* get: a hit notes the use once the read is back, and arms the timer.     *)
Get(c, h) ==
  /\ call[c].pc = "idle"
  /\ call' = [call EXCEPT ![c] =
       IF h \in blobs THEN [Idle EXCEPT !.pc = "hit", !.kind = "get", !.hash = h] ELSE Done]
  /\ UNCHANGED <<tables, touches, schedule, now, used, added>>

(* scheduleLastAccessTouch.                                                *)
\* Slip: the timer is left to whoever flushes.
Touch_NoTimer(c) ==
  /\ call[c].pc = "hit"
  /\ touched' = [touched EXCEPT ![call[c].hash] = now]
  /\ UNCHANGED timer
  /\ call' = [call EXCEPT ![c] = Done]
  /\ UNCHANGED <<tables, flushing, schedule, added>>
  /\ Uses(call[c].hash, now)

Touch(c) ==
  /\ call[c].pc = "hit"
  /\ touched' = [touched EXCEPT ![call[c].hash] = now]
  /\ timer' = TRUE
  /\ call' = [call EXCEPT ![c] = Done]
  /\ UNCHANGED <<tables, flushing, schedule, added>>
  /\ Uses(call[c].hash, now)

-----------------------------------------------------------------------------
(* The timer starts a flush of its own.                                    *)
FlushTimer(c) ==
  /\ timer
  /\ timer' = FALSE
  /\ call[c].pc = "idle"
  /\ call' = [call EXCEPT ![c] = Starts("timer", None, None)]
  /\ UNCHANGED <<tables, touched, flushing, schedule, now, used, added>>

TimerDone(c) ==
  /\ call[c].kind = "timer"
  /\ call' = [call EXCEPT ![c] = Done]
  /\ UNCHANGED <<tables, schedule, now, used, added>>

-----------------------------------------------------------------------------
(* put: the time of use is taken on entry; both tables in one transaction. *)
Put(c, h) ==
  /\ call[c].pc = "idle"
  /\ call' = [call EXCEPT ![c] = Starts("put", h, now)]
  /\ now' = now + 1
  /\ UNCHANGED <<tables, touches, schedule, used, added>>

PutWrites(c) ==
  /\ call[c].kind = "put"
  /\ blobs' = blobs \cup {call[c].hash}
  /\ access' = [access EXCEPT ![call[c].hash] = call[c].at]
  /\ added' = IF call[c].hash \in blobs THEN added ELSE added + SizeOf[call[c].hash]
  /\ Goes(c, "written")
  /\ Uses(call[c].hash, call[c].at)
  /\ UNCHANGED schedule

(* scheduleEviction of idbStorage: every so many writes, unless one runs.  *)
Evict(d) == [call EXCEPT ![d] = Starts("evict", None, now)]

\* Slip: an eviction that runs is not waited for.
StartEviction_Always(c) ==
  \E d \in Calls :
    /\ call[d].pc = "idle"
    /\ call' = [Evict(d) EXCEPT ![c] = Done]
    /\ evicting' = d

StartEviction(c) ==
  IF evicting # None
    THEN call' = [call EXCEPT ![c] = Done] /\ UNCHANGED evicting
    ELSE \E d \in Calls :
           /\ call[d].pc = "idle"
           /\ call' = [Evict(d) EXCEPT ![c] = Done]
           /\ evicting' = d

\* Slip: the count is not reset.
CountWrite_NoReset == writes + 1
CountWrite == IF writes + 1 < EvictEvery THEN writes + 1 ELSE 0

PutReturns(c) ==
  /\ call[c].pc = "written"
  /\ writes' = CountWrite
  /\ IF writes + 1 < EvictEvery
       THEN call' = [call EXCEPT ![c] = Done] /\ UNCHANGED evicting
       ELSE StartEviction(c)
  /\ UNCHANGED <<tables, touches, now, used, added>>

-----------------------------------------------------------------------------
(* delete looks whether the blob is there, then removes both rows.         *)
Delete(c, h) ==
  /\ call[c].pc = "idle"
  /\ call' = [call EXCEPT ![c] = Starts("delete", h, None)]
  /\ UNCHANGED <<tables, touches, schedule, now, used, added>>

DeleteLooks(c) ==
  /\ call[c].kind = "delete"
  /\ IF call[c].hash \in blobs THEN Goes(c, "deleting") ELSE call' = [call EXCEPT ![c] = Done]
  /\ UNCHANGED <<tables, schedule, now, used, added>>

\* Slip: the blob is left behind.
RemoveRows_RowOnly(h) ==
  /\ access' = [access EXCEPT ![h] = None]
  /\ UNCHANGED blobs

RemoveRows(h) ==
  /\ blobs' = blobs \ {h}
  /\ access' = [access EXCEPT ![h] = None]

DeleteRemoves(c) ==
  /\ call[c].pc = "deleting"
  /\ RemoveRows(call[c].hash)
  /\ call' = [call EXCEPT ![c] = Done]
  /\ UNCHANGED <<touches, schedule, now, used, added>>

Clear(c) ==
  /\ call[c].pc = "idle"
  /\ call' = [call EXCEPT ![c] = Starts("clear", None, None)]
  /\ UNCHANGED <<tables, touches, schedule, now, used, added>>

ClearRemoves(c) ==
  /\ call[c].kind = "clear"
  /\ blobs' = {} /\ access' = Nothing
  /\ call' = [call EXCEPT ![c] = Done]
  /\ UNCHANGED <<schedule, now, used, added>>

-----------------------------------------------------------------------------
(* evict: the bytes are counted, the rows of accesses listed oldest first, *)
(* and removed one transaction at a time until enough bytes are gone.      *)
EvictReturns(c) ==
  /\ call' = [call EXCEPT ![c] = Done]
  /\ evicting' = IF evicting = c THEN None ELSE evicting
  /\ UNCHANGED writes

EvictCounts(c) ==
  /\ call[c].kind = "evict"
  /\ added' = 0
  /\ \/ Total(blobs) <= MaxBytes /\ EvictReturns(c)
     \/ /\ Total(blobs) > MaxBytes
        /\ call' = [call EXCEPT ![c].pc = "listing", ![c].excess = Total(blobs) - MaxBytes]
        /\ UNCHANGED schedule
  /\ UNCHANGED <<tables, now, used>>

OldestFirst(hs) ==
  {q \in [1..Cardinality(hs) -> hs] :
     /\ Range(q) = hs
     /\ \A i, j \in DOMAIN q : i < j => access[q[i]] <= access[q[j]]}

EvictLists(c) ==
  /\ call[c].pc = "listing"
  /\ \E q \in OldestFirst({h \in Hashes : access[h] # None}) :
       call' = [call EXCEPT ![c].pc = "removing", ![c].queue = q]
  /\ UNCHANGED <<tables, touches, schedule, now, used, added>>

\* Slip: stops one entry early.
Enough_Early(frame) == frame.removed + 1 >= frame.excess
Enough(frame) == frame.removed >= frame.excess

(* The next row: its blob is read for its size, if it is still there.      *)
EvictReads(c) ==
  /\ call[c].pc = "removing"
  /\ \/ /\ call[c].queue = << >> \/ Enough(call[c])
        /\ EvictReturns(c)
     \/ /\ call[c].queue # << >> /\ ~Enough(call[c])
        /\ LET h == Head(call[c].queue) IN
           call' = [call EXCEPT ![c].pc = "evicting", ![c].hash = h,
                      ![c].queue = Tail(@),
                      ![c].removed = IF h \in blobs THEN @ + SizeOf[h] ELSE @]
        /\ UNCHANGED schedule
  /\ UNCHANGED <<tables, touches, now, used, added>>

EvictRemoves(c) ==
  /\ call[c].pc = "evicting"
  /\ RemoveRows(call[c].hash)
  /\ Goes(c, "removing")
  /\ UNCHANGED <<touches, schedule, now, used, added>>

(* flushPendingLastAccessUpdates, which every writing call runs first and  *)
(* the timer runs alone.  A batch being written is waited for; whoever     *)
(* then finds noted uses takes them all, and whoever finds none goes on.   *)
AfterFlush(c) ==
  \/ PutWrites(c) \/ DeleteLooks(c) \/ ClearRemoves(c) \/ EvictCounts(c) \/ TimerDone(c)

TakeBatch(c) ==
  /\ touched # Nothing
  /\ access' = [h \in Hashes |-> IF touched[h] # None THEN touched[h] ELSE access[h]]
  /\ touched' = Nothing
  /\ flushing' = now
  /\ Goes(c, "flushing")
  /\ UNCHANGED <<blobs, schedule, now, used, added>>

\* Slip: a call goes on without flushing.
FlushOrGoOn_NoFlush(c) ==
  AfterFlush(c) /\ UNCHANGED <<touched, flushing>>

FlushOrGoOn(c) ==
  \/ TakeBatch(c)
  \/ touched = Nothing /\ AfterFlush(c) /\ UNCHANGED touched /\ flushing' = None

FlushBegins(c) ==
  /\ call[c].pc = "flush"
  /\ timer' = FALSE
  /\ \/ flushing = None /\ FlushOrGoOn(c)
     \/ /\ flushing # None
        /\ call' = [call EXCEPT ![c].pc = "awaiting", ![c].awaits = flushing]
        /\ UNCHANGED <<tables, touched, flushing, schedule, now, used, added>>

FlushAwaited(c) ==
  /\ call[c].pc = "awaiting"
  /\ flushing # call[c].awaits
  /\ UNCHANGED timer
  /\ \/ TakeBatch(c)
     \/ touched = Nothing /\ AfterFlush(c) /\ UNCHANGED <<touched, flushing>>

(* The batch is written; what was noted meanwhile is flushed as well.      *)
FlushReturns(c) ==
  /\ call[c].pc = "flushing"
  /\ timer' = (timer /\ touched = Nothing)
  /\ FlushOrGoOn(c)

-----------------------------------------------------------------------------
(* The page goes away at any moment; IndexedDB keeps whole transactions.   *)
(* Uses that were only noted are forgotten, so that such a blob may count  *)
(* as used at any time before.                                             *)
Restart ==
  /\ call' = [c \in Calls |-> IF call[c].pc = "idle" THEN Idle ELSE Done]
  /\ touched' = Nothing /\ timer' = FALSE /\ flushing' = None
  /\ writes' = 0 /\ evicting' = None
  /\ used' = [h \in Hashes |-> IF touched[h] = None THEN used[h] ELSE [used[h] EXCEPT !.from = 0]]
  /\ UNCHANGED <<tables, now, added>>

-----------------------------------------------------------------------------
Init ==
  /\ blobs = {} /\ access = Nothing /\ touched = Nothing
  /\ timer = FALSE /\ flushing = None
  /\ call = [c \in Calls |-> Idle]
  /\ writes = 0 /\ evicting = None /\ now = 0 /\ added = 0
  /\ used = [h \in Hashes |-> [from |-> 0, to |-> 0]]

CallBegins(c) ==
  \/ \E h \in Hashes : Get(c, h) \/ Put(c, h) \/ Delete(c, h)
  \/ Clear(c)
  \/ FlushTimer(c)

CallContinues(c) ==
  \/ Touch(c)
  \/ FlushBegins(c) \/ FlushAwaited(c) \/ FlushReturns(c)
  \/ PutReturns(c) \/ DeleteRemoves(c)
  \/ EvictLists(c) \/ EvictReads(c) \/ EvictRemoves(c)

Next == (\E c \in Calls : CallBegins(c) \/ CallContinues(c)) \/ Restart

Spec == Init /\ [][Next]_vars

-----------------------------------------------------------------------------
TypeOK ==
  /\ blobs \subseteq Hashes
  /\ access \in [Hashes -> Nat \cup {None}]
  /\ touched \in [Hashes -> Nat \cup {None}]
  /\ timer \in BOOLEAN
  /\ flushing \in Nat \cup {None}
  /\ evicting \in Calls \cup {None}
  /\ writes \in 0..(EvictEvery - 1)
  /\ now \in Nat /\ added \in Nat

(* Every blob has its row in accesses, through every interleaving of puts, *)
(* deletes, evictions and batches, and across restarts: an eviction finds  *)
(* blobs through those rows only, and would never free one without.        *)
EveryBlobEvictable == \A h \in blobs : access[h] # None

(* A noted use is not forgotten while the page lives: a timer is armed for *)
(* it, or a call is on its way to flush it.                                *)
TouchesNotStranded ==
  touched # Nothing =>
    timer \/ \E c \in Calls : call[c].pc \in {"flush", "awaiting", "flushing"}

(* One eviction at a time, however many writes return while it runs.       *)
OneEviction ==
  Cardinality({c \in Calls : call[c].kind = "evict"}) <= 1

(* Blobs, rows, noted uses and the eviction that is running stay           *)
(* consistent: no blob beyond an eviction's reach, no use stranded, no two *)
(* evictions at once.                                                      *)
StoreSound == TypeOK /\ EveryBlobEvictable /\ TouchesNotStranded /\ OneEviction

(* An eviction that runs to its end leaves no more than MaxBytes, plus     *)
(* what was written since it counted, although other calls delete blobs it *)
(* has listed, and rows it lists may be of blobs long gone.                *)
EvictionFreesEnough ==
  [][\A c \in Calls : (call[c].pc = "removing" /\ call'[c].pc = "done" /\ evicting' = None
                         /\ evicting = c /\ Enough(call[c])) =>
       Total(blobs) <= MaxBytes + added]_vars

(* Least recently used goes first: of two blobs whose last uses were over  *)
(* before the eviction began, it does not remove the one used later while  *)
(* the one used earlier stays.  Uses that a restart forgot do not count.   *)
LeastRecentlyUsedFirst ==
  [][\A c \in Calls : call[c].pc = "evicting" /\ call'[c].pc = "removing" =>
       LET h == call[c].hash IN
       \A g \in blobs \ {h} :
         (h \in blobs /\ used[h].to < call[c].at /\ used[g].to < call[c].at) =>
           ~(used[g].to < used[h].from)]_vars
=============================================================================
