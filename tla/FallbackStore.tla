---------------------------- MODULE FallbackStore ----------------------------
(****************************************************************************)
(* The store that reads through to slower ones (fallback.ts), for one hash. *)
(* A read that misses the primary store asks all fallbacks at once, each    *)
(* for as long as a timeout; reads that miss meanwhile join it.  Whatever a *)
(* fallback answers, in time or not, is put in the primary store.           *)
(****************************************************************************)
EXTENDS Integers, FiniteSets

CONSTANTS Stores,   \* fallbacks
          Readers,  \* calls of get
          MaxReads, \* bound: reads of the fallbacks
          MaxChanges, \* bound: puts, deletes and changes of the list
          NoRead

ASSUME FallbackAssumption == MaxReads \in Nat /\ NoRead \notin 1..MaxReads

VARIABLES
  primary,   \* whether the primary store has the block
  has,       \* the fallbacks that have it
  fallbacks, \* the list, as a set
  reader,    \* of each get: [at, read], and at the end what it returns
  reads,     \* how many reads were started
  fetch,     \* of each read and fallback: no, asked, timedOut, answered
  result,    \* of each read: open, data, null
  inflight,  \* the entry of inflightReads: a read or NoRead
  puts,      \* puts to the primary store on their way
  changes

fallbackVars == <<primary, has, fallbacks, reader, reads, fetch, result, inflight, puts, changes>>

Reads == 1..MaxReads
At(at, read) == [at |-> at, read |-> read]

FallbackInit ==
  /\ primary = FALSE /\ has \in SUBSET Stores /\ fallbacks = Stores
  /\ reader = [r \in Readers |-> At("idle", NoRead)]
  /\ reads = 0 /\ fetch = [n \in Reads |-> [s \in Stores |-> "no"]]
  /\ result = [n \in Reads |-> "open"] /\ inflight = NoRead
  /\ puts = 0 /\ changes = 0

Get(r) ==
  /\ reader[r].at = "idle"
  /\ reader' = [reader EXCEPT ![r] = At("primary", NoRead)]
  /\ UNCHANGED <<primary, has, fallbacks, reads, fetch, result, inflight, puts, changes>>

\* Slip: a read in flight is not joined.
Joined_None == NoRead
Joined == inflight

\* The primary store answers; what it lacks is read from the fallbacks.
PrimaryAnswers(r) ==
  /\ reader[r].at = "primary"
  /\ UNCHANGED <<primary, has, fallbacks, result, puts, changes>>
  /\ IF primary \/ fallbacks = {}
     THEN /\ reader' = [reader EXCEPT ![r] = At(IF primary THEN "data" ELSE "null", NoRead)]
          /\ UNCHANGED <<reads, fetch, inflight>>
     ELSE IF Joined # NoRead
     THEN reader' = [reader EXCEPT ![r] = At("waiting", Joined)] /\ UNCHANGED <<reads, fetch, inflight>>
     ELSE /\ reads < MaxReads /\ reads' = reads + 1
          /\ fetch' = [fetch EXCEPT ![reads'] = [s \in Stores |-> IF s \in fallbacks THEN "asked" ELSE "no"]]
          /\ inflight' = reads'
          /\ reader' = [reader EXCEPT ![r] = At("waiting", reads')]

Pending(n, f) == {s \in Stores : f[n][s] = "asked"}
\* Data ends a read at once, the last of the others ends it with null.
Ends(n, f, data) ==
  result' = [result EXCEPT ![n] = IF @ # "open" THEN @
                                  ELSE IF data THEN "data"
                                  ELSE IF Pending(n, f) = {} THEN "null" ELSE @]

\* A fallback answers or fails, also after its timeout.
Answer(n, s, fails) ==
  /\ fetch[n][s] \in {"asked", "timedOut"}
  /\ LET data == s \in has /\ ~fails
         answered == [fetch EXCEPT ![n][s] = "answered"] IN
     /\ fetch' = answered
     /\ puts' = puts + (IF data THEN 1 ELSE 0)
     /\ IF fetch[n][s] = "asked" THEN Ends(n, answered, data) ELSE UNCHANGED result
  /\ UNCHANGED <<primary, has, fallbacks, reader, reads, inflight, changes>>

Timeout(n, s) ==
  /\ fetch[n][s] = "asked"
  /\ LET timedOut == [fetch EXCEPT ![n][s] = "timedOut"] IN
     fetch' = timedOut /\ Ends(n, timedOut, FALSE)
  /\ UNCHANGED <<primary, has, fallbacks, reader, reads, inflight, puts, changes>>

\* Slip: the entry of a read stays when it found nothing.
Forgets_Data(n) == result[n] = "data"
Forgets(n) == result[n] # "open"

\* A read that ended leaves the map, which holds it and no other, and then
\* everyone who joined it goes on.
Finish(n) ==
  /\ inflight = n /\ Forgets(n)
  /\ inflight' = NoRead
  /\ UNCHANGED <<primary, has, fallbacks, reader, reads, fetch, result, puts, changes>>

ReadResumes(r) ==
  /\ reader[r].at = "waiting" /\ reader[r].read # inflight
  /\ result[reader[r].read] # "open"
  /\ reader' = [reader EXCEPT ![r] = At(result[@.read], @.read)]
  /\ UNCHANGED <<primary, has, fallbacks, reads, fetch, result, inflight, puts, changes>>

\* The put of an answer; the primary store may refuse it.
Cached(refused) ==
  /\ puts > 0 /\ puts' = puts - 1
  /\ primary' = (primary \/ ~refused)
  /\ UNCHANGED <<has, fallbacks, reader, reads, fetch, result, inflight, changes>>

Change ==
  /\ changes < MaxChanges /\ changes' = changes + 1
  /\ UNCHANGED <<reader, reads, fetch, result, inflight, puts>>

\* put stores the block here and offers it to the fallbacks, any of which may fail.
Put ==
  /\ Change /\ primary' = TRUE
  /\ \E got \in SUBSET fallbacks : has' = has \cup got
  /\ UNCHANGED fallbacks

Delete == Change /\ primary' = FALSE /\ UNCHANGED <<has, fallbacks>>

AddFallback(s) == Change /\ s \notin fallbacks /\ fallbacks' = fallbacks \cup {s} /\ UNCHANGED <<primary, has>>
RemoveFallback(s) == Change /\ s \in fallbacks /\ fallbacks' = fallbacks \ {s} /\ UNCHANGED <<primary, has>>

FallbackNext ==
  \/ \E r \in Readers : Get(r) \/ PrimaryAnswers(r) \/ ReadResumes(r)
  \/ \E n \in Reads, s \in Stores : Timeout(n, s) \/ \E fails \in BOOLEAN : Answer(n, s, fails)
  \/ \E n \in Reads : Finish(n)
  \/ \E refused \in BOOLEAN : Cached(refused)
  \/ Put \/ Delete
  \/ \E s \in Stores : AddFallback(s) \/ RemoveFallback(s)

FallbackSpec == FallbackInit /\ [][FallbackNext]_fallbackVars
\* Timers fire and promises go on; a fallback need never answer.
FallbackFairness ==
  /\ \A r \in Readers : WF_fallbackVars(PrimaryAnswers(r) \/ ReadResumes(r))
  /\ \A n \in Reads : WF_fallbackVars(Finish(n) \/ \E s \in Stores : Timeout(n, s))
FallbackFairSpec == FallbackSpec /\ FallbackFairness

-----------------------------------------------------------------------------
(* Properties. *)

FallbackTypeOK ==
  /\ primary \in BOOLEAN /\ has \subseteq Stores /\ fallbacks \subseteq Stores
  /\ inflight \in Reads \cup {NoRead} /\ puts \in Nat
  /\ \A r \in Readers : reader[r].at \in {"idle", "primary", "waiting", "data", "null"} /\ reader[r].read \in Reads \cup {NoRead}

\* The block is asked for by one read at a time: whoever misses while a read is
\* open joins it, and a read that went leaves the newer one alone; a get returns
\* null only if no fallback answered its read with data in time (fallback.ts:64-88).
ReadsShared ==
  /\ FallbackTypeOK
  /\ \A n \in 1..reads : result[n] = "open" => inflight = n
  /\ Cardinality({n \in 1..reads : result[n] = "open"}) <= 1
  /\ \A r \in Readers : reader[r].at = "null" /\ reader[r].read # NoRead =>
       /\ Pending(reader[r].read, fetch) = {}
       /\ result[reader[r].read] = "null"

\* Every get returns, also when no fallback ever answers and when the list of
\* fallbacks changes meanwhile: again and again none is under way; only the bound on reads may hold one back
\* (fallback.ts:105-152).
ReadsSettle ==
  []<>((reads = MaxReads /\ inflight = NoRead)
        \/ \A r \in Readers : reader[r].at \in {"idle", "data", "null"})
=============================================================================
