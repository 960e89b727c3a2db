------------------------------ MODULE LiveMedia ------------------------------
(****************************************************************************)
(* packages/hashtree-worker/src/iris/mediaHandler.ts: the iris worker       *)
(* answers requests for media over a MessagePort, by the hash of a file     *)
(* ("cid"), as the service worker asks ("file"), or by its path in a tree   *)
(* whose root may still grow ("path").  Who finds no root in the cache      *)
(* waits for one together with everybody else, while treeRootSubscription.ts*)
(* looks it up.                                                             *)
(*                                                                          *)
(* The module follows one tree and one file in it.  A root is numbered by   *)
(* its age, and one number stands for no root.  A tick is one interval of   *)
(* the poll.                                                                *)
(****************************************************************************)
EXTENDS Naturals, Sequences, FiniteSets

CONSTANTS Requests,
          AsksOf,       \* what each may ask: [ask, start]
          Files,        \* what the file may be: its size under each root, or Absent
          LiveTimeout,  \* ticks: LIVE_STREAM_TIMEOUT
          RootTimeout,  \* ticks: ROOT_WAIT_TIMEOUT_MS
          Absent

ASSUME LiveAssumption ==
  /\ \A f \in Files : f \in Seq(Nat \cup {Absent}) /\ f # <<>>
  /\ \A r \in Requests : \A q \in AsksOf[r] : q.start \in Nat
  /\ Absent \notin Nat

NoRoot == 0

VARIABLES
  file,
  published,            \* the newest root on the relays
  cached, listening,   \* the cache of roots; whether the relays push updates to it
  waiting, age,         \* the entry of inflightRootWaits, and its age
  lookup,               \* resolveTreeRootNow: none, asking ndk, asking relays
  ask, at, again,      \* per request: its ask, where it is, whether it asks twice for the root
  root, offset, quiet, due,  \* and its root, position, ticks without activity, and its timer
  streams, cancelled,   \* activeMediaStreams, and those cancelled
  out,                  \* messages posted
  lacked                \* history: requests for which a read found nothing

rootVars == <<published, cached, listening, waiting, age, lookup>>
streamVars == <<quiet, due, streams, cancelled>>
liveVars == <<file, rootVars, ask, at, again, root, offset, streamVars, out, lacked>>

Roots == 1..Len(file)
Larger(a, b) == IF a < b THEN b ELSE a

Headers(size) == [type |-> "headers", from |-> 0, to |-> size]
Chunk(from, to) == [type |-> "chunk", from |-> from, to |-> to]
End(type) == [type |-> type, from |-> 0, to |-> 0]
Chunks(from, to) == IF from < to THEN <<Chunk(from, to)>> ELSE <<>>

Post(r, messages) == out' = [out EXCEPT ![r] = @ \o messages]
MoveTo(r, place) == at' = [at EXCEPT ![r] = place]
Fail(r) == MoveTo(r, "over") /\ Post(r, <<End("error")>>)

-----------------------------------------------------------------------------
(* The root.                                                                *)

(* waitForCachedRoot has returned v to the requests rs.  A request by path  *)
(* asks once more, in resolveMutableTreeEntry.                              *)
Rooted(rs, v) ==
  /\ root' = [r \in Requests |-> IF r \in rs THEN v ELSE root[r]]
  /\ again' = [r \in Requests |-> again[r] /\ (r \in rs => v = NoRoot)]
  /\ at' = [r \in Requests |->
       IF r \notin rs THEN at[r]
       ELSE IF v = NoRoot THEN "over" ELSE IF again[r] THEN "asking" ELSE "resolving"]
  /\ out' = [r \in Requests |->
       IF r \in rs /\ v = NoRoot THEN Append(out[r], End("error")) ELSE out[r]]

Waiters == {r \in Requests : at[r] = "waiting"}

\* finish: the wait is over, with a root or without.
FinishWait(v) ==
  /\ waiting' = FALSE /\ age' = 0
  /\ Rooted(IF waiting THEN Waiters ELSE {}, v)

\* getCachedRoot, whose miss is known only after the store has been read.
AskCachedRoot(r) ==
  /\ at[r] = "asking"
  /\ UNCHANGED <<file, rootVars, ask, offset, streamVars, lacked>>
  /\ IF cached # NoRoot THEN Rooted({r}, cached)
     ELSE MoveTo(r, "missed") /\ UNCHANGED <<again, root, out>>

\* Slip: the cache is not read again once the listener is there.
WaitForCachedRoot_Once(r) ==
  /\ at[r] = "missed"
  /\ UNCHANGED <<file, published, cached, ask, again, root, offset, streamVars, out, lacked>>
  /\ listening' = TRUE
  /\ waiting' = TRUE /\ age' = IF waiting THEN age ELSE 0
  /\ lookup' = IF waiting \/ lookup # "none" THEN lookup ELSE "ndk"
  /\ MoveTo(r, "waiting")

WaitForCachedRoot(r) ==
  /\ at[r] = "missed"
  /\ UNCHANGED <<file, published, cached, ask, offset, streamVars, lacked>>
  /\ IF waiting
     THEN MoveTo(r, "waiting") /\ UNCHANGED <<listening, waiting, age, lookup, again, root, out>>
     ELSE /\ listening' = TRUE
          /\ IF cached # NoRoot
             THEN Rooted({r}, cached) /\ UNCHANGED <<waiting, age, lookup>>
             ELSE /\ waiting' = TRUE /\ age' = 0
                  /\ lookup' = IF lookup = "none" THEN "ndk" ELSE lookup
                  /\ MoveTo(r, "waiting")
                  /\ UNCHANGED <<again, root, out>>

WaitTimesOut ==
  /\ waiting /\ age >= RootTimeout
  /\ FinishWait(NoRoot)
  /\ UNCHANGED <<file, published, cached, listening, lookup, ask, offset, streamVars, lacked>>

(* resolveTreeRootNow: NDK first, then the relays one by one; what comes is *)
(* put in the cache, which tells the listeners if it is newer.              *)
Resolved(v) ==
  /\ lookup # "none" /\ lookup' = "none"
  /\ cached' = Larger(cached, v)
  /\ FinishWait(cached')
  /\ UNCHANGED <<file, published, listening, ask, offset, streamVars, lacked>>

ResolvesNothing ==
  /\ lookup # "none"
  /\ lookup' = IF lookup = "ndk" THEN "relays" ELSE "none"
  /\ UNCHANGED <<file, published, cached, listening, waiting, age, ask, at, again, root, offset,
                 streamVars, out, lacked>>

\* handleTreeRootEvent of a newer root, whoever waits for one.
Updated(v) ==
  /\ listening /\ cached < v
  /\ cached' = v
  /\ FinishWait(v)
  /\ UNCHANGED <<file, published, listening, lookup, ask, offset, streamVars, lacked>>

Publish ==
  /\ published < Len(file) /\ published' = published + 1
  /\ UNCHANGED <<file, cached, listening, waiting, age, lookup, ask, at, again, root, offset,
                 streamVars, out, lacked>>

-----------------------------------------------------------------------------
(* Requests up to their headers.                                            *)

Ask(r, q) ==
  /\ at[r] = "idle"
  /\ ask' = [ask EXCEPT ![r] = q] /\ offset' = [offset EXCEPT ![r] = q.start]
  /\ again' = [again EXCEPT ![r] = (q.kind = "path")]
  /\ \/ q.kind = "cid" /\ \E v \in 1..published : file[v] # Absent /\ root' = [root EXCEPT ![r] = v]
                          /\ MoveTo(r, "sizing")
     \/ q.kind # "cid" /\ MoveTo(r, "asking") /\ UNCHANGED root
  /\ UNCHANGED <<file, rootVars, streamVars, out, lacked>>

Lack(r, read) == lacked' = IF read = "data" THEN lacked ELSE lacked \cup {r}
SizeOf(r) == file[root[r]]

\* resolveEntryWithinRoot; a directory that cannot be read has no entries.
Resolve(r, read) ==
  /\ at[r] = "resolving" /\ Lack(r, read)
  /\ IF read = "data" /\ SizeOf(r) # Absent THEN MoveTo(r, "sizing") /\ UNCHANGED out ELSE Fail(r)
  /\ UNCHANGED <<file, rootVars, ask, again, root, offset, streamVars>>

\* tree.getSize or getFileSize, and the headers.
Size(r, read) ==
  /\ at[r] = "sizing" /\ Lack(r, read)
  /\ IF read = "data"
     THEN /\ Post(r, <<Headers(SizeOf(r))>>)
          /\ MoveTo(r, IF ask[r].kind = "file" THEN "streaming" ELSE "fetching")
     ELSE IF ask[r].kind = "file" /\ read = "nothing" /\ offset[r] = 0
     THEN MoveTo(r, "buffering") /\ UNCHANGED out
     ELSE Fail(r)
  /\ UNCHANGED <<file, rootVars, ask, again, root, offset, streamVars>>

-----------------------------------------------------------------------------
(* Their contents.                                                          *)

\* Slip: the position moves although nothing was read.
Fetch_Skips(r, read) ==
  /\ at[r] = "fetching" /\ Lack(r, read)
  /\ UNCHANGED <<file, rootVars, ask, again, root, cancelled>>
  /\ CASE ask[r].kind = "cid" ->
            /\ MoveTo(r, "over")
            /\ Post(r, IF read = "data" THEN Append(Chunks(offset[r], SizeOf(r)), End("done"))
                                        ELSE <<End("error")>>)
            /\ UNCHANGED <<offset, quiet, due, streams>>
       [] ask[r].kind = "path" /\ read # "error" ->
            /\ MoveTo(r, "live")
            /\ Post(r, IF read = "data" THEN Chunks(offset[r], SizeOf(r)) ELSE <<>>)
            /\ offset' = [offset EXCEPT ![r] = Larger(@, SizeOf(r))]
            /\ quiet' = [quiet EXCEPT ![r] = 0] /\ due' = [due EXCEPT ![r] = FALSE]
            /\ streams' = streams \cup {r}
       [] OTHER -> Fail(r) /\ UNCHANGED <<offset, quiet, due, streams>>

(* A file read whole: all of it, and its end; by path the end is left open  *)
(* and the stream is registered.                                            *)
Fetch(r, read) ==
  /\ at[r] = "fetching" /\ Lack(r, read)
  /\ UNCHANGED <<file, rootVars, ask, again, root, cancelled>>
  /\ CASE ask[r].kind = "cid" ->
            /\ MoveTo(r, "over")
            /\ Post(r, IF read = "data" THEN Append(Chunks(offset[r], SizeOf(r)), End("done"))
                                        ELSE <<End("error")>>)
            /\ UNCHANGED <<offset, quiet, due, streams>>
       [] ask[r].kind = "path" /\ read # "error" ->
            /\ MoveTo(r, "live")
            /\ Post(r, IF read = "data" THEN Chunks(offset[r], SizeOf(r)) ELSE <<>>)
            /\ offset' = [offset EXCEPT ![r] = IF read = "data" THEN Larger(@, SizeOf(r)) ELSE @]
            /\ quiet' = [quiet EXCEPT ![r] = 0] /\ due' = [due EXCEPT ![r] = FALSE]
            /\ streams' = streams \cup {r}
       [] OTHER -> Fail(r) /\ UNCHANGED <<offset, quiet, due, streams>>

\* A file of unknown size, read whole before its headers.
Buffer(r, read) ==
  /\ at[r] = "buffering" /\ Lack(r, read)
  /\ IF read = "data"
     THEN MoveTo(r, "over") /\ Post(r, <<Headers(SizeOf(r)), Chunk(0, SizeOf(r)), End("done")>>)
     ELSE Fail(r)
  /\ UNCHANGED <<file, rootVars, ask, again, root, offset, streamVars>>

\* streamSwResponse: chunk after chunk; one that is not there ends it early.
StreamChunk(r, read) ==
  /\ at[r] = "streaming"
  /\ UNCHANGED <<file, rootVars, ask, again, root, streamVars>>
  /\ IF offset[r] >= SizeOf(r)
     THEN MoveTo(r, "over") /\ Post(r, <<End("done")>>) /\ UNCHANGED <<offset, lacked>>
     ELSE /\ Lack(r, read)
          /\ \/ /\ read = "data"
                /\ Post(r, <<Chunk(offset[r], offset[r] + 1)>>)
                /\ offset' = [offset EXCEPT ![r] = @ + 1] /\ UNCHANGED at
             \/ /\ read = "nothing"
                /\ MoveTo(r, "over") /\ Post(r, <<End("done")>>) /\ UNCHANGED offset
             \/ read = "error" /\ Fail(r) /\ UNCHANGED offset

-----------------------------------------------------------------------------
(* A live stream: every second it looks for more of the file.               *)

\* scheduleNext.
Sleep(r) ==
  /\ MoveTo(r, IF r \in cancelled THEN "over" ELSE "live")
  /\ due' = [due EXCEPT ![r] = FALSE]

\* checkForUpdates up to its first await.
Poll(r) ==
  /\ at[r] = "live" /\ due[r]
  /\ UNCHANGED <<file, rootVars, ask, again, offset, quiet, cancelled, lacked>>
  /\ IF r \in cancelled \/ quiet[r] > LiveTimeout
     THEN /\ MoveTo(r, "over")
          /\ streams' = streams \ {r}
          /\ Post(r, IF r \in cancelled THEN <<>> ELSE <<End("done")>>)
          /\ UNCHANGED <<root, due>>
     ELSE /\ root' = [root EXCEPT ![r] = cached]
          /\ MoveTo(r, "checking")
          /\ UNCHANGED <<due, streams, out>>

\* Slip: every look counts as activity.
Check_Active(r, read) ==
  /\ at[r] = "checking"
  /\ quiet' = [quiet EXCEPT ![r] = 0]
  /\ IF read = "data" /\ SizeOf(r) # Absent /\ SizeOf(r) > offset[r]
     THEN MoveTo(r, "reading") /\ UNCHANGED due
     ELSE Sleep(r)
  /\ UNCHANGED <<file, rootVars, ask, again, root, offset, streams, cancelled, out, lacked>>

Check(r, read) ==
  /\ at[r] = "checking"
  /\ IF read = "data" /\ SizeOf(r) # Absent /\ SizeOf(r) > offset[r]
     THEN MoveTo(r, "reading") /\ quiet' = [quiet EXCEPT ![r] = 0] /\ UNCHANGED due
     ELSE Sleep(r) /\ UNCHANGED quiet
  /\ UNCHANGED <<file, rootVars, ask, again, root, offset, streams, cancelled, out, lacked>>

ReadNew(r, read) ==
  /\ at[r] = "reading"
  /\ \/ /\ read = "data"
        /\ Post(r, <<Chunk(offset[r], SizeOf(r))>>)
        /\ offset' = [offset EXCEPT ![r] = SizeOf(r)]
     \/ read # "data" /\ UNCHANGED <<offset, out>>
  /\ Sleep(r)
  /\ UNCHANGED <<file, rootVars, ask, again, root, quiet, streams, cancelled, lacked>>

\* cancelMedia; one that comes before the stream is registered does nothing.
Cancel(r) ==
  /\ r \in streams
  /\ streams' = streams \ {r} /\ cancelled' = cancelled \cup {r}
  /\ UNCHANGED <<file, rootVars, ask, at, again, root, offset, quiet, due, out, lacked>>

-----------------------------------------------------------------------------
Polling(r) == at[r] \in {"live", "checking", "reading"}
Ages(r) == Polling(r) /\ (quiet[r] <= LiveTimeout \/ (at[r] = "live" /\ ~due[r]))

\* A second passes.
Tick ==
  /\ (waiting /\ age < RootTimeout) \/ \E r \in Requests : Ages(r)
  /\ age' = IF waiting /\ age < RootTimeout THEN age + 1 ELSE age
  /\ quiet' = [r \in Requests |->
       IF Polling(r) /\ quiet[r] <= LiveTimeout THEN quiet[r] + 1 ELSE quiet[r]]
  /\ due' = [r \in Requests |-> due[r] \/ at[r] = "live"]
  /\ UNCHANGED <<file, published, cached, listening, waiting, lookup, ask, at, again, root, offset,
                 streams, cancelled, out, lacked>>

LiveInit ==
  /\ file \in Files
  /\ published = 1 /\ cached \in {NoRoot, 1} /\ listening = FALSE
  /\ waiting = FALSE /\ age = 0 /\ lookup = "none"
  /\ ask = [r \in Requests |-> Absent] /\ at = [r \in Requests |-> "idle"]
  /\ again = [r \in Requests |-> FALSE] /\ root = [r \in Requests |-> NoRoot]
  /\ offset = [r \in Requests |-> 0] /\ quiet = [r \in Requests |-> 0]
  /\ due = [r \in Requests |-> FALSE]
  /\ streams = {} /\ cancelled = {}
  /\ out = [r \in Requests |-> <<>>] /\ lacked = {}

Reads == {"data", "nothing", "error"}

Advance(r) ==
  \/ AskCachedRoot(r) \/ WaitForCachedRoot(r) \/ Poll(r)
  \/ \E read \in Reads :
       \/ Resolve(r, read) \/ Size(r, read) \/ Fetch(r, read) \/ Buffer(r, read)
       \/ StreamChunk(r, read) \/ Check(r, read) \/ ReadNew(r, read)

LiveNext ==
  \/ \E r \in Requests : Advance(r) \/ Cancel(r) \/ \E q \in AsksOf[r] : Ask(r, q)
  \/ \E v \in 1..published : Resolved(v) \/ Updated(v)
  \/ ResolvesNothing \/ WaitTimesOut \/ Publish \/ Tick

LiveSpec == LiveInit /\ [][LiveNext]_liveVars

(* Promises settle and timers fire; relays may never answer, and pages may  *)
(* never cancel.  What is new of a live file must be readable some time, as *)
(* every poll that finds it counts as activity, whether it can be read or   *)
(* not: else the stream has no end.                                         *)
LiveFairness ==
  /\ \A r \in Requests : WF_liveVars(Advance(r)) /\ SF_liveVars(ReadNew(r, "data"))
  /\ WF_liveVars(WaitTimesOut) /\ WF_liveVars(Tick)

-----------------------------------------------------------------------------
(* Nobody waits for a root that is already there, which the update between  *)
(* the first look and the listener could cause, and nobody waits without    *)
(* the one wait that everybody shares.                                      *)
WaitsAreNeeded == (waiting => cached = NoRoot) /\ (Waiters # {} => waiting)

Ended(r) == \E i \in 1..Len(out[r]) : out[r][i].type \in {"done", "error"}

(* What a request gets is headers, then the file from where it asked,       *)
(* without gap or overlap under however many roots it was read, then one    *)
(* end, and nothing after it.                                               *)
ExactBytes ==
  \A r \in Requests : \A i \in 1..Len(out[r]) : LET m == out[r][i] IN
    /\ m.type = "headers" => i = 1
    /\ m.type = "chunk" =>
         i > 1 /\ m.from = (IF i = 2 THEN ask[r].start ELSE out[r][i - 1].to) /\ m.from <= m.to
    /\ m.type \in {"done", "error"} => i = Len(out[r])

(* A response that ends well has what its headers promised, except where a  *)
(* block could not be read.                                                 *)
DoneIsWhole ==
  \A r \in Requests : LET n == Len(out[r]) IN
    n > 2 /\ r \notin lacked /\ out[r][n].type = "done" => out[r][n - 1].to >= out[r][1].to

LiveSound == WaitsAreNeeded /\ ExactBytes /\ DoneIsWhole

(* Every request ends: by its last byte, an error, a cancel, or ten quiet   *)
(* seconds.                                                                 *)
RequestsEnd ==
  \A r \in Requests :
    []<>(at[r] = "idle" \/ (at[r] = "over" /\ (Ended(r) \/ r \in cancelled)))
==============================================================================
