---------------------------- MODULE BlossomStore ----------------------------
(****************************************************************************)
(* The client of Blossom servers (blossom.ts): puts run one after another,  *)
(* each uploads to all write servers at once; gets ask all read servers at  *)
(* once.  A server that failed is left alone for a while, doubling with     *)
(* every failure in a row; a hash whose puts failed too often is refused.   *)
(****************************************************************************)
EXTENDS Integers, Sequences, FiniteSets

CONSTANTS Servers,        \* 1..n, in their order in the configuration
          Configs,        \* the servers that take writes and those that are read: [writes, reads]
          Blobs,
          MaxHashAttempts,
          MaxBackoff,     \* in units of the first backoff
          PutIds, GetIds, \* bound: calls of put, 1..n in that order, and of get
          MaxErrors,      \* bound: errors in a row that are told apart
          MaxProbes,      \* bound: calls of has and of delete
          Nothing

ASSUME BlossomAssumption ==
  /\ \A c \in Configs : c.writes \subseteq Servers /\ c.reads \subseteq Servers
  /\ MaxHashAttempts \in Nat \ {0} /\ MaxBackoff \in Nat /\ MaxErrors \in Nat

VARIABLES
  writes, readFrom,  \* servers that take writes, that are read
  large,          \* whether blobs are looked up before they are uploaded
  stored,         \* of each server: the hashes it has
  errors, wait,   \* of each server: errors in a row, time left of its backoff
  attempts,       \* of each hash: its failed puts since one that uploaded it
  queue,          \* puts [id, hash] waiting for their turn
  put,            \* the put whose turn it is or Nothing: also its stage, servers, won, fresh
  answer,         \* of each put: none, queued, true, false, refused (which is false too), error
  got,            \* of each get: [hash, asked, result]
  probes,
  ever            \* history: the hashes a server ever had

health == <<errors, wait>>
calls == <<queue, put, answer, attempts>>
blossomVars == <<writes, readFrom, large, stored, errors, wait, attempts, queue, put, answer, got, probes, ever>>

InBackoff(s) == wait[s] > 0
WriteServers == {s \in writes : ~InBackoff(s)}
Smaller(a, b) == IF a < b THEN a ELSE b
Backoff(n) == IF 2 ^ (n - 1) \in 1..MaxBackoff THEN 2 ^ (n - 1) ELSE MaxBackoff

RecordError(s) ==
  /\ errors' = [errors EXCEPT ![s] = Smaller(@ + 1, MaxErrors)]
  /\ wait' = [wait EXCEPT ![s] = Backoff(errors'[s])]
RecordSuccess(s) == errors' = [errors EXCEPT ![s] = 0] /\ wait' = [wait EXCEPT ![s] = 0]
RecordHashFailure(h) == attempts' = [attempts EXCEPT ![h] = @ + 1]

BlossomInit ==
  /\ \E config \in Configs : writes = config.writes /\ readFrom = config.reads
  /\ large \in BOOLEAN
  /\ stored = [s \in Servers |-> {}] /\ ever = stored
  /\ errors = [s \in Servers |-> 0] /\ wait = errors
  /\ attempts = [h \in Blobs |-> 0]
  /\ queue = <<>> /\ put = Nothing /\ answer = [p \in PutIds |-> "none"]
  /\ got = [g \in GetIds |-> [hash |-> Nothing, asked |-> {}, result |-> "none"]]
  /\ probes = 0

-----------------------------------------------------------------------------
(* put. *)

QueuePut(p, h) ==
  /\ answer[p] = "none" /\ \A q \in PutIds : q < p => answer[q] # "none"
  /\ answer' = [answer EXCEPT ![p] = "queued"]
  /\ queue' = Append(queue, [id |-> p, hash |-> h])
  /\ UNCHANGED <<writes, readFrom, large, stored, errors, wait, attempts, put, got, probes, ever>>

\* Slip: a put that fails stops the queue.
Turn_Stops(how) == IF how = "error" THEN queue ELSE Tail(queue)
\* The turn passes on however a put ended.
Turn(how) == Tail(queue)
EndPut(p, how) == put' = Nothing /\ answer' = [answer EXCEPT ![p] = how] /\ queue' = Turn(how)

Stage(stage, servers) ==
  put' = [id |-> queue[1].id, hash |-> queue[1].hash, stage |-> stage, servers |-> servers,
          targets |-> WriteServers, won |-> FALSE, fresh |-> FALSE]

DoPut ==
  /\ put = Nothing /\ queue # <<>> /\ answer[queue[1].id] = "queued"
  /\ UNCHANGED <<writes, readFrom, large, stored, health, got, probes, ever>>
  /\ LET p == queue[1].id
         h == queue[1].hash IN
     IF attempts[h] >= MaxHashAttempts
     THEN EndPut(p, "refused") /\ UNCHANGED attempts
     ELSE IF WriteServers = {}
     THEN /\ EndPut(p, "error")
          /\ IF writes = {} THEN UNCHANGED attempts ELSE RecordHashFailure(h)
     ELSE /\ IF large THEN Stage("head", writes) ELSE Stage("upload", WriteServers)
          /\ UNCHANGED <<answer, attempts, queue>>

\* doPut throws before anything is uploaded: the data is not what the hash says,
\* or nothing signs the request.  Neither counts as an attempt.
PutThrows ==
  /\ \/ put = Nothing /\ queue # <<>> /\ attempts[queue[1].hash] < MaxHashAttempts
     \/ put # Nothing /\ put.stage = "upload" /\ put.servers = put.targets
  /\ EndPut(queue[1].id, "error")
  /\ UNCHANGED <<writes, readFrom, large, stored, health, attempts, got, probes, ever>>

\* hasOnWriteServers, one server at a time: the blob is there, or it is not, or
\* the server fails; one that is in backoff by now is passed over.  The servers
\* to upload to were chosen before.
IsFirst(s, servers) == s \in servers /\ \A other \in servers : s <= other
HeadAnswers(s, how) ==
  /\ put # Nothing /\ put.stage = "head" /\ IsFirst(s, put.servers)
  /\ InBackoff(s) => how = "passed"
  /\ ~InBackoff(s) => how \in {IF put.hash \in stored[s] THEN "there" ELSE "missing", "failed"}
  /\ UNCHANGED <<writes, readFrom, large, stored, attempts, got, probes, ever>>
  /\ CASE how = "there" -> RecordSuccess(s)
       [] how = "failed" -> RecordError(s)
       [] OTHER -> UNCHANGED health
  /\ IF how = "there" THEN EndPut(put.id, "false")
     ELSE /\ put' = IF put.servers = {s} THEN [put EXCEPT !.stage = "upload", !.servers = put.targets]
                    ELSE [put EXCEPT !.servers = @ \ {s}]
          /\ UNCHANGED <<answer, queue>>

\* Slip: one answer, good or bad, is taken for success.
Succeeded_Any(won, ok) == TRUE
Succeeded(won, ok) == won \/ ok

\* One server answers the upload: stored as new, there already, or failed,
\* when it may have stored it all the same.
UploadAnswers(s, how) ==
  /\ put # Nothing /\ put.stage = "upload" /\ s \in put.servers
  /\ how = "there" => put.hash \in stored[s]
  /\ UNCHANGED <<writes, readFrom, large, got, probes>>
  /\ IF how \in {"new", "there"} THEN RecordSuccess(s) ELSE RecordError(s)
  /\ stored' = [stored EXCEPT ![s] = IF how = "failed" THEN @ ELSE @ \cup {put.hash}]
  /\ ever' = [x \in Servers |-> ever[x] \cup stored'[x]]
  /\ LET left == put.servers \ {s}
         won == Succeeded(put.won, how \in {"new", "there"})
         fresh == put.fresh \/ how = "new" IN
     IF left # {}
     THEN put' = [put EXCEPT !.servers = left, !.won = won, !.fresh = fresh] /\ UNCHANGED <<answer, queue, attempts>>
     ELSE /\ EndPut(put.id, IF ~won THEN "error" ELSE IF fresh THEN "true" ELSE "false")
          /\ IF won THEN attempts' = [attempts EXCEPT ![put.hash] = 0] ELSE RecordHashFailure(put.hash)

-----------------------------------------------------------------------------
(* get, has and delete. *)

GetBlob(g, h) ==
  /\ got[g].result = "none"
  /\ LET asked == {s \in readFrom : ~InBackoff(s)} IN
     got' = [got EXCEPT ![g] = [hash |-> h, asked |-> asked, result |-> IF asked = {} THEN "null" ELSE "open"]]
  /\ UNCHANGED <<writes, readFrom, large, stored, health, calls, probes, ever>>

\* A server answers with the blob, without it, or fails or sends something
\* else; the first blob is the result, answers after it still count for the
\* server's health.
GetAnswers(g, s, how) ==
  /\ s \in got[g].asked
  /\ how \in {IF got[g].hash \in stored[s] THEN "there" ELSE "missing", "failed"}
  /\ got' = [got EXCEPT ![g].asked = @ \ {s},
                        ![g].result = IF @ # "open" THEN @
                                      ELSE IF how = "there" THEN "data"
                                      ELSE IF got[g].asked = {s} THEN "null" ELSE @]
  /\ CASE how = "there" -> RecordSuccess(s)
       [] how = "failed" -> RecordError(s)
       [] OTHER -> UNCHANGED health
  /\ UNCHANGED <<writes, readFrom, large, stored, calls, probes, ever>>

\* A server that has asks, one that is read and not in backoff, has a blob or
\* fails; a blob it does not have changes nothing.
Has(s, failed) ==
  /\ probes < MaxProbes /\ probes' = probes + 1
  /\ s \in readFrom /\ ~InBackoff(s) /\ (failed \/ stored[s] # {})
  /\ IF failed THEN RecordError(s) ELSE RecordSuccess(s)
  /\ UNCHANGED <<writes, readFrom, large, stored, calls, got, ever>>

\* delete asks the first write server only, in backoff or not.
DeleteBlob(h) ==
  /\ probes < MaxProbes /\ probes' = probes + 1
  /\ \E s \in writes : IsFirst(s, writes) /\ stored' = [stored EXCEPT ![s] = @ \ {h}]
  /\ UNCHANGED <<writes, readFrom, large, health, calls, got, ever>>

BackoffTick ==
  /\ \E s \in Servers : InBackoff(s)
  /\ wait' = [s \in Servers |-> IF InBackoff(s) THEN wait[s] - 1 ELSE 0]
  /\ UNCHANGED <<writes, readFrom, large, stored, errors, calls, got, probes, ever>>

BlossomNext ==
  \/ \E p \in PutIds, h \in Blobs : QueuePut(p, h)
  \/ DoPut \/ PutThrows
  \/ \E s \in Servers, how \in {"there", "missing", "failed", "passed"} : HeadAnswers(s, how)
  \/ \E s \in Servers, how \in {"new", "there", "failed", "lost"} : UploadAnswers(s, how)
  \/ \E g \in GetIds, h \in Blobs : GetBlob(g, h)
  \/ \E g \in GetIds, s \in Servers, how \in {"there", "missing", "failed"} : GetAnswers(g, s, how)
  \/ \E s \in Servers, failed \in BOOLEAN : Has(s, failed)
  \/ \E h \in Blobs : DeleteBlob(h)
  \/ BackoffTick

BlossomSpec == BlossomInit /\ [][BlossomNext]_blossomVars
\* Servers answer; an upload has no timeout and one that is never answered
\* would hold the queue.
BlossomFairness ==
  WF_blossomVars(\/ DoPut
                 \/ \E s \in Servers, how \in {"there", "missing", "failed", "passed"} : HeadAnswers(s, how)
                 \/ \E s \in Servers, how \in {"new", "there", "failed", "lost"} : UploadAnswers(s, how))
BlossomFairSpec == BlossomSpec /\ BlossomFairness

-----------------------------------------------------------------------------
(* Properties. *)

BlossomTypeOK ==
  /\ errors \in [Servers -> 0..MaxErrors] /\ wait \in [Servers -> 0..MaxBackoff]
  /\ attempts \in [Blobs -> 0..MaxHashAttempts]
  /\ put = Nothing \/ put.stage \in {"head", "upload"}

\* A put that resolves says what is true: some write server took the blob or
\* had it, unless the hash is refused, which is said in the same way as that the
\* blob is there, and only after so many failed puts of it since the last upload
\* of it that some server took (blossom.ts:205-352).
PutsAreTrue ==
  []BlossomTypeOK /\ [][\A p \in PutIds : answer'[p] # answer[p] =>
    CASE answer'[p] \in {"true", "false"} -> \E s \in writes : queue[1].hash \in ever'[s]
      [] answer'[p] = "refused" -> attempts[queue[1].hash] = MaxHashAttempts
      [] OTHER -> TRUE]_blossomVars

\* Every put is answered, in its turn, whatever happened to those before it, as
\* long as servers answer: again and again none of them is queued (blossom.ts:194-203).
PutsSettle == []<>(\A p \in PutIds : answer[p] # "queued")
=============================================================================
