------------------------------ MODULE WorkerRpc ------------------------------
(****************************************************************************)
(* The worker of a tab and the client that calls it: client.ts (pending     *)
(* calls and their timeouts, init, close, worker errors, the reverse        *)
(* p2pFetch) and worker.ts (its storage and peer allowlist, putBlob,        *)
(* getBlob, init and close while other requests are still being handled).   *)
(*                                                                          *)
(* One block is followed.  The two ends are threads: each handles one       *)
(* message or timer at a time, and a promise that settled is followed up    *)
(* before the next message or timer, though the app may call in between.    *)
(* What a call does after an await is a step of its own.                    *)
(****************************************************************************)
EXTENDS Integers, Sequences, FiniteSets

CONSTANTS Calls,        \* one value per call the app makes
          KindsOf,      \* what each call may ask: "init", "close", "put", "get", "getForPeer"
          MaxWorkers,   \* bound: workers spawned
          Nil

Kinds == {"init", "close", "put", "get", "getForPeer"}

ASSUME RpcAssumption ==
  /\ MaxWorkers \in Nat
  /\ \A c \in Calls : KindsOf[c] \subseteq Kinds
  /\ Nil \notin Calls /\ Nil # "pending"

VARIABLES
  at,          \* client: where each call stands
  kind,        \* client: what each call asks
  initOf,      \* client: whose initPromise a call awaits
  inits,       \* client: state of the initPromise each call made
  initPromise, \* client: the call that made the current initPromise
  worker,      \* client: the current worker, 0 for null
  spawned,     \* client: workers made so far
  pending,     \* client: <<call, "init" or "request">> with a running timeout
  toWorker, toClient,   \* the message channel of the current worker
  session,     \* worker: the storage opened by the last init, 0 for null
  sessions,    \* worker: how many were opened
  marked,      \* worker: the block is in peerShareableEncryptedHashes
  jobs,        \* worker: requests whose handler awaits something
  fetches,     \* worker: pendingP2PFetches with a running timeout
  held,        \* the IndexedDB store has the block
  uploads,     \* history: encrypted uploads this worker has begun
  since,       \* history: the worker there was when a call began, its own included
  crossed      \* history: closes during which another close ended

client == <<at, kind, initOf, inits, initPromise, worker, spawned, pending, since, crossed>>
workerVars == <<session, sessions, marked, jobs, fetches, held, uploads>>
rpcVars == <<client, workerVars, toWorker, toClient>>

\* What comes back for a block: nothing, its content, or other bytes.
Replies == {"none", "good", "bad"}

RpcInit ==
  /\ at = [c \in Calls |-> "idle"]
  /\ kind = [c \in Calls |-> Nil]
  /\ initOf = [c \in Calls |-> Nil]
  /\ inits = [c \in Calls |-> Nil]
  /\ initPromise = Nil
  /\ worker = 0 /\ spawned = 0 /\ pending = {}
  /\ since = [c \in Calls |-> 0] /\ crossed = {}
  /\ toWorker = <<>> /\ toClient = <<>>
  /\ session = 0 /\ sessions = 0 /\ marked = FALSE
  /\ jobs = [c \in Calls |-> Nil] /\ fetches = {} /\ uploads = {}
  /\ held \in BOOLEAN

-----------------------------------------------------------------------------
(* The client. *)

\* request awaits the init promise; a close that gets no answer goes on all the same.
EndOf(k) == IF k = "close" THEN "closing" ELSE "failed"

\* Promises that have settled and whose continuation has not run yet.
Continuing(c) == \/ at[c] = "init" /\ inits[initOf[c]] # "pending"
                 \/ at[c] = "closing"
FollowedUp == \A c \in Calls : ~Continuing(c)

\* initIfNeeded: join the promise there is, or spawn a worker and send init.
JoinInit(c) ==
  /\ initPromise # Nil
  /\ initOf' = [initOf EXCEPT ![c] = initPromise]
  /\ at' = [at EXCEPT ![c] = "init"]
  /\ UNCHANGED <<inits, initPromise, worker, spawned, pending, toWorker>>

SpawnAndInit(c) ==
  /\ initPromise = Nil
  /\ spawned < MaxWorkers
  /\ spawned' = spawned + 1 /\ worker' = spawned + 1
  /\ initPromise' = c
  /\ inits' = [inits EXCEPT ![c] = "pending"]
  /\ pending' = pending \cup {<<c, "init">>}
  /\ toWorker' = Append(toWorker, [type |-> "init", call |-> c])
  /\ initOf' = [initOf EXCEPT ![c] = c]
  /\ at' = [at EXCEPT ![c] = "init"]

\* The worker script cannot be started: nothing but this call notices.
SpawnFails(c, k) ==
  /\ initPromise = Nil
  /\ at' = [at EXCEPT ![c] = EndOf(k)]
  /\ UNCHANGED <<initOf, inits, initPromise, worker, spawned, pending, toWorker>>

Begin(c) ==
  /\ at[c] = "idle"
  /\ \E k \in KindsOf[c] :
       /\ kind' = [kind EXCEPT ![c] = k]
       /\ JoinInit(c) \/ SpawnAndInit(c) \/ SpawnFails(c, k)
  /\ since' = [since EXCEPT ![c] = worker']
  /\ UNCHANGED <<workerVars, toClient, crossed>>

\* The continuation of initIfNeeded: the call fails with the init, has nothing
\* more to do, finds the worker gone, or is sent with a timeout of its own.
Proceed(c) ==
  /\ at[c] = "init" /\ inits[initOf[c]] # "pending"
  /\ \/ /\ inits[initOf[c]] = "failed" \/ (worker = 0 /\ kind[c] # "init")
        /\ at' = [at EXCEPT ![c] = EndOf(kind[c])]
        /\ UNCHANGED <<pending, toWorker>>
     \/ /\ inits[initOf[c]] = "ready" /\ kind[c] = "init"
        /\ at' = [at EXCEPT ![c] = "done"]
        /\ UNCHANGED <<pending, toWorker>>
     \/ /\ inits[initOf[c]] = "ready" /\ kind[c] # "init" /\ worker # 0
        /\ at' = [at EXCEPT ![c] = "sent"]
        /\ pending' = pending \cup {<<c, "request">>}
        /\ toWorker' = Append(toWorker, [type |-> kind[c], call |-> c])
  /\ UNCHANGED <<kind, initOf, inits, initPromise, worker, spawned, since, crossed, workerVars, toClient>>

\* Forgetting a pending entry without rejecting it.
Settle_Forgets(P, outcome) ==
  /\ pending' = pending \ P
  /\ UNCHANGED <<inits, at>>

\* resolvePending, rejectPending and the timeouts, for a set P of entries.
Settle(P, outcome) ==
  /\ pending' = pending \ P
  /\ inits' = [c \in Calls |-> IF <<c, "init">> \in P /\ <<c, "init">> \in pending
                               THEN IF outcome = "done" THEN "ready" ELSE "failed"
                               ELSE inits[c]]
  /\ at' = [c \in Calls |-> IF <<c, "request">> \notin P \cap pending THEN at[c]
                            ELSE IF kind[c] = "close" THEN "closing" ELSE outcome]

\* A failed init clears the promise, so that the next call spawns a worker beside the old one.
Timeout_Retries(p) ==
  /\ FollowedUp /\ p \in pending
  /\ Settle({p}, "failed")
  /\ initPromise' = IF p[2] = "init" THEN Nil ELSE initPromise
  /\ UNCHANGED <<kind, initOf, worker, spawned, since, crossed, workerVars, toWorker, toClient>>

Timeout(p) ==
  /\ FollowedUp /\ p \in pending
  /\ Settle({p}, "failed")
  /\ UNCHANGED <<kind, initOf, initPromise, worker, spawned, since, crossed, workerVars, toWorker, toClient>>

WorkerError ==
  /\ FollowedUp /\ worker # 0
  /\ Settle(pending, "failed")
  /\ UNCHANGED <<kind, initOf, initPromise, worker, spawned, since, crossed, workerVars, toWorker, toClient>>

\* worker.onmessage: an answer, or a request to ask the mesh for the block.  The
\* mesh may answer whenever it likes and with anything; what it answers with
\* goes to the worker of that moment, if there is one.
ClientReceives ==
  /\ FollowedUp /\ toClient # <<>>
  /\ toClient' = Tail(toClient)
  /\ LET m == Head(toClient) IN
     IF m.type = "p2pFetch"
     THEN /\ UNCHANGED <<pending, inits, at>>
          /\ \/ \E r \in Replies : toWorker' = Append(toWorker, [type |-> "p2pFetchResult", call |-> m.call, data |-> r])
             \/ UNCHANGED toWorker
     ELSE /\ Settle({<<m.call, IF m.type = "ready" THEN "init" ELSE "request">>},
                    IF m.type = "error" THEN "failed" ELSE "done")
          /\ UNCHANGED toWorker
  /\ UNCHANGED <<kind, initOf, initPromise, worker, spawned, since, crossed, workerVars>>

\* close rejects nothing, and the timers of the calls are cleared with the worker.
CloseEnds_Quietly(c) ==
  /\ at[c] = "closing"
  /\ worker' = 0 /\ initPromise' = Nil /\ pending' = {}
  /\ at' = [at EXCEPT ![c] = "done"]
  /\ toWorker' = <<>> /\ toClient' = <<>>
  /\ session' = 0 /\ marked' = FALSE /\ fetches' = {} /\ uploads' = {}
  /\ jobs' = [d \in Calls |-> Nil]
  /\ UNCHANGED <<kind, initOf, inits, spawned, since, crossed, sessions, held>>

\* The rest of close: whatever worker there is now is terminated, everything
\* pending is rejected.
CloseEnds(c) ==
  /\ at[c] = "closing"
  /\ worker' = 0 /\ initPromise' = Nil
  /\ pending' = {}
  /\ inits' = [d \in Calls |-> IF <<d, "init">> \in pending THEN "failed" ELSE inits[d]]
  /\ at' = [d \in Calls |-> IF d = c THEN "done"
                            ELSE IF <<d, "request">> \in pending THEN EndOf(kind[d]) ELSE at[d]]
  /\ toWorker' = <<>> /\ toClient' = <<>>
  /\ session' = 0 /\ marked' = FALSE /\ fetches' = {} /\ uploads' = {}
  /\ jobs' = [d \in Calls |-> Nil]
  /\ crossed' = crossed \cup {d \in Calls \ {c} : kind[d] = "close" /\ at[d] \in {"init", "sent", "closing"}}
  /\ UNCHANGED <<kind, initOf, spawned, since, sessions, held>>

ClientStep == \/ \E c \in Calls : Begin(c) \/ Proceed(c) \/ CloseEnds(c)
              \/ \E p \in pending : Timeout(p)
              \/ WorkerError
              \/ ClientReceives

-----------------------------------------------------------------------------
(* The worker. *)

Reply(c, type, data) == toClient' = Append(toClient, [type |-> type, call |-> c, data |-> data])
Job(c, where, got) == jobs' = [jobs EXCEPT ![c] = [at |-> where, session |-> session, data |-> got]]
EndJob(c) == jobs' = [jobs EXCEPT ![c] = Nil]

\* resetState: storage, Blossom client and tree go, pending fetches are forgotten.
ResetState == session' = 0 /\ marked' = FALSE /\ fetches' = {}

HandleInit(c) ==
  /\ marked' = FALSE /\ fetches' = {}
  /\ sessions' = sessions + 1 /\ session' = sessions + 1
  /\ toClient' = Append(toClient, [type |-> "ready", call |-> c, data |-> "none"])
  /\ UNCHANGED <<jobs, held, uploads>>

HandleClose(c) ==
  /\ ResetState
  /\ Reply(c, "void", "none")
  /\ UNCHANGED <<sessions, jobs, held, uploads>>

\* An encrypted putBlob; encryption is awaited first.
HandlePut(c) ==
  /\ IF session = 0 THEN Reply(c, "error", "none") /\ UNCHANGED <<jobs, uploads>>
     ELSE Job(c, "encrypting", "none") /\ uploads' = uploads \cup {c} /\ UNCHANGED toClient
  /\ UNCHANGED <<session, sessions, marked, fetches, held>>

HandleGet(c, forPeer) ==
  /\ IF session = 0 \/ (forPeer /\ ~marked)
     THEN Reply(c, "blob", "none") /\ UNCHANGED jobs
     ELSE Job(c, "reading", "none") /\ UNCHANGED toClient
  /\ UNCHANGED <<session, sessions, marked, fetches, held, uploads>>

\* The bytes go to the storage there is now; without one the call on null throws.
KeepFetched(c, where, r) ==
  IF session = 0
  THEN EndJob(c) /\ Reply(c, IF where = "keepBlossom" THEN "error" ELSE "blob", "none")
  ELSE Job(c, where, r) /\ UNCHANGED toClient

\* resolveP2PFetch and the reader that awaits it.
EndFetch(c, r) ==
  /\ fetches' = fetches \ {c}
  /\ IF c \notin fetches THEN UNCHANGED <<jobs, toClient>>
     ELSE IF r = "none" THEN EndJob(c) /\ Reply(c, "blob", "none")
     ELSE KeepFetched(c, "keepPeer", r)
  /\ UNCHANGED <<session, sessions, marked, held, uploads>>

WorkerReceives ==
  /\ worker # 0 /\ toWorker # <<>>
  /\ toWorker' = Tail(toWorker)
  /\ LET m == Head(toWorker) IN
     \/ m.type = "init" /\ HandleInit(m.call)
     \/ m.type = "close" /\ HandleClose(m.call)
     \/ m.type = "put" /\ HandlePut(m.call)
     \/ m.type \in {"get", "getForPeer"} /\ HandleGet(m.call, m.type = "getForPeer")
     \/ m.type = "p2pFetchResult" /\ EndFetch(m.call, m.data)
  /\ UNCHANGED client

FetchTimeout(c) == c \in fetches /\ EndFetch(c, "none") /\ UNCHANGED <<client, toWorker>>

\* requestP2PBlob.
AskMesh(c) ==
  /\ Job(c, "fetching", "none")
  /\ fetches' = fetches \cup {c}
  /\ Reply(c, "p2pFetch", "none")

\* storage.get returned; a storage closed meanwhile finds nothing.  Whether
\* there is a Blossom client to ask is looked up only now.
ReadReturns(c) ==
  /\ jobs[c] # Nil /\ jobs[c].at = "reading"
  /\ \/ /\ held /\ jobs[c].session = session
        /\ EndJob(c) /\ Reply(c, "blob", "good")
        /\ UNCHANGED fetches
     \/ /\ ~(held /\ jobs[c].session = session)
        /\ IF session # 0 THEN Job(c, "blossom", "none") /\ UNCHANGED <<fetches, toClient>>
           ELSE AskMesh(c)
  /\ UNCHANGED <<client, toWorker, session, sessions, marked, held, uploads>>

BlossomReturns(c, r) ==
  /\ jobs[c] # Nil /\ jobs[c].at = "blossom"
  /\ IF r = "none" THEN AskMesh(c)
     ELSE KeepFetched(c, "keepBlossom", r) /\ UNCHANGED fetches
  /\ UNCHANGED <<client, toWorker, session, sessions, marked, held, uploads>>

\* putByHash compares the digest first; a write to a closed storage is dropped
\* and reported to nobody.
Stored(c) == held' = (held \/ jobs[c].session = session)

\* Content from the mesh or a server is not verified before it is used.
Matches_Trusted(r) == r # "none"

Matches(r) == r = "good"

KeepReturns(c) ==
  /\ jobs[c] # Nil /\ jobs[c].at \in {"keepBlossom", "keepPeer"}
  /\ EndJob(c)
  /\ IF Matches(jobs[c].data) THEN Stored(c) /\ Reply(c, "blob", jobs[c].data)
     ELSE /\ UNCHANGED held
          /\ Reply(c, IF jobs[c].at = "keepBlossom" THEN "error" ELSE "blob", "none")
  /\ UNCHANGED <<client, toWorker, session, sessions, marked, fetches, uploads>>

\* The blocks go into the storage of this moment, without one the put throws.
PutEncrypted(c) ==
  /\ jobs[c] # Nil /\ jobs[c].at = "encrypting"
  /\ IF session = 0 THEN EndJob(c) /\ Reply(c, "error", "none")
     ELSE Job(c, "storing", "good") /\ UNCHANGED toClient
  /\ UNCHANGED <<client, toWorker, session, sessions, marked, fetches, held, uploads>>

\* putFile is through; the blocks are walked to mark them if there is a tree.
PutStored(c) ==
  /\ jobs[c] # Nil /\ jobs[c].at = "storing"
  /\ Stored(c)
  /\ IF session = 0 THEN EndJob(c) /\ Reply(c, "blobStored", "none")
     ELSE Job(c, "walking", "none") /\ UNCHANGED toClient
  /\ UNCHANGED <<client, toWorker, session, sessions, marked, fetches, uploads>>

\* The walk ends; a block it could not read is not marked.
PutMarks(c) ==
  /\ jobs[c] # Nil /\ jobs[c].at = "walking"
  /\ \/ marked' = TRUE
     \/ UNCHANGED marked /\ ~(held /\ jobs[c].session = session)
  /\ EndJob(c) /\ Reply(c, "blobStored", "none")
  /\ UNCHANGED <<client, toWorker, session, sessions, fetches, held, uploads>>

WorkerStep == \/ WorkerReceives
              \/ \E c \in Calls : \/ FetchTimeout(c) \/ ReadReturns(c) \/ KeepReturns(c)
                                  \/ PutEncrypted(c) \/ PutStored(c) \/ PutMarks(c)
                                  \/ \E r \in Replies : BlossomReturns(c, r)

RpcNext == ClientStep \/ WorkerStep
RpcSpec == RpcInit /\ [][RpcNext]_rpcVars

\* Promises are followed up and timeouts fire; workers need never answer.
RpcFairness ==
  \A c \in Calls :
    WF_rpcVars(Proceed(c) \/ CloseEnds(c) \/ \E t \in {"init", "request"} : Timeout(<<c, t>>))
RpcFairSpec == RpcSpec /\ RpcFairness

-----------------------------------------------------------------------------
(* Properties. *)

Ends == {"done", "failed"}

RpcTypeOK ==
  /\ at \in [Calls -> {"idle", "init", "sent", "closing"} \cup Ends]
  /\ \A c \in Calls : kind[c] \in KindsOf[c] \cup {Nil}
  /\ initOf \in [Calls -> Calls \cup {Nil}]
  /\ inits \in [Calls -> {"pending", "ready", "failed", Nil}]
  /\ initPromise \in Calls \cup {Nil}
  /\ worker \in 0..spawned /\ spawned \in 0..MaxWorkers
  /\ pending \subseteq Calls \X {"init", "request"}
  /\ session \in 0..sessions /\ fetches \subseteq Calls

\* Whoever waits is reachable and nothing else is: a request in flight has its
\* entry and timeout, an init promise is pending as long as its entry is there,
\* and a worker is never replaced while it runs (client.ts:46-83, 155-165, 398).
PendingAwaited ==
  /\ \A c \in Calls : /\ ((at[c] = "sent") <=> (<<c, "request">> \in pending))
                       /\ ((inits[c] = "pending") <=> (<<c, "init">> \in pending))
  /\ ((worker # 0) <=> (initPromise # Nil))

\* What the worker answers with was compared with its digest, whichever way it
\* came, and a peer gets it only if this worker was given an encrypted upload:
\* an allowlist never outlives the worker (worker.ts:203-238, 685-699).
AnswersSound ==
  \A i \in DOMAIN toClient :
    LET m == toClient[i] IN
    m.type = "blob" /\ m.data # "none" =>
      m.data = "good" /\ (kind[m.call] = "getForPeer" => uploads # {})

\* Both ends of the channel: whoever waits is reachable, what is answered is true.
CallsSound == RpcTypeOK /\ PendingAwaited /\ AnswersSound

\* close terminates the worker it found or started, never one that was spawned
\* after it, unless its own could not be started or another close ended in between (client.ts:398-408).
ClosesOwnWorker ==
  [][\A c \in Calls :
       at[c] = "closing" /\ at'[c] = "done" /\ worker # 0 /\ since[c] # 0 /\ c \notin crossed
         => worker = since[c]]_rpcVars

\* Every call ends, whatever the worker does, also when it never answers, is
\* terminated by somebody else's close or loses the request: again and again none
\* of the finitely many is under way (client.ts:219-252).
CallsSettle == []<>(\A c \in Calls : at[c] \in Ends \cup {"idle"})

=============================================================================
