------------------------ MODULE PageWorkers_proofs ------------------------
(***************************************************************************)
(* The workers of a page, for any calls, workers, requests and setups.     *)
(* Of the worker a client calls: whoever waits is reachable, what is       *)
(* answered is true, and a close ends its own worker. Of the service       *)
(* worker: whom it forgot has an answer, its count is the downloads it     *)
(* has, the port is there once it is taken for set up, an update cuts no   *)
(* download it knew of, and a body that ends well is what its headers      *)
(* promise.                                                                *)
(***************************************************************************)
EXTENDS WorkerRpc, MediaStreaming, FiniteSetTheorems, SequenceTheorems, TLAPS

ToWorker == [type : Kinds, call : Calls]
              \cup [type : {"p2pFetchResult"}, call : Calls, data : Replies]
ToClient == [type : {"ready", "void", "error", "blob", "blobStored", "p2pFetch"},
             call : Calls, data : Replies]

(* A message to the worker is an init of whatever call made the promise, a *)
(* request of the call's own kind, or what the mesh answered.              *)
IsRequest(m) ==
  \/ m \in [type : {"init"}, call : Calls]
  \/ m \in [type : Kinds \ {"init"}, call : Calls] /\ m.type = kind[m.call]
  \/ m \in [type : {"p2pFetchResult"}, call : Calls, data : Replies]

(* Everything under way is of a call that was made.                        *)
Made(c) == at[c] # "idle"

RequestsOK ==
  /\ toWorker \in Seq(ToWorker)
  /\ \A i \in DOMAIN toWorker : IsRequest(toWorker[i]) /\ Made(toWorker[i].call)

IsTrue(m) ==
  m.type = "blob" /\ m.data # "none" =>
    m.data = "good" /\ (kind[m.call] = "getForPeer" => uploads # {})

RepliesOK ==
  /\ toClient \in Seq(ToClient)
  /\ \A i \in DOMAIN toClient : IsTrue(toClient[i]) /\ Made(toClient[i].call)

(* Only a call for a peer that found the mark has anything under way, and  *)
(* the mark is of an encrypted upload to this worker.                      *)
MarkOfUpload ==
  /\ marked => uploads # {}
  /\ \A c \in Calls :
       /\ jobs[c] # Nil \/ c \in fetches =>
            Made(c) /\ (kind[c] = "getForPeer" => uploads # {})
       /\ jobs[c] # Nil =>
            (jobs[c].at \in {"encrypting", "storing", "walking"} => uploads # {})

(* A close in progress speaks of the worker it found, until another close  *)
(* ends in between.                                                        *)
OwnWorker ==
  \A c \in Calls :
    kind[c] = "close" /\ at[c] \in {"init", "sent", "closing"} /\ since[c] # 0 /\ c \notin crossed
      => worker = since[c]

RecordsOK ==
  /\ kind = [c \in Calls |-> kind[c]]
  /\ jobs = [c \in Calls |-> jobs[c]]
  /\ since = [c \in Calls |-> since[c]]
  /\ sessions \in Nat
  /\ \A c \in Calls : /\ Made(c) => kind[c] \in KindsOf[c]
                      /\ at[c] = "closing" => kind[c] = "close"

RpcInv == CallsSound /\ RecordsOK /\ RequestsOK /\ RepliesOK /\ MarkOfUpload /\ OwnWorker

-----------------------------------------------------------------------------
LEMMA RpcInitHolds == RpcInit => RpcInv
<1> SUFFICES ASSUME RpcInit PROVE RpcInv
  OBVIOUS
<1> USE RpcAssumption DEF RpcInit
<1>1. RpcTypeOK
  BY DEF RpcTypeOK
<1>2. PendingAwaited /\ AnswersSound
  BY DEF PendingAwaited, AnswersSound
<1>3. RecordsOK /\ OwnWorker
  BY DEF RecordsOK, OwnWorker, Made
<1>4. RequestsOK /\ RepliesOK /\ MarkOfUpload
  BY DEF RequestsOK, RepliesOK, MarkOfUpload
<1> QED  BY <1>1, <1>2, <1>3, <1>4 DEF RpcInv, CallsSound
-----------------------------------------------------------------------------
(* What is in a channel after a message is added or taken.                 *)
LEMMA Appended ==
  ASSUME NEW S, NEW s \in Seq(S), NEW x \in S
  PROVE  /\ Append(s, x) \in Seq(S)
         /\ \A i \in DOMAIN Append(s, x) :
              Append(s, x)[i] = x \/ \E j \in DOMAIN s : Append(s, x)[i] = s[j]
<1>1. /\ Append(s, x) \in Seq(S) /\ Len(Append(s, x)) = Len(s) + 1
      /\ Len(s) \in Nat /\ DOMAIN s = 1..Len(s)
      /\ DOMAIN Append(s, x) = 1..Len(s) + 1
      /\ \A i \in 1..Len(s) + 1 :
           Append(s, x)[i] = IF i = Len(s) + 1 THEN x ELSE s[i]
  OBVIOUS
<1>2. \A i \in 1..Len(s) + 1 : i = Len(s) + 1 \/ i \in 1..Len(s)
  BY <1>1
<1> QED  BY <1>1, <1>2

LEMMA Taken ==
  ASSUME NEW S, NEW s \in Seq(S), s # <<>>
  PROVE  /\ Head(s) \in S /\ Tail(s) \in Seq(S)
         /\ 1 \in DOMAIN s /\ Head(s) = s[1]
         /\ \A i \in DOMAIN Tail(s) : \E j \in DOMAIN s : Tail(s)[i] = s[j]
<1>1. /\ Tail(s) \in Seq(S) /\ Len(Tail(s)) = Len(s) - 1
      /\ Len(s) \in Nat /\ Len(s) # 0 /\ DOMAIN s = 1..Len(s)
      /\ DOMAIN Tail(s) = 1..Len(s) - 1
      /\ \A i \in 1..Len(s) - 1 : Tail(s)[i] = s[i + 1]
  OBVIOUS
<1>2. \A i \in 1..Len(s) - 1 : i + 1 \in 1..Len(s)
  BY <1>1
<1>3. 1 \in DOMAIN s /\ Head(s) = s[1] /\ Head(s) \in S
  BY <1>1
<1> QED  BY <1>1, <1>2, <1>3

-----------------------------------------------------------------------------
(* The client.                                                             *)

(* Calls go on, and begin only once; what they ask stays.                  *)
CallsGoOn ==
  /\ kind' = [x \in Calls |-> kind'[x]]
  /\ \A x \in Calls : Made(x) => Made(x)' /\ kind'[x] = kind[x]

(* So what the channels and the worker hold keeps its meaning.             *)
LEMMA WorkerIsLeft ==
  ASSUME RpcInv, CallsGoOn, UNCHANGED workerVars
  PROVE  /\ session' \in 0..sessions' /\ fetches' \subseteq Calls /\ sessions' \in Nat
         /\ jobs' = [c \in Calls |-> jobs'[c]]
         /\ MarkOfUpload'
  BY DEF RpcInv, CallsSound, RpcTypeOK, RecordsOK, MarkOfUpload, workerVars, CallsGoOn

LEMMA RequestStays ==
  ASSUME NEW m \in ToWorker, CallsGoOn, IsRequest(m), Made(m.call)
  PROVE  IsRequest(m)' /\ Made(m.call)'
<1>1. m.call \in Calls
  BY DEF ToWorker
<1>2. kind'[m.call] = kind[m.call] /\ Made(m.call)'
  BY <1>1 DEF CallsGoOn
<1> QED  BY <1>2 DEF IsRequest

LEMMA ReplyStays ==
  ASSUME NEW m \in ToClient, CallsGoOn, IsTrue(m), Made(m.call), uploads # {} => uploads' # {}
  PROVE  IsTrue(m)' /\ Made(m.call)'
<1>1. m.call \in Calls
  BY DEF ToClient
<1>2. kind'[m.call] = kind[m.call] /\ Made(m.call)'
  BY <1>1 DEF CallsGoOn
<1> QED  BY <1>2 DEF IsTrue

LEMMA RequestsStay ==
  ASSUME RequestsOK, CallsGoOn,
         \/ toWorker' = toWorker
         \/ toWorker # <<>> /\ toWorker' = Tail(toWorker)
         \/ toWorker' = <<>>
         \/ \E m \in ToWorker : IsRequest(m)' /\ Made(m.call)' /\ toWorker' = Append(toWorker, m)
  PROVE  RequestsOK'
<1>1. ASSUME NEW m \in ToWorker, NEW i \in DOMAIN toWorker, m = toWorker[i]
      PROVE  IsRequest(m)' /\ Made(m.call)'
  BY <1>1, RequestStays DEF RequestsOK
<1>2. SUFFICES ASSUME toWorker' \in Seq(ToWorker),
                      NEW i \in DOMAIN toWorker', NEW m \in ToWorker, m = toWorker'[i]
               PROVE  IsRequest(m)' /\ Made(m.call)'
  <2>1. toWorker' \in Seq(ToWorker)
    <3>1. toWorker \in Seq(ToWorker)
      BY DEF RequestsOK
    <3>2. CASE toWorker # <<>> /\ toWorker' = Tail(toWorker)
      BY <3>1, <3>2, Taken
    <3>3. ASSUME NEW m \in ToWorker, toWorker' = Append(toWorker, m)
          PROVE  toWorker' \in Seq(ToWorker)
      BY <3>1, <3>3, Appended
    <3>4. CASE toWorker' = <<>>
      BY <3>4
    <3> QED  BY <3>1, <3>2, <3>3, <3>4
  <2>2. \A i \in DOMAIN toWorker' : toWorker'[i] \in ToWorker
    BY <2>1
  <2> QED  BY <2>1, <2>2, <1>2 DEF RequestsOK, IsRequest, Made
<1>3. CASE \E j \in DOMAIN toWorker : m = toWorker[j]
  BY <1>1, <1>3
<1>4. ASSUME NEW n \in ToWorker, IsRequest(n)', Made(n.call)', toWorker' = Append(toWorker, n)
      PROVE  IsRequest(m)' /\ Made(m.call)'
  <2>1. m = n \/ \E j \in DOMAIN toWorker : m = toWorker[j]
    BY <1>2, <1>4, Appended DEF RequestsOK
  <2> QED  BY <2>1, <1>1, <1>4
<1>5. CASE toWorker # <<>> /\ toWorker' = Tail(toWorker)
  BY <1>5, <1>2, <1>3, Taken DEF RequestsOK
<1>6. CASE toWorker' = toWorker
  BY <1>6, <1>2, <1>3
<1>7. CASE toWorker' = <<>>
  BY <1>7, <1>2
<1> QED  BY <1>4, <1>5, <1>6, <1>7

LEMMA RepliesStay ==
  ASSUME RepliesOK, CallsGoOn, toClient' # <<>> => (uploads # {} => uploads' # {}),
         \/ toClient' = toClient
         \/ toClient # <<>> /\ toClient' = Tail(toClient)
         \/ toClient' = <<>>
         \/ \E m \in ToClient : IsTrue(m)' /\ Made(m.call)' /\ toClient' = Append(toClient, m)
  PROVE  RepliesOK'
<1>1. ASSUME NEW m \in ToClient, NEW i \in DOMAIN toClient, m = toClient[i], toClient' # <<>>
      PROVE  IsTrue(m)' /\ Made(m.call)'
  BY <1>1, ReplyStays DEF RepliesOK
<1>2. SUFFICES ASSUME toClient' \in Seq(ToClient),
                      NEW i \in DOMAIN toClient', NEW m \in ToClient, m = toClient'[i]
               PROVE  IsTrue(m)' /\ Made(m.call)'
  <2>1. toClient' \in Seq(ToClient)
    <3>1. toClient \in Seq(ToClient)
      BY DEF RepliesOK
    <3>2. CASE toClient # <<>> /\ toClient' = Tail(toClient)
      BY <3>1, <3>2, Taken
    <3>3. ASSUME NEW m \in ToClient, toClient' = Append(toClient, m)
          PROVE  toClient' \in Seq(ToClient)
      BY <3>1, <3>3, Appended
    <3>4. CASE toClient' = <<>>
      BY <3>4
    <3> QED  BY <3>1, <3>2, <3>3, <3>4
  <2>2. \A i \in DOMAIN toClient' : toClient'[i] \in ToClient
    BY <2>1
  <2> QED  BY <2>1, <2>2, <1>2 DEF RepliesOK, IsTrue, Made
<1>3. CASE \E j \in DOMAIN toClient : m = toClient[j]
  BY <1>1, <1>3
<1>4. ASSUME NEW n \in ToClient, IsTrue(n)', Made(n.call)', toClient' = Append(toClient, n)
      PROVE  IsTrue(m)' /\ Made(m.call)'
  <2>1. m = n \/ \E j \in DOMAIN toClient : m = toClient[j]
    BY <1>2, <1>4, Appended DEF RepliesOK
  <2> QED  BY <2>1, <1>1, <1>4
<1>5. CASE toClient # <<>> /\ toClient' = Tail(toClient)
  BY <1>5, <1>2, <1>3, Taken DEF RepliesOK
<1>6. CASE toClient' = toClient
  BY <1>6, <1>2, <1>3
<1>7. CASE toClient' = <<>>
  BY <1>7, <1>2
<1> QED  BY <1>4, <1>5, <1>6, <1>7

(* The part of the invariant that speaks of the client.                    *)
ClientTypes ==
  /\ at \in [Calls -> {"idle", "init", "sent", "closing"} \cup Ends]
  /\ \A c \in Calls : kind[c] \in KindsOf[c] \cup {Nil}
  /\ initOf \in [Calls -> Calls \cup {Nil}]
  /\ inits \in [Calls -> {"pending", "ready", "failed", Nil}]
  /\ initPromise \in Calls \cup {Nil}
  /\ worker \in 0..spawned /\ spawned \in 0..MaxWorkers
  /\ pending \subseteq Calls \X {"init", "request"}
  /\ kind = [c \in Calls |-> kind[c]]
  /\ since = [c \in Calls |-> since[c]]
  /\ \A c \in Calls : /\ Made(c) => kind[c] \in KindsOf[c]
                      /\ at[c] = "closing" => kind[c] = "close"

ClientInv == ClientTypes /\ PendingAwaited /\ OwnWorker

LEMMA InvOfClient == RpcInv => ClientInv
BY DEF RpcInv, CallsSound, RpcTypeOK, RecordsOK, ClientInv, ClientTypes

LEMMA ClientMoves ==
  ASSUME RpcInv, ClientInv', CallsGoOn, UNCHANGED workerVars,
         toClient' = toClient \/ (toClient # <<>> /\ toClient' = Tail(toClient)),
         \/ toWorker' = toWorker
         \/ \E m \in ToWorker : IsRequest(m)' /\ Made(m.call)' /\ toWorker' = Append(toWorker, m)
  PROVE  RpcInv'
<1>1. RequestsOK'
  BY RequestsStay DEF RpcInv
<1>2. RepliesOK'
  BY RepliesStay DEF RpcInv, workerVars
<1>3. /\ session' \in 0..sessions' /\ fetches' \subseteq Calls /\ sessions' \in Nat
      /\ jobs' = [c \in Calls |-> jobs'[c]] /\ MarkOfUpload'
  BY WorkerIsLeft
<1>4. AnswersSound'
  BY <1>2 DEF RepliesOK, AnswersSound, IsTrue
<1> QED  BY <1>1, <1>2, <1>3, <1>4 DEF RpcInv, CallsSound, RpcTypeOK, RecordsOK, ClientInv, ClientTypes

-----------------------------------------------------------------------------
(* A call begins.                                                          *)
LEMMA BeginKeeps ==
  ASSUME RpcInv, NEW c \in Calls, Begin(c)
  PROVE  RpcInv'
<1> USE RpcAssumption
<1>1. ClientInv
  BY InvOfClient
<1>2. PICK k \in KindsOf[c] :
        /\ kind' = [kind EXCEPT ![c] = k]
        /\ JoinInit(c) \/ SpawnAndInit(c) \/ SpawnFails(c, k)
  BY DEF Begin
<1>3. at[c] = "idle" /\ since' = [since EXCEPT ![c] = worker'] /\ crossed' = crossed
      /\ UNCHANGED <<workerVars, toClient>>
  BY DEF Begin
<1>4. CallsGoOn /\ Made(c)'
  BY <1>1, <1>2, <1>3 DEF CallsGoOn, Made, ClientInv, ClientTypes, JoinInit, SpawnAndInit, SpawnFails, EndOf
<1>5. ClientTypes'
  <2> USE <1>1, <1>2, <1>3 DEF ClientInv, ClientTypes, Made
  <2>1. CASE JoinInit(c)
    BY <2>1 DEF JoinInit
  <2>2. CASE SpawnAndInit(c)
    <3>1. worker' \in 0..spawned' /\ spawned' \in 0..MaxWorkers
      BY <2>2 DEF SpawnAndInit
    <3>2. /\ at' \in [Calls -> {"idle", "init", "sent", "closing"} \cup Ends]
          /\ initOf' \in [Calls -> Calls \cup {Nil}]
          /\ inits' \in [Calls -> {"pending", "ready", "failed", Nil}]
          /\ initPromise' \in Calls \cup {Nil}
          /\ pending' \subseteq Calls \X {"init", "request"}
      BY <2>2 DEF SpawnAndInit
    <3>3. /\ \A x \in Calls : kind'[x] \in KindsOf[x] \cup {Nil}
          /\ kind' = [x \in Calls |-> kind'[x]]
          /\ since' = [x \in Calls |-> since'[x]]
          /\ \A x \in Calls : /\ at'[x] # "idle" => kind'[x] \in KindsOf[x]
                              /\ at'[x] = "closing" => kind'[x] = "close"
      BY <2>2 DEF SpawnAndInit
    <3> QED  BY <3>1, <3>2, <3>3
  <2>3. CASE SpawnFails(c, k)
    BY <2>3 DEF SpawnFails, EndOf, Ends
  <2> QED  BY <2>1, <2>2, <2>3
<1>6. PendingAwaited'
  BY <1>1, <1>2, <1>3 DEF ClientInv, ClientTypes, PendingAwaited, JoinInit, SpawnAndInit, SpawnFails, EndOf
<1>7. OwnWorker'
  BY <1>1, <1>2, <1>3 DEF ClientInv, ClientTypes, PendingAwaited, OwnWorker, JoinInit, SpawnAndInit, SpawnFails, EndOf
<1>8. \/ toWorker' = toWorker
      \/ \E m \in ToWorker : IsRequest(m)' /\ Made(m.call)' /\ toWorker' = Append(toWorker, m)
  <2>1. CASE JoinInit(c) \/ SpawnFails(c, k)
    BY <2>1 DEF JoinInit, SpawnFails
  <2>2. CASE SpawnAndInit(c)
    <3> DEFINE m == [type |-> "init", call |-> c]
    <3>1. m \in ToWorker /\ IsRequest(m)' /\ Made(m.call)'
      BY <1>4 DEF ToWorker, IsRequest, Kinds
    <3> QED  BY <3>1, <2>2 DEF SpawnAndInit
  <2> QED  BY <1>2, <2>1, <2>2
<1> QED  BY <1>3, <1>4, <1>5, <1>6, <1>7, <1>8, ClientMoves DEF ClientInv

(* A call goes on after its init.                                          *)
LEMMA ProceedKeeps ==
  ASSUME RpcInv, NEW c \in Calls, Proceed(c)
  PROVE  RpcInv'
<1> USE RpcAssumption
<1>1. ClientInv
  BY InvOfClient
<1>2. at[c] = "init" /\ kind[c] \in KindsOf[c]
      /\ UNCHANGED <<kind, initOf, inits, initPromise, worker, spawned, since, crossed, workerVars, toClient>>
  BY <1>1 DEF Proceed, ClientInv, ClientTypes, Made
<1>3. CallsGoOn
  BY <1>1, <1>2 DEF Proceed, CallsGoOn, Made, ClientInv, ClientTypes, EndOf
<1>4. ClientTypes'
  BY <1>1, <1>2 DEF Proceed, ClientInv, ClientTypes, Made, EndOf, Ends
<1>5. PendingAwaited' /\ OwnWorker'
  BY <1>1, <1>2 DEF Proceed, ClientInv, ClientTypes, PendingAwaited, OwnWorker, EndOf
<1>6. \/ toWorker' = toWorker
      \/ \E m \in ToWorker : IsRequest(m)' /\ Made(m.call)' /\ toWorker' = Append(toWorker, m)
  <2>1. CASE UNCHANGED toWorker
    BY <2>1
  <2>2. ASSUME NEW k \in Kinds \ {"init"}, kind[c] = k, at' = [at EXCEPT ![c] = "sent"],
               toWorker' = Append(toWorker, [type |-> k, call |-> c])
        PROVE  \E m \in ToWorker : IsRequest(m)' /\ Made(m.call)' /\ toWorker' = Append(toWorker, m)
    <3> DEFINE n == [type |-> k, call |-> c]
    <3>1. n \in ToWorker /\ IsRequest(n)' /\ Made(n.call)'
      BY <1>1, <1>2, <2>2 DEF ToWorker, IsRequest, Made, ClientInv, ClientTypes
    <3> QED  BY <2>2, <3>1
  <2>3. kind[c] \in Kinds
    BY <1>2
  <2> QED  BY <2>1, <2>2, <2>3 DEF Proceed
<1> QED  BY <1>2, <1>3, <1>4, <1>5, <1>6, ClientMoves DEF ClientInv

(* Promises settle.                                                        *)
LEMMA SettleKeeps ==
  ASSUME ClientInv, NEW P, NEW outcome \in Ends, Settle(P, outcome),
         UNCHANGED <<kind, initOf, initPromise, worker, spawned, since, crossed>>
  PROVE  ClientInv' /\ CallsGoOn
<1> USE RpcAssumption DEF Settle
<1>1. \A x \in Calls :
        at'[x] = IF <<x, "request">> \notin P \cap pending THEN at[x]
                 ELSE IF kind[x] = "close" THEN "closing" ELSE outcome
  OBVIOUS
<1>2. \A x \in Calls :
        inits'[x] = IF <<x, "init">> \in P /\ <<x, "init">> \in pending
                    THEN IF outcome = "done" THEN "ready" ELSE "failed" ELSE inits[x]
  OBVIOUS
<1>3. CallsGoOn
  BY <1>1 DEF CallsGoOn, Made, ClientInv, ClientTypes, Ends
<1>4. ClientTypes'
  BY <1>1 DEF ClientInv, ClientTypes, PendingAwaited, Made, Ends
<1>5. PendingAwaited'
  BY <1>1, <1>2 DEF ClientInv, ClientTypes, PendingAwaited, Ends
<1>6. OwnWorker'
  BY <1>1 DEF ClientInv, ClientTypes, PendingAwaited, OwnWorker, Ends
<1> QED  BY <1>3, <1>4, <1>5, <1>6 DEF ClientInv

LEMMA SettlingKeeps ==
  ASSUME RpcInv, \/ \E p \in pending : Timeout(p)
                 \/ WorkerError
                 \/ ClientReceives
  PROVE  RpcInv'
<1>1. ClientInv
  BY InvOfClient
<1>2. ASSUME NEW p \in pending, Timeout(p)
      PROVE  RpcInv'
  BY <1>1, <1>2, SettleKeeps, ClientMoves DEF Timeout, Ends
<1>3. CASE WorkerError
  BY <1>1, <1>3, SettleKeeps, ClientMoves DEF WorkerError, Ends
<1>4. CASE ClientReceives
  <2>1. PICK m \in ToClient : m = Head(toClient) /\ Made(m.call)
    BY <1>4, Taken DEF ClientReceives, RpcInv, RepliesOK
  <2>2. CASE m.type = "p2pFetch"
    <3>1. UNCHANGED <<client, workerVars>>
      BY <1>4, <2>1, <2>2 DEF ClientReceives, client
    <3>2. ClientInv' /\ CallsGoOn
      BY <1>1, <3>1 DEF ClientInv, ClientTypes, PendingAwaited, OwnWorker, Made, CallsGoOn, client
    <3>3. \/ toWorker' = toWorker
          \/ \E n \in ToWorker : IsRequest(n)' /\ Made(n.call)' /\ toWorker' = Append(toWorker, n)
      <4>1. CASE UNCHANGED toWorker
        BY <4>1
      <4>2. ASSUME NEW r \in Replies,
                   toWorker' = Append(toWorker, [type |-> "p2pFetchResult", call |-> m.call, data |-> r])
            PROVE  \E n \in ToWorker : IsRequest(n)' /\ Made(n.call)' /\ toWorker' = Append(toWorker, n)
        <5> DEFINE n == [type |-> "p2pFetchResult", call |-> m.call, data |-> r]
        <5>1. m.call \in Calls
          BY <2>1 DEF ToClient
        <5>2. n \in ToWorker /\ IsRequest(n)' /\ Made(n.call)'
          BY <2>1, <3>1, <5>1 DEF ToWorker, IsRequest, Made, client
        <5> QED  BY <4>2, <5>2
      <4> QED  BY <1>4, <2>1, <2>2, <4>1, <4>2 DEF ClientReceives
    <3> QED  BY <1>4, <3>1, <3>2, <3>3, ClientMoves DEF ClientReceives
  <2>3. CASE m.type # "p2pFetch"
    <3>1. PICK P : \E outcome \in Ends : Settle(P, outcome)
      BY <1>4, <2>1, <2>3 DEF ClientReceives, Ends
    <3>2. UNCHANGED <<kind, initOf, initPromise, worker, spawned, since, crossed, workerVars, toWorker>>
      BY <1>4, <2>1, <2>3 DEF ClientReceives
    <3> QED  BY <1>1, <1>4, <3>1, <3>2, SettleKeeps, ClientMoves DEF ClientReceives
  <2> QED  BY <2>2, <2>3
<1> QED  BY <1>2, <1>3, <1>4

(* A close ends, its worker with it.                                       *)
LEMMA CloseKeeps ==
  ASSUME RpcInv, NEW c \in Calls, CloseEnds(c)
  PROVE  RpcInv'
<1> USE RpcAssumption
<1>1. ClientInv
  BY InvOfClient
<1>2. \A x \in Calls : at'[x] = IF x = c THEN "done"
                                ELSE IF <<x, "request">> \in pending THEN EndOf(kind[x]) ELSE at[x]
  BY DEF CloseEnds
<1>3. ClientTypes'
  <2>1. at' \in [Calls -> {"idle", "init", "sent", "closing"} \cup Ends]
    BY <1>1, <1>2 DEF CloseEnds, ClientInv, ClientTypes, EndOf, Ends
  <2>2. inits' \in [Calls -> {"pending", "ready", "failed", Nil}]
    BY <1>1 DEF CloseEnds, ClientInv, ClientTypes
  <2>3. worker' \in 0..spawned'
    BY <1>1 DEF CloseEnds, ClientInv, ClientTypes
  <2>4. \A x \in Calls : /\ at'[x] # "idle" => kind'[x] \in KindsOf[x]
                         /\ at'[x] = "closing" => kind'[x] = "close"
    BY <1>1, <1>2 DEF CloseEnds, ClientInv, ClientTypes, PendingAwaited, Made, EndOf, Ends
  <2> QED  BY <1>1, <2>1, <2>2, <2>3, <2>4 DEF CloseEnds, ClientInv, ClientTypes, Made
<1>4. PendingAwaited'
  BY <1>1, <1>2 DEF CloseEnds, ClientInv, ClientTypes, PendingAwaited, EndOf
<1>5. OwnWorker'
  BY <1>1, <1>2 DEF CloseEnds, ClientInv, ClientTypes, PendingAwaited, OwnWorker, EndOf
<1>6. RequestsOK' /\ RepliesOK'
  BY DEF CloseEnds, RequestsOK, RepliesOK
<1>7. MarkOfUpload' /\ AnswersSound'
  BY DEF CloseEnds, MarkOfUpload, AnswersSound
<1>8. session' \in 0..sessions' /\ fetches' \subseteq Calls /\ sessions' \in Nat
      /\ jobs' = [x \in Calls |-> jobs'[x]]
  BY DEF CloseEnds, RpcInv, RecordsOK
<1> QED  BY <1>3, <1>4, <1>5, <1>6, <1>7, <1>8 DEF RpcInv, CallsSound, RpcTypeOK, RecordsOK, ClientInv, ClientTypes

-----------------------------------------------------------------------------
(* The worker.                                                             *)

Types == {"ready", "void", "error", "blob", "blobStored", "p2pFetch"}

(* Call c may have something under way in the worker.                      *)
May(c) == Made(c) /\ (kind[c] = "getForPeer" => uploads # {})

LEMMA UnderWay ==
  ASSUME RpcInv, NEW c \in Calls, jobs[c] # Nil \/ c \in fetches
  PROVE  May(c)
BY DEF RpcInv, MarkOfUpload, May

LEMMA ReplyTrue ==
  ASSUME UNCHANGED client, NEW c \in Calls, Made(c), NEW type \in Types, NEW data \in Replies,
         Reply(c, type, data),
         type = "blob" /\ data # "none" => data = "good" /\ (kind[c] = "getForPeer" => uploads' # {})
  PROVE  \E m \in ToClient : IsTrue(m)' /\ Made(m.call)' /\ toClient' = Append(toClient, m)
<1> DEFINE n == [type |-> type, call |-> c, data |-> data]
<1>1. n \in ToClient /\ IsTrue(n)' /\ Made(n.call)'
  BY DEF ToClient, Types, IsTrue, Made, client
<1> QED  BY <1>1 DEF Reply

LEMMA WorkerMoves ==
  ASSUME RpcInv, UNCHANGED client, uploads # {} => uploads' # {},
         toWorker' = toWorker \/ (toWorker # <<>> /\ toWorker' = Tail(toWorker)),
         \/ toClient' = toClient
         \/ \E m \in ToClient : IsTrue(m)' /\ Made(m.call)' /\ toClient' = Append(toClient, m),
         session' \in 0..sessions', sessions' \in Nat, fetches' \subseteq Calls,
         jobs' = [c \in Calls |-> jobs'[c]], MarkOfUpload'
  PROVE  RpcInv'
<1>1. ClientInv
  BY InvOfClient
<1>2. ClientInv' /\ CallsGoOn
  BY <1>1 DEF ClientInv, ClientTypes, PendingAwaited, OwnWorker, Made, CallsGoOn, client
<1>3. RequestsOK'
  BY <1>2, RequestsStay DEF RpcInv
<1>4. RepliesOK'
  BY <1>2, RepliesStay DEF RpcInv
<1>5. AnswersSound'
  BY <1>4 DEF RepliesOK, AnswersSound, IsTrue
<1> QED  BY <1>2, <1>3, <1>4, <1>5 DEF RpcInv, CallsSound, RpcTypeOK, RecordsOK, ClientInv, ClientTypes

(* The handler of call c goes on, ends or begins.                          *)
LEMMA JobKeeps ==
  ASSUME RpcInv, UNCHANGED client, uploads # {} => uploads' # {}, marked' => uploads' # {},
         NEW c \in Calls, May(c) \/ (Made(c) /\ (kind[c] = "getForPeer" => uploads' # {})),
         fetches' \subseteq fetches \cup {c},
         \/ EndJob(c) \/ UNCHANGED jobs
         \/ \E where \in {"reading", "blossom", "fetching", "keepBlossom", "keepPeer"} : \E got : Job(c, where, got)
         \/ \E where \in {"encrypting", "storing", "walking"} : \E got : Job(c, where, got) /\ uploads' # {}
  PROVE  jobs' = [x \in Calls |-> jobs'[x]] /\ MarkOfUpload' /\ fetches' \subseteq Calls
<1>1. jobs = [x \in Calls |-> jobs[x]] /\ MarkOfUpload /\ fetches \subseteq Calls
  BY DEF RpcInv, RecordsOK, CallsSound, RpcTypeOK
<1>2. jobs' = [x \in Calls |-> jobs'[x]] /\ \A x \in Calls \ {c} : jobs'[x] = jobs[x]
  BY <1>1 DEF EndJob, Job
<1>3. jobs'[c] # Nil => \/ jobs'[c] = jobs[c]
                        \/ jobs'[c].at \notin {"encrypting", "storing", "walking"}
                        \/ uploads' # {}
  BY <1>1 DEF EndJob, Job
<1> QED  BY <1>1, <1>2, <1>3 DEF MarkOfUpload, May, Made, client

(* What a fetch from the mesh ends with.                                   *)
LEMMA EndFetchKeeps ==
  ASSUME RpcInv, UNCHANGED client, NEW c \in Calls, NEW r \in Replies, Made(c), EndFetch(c, r),
         toWorker' = toWorker \/ (toWorker # <<>> /\ toWorker' = Tail(toWorker))
  PROVE  RpcInv'
<1> USE DEF EndFetch
<1>1. c \in fetches => May(c)
  BY UnderWay
<1>2. /\ session \in 0..sessions /\ sessions \in Nat /\ fetches \subseteq Calls
      /\ marked => uploads # {}
  BY DEF RpcInv, CallsSound, RpcTypeOK, RecordsOK, MarkOfUpload
<1>3. jobs' = [x \in Calls |-> jobs'[x]] /\ MarkOfUpload' /\ fetches' \subseteq Calls
  <2>1. CASE c \in fetches
    BY <1>1, <1>2, <2>1, JobKeeps DEF KeepFetched
  <2>2. CASE c \notin fetches
    BY <1>2, <2>2 DEF RpcInv, RecordsOK, MarkOfUpload, Made, client
  <2> QED  BY <2>1, <2>2
<1>4. \/ toClient' = toClient
      \/ \E m \in ToClient : IsTrue(m)' /\ Made(m.call)' /\ toClient' = Append(toClient, m)
  BY <1>1, ReplyTrue DEF May, Types, Replies, KeepFetched
<1> QED  BY <1>2, <1>3, <1>4, WorkerMoves

LEMMA ReadReturnsKeeps ==
  ASSUME RpcInv, NEW c \in Calls, ReadReturns(c)
  PROVE  RpcInv'
<1> USE DEF ReadReturns, AskMesh
<1>1. May(c) /\ Made(c)
  BY UnderWay DEF May
<1>2. /\ session \in 0..sessions /\ sessions \in Nat /\ fetches \subseteq Calls
      /\ marked => uploads # {}
  BY DEF RpcInv, CallsSound, RpcTypeOK, RecordsOK, MarkOfUpload
<1>3. jobs' = [x \in Calls |-> jobs'[x]] /\ MarkOfUpload' /\ fetches' \subseteq Calls
  BY <1>1, <1>2, JobKeeps
<1>4. \/ toClient' = toClient
      \/ \E m \in ToClient : IsTrue(m)' /\ Made(m.call)' /\ toClient' = Append(toClient, m)
  BY <1>1, ReplyTrue DEF May, Types, Replies, AskMesh
<1> QED  BY <1>2, <1>3, <1>4, WorkerMoves

LEMMA BlossomReturnsKeeps ==
  ASSUME RpcInv, NEW c \in Calls, NEW r \in Replies, BlossomReturns(c, r)
  PROVE  RpcInv'
<1> USE DEF BlossomReturns, AskMesh, KeepFetched
<1>1. May(c) /\ Made(c)
  BY UnderWay DEF May
<1>2. /\ session \in 0..sessions /\ sessions \in Nat /\ fetches \subseteq Calls
      /\ marked => uploads # {}
  BY DEF RpcInv, CallsSound, RpcTypeOK, RecordsOK, MarkOfUpload
<1>3. jobs' = [x \in Calls |-> jobs'[x]] /\ MarkOfUpload' /\ fetches' \subseteq Calls
  BY <1>1, <1>2, JobKeeps
<1>4. \/ toClient' = toClient
      \/ \E m \in ToClient : IsTrue(m)' /\ Made(m.call)' /\ toClient' = Append(toClient, m)
  BY <1>1, ReplyTrue DEF May, Types, Replies, AskMesh
<1> QED  BY <1>2, <1>3, <1>4, WorkerMoves

LEMMA KeepReturnsKeeps ==
  ASSUME RpcInv, NEW c \in Calls, KeepReturns(c)
  PROVE  RpcInv'
<1> USE DEF KeepReturns
<1>1. May(c) /\ Made(c)
  BY UnderWay DEF May
<1>2. /\ session \in 0..sessions /\ sessions \in Nat /\ fetches \subseteq Calls
      /\ marked => uploads # {}
  BY DEF RpcInv, CallsSound, RpcTypeOK, RecordsOK, MarkOfUpload
<1>3. jobs' = [x \in Calls |-> jobs'[x]] /\ MarkOfUpload' /\ fetches' \subseteq Calls
  BY <1>1, <1>2, JobKeeps
<1>4. \/ toClient' = toClient
      \/ \E m \in ToClient : IsTrue(m)' /\ Made(m.call)' /\ toClient' = Append(toClient, m)
  BY <1>1, ReplyTrue DEF May, Types, Replies, Matches
<1> QED  BY <1>2, <1>3, <1>4, WorkerMoves

LEMMA PutEncryptedKeeps ==
  ASSUME RpcInv, NEW c \in Calls, PutEncrypted(c)
  PROVE  RpcInv'
<1> USE DEF PutEncrypted
<1>1. May(c) /\ Made(c)
  BY UnderWay DEF May
<1>2. /\ session \in 0..sessions /\ sessions \in Nat /\ fetches \subseteq Calls
      /\ marked => uploads # {}
  BY DEF RpcInv, CallsSound, RpcTypeOK, RecordsOK, MarkOfUpload
<1>3. jobs' = [x \in Calls |-> jobs'[x]] /\ MarkOfUpload' /\ fetches' \subseteq Calls
  BY <1>1, <1>2, JobKeeps DEF RpcInv, MarkOfUpload
<1>4. \/ toClient' = toClient
      \/ \E m \in ToClient : IsTrue(m)' /\ Made(m.call)' /\ toClient' = Append(toClient, m)
  BY <1>1, ReplyTrue DEF May, Types, Replies, Job
<1> QED  BY <1>2, <1>3, <1>4, WorkerMoves

LEMMA PutStoredKeeps ==
  ASSUME RpcInv, NEW c \in Calls, PutStored(c)
  PROVE  RpcInv'
<1> USE DEF PutStored
<1>1. May(c) /\ Made(c)
  BY UnderWay DEF May
<1>2. /\ session \in 0..sessions /\ sessions \in Nat /\ fetches \subseteq Calls
      /\ marked => uploads # {}
  BY DEF RpcInv, CallsSound, RpcTypeOK, RecordsOK, MarkOfUpload
<1>3. jobs' = [x \in Calls |-> jobs'[x]] /\ MarkOfUpload' /\ fetches' \subseteq Calls
  BY <1>1, <1>2, JobKeeps DEF RpcInv, MarkOfUpload
<1>4. \/ toClient' = toClient
      \/ \E m \in ToClient : IsTrue(m)' /\ Made(m.call)' /\ toClient' = Append(toClient, m)
  BY <1>1, ReplyTrue DEF May, Types, Replies, Job
<1> QED  BY <1>2, <1>3, <1>4, WorkerMoves

LEMMA PutMarksKeeps ==
  ASSUME RpcInv, NEW c \in Calls, PutMarks(c)
  PROVE  RpcInv'
<1> USE DEF PutMarks
<1>1. May(c) /\ Made(c)
  BY UnderWay DEF May
<1>2. /\ session \in 0..sessions /\ sessions \in Nat /\ fetches \subseteq Calls
      /\ marked => uploads # {}
  BY DEF RpcInv, CallsSound, RpcTypeOK, RecordsOK, MarkOfUpload
<1>3. jobs' = [x \in Calls |-> jobs'[x]] /\ MarkOfUpload' /\ fetches' \subseteq Calls
  BY <1>1, <1>2, JobKeeps DEF RpcInv, MarkOfUpload
<1>4. \/ toClient' = toClient
      \/ \E m \in ToClient : IsTrue(m)' /\ Made(m.call)' /\ toClient' = Append(toClient, m)
  BY <1>1, ReplyTrue DEF May, Types, Replies, Job
<1> QED  BY <1>2, <1>3, <1>4, WorkerMoves

(* The worker takes its next message.                                      *)
LEMMA WorkerReceivesKeeps ==
  ASSUME RpcInv, WorkerReceives
  PROVE  RpcInv'
<1>1. PICK m \in ToWorker : m = Head(toWorker) /\ IsRequest(m) /\ Made(m.call)
  BY Taken DEF WorkerReceives, RpcInv, RequestsOK
<1>2. toWorker # <<>> /\ toWorker' = Tail(toWorker) /\ UNCHANGED client
  BY DEF WorkerReceives
<1>3. m.call \in Calls
  BY DEF ToWorker
<1>4. /\ session \in 0..sessions /\ sessions \in Nat /\ fetches \subseteq Calls
      /\ marked => uploads # {}
      /\ jobs = [x \in Calls |-> jobs[x]] /\ MarkOfUpload
  BY DEF RpcInv, CallsSound, RpcTypeOK, RecordsOK, MarkOfUpload
<1>5. CASE m.type = "init" /\ HandleInit(m.call)
  <2> USE DEF HandleInit
  <2>1. MarkOfUpload'
    BY <1>2, <1>4, <1>5 DEF MarkOfUpload, Made, client
  <2>2. \E n \in ToClient : IsTrue(n)' /\ Made(n.call)' /\ toClient' = Append(toClient, n)
    BY <1>1, <1>2, <1>3, <1>5, ReplyTrue DEF Types, Replies, Reply
  <2> QED  BY <1>2, <1>4, <1>5, <2>1, <2>2, WorkerMoves
<1>6. CASE m.type = "close" /\ HandleClose(m.call)
  <2> USE DEF HandleClose, ResetState
  <2>1. MarkOfUpload'
    BY <1>2, <1>4, <1>6 DEF MarkOfUpload, Made, client
  <2>2. \E n \in ToClient : IsTrue(n)' /\ Made(n.call)' /\ toClient' = Append(toClient, n)
    BY <1>1, <1>2, <1>3, <1>6, ReplyTrue DEF Types, Replies
  <2> QED  BY <1>2, <1>4, <1>6, <2>1, <2>2, WorkerMoves
<1>7. CASE m.type = "put" /\ HandlePut(m.call)
  <2> USE DEF HandlePut
  <2>1. jobs' = [x \in Calls |-> jobs'[x]] /\ MarkOfUpload' /\ fetches' \subseteq Calls
    <3>1. CASE session = 0
      BY <1>2, <1>4, <1>7, <3>1 DEF MarkOfUpload, Made, client
    <3>2. CASE session # 0
      BY <1>1, <1>2, <1>3, <1>4, <1>7, <3>2, JobKeeps
    <3> QED  BY <3>1, <3>2
  <2>2. \/ toClient' = toClient
        \/ \E n \in ToClient : IsTrue(n)' /\ Made(n.call)' /\ toClient' = Append(toClient, n)
    BY <1>1, <1>2, <1>3, <1>7, ReplyTrue DEF Types, Replies
  <2> QED  BY <1>2, <1>4, <1>7, <2>1, <2>2, WorkerMoves
<1>8. CASE m.type \in {"get", "getForPeer"} /\ HandleGet(m.call, m.type = "getForPeer")
  <2> USE DEF HandleGet
  <2>1. m.type = kind[m.call]
    BY <1>1, <1>8 DEF IsRequest
  <2>2. jobs' = [x \in Calls |-> jobs'[x]] /\ MarkOfUpload' /\ fetches' \subseteq Calls
    <3>1. CASE UNCHANGED jobs
      BY <1>2, <1>4, <1>8, <3>1 DEF MarkOfUpload, Made, client
    <3>2. CASE Job(m.call, "reading", "none") /\ (m.type = "getForPeer" => marked)
      BY <1>1, <1>2, <1>3, <1>4, <1>8, <2>1, <3>2, JobKeeps
    <3> QED  BY <1>8, <3>1, <3>2
  <2>3. \/ toClient' = toClient
        \/ \E n \in ToClient : IsTrue(n)' /\ Made(n.call)' /\ toClient' = Append(toClient, n)
    BY <1>1, <1>2, <1>3, <1>8, ReplyTrue DEF Types, Replies
  <2> QED  BY <1>2, <1>4, <1>8, <2>2, <2>3, WorkerMoves
<1>9. CASE m.type = "p2pFetchResult" /\ EndFetch(m.call, m.data)
  <2>1. m.data \in Replies
    BY <1>1, <1>9 DEF IsRequest, Kinds
  <2> QED  BY <1>1, <1>2, <1>3, <1>9, <2>1, EndFetchKeeps
<1> QED  BY <1>1, <1>5, <1>6, <1>7, <1>8, <1>9 DEF WorkerReceives

LEMMA FetchTimeoutKeeps ==
  ASSUME RpcInv, NEW c \in Calls, FetchTimeout(c)
  PROVE  RpcInv'
<1>1. May(c) /\ EndFetch(c, "none") /\ UNCHANGED <<client, toWorker>>
  BY UnderWay DEF FetchTimeout
<1> QED  BY <1>1, EndFetchKeeps DEF Replies, May

-----------------------------------------------------------------------------
LEMMA RpcNextHolds == RpcInv /\ [RpcNext]_rpcVars => RpcInv'
<1> SUFFICES ASSUME RpcInv, [RpcNext]_rpcVars PROVE RpcInv'
  OBVIOUS
<1>1. CASE UNCHANGED rpcVars
  BY <1>1 DEF rpcVars, client, workerVars, RpcInv, CallsSound, RpcTypeOK, PendingAwaited, AnswersSound,
              RecordsOK, RequestsOK, IsRequest, RepliesOK, IsTrue, MarkOfUpload, OwnWorker, Made
<1>2. CASE ClientStep
  BY <1>2, BeginKeeps, ProceedKeeps, CloseKeeps, SettlingKeeps DEF ClientStep
<1>3. CASE WorkerStep
  BY <1>3, WorkerReceivesKeeps, FetchTimeoutKeeps, ReadReturnsKeeps, BlossomReturnsKeeps,
     KeepReturnsKeeps, PutEncryptedKeeps, PutStoredKeeps, PutMarksKeeps DEF WorkerStep
<1> QED  BY <1>1, <1>2, <1>3 DEF RpcNext

(* Every behaviour keeps what the calls, the channels and the worker agree *)
(* on (client.ts and worker.ts).                                           *)
THEOREM RpcInvHolds == RpcSpec => []RpcInv
<1> QED  BY RpcInitHolds, RpcNextHolds, PTL DEF RpcSpec

(* Whoever waits for the worker is reachable, a worker is never replaced   *)
(* while it runs, and what the worker answers with was compared with its   *)
(* digest and goes to peers only after an encrypted upload, for any calls  *)
(* (client.ts:46-165, worker.ts:203-238).                                  *)
THEOREM CallsAreSound == RpcSpec => []CallsSound
<1>1. RpcInv => CallsSound
  BY DEF RpcInv
<1> QED  BY <1>1, RpcInvHolds, PTL

(* A close terminates the worker it found or started, never one spawned    *)
(* after it, unless another close ended in between (client.ts:398-408).    *)
THEOREM CloseEndsOwn == RpcSpec => ClosesOwnWorker
<1>1. RpcInv => \A c \in Calls :
        at[c] = "closing" /\ at'[c] = "done" /\ worker # 0 /\ since[c] # 0 /\ c \notin crossed
          => worker = since[c]
  BY DEF RpcInv, RecordsOK, OwnWorker
<1> QED  BY <1>1, RpcInvHolds, PTL DEF RpcSpec, ClosesOwnWorker

-----------------------------------------------------------------------------
(* The service worker and its media port.                                  *)

(* Messages to the service worker; headers have a status.                  *)
IsQueue(s) == \E S : s \in Seq(S) /\ \A m \in S : m.type = "headers" => m.status # 0

IsResponse(x) == x = [status |-> x.status, length |-> x.length]
IsBody(x) ==
  /\ x = [data |-> x.data, end |-> x.end]
  /\ x.end \in {"none", "open", "closed", "aborted"}
PerRequest(f) == f = [r \in Requests |-> f[r]]
IsSetup(x) == x = [of |-> x.of, worker |-> x.worker, ack |-> x.ack]

(* What the page and the service worker keep of each request.              *)
PagesOK ==
  /\ PerRequest(asked) /\ PerRequest(response) /\ PerRequest(body)
  /\ \A r \in Requests :
       /\ IsResponse(response[r]) /\ IsBody(body[r])
       /\ asked[r] = Absent => r \notin unfinished /\ body[r].end = "none"
       /\ asked[r] # Absent /\ asked[r].request.head => body[r].end # "open"
  /\ unfinished \subseteq Requests /\ IsFiniteSet(unfinished)

StreamsOK ==
  /\ streams = [r \in Requests |-> streams[r]]
  /\ network = [r \in Requests |-> network[r]]
  /\ \A r \in Requests :
       /\ streams[r].at \in {"none", "posted", "opening", "streaming", "ended", "rootless"}
       /\ IsQueue(network[r])
       /\ asked[r] = Absent => streams[r].at = "none" /\ network[r] = <<>>

(* The first message of a request without a response gives it one.         *)
ResponseFirst ==
  \A r \in unfinished : response[r].status = 0 =>
    \/ network[r] = <<>> /\ streams[r].at = "posted"
    \/ network[r] # <<>> /\ Head(network[r]).type \in {"headers", "error"}

RequestsInv == PagesOK /\ StreamsOK /\ ResponseFirst /\ NobodyForgotten

(* The setups of the version in charge: unless one of an older version     *)
(* gave up meanwhile, all but that of setupPromise have ended.             *)
SetupsOK ==
  /\ controller \in 1..MaxControllers /\ setups \in 0..MaxSetups
  /\ port \in 0..setups /\ setupPromise \in 0..setups
  /\ registering \subseteq 1..setups /\ served \subseteq Setups
  /\ setup = [i \in Setups |-> setup[i]]
  /\ restarts \in Nat /\ late \in BOOLEAN
  /\ \A i \in Setups :
       /\ IsSetup(setup[i])
       /\ setup[i].of \in 0..controller
       /\ i > setups => setup[i].worker = "none" /\ setup[i].ack = "none"
       /\ setup[i].worker \in {"registered", "ended"} => i \in served

OwnPort ==
  /\ port # 0 => setup[port].of = controller
  /\ setupPromise # 0 => setup[setupPromise].of = controller
  /\ restarts = 0 =>
       \A i \in 1..setups : setup[i].of = controller /\ setup[i].ack \in {"sent", "yes"} => port # 0

OneSetup ==
  ~late =>
    /\ \A i \in 1..setups :
         setup[i].of = controller /\ i # setupPromise => setup[i].worker = "ended"
    /\ isSetup /\ activeController = controller =>
         /\ setupPromise # 0
         /\ setup[setupPromise].worker = "ended" /\ setup[setupPromise].ack = "yes"

SetupInv == SetupsOK /\ OwnPort /\ OneSetup

(* An update that may go on knows of no download.                          *)
UpdateInv ==
  /\ waiting => controller < MaxControllers
  /\ activity \in {"none", "asking", "idle"}
  /\ activity # "none" => waiting
  /\ known \subseteq Requests /\ \A r \in known : asked[r] # Absent
  /\ activity = "idle" => \A r \in unfinished \cap known : ~Tracked(r)

(* What is under way of the answer to q: t carries the bytes from a to b;   *)
(* a chunk those of its own place, any other message none.                 *)
Span(a, b) == Bytes(a, b - 1)

Carried(m, a, b) == IF m.type = "chunk" THEN m.data = Span(a, b) ELSE a = b
Along(s, p, b) ==
  \A i \in 1..Len(s) : p[i] <= p[i + 1] /\ p[i] <= b /\ Carried(s[i], p[i], p[i + 1])
Carries(s, a, b) ==
  \E p \in [1..(Len(s) + 1) -> Int] : p[1] = a /\ p[Len(s) + 1] = b /\ Along(s, p, b)

(* The bytes promised, and the place after the last.                       *)
Total(q) == IF Start(q) >= SizeOfFile(q.file) THEN 0 ELSE LastByte(q) - Start(q) + 1
Upto(q) == Start(q) + Total(q)
IsFetch(q) == IsFile(q.file) /\ IsPlace(q.from) /\ IsPlace(q.to)

(* A stream that posted the bytes before b: it holds those it has read     *)
(* since, and its next chunk begins where they end.                        *)
Streaming(q, s, b) ==
  LET next == Upto(q) - s.remaining IN
  /\ s.next \in 1..(Len(q.file) + 1) /\ s.remaining \in Nat
  /\ b <= next /\ s.rest = Span(b, next)
  /\ s.next <= Len(q.file) => Start(q) < q.file[s.next]
  /\ s.remaining # 0 => s.next <= Len(q.file) /\ Larger(FirstByte(q.file, s.next), Start(q)) = next

(* The worker posted the bytes before b, and what it says of them is true. *)
Placed(q, s, b) ==
  /\ s.at \in {"posted", "opening"} => b = Start(q)
  /\ s.at = "opening" => Start(q) < SizeOfFile(q.file)
  /\ s.at = "streaming" => Streaming(q, s, b)
Said(q, s, Q, b) ==
  \A i \in 1..Len(Q) :
    /\ Q[i].type = "headers" => Q[i].length = Total(q)
    /\ Q[i].type = "done" => /\ i = Len(Q) /\ s.at \in {"ended", "rootless"}
                             /\ q.head \/ s.at = "rootless" \/ b = Upto(q)
Sent(q, s, Q, a, b) == b <= Upto(q) /\ Carries(Q, a, b) /\ Placed(q, s, b) /\ Said(q, s, Q, b)

(* What the page has of a body, and what is on its way to it.              *)
BodyOK(r) ==
  LET q == asked[r].request
      n == Len(body[r].data)
  IN
  /\ n \in 0..Total(q) /\ body[r].data = Span(Start(q), Start(q) + n)
  /\ body[r].end # "none" => response[r].status # 0 /\ response[r].length = Total(q)
  /\ body[r].end = "closed" => n = Total(q) \/ streams[r].at = "rootless"
QueueOK(r) ==
  LET q == asked[r].request IN
  /\ response[r].status # 0 => body[r].end # "none"
  /\ \E b \in Int : Sent(q, streams[r], network[r], Start(q) + Len(body[r].data), b)
ReadOK(r) ==
  /\ asked[r] = Absent => body[r].data = <<>> /\ response[r].status = 0
  /\ asked[r] # Absent =>
       /\ asked[r].request \in RequestsOf[r] /\ BodyOK(r)
       /\ \E b \in Int : b <= Upto(asked[r].request) /\ Placed(asked[r].request, streams[r], b)
  /\ r \in unfinished => QueueOK(r)
BodiesInv == \A r \in Requests : ReadOK(r)

MediaInv == RequestsInv /\ SetupInv /\ UpdateInv /\ BodiesInv

-----------------------------------------------------------------------------
LEMMA QueueOf ==
  ASSUME NEW S, \A m \in S : m.type = "headers" => m.status # 0, NEW s \in Seq(S)
  PROVE  IsQueue(s)
BY DEF IsQueue

LEMMA MediaInvImplies == MediaInv => ReaderSound
<1> SUFFICES ASSUME MediaInv PROVE ReaderSound
  OBVIOUS
<1> USE DEF MediaInv
<1>1. MediaTypeOK
  BY DEF MediaTypeOK, SetupInv, SetupsOK, RequestsInv, PagesOK, StreamsOK, IsBody
<1>2. ASSUME isSetup, activeController = controller, restarts = 0, ~late
      PROVE  port # 0 /\ port \in served
  <2>1. /\ setupPromise # 0 /\ setup[setupPromise].worker = "ended"
        /\ setup[setupPromise].ack = "yes" /\ setup[setupPromise].of = controller
        /\ setupPromise \in 1..setups
    BY <1>2 DEF SetupInv, SetupsOK, OneSetup, OwnPort
  <2>2. port # 0 /\ port \in 1..setups /\ setup[port].of = controller
    BY <1>2, <2>1 DEF SetupInv, SetupsOK, OwnPort
  <2>3. setup[port].worker = "ended"
    BY <1>2, <2>1, <2>2 DEF SetupInv, OneSetup
  <2>4. port \in Setups
    BY <2>2, MediaAssumption DEF SetupInv, SetupsOK, Setups
  <2> QED  BY <2>2, <2>3, <2>4 DEF SetupInv, SetupsOK
<1>3. PortSetUp
  BY <1>2 DEF PortSetUp
<1> QED  BY <1>1, <1>3 DEF ReaderSound, RequestsInv

LEMMA MediaInitHolds == MediaInit => MediaInv
<1> SUFFICES ASSUME MediaInit PROVE MediaInv
  OBVIOUS
<1> USE MediaAssumption DEF MediaInit
<1>1. IsQueue(<<>>)
  <2>1. <<>> \in Seq({}) /\ \A m \in {} : m.type = "headers" => m.status # 0
    OBVIOUS
  <2> QED  BY <2>1, QueueOf
<1>2. PagesOK
  BY FS_EmptySet DEF PagesOK, PerRequest, IsResponse, IsBody
<1>3. StreamsOK /\ ResponseFirst
  BY <1>1 DEF StreamsOK, ResponseFirst
<1>4. NobodyForgotten
  <2>1. {r \in unfinished : Tracked(r)} = {}
    OBVIOUS
  <2> QED  BY <2>1, FS_EmptySet DEF NobodyForgotten
<1>5. SetupsOK
  <2>1. \A i \in Setups : setup[i] = [of |-> 0, worker |-> "none", ack |-> "none"]
    OBVIOUS
  <2>2. controller \in 1..MaxControllers
    OBVIOUS
  <2>3. setups \in 0..MaxSetups /\ port \in 0..setups /\ setupPromise \in 0..setups
    OBVIOUS
  <2>4. restarts \in Nat /\ 0 \in 0..controller
    OBVIOUS
  <2>5. late \in BOOLEAN
    OBVIOUS
  <2>6. \A i \in Setups : IsSetup(setup[i])
    BY <2>1 DEF IsSetup
  <2> QED  BY <2>1, <2>2, <2>3, <2>4, <2>5, <2>6 DEF SetupsOK
<1>6. OwnPort /\ OneSetup
  BY DEF OwnPort, OneSetup
<1>7. UpdateInv
  BY DEF UpdateInv
<1>8. BodiesInv
  BY DEF BodiesInv, ReadOK
<1> QED  BY <1>2, <1>3, <1>4, <1>5, <1>6, <1>7, <1>8 DEF MediaInv, RequestsInv, SetupInv

-----------------------------------------------------------------------------
(* Queues.                                                                 *)
LEMMA QueueGrows ==
  ASSUME NEW s, IsQueue(s), NEW t, IsQueue(t)
  PROVE  /\ IsQueue(s \o t)
         /\ s # <<>> => s \o t # <<>> /\ Head(s \o t) = Head(s)
         /\ s = <<>> => s \o t = t
<1>1. PICK S : s \in Seq(S) /\ \A n \in S : n.type = "headers" => n.status # 0
  BY DEF IsQueue
<1>2. PICK T : t \in Seq(T) /\ \A n \in T : n.type = "headers" => n.status # 0
  BY DEF IsQueue
<1> DEFINE U == S \cup T
<1>3. s \in Seq(U) /\ t \in Seq(U)
  BY <1>1, <1>2
<1>4. \A n \in U : n.type = "headers" => n.status # 0
  BY <1>1, <1>2
<1> HIDE DEF U
<1>5. s \o t \in Seq(U) /\ Len(s \o t) = Len(s) + Len(t) /\ Len(s) \in Nat /\ Len(t) \in Nat
  BY <1>3
<1>6. IsQueue(s \o t)
  BY <1>4, <1>5 DEF IsQueue
<1>7. ASSUME s # <<>> PROVE s \o t # <<>> /\ Head(s \o t) = Head(s)
  <2>1. Len(s) > 0 /\ Len(s \o t) > 0
    BY <1>3, <1>5, <1>7
  <2>2. (s \o t)[1] = s[1]
    BY <1>3, <2>1
  <2> QED  BY <1>3, <1>5, <1>7, <2>1, <2>2
<1>8. s = <<>> => s \o t = t
  BY <1>3
<1> QED  BY <1>6, <1>7, <1>8

(* What is posted at once: a message, two, or the pieces of a chunk.       *)
LEMMA Queues ==
  /\ IsQueue(<<>>)
  /\ \A m : (m.type = "headers" => m.status # 0) => IsQueue(<<m>>)
  /\ \A m, n : (m.type = "headers" => m.status # 0) /\ n.type # "headers" => IsQueue(<<m, n>>)
<1>1. IsQueue(<<>>)
  <2>1. <<>> \in Seq({}) /\ \A m \in {} : m.type = "headers" => m.status # 0
    OBVIOUS
  <2> QED  BY <2>1, QueueOf
<1>2. ASSUME NEW m, m.type = "headers" => m.status # 0 PROVE IsQueue(<<m>>)
  <2>1. <<m>> \in Seq({m}) /\ \A n \in {m} : n.type = "headers" => n.status # 0
    BY <1>2
  <2> QED  BY <2>1, QueueOf
<1>3. ASSUME NEW m, NEW n, m.type = "headers" => m.status # 0, n.type # "headers" PROVE IsQueue(<<m, n>>)
  <2>1. <<m, n>> \in Seq({m, n}) /\ \A x \in {m, n} : x.type = "headers" => x.status # 0
    BY <1>3
  <2> QED  BY <2>1, QueueOf
<1> QED  BY <1>1, <1>2, <1>3

LEMMA QueueOfChunks ==
  ASSUME NEW t, NEW n \in Nat, t = [i \in 1..n |-> t[i]], \A i \in 1..n : t[i].type = "chunk"
  PROVE  IsQueue(t)
<1> DEFINE S == {t[i] : i \in 1..n}
<1>1. t \in Seq(S)
  OBVIOUS
<1>2. \A m \in S : m.type = "headers" => m.status # 0
  OBVIOUS
<1> QED  BY <1>1, <1>2, QueueOf

LEMMA QueueShrinks ==
  ASSUME NEW s, IsQueue(s), s # <<>>
  PROVE  IsQueue(Tail(s)) /\ (Head(s).type = "headers" => Head(s).status # 0)
<1>1. PICK S : s \in Seq(S) /\ \A n \in S : n.type = "headers" => n.status # 0
  BY DEF IsQueue
<1>2. Tail(s) \in Seq(S) /\ Head(s) \in S
  BY <1>1
<1> QED  BY <1>1, <1>2 DEF IsQueue

-----------------------------------------------------------------------------
(* The bytes of a body, in order.                                          *)
StreamRecord(stage, next, remaining, rest) ==
  [at |-> stage, next |-> next, remaining |-> remaining, rest |-> rest]

(* The bytes from a to b, b not among them.                                *)
LEMMA SpanType ==
  ASSUME NEW a \in Int, NEW b \in Int, a <= b
  PROVE  /\ Span(a, b) \in Seq(Int) /\ Len(Span(a, b)) = b - a
         /\ \A i \in 1..(b - a) : Span(a, b)[i] = a + i - 1
<1>1. b - a \in Nat /\ b - 1 - a + 1 = b - a
  OBVIOUS
<1>2. Span(a, b) = [i \in 1..(b - a) |-> a + i - 1]
  BY <1>1 DEF Span, Bytes
<1> QED  BY <1>1, <1>2

LEMMA SpanIs ==
  ASSUME NEW a \in Int, NEW b \in Int, a <= b, NEW t \in Seq(Int),
         Len(t) = b - a, \A i \in 1..(b - a) : t[i] = a + i - 1
  PROVE  t = Span(a, b)
<1>1. /\ Span(a, b) \in Seq(Int) /\ Len(Span(a, b)) = b - a
      /\ \A i \in 1..(b - a) : Span(a, b)[i] = a + i - 1
  BY SpanType
<1> HIDE DEF Span
<1> QED  BY <1>1, SeqEqual

LEMMA SpanEmpty ==
  ASSUME NEW a \in Int
  PROVE  Span(a, a) = <<>>
<1>1. Span(a, a) \in Seq(Int) /\ Len(Span(a, a)) = 0
  BY SpanType
<1> QED  BY <1>1, EmptySeq

(* Bytes side by side, and parts of them.                                  *)
LEMMA SpanJoin ==
  ASSUME NEW a \in Int, NEW b \in Int, NEW c \in Int, a <= b, b <= c
  PROVE  Span(a, b) \o Span(b, c) = Span(a, c)
<1>1. /\ Span(a, b) \in Seq(Int) /\ Len(Span(a, b)) = b - a
      /\ \A i \in 1..(b - a) : Span(a, b)[i] = a + i - 1
  BY SpanType
<1>2. /\ Span(b, c) \in Seq(Int) /\ Len(Span(b, c)) = c - b
      /\ \A i \in 1..(c - b) : Span(b, c)[i] = b + i - 1
  BY SpanType
<1>3. PICK s \in Seq(Int), t \in Seq(Int) : s = Span(a, b) /\ t = Span(b, c)
  BY <1>1, <1>2
<1>4. s \o t \in Seq(Int) /\ Len(s \o t) = c - a
  BY <1>1, <1>2, <1>3
<1>5. ASSUME NEW i \in 1..(c - a) PROVE (s \o t)[i] = a + i - 1
  <2>1. CASE i <= b - a
    <3>1. (s \o t)[i] = s[i] /\ i \in 1..(b - a)
      BY <1>1, <1>3, <1>2, <2>1
    <3> QED  BY <1>1, <1>3, <3>1
  <2>2. CASE i > b - a
    <3>1. PICK j \in 1..(c - b) : j = i - (b - a)
      BY <2>2
    <3>2. (s \o t)[i] = t[j]
      <4>1. Len(s) = b - a /\ Len(t) = c - b
        BY <1>1, <1>2, <1>3, Zenon
      <4>2. i \in 1..(Len(s) + Len(t)) /\ ~(i <= Len(s)) /\ i - Len(s) = j
        BY <2>2, <3>1, <4>1
      <4>3. (s \o t)[i] = t[i - Len(s)]
        BY <4>2, ConcatProperties, Zenon
      <4> QED  BY <4>2, <4>3, Zenon
    <3>3. t[j] = b + j - 1
      BY <1>2, <1>3
    <3>4. b + j - 1 = a + i - 1
      BY <3>1
    <3> QED  BY <3>2, <3>3, <3>4, Zenon
  <2>3. i <= b - a \/ i > b - a
    OBVIOUS
  <2> QED  BY <2>1, <2>2, <2>3, Zenon
<1>6. s \o t = Span(a, c)
  <2>1. PICK u \in Seq(Int) : u = s \o t
    BY <1>4
  <2>2. a <= c /\ Len(u) = c - a /\ \A i \in 1..(c - a) : u[i] = a + i - 1
    BY <1>4, <1>5, <2>1
  <2>3. u = Span(a, c)
    BY <2>2, SpanIs
  <2> QED  BY <2>1, <2>3
<1> QED  BY <1>3, <1>6

LEMMA SpanCut ==
  ASSUME NEW a \in Int, NEW b \in Int, a <= b, NEW i \in Int, NEW j \in Int, 1 <= i, i <= j + 1, j <= b - a
  PROVE  SubSeq(Span(a, b), i, j) = Span(a + i - 1, a + j)
<1>1. /\ Span(a, b) \in Seq(Int) /\ Len(Span(a, b)) = b - a
      /\ \A k \in 1..(b - a) : Span(a, b)[k] = a + k - 1
  BY SpanType
<1>2. PICK s \in Seq(Int) : s = Span(a, b)
  BY <1>1
<1>3. SubSeq(s, i, j) = [k \in 1..(j - i + 1) |-> s[i + k - 1]]
  OBVIOUS
<1>4. \A k \in 1..(j - i + 1) : i + k - 1 \in 1..(b - a)
  OBVIOUS
<1>5. \A k \in 1..(j - i + 1) : s[i + k - 1] = a + (i + k - 1) - 1
  BY <1>1, <1>2, <1>4
<1> DEFINE t == [k \in 1..(j - i + 1) |-> s[i + k - 1]]
<1>6. j - i + 1 \in Nat /\ \A k \in 1..(j - i + 1) : s[i + k - 1] \in Int
  <2>1. j - i + 1 \in Nat /\ \A k \in 1..(j - i + 1) : a + (i + k - 1) - 1 \in Int
    OBVIOUS
  <2> QED  BY <1>5, <2>1, Zenon
<1>7. t \in Seq(Int) /\ Len(t) = j - i + 1
  BY <1>6
<1>8. t = Span(a + i - 1, a + j)
  <2>1. a + i - 1 \in Int /\ a + j \in Int /\ a + i - 1 <= a + j /\ (a + j) - (a + i - 1) = j - i + 1
    OBVIOUS
  <2>2. \A k \in 1..(j - i + 1) : t[k] = (a + i - 1) + k - 1
    <3>1. \A k \in 1..(j - i + 1) : a + (i + k - 1) - 1 = (a + i - 1) + k - 1
      OBVIOUS
    <3>2. \A k \in 1..(j - i + 1) : t[k] = s[i + k - 1]
      OBVIOUS
    <3> HIDE DEF t
    <3> QED  BY <1>5, <3>1, <3>2
  <2> HIDE DEF t
  <2> QED  BY <1>7, <2>1, <2>2, SpanIs
<1> QED  BY <1>2, <1>3, <1>8

LEMMA SpanHead ==
  ASSUME NEW a \in Int, NEW b \in Int, a <= b, NEW k \in Nat, k <= b - a
  PROVE  /\ SubSeq(Span(a, b), 1, k) = Span(a, a + k)
         /\ SubSeq(Span(a, b), k + 1, b - a) = Span(a + k, b)
<1>1. SubSeq(Span(a, b), 1, k) = Span(a, a + k)
  <2>1. PICK i \in Int : i = 1
    OBVIOUS
  <2>2. 1 <= i /\ i <= k + 1 /\ k <= b - a /\ k \in Int
    BY <2>1
  <2>3. SubSeq(Span(a, b), i, k) = Span(a + i - 1, a + k)
    BY ZenonT(40), <2>2, SpanCut
  <2>4. a + i - 1 = a
    BY <2>1
  <2> QED  BY <2>1, <2>3, <2>4
<1>2. SubSeq(Span(a, b), k + 1, b - a) = Span(a + k, b)
  <2>1. PICK i \in Int, j \in Int : i = k + 1 /\ j = b - a
    OBVIOUS
  <2>2. 1 <= i /\ i <= j + 1 /\ j <= b - a
    BY <2>1
  <2>3. SubSeq(Span(a, b), i, j) = Span(a + i - 1, a + j)
    BY ZenonT(40), <2>2, SpanCut
  <2>4. a + i - 1 = a + k /\ a + j = b
    BY <2>1
  <2> QED  BY <2>1, <2>3, <2>4
<1> QED  BY <1>1, <1>2

(* What queues carry.                                                      *)
LEMMA CarriesNone ==
  ASSUME NEW a \in Int
  PROVE  Carries(<<>>, a, a)
<1> DEFINE p == [i \in 1..1 |-> a]
<1>1. Len(<<>>) = 0 /\ p \in [1..(0 + 1) -> Int] /\ p[1] = a /\ Along(<<>>, p, a)
  BY DEF Along
<1> QED  BY <1>1 DEF Carries

LEMMA CarriesOne ==
  ASSUME NEW m, NEW a \in Int, NEW b \in Int, a <= b, Carried(m, a, b)
  PROVE  Carries(<<m>>, a, b)
<1> DEFINE p == [i \in 1..2 |-> IF i = 1 THEN a ELSE b]
<1>1. Len(<<m>>) = 1 /\ <<m>>[1] = m
  OBVIOUS
<1>2. p \in [1..(1 + 1) -> Int] /\ p[1] = a /\ p[1 + 1] = b
  OBVIOUS
<1> HIDE DEF p
<1>3. Along(<<m>>, p, b)
  BY <1>1, <1>2 DEF Along
<1> QED  BY <1>1, <1>2, <1>3 DEF Carries

LEMMA CarriesJoin ==
  ASSUME NEW S, NEW s \in Seq(S), NEW t \in Seq(S), NEW a, NEW b, NEW c, Carries(s, a, b), Carries(t, b, c)
  PROVE  Carries(s \o t, a, c)
<1>1. PICK p \in [1..(Len(s) + 1) -> Int] : p[1] = a /\ p[Len(s) + 1] = b /\ Along(s, p, b)
  BY DEF Carries
<1>2. PICK q \in [1..(Len(t) + 1) -> Int] : q[1] = b /\ q[Len(t) + 1] = c /\ Along(t, q, c)
  BY DEF Carries
<1>3. PICK k \in Nat, n \in Nat : k = Len(s) /\ n = Len(t)
  OBVIOUS
<1>4. /\ Len(s \o t) = k + n
      /\ \A i \in 1..k : (s \o t)[i] = s[i]
      /\ \A i \in 1..n : (s \o t)[k + i] = t[i]
  BY <1>3
<1> DEFINE u == [i \in 1..(k + n + 1) |-> IF i <= k THEN p[i] ELSE q[i - k]]
<1>5. /\ a \in Int /\ b \in Int /\ c \in Int /\ b <= c
      /\ \A i \in 1..(k + 1) : p[i] \in Int
      /\ \A i \in 1..(n + 1) : q[i] \in Int
  <2>1. a \in Int /\ b \in Int /\ c \in Int
    <3>1. 1 \in 1..(k + 1) /\ k + 1 \in 1..(k + 1) /\ n + 1 \in 1..(n + 1)
      OBVIOUS
    <3> QED  BY <1>1, <1>2, <1>3, <3>1
  <2>2. b <= c
    <3>1. CASE n = 0
      BY <1>2, <1>3, <2>1, <3>1
    <3>2. CASE n # 0
      BY <1>2, <1>3, <3>2 DEF Along
    <3> QED  BY <3>1, <3>2
  <2> QED  BY <1>1, <1>2, <1>3, <2>1, <2>2
<1>6. u \in [1..(k + n + 1) -> Int]
  <2>1. ASSUME NEW i \in 1..(k + n + 1) PROVE (IF i <= k THEN p[i] ELSE q[i - k]) \in Int
    <3>1. i <= k => i \in 1..(k + 1)
      OBVIOUS
    <3>2. ~(i <= k) => i - k \in 1..(n + 1)
      OBVIOUS
    <3> QED  BY <1>5, <3>1, <3>2
  <2> QED  BY <2>1
<1>7. /\ \A i \in 1..k : u[i] = p[i] /\ u[i + 1] = p[i + 1]
      /\ \A i \in 1..(n + 1) : u[k + i] = q[i]
  <2>1. ASSUME NEW i \in 1..(n + 1) PROVE u[k + i] = q[i]
    <3>1. k + i \in 1..(k + n + 1) /\ ~(k + i <= k) /\ (k + i) - k = i
      OBVIOUS
    <3> QED  BY <3>1
  <2>2. ASSUME NEW i \in 1..k PROVE u[i] = p[i] /\ u[i + 1] = p[i + 1]
    <3>1. i \in 1..(k + n + 1) /\ i <= k
      OBVIOUS
    <3>2. u[i] = p[i]
      BY <3>1
    <3>3. CASE i + 1 <= k
      <4>1. i + 1 \in 1..(k + n + 1)
        OBVIOUS
      <4> QED  BY <3>2, <3>3, <4>1
    <3>4. CASE i = k
      <4>1. u[k + 1] = q[1] /\ 1 \in 1..(n + 1)
        BY <2>1
      <4> HIDE DEF u
      <4> QED  BY <1>1, <1>2, <1>3, <3>2, <3>4, <4>1
    <3>5. i + 1 <= k \/ i = k
      OBVIOUS
    <3> QED  BY <3>3, <3>4, <3>5
  <2> QED  BY <2>1, <2>2
<1> HIDE DEF u
<1>8. u[1] = a
  <2>1. CASE k = 0
    <3>1. u[0 + 1] = q[1] /\ p[0 + 1] = b
      BY <1>1, <1>3, <1>7, <2>1
    <3>2. 0 + 1 = 1
      OBVIOUS
    <3> QED  BY <1>1, <1>2, <3>1, <3>2, Zenon
  <2>2. CASE k # 0
    <3>1. 1 \in 1..k
      BY <2>2
    <3> QED  BY <1>1, <1>7, <3>1, Zenon
  <2> QED  BY <2>1, <2>2
<1>9. u[k + n + 1] = c
  <2>1. n + 1 \in 1..(n + 1) /\ k + n + 1 = k + (n + 1)
    OBVIOUS
  <2> QED  BY <1>2, <1>3, <1>7, <2>1
<1>10. ASSUME NEW i \in 1..(k + n)
       PROVE  u[i] <= u[i + 1] /\ u[i] <= c /\ Carried((s \o t)[i], u[i], u[i + 1])
  <2>1. CASE i <= k
    <3>1. i \in 1..k /\ i \in 1..(k + 1)
      BY <2>1
    <3>2. p[i] <= p[i + 1] /\ p[i] <= b /\ Carried(s[i], p[i], p[i + 1])
      BY <1>1, <1>3, <3>1 DEF Along
    <3>3. p[i] <= c
      BY <1>5, <3>1, <3>2
    <3> QED  BY <1>4, <1>7, <3>1, <3>2, <3>3
  <2>2. CASE i > k
    <3>1. PICK j \in 1..n : i = k + j /\ i + 1 = k + (j + 1) /\ j \in 1..(n + 1) /\ j + 1 \in 1..(n + 1)
      <4>1. i - k \in 1..n /\ i = k + (i - k) /\ i + 1 = k + ((i - k) + 1) /\ i - k \in 1..(n + 1) /\ (i - k) + 1 \in 1..(n + 1)
        BY <2>2
      <4> QED  BY <4>1
    <3>2. q[j] <= q[j + 1] /\ q[j] <= c /\ Carried(t[j], q[j], q[j + 1])
      BY <1>2, <1>3, <3>1 DEF Along
    <3>3. u[i] = q[j] /\ u[i + 1] = q[j + 1] /\ (s \o t)[i] = t[j]
      BY <1>4, <1>7, <3>1
    <3> QED  BY <3>2, <3>3, Zenon
  <2>3. i <= k \/ i > k
    OBVIOUS
  <2> QED  BY <2>1, <2>2, <2>3, Zenon
<1>11. Along(s \o t, u, c)
  BY <1>4, <1>10 DEF Along
<1> QED  BY <1>4, <1>6, <1>8, <1>9, <1>11 DEF Carries

LEMMA CarriesTwo ==
  ASSUME NEW m, NEW n, NEW a \in Int, NEW b \in Int, a <= b, Carried(m, a, b), n.type # "chunk"
  PROVE  Carries(<<m, n>>, a, b)
<1>1. Carries(<<m>>, a, b) /\ Carries(<<n>>, b, b)
  BY CarriesOne DEF Carried
<1>2. <<m>> \in Seq({m, n}) /\ <<n>> \in Seq({m, n}) /\ <<m, n>> \in Seq({m, n})
  OBVIOUS
<1>3. <<m>> \o <<n>> = <<m, n>>
  <2>1. PICK s, t, u \in Seq({m, n}) : s = <<m>> /\ t = <<n>> /\ u = <<m, n>>
    BY <1>2
  <2>2. Len(s) = 1 /\ Len(t) = 1 /\ Len(u) = 2 /\ s[1] = m /\ t[1] = n /\ u[1] = m /\ u[2] = n
    BY <2>1
  <2>3. s \o t \in Seq({m, n}) /\ Len(s \o t) = 2 /\ (s \o t)[1] = m /\ (s \o t)[2] = n
    BY <1>2, <2>1, <2>2
  <2>4. \A i \in 1..2 : (s \o t)[i] = u[i]
    BY <2>2, <2>3
  <2>5. s \o t = u
    BY <1>2, <2>1, <2>2, <2>3, <2>4, SeqEqual
  <2> QED  BY <2>1, <2>5
<1>4. Carries(<<m>> \o <<n>>, a, b)
  BY <1>1, <1>2, CarriesJoin
<1> QED  BY <1>3, <1>4

LEMMA CarriesTail ==
  ASSUME NEW S, NEW s \in Seq(S), s # <<>>, NEW a, NEW b, Carries(s, a, b)
  PROVE  \E c \in Int : a <= c /\ c <= b /\ Carried(Head(s), a, c) /\ Carries(Tail(s), c, b)
<1>1. PICK p \in [1..(Len(s) + 1) -> Int] : p[1] = a /\ p[Len(s) + 1] = b /\ Along(s, p, b)
  BY DEF Carries
<1>2. PICK n \in Nat : Len(s) = n + 1
  BY EmptySeq
<1>3. PICK t : t = Tail(s)
  OBVIOUS
<1>4. Len(t) = n /\ (\A i \in 1..n : t[i] = s[i + 1]) /\ Head(s) = s[1]
  BY <1>2, <1>3
<1>5. /\ p[1] <= p[2] /\ p[1] <= b /\ Carried(s[1], p[1], p[2])
      /\ p[2] \in Int /\ b \in Int /\ a \in Int
  BY <1>1, <1>2 DEF Along
<1>6. p[2] <= b
  <2>1. CASE n = 0
    BY <1>1, <1>2, <1>5, <2>1
  <2>2. CASE n # 0
    BY <1>1, <1>2, <2>2 DEF Along
  <2> QED  BY <2>1, <2>2
<1> DEFINE q == [i \in 1..(n + 1) |-> p[i + 1]]
<1>7. q \in [1..(n + 1) -> Int] /\ q[1] = p[2] /\ q[n + 1] = b
  BY <1>1, <1>2
<1>8. Along(t, q, b)
  <2>1. ASSUME NEW i \in 1..n PROVE q[i] <= q[i + 1] /\ q[i] <= b /\ Carried(t[i], q[i], q[i + 1])
    <3>1. i + 1 \in 1..Len(s) /\ q[i] = p[i + 1] /\ q[i + 1] = p[(i + 1) + 1] /\ t[i] = s[i + 1]
      BY <1>2, <1>4
    <3> HIDE DEF q
    <3> QED  BY <1>1, <3>1 DEF Along
  <2> HIDE DEF q
  <2> QED  BY <1>4, <2>1 DEF Along
<1> HIDE DEF q
<1>9. Carries(t, p[2], b)
  BY <1>4, <1>7, <1>8 DEF Carries
<1> QED  BY <1>1, <1>3, <1>4, <1>5, <1>6, <1>9

(* The full chunks of what was read.                                       *)
LEMMA Piece ==
  ASSUME NEW k \in Nat \ {0}, NEW i \in Nat, NEW n \in Nat, i <= n
  PROVE  i * k <= n * k /\ (i + 1) * k = i * k + k /\ i * k \in Nat
<1>1. PICK j \in Nat : n = i + j
  <2>1. n - i \in Nat /\ n = i + (n - i)
    OBVIOUS
  <2> QED  BY <2>1
<1>2. n * k = i * k + j * k /\ j * k \in Nat /\ i * k \in Nat
  BY <1>1
<1> QED  BY <1>2

LEMMA CarriesPieces ==
  ASSUME NEW a \in Int, NEW b \in Int, NEW n \in Nat, NEW d, a <= b, d = Span(a, b), n * ChunkSize <= b - a,
         NEW t, t = [i \in 1..n |-> Message("chunk", SubSeq(d, (i - 1) * ChunkSize + 1, i * ChunkSize))]
  PROVE  Carries(t, a, a + n * ChunkSize)
<1> DEFINE k == ChunkSize
           p == [i \in 1..(n + 1) |-> a + (i - 1) * k]
<1>1. k \in Nat \ {0}
  BY FilesAssumption
<1> HIDE DEF k
<1>2. Len(t) = n
  BY DEF k
<1>3. /\ \A i \in 1..(n + 1) : (i - 1) * k \in Nat
      /\ 0 * k = 0
  BY <1>1
<1>4. p \in [1..(n + 1) -> Int] /\ p[1] = a /\ p[n + 1] = a + n * k
  BY <1>3
<1>5. ASSUME NEW i \in 1..n
      PROVE  p[i] <= p[i + 1] /\ p[i] <= a + n * k /\ Carried(t[i], p[i], p[i + 1])
  <2>1. PICK j \in Nat : i = j + 1 /\ j + 1 <= n /\ j <= n
    <3>1. i - 1 \in Nat /\ i = (i - 1) + 1
      OBVIOUS
    <3> QED  BY <3>1
  <2>2. p[i] = a + j * k /\ p[i + 1] = a + (j + 1) * k
    BY <2>1
  <2>3. j * k <= n * k /\ (j + 1) * k <= n * k /\ (j + 1) * k = j * k + k
        /\ j * k \in Nat /\ (j + 1) * k \in Nat /\ n * k \in Nat
    BY <1>1, <2>1, Piece
  <2>4. PICK x \in Nat, y \in Nat, z \in Nat : x = j * k /\ y = (j + 1) * k /\ z = n * k
    BY <2>3, Zenon
  <2>5. t[i].type = "chunk" /\ t[i].data = SubSeq(d, x + 1, y)
    BY <2>1, <2>4 DEF Message, k
  <2>6. x <= z /\ y <= z /\ y = x + k /\ z <= b - a
    BY <2>3, <2>4 DEF k
  <2>7. SubSeq(d, x + 1, y) = Span(a + (x + 1) - 1, a + y)
    <3>1. PICK v \in Int : v = x + 1
      OBVIOUS
    <3>2. y \in Int /\ 1 <= v /\ v <= y + 1 /\ y <= b - a
      BY <1>1, <2>6, <3>1
    <3>3. SubSeq(Span(a, b), v, y) = Span(a + v - 1, a + y)
      BY ZenonT(40), <3>2, SpanCut
    <3> QED  BY <3>1, <3>3
  <2>8. a + (x + 1) - 1 = a + x
    OBVIOUS
  <2>9. Carried(t[i], a + x, a + y)
    BY <2>5, <2>7, <2>8 DEF Carried
  <2>10. a + x <= a + y /\ a + x <= a + z
    BY <1>1, <2>6
  <2> HIDE DEF p
  <2> QED  BY <2>2, <2>4, <2>9, <2>10
<1>6. Along(t, p, a + n * k)
  <2> HIDE DEF p
  <2> QED  BY <1>2, <1>5 DEF Along
<1> HIDE DEF p
<1>7. Carries(t, a, a + n * k)
  BY <1>2, <1>4, <1>6 DEF Carries
<1> QED  BY <1>7 DEF k

LEMMA Fits ==
  ASSUME NEW l \in Nat, NEW k \in Nat \ {0}
  PROVE  l \div k \in Nat /\ (l \div k) * k \in Nat /\ (l \div k) * k <= l
<1>1. l = (k * (l \div k)) + (l % k) /\ l % k \in 0..(k - 1) /\ l \div k \in Nat
  OBVIOUS
<1>2. PICK n \in Nat, m \in Nat : n = l \div k /\ m = l % k
  BY <1>1
<1>3. l = n * k + m /\ n * k \in Nat
  BY <1>1, <1>2
<1> QED  BY <1>2, <1>3

(* The range of a request lies in its file.                                *)
LEMMA RangeIs ==
  ASSUME NEW q, IsFetch(q)
  PROVE  /\ q.file \in Seq(Nat) /\ Len(q.file) \in Nat /\ SizeOfFile(q.file) \in Nat
         /\ Start(q) \in Nat /\ Total(q) \in Nat /\ Upto(q) \in Nat /\ LastByte(q) \in Int
         /\ Start(q) < SizeOfFile(q.file) =>
              /\ Upto(q) = LastByte(q) + 1 /\ Total(q) = LastByte(q) - Start(q) + 1 /\ Total(q) # 0
              /\ Upto(q) <= SizeOfFile(q.file)
              /\ Len(q.file) # 0 /\ SizeOfFile(q.file) = q.file[Len(q.file)]
<1>1. q.file \in Seq(Nat) /\ Len(q.file) \in Nat
  BY DEF IsFetch, IsFile
<1>2. SizeOfFile(q.file) \in Nat /\ (Len(q.file) # 0 => SizeOfFile(q.file) = q.file[Len(q.file)])
      /\ (Len(q.file) = 0 => SizeOfFile(q.file) = 0)
  <2>1. CASE q.file = <<>>
    BY <2>1 DEF SizeOfFile
  <2>2. CASE q.file # <<>>
    <3>1. Len(q.file) \in 1..Len(q.file)
      BY <1>1, <2>2
    <3> QED  BY <1>1, <2>2, <3>1 DEF SizeOfFile
  <2> QED  BY <2>1, <2>2
<1>3. Start(q) \in Nat
  BY DEF IsFetch, IsPlace, Start
<1>4. LastByte(q) \in Int /\ (Start(q) < SizeOfFile(q.file) => Start(q) <= LastByte(q) /\ LastByte(q) < SizeOfFile(q.file))
  BY <1>2, <1>3 DEF IsFetch, IsPlace, LastByte, Smaller, Larger
<1>5. PICK size \in Nat, n \in Nat, last \in Int : size = SizeOfFile(q.file) /\ n = Start(q) /\ last = LastByte(q)
  BY <1>2, <1>3, <1>4
<1>6. Total(q) = (IF n >= size THEN 0 ELSE last - n + 1) /\ Upto(q) = n + Total(q)
  BY <1>5 DEF Total, Upto
<1>7. n < size => n <= last /\ last < size
  BY <1>4, <1>5
<1>8. Total(q) \in Nat /\ Upto(q) \in Nat
      /\ (n < size => Total(q) = last - n + 1 /\ Total(q) # 0 /\ Upto(q) = last + 1 /\ Upto(q) <= size)
  BY <1>6, <1>7
<1>9. n < size => Len(q.file) # 0
  BY <1>2, <1>5
<1> QED  BY <1>1, <1>2, <1>3, <1>4, <1>5, <1>8, <1>9

(* A stream that opens is at the first byte; one that goes on posts the bytes*)
(* after those it posted; one that is over has read them all.              *)
LEMMA StreamOpens ==
  ASSUME NEW q, IsFetch(q), Start(q) < SizeOfFile(q.file), NEW i \in 1..Len(q.file),
         FirstByte(q.file, i) <= Start(q), Start(q) < q.file[i],
         NEW s, s.next = i, s.remaining = LastByte(q) - Start(q) + 1, s.rest = <<>>
  PROVE  Streaming(q, s, Start(q))
<1>1. /\ Len(q.file) \in Nat /\ q.file \in Seq(Nat) /\ Start(q) \in Nat /\ Total(q) \in Nat
      /\ s.remaining = Total(q) /\ Upto(q) = Start(q) + Total(q)
  BY RangeIs DEF Upto
<1>2. Upto(q) - s.remaining = Start(q)
  BY <1>1
<1>3. s.rest = Span(Start(q), Start(q))
  BY <1>1, SpanEmpty
<1>4. FirstByte(q.file, i) \in Nat
  BY <1>1 DEF FirstByte
<1>5. Larger(FirstByte(q.file, i), Start(q)) = Start(q)
  <2>1. \A m, n \in Nat : m <= n => Larger(m, n) = n
    BY DEF Larger
  <2> QED  BY <1>1, <1>4, <2>1, Zenon
<1>6. i \in 1..(Len(q.file) + 1) /\ i <= Len(q.file)
  BY <1>1
<1> QED  BY <1>1, <1>2, <1>3, <1>5, <1>6 DEF Streaming

LEMMA ChunkRead ==
  ASSUME NEW q, IsFetch(q), NEW n \in 1..Len(q.file), NEW left \in Nat \ {0}, NEW from \in Int,
         Start(q) < q.file[n], Larger(FirstByte(q.file, n), Start(q)) = from, from + left = Upto(q)
  PROVE  \E k \in Nat :
           /\ k <= left
           /\ Consumed(ReadFileStream(q.file, n, Start(q)), left) = Span(from, from + k)
           /\ n < Len(q.file) => Start(q) < q.file[n + 1]
           /\ k # left => n < Len(q.file) /\ Larger(FirstByte(q.file, n + 1), Start(q)) = from + k
<1>1. /\ q.file \in Seq(Nat) /\ Len(q.file) \in Nat /\ SizeOfFile(q.file) \in Nat
      /\ Start(q) \in Nat /\ Upto(q) \in Nat /\ q.file[n] \in Nat
  <2>1. /\ q.file \in Seq(Nat) /\ Len(q.file) \in Nat /\ SizeOfFile(q.file) \in Nat
        /\ Start(q) \in Nat /\ Upto(q) \in Nat
    BY RangeIs, Zenon
  <2>2. q.file[n] \in Nat
    BY <2>1, ElementOfSeq, Zenon
  <2> QED  BY <2>1, <2>2
<1>2. PICK to \in Nat, len \in Nat, start \in Nat : to = q.file[n] /\ len = Len(q.file) /\ start = Start(q)
  BY <1>1, Zenon
<1>3. \A i, j \in 1..len : i <= j => q.file[i] \in Nat /\ q.file[i] <= q.file[j]
  <2>1. \A i, j \in 1..len : i <= j => q.file[i] <= q.file[j]
    BY <1>2 DEF IsFetch, IsFile
  <2>2. q.file \in Seq(Nat) /\ len = Len(q.file)
    BY <1>1, <1>2
  <2>3. \A i \in 1..len : q.file[i] \in Nat
    BY <2>2, ElementOfSeq
  <2> QED  BY <2>1, <2>3
<1>4. FirstByte(q.file, n) \in Nat /\ FirstByte(q.file, n) <= to
  <2>1. CASE n = 1
    BY <1>2, <2>1 DEF FirstByte
  <2>2. CASE n # 1
    <3>1. n - 1 \in 1..len /\ n - 1 <= n /\ n \in 1..len
      BY <1>2, <2>2
    <3>2. q.file[n - 1] \in Nat /\ q.file[n - 1] <= q.file[n]
      BY <1>3, <3>1
    <3>3. FirstByte(q.file, n) = q.file[n - 1]
      BY <2>2 DEF FirstByte
    <3> QED  BY <1>2, <3>2, <3>3
  <2> QED  BY <2>1, <2>2
<1>5. start < to /\ from <= to
  BY <1>2, <1>4 DEF Larger
<1>6. PICK k \in Nat : k = Smaller(to - from, left) /\ k <= to - from /\ k <= left /\ (k = to - from \/ k = left)
  <2>1. CASE to - from < left
    <3>1. Smaller(to - from, left) = to - from /\ to - from \in Nat
      BY <1>5, <2>1 DEF Smaller
    <3> QED  BY <2>1, <3>1
  <2>2. CASE ~(to - from < left)
    <3>1. Smaller(to - from, left) = left
      BY <2>2 DEF Smaller
    <3> QED  BY <2>2, <3>1
  <2> QED  BY <2>1, <2>2
<1>7. Consumed(ReadFileStream(q.file, n, Start(q)), left) = Span(from, from + k)
  <2>1. ReadFileStream(q.file, n, Start(q)) = Span(from, to)
    BY <1>2 DEF ReadFileStream, Span
  <2>2. Len(Span(from, to)) = to - from
    <3>1. from \in Int /\ to \in Int /\ from <= to
      BY <1>5
    <3> QED  BY <3>1, SpanType, Zenon
  <2>3. Consumed(Span(from, to), left) = SubSeq(Span(from, to), 1, k)
    BY <1>6, <2>2 DEF Consumed
  <2>4. SubSeq(Span(from, to), 1, k) = Span(from, from + k)
    <3>1. from \in Int /\ to \in Int /\ from <= to /\ k <= to - from
      BY <1>5, <1>6
    <3> QED  BY <3>1, SpanHead
  <2> QED  BY <2>1, <2>3, <2>4
<1>8. ASSUME n < len PROVE start < q.file[n + 1]
  <2>1. n \in 1..len /\ n + 1 \in 1..len /\ n <= n + 1
    BY <1>2, <1>8
  <2>2. q.file[n] <= q.file[n + 1] /\ q.file[n + 1] \in Nat
    BY <1>3, <2>1
  <2> QED  BY <1>2, <1>5, <2>2
<1>9. ASSUME k # left PROVE n < len /\ Larger(FirstByte(q.file, n + 1), start) = from + k
  <2>1. from + k = to /\ to < from + left
    BY <1>6, <1>9
  <2>2. FirstByte(q.file, n + 1) = to
    BY <1>2 DEF FirstByte
  <2>3. Larger(FirstByte(q.file, n + 1), start) = from + k
    BY <1>5, <2>1, <2>2 DEF Larger
  <2>4. PICK size \in Nat : size = SizeOfFile(q.file)
    BY <1>1
  <2>5. start < size
    <3>1. CASE start >= size
      <4>1. Upto(q) = start
        BY <1>2, <2>4, <3>1 DEF Upto, Total
      <4> QED  BY <1>5, <2>1, <4>1
    <3> QED  BY <3>1
  <2>6. Upto(q) <= size /\ size = q.file[len]
    BY <1>2, <2>4, <2>5, RangeIs
  <2>7. n # len
    BY <1>2, <2>1, <2>6
  <2> QED  BY <1>2, <2>3, <2>7
<1> QED  BY <1>2, <1>6, <1>7, <1>8, <1>9

LEMMA StreamGoesOn ==
  ASSUME NEW q, IsFetch(q), NEW s, NEW b \in Int, Streaming(q, s, b), ~(s.next > Len(q.file) \/ s.remaining <= 0)
  PROVE  LET new == Consumed(ReadFileStream(q.file, s.next, Start(q)), s.remaining)
             all == s.rest \o new
             full == Len(all) \div ChunkSize
             t == [i \in 1..full |-> Message("chunk", SubSeq(all, (i - 1) * ChunkSize + 1, i * ChunkSize))]
             x == StreamRecord("streaming", s.next + 1, s.remaining - Len(new), SubSeq(all, full * ChunkSize + 1, Len(all)))
         IN  /\ full \in Nat
             /\ \E c \in Int : Carries(t, b, c) /\ c <= Upto(q) /\ Streaming(q, x, c)
<1>1. /\ Len(q.file) \in Nat /\ Start(q) \in Nat /\ Upto(q) \in Nat
  BY RangeIs
<1>2. PICK n \in 1..Len(q.file), left \in Nat \ {0} : n = s.next /\ left = s.remaining
  BY <1>1 DEF Streaming
<1>3. PICK from \in Int, end \in Nat : from = end - left /\ end = Upto(q)
  BY <1>1, <1>2
<1>4. /\ b <= from /\ s.rest = Span(b, from) /\ Start(q) < q.file[n]
      /\ Larger(FirstByte(q.file, n), Start(q)) = from
  BY <1>1, <1>2, <1>3 DEF Streaming
<1>5. PICK k \in Nat :
        /\ k <= left
        /\ Consumed(ReadFileStream(q.file, n, Start(q)), left) = Span(from, from + k)
        /\ n < Len(q.file) => Start(q) < q.file[n + 1]
        /\ k # left => n < Len(q.file) /\ Larger(FirstByte(q.file, n + 1), Start(q)) = from + k
  <2>1. from + left = Upto(q)
    BY <1>3
  <2> QED  BY <1>4, <2>1, ChunkRead
<1>6. PICK upto \in Int, C \in Nat \ {0} : upto = from + k /\ C = ChunkSize
  BY FilesAssumption
<1>7. from <= upto /\ b <= upto /\ upto <= end /\ upto - from = k /\ upto - b \in Nat
  <2>1. b <= from /\ k <= left /\ from = end - left /\ upto = from + k
    BY <1>3, <1>4, <1>5, <1>6, Zenon
  <2> QED  BY <2>1
<1> DEFINE new == Consumed(ReadFileStream(q.file, s.next, Start(q)), s.remaining)
           all == s.rest \o new
           full == Len(all) \div ChunkSize
           t == [i \in 1..full |-> Message("chunk", SubSeq(all, (i - 1) * ChunkSize + 1, i * ChunkSize))]
           x == StreamRecord("streaming", s.next + 1, s.remaining - Len(new), SubSeq(all, full * ChunkSize + 1, Len(all)))
<1>8. new = Span(from, upto) /\ Len(new) = k
  <2>1. new = Span(from, upto)
    BY <1>2, <1>5, <1>6
  <2>2. Len(Span(from, upto)) = upto - from
    BY <1>7, SpanType
  <2> QED  BY <1>7, <2>1, <2>2
<1>9. all = Span(b, upto) /\ Len(all) = upto - b
  <2>1. Span(b, from) \o Span(from, upto) = Span(b, upto)
    BY <1>4, <1>7, SpanJoin
  <2>2. Len(Span(b, upto)) = upto - b
    BY <1>7, SpanType
  <2> QED  BY <1>4, <1>8, <2>1, <2>2
<1> HIDE DEF new, all
<1>10. PICK m \in Nat : m = full * C /\ m <= upto - b /\ full \in Nat
  <2>1. full = (upto - b) \div C
    BY <1>6, <1>9
  <2>2. full \in Nat /\ full * C \in Nat /\ full * C <= upto - b
    BY <1>7, <2>1, Fits
  <2> QED  BY <2>2
<1>11. Carries(t, b, b + m)
  <2> HIDE DEF full
  <2>1. full * ChunkSize <= upto - b
    BY <1>6, <1>10
  <2>2. b \in Int /\ upto \in Int /\ b <= upto /\ full \in Nat /\ all = Span(b, upto)
    BY <1>7, <1>9, <1>10
  <2>3. \A u : u = t => Carries(u, b, b + full * ChunkSize)
    BY <2>1, <2>2, CarriesPieces
  <2> QED  BY <1>6, <1>10, <2>3
<1>12. SubSeq(all, full * ChunkSize + 1, Len(all)) = Span(b + m, upto)
  <2> HIDE DEF full
  <2>1. SubSeq(Span(b, upto), m + 1, upto - b) = Span(b + m, upto)
    <3>1. b \in Int /\ upto \in Int /\ b <= upto /\ m \in Nat /\ m <= upto - b
      BY <1>7, <1>10
    <3> QED  BY ZenonT(40), <3>1, SpanHead
  <2> QED  BY <1>6, <1>9, <1>10, <2>1
<1> HIDE DEF full, t
<1>13. x.next = n + 1 /\ x.remaining = left - k /\ x.rest = Span(b + m, upto)
  BY <1>2, <1>8, <1>12 DEF StreamRecord
<1> HIDE DEF x
<1>14. Streaming(q, x, b + m)
  <2>1. n + 1 \in 1..(Len(q.file) + 1) /\ left - k \in Nat /\ end - (left - k) = upto /\ b + m <= upto
    <3>1. k <= left /\ from = end - left /\ upto = from + k /\ m <= upto - b
      BY <1>3, <1>5, <1>6, <1>10, Zenon
    <3>2. n + 1 \in 1..(Len(q.file) + 1)
      BY <1>1
    <3> QED  BY <3>1, <3>2
  <2>2. n + 1 <= Len(q.file) => Start(q) < q.file[n + 1]
    BY <1>1, <1>5
  <2>3. left - k # 0 => n + 1 <= Len(q.file) /\ Larger(FirstByte(q.file, n + 1), Start(q)) = upto
    BY <1>1, <1>5, <1>6
  <2> QED  BY <1>3, <1>13, <2>1, <2>2, <2>3 DEF Streaming
<1>15. b + m \in Int /\ b + m <= Upto(q)
  BY <1>3, <1>7, <1>10
<1> QED  BY <1>10, <1>11, <1>14, <1>15 DEF x, t, full, all, new

LEMMA StreamOver ==
  ASSUME NEW q, IsFetch(q), NEW s, NEW b \in Int, Streaming(q, s, b), s.next > Len(q.file) \/ s.remaining <= 0
  PROVE  b <= Upto(q) /\ s.rest = Span(b, Upto(q)) /\ (s.rest = <<>> => b = Upto(q))
<1>1. Len(q.file) \in Nat /\ Upto(q) \in Nat
  BY RangeIs
<1>2. s.remaining = 0
  BY <1>1 DEF Streaming
<1>3. Upto(q) - s.remaining = Upto(q)
  BY <1>1, <1>2
<1>4. b <= Upto(q) /\ s.rest = Span(b, Upto(q))
  BY <1>3 DEF Streaming
<1>5. Len(Span(b, Upto(q))) = Upto(q) - b
  <2>1. \A e \in Int : b <= e => Len(Span(b, e)) = e - b
    BY SpanType
  <2>2. Upto(q) \in Int
    BY <1>1
  <2> QED  BY <1>4, <2>1, <2>2, Zenon
<1>6. Len(<<>>) = 0
  OBVIOUS
<1>7. s.rest = <<>> => Upto(q) - b = 0
  BY <1>4, <1>5, <1>6
<1>8. s.rest = <<>> => b = Upto(q)
  BY <1>1, <1>7
<1> QED  BY <1>4, <1>8

LEMMA FetchIs ==
  ASSUME NEW r \in Requests, ReadOK(r), asked[r] # Absent
  PROVE  IsFetch(asked[r].request)
BY FilesAssumption DEF ReadOK, IsFetch

-----------------------------------------------------------------------------
(* Downloads that are counted.                                             *)
Downloads == {x \in unfinished : Tracked(x)}

LEMMA ClearPendingCounts ==
  ASSUME PagesOK, NobodyForgotten, NEW r \in unfinished, ClearPending(r), asked' = asked
  PROVE  /\ activeDownloadCount' = Cardinality(Downloads')
         /\ unfinished' = unfinished \ {r} /\ IsFiniteSet(unfinished')
<1>1. IsFiniteSet(Downloads) /\ Cardinality(Downloads) \in Nat
  BY FS_Subset, FS_CardinalityType DEF PagesOK, Downloads
<1>2. activeDownloadCount = Cardinality(Downloads)
  BY DEF NobodyForgotten, Downloads
<1>3. unfinished' = unfinished \ {r} /\ IsFiniteSet(unfinished')
  BY FS_Subset DEF ClearPending, PagesOK
<1>4. \A x : Tracked(x)' <=> Tracked(x)
  BY DEF Tracked
<1>5. Downloads' = Downloads \ {r}
  BY <1>3, <1>4 DEF Downloads
<1>6. CASE Tracked(r)
  <2>1. r \in Downloads
    BY <1>6 DEF Downloads
  <2>2. Cardinality(Downloads \ {r}) = Cardinality(Downloads) - 1 /\ Cardinality(Downloads) # 0
    BY <1>1, <2>1, FS_RemoveElement, FS_EmptySet
  <2> QED  BY <1>1, <1>2, <1>3, <1>5, <1>6, <2>2 DEF ClearPending
<1>7. CASE ~Tracked(r)
  <2>1. Downloads \ {r} = Downloads
    BY <1>7 DEF Downloads
  <2> QED  BY <1>1, <1>2, <1>3, <1>5, <1>7, <2>1 DEF ClearPending
<1> QED  BY <1>6, <1>7

(* What a break leaves of every request.                                   *)
LEMMA BreakSettles ==
  ASSUME PagesOK, NEW R, Break(R)
  PROVE  /\ PerRequest(response') /\ PerRequest(body')
         /\ \A x \in Requests :
              /\ IsResponse(response'[x]) /\ IsBody(body'[x])
              /\ body[x].end # "open" => body'[x].end = body[x].end
              /\ x \in R => response'[x].status # 0 /\ body'[x].end # "open"
              /\ x \notin R => response'[x] = response[x] /\ body'[x] = body[x]
<1>1. ASSUME NEW x \in Requests
      PROVE  /\ IsResponse(response'[x])
             /\ x \in R => response'[x].status # 0
             /\ x \notin R => response'[x] = response[x]
  <2>1. IsResponse(response[x])
    BY DEF PagesOK
  <2>2. response'[x] = IF x \in R /\ response[x].status = 0
                       THEN [status |-> 500, length |-> 0] ELSE response[x]
    BY DEF Break
  <2> QED  BY <2>1, <2>2 DEF IsResponse
<1>2. ASSUME NEW x \in Requests
      PROVE  /\ IsBody(body'[x])
             /\ body[x].end # "open" => body'[x].end = body[x].end
             /\ x \in R => body'[x].end # "open"
             /\ x \notin R => body'[x] = body[x]
  <2>1. IsBody(body[x])
    BY DEF PagesOK
  <2>2. body'[x] = IF x \in R /\ body[x].end = "open"
                   THEN [body[x] EXCEPT !.end = "aborted"] ELSE body[x]
    BY DEF Break
  <2>3. [body[x] EXCEPT !.end = "aborted"] = [data |-> body[x].data, end |-> "aborted"]
    BY <2>1 DEF IsBody
  <2> QED  BY <2>1, <2>2, <2>3 DEF IsBody
<1> QED  BY <1>1, <1>2 DEF Break, PerRequest

(* The service worker stops.                                               *)
LEMMA StopsKeeps ==
  ASSUME RequestsInv, Stops, UNCHANGED <<asked, streamVars>>
  PROVE  RequestsInv'
<1> USE DEF RequestsInv
<1>1. unfinished' = {} /\ activeDownloadCount' = 0 /\ Break(unfinished)
  BY DEF Stops
<1>2. PagesOK'
  BY <1>1, BreakSettles, FS_EmptySet DEF PagesOK
<1>3. StreamsOK' /\ ResponseFirst'
  BY <1>1 DEF StreamsOK, ResponseFirst, streamVars
<1>4. NobodyForgotten'
  <2>1. {r \in unfinished' : Tracked(r)'} = {}
    BY <1>1
  <2>2. \A r \in Requests : asked'[r] # Absent => response'[r].status # 0 /\ body'[r].end # "open"
    BY <1>1, BreakSettles DEF NobodyForgotten
  <2> QED  BY <1>1, <2>1, <2>2, FS_EmptySet DEF NobodyForgotten
<1> QED  BY <1>2, <1>3, <1>4

(* A request ends by a break: an error came, or nothing for a minute.      *)
LEMMA BreakEnds ==
  ASSUME RequestsInv, NEW r \in unfinished, ClearPending(r), Break({r}),
         asked' = asked, streams' = streams, network' = [x \in Requests |-> network'[x]],
         \A x \in Requests : IsQueue(network'[x]),
         \A x \in Requests \ {r} : network'[x] = network[x]
  PROVE  RequestsInv'
<1> USE DEF RequestsInv
<1>1. /\ activeDownloadCount' = Cardinality(Downloads')
      /\ unfinished' = unfinished \ {r} /\ IsFiniteSet(unfinished')
  BY ClearPendingCounts
<1>2. PagesOK'
  BY <1>1, BreakSettles DEF PagesOK
<1>3. StreamsOK'
  BY DEF StreamsOK, PagesOK
<1>4. ResponseFirst'
  <2>1. \A x \in Requests \ {r} : response'[x] = response[x] /\ network'[x] = network[x]
    BY BreakSettles
  <2> QED  BY <1>1, <2>1 DEF ResponseFirst, PagesOK
<1>5. NobodyForgotten'
  BY <1>1, BreakSettles DEF NobodyForgotten, Downloads, PagesOK
<1> QED  BY <1>2, <1>3, <1>4, <1>5

LEMMA PortTimeoutKeeps ==
  ASSUME RequestsInv, NEW r \in Requests, PortTimeout(r)
  PROVE  RequestsInv'
BY BreakEnds DEF PortTimeout, streamVars, RequestsInv, StreamsOK

(* A fetch event.                                                          *)
LEMMA FetchKeeps ==
  ASSUME RequestsInv, port \in 0..MaxSetups, NEW r \in Requests, NEW q \in RequestsOf[r], Fetch(r, q)
  PROVE  RequestsInv'
<1> USE DEF RequestsInv
<1>1. /\ asked[r] = Absent /\ r \notin unfinished /\ body' = body /\ network' = network
      /\ asked' = [asked EXCEPT ![r] = [request |-> q, port |-> port]]
      /\ asked'[r] # Absent /\ asked'[r].request = q /\ body[r].end = "none"
      /\ \A x \in Requests \ {r} : asked'[x] = asked[x]
  BY MediaAssumption DEF Fetch, PagesOK, PerRequest
<1>2. \A x \in unfinished : Tracked(x)' <=> Tracked(x)
  BY <1>1 DEF Tracked, PagesOK
<1>3. IsFiniteSet(Downloads) /\ Cardinality(Downloads) \in Nat /\ activeDownloadCount = Cardinality(Downloads)
  BY FS_Subset, FS_CardinalityType DEF PagesOK, Downloads, NobodyForgotten
<1>4. CASE port = 0
  <2>1. response' = [response EXCEPT ![r] = [status |-> 503, length |-> 0]]
        /\ UNCHANGED <<unfinished, activeDownloadCount, streams>>
    BY <1>4 DEF Fetch, Respond
  <2>2. PagesOK'
    <3>1. PerRequest(asked') /\ PerRequest(response') /\ PerRequest(body')
      BY ZenonT(40), <1>1, <2>1 DEF PagesOK, PerRequest
    <3>2. ASSUME NEW x \in Requests
          PROVE  /\ IsResponse(response'[x]) /\ IsBody(body'[x])
                 /\ asked'[x] = Absent => x \notin unfinished' /\ body'[x].end = "none"
                 /\ asked'[x] # Absent /\ asked'[x].request.head => body'[x].end # "open"
      <4>1. CASE x = r
        BY <1>1, <2>1, <4>1 DEF PagesOK, PerRequest, IsResponse
      <4>2. CASE x # r
        BY <1>1, <2>1, <4>2 DEF PagesOK, PerRequest
      <4> QED  BY <4>1, <4>2
    <3> QED  BY <2>1, <3>1, <3>2 DEF PagesOK
  <2>3. StreamsOK' /\ ResponseFirst'
    <3>1. \A x \in Requests : asked'[x] = Absent => asked[x] = Absent
      BY <1>1
    <3>2. StreamsOK'
      BY <1>1, <2>1, <3>1 DEF StreamsOK
    <3>3. \A x \in unfinished : x \in Requests /\ x # r /\ response'[x] = response[x]
      BY <1>1, <2>1 DEF PagesOK, PerRequest
    <3>4. ResponseFirst'
      BY <1>1, <2>1, <3>3 DEF ResponseFirst
    <3> QED  BY <3>2, <3>4
  <2>4. Downloads' = Downloads
    BY <1>2, <2>1 DEF Downloads
  <2>5. activeDownloadCount' = Cardinality(Downloads')
    BY <1>3, <2>1, <2>4
  <2>6. ASSUME NEW x \in Requests, asked'[x] # Absent, x \notin unfinished'
        PROVE  response'[x].status # 0 /\ body'[x].end # "open"
    BY <1>1, <2>1, <2>6 DEF NobodyForgotten, PagesOK, PerRequest
  <2>7. NobodyForgotten'
    BY <2>5, <2>6 DEF NobodyForgotten, Downloads
  <2> QED  BY <2>2, <2>3, <2>7
<1>5. CASE port # 0
  <2>1. /\ unfinished' = unfinished \cup {r} /\ response' = response
        /\ activeDownloadCount' = activeDownloadCount + (IF q.download /\ ~q.head THEN 1 ELSE 0)
        /\ streams' = [streams EXCEPT ![r] = [at |-> "posted", next |-> 0, remaining |-> 0, rest |-> <<>>]]
    BY <1>5 DEF Fetch, StreamOf
  <2>2. IsFiniteSet(unfinished')
    BY <2>1, FS_AddElement DEF PagesOK
  <2>3. PagesOK'
    BY <1>1, <2>1, <2>2 DEF PagesOK, PerRequest
  <2>4. StreamsOK'
    BY <1>1, <2>1 DEF StreamsOK
  <2>5. ResponseFirst'
    BY <1>1, <2>1 DEF ResponseFirst, StreamsOK, PagesOK
  <2>6. activeDownloadCount' = Cardinality(Downloads')
    <3>1. \A x \in unfinished' : Tracked(x)' <=> Tracked(x) \/ (x = r /\ q.download /\ ~q.head)
      BY <1>1, <1>2, <2>1 DEF Tracked
    <3>2. CASE q.download /\ ~q.head
      <4>1. Downloads' = Downloads \cup {r} /\ r \notin Downloads
        BY <1>1, <2>1, <3>1, <3>2 DEF Downloads
      <4>2. Cardinality(Downloads \cup {r}) = Cardinality(Downloads) + 1
        BY <1>3, <4>1, FS_AddElement
      <4> QED  BY <1>3, <2>1, <3>2, <4>1, <4>2
    <3>3. CASE ~(q.download /\ ~q.head)
      <4>1. Downloads' = Downloads
        BY <1>1, <2>1, <3>1, <3>3 DEF Downloads, Tracked
      <4> QED  BY <1>3, <2>1, <3>3, <4>1
    <3> QED  BY <3>2, <3>3
  <2>7. NobodyForgotten'
    BY <1>1, <2>1, <2>6 DEF NobodyForgotten, Downloads, PagesOK
  <2> QED  BY <2>3, <2>4, <2>5, <2>7
<1> QED  BY <1>4, <1>5

(* The worker posts messages, or none.                                     *)
LEMMA PostKeeps ==
  ASSUME RequestsInv, UNCHANGED <<swVars, pageVars>>,
         NEW r \in Requests, NEW t, IsQueue(t), network' = [network EXCEPT ![r] = @ \o t],
         NEW x, streams' = [streams EXCEPT ![r] = x],
         streams[r].at \in {"posted", "opening", "streaming"},
         x.at \in {"opening", "streaming", "ended", "rootless"},
         streams[r].at = "posted" => t # <<>> /\ Head(t).type \in {"headers", "error"}
  PROVE  RequestsInv'
<1> USE DEF RequestsInv
<1>1. UNCHANGED <<unfinished, activeDownloadCount, asked, response, body>>
  BY DEF swVars, pageVars
<1>2. IsQueue(network[r]) /\ asked[r] # Absent
  BY DEF StreamsOK
<1>3. /\ network' = [y \in Requests |-> network'[y]] /\ streams' = [y \in Requests |-> streams'[y]]
      /\ \A y \in Requests \ {r} : network'[y] = network[y] /\ streams'[y] = streams[y]
      /\ network'[r] = network[r] \o t /\ streams'[r] = x
  BY DEF StreamsOK
<1>4. /\ IsQueue(network'[r])
      /\ network[r] # <<>> => network'[r] # <<>> /\ Head(network'[r]) = Head(network[r])
      /\ network[r] = <<>> => network'[r] = t
  <2>1. /\ IsQueue(network[r] \o t)
        /\ network[r] # <<>> => network[r] \o t # <<>> /\ Head(network[r] \o t) = Head(network[r])
        /\ network[r] = <<>> => network[r] \o t = t
    BY <1>2, QueueGrows
  <2> QED  BY <1>3, <2>1
<1>5. PagesOK'
  BY <1>1 DEF PagesOK
<1>6. StreamsOK'
  BY <1>1, <1>2, <1>3, <1>4 DEF StreamsOK
<1>7. ResponseFirst'
  <2>1. ASSUME NEW y \in unfinished, response[y].status = 0, y # r
        PROVE  \/ network'[y] = <<>> /\ streams'[y].at = "posted"
               \/ network'[y] # <<>> /\ Head(network'[y]).type \in {"headers", "error"}
    BY <1>3, <2>1 DEF ResponseFirst, PagesOK
  <2>2. ASSUME r \in unfinished, response[r].status = 0
        PROVE  network'[r] # <<>> /\ Head(network'[r]).type \in {"headers", "error"}
    BY <1>4, <2>2 DEF ResponseFirst
  <2> QED  BY <1>1, <2>1, <2>2 DEF ResponseFirst
<1>8. NobodyForgotten'
  BY <1>1 DEF NobodyForgotten, Tracked
<1> QED  BY <1>5, <1>6, <1>7, <1>8

LEMMA FinishKeeps ==
  ASSUME RequestsInv, UNCHANGED <<swVars, pageVars>>,
         NEW r \in Requests, NEW t, IsQueue(t), NEW stage \in {"ended", "rootless"}, Finish(r, stage, t),
         streams[r].at \in {"posted", "opening", "streaming"},
         streams[r].at = "posted" => t # <<>> /\ Head(t).type \in {"headers", "error"}
  PROVE  RequestsInv'
<1> DEFINE x == StreamRecord(stage, 0, 0, <<>>)
<1>1. network' = [network EXCEPT ![r] = @ \o t] /\ streams' = [streams EXCEPT ![r] = x]
  BY DEF Finish, Post, StreamOf, StreamRecord
<1>2. x.at = stage
  BY DEF StreamRecord
<1> HIDE DEF x
<1> QED  BY <1>1, <1>2, PostKeeps

LEMMA HandleKeeps ==
  ASSUME RequestsInv, NEW r \in Requests, NEW fails \in BOOLEAN, Handle(r, fails)
  PROVE  RequestsInv'
<1> DEFINE q == asked[r].request
           size == SizeOfFile(q.file)
<1>1. streams[r].at = "posted" /\ UNCHANGED <<swVars, pageVars>>
  BY DEF Handle
<1>2. CASE Finish(r, "ended", <<Error>>)
  <2>1. Error.type = "error" /\ Head(<<Error>>) = Error /\ <<Error>> # <<>>
    BY DEF Error, Message
  <2>2. IsQueue(<<Error>>)
    BY <2>1, Queues
  <2> QED  BY <1>1, <1>2, <2>1, <2>2, FinishKeeps
<1>3. ASSUME NEW h, h.type = "headers", h.status # 0, Finish(r, "ended", <<h, Done>>)
      PROVE  RequestsInv'
  <2>1. Done.type = "done" /\ Head(<<h, Done>>) = h /\ <<h, Done>> # <<>>
    BY DEF Done, Message
  <2>2. IsQueue(<<h, Done>>)
    BY <1>3, <2>1, Queues
  <2> QED  BY <1>1, <1>3, <2>1, <2>2, FinishKeeps
<1>4. ASSUME NEW h, h.type = "headers", h.status # 0, Post(r, <<h>>), StreamOf(r, "opening", 0, 0, <<>>)
      PROVE  RequestsInv'
  <2> DEFINE x == StreamRecord("opening", 0, 0, <<>>)
  <2>1. network' = [network EXCEPT ![r] = @ \o <<h>>] /\ streams' = [streams EXCEPT ![r] = x] /\ x.at = "opening"
    BY <1>4 DEF Post, StreamOf, StreamRecord
  <2>2. Head(<<h>>) = h /\ <<h>> # <<>> /\ IsQueue(<<h>>)
    BY <1>4, Queues
  <2> HIDE DEF x
  <2> QED  BY <1>1, <1>4, <2>1, <2>2, PostKeeps
<1> DEFINE h1 == Headers(IF size = 0 THEN 200 ELSE 416, 0)
           h2 == Headers(Status(q), LastByte(q) - Start(q) + 1)
<1>5. h1.type = "headers" /\ h1.status # 0 /\ h2.type = "headers" /\ h2.status # 0
  BY DEF Headers, Status
<1>6. \/ Finish(r, "ended", <<Error>>) \/ Finish(r, "ended", <<h1, Done>>)
      \/ Finish(r, "ended", <<h2, Done>>)
      \/ Post(r, <<h2>>) /\ StreamOf(r, "opening", 0, 0, <<>>)
  BY DEF Handle
<1> HIDE DEF h1, h2
<1> QED  BY <1>2, <1>3, <1>4, <1>5, <1>6

LEMMA OpenKeeps ==
  ASSUME RequestsInv, NEW r \in Requests, NEW root, Open(r, root)
  PROVE  RequestsInv'
<1>1. streams[r].at = "opening" /\ UNCHANGED <<swVars, pageVars>>
  BY DEF Open
<1>2. Error.type = "error" /\ Done.type = "done" /\ IsQueue(<<Error>>) /\ IsQueue(<<Done>>)
  BY Queues DEF Error, Done, Message
<1>3. CASE Finish(r, "ended", <<Error>>) \/ Finish(r, "rootless", <<Done>>)
  BY <1>1, <1>2, <1>3, FinishKeeps
<1>4. ASSUME network' = network, NEW i, NEW k, StreamOf(r, "streaming", i, k, <<>>)
      PROVE  RequestsInv'
  <2> DEFINE x == StreamRecord("streaming", i, k, <<>>)
  <2>1. streams' = [streams EXCEPT ![r] = x] /\ x.at = "streaming"
    BY <1>4 DEF StreamOf, StreamRecord
  <2>2. network[r] \o <<>> = network[r]
    <3>1. PICK S : network[r] \in Seq(S)
      BY DEF RequestsInv, StreamsOK, IsQueue
    <3> QED  BY <3>1
  <2>3. network' = [network EXCEPT ![r] = @ \o <<>>]
    BY <1>4, <2>2 DEF RequestsInv, StreamsOK
  <2> HIDE DEF x
  <2> QED  BY <1>1, <2>1, <2>3, Queues, PostKeeps
<1> QED  BY <1>3, <1>4 DEF Open

LEMMA PostChunkKeeps ==
  ASSUME RequestsInv, BodiesInv, NEW r \in Requests, NEW fails \in BOOLEAN, PostChunk(r, fails)
  PROVE  RequestsInv'
<1>1. streams[r].at = "streaming" /\ UNCHANGED <<swVars, pageVars>>
  BY DEF PostChunk
<1>2. Error.type = "error" /\ Done.type = "done" /\ \A d : Message("chunk", d).type = "chunk"
  BY DEF Error, Done, Message
<1>3. ASSUME NEW t, IsQueue(t), Finish(r, "ended", t) PROVE RequestsInv'
  BY <1>1, <1>3, FinishKeeps
<1>4. \A d : IsQueue(<<Error>>) /\ IsQueue(<<Done>>) /\ IsQueue(<<Message("chunk", d), Done>>)
  BY <1>2, Queues
<1>5. ASSUME NEW t, NEW n \in Nat, t = [i \in 1..n |-> t[i]], \A i \in 1..n : t[i].type = "chunk", Post(r, t),
             NEW next, NEW left, NEW rest, StreamOf(r, "streaming", next, left, rest)
      PROVE  RequestsInv'
  <2> DEFINE x == StreamRecord("streaming", next, left, rest)
  <2>1. network' = [network EXCEPT ![r] = @ \o t] /\ streams' = [streams EXCEPT ![r] = x] /\ x.at = "streaming"
    BY <1>5 DEF Post, StreamOf, StreamRecord
  <2>2. IsQueue(t)
    BY <1>5, QueueOfChunks
  <2> HIDE DEF x
  <2> QED  BY <1>1, <2>1, <2>2, PostKeeps
<1> DEFINE q == asked[r].request
           s == streams[r]
           new == Consumed(ReadFileStream(q.file, s.next, Start(q)), s.remaining)
           all == s.rest \o new
           full == Len(all) \div ChunkSize
           pieces == [i \in 1..full |-> Message("chunk", SubSeq(all, (i - 1) * ChunkSize + 1, i * ChunkSize))]
<1>6. CASE \/ Finish(r, "ended", <<Error>>) \/ Finish(r, "ended", <<Done>>)
           \/ Finish(r, "ended", <<Message("chunk", s.rest), Done>>)
  BY <1>3, <1>4, <1>6
<1>7. CASE /\ ~(s.next > Len(q.file) \/ s.remaining <= 0) /\ Post(r, pieces)
           /\ StreamOf(r, "streaming", s.next + 1, s.remaining - Len(new),
                       SubSeq(all, full * ChunkSize + 1, Len(all)))
  <2>1. asked[r] # Absent /\ ReadOK(r)
    BY <1>1 DEF RequestsInv, StreamsOK, BodiesInv
  <2>2. IsFetch(q)
    BY <2>1, FetchIs
  <2>3. PICK b \in Int : Streaming(q, s, b)
    BY <1>1, <2>1 DEF ReadOK, Placed
  <2>4. full \in Nat
    BY <1>7, <2>2, <2>3, StreamGoesOn
  <2>5. pieces = [i \in 1..full |-> pieces[i]] /\ \A i \in 1..full : pieces[i].type = "chunk"
    BY <1>2
  <2> HIDE DEF pieces, full, all, new
  <2> QED  BY <1>5, <1>7, <2>4, <2>5
<1> QED  BY <1>6, <1>7 DEF PostChunk

(* A request that has its response goes on, or ends.                       *)
LEMMA AnsweredGoesOn ==
  ASSUME RequestsInv, NEW r \in unfinished, asked' = asked, StreamsOK',
         PerRequest(response'), PerRequest(body'),
         \A x \in Requests \ {r} :
           response'[x] = response[x] /\ body'[x] = body[x]
           /\ network'[x] = network[x] /\ streams'[x] = streams[x],
         IsResponse(response'[r]), response'[r].status # 0, IsBody(body'[r]),
         asked[r].request.head => body'[r].end # "open",
         \/ UNCHANGED <<unfinished, activeDownloadCount>>
         \/ ClearPending(r) /\ body'[r].end # "open"
  PROVE  RequestsInv'
<1> USE DEF RequestsInv
<1>1. /\ activeDownloadCount' = Cardinality(Downloads') /\ IsFiniteSet(unfinished')
      /\ unfinished \ {r} \subseteq unfinished' /\ unfinished' \subseteq unfinished
      /\ r \notin unfinished' => body'[r].end # "open"
  <2>1. CASE UNCHANGED <<unfinished, activeDownloadCount>>
    BY <2>1 DEF Downloads, NobodyForgotten, Tracked, PagesOK
  <2>2. CASE ClearPending(r) /\ body'[r].end # "open"
    BY <2>2, ClearPendingCounts
  <2> QED  BY <2>1, <2>2
<1>2. PagesOK'
  <2>1. ASSUME NEW x \in Requests
        PROVE  /\ IsResponse(response'[x]) /\ IsBody(body'[x])
               /\ asked'[x] = Absent => x \notin unfinished' /\ body'[x].end = "none"
               /\ asked'[x] # Absent /\ asked'[x].request.head => body'[x].end # "open"
    BY <1>1 DEF PagesOK
  <2> QED  BY <1>1, <2>1 DEF PagesOK
<1>3. ResponseFirst'
  <2>1. ASSUME NEW x \in unfinished', response'[x].status = 0
        PROVE  \/ network'[x] = <<>> /\ streams'[x].at = "posted"
               \/ network'[x] # <<>> /\ Head(network'[x]).type \in {"headers", "error"}
    BY <1>1, <2>1 DEF ResponseFirst, PagesOK
  <2> QED  BY <2>1 DEF ResponseFirst
<1>4. NobodyForgotten'
  <2>1. ASSUME NEW x \in Requests, asked'[x] # Absent, x \notin unfinished'
        PROVE  response'[x].status # 0 /\ body'[x].end # "open"
    BY <1>1, <2>1 DEF NobodyForgotten
  <2> QED  BY <1>1, <2>1 DEF NobodyForgotten, Downloads
<1> QED  BY <1>2, <1>3, <1>4

(* A message comes to the service worker.                                  *)
LEMMA MessageKeeps ==
  ASSUME RequestsInv, NEW r \in Requests, HandleWorkerMessage(r)
  PROVE  RequestsInv'
<1> USE DEF RequestsInv
<1>1. /\ network[r] # <<>> /\ network' = [network EXCEPT ![r] = Tail(@)]
      /\ UNCHANGED <<asked, streams>>
  BY DEF HandleWorkerMessage
<1>2. /\ network' = [x \in Requests |-> network'[x]]
      /\ \A x \in Requests \ {r} : network'[x] = network[x]
      /\ \A x \in Requests : IsQueue(network'[x])
      /\ asked[r] # Absent
  BY <1>1, QueueShrinks DEF StreamsOK
<1>3. StreamsOK'
  BY <1>1, <1>2 DEF StreamsOK
<1>4. PICK m : m = Head(network[r])
  OBVIOUS
<1>5. m.type = "headers" => m.status # 0
  BY <1>1, <1>4, QueueShrinks DEF StreamsOK
<1>6. r \in unfinished /\ m.type \notin {"headers", "error"} => response[r].status # 0
  BY <1>1, <1>4 DEF ResponseFirst
<1>7. CASE /\ r \notin unfinished \/ m.type = "chunk"
           /\ UNCHANGED <<unfinished, activeDownloadCount, response, body>>
  <2>1. ResponseFirst'
    BY <1>1, <1>2, <1>6, <1>7 DEF ResponseFirst, PagesOK
  <2>2. PagesOK'
    BY <1>1, <1>7 DEF PagesOK
  <2>3. NobodyForgotten'
    BY <1>1, <1>7 DEF NobodyForgotten, Tracked
  <2> QED  BY <1>3, <2>1, <2>2, <2>3
<1>8. CASE r \in unfinished /\ m.type = "headers" /\ Respond(r, m.status, m.length)
           /\ asked[r].request.head /\ ClearPending(r) /\ UNCHANGED body
  <2>1. response' = [response EXCEPT ![r] = [status |-> m.status, length |-> m.length]]
    BY <1>8 DEF Respond
  <2>2. body[r].end # "open"
    BY <1>2, <1>8 DEF PagesOK
  <2> QED  BY <1>1, <1>2, <1>3, <1>5, <1>8, <2>1, <2>2, AnsweredGoesOn DEF PagesOK, PerRequest, IsResponse, IsBody
<1>9. CASE r \in unfinished /\ m.type = "headers" /\ Respond(r, m.status, m.length)
           /\ ~asked[r].request.head /\ body' = [body EXCEPT ![r].end = "open"]
           /\ UNCHANGED <<unfinished, activeDownloadCount>>
  <2>1. response' = [response EXCEPT ![r] = [status |-> m.status, length |-> m.length]]
    BY <1>9 DEF Respond
  <2>2. body' = [x \in Requests |-> body'[x]] /\ body'[r] = [data |-> body[r].data, end |-> "open"]
        /\ \A x \in Requests \ {r} : body'[x] = body[x]
    BY <1>9 DEF PagesOK, PerRequest, IsBody
  <2>3. /\ PerRequest(response') /\ IsResponse(response'[r]) /\ response'[r].status = m.status
        /\ \A x \in Requests \ {r} : response'[x] = response[x]
    BY <2>1 DEF PagesOK, PerRequest, IsResponse
  <2>4. PerRequest(body') /\ IsBody(body'[r])
    BY <2>2 DEF PerRequest, IsBody
  <2> QED  BY <1>1, <1>2, <1>3, <1>5, <1>9, <2>2, <2>3, <2>4, AnsweredGoesOn
<1>10. CASE /\ r \in unfinished /\ m.type = "chunk" /\ body[r].end # "none"
            /\ body' = [body EXCEPT ![r].data = @ \o m.data]
            /\ UNCHANGED <<unfinished, activeDownloadCount, response>>
  <2>1. body' = [x \in Requests |-> body'[x]]
        /\ body'[r] = [data |-> body[r].data \o m.data, end |-> body[r].end]
        /\ \A x \in Requests \ {r} : body'[x] = body[x]
    <3>1. PICK d : d = body[r].data \o m.data
      OBVIOUS
    <3>2. body' = [body EXCEPT ![r] = [body[r] EXCEPT !.data = d]]
      BY <1>10, <3>1 DEF PagesOK, PerRequest
    <3>3. IsBody(body[r])
      BY DEF PagesOK
    <3>4. [body[r] EXCEPT !.data = d] = [data |-> d, end |-> body[r].end]
      BY <3>3 DEF IsBody
    <3> QED  BY <3>1, <3>2, <3>4 DEF PagesOK, PerRequest
  <2>2. PerRequest(response') /\ IsResponse(response'[r]) /\ response'[r].status # 0
    BY <1>6, <1>10 DEF PagesOK
  <2>3. PerRequest(body') /\ IsBody(body[r]) /\ (asked[r].request.head => body[r].end # "open")
    BY <1>2, <2>1 DEF PagesOK, PerRequest
  <2>4. IsBody(body'[r]) /\ (asked[r].request.head => body'[r].end # "open")
    BY <2>1, <2>3 DEF IsBody
  <2> QED  BY <1>1, <1>2, <1>3, <1>10, <2>1, <2>2, <2>3, <2>4, AnsweredGoesOn
<1>11. CASE /\ r \in unfinished /\ m.type = "done" /\ ClearPending(r)
            /\ body' = [body EXCEPT ![r].end = IF @ = "open" THEN "closed" ELSE @]
            /\ UNCHANGED response
  <2>1. body' = [x \in Requests |-> body'[x]]
        /\ body'[r] = [data |-> body[r].data, end |-> IF body[r].end = "open" THEN "closed" ELSE body[r].end]
        /\ \A x \in Requests \ {r} : body'[x] = body[x]
    BY <1>11 DEF PagesOK, PerRequest, IsBody
  <2>2. PerRequest(response') /\ IsResponse(response'[r]) /\ response'[r].status # 0
    BY <1>6, <1>11 DEF PagesOK
  <2>3. PerRequest(body') /\ IsBody(body[r])
    BY <2>1 DEF PagesOK, PerRequest
  <2>4. body'[r].end # "open" /\ IsBody(body'[r])
    BY <2>1, <2>3 DEF IsBody
  <2> QED  BY <1>1, <1>2, <1>3, <1>11, <2>1, <2>2, <2>3, <2>4, AnsweredGoesOn
<1>12. CASE r \in unfinished /\ m.type = "error" /\ ClearPending(r) /\ Break({r})
  BY <1>1, <1>2, <1>12, BreakEnds
<1> QED  BY <1>4, <1>7, <1>8, <1>9, <1>10, <1>11, <1>12 DEF HandleWorkerMessage

-----------------------------------------------------------------------------
(* The bodies a page reads.                                                *)
(* What a body has when it ends well is all of it.                         *)
LEMMA BodiesInvImplies == StreamsOK /\ PagesOK /\ BodiesInv => BodiesExact
<1> SUFFICES ASSUME StreamsOK, PagesOK, BodiesInv, NEW r \in Requests, body[r].end # "none"
             PROVE  LET q == asked[r].request
                        promised == IF Start(q) >= SizeOfFile(q.file) THEN <<>> ELSE Bytes(Start(q), LastByte(q))
                    IN /\ IsPrefix(body[r].data, promised)
                       /\ Len(promised) = response[r].length
                       /\ body[r].end = "closed" => body[r].data = promised \/ streams[r].at = "rootless"
  BY DEF BodiesExact
<1> DEFINE q == asked[r].request
           promised == IF Start(q) >= SizeOfFile(q.file) THEN <<>> ELSE Bytes(Start(q), LastByte(q))
<1>1. asked[r] # Absent /\ BodyOK(r) /\ IsFetch(q)
  BY FetchIs DEF PagesOK, BodiesInv, ReadOK
<1> DEFINE d == body[r].data
<1>2. PICK a \in Nat, n \in Nat, k \in Nat : a = Start(q) /\ n = Total(q) /\ k = Len(d)
  <2>1. Start(q) \in Nat /\ Total(q) \in Nat /\ Len(d) \in Nat
    BY <1>1, RangeIs DEF BodyOK
  <2> QED  BY <2>1
<1>3. k <= n /\ d = Span(a, a + k)
  BY <1>1, <1>2 DEF BodyOK
<1>4. promised = Span(a, a + n)
  <2>1. CASE Start(q) >= SizeOfFile(q.file)
    <3>1. n = 0 /\ a + 0 = a
      BY <1>2, <2>1 DEF Total
    <3> QED  BY <1>2, <2>1, <3>1, SpanEmpty
  <2>2. CASE ~(Start(q) >= SizeOfFile(q.file))
    <3>1. LastByte(q) \in Int /\ n = LastByte(q) - a + 1
      BY <1>1, <1>2, <2>2, RangeIs DEF Total
    <3>2. (a + n) - 1 = LastByte(q)
      BY <3>1
    <3> QED  BY <1>2, <2>2, <3>2 DEF Span
  <2> QED  BY <2>1, <2>2
<1> HIDE DEF promised
<1>5. Len(promised) = n
  <2>1. a + n \in Int /\ a <= a + n /\ (a + n) - a = n
    OBVIOUS
  <2>2. Len(Span(a, a + n)) = (a + n) - a
    <3>1. \A e \in Int : a <= e => Len(Span(a, e)) = e - a
      BY SpanType
    <3> QED  BY <2>1, <3>1, Zenon
  <2> QED  BY <1>4, <2>1, <2>2
<1>6. IsPrefix(d, promised)
  <2>1. a + k \in Int /\ a <= a + k /\ (a + k) - a = k /\ a + n \in Int /\ a <= a + n /\ k <= (a + n) - a
    BY <1>3
  <2>2. SubSeq(Span(a, a + k), 1, k) = Span(a, a + k)
    BY <2>1, SpanHead
  <2>3. SubSeq(Span(a, a + n), 1, k) = Span(a, a + k)
    BY <2>1, SpanHead
  <2> QED  BY <1>2, <1>3, <1>4, <1>5, <2>2, <2>3 DEF IsPrefix
<1>7. response[r].length = n /\ (body[r].end = "closed" => k = n \/ streams[r].at = "rootless")
  BY <1>1, <1>2 DEF BodyOK
<1> QED  BY <1>2, <1>3, <1>4, <1>5, <1>6, <1>7 DEF promised

LEMMA BodiesInit == MediaInit => BodiesInv
BY DEF MediaInit, BodiesInv, ReadOK

(* A request nothing happened to.                                          *)
LEMMA ReadKept ==
  ASSUME NEW r \in Requests, ReadOK(r), asked'[r] = asked[r], body'[r] = body[r], response'[r] = response[r],
         streams'[r] = streams[r], r \in unfinished' => r \in unfinished /\ network'[r] = network[r]
  PROVE  ReadOK(r)'
<1>1. BodyOK(r) => BodyOK(r)'
  BY DEF BodyOK
<1>2. r \in unfinished' /\ QueueOK(r) => QueueOK(r)'
  BY DEF QueueOK
<1> QED  BY <1>1, <1>2 DEF ReadOK

LEMMA BodiesKept ==
  ASSUME BodiesInv, UNCHANGED <<pageVars, streamVars>>, unfinished' \subseteq unfinished
  PROVE  BodiesInv'
<1> SUFFICES ASSUME NEW r \in Requests PROVE ReadOK(r)'
  BY DEF BodiesInv
<1>1. ReadOK(r)
  BY DEF BodiesInv
<1>2. /\ asked'[r] = asked[r] /\ body'[r] = body[r] /\ response'[r] = response[r]
      /\ streams'[r] = streams[r] /\ network'[r] = network[r]
  BY DEF pageVars, streamVars
<1> QED  BY <1>1, <1>2, ReadKept

(* Bodies that are cut keep what they have.                                *)
LEMMA BodiesBreak ==
  ASSUME PagesOK, BodiesInv, NEW R, R \subseteq unfinished, Break(R), unfinished' \subseteq unfinished \ R,
         asked' = asked, streams' = streams, \A r \in unfinished' : network'[r] = network[r]
  PROVE  BodiesInv'
<1> SUFFICES ASSUME NEW r \in Requests PROVE ReadOK(r)'
  BY DEF BodiesInv
<1>1. ReadOK(r)
  BY DEF BodiesInv
<1>2. CASE r \notin R
  <2>1. body'[r] = body[r] /\ response'[r] = response[r]
    BY <1>2, BreakSettles
  <2> QED  BY <1>1, <2>1, ReadKept
<1>3. CASE r \in R
  <2>1. asked[r] # Absent /\ r \notin unfinished'
    BY <1>3 DEF PagesOK
  <2>2. body'[r].data = body[r].data /\ body'[r].end = (IF body[r].end = "open" THEN "aborted" ELSE body[r].end)
    <3>1. body'[r] = IF body[r].end = "open" THEN [body[r] EXCEPT !.end = "aborted"] ELSE body[r]
      BY <1>3 DEF Break
    <3>2. IsBody(body[r])
      BY DEF PagesOK
    <3>3. [body[r] EXCEPT !.end = "aborted"] = [data |-> body[r].data, end |-> "aborted"]
      BY <3>2 DEF IsBody
    <3> QED  BY <3>1, <3>3
  <2>3. response[r].status # 0 => response'[r] = response[r]
    BY <1>3 DEF Break
  <2>4. BodyOK(r)
    BY <1>1, <2>1 DEF ReadOK
  <2>5. BodyOK(r)'
    BY <2>2, <2>3, <2>4 DEF BodyOK
  <2> QED  BY <1>1, <2>1, <2>5 DEF ReadOK
<1> QED  BY <1>2, <1>3

(* A fetch event.                                                          *)
LEMMA FetchBodies ==
  ASSUME PagesOK, StreamsOK, BodiesInv, NEW r \in Requests, NEW q \in RequestsOf[r], port \in 0..MaxSetups, Fetch(r, q)
  PROVE  BodiesInv'
<1>1. /\ asked[r] = Absent /\ r \notin unfinished /\ body' = body /\ network' = network
      /\ asked'[r] # Absent /\ asked'[r].request = q /\ body[r].end = "none"
      /\ \A x \in Requests \ {r} : asked'[x] = asked[x]
  BY MediaAssumption DEF Fetch, PagesOK, PerRequest
<1>2. /\ \A x \in Requests \ {r} : streams'[x] = streams[x] /\ response'[x] = response[x]
      /\ unfinished' \subseteq unfinished \cup {r}
      /\ streams'[r].at \in {"none", "posted"}
      /\ r \in unfinished' => response'[r].status = 0 /\ streams'[r].at = "posted"
  <2>1. response[r].status = 0 /\ streams[r].at = "none"
    BY <1>1 DEF BodiesInv, ReadOK, StreamsOK
  <2>2. CASE port = 0
    BY <1>1, <2>1, <2>2 DEF Fetch, Respond, PagesOK, PerRequest
  <2>3. CASE port # 0
    <3>1. streams' = [streams EXCEPT ![r] = StreamRecord("posted", 0, 0, <<>>)]
          /\ response' = response /\ unfinished' = unfinished \cup {r}
      BY <2>3 DEF Fetch, StreamOf, StreamRecord
    <3>2. StreamRecord("posted", 0, 0, <<>>).at = "posted"
      BY DEF StreamRecord
    <3> QED  BY <2>1, <3>1, <3>2 DEF StreamsOK
  <2> QED  BY <2>2, <2>3
<1>3. ASSUME NEW x \in Requests, x # r PROVE ReadOK(x)'
  <2>1. ReadOK(x)
    BY DEF BodiesInv
  <2> QED  BY <1>1, <1>2, <1>3, <2>1, ReadKept
<1>4. ReadOK(r)'
  <2>1. body[r].data = <<>> /\ network[r] = <<>> /\ Len(<<>>) = 0
    BY <1>1 DEF BodiesInv, ReadOK, StreamsOK
  <2>2. IsFetch(q)
    BY FilesAssumption DEF IsFetch
  <2>3. PICK a \in Nat : a = Start(q) /\ a <= Upto(q) /\ a + 0 = a /\ 0 \in 0..Total(q)
    BY <2>2, RangeIs DEF Upto
  <2>4. <<>> = Span(a, a)
    BY SpanEmpty
  <2>5. Placed(q, streams'[r], a)
    BY <1>2, <2>3 DEF Placed
  <2>6. BodyOK(r)'
    BY <1>1, <2>1, <2>3, <2>4 DEF BodyOK
  <2>7. ASSUME r \in unfinished' PROVE QueueOK(r)'
    <3>1. Carries(<<>>, a, a) /\ Said(q, streams'[r], <<>>, a)
      BY <2>1, CarriesNone DEF Said
    <3>2. Sent(q, streams'[r], <<>>, a, a)
      BY <2>3, <2>5, <3>1 DEF Sent
    <3> QED  BY <1>1, <1>2, <2>1, <2>3, <2>7, <3>2 DEF QueueOK
  <2> QED  BY <1>1, <2>3, <2>5, <2>6, <2>7 DEF ReadOK
<1> QED  BY <1>3, <1>4 DEF BodiesInv

(* The worker posts what carries on from what it posted, or nothing.       *)
LEMMA PostBodies ==
  ASSUME StreamsOK, PagesOK, BodiesInv, UNCHANGED <<swVars, pageVars>>,
         NEW r \in Requests, NEW t, IsQueue(t), network' = [network EXCEPT ![r] = @ \o t],
         NEW x, streams' = [streams EXCEPT ![r] = x],
         streams[r].at \in {"posted", "opening", "streaming"},
         \A b \in Int : b <= Upto(asked[r].request) /\ Placed(asked[r].request, streams[r], b) =>
           \E c \in Int : c <= Upto(asked[r].request) /\ Carries(t, b, c)
                         /\ Placed(asked[r].request, x, c) /\ Said(asked[r].request, x, t, c)
  PROVE  BodiesInv'
<1>1. UNCHANGED <<unfinished, asked, response, body>>
  BY DEF swVars, pageVars
<1>2. /\ \A y \in Requests \ {r} : network'[y] = network[y] /\ streams'[y] = streams[y]
      /\ network'[r] = network[r] \o t /\ streams'[r] = x /\ asked[r] # Absent
  BY DEF StreamsOK
<1>3. ASSUME NEW y \in Requests, y # r PROVE ReadOK(y)'
  <2>1. ReadOK(y)
    BY DEF BodiesInv
  <2> QED  BY <1>1, <1>2, <1>3, <2>1, ReadKept
<1>4. ReadOK(r)'
  <2> DEFINE q == asked[r].request
             s == streams[r]
             a == Start(q) + Len(body[r].data)
  <2>1. ReadOK(r)
    BY DEF BodiesInv
  <2>2. PICK b \in Int : b <= Upto(q) /\ Placed(q, s, b)
    BY <1>2, <2>1 DEF ReadOK
  <2>3. \E c \in Int : c <= Upto(q) /\ Placed(q, x, c)
    BY <2>2
  <2>4. BodyOK(r)'
    BY <1>1, <1>2, <2>1 DEF ReadOK, BodyOK
  <2>5. ASSUME r \in unfinished PROVE QueueOK(r)'
    <3>1. PICK d \in Int : Sent(q, s, network[r], a, d)
      BY <2>1, <2>5 DEF ReadOK, QueueOK
    <3>2. PICK c \in Int : c <= Upto(q) /\ Carries(t, d, c) /\ Placed(q, x, c) /\ Said(q, x, t, c)
      BY <3>1 DEF Sent
    <3>3. PICK S : network[r] \in Seq(S) /\ t \in Seq(S)
      <4>1. PICK T : network[r] \in Seq(T)
        BY DEF StreamsOK, IsQueue
      <4>2. PICK U : t \in Seq(U)
        BY DEF IsQueue
      <4>3. network[r] \in Seq(T \cup U) /\ t \in Seq(T \cup U)
        BY <4>1, <4>2
      <4> QED  BY <4>3
    <3>4. Carries(network[r] \o t, a, c)
      BY <3>1, <3>2, <3>3, CarriesJoin DEF Sent
    <3>5. Said(q, x, network[r] \o t, c)
      <4>1. PICK k \in Nat, n \in Nat : k = Len(network[r]) /\ n = Len(t) /\ Len(network[r] \o t) = k + n
        BY <3>3
      <4>2. ASSUME NEW i \in 1..(k + n)
            PROVE  LET m == (network[r] \o t)[i] IN
                   /\ m.type = "headers" => m.length = Total(q)
                   /\ m.type = "done" => /\ i = k + n /\ x.at \in {"ended", "rootless"}
                                         /\ q.head \/ x.at = "rootless" \/ c = Upto(q)
        <5>1. CASE i <= k
          <6>1. i \in 1..k /\ (network[r] \o t)[i] = network[r][i]
            BY <3>3, <4>1, <5>1
          <6>2. Said(q, s, network[r], d)
            BY <3>1 DEF Sent
          <6>3. /\ network[r][i].type = "headers" => network[r][i].length = Total(q)
                /\ network[r][i].type # "done"
            BY <4>1, <6>1, <6>2 DEF Said
          <6> QED  BY <6>1, <6>3
        <5>2. CASE i > k
          <6>1. PICK j \in 1..n : i = k + j /\ (network[r] \o t)[i] = t[j]
            <7>1. i - k \in 1..n /\ i = k + (i - k)
              BY <5>2
            <7>2. (network[r] \o t)[i] = t[i - k]
              BY <3>3, <4>1, <5>2
            <7> QED  BY <7>1, <7>2
          <6>2. /\ t[j].type = "headers" => t[j].length = Total(q)
                /\ t[j].type = "done" => /\ j = n /\ x.at \in {"ended", "rootless"}
                                         /\ q.head \/ x.at = "rootless" \/ c = Upto(q)
            BY <3>2, <4>1 DEF Said
          <6> QED  BY <6>1, <6>2
        <5>3. i <= k \/ i > k
          OBVIOUS
        <5> QED  BY <5>1, <5>2, <5>3, Zenon
      <4> QED  BY <4>1, <4>2 DEF Said
    <3>6. Sent(q, x, network[r] \o t, a, c)
      BY <3>2, <3>4, <3>5 DEF Sent
    <3>7. response[r].status # 0 => body[r].end # "none"
      BY <2>1, <2>5 DEF ReadOK, QueueOK
    <3>8. Sent(q, streams'[r], network'[r], a, c)
      BY <1>2, <3>6
    <3> QED  BY <1>1, <3>7, <3>8 DEF QueueOK
  <2> QED  BY <1>1, <1>2, <2>1, <2>3, <2>4, <2>5 DEF ReadOK
<1> QED  BY <1>3, <1>4 DEF BodiesInv

(* It posts its last messages.                                             *)
LEMMA FinishBodies ==
  ASSUME StreamsOK, PagesOK, BodiesInv, UNCHANGED <<swVars, pageVars>>,
         NEW r \in Requests, NEW t, IsQueue(t), NEW stage \in {"ended", "rootless"}, Finish(r, stage, t),
         streams[r].at \in {"posted", "opening", "streaming"},
         \A b \in Int : \A x : b <= Upto(asked[r].request) /\ Placed(asked[r].request, streams[r], b) /\ x.at = stage =>
           \E c \in Int : c <= Upto(asked[r].request) /\ Carries(t, b, c) /\ Said(asked[r].request, x, t, c)
  PROVE  BodiesInv'
<1> DEFINE x == StreamRecord(stage, 0, 0, <<>>)
<1>1. network' = [network EXCEPT ![r] = @ \o t] /\ streams' = [streams EXCEPT ![r] = x]
  BY DEF Finish, Post, StreamOf, StreamRecord
<1>2. x.at = stage
  BY DEF StreamRecord
<1> HIDE DEF x
<1>3. \A c : Placed(asked[r].request, x, c)
  BY <1>2 DEF Placed
<1> QED  BY <1>1, <1>2, <1>3, PostBodies

(* What one message says, and two.                                         *)
LEMMA SaidOne ==
  ASSUME NEW q, NEW s, NEW m, NEW b,
         m.type = "headers" => m.length = Total(q),
         m.type = "done" => s.at \in {"ended", "rootless"} /\ (q.head \/ s.at = "rootless" \/ b = Upto(q))
  PROVE  Said(q, s, <<m>>, b)
<1>1. Len(<<m>>) = 1 /\ <<m>>[1] = m /\ \A i \in 1..1 : i = 1
  OBVIOUS
<1> QED  BY <1>1 DEF Said

LEMMA SaidTwo ==
  ASSUME NEW q, NEW s, NEW m, NEW n, NEW b,
         m.type = "headers" => m.length = Total(q), m.type # "done",
         n.type = "done", s.at \in {"ended", "rootless"}, q.head \/ s.at = "rootless" \/ b = Upto(q)
  PROVE  Said(q, s, <<m, n>>, b)
<1>1. Len(<<m, n>>) = 2 /\ <<m, n>>[1] = m /\ <<m, n>>[2] = n /\ \A i \in 1..2 : i = 1 \/ i = 2
  OBVIOUS
<1> QED  BY <1>1 DEF Said

(* The steps of the worker, and a message that comes.                      *)
LEMMA HandleBodies ==
  ASSUME StreamsOK, PagesOK, BodiesInv, NEW r \in Requests, NEW fails \in BOOLEAN, Handle(r, fails)
  PROVE  BodiesInv'
<1> DEFINE q == asked[r].request
           size == SizeOfFile(q.file)
           h1 == Headers(IF size = 0 THEN 200 ELSE 416, 0)
           h2 == Headers(Status(q), LastByte(q) - Start(q) + 1)
<1>1. streams[r].at = "posted" /\ UNCHANGED <<swVars, pageVars>> /\ asked[r] # Absent
  BY DEF Handle, StreamsOK
<1>2. IsFetch(q)
  BY <1>1, FetchIs DEF BodiesInv
<1>3. \A b : Placed(q, streams[r], b) => b = Start(q)
  BY <1>1 DEF Placed
<1>4. /\ Error.type = "error" /\ Done.type = "done" /\ IsQueue(<<Error>>)
      /\ h1.type = "headers" /\ h1.status # 0 /\ h1.length = 0
      /\ h2.type = "headers" /\ h2.status # 0 /\ h2.length = LastByte(q) - Start(q) + 1
  BY Queues DEF Error, Done, Message, Headers, Status
<1>5. IsQueue(<<h1, Done>>) /\ IsQueue(<<h2, Done>>) /\ IsQueue(<<h2>>)
  BY <1>4, Queues
<1> HIDE DEF h1, h2
<1>6. CASE Finish(r, "ended", <<Error>>)
  <2>1. \A b \in Int : Carries(<<Error>>, b, b)
    BY <1>4, CarriesOne DEF Carried
  <2>2. \A b, x : Said(q, x, <<Error>>, b)
    BY <1>4, SaidOne
  <2> QED  BY <1>1, <1>4, <1>6, <2>1, <2>2, FinishBodies
<1>7. CASE Start(q) >= size /\ Finish(r, "ended", <<h1, Done>>)
  <2>1. Total(q) = 0 /\ Upto(q) = Start(q) /\ Start(q) \in Int
    BY <1>2, <1>7, RangeIs DEF Total, Upto
  <2>2. \A b \in Int : Carries(<<h1, Done>>, b, b)
    BY <1>4, CarriesTwo DEF Carried
  <2>3. \A x : x.at = "ended" => Said(q, x, <<h1, Done>>, Start(q))
    BY <1>4, <2>1, SaidTwo
  <2> QED  BY <1>1, <1>3, <1>5, <1>7, <2>2, <2>3, FinishBodies
<1>8. CASE Start(q) < size /\ q.head /\ Finish(r, "ended", <<h2, Done>>)
  <2>1. h2.length = Total(q)
    BY <1>2, <1>4, <1>8, RangeIs
  <2>2. \A b \in Int : Carries(<<h2, Done>>, b, b)
    BY <1>4, CarriesTwo DEF Carried
  <2>3. \A b, x : x.at = "ended" => Said(q, x, <<h2, Done>>, b)
    BY <1>4, <1>8, <2>1, SaidTwo
  <2> QED  BY <1>1, <1>5, <1>8, <2>2, <2>3, FinishBodies
<1>9. CASE Start(q) < size /\ Post(r, <<h2>>) /\ StreamOf(r, "opening", 0, 0, <<>>)
  <2> DEFINE x == StreamRecord("opening", 0, 0, <<>>)
  <2>1. network' = [network EXCEPT ![r] = @ \o <<h2>>] /\ streams' = [streams EXCEPT ![r] = x] /\ x.at = "opening"
    BY <1>9 DEF Post, StreamOf, StreamRecord
  <2> HIDE DEF x
  <2>2. h2.length = Total(q)
    BY <1>2, <1>4, <1>9, RangeIs
  <2>3. \A b \in Int : Carries(<<h2>>, b, b)
    BY <1>4, CarriesOne DEF Carried
  <2>5. \A b : Said(q, x, <<h2>>, b)
    BY <1>4, <2>2, SaidOne
  <2>4. Placed(q, x, Start(q))
    BY <1>9, <2>1 DEF Placed
  <2> QED  BY <1>1, <1>3, <1>5, <2>1, <2>3, <2>4, <2>5, PostBodies
<1>10. \/ Finish(r, "ended", <<Error>>)
       \/ Start(q) >= size /\ Finish(r, "ended", <<h1, Done>>)
       \/ Start(q) < size /\ q.head /\ Finish(r, "ended", <<h2, Done>>)
       \/ Start(q) < size /\ Post(r, <<h2>>) /\ StreamOf(r, "opening", 0, 0, <<>>)
  BY DEF Handle, h1, h2
<1> QED  BY <1>6, <1>7, <1>8, <1>9, <1>10

LEMMA OpenBodies ==
  ASSUME StreamsOK, PagesOK, BodiesInv, NEW r \in Requests, NEW root, Open(r, root)
  PROVE  BodiesInv'
<1> DEFINE q == asked[r].request
<1>1. streams[r].at = "opening" /\ UNCHANGED <<swVars, pageVars>> /\ asked[r] # Absent
  BY DEF Open, StreamsOK
<1>2. IsFetch(q)
  BY <1>1, FetchIs DEF BodiesInv
<1>3. Error.type = "error" /\ Done.type = "done" /\ IsQueue(<<Error>>) /\ IsQueue(<<Done>>) /\ IsQueue(<<>>)
  BY Queues DEF Error, Done, Message
<1>4. \A b \in Int : Carries(<<Error>>, b, b) /\ Carries(<<Done>>, b, b)
  BY <1>3, CarriesOne DEF Carried
<1>5. CASE Finish(r, "ended", <<Error>>)
  <2>1. \A b, x : Said(q, x, <<Error>>, b)
    BY <1>3, SaidOne
  <2> QED  BY <1>1, <1>3, <1>4, <1>5, <2>1, FinishBodies
<1>6. CASE Finish(r, "rootless", <<Done>>)
  <2>1. \A b, x : x.at = "rootless" => Said(q, x, <<Done>>, b)
    BY <1>3, SaidOne
  <2> QED  BY <1>1, <1>3, <1>4, <1>6, <2>1, FinishBodies
<1>7. ASSUME network' = network, NEW i \in 1..Len(q.file), FirstByte(q.file, i) <= Start(q), Start(q) < q.file[i],
             StreamOf(r, "streaming", i, LastByte(q) - Start(q) + 1, <<>>)
      PROVE  BodiesInv'
  <2> DEFINE x == StreamRecord("streaming", i, LastByte(q) - Start(q) + 1, <<>>)
  <2>1. streams' = [streams EXCEPT ![r] = x]
    BY <1>7 DEF StreamOf, StreamRecord
  <2>2. network' = [network EXCEPT ![r] = @ \o <<>>]
    <3>1. PICK S : network[r] \in Seq(S)
      BY DEF StreamsOK, IsQueue
    <3>2. network[r] \o <<>> = network[r]
      BY <3>1
    <3> QED  BY <1>7, <3>2 DEF StreamsOK
  <2>3. x.at = "streaming" /\ x.next = i /\ x.remaining = LastByte(q) - Start(q) + 1 /\ x.rest = <<>>
    BY DEF StreamRecord
  <2> HIDE DEF x
  <2>4. \A b \in Int : Placed(q, streams[r], b) => b = Start(q) /\ Start(q) < SizeOfFile(q.file)
    BY <1>1 DEF Placed
  <2>5. Start(q) < SizeOfFile(q.file) => Placed(q, x, Start(q))
    <3>1. Start(q) < SizeOfFile(q.file) => Streaming(q, x, Start(q))
      BY <1>2, <1>7, <2>3, StreamOpens
    <3> QED  BY <2>3, <3>1 DEF Placed
  <2>6. \A b \in Int : Carries(<<>>, b, b) /\ Said(q, x, <<>>, b)
    BY CarriesNone DEF Said
  <2> QED  BY <1>1, <1>3, <2>1, <2>2, <2>4, <2>5, <2>6, PostBodies
<1> QED  BY <1>5, <1>6, <1>7 DEF Open

LEMMA PostChunkBodies ==
  ASSUME StreamsOK, PagesOK, BodiesInv, NEW r \in Requests, NEW fails \in BOOLEAN, PostChunk(r, fails)
  PROVE  BodiesInv'
<1> DEFINE q == asked[r].request
           s == streams[r]
           over == s.next > Len(q.file) \/ s.remaining <= 0
           new == Consumed(ReadFileStream(q.file, s.next, Start(q)), s.remaining)
           all == s.rest \o new
           full == Len(all) \div ChunkSize
           t == [i \in 1..full |-> Message("chunk", SubSeq(all, (i - 1) * ChunkSize + 1, i * ChunkSize))]
           x == StreamRecord("streaming", s.next + 1, s.remaining - Len(new), SubSeq(all, full * ChunkSize + 1, Len(all)))
           h == Message("chunk", s.rest)
<1>1. s.at = "streaming" /\ UNCHANGED <<swVars, pageVars>> /\ asked[r] # Absent
  BY DEF PostChunk, StreamsOK
<1>2. IsFetch(q)
  BY <1>1, FetchIs DEF BodiesInv
<1>3. \A b : Placed(q, s, b) => Streaming(q, s, b)
  BY <1>1 DEF Placed
<1>4. /\ Error.type = "error" /\ Done.type = "done" /\ h.type = "chunk" /\ h.data = s.rest
  BY DEF Error, Done, Message
<1> HIDE DEF h
<1>5. IsQueue(<<Error>>) /\ IsQueue(<<Done>>) /\ IsQueue(<<h, Done>>)
  BY <1>4, Queues
<1>6. CASE Finish(r, "ended", <<Error>>)
  <2>1. \A b \in Int : Carries(<<Error>>, b, b)
    BY <1>4, CarriesOne DEF Carried
  <2>2. \A b, y : Said(q, y, <<Error>>, b)
    BY <1>4, SaidOne
  <2> QED  BY <1>1, <1>5, <1>6, <2>1, <2>2, FinishBodies
<1>7. CASE over /\ s.rest = <<>> /\ Finish(r, "ended", <<Done>>)
  <2>1. \A b \in Int : Carries(<<Done>>, b, b)
    BY <1>4, CarriesOne DEF Carried
  <2>2. \A b \in Int : Placed(q, s, b) => b = Upto(q)
    BY <1>2, <1>3, <1>7, StreamOver
  <2>3. \A y : y.at = "ended" => Said(q, y, <<Done>>, Upto(q))
    BY <1>4, SaidOne
  <2> HIDE DEF over
  <2> QED  BY <1>1, <1>5, <1>7, <2>1, <2>2, <2>3, FinishBodies
<1>8. CASE over /\ Finish(r, "ended", <<h, Done>>)
  <2>1. Upto(q) \in Int
    BY <1>2, RangeIs
  <2>2. \A b \in Int : Placed(q, s, b) => b <= Upto(q) /\ s.rest = Span(b, Upto(q))
    BY <1>2, <1>3, <1>8, StreamOver
  <2>3. \A b \in Int : Placed(q, s, b) => Carries(<<h, Done>>, b, Upto(q))
    BY <1>4, <2>1, <2>2, CarriesTwo DEF Carried
  <2>4. \A y : y.at = "ended" => Said(q, y, <<h, Done>>, Upto(q))
    BY <1>4, SaidTwo
  <2>5. Upto(q) <= Upto(q)
    BY <2>1
  <2> HIDE DEF over
  <2> QED  BY <1>1, <1>5, <1>8, <2>1, <2>3, <2>4, <2>5, FinishBodies
<1>9. CASE /\ ~over /\ Post(r, t)
           /\ StreamOf(r, "streaming", s.next + 1, s.remaining - Len(new),
                       SubSeq(all, full * ChunkSize + 1, Len(all)))
  <2>1. \A b \in Int : Placed(q, s, b) => full \in Nat /\ \E c \in Int : Carries(t, b, c) /\ c <= Upto(q) /\ Streaming(q, x, c)
    BY <1>2, <1>3, <1>9, StreamGoesOn
  <2>2. network' = [network EXCEPT ![r] = @ \o t] /\ streams' = [streams EXCEPT ![r] = x] /\ x.at = "streaming"
    BY <1>9 DEF Post, StreamOf, StreamRecord
  <2>3. full \in Nat
    <3>1. \E b \in Int : Placed(q, s, b)
      BY <1>1 DEF BodiesInv, ReadOK
    <3> QED  BY <2>1, <3>1
  <2>4. \A i \in 1..full : t[i].type = "chunk"
    BY DEF Message
  <2>5. t = [i \in 1..full |-> t[i]]
    OBVIOUS
  <2> HIDE DEF x, full, t
  <2>6. IsQueue(t)
    BY <2>3, <2>4, <2>5, QueueOfChunks
  <2>7. \A c : Streaming(q, x, c) => Placed(q, x, c)
    BY <2>2 DEF Placed
  <2>8. Len(t) = full
    BY <2>3, <2>5
  <2>9. \A c : Said(q, x, t, c)
    BY <2>4, <2>8 DEF Said
  <2> QED  BY <1>1, <2>1, <2>2, <2>6, <2>7, <2>9, PostBodies
<1>10. \/ Finish(r, "ended", <<Error>>)
       \/ over /\ s.rest = <<>> /\ Finish(r, "ended", <<Done>>)
       \/ over /\ Finish(r, "ended", <<h, Done>>)
       \/ /\ ~over /\ Post(r, t)
          /\ StreamOf(r, "streaming", s.next + 1, s.remaining - Len(new),
                       SubSeq(all, full * ChunkSize + 1, Len(all)))
  BY DEF PostChunk, h
<1> HIDE DEF over, t, x, full, all, new
<1> QED  BY <1>6, <1>7, <1>8, <1>9, <1>10

LEMMA MessageBodies ==
  ASSUME StreamsOK, PagesOK, ResponseFirst, BodiesInv, NEW r \in Requests, HandleWorkerMessage(r)
  PROVE  BodiesInv'
<1> DEFINE q == asked[r].request
           a == Start(q) + Len(body[r].data)
<1>1. /\ network[r] # <<>> /\ network' = [network EXCEPT ![r] = Tail(@)]
      /\ UNCHANGED <<asked, streams>> /\ asked[r] # Absent
      /\ \A x \in Requests \ {r} : network'[x] = network[x]
      /\ network'[r] = Tail(network[r])
  BY DEF HandleWorkerMessage, StreamsOK
<1>2. IsFetch(q) /\ BodyOK(r) /\ ReadOK(r)
  BY <1>1, FetchIs DEF BodiesInv, ReadOK
<1>3. PICK m : m = Head(network[r])
  OBVIOUS
<1>4. ASSUME \A x \in Requests \ {r} :
               body'[x] = body[x] /\ response'[x] = response[x] /\ (x \in unfinished' => x \in unfinished),
             ReadOK(r)'
      PROVE  BodiesInv'
  <2>1. \A x \in Requests : ReadOK(x)
    BY DEF BodiesInv
  <2>2. \A x \in Requests \ {r} : ReadOK(x)'
    BY <1>1, <1>4, <2>1, ReadKept
  <2> QED  BY <1>4, <2>2 DEF BodiesInv
<1>5. CASE r \notin unfinished /\ UNCHANGED <<unfinished, response, body>>
  <2>1. ReadOK(r)'
    BY <1>1, <1>2, <1>5, ReadKept
  <2> QED  BY <1>4, <1>5, <2>1
<1>6. CASE r \in unfinished
  <2>1. PICK b \in Int : Sent(q, streams[r], network[r], a, b)
    BY <1>2, <1>6 DEF ReadOK, QueueOK
  <2>2. response[r].status # 0 => body[r].end # "none"
    BY <1>2, <1>6 DEF ReadOK, QueueOK
  <2>3. PICK S : network[r] \in Seq(S)
    BY DEF StreamsOK, IsQueue
  <2>4. PICK c \in Int : a <= c /\ c <= b /\ Carried(m, a, c) /\ Carries(network'[r], c, b)
    BY <1>1, <1>3, <2>1, <2>3, CarriesTail DEF Sent
  <2>5. b <= Upto(q) /\ Placed(q, streams[r], b)
    BY <2>1 DEF Sent
  <2>6. PICK n \in Nat : n = Len(network'[r]) /\ Len(network[r]) = n + 1 /\ \A i \in 1..n : network'[r][i] = network[r][i + 1]
    <3>1. /\ Len(network[r]) \in Nat \ {0} /\ Len(network'[r]) = Len(network[r]) - 1
          /\ \A i \in 1..Len(network'[r]) : network'[r][i] = network[r][i + 1]
      <4>1. PICK s \in Seq(S) : s = network[r] /\ s # <<>>
        BY <1>1, <2>3
      <4>2. /\ Len(s) \in Nat \ {0} /\ Len(Tail(s)) = Len(s) - 1
            /\ \A i \in 1..Len(Tail(s)) : Tail(s)[i] = s[i + 1]
        BY <4>1, EmptySeq, HeadTailProperties
      <4> QED  BY <1>1, <4>1, <4>2
    <3>2. Len(network'[r]) \in Nat /\ Len(network[r]) = Len(network'[r]) + 1
      BY <3>1
    <3> QED  BY <3>1, <3>2
  <2>7. m = network[r][1]
    BY <1>1, <1>3, <2>3
  <2>8. Said(q, streams[r], network'[r], b)
    <3>1. ASSUME NEW i \in 1..n
          PROVE  LET l == network'[r][i] IN
                 /\ l.type = "headers" => l.length = Total(q)
                 /\ l.type = "done" => /\ i = n /\ streams[r].at \in {"ended", "rootless"}
                                       /\ q.head \/ streams[r].at = "rootless" \/ b = Upto(q)
      <4>1. i + 1 \in 1..(n + 1) /\ (i + 1 = n + 1 => i = n)
        OBVIOUS
      <4> QED  BY <2>1, <2>6, <4>1 DEF Sent, Said
    <3> QED  BY <2>6, <3>1 DEF Said
  <2>9. /\ m.type = "headers" => m.length = Total(q)
        /\ m.type = "done" => n = 0 /\ (q.head \/ streams[r].at = "rootless" \/ b = Upto(q))
    <3>1. 1 \in 1..(n + 1) /\ (1 = n + 1 => n = 0)
      OBVIOUS
    <3> QED  BY <2>1, <2>6, <2>7, <3>1 DEF Sent, Said
  <2>10. m.type = "headers" => m.status # 0
    BY <1>1, <1>3, QueueShrinks DEF StreamsOK
  <2>11. m.type \notin {"headers", "error"} => body[r].end # "none"
    BY <1>1, <1>3, <1>6, <2>2 DEF ResponseFirst
  <2>12. Sent(q, streams[r], network'[r], c, b)
    BY <2>4, <2>5, <2>8 DEF Sent
  <2>13. PICK k \in 0..Total(q), from \in Nat, total \in Nat : k = Len(body[r].data) /\ from = Start(q) /\ total = Total(q)
          /\ body[r].data = Span(from, from + k) /\ a = from + k /\ Upto(q) = from + total
    BY <1>2, RangeIs DEF BodyOK, Upto
  <2>14. CASE m.type = "headers" /\ Respond(r, m.status, m.length)
              /\ \/ q.head /\ ClearPending(r) /\ UNCHANGED body
                 \/ ~q.head /\ body' = [body EXCEPT ![r].end = "open"] /\ UNCHANGED <<unfinished, activeDownloadCount>>
    <3>1. /\ response'[r].status = m.status /\ response'[r].length = m.length
          /\ \A x \in Requests \ {r} : response'[x] = response[x] /\ body'[x] = body[x]
          /\ unfinished' \subseteq unfinished
          /\ body'[r].data = body[r].data
          /\ r \in unfinished' => body'[r].end # "none"
          /\ body'[r].end = "closed" => body[r].end = "closed"
      <4>1. response' = [response EXCEPT ![r] = [status |-> m.status, length |-> m.length]]
        BY <2>14 DEF Respond
      <4>2. response'[r].status = m.status /\ response'[r].length = m.length
            /\ \A x \in Requests \ {r} : response'[x] = response[x]
        BY <4>1 DEF PagesOK, PerRequest
      <4>3. CASE q.head /\ ClearPending(r) /\ UNCHANGED body
        BY <4>2, <4>3 DEF ClearPending
      <4>4. CASE ~q.head /\ body' = [body EXCEPT ![r].end = "open"] /\ UNCHANGED <<unfinished, activeDownloadCount>>
        <5>1. body'[r] = [data |-> body[r].data, end |-> "open"] /\ \A x \in Requests \ {r} : body'[x] = body[x]
          BY <4>4 DEF PagesOK, PerRequest, IsBody
        <5> QED  BY <4>2, <4>4, <5>1
      <4> QED  BY <2>14, <4>3, <4>4
    <3>2. c = a
      BY <2>4, <2>14 DEF Carried
    <3>3. BodyOK(r)'
      BY <1>1, <1>2, <2>9, <2>10, <2>14, <3>1 DEF BodyOK
    <3>4. r \in unfinished' => QueueOK(r)'
      BY <1>1, <2>12, <3>1, <3>2 DEF QueueOK
    <3>5. ReadOK(r)'
      BY <1>1, <1>2, <3>3, <3>4 DEF ReadOK
    <3> QED  BY <1>4, <3>1, <3>5
  <2>15. CASE /\ m.type = "chunk" /\ body' = [body EXCEPT ![r].data = @ \o m.data]
              /\ UNCHANGED <<unfinished, response>>
    <3>1. PICK d : d = body[r].data \o m.data
      OBVIOUS
    <3>2. body'[r] = [data |-> d, end |-> body[r].end] /\ \A x \in Requests \ {r} : body'[x] = body[x]
      <4>1. body' = [body EXCEPT ![r] = [body[r] EXCEPT !.data = d]]
        BY <2>15, <3>1 DEF PagesOK, PerRequest
      <4>2. IsBody(body[r])
        BY DEF PagesOK
      <4>3. [body[r] EXCEPT !.data = d] = [data |-> d, end |-> body[r].end]
        BY <4>2 DEF IsBody
      <4> QED  BY <4>1, <4>3 DEF PagesOK, PerRequest
    <3>3. PICK j \in 0..total : c = from + j /\ k <= j
      <4>1. c - from \in 0..total /\ c = from + (c - from) /\ k <= c - from
        BY <2>4, <2>5, <2>13
      <4> QED  BY <4>1
    <3>4. m.data = Span(from + k, from + j)
      BY <2>4, <2>13, <2>15, <3>3 DEF Carried
    <3>5. d = Span(from, from + j)
      <4>1. from + k \in Int /\ from + j \in Int /\ from <= from + k /\ from + k <= from + j
        BY <3>3
      <4>2. Span(from, from + k) \o Span(from + k, from + j) = Span(from, from + j)
        <5>1. PICK v \in Int, w \in Int : v = from + k /\ w = from + j
          BY <4>1
        <5>2. Span(from, v) \o Span(v, w) = Span(from, w)
          BY SMTT(30), <4>1, <5>1, SpanJoin
        <5> QED  BY <5>1, <5>2
      <4> QED  BY <2>13, <3>1, <3>4, <4>2, Zenon
    <3>6. Len(d) = j
      <4>1. from + j \in Int /\ from <= from + j /\ (from + j) - from = j
        BY <3>3
      <4>2. \A e \in Int : from <= e => Len(Span(from, e)) = e - from
        BY SpanType
      <4> QED  BY <3>5, <4>1, <4>2, Zenon
    <3>7. BodyOK(r)'
      <4>1. body[r].end = "closed" => k = total \/ streams[r].at = "rootless"
        BY <1>2, <2>13 DEF BodyOK
      <4>2. body[r].end = "closed" => j = total \/ streams[r].at = "rootless"
        BY <3>3, <4>1
      <4>3. j \in 0..Total(q) /\ d = Span(Start(q), Start(q) + j)
        BY <2>13, <3>3, <3>5, Zenon
      <4>4. body'[r].data = d /\ body'[r].end = body[r].end /\ response'[r] = response[r] /\ streams' = streams
        <5>1. body'[r].data = d /\ body'[r].end = body[r].end
          BY <3>2
        <5>2. response' = response /\ streams' = streams
          BY <1>1, <2>15
        <5> QED  BY <5>1, <5>2
      <4>5. body[r].end # "none" => response[r].status # 0 /\ response[r].length = Total(q)
        BY <1>2 DEF BodyOK
      <4>6. body[r].end = "closed" => j = Total(q) \/ streams[r].at = "rootless"
        BY <2>13, <4>2
      <4> QED  BY <1>1, <3>6, <4>3, <4>4, <4>5, <4>6 DEF BodyOK
    <3>8. QueueOK(r)'
      <4>1. body'[r].end # "none" /\ Start(q) + Len(body'[r].data) = c
        <5>1. body'[r].data = d /\ body'[r].end = body[r].end
          BY <3>2
        <5> QED  BY <2>11, <2>13, <2>15, <3>3, <3>6, <5>1, Zenon
      <4> QED  BY <1>1, <2>12, <4>1 DEF QueueOK
    <3>9. ReadOK(r)'
      BY <1>1, <1>2, <3>7, <3>8 DEF ReadOK
    <3> QED  BY <1>4, <2>15, <3>2, <3>9
  <2>16. CASE /\ m.type = "done" /\ ClearPending(r)
              /\ body' = [body EXCEPT ![r].end = IF @ = "open" THEN "closed" ELSE @]
              /\ UNCHANGED response
    <3>1. /\ body'[r] = [data |-> body[r].data, end |-> IF body[r].end = "open" THEN "closed" ELSE body[r].end]
          /\ \A x \in Requests \ {r} : body'[x] = body[x]
      BY <2>16 DEF PagesOK, PerRequest, IsBody
    <3>2. unfinished' = unfinished \ {r}
      BY <2>16 DEF ClearPending
    <3>3. body[r].end = "open" => k = total \/ streams[r].at = "rootless"
      <4>1. ASSUME body[r].end = "open", streams[r].at # "rootless" PROVE k = total
        <5>1. n = 0 /\ b = Upto(q)
          BY <1>1, <2>9, <2>16, <4>1 DEF PagesOK
        <5>2. c = b
          BY <2>4, <2>6, <5>1 DEF Carries
        <5>3. a = c
          BY <2>4, <2>16 DEF Carried
        <5> QED  BY <2>13, <5>1, <5>2, <5>3
      <4> QED  BY <4>1
    <3>4. BodyOK(r)'
      BY <1>1, <1>2, <2>11, <2>13, <2>16, <3>1, <3>3 DEF BodyOK
    <3>5. ReadOK(r)'
      BY <1>1, <1>2, <3>2, <3>4 DEF ReadOK
    <3> QED  BY <1>4, <2>16, <3>1, <3>2, <3>5
  <2>17. CASE m.type = "error" /\ ClearPending(r) /\ Break({r})
    <3>1. unfinished' = unfinished \ {r} /\ {r} \subseteq unfinished /\ unfinished \subseteq Requests
      BY <1>6, <2>17 DEF ClearPending, PagesOK
    <3> QED  BY <1>1, <2>17, <3>1, BodiesBreak
  <2> QED  BY <1>3, <1>6, <2>11, <2>14, <2>15, <2>16, <2>17 DEF HandleWorkerMessage
<1> QED  BY <1>5, <1>6 DEF HandleWorkerMessage

-----------------------------------------------------------------------------
(* The setups.                                                             *)
LEMMA SetupChanges ==
  ASSUME SetupsOK, NEW i \in Setups, NEW x, IsSetup(x), setup' = [setup EXCEPT ![i] = x]
  PROVE  /\ setup' = [j \in Setups |-> setup'[j]] /\ setup'[i] = x
         /\ \A j \in Setups : IsSetup(setup'[j])
         /\ \A j \in Setups \ {i} : setup'[j] = setup[j]
<1>1. setup = [j \in Setups |-> setup[j]] /\ \A j \in Setups : IsSetup(setup[j])
  BY DEF SetupsOK
<1>2. setup' = [j \in Setups |-> setup'[j]] /\ setup'[i] = x /\ \A j \in Setups \ {i} : setup'[j] = setup[j]
  BY <1>1
<1> QED  BY <1>1, <1>2

(* A setup goes on in the worker, or in the service worker.                *)
LEMMA WorkerGoesOn ==
  ASSUME SetupsOK, NEW i \in Setups, NEW w, setup' = [setup EXCEPT ![i].worker = w]
  PROVE  /\ setup' = [j \in Setups |-> setup'[j]]
         /\ \A j \in Setups : IsSetup(setup'[j]) /\ setup'[j].of = setup[j].of
         /\ \A j \in Setups \ {i} : setup'[j] = setup[j]
         /\ setup'[i].worker = w /\ setup'[i].ack = setup[i].ack
<1>1. IsSetup(setup[i]) /\ setup = [j \in Setups |-> setup[j]]
  BY DEF SetupsOK
<1> DEFINE x == [of |-> setup[i].of, worker |-> w, ack |-> setup[i].ack]
<1>2. [setup[i] EXCEPT !.worker = w] = x
  BY <1>1 DEF IsSetup
<1>3. setup' = [setup EXCEPT ![i] = [setup[i] EXCEPT !.worker = w]]
  BY <1>1
<1>4. IsSetup(x) /\ x.of = setup[i].of /\ x.worker = w /\ x.ack = setup[i].ack
  BY DEF IsSetup
<1>5. setup' = [setup EXCEPT ![i] = x]
  BY <1>2, <1>3
<1> HIDE DEF x
<1>6. /\ setup' = [j \in Setups |-> setup'[j]] /\ setup'[i] = x
      /\ \A j \in Setups : IsSetup(setup'[j])
      /\ \A j \in Setups \ {i} : setup'[j] = setup[j]
  BY <1>4, <1>5, SetupChanges
<1>7. \A j \in Setups : setup'[j].of = setup[j].of
  BY <1>4, <1>6
<1> QED  BY <1>4, <1>6, <1>7

LEMMA AckGoesOn ==
  ASSUME SetupsOK, NEW i \in Setups, NEW w, setup' = [setup EXCEPT ![i].ack = w]
  PROVE  /\ setup' = [j \in Setups |-> setup'[j]]
         /\ \A j \in Setups : IsSetup(setup'[j]) /\ setup'[j].of = setup[j].of
         /\ \A j \in Setups \ {i} : setup'[j] = setup[j]
         /\ setup'[i].ack = w /\ setup'[i].worker = setup[i].worker
<1>1. IsSetup(setup[i]) /\ setup = [j \in Setups |-> setup[j]]
  BY DEF SetupsOK
<1> DEFINE x == [of |-> setup[i].of, worker |-> setup[i].worker, ack |-> w]
<1>2. [setup[i] EXCEPT !.ack = w] = x
  BY <1>1 DEF IsSetup
<1>3. setup' = [setup EXCEPT ![i] = [setup[i] EXCEPT !.ack = w]]
  BY <1>1
<1>4. IsSetup(x) /\ x.of = setup[i].of /\ x.ack = w /\ x.worker = setup[i].worker
  BY DEF IsSetup
<1>5. setup' = [setup EXCEPT ![i] = x]
  BY <1>2, <1>3
<1> HIDE DEF x
<1>6. /\ setup' = [j \in Setups |-> setup'[j]] /\ setup'[i] = x
      /\ \A j \in Setups : IsSetup(setup'[j])
      /\ \A j \in Setups \ {i} : setup'[j] = setup[j]
  BY <1>4, <1>5, SetupChanges
<1>7. \A j \in Setups : setup'[j].of = setup[j].of
  BY <1>4, <1>6
<1> QED  BY <1>4, <1>6, <1>7

LEMMA RegisterWorkerPortKeeps ==
  ASSUME SetupInv, NEW i \in Setups, RegisterWorkerPort(i)
  PROVE  SetupInv'
<1> USE MediaAssumption DEF SetupInv
<1>1. /\ i \in 1..setups /\ registering' = registering \ {i}
      /\ UNCHANGED <<isSetup, activeController, setupPromise, setups, late, served, controller, restarts>>
  BY DEF RegisterWorkerPort, SetupsOK
<1>2. CASE setup[i].of # controller
  <2>1. UNCHANGED <<port, setup>>
    BY <1>2 DEF RegisterWorkerPort
  <2>2. SetupsOK'
    BY <1>1, <2>1 DEF SetupsOK
  <2>3. OwnPort' /\ OneSetup'
    BY <1>1, <2>1 DEF OwnPort, OneSetup
  <2> QED  BY <2>2, <2>3
<1>3. CASE setup[i].of = controller
  <2> DEFINE a == IF setup[i].ack = "waiting" THEN "sent" ELSE setup[i].ack
  <2>1. port' = i /\ setup' = [setup EXCEPT ![i].ack = a]
    BY <1>3 DEF RegisterWorkerPort, SetupsOK
  <2>2. a = "waiting" => FALSE
    OBVIOUS
  <2>3. setup[i].ack = "yes" => a = "yes"
    OBVIOUS
  <2> HIDE DEF a
  <2>4. /\ setup' = [j \in Setups |-> setup'[j]]
        /\ \A j \in Setups : IsSetup(setup'[j]) /\ setup'[j].of = setup[j].of
        /\ \A j \in Setups \ {i} : setup'[j] = setup[j]
        /\ setup'[i].ack = a /\ setup'[i].worker = setup[i].worker
    BY <2>1, AckGoesOn
  <2>5. \A j \in Setups : setup'[j].worker = setup[j].worker /\ (setup[j].ack = "yes" => setup'[j].ack = "yes")
    BY <2>3, <2>4
  <2>6. SetupsOK'
    <3>1. \A j \in Setups : j > setups => j # i /\ setup'[j] = setup[j]
      BY <1>1, <2>4 DEF SetupsOK, Setups
    <3> QED  BY <1>1, <2>1, <2>4, <2>5, <3>1 DEF SetupsOK
  <2>7. 1..setups \subseteq Setups
    BY DEF SetupsOK, Setups
  <2>8. OwnPort'
    <3>1. setupPromise # 0 => setupPromise \in Setups
      BY <2>7 DEF SetupsOK
    <3>2. setup'[port'].of = controller /\ port' # 0
      BY <1>1, <1>3, <2>1, <2>4
    <3>3. setupPromise # 0 => setup'[setupPromise].of = controller
      BY <2>4, <3>1 DEF OwnPort
    <3> QED  BY <1>1, <3>2, <3>3 DEF OwnPort
  <2>9. OneSetup'
    BY <1>1, <2>4, <2>5, <2>7 DEF OneSetup, SetupsOK
  <2> QED  BY <2>6, <2>8, <2>9
<1> QED  BY <1>2, <1>3

LEMMA RegisterMediaPortKeeps ==
  ASSUME SetupInv, NEW i \in Setups, NEW fails \in BOOLEAN, RegisterMediaPort(i, fails)
  PROVE  SetupInv'
<1> USE MediaAssumption DEF SetupInv
<1>1. /\ setup[i].worker = "asked" /\ served' = IF fails THEN served ELSE served \cup {i}
      /\ UNCHANGED <<isSetup, activeController, setupPromise, setups, late, registering, controller, port, restarts>>
  BY DEF RegisterMediaPort, swVars
<1> DEFINE w == IF fails THEN "failed" ELSE "registered"
<1>2. setup' = [setup EXCEPT ![i].worker = w]
  BY DEF RegisterMediaPort
<1>3. w # "ended" /\ (w = "registered" => i \in served')
  BY <1>1
<1> HIDE DEF w
<1>4. /\ setup' = [j \in Setups |-> setup'[j]]
      /\ \A j \in Setups : IsSetup(setup'[j]) /\ setup'[j].of = setup[j].of
      /\ \A j \in Setups \ {i} : setup'[j] = setup[j]
      /\ setup'[i].worker = w /\ setup'[i].ack = setup[i].ack
  BY <1>2, WorkerGoesOn
<1>5. i \in 1..setups /\ 1..setups \subseteq Setups
  BY <1>1 DEF SetupsOK, Setups
<1>6. SetupsOK'
  <2>1. \A j \in Setups : j > setups => j # i /\ setup'[j] = setup[j]
    BY <1>4, <1>5 DEF SetupsOK, Setups
  <2>2. served' \subseteq Setups /\ served \subseteq served'
    BY <1>1 DEF SetupsOK
  <2> QED  BY <1>1, <1>3, <1>4, <2>1, <2>2 DEF SetupsOK
<1>7. \A j \in Setups : setup'[j].ack = setup[j].ack
  BY <1>4
<1>8. OwnPort'
  BY <1>1, <1>4, <1>5, <1>7 DEF OwnPort, SetupsOK
<1>9. OneSetup'
  <2>1. SUFFICES ASSUME ~late PROVE OneSetup'
    BY <1>1 DEF OneSetup
  <2>2. setup[i].of = controller => i = setupPromise
    BY <1>1, <1>5, <2>1 DEF OneSetup
  <2>3. \A j \in 1..setups : setup'[j].of = controller /\ j # setupPromise => setup'[j].worker = "ended"
    BY <1>4, <1>5, <2>1, <2>2 DEF OneSetup
  <2>4. ASSUME isSetup, activeController = controller
        PROVE  /\ setupPromise # 0 /\ setup'[setupPromise].worker = "ended"
               /\ setup'[setupPromise].ack = "yes"
    <3>1. /\ setupPromise # 0 /\ setup[setupPromise].worker = "ended"
          /\ setup[setupPromise].ack = "yes"
      BY <2>1, <2>4 DEF OneSetup
    <3>2. setupPromise \in Setups /\ setupPromise # i
      BY <1>1, <1>5, <3>1 DEF SetupsOK
    <3> QED  BY <1>4, <3>1, <3>2
  <2> QED  BY <1>1, <2>3, <2>4 DEF OneSetup
<1> QED  BY <1>6, <1>8, <1>9

LEMMA AcknowledgeKeeps ==
  ASSUME SetupInv, NEW i \in Setups, NEW timeout \in BOOLEAN, Acknowledge(i, timeout)
  PROVE  SetupInv'
<1> USE MediaAssumption DEF SetupInv
<1>1. /\ setup[i].ack = "sent" \/ (timeout /\ setup[i].ack = "waiting")
      /\ UNCHANGED <<isSetup, activeController, setupPromise, setups, late, registering, served, controller, port, restarts>>
  BY DEF Acknowledge, swVars
<1> DEFINE a == IF timeout THEN "no" ELSE "yes"
<1>2. setup' = [setup EXCEPT ![i].ack = a]
  BY DEF Acknowledge
<1>3. a # "sent" /\ (a = "yes" => setup[i].ack = "sent")
  BY <1>1
<1> HIDE DEF a
<1>4. /\ setup' = [j \in Setups |-> setup'[j]]
      /\ \A j \in Setups : IsSetup(setup'[j]) /\ setup'[j].of = setup[j].of
      /\ \A j \in Setups \ {i} : setup'[j] = setup[j]
      /\ setup'[i].ack = a /\ setup'[i].worker = setup[i].worker
  BY <1>2, AckGoesOn
<1>5. i \in 1..setups /\ 1..setups \subseteq Setups
  BY <1>1 DEF SetupsOK, Setups
<1>6. \A j \in Setups : setup'[j].worker = setup[j].worker
  BY <1>4
<1>7. SetupsOK'
  <2>1. \A j \in Setups : j > setups => j # i /\ setup'[j] = setup[j]
    BY <1>4, <1>5 DEF SetupsOK, Setups
  <2> QED  BY <1>1, <1>4, <1>6, <2>1 DEF SetupsOK
<1>8. OwnPort'
  <2>1. port # 0 => setup'[port].of = controller
    BY <1>4 DEF OwnPort, SetupsOK, Setups
  <2>2. setupPromise # 0 => setup'[setupPromise].of = controller
    BY <1>4 DEF OwnPort, SetupsOK, Setups
  <2>3. ASSUME restarts = 0, NEW j \in 1..setups, setup'[j].of = controller, setup'[j].ack \in {"sent", "yes"}
        PROVE  port # 0
    <3>1. j \in Setups /\ setup[j].of = controller
      BY <1>4, <1>5, <2>3
    <3>2. setup[j].ack \in {"sent", "yes"}
      BY <1>3, <1>4, <2>3, <3>1
    <3> QED  BY <2>3, <3>1, <3>2 DEF OwnPort
  <2> QED  BY <1>1, <2>1, <2>2, <2>3 DEF OwnPort
<1>9. OneSetup'
  <2>1. SUFFICES ASSUME ~late PROVE OneSetup'
    BY <1>1 DEF OneSetup
  <2>2. \A j \in 1..setups : setup'[j].of = controller /\ j # setupPromise => setup'[j].worker = "ended"
    BY <1>4, <1>5, <1>6, <2>1 DEF OneSetup
  <2>3. ASSUME isSetup, activeController = controller
        PROVE  /\ setupPromise # 0 /\ setup'[setupPromise].worker = "ended"
               /\ setup'[setupPromise].ack = "yes"
    <3>1. /\ setupPromise # 0 /\ setup[setupPromise].worker = "ended"
          /\ setup[setupPromise].ack = "yes"
      BY <2>1, <2>3 DEF OneSetup
    <3>2. setupPromise \in Setups /\ setupPromise # i
      BY <1>1, <1>5, <3>1 DEF SetupsOK
    <3> QED  BY <1>4, <3>1, <3>2
  <2> QED  BY <1>1, <2>2, <2>3 DEF OneSetup
<1> QED  BY <1>7, <1>8, <1>9

LEMMA SetupEndsKeeps ==
  ASSUME SetupInv, NEW i \in Setups, SetupEnds(i)
  PROVE  SetupInv'
<1> USE MediaAssumption DEF SetupInv
<1>1. /\ setup[i].worker = "registered" /\ setup[i].ack \in {"yes", "no"}
      /\ setup' = [setup EXCEPT ![i].worker = "ended"]
      /\ late' = (late \/ (setup[i].of # controller /\ setup[i].ack = "no"))
      /\ UNCHANGED <<setups, registering, served, controller, port, restarts>>
  BY DEF SetupEnds, swVars
<1>2. /\ setup' = [j \in Setups |-> setup'[j]]
      /\ \A j \in Setups : IsSetup(setup'[j]) /\ setup'[j].of = setup[j].of
      /\ \A j \in Setups \ {i} : setup'[j] = setup[j]
      /\ setup'[i].worker = "ended" /\ setup'[i].ack = setup[i].ack
  BY <1>1, WorkerGoesOn
<1>3. i \in 1..setups /\ 1..setups \subseteq Setups
  BY <1>1 DEF SetupsOK, Setups
<1>4. \/ setup[i].ack = "yes" /\ isSetup' = TRUE /\ activeController' = setup[i].of /\ setupPromise' = setupPromise
      \/ setup[i].ack = "no" /\ setupPromise' = 0 /\ UNCHANGED <<isSetup, activeController>>
  BY <1>1 DEF SetupEnds
<1>5. \A j \in Setups : setup'[j].ack = setup[j].ack
  BY <1>2
<1>6. SetupsOK'
  <2>1. \A j \in Setups : j > setups => j # i /\ setup'[j] = setup[j]
    BY <1>2, <1>3 DEF SetupsOK, Setups
  <2>2. late' \in BOOLEAN
    BY <1>1 DEF SetupsOK
  <2>3. setupPromise' \in 0..setups
    BY <1>4 DEF SetupsOK
  <2>4. \A j \in Setups : setup'[j].worker \in {"registered", "ended"} => j \in served
    BY <1>1, <1>2 DEF SetupsOK
  <2> QED  BY <1>1, <1>2, <2>1, <2>2, <2>3, <2>4 DEF SetupsOK
<1>7. OwnPort'
  <2>1. port # 0 => setup'[port].of = controller
    BY <1>2, <1>3 DEF OwnPort, SetupsOK
  <2>2. setupPromise' # 0 => setup'[setupPromise'].of = controller
    BY <1>2, <1>3, <1>4 DEF OwnPort, SetupsOK
  <2>3. restarts = 0 =>
          \A j \in 1..setups : setup'[j].of = controller /\ setup'[j].ack \in {"sent", "yes"} => port # 0
    BY <1>2, <1>3, <1>5 DEF OwnPort
  <2> QED  BY <1>1, <2>1, <2>2, <2>3 DEF OwnPort
<1>8. OneSetup'
  <2>1. SUFFICES ASSUME ~late' PROVE OneSetup'
    BY DEF OneSetup
  <2>2. ~late /\ (setup[i].of = controller => i = setupPromise)
    BY <1>1, <1>3, <2>1 DEF OneSetup
  <2>3. setup[i].ack = "no" => setup[i].of = controller
    BY <1>1, <2>1
  <2>4. ASSUME NEW j \in 1..setups, setup'[j].of = controller, j # setupPromise'
        PROVE  setup'[j].worker = "ended"
    BY <1>2, <1>3, <1>4, <2>2, <2>3, <2>4 DEF OneSetup
  <2>5. ASSUME isSetup', activeController' = controller
        PROVE  /\ setupPromise' # 0
               /\ setup'[setupPromise'].worker = "ended" /\ setup'[setupPromise'].ack = "yes"
    <3>1. CASE setup[i].ack = "yes"
      BY <1>2, <1>3, <1>4, <2>2, <2>5, <3>1
    <3>2. CASE setup[i].ack = "no"
      BY <1>1, <1>4, <2>2, <2>3, <2>5, <3>2 DEF OneSetup
    <3> QED  BY <1>1, <3>1, <3>2
  <2> QED  BY <1>1, <2>4, <2>5 DEF OneSetup
<1> QED  BY <1>6, <1>7, <1>8

LEMMA SetupMediaStreamingKeeps ==
  ASSUME SetupInv, SetupMediaStreaming
  PROVE  SetupInv'
<1> USE MediaAssumption DEF SetupInv
<1> DEFINE i == setups + 1
           x == [of |-> controller, worker |-> "asked", ack |-> "waiting"]
<1>1. /\ ~(isSetup /\ activeController = controller) /\ setupPromise = 0 /\ setups < MaxSetups
      /\ setups' = i /\ setupPromise' = i /\ registering' = registering \cup {i}
      /\ setup' = [setup EXCEPT ![i] = x]
      /\ UNCHANGED <<isSetup, activeController, late, served, controller, port, restarts>>
  BY DEF SetupMediaStreaming, SetUp, swVars
<1>2. IsSetup(x) /\ x.of = controller /\ x.worker = "asked" /\ x.ack = "waiting"
  BY DEF IsSetup
<1>3. i \in Setups /\ 1..i \subseteq Setups /\ setups \in Nat /\ i \in Nat /\ i # 0
      /\ 1..i = (1..setups) \cup {i}
  BY <1>1 DEF SetupsOK, Setups
<1> HIDE DEF x
<1>4. /\ setup' = [j \in Setups |-> setup'[j]] /\ setup'[i] = x
      /\ \A j \in Setups : IsSetup(setup'[j])
      /\ \A j \in Setups \ {i} : setup'[j] = setup[j]
  BY <1>1, <1>2, <1>3, SetupChanges
<1>5. \A j \in 1..setups : j # i /\ setup'[j] = setup[j]
  BY <1>3, <1>4
<1>6. SetupsOK'
  <2>1. setups' \in 0..MaxSetups /\ port' \in 0..setups' /\ setupPromise' \in 0..setups' /\ registering' \subseteq 1..setups'
    BY <1>1, <1>3 DEF SetupsOK, Setups
  <2>2. ASSUME NEW j \in Setups
        PROVE  /\ IsSetup(setup'[j]) /\ setup'[j].of \in 0..controller
               /\ j > setups' => setup'[j].worker = "none" /\ setup'[j].ack = "none"
               /\ setup'[j].worker \in {"registered", "ended"} => j \in served
    <3>1. CASE j = i
      BY <1>1, <1>2, <1>3, <1>4, <3>1 DEF SetupsOK
    <3>2. CASE j # i
      <4>1. setup'[j] = setup[j] /\ (j > setups' => j > setups)
        BY <1>1, <1>3, <1>4, <3>2 DEF Setups
      <4> QED  BY <1>4, <4>1 DEF SetupsOK
    <3> QED  BY <3>1, <3>2
  <2> QED  BY <1>1, <1>4, <2>1, <2>2 DEF SetupsOK
<1>7. OwnPort'
  <2>1. port # 0 => port \in 1..setups
    BY DEF SetupsOK
  <2> QED  BY <1>1, <1>2, <1>3, <1>4, <1>5, <2>1 DEF OwnPort
<1>8. OneSetup'
  <2>1. 0 \notin 1..setups
    BY <1>3
  <2> QED  BY <1>1, <1>3, <1>4, <1>5, <2>1 DEF OneSetup
<1> QED  BY <1>6, <1>7, <1>8

-----------------------------------------------------------------------------
(* The update.                                                             *)
LEMMA UpdateKept ==
  ASSUME UpdateInv, unfinished' \subseteq unfinished, UNCHANGED <<asked, controller, waiting, updateVars>>
  PROVE  UpdateInv'
BY DEF UpdateInv, updateVars, Tracked

LEMMA RequestsKept ==
  ASSUME RequestsInv, UNCHANGED <<unfinished, activeDownloadCount, pageVars, streamVars>>
  PROVE  RequestsInv'
<1>1. PagesOK' /\ StreamsOK'
  BY DEF RequestsInv, PagesOK, StreamsOK, pageVars, streamVars
<1>2. ResponseFirst'
  BY DEF RequestsInv, ResponseFirst, pageVars, streamVars
<1>3. NobodyForgotten'
  BY DEF RequestsInv, NobodyForgotten, Tracked, pageVars
<1> QED  BY <1>1, <1>2, <1>3 DEF RequestsInv

LEMMA SetupKept ==
  ASSUME SetupInv, UNCHANGED <<setupVars, controller, port, restarts>>
  PROVE  SetupInv'
BY DEF SetupInv, SetupsOK, OwnPort, OneSetup, setupVars

(* A fetch event is new to an update that asked before.                    *)
LEMMA FetchKeepsUpdate ==
  ASSUME RequestsInv, UpdateInv, NEW r \in Requests, NEW q \in RequestsOf[r], Fetch(r, q)
  PROVE  UpdateInv'
<1>1. /\ asked[r] = Absent /\ unfinished' \subseteq unfinished \cup {r}
      /\ UNCHANGED <<controller, waiting, activity, known>>
  BY DEF Fetch, updateVars
<1>2. r \notin known /\ \A x \in known : asked'[x] = asked[x] /\ asked[x] # Absent
  BY <1>1 DEF Fetch, UpdateInv, RequestsInv, PagesOK, PerRequest
<1>3. \A x \in known : Tracked(x)' <=> Tracked(x)
  BY <1>2 DEF Tracked
<1>4. \A x \in unfinished' \cap known' : x \in unfinished /\ x \in known
  BY <1>1, <1>2
<1> QED  BY <1>1, <1>2, <1>3, <1>4 DEF UpdateInv

(* The service worker counts no download, and so has none.                 *)
LEMMA AnsweredKeeps ==
  ASSUME RequestsInv, UpdateInv, Answered
  PROVE  UpdateInv'
<1>1. UNCHANGED <<unfinished, asked, controller, waiting>> /\ activity = "asking"
      /\ activity' = (IF Busy THEN "none" ELSE "idle")
      /\ known' = {r \in Requests : asked[r] # Absent}
  BY DEF Answered, swVars, pageVars
<1>2. ASSUME ~Busy, NEW r \in unfinished PROVE ~Tracked(r)
  <2>1. IsFiniteSet(Downloads) /\ Cardinality(Downloads) \in Nat
    BY FS_Subset, FS_CardinalityType DEF RequestsInv, PagesOK, Downloads
  <2>2. Cardinality(Downloads) = 0
    BY <1>2, <2>1 DEF RequestsInv, NobodyForgotten, Downloads, Busy
  <2>3. Downloads = {}
    BY <2>1, <2>2, FS_EmptySet
  <2> QED  BY <2>3 DEF Downloads
<1>3. activity' = "idle" => \A r \in unfinished : ~Tracked(r)'
  BY <1>1, <1>2 DEF Tracked
<1> QED  BY <1>1, <1>3 DEF UpdateInv

(* A new version takes over: without a port, and with no setup of its own. *)
LEMMA ActivateKeeps ==
  ASSUME MediaInv, Activate
  PROVE  MediaInv'
<1> USE MediaAssumption DEF MediaInv
<1>1. /\ activity = "idle" /\ activity' = "none" /\ waiting' = FALSE /\ controller' = controller + 1
      /\ Stops /\ isSetup' = FALSE /\ setupPromise' = 0 /\ late' = FALSE /\ port' = 0 /\ unfinished' = {}
      /\ UNCHANGED <<restarts, asked, setup, setups, registering, served, streamVars, known>>
  BY DEF Activate, Stops
<1>2. RequestsInv'
  BY <1>1, StopsKeeps
<1>3. controller < MaxControllers /\ controller' \in 1..MaxControllers
  BY <1>1 DEF UpdateInv, SetupInv, SetupsOK
<1>4. \A i \in Setups : setup[i].of \in 0..controller' /\ setup[i].of # controller'
  BY <1>1 DEF SetupInv, SetupsOK
<1>5. SetupsOK'
  <2>1. setups \in 0..MaxSetups /\ 0 \in 0..setups
    BY DEF SetupInv, SetupsOK
  <2> QED  BY <1>1, <1>3, <1>4, <2>1 DEF SetupInv, SetupsOK
<1>6. OwnPort' /\ OneSetup'
  <2>1. 1..setups \subseteq Setups
    BY DEF SetupInv, SetupsOK, Setups
  <2> QED  BY <1>1, <1>4, <2>1 DEF OwnPort, OneSetup
<1>7. UpdateInv'
  BY <1>1 DEF UpdateInv
<1>8. BodiesInv'
  BY <1>1, BodiesBreak DEF Stops, RequestsInv, streamVars
<1> QED  BY <1>2, <1>5, <1>6, <1>7, <1>8 DEF SetupInv

LEMMA RestartKeeps ==
  ASSUME MediaInv, RestartServiceWorker
  PROVE  MediaInv'
<1> USE DEF MediaInv
<1>1. /\ restarts' = restarts + 1 /\ Stops /\ port' = 0 /\ unfinished' = {}
      /\ UNCHANGED <<controller, waiting, asked, setupVars, streamVars, updateVars>>
  BY DEF RestartServiceWorker, Stops
<1>2. RequestsInv'
  BY <1>1, StopsKeeps
<1>3. restarts' \in Nat /\ restarts' # 0
  BY <1>1 DEF SetupInv, SetupsOK
<1>4. SetupsOK'
  <2>1. setups \in Nat /\ 0 \in 0..setups
    BY MediaAssumption DEF SetupInv, SetupsOK
  <2> QED  BY <1>1, <1>3, <2>1 DEF SetupInv, SetupsOK, setupVars
<1>5. OwnPort' /\ OneSetup'
  BY <1>1, <1>3 DEF SetupInv, OwnPort, OneSetup, setupVars
<1>6. UpdateInv'
  BY <1>1, UpdateKept
<1>7. BodiesInv'
  BY <1>1, BodiesBreak DEF Stops, RequestsInv, streamVars
<1> QED  BY <1>2, <1>4, <1>5, <1>6, <1>7 DEF SetupInv

(* What the page gets of a request, and what the service worker does of it. *)
LEMMA RequestStepKeeps ==
  ASSUME MediaInv, NEW r \in Requests,
         \/ \E q \in RequestsOf[r] : Fetch(r, q)
         \/ HandleWorkerMessage(r) \/ PortTimeout(r)
         \/ \E fails \in BOOLEAN : Handle(r, fails) \/ PostChunk(r, fails)
         \/ \E root \in {"found", "missing", "fails"} : Open(r, root)
  PROVE  MediaInv'
<1> USE DEF MediaInv
<1>1. port \in 0..MaxSetups
  BY MediaAssumption DEF SetupInv, SetupsOK
<1>2. UNCHANGED <<setupVars, controller, waiting, port, restarts, updateVars>>
  BY DEF Fetch, HandleWorkerMessage, PortTimeout, Handle, Open, PostChunk, swVars
<1>3. SetupInv'
  BY <1>2, SetupKept
<1>4. RequestsInv'
  BY <1>1, FetchKeeps, MessageKeeps, PortTimeoutKeeps, HandleKeeps, OpenKeeps, PostChunkKeeps
<1>5. UpdateInv'
  <2>1. CASE \E q \in RequestsOf[r] : Fetch(r, q)
    BY <2>1, FetchKeepsUpdate
  <2>2. CASE ~ \E q \in RequestsOf[r] : Fetch(r, q)
    <3>1. unfinished' \subseteq unfinished /\ asked' = asked
      BY <2>2 DEF HandleWorkerMessage, ClearPending, PortTimeout, Handle, Open, PostChunk, swVars, pageVars
    <3> QED  BY <1>2, <3>1, UpdateKept
  <2> QED  BY <2>1, <2>2
<1>6. BodiesInv'
  <2>1. CASE PortTimeout(r)
    BY <2>1, BodiesBreak DEF PortTimeout, ClearPending, RequestsInv, streamVars
  <2>2. CASE ~PortTimeout(r)
    BY <1>1, <2>2, FetchBodies, MessageBodies, HandleBodies, OpenBodies, PostChunkBodies DEF RequestsInv
  <2> QED  BY <2>1, <2>2
<1> QED  BY <1>3, <1>4, <1>5, <1>6

LEMMA SetupStepKeeps ==
  ASSUME MediaInv,
         \/ \E i \in Setups :
              \/ RegisterWorkerPort(i) \/ SetupEnds(i)
              \/ \E fails \in BOOLEAN : RegisterMediaPort(i, fails) \/ Acknowledge(i, fails)
         \/ SetupMediaStreaming
  PROVE  MediaInv'
<1> USE DEF MediaInv
<1>1. UNCHANGED <<unfinished, activeDownloadCount, pageVars, streamVars, controller, waiting, updateVars>>
  BY DEF RegisterWorkerPort, SetupEnds, RegisterMediaPort, Acknowledge, SetupMediaStreaming, swVars
<1>2. RequestsInv'
  BY <1>1, RequestsKept
<1>3. UpdateInv'
  BY <1>1, UpdateKept DEF pageVars
<1>4. SetupInv'
  BY RegisterWorkerPortKeeps, SetupEndsKeeps, RegisterMediaPortKeeps, AcknowledgeKeeps, SetupMediaStreamingKeeps
<1>5. BodiesInv'
  BY <1>1, BodiesKept
<1> QED  BY <1>2, <1>3, <1>4, <1>5

LEMMA UpdateStepKeeps ==
  ASSUME MediaInv, NewVersion \/ AskActivity \/ Answered \/ Unanswered
  PROVE  MediaInv'
<1> USE DEF MediaInv
<1>1. UNCHANGED <<unfinished, activeDownloadCount, pageVars, streamVars, setupVars, controller, port, restarts>>
  BY DEF NewVersion, AskActivity, Answered, Unanswered, swVars
<1>2. RequestsInv' /\ SetupInv' /\ BodiesInv'
  BY <1>1, RequestsKept, SetupKept, BodiesKept
<1>3. UpdateInv'
  <2>1. CASE NewVersion
    BY <2>1 DEF NewVersion, UpdateInv, pageVars, updateVars, Tracked
  <2>2. CASE AskActivity
    BY <2>2 DEF AskActivity, UpdateInv, swVars, pageVars
  <2>3. CASE Answered
    BY <2>3, AnsweredKeeps
  <2>4. CASE Unanswered
    BY <2>4 DEF Unanswered, UpdateInv, swVars, pageVars
  <2> QED  BY <2>1, <2>2, <2>3, <2>4
<1> QED  BY <1>2, <1>3

LEMMA MediaNextHolds == MediaInv /\ [MediaNext]_mediaVars => MediaInv'
<1> SUFFICES ASSUME MediaInv, [MediaNext]_mediaVars PROVE MediaInv'
  OBVIOUS
<1>1. CASE UNCHANGED mediaVars
  <2>1. RequestsInv'
    BY <1>1, RequestsKept DEF MediaInv, mediaVars, swVars
  <2>2. SetupInv'
    BY <1>1, SetupKept DEF MediaInv, mediaVars, swVars
  <2>3. UpdateInv'
    BY <1>1, UpdateKept DEF MediaInv, mediaVars, swVars, pageVars
  <2>4. BodiesInv'
    BY <1>1, BodiesKept DEF MediaInv, mediaVars, swVars
  <2> QED  BY <2>1, <2>2, <2>3, <2>4 DEF MediaInv
<1>2. CASE MediaNext
  BY <1>2, RequestStepKeeps, SetupStepKeeps, UpdateStepKeeps, RestartKeeps, ActivateKeeps DEF MediaNext
<1> QED  BY <1>1, <1>2

(* The inductive invariant of reading through the service worker.          *)
THEOREM MediaInvHolds == MediaSpec => []MediaInv
BY MediaInitHolds, MediaNextHolds, PTL DEF MediaSpec

(* ReaderSound: whoever the service worker forgot was answered, it counts  *)
(* the downloads it has, and a port the page takes for set up is there.    *)
THEOREM ReaderIsSound == MediaSpec => []ReaderSound
BY MediaInvHolds, MediaInvImplies, PTL

(* BodiesExact: what a page reads is what the headers promised: a body that *)
(* ends well has every byte of the range, in order and once, in whatever   *)
(* chunks the file is and whatever is late.                                *)
THEOREM BodiesAreExact == MediaSpec => []BodiesExact
<1>1. MediaInv => BodiesExact
  BY BodiesInvImplies DEF MediaInv, RequestsInv
<1> QED  BY <1>1, MediaInvHolds, PTL

(* UpdatesSpareDownloads: an update told that there is no download cuts    *)
(* none of those that had begun by then.                                   *)
THEOREM UpdatesSpare == MediaSpec => UpdatesSpareDownloads
<1>1. MediaInv /\ [MediaNext]_mediaVars =>
        [controller' # controller => \A r \in unfinished \cap known : ~Tracked(r)]_mediaVars
  <2> SUFFICES ASSUME MediaInv, MediaNext, controller' # controller
               PROVE  \A r \in unfinished \cap known : ~Tracked(r)
    OBVIOUS
  <2>1. ASSUME NEW r \in Requests, NEW q \in RequestsOf[r]
        PROVE  ~Fetch(r, q)
    BY DEF Fetch
  <2>2. ASSUME NEW r \in Requests
        PROVE  ~HandleWorkerMessage(r) /\ ~PortTimeout(r)
    BY DEF HandleWorkerMessage, PortTimeout
  <2>3. ASSUME NEW r \in Requests, NEW fails \in BOOLEAN
        PROVE  ~Handle(r, fails)
    BY DEF Handle, swVars
  <2>4. ASSUME NEW r \in Requests, NEW fails \in BOOLEAN
        PROVE  ~PostChunk(r, fails)
    BY DEF PostChunk, swVars
  <2>5. ASSUME NEW r \in Requests, NEW root
        PROVE  ~Open(r, root)
    BY DEF Open, swVars
  <2>6. ASSUME NEW i \in Setups
        PROVE  ~RegisterWorkerPort(i) /\ ~SetupEnds(i)
    BY DEF RegisterWorkerPort, SetupEnds, swVars
  <2>7. ASSUME NEW i \in Setups, NEW fails \in BOOLEAN
        PROVE  ~RegisterMediaPort(i, fails) /\ ~Acknowledge(i, fails)
    BY DEF RegisterMediaPort, Acknowledge, swVars
  <2>8. ~SetupMediaStreaming /\ ~RestartServiceWorker /\ ~NewVersion
    BY DEF SetupMediaStreaming, RestartServiceWorker, NewVersion, swVars
  <2>9. ~AskActivity /\ ~Answered /\ ~Unanswered
    BY DEF AskActivity, Answered, Unanswered, swVars
  <2>10. Activate
    BY <2>1, <2>2, <2>3, <2>4, <2>5, <2>6, <2>7, <2>8, <2>9, Zenon DEF MediaNext
  <2> QED  BY <2>10 DEF Activate, MediaInv, UpdateInv
<1> QED  BY <1>1, MediaInvHolds, PTL DEF MediaSpec, UpdatesSpareDownloads
=============================================================================
