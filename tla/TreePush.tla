------------------------------ MODULE TreePush ------------------------------
(****************************************************************************)
(* HashTree.push: all blocks of a tree are copied to another store.  pull   *)
(* fetches what is missing first; then a producer walks the tree into a     *)
(* bounded queue while a consumer keeps some uploads going.  Each waits for *)
(* the other with a promise that only the other resolves.                   *)
(*                                                                          *)
(* A block may be out of reach when it is asked for.                        *)
(****************************************************************************)
EXTENDS Integers, Sequences, FiniteSets, SequencesExt

CONSTANTS Blocks, TreeRoot,
          Kids,        \* the links of each block, in order
          Concurrency  \* uploads at a time

ASSUME PushAssumption ==
  /\ IsFiniteSet(Blocks) /\ TreeRoot \in Blocks
  /\ Kids \in [Blocks -> Seq(Blocks)] /\ Concurrency \in Nat \ {0}

VARIABLES
  found,     \* the blocks pull fetched, whose number is the total of the progress
  stack,     \* what the walk has still to visit
  visited,
  enqueueing, \* the block the producer waits to enqueue, as a set
  uploadQueue, active,
  walkDone, aborted,
  producer,  \* idle, walking, full (its promise is pending), done, thrown
  consumer,  \* idle, looping, empty (its promise is pending), racing, ending, done
  settled,   \* how each block ended: pushed, skipped, failed
  lost       \* history: some block was out of reach

pushVars == <<found, stack, visited, enqueueing, uploadQueue, active, walkDone, aborted, producer, consumer, settled, lost>>

MaxQueueSize == Concurrency * 2
\* Bound: of one block, or none, pull does without.
Missing == {{}} \cup {{b} : b \in Blocks}
Outcomes == {"pushed", "skipped", "failed"}

PushInit ==
  /\ found = {} /\ stack = <<>> /\ visited = {} /\ enqueueing = {}
  /\ uploadQueue = <<>> /\ active = {} /\ walkDone = FALSE /\ aborted = FALSE
  /\ producer = "idle" /\ consumer = "idle"
  /\ settled = [b \in Blocks |-> "none"] /\ lost = FALSE

Links(b) == ToSet(Kids[b])
\* pull: level by level in parallel, not below a block that is out of reach:
\* the least set with the root and the links of each of its blocks that is there.
Reached(missing) ==
  {b \in Blocks \ missing :
     \A S \in SUBSET Blocks :
       TreeRoot \in S /\ (\A c \in S \ missing : Links(c) \subseteq S) => b \in S}

Pull(missing) ==
  /\ producer = "idle" /\ consumer = "idle"
  /\ found' = Reached(missing)
  /\ lost' = (missing # {})
  /\ IF aborted
     THEN producer' = "done" /\ consumer' = "done" /\ UNCHANGED stack
     ELSE producer' = "walking" /\ consumer' = "looping" /\ stack' = <<TreeRoot>>
  /\ UNCHANGED <<visited, enqueueing, uploadQueue, active, walkDone, aborted, settled>>

Abort ==
  /\ ~aborted /\ aborted' = TRUE
  /\ UNCHANGED <<found, stack, visited, enqueueing, uploadQueue, active, walkDone, producer, consumer, settled, lost>>

-----------------------------------------------------------------------------
(* The producer. *)

\* Slip: a block wakes the consumer, the end of the walk does not.
Woken_ByBlock == IF consumer = "empty" /\ (stack # <<>> \/ enqueueing # {}) THEN "looping" ELSE consumer
Woken == IF consumer = "empty" THEN "looping" ELSE consumer
Enqueue(b) == uploadQueue' = Append(uploadQueue, b) /\ consumer' = Woken

EndWalk ==
  /\ walkDone' = TRUE /\ producer' = "done" /\ consumer' = Woken
  /\ UNCHANGED <<visited, enqueueing, uploadQueue, lost>>

\* Slip: a block is not remembered as visited.
Visited_Never(b) == FALSE
Visited(b) == b \in visited

\* One block of walkBlocks, which comes after its store.get.
Walk(out) ==
  /\ producer = "walking"
  /\ UNCHANGED <<found, active, aborted, settled>>
  /\ IF stack = <<>> THEN EndWalk /\ UNCHANGED stack
     ELSE LET b == stack[1] IN
       IF Visited(b)
       THEN stack' = Tail(stack) /\ UNCHANGED <<visited, enqueueing, uploadQueue, walkDone, producer, consumer, lost>>
       ELSE IF out
       THEN /\ stack' = Tail(stack) /\ visited' = visited \cup {b} /\ lost' = TRUE
            /\ UNCHANGED <<enqueueing, uploadQueue, walkDone, producer, consumer>>
       ELSE IF aborted THEN EndWalk /\ UNCHANGED stack
       ELSE /\ stack' = Kids[b] \o Tail(stack)
            /\ visited' = visited \cup {b}
            /\ IF Len(uploadQueue) >= MaxQueueSize
               THEN enqueueing' = {b} /\ producer' = "full" /\ UNCHANGED <<uploadQueue, consumer>>
               ELSE Enqueue(b) /\ UNCHANGED <<enqueueing, producer>>
            /\ UNCHANGED <<walkDone, lost>>

\* Resumed, the producer enqueues the block it holds, aborted or not.
Resume ==
  /\ producer = "resumed"
  /\ IF Len(uploadQueue) >= MaxQueueSize /\ ~aborted
     THEN producer' = "full" /\ UNCHANGED <<uploadQueue, consumer, enqueueing>>
     ELSE /\ \E b \in enqueueing : Enqueue(b)
          /\ enqueueing' = {} /\ producer' = "walking"
  /\ UNCHANGED <<found, stack, visited, active, walkDone, aborted, settled, lost>>

\* A store that throws ends the producer and with it the push.
Throw ==
  /\ producer = "walking" /\ stack # <<>>
  /\ producer' = "thrown"
  /\ UNCHANGED <<found, stack, visited, enqueueing, uploadQueue, active, walkDone, aborted, consumer, settled, lost>>

-----------------------------------------------------------------------------
(* The consumer. *)

Resumed(started) == IF producer = "full" /\ started > 0 THEN "resumed" ELSE producer

Consume ==
  /\ consumer = "looping"
  /\ UNCHANGED <<found, stack, visited, enqueueing, walkDone, aborted, settled, lost>>
  /\ IF aborted \/ (walkDone /\ uploadQueue = <<>> /\ active = {})
     THEN consumer' = "ending" /\ UNCHANGED <<uploadQueue, active, producer>>
     ELSE LET room == Concurrency - Cardinality(active)
              started == IF Len(uploadQueue) < room THEN Len(uploadQueue) ELSE room IN
          /\ active' = active \cup {uploadQueue[i] : i \in 1..started}
          /\ uploadQueue' = SubSeq(uploadQueue, started + 1, Len(uploadQueue))
          /\ producer' = Resumed(started)
          /\ consumer' = IF uploadQueue' = <<>> /\ ~walkDone /\ Cardinality(active') < Concurrency THEN "empty"
                         ELSE IF active' # {} THEN "racing" ELSE "looping"

\* An upload ends: stored, known there already, or refused.
UploadEnds(b, how) ==
  /\ b \in active
  /\ active' = active \ {b}
  /\ settled' = [settled EXCEPT ![b] = how]
  /\ consumer' = IF consumer = "racing" THEN "looping" ELSE consumer
  /\ UNCHANGED <<found, stack, visited, enqueueing, uploadQueue, walkDone, aborted, producer, lost>>

End ==
  /\ consumer = "ending" /\ active = {}
  /\ consumer' = "done"
  /\ UNCHANGED <<found, stack, visited, enqueueing, uploadQueue, active, walkDone, aborted, producer, settled, lost>>

PushNext ==
  \/ \E missing \in Missing : Pull(missing)
  \/ Abort \/ Throw \/ Resume \/ Consume \/ End
  \/ \E out \in BOOLEAN : Walk(out)
  \/ \E b \in Blocks, how \in Outcomes : UploadEnds(b, how)

PushSpec == PushInit /\ [][PushNext]_pushVars

\* Stores answer and promises that are resolved resume who waits for them.
PushFairness ==
  /\ WF_pushVars(Resume \/ \E out \in BOOLEAN : Walk(out))
  /\ WF_pushVars(Consume \/ End)
  /\ WF_pushVars(\E b \in Blocks, how \in Outcomes : UploadEnds(b, how))
PushFairSpec == PushSpec /\ PushFairness

-----------------------------------------------------------------------------
(* Properties. *)

PushOver == producer = "thrown" \/ (producer = "done" /\ consumer = "done")

PushTypeOK ==
  /\ found \subseteq Blocks /\ visited \subseteq Blocks /\ enqueueing \subseteq Blocks
  /\ Len(uploadQueue) <= MaxQueueSize + 1 /\ Cardinality(active) <= Concurrency
  /\ producer \in {"idle", "walking", "full", "resumed", "done", "thrown"}
  /\ consumer \in {"idle", "looping", "empty", "racing", "ending", "done"}
  /\ settled \in [Blocks -> Outcomes \cup {"none"}]

\* A block is in one place at a time, so none is uploaded twice; and when a
\* push that was not cancelled returns a result, every block of the tree was
\* uploaded, skipped or reported as failed, unless one was out of reach; and the
\* progress never passes the total that pull counted (hashtree.ts:478-569).
PushComplete ==
  /\ PushTypeOK
  /\ \A i, j \in DOMAIN uploadQueue : uploadQueue[i] = uploadQueue[j] => i = j
  /\ \A b \in Blocks : Cardinality({p \in {"enqueueing", "uploadQueue", "active", "settled"} :
       \/ p = "enqueueing" /\ b \in enqueueing
       \/ p = "uploadQueue" /\ b \in ToSet(uploadQueue)
       \/ p = "active" /\ b \in active
       \/ p = "settled" /\ settled[b] # "none"}) <= 1
  /\ PushOver /\ producer = "done" /\ ~aborted /\ ~lost => \A b \in Reached({}) : settled[b] # "none"
  /\ ~lost => Cardinality({b \in Blocks : settled[b] # "none"}) <= Cardinality(found)

\* Producer and consumer never wait for each other for good: a push that is not
\* cancelled returns, so that again and again none is under way (hashtree.ts:511-569).
PushReturns == []<>(producer = "idle" \/ PushOver \/ aborted)
=============================================================================
