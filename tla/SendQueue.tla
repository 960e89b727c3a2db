------------------------------ MODULE SendQueue ------------------------------
(****************************************************************************)
(* The queue of one peer in front of its data channel (webrtcProxy.ts,      *)
(* boundedQueue.ts).  It drops its oldest items when it is full, tells the  *)
(* worker to pause above a high mark and to go on below a low one, and      *)
(* drains whenever the channel's own buffer runs low.                       *)
(****************************************************************************)
EXTENDS Integers, Sequences, FiniteSets, SequencesExt

CONSTANTS MaxQueueItems, MaxQueueBytes,
          BufferThreshold,               \* the channel's buffer is filled up to this
          QueueHigh, QueueLow,           \* the marks of the queue
          Sizes,
          MaxSends                       \* bound: items sent

VARIABLES
  open,      \* whether the channel is open
  sendQueue, \* items [id, size]
  sending, bufferHighSignaled,
  awaitLow,  \* whether onbufferedamountlow is set
  lowEvents, \* such events on their way
  buffered,  \* sizes of what the channel has buffered, oldest first
  paused,    \* what the worker was told last
  handed,    \* history: ids given to the channel, in order
  gone,      \* history: ids dropped, by the queue or by a send that threw
  sends,     \* history: ids so far
  threw      \* history: a send threw

vars == <<open, sendQueue, sending, bufferHighSignaled, awaitLow, lowEvents, buffered, paused, handed, gone, sends, threw>>

Total(sizes) == FoldLeft(LAMBDA n, s : n + s, 0, sizes)
Bytes(items) == Total([i \in DOMAIN items |-> items[i].size])
IdsOf(items) == [i \in DOMAIN items |-> items[i].id]

Init ==
  /\ open = TRUE /\ sendQueue = <<>> /\ buffered = <<>> /\ lowEvents = 0
  /\ sending = FALSE /\ bufferHighSignaled = FALSE /\ awaitLow = FALSE /\ paused = FALSE
  /\ handed = <<>> /\ gone = {} /\ sends = 0 /\ threw = FALSE

\* Slip: one item makes room for one, whatever their sizes.
Dropped_One(queue, item) == IF Len(queue) < MaxQueueItems THEN 0 ELSE 1
\* The fewest of the oldest items go that make room for the new one.
Dropped(queue, item) ==
  CHOOSE n \in 0..Len(queue) :
    LET Fits(k) == \/ k = Len(queue)
                   \/ /\ Len(queue) - k < MaxQueueItems
                      /\ Bytes(SubSeq(queue, k + 1, Len(queue))) + item.size <= MaxQueueBytes
    IN Fits(n) /\ \A k \in 0..(n - 1) : ~Fits(k)
Push(queue, item) == Append(SubSeq(queue, Dropped(queue, item) + 1, Len(queue)), item)

\* How many items one drain takes from the queue when none throws: until the
\* queue is empty or the channel's buffer has reached the threshold.
RECURSIVE Taken(_, _)
Taken(queue, amount) ==
  IF queue = <<>> \/ amount >= BufferThreshold THEN 0
  ELSE 1 + Taken(Tail(queue), amount + queue[1].size)

\* Slip: a drain that leaves something does not ask to be called again.
Waits_Never(rest) == FALSE
Waits(rest) == rest # <<>>

\* drainQueue of a queue whose oldest n items the channel takes; an item whose
\* send throws is dropped and ends the loop.
Drain(queue, signaled, throws) ==
  LET all == Taken(queue, Total(buffered)) IN
  \E n \in 0..all :
    /\ throws => n < all
    /\ ~throws => n = all
    /\ LET rest == SubSeq(queue, IF throws THEN n + 2 ELSE n + 1, Len(queue))
           low == signaled /\ Bytes(rest) < QueueLow IN
       /\ sendQueue' = rest
       /\ handed' = handed \o SubSeq(IdsOf(queue), 1, n)
       /\ buffered' = buffered \o SubSeq([i \in DOMAIN queue |-> queue[i].size], 1, n)
       /\ gone' = (gone \cup (ToSet(IdsOf(sendQueue)) \ ToSet(IdsOf(queue)))
                        \cup (IF throws THEN {queue[n + 1].id} ELSE {}))
       /\ bufferHighSignaled' = (signaled /\ ~low)
       /\ paused' = (signaled /\ ~low)
       /\ sending' = (rest # <<>>)
       /\ awaitLow' = Waits(rest)
       /\ threw' = (threw \/ throws)

SendData(size, throws) ==
  /\ sends < MaxSends /\ sends' = sends + 1
  /\ IF ~open
     THEN UNCHANGED <<sendQueue, handed, buffered, bufferHighSignaled, paused, sending, awaitLow, threw>>
          /\ gone' = gone \cup {sends'}
     ELSE LET queue == Push(sendQueue, [id |-> sends', size |-> size])
              high == bufferHighSignaled \/ Bytes(queue) > QueueHigh IN
          IF ~sending THEN Drain(queue, high, throws)
          ELSE /\ ~throws
               /\ sendQueue' = queue /\ bufferHighSignaled' = high /\ paused' = high
               /\ gone' = gone \cup (ToSet(IdsOf(sendQueue)) \ ToSet(IdsOf(queue)))
               /\ UNCHANGED <<handed, buffered, sending, awaitLow, threw>>
  /\ UNCHANGED <<open, lowEvents>>

\* The network takes the oldest of the channel's buffer; falling to half the
\* threshold fires bufferedamountlow.
Transmit ==
  /\ open /\ buffered # <<>>
  /\ buffered' = Tail(buffered)
  /\ lowEvents' = lowEvents + (IF 2 * Total(buffered) > BufferThreshold /\ 2 * Total(Tail(buffered)) <= BufferThreshold THEN 1 ELSE 0)
  /\ UNCHANGED <<open, sendQueue, sending, bufferHighSignaled, awaitLow, paused, handed, gone, sends, threw>>

OnLow(throws) ==
  /\ open /\ lowEvents > 0 /\ lowEvents' = lowEvents - 1
  /\ UNCHANGED <<open, sends>>
  /\ IF awaitLow THEN Drain(sendQueue, bufferHighSignaled, throws)
     ELSE /\ ~throws
          /\ UNCHANGED <<sendQueue, handed, buffered, gone, bufferHighSignaled, paused, sending, awaitLow, threw>>

\* closePeer, or the channel or the connection closing.
CleanupPeer ==
  /\ open /\ open' = FALSE
  /\ gone' = gone \cup ToSet(IdsOf(sendQueue))
  /\ sendQueue' = <<>> /\ sending' = FALSE /\ awaitLow' = FALSE /\ lowEvents' = 0 /\ buffered' = <<>>
  /\ UNCHANGED <<bufferHighSignaled, paused, handed, sends, threw>>

Next ==
  \/ \E size \in Sizes, throws \in BOOLEAN : SendData(size, throws)
  \/ Transmit \/ CleanupPeer
  \/ \E throws \in BOOLEAN : OnLow(throws)

Spec == Init /\ [][Next]_vars
\* An open channel transmits and fires its events.
Fairness == WF_vars(Transmit) /\ WF_vars(\E throws \in BOOLEAN : OnLow(throws))
FairSpec == Spec /\ Fairness

-----------------------------------------------------------------------------
(* Properties. *)

TypeOK ==
  /\ Len(sendQueue) <= MaxQueueItems
  /\ Bytes(sendQueue) <= MaxQueueBytes \/ Len(sendQueue) = 1
  /\ lowEvents \in Nat
  /\ sending \in BOOLEAN /\ bufferHighSignaled \in BOOLEAN /\ awaitLow \in BOOLEAN /\ paused \in BOOLEAN

\* However full the queue and the channel get, every item is sent once, dropped
\* or still queued, what is sent keeps its order, a queue in no one's hands is
\* empty, and the worker is paused whenever the queue is above its high mark
\* and never while it is below the low one (webrtcProxy.ts:299-364,
\* boundedQueue.ts:48-71).
QueueSound ==
  /\ TypeOK
  /\ \A i \in 1..(Len(handed) - 1) : handed[i] < handed[i + 1]
  /\ ToSet(handed) \cup gone \cup ToSet(IdsOf(sendQueue)) = 1..sends
  /\ Len(handed) + Cardinality(gone) + Len(sendQueue) = sends
  /\ open /\ ~sending => sendQueue = <<>>
  /\ open /\ Bytes(sendQueue) > QueueHigh => paused
  /\ open /\ paused => Bytes(sendQueue) >= QueueLow

\* A queue of an open channel is drained and a worker that was told to pause is
\* told to go on, again and again, unless a send threw (webrtcProxy.ts:345-363).
QueueDrains == []<>(~open \/ threw \/ (sendQueue = <<>> /\ ~paused))
=============================================================================
