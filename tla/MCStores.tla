------------------------------ MODULE MCStores ------------------------------
(***************************************************************************)
(* Where blocks go and come from, one part per behaviour: the machine that *)
(* forwards the queries of peers, a store with fallbacks, the Blossom      *)
(* client, the queue of a data channel, and the push of a tree to another  *)
(* store.  The other parts stay as they begin.                             *)
(*                                                                         *)
(* Two hashes are forwarded among two peers: a hash can have several       *)
(* requesters, a peer several hashes, and a candidate list can be empty,   *)
(* the requester alone, or hold the other peer.  One timer handle per hash *)
(* suffices, because a handle is free again once its timer is cleared.     *)
(***************************************************************************)
EXTENDS QueryForwarding, FallbackStore, BlossomStore, TreePush, Integers, TLC

CONSTANTS MaxQueueItems, MaxQueueBytes, BufferThreshold, QueueHigh, QueueLow, Sizes, MaxSends

VARIABLES
  part,
  \* SendQueue
  open, sendQueue, sending, bufferHighSignaled, awaitLow, lowEvents, buffered, paused, handed,
  gone, sends, threw

channelVars == <<open, sendQueue, sending, bufferHighSignaled, awaitLow, lowEvents, buffered, paused,
                 handed, gone, sends, threw>>

(* Servers of all three kinds: write only, read only, both.                *)
MCServers == 1..2
MCConfigs == {[writes |-> {1, 2}, reads |-> {2}], [writes |-> {2}, reads |-> {1, 2}],
            [writes |-> {}, reads |-> {1}]}

(* Five blocks, one of which is linked twice.                              *)
MCBlocks == 1..5
MCKids == [b \in MCBlocks |-> CASE b = 1 -> <<2, 3, 4>> [] b = 2 -> <<3, 5>> [] OTHER -> <<>>]

Channel == INSTANCE SendQueue

(* Bound: lookups before uploads with two servers to write to, apart from  *)
(* has and delete.                                                         *)
BlossomWithin == large => probes = 0 /\ Cardinality(writes) = 2

MCInit ==
  /\ part \in {"forwarding", "fallback", "blossom", "channel", "push"}
  /\ Init
  /\ FallbackInit /\ (part = "fallback" \/ has = {})
  /\ BlossomInit /\ (part = "blossom" \/ (readFrom = {2} /\ large = FALSE))
  /\ Channel!Init
  /\ PushInit

MCNext ==
  /\ UNCHANGED part
  /\ \/ part = "forwarding" /\ Next
        /\ UNCHANGED <<fallbackVars, blossomVars, channelVars, pushVars>>
     \/ part = "fallback" /\ FallbackNext
        /\ UNCHANGED <<vars, blossomVars, channelVars, pushVars>>
     \/ part = "blossom" /\ BlossomNext /\ BlossomWithin'
        /\ UNCHANGED <<vars, fallbackVars, channelVars, pushVars>>
     \/ part = "channel" /\ Channel!Next
        /\ UNCHANGED <<vars, fallbackVars, blossomVars, pushVars>>
     \/ part = "push" /\ PushNext
        /\ UNCHANGED <<vars, fallbackVars, blossomVars, channelVars>>

MCSpec ==
  /\ MCInit
  /\ [][MCNext]_<<part, vars, fallbackVars, blossomVars, channelVars, pushVars>>
  /\ TimerFairness /\ FallbackFairness /\ BlossomFairness /\ Channel!Fairness /\ PushFairness

-----------------------------------------------------------------------------
(* The property of SendQueue, stated and explained there: every item is    *)
(* sent once and in order or dropped, and none waits for good.             *)
QueueDelivers == [][Channel!QueueSound']_channelVars /\ Channel!QueueDrains

(* What is asked of the stores ends: every get of the layered store, every *)
(* put of the Blossom client, and a push that is not cancelled; each is    *)
(* explained in its module (fallback.ts, blossom.ts, hashtree.ts).         *)
StoresSettle == ReadsSettle /\ PutsSettle /\ PushReturns
=============================================================================
