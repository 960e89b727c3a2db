---------------------------- MODULE StorePeering ----------------------------
(***************************************************************************)
(* packages/hashtree-nostr/src/webrtc/store.ts and the negotiation half of *)
(* peer.ts: how the stores of several users find each other through hello  *)
(* messages, offer, answer, replace, drop and stop.                        *)
(*                                                                         *)
(* A Peer object is a number; its connection comes up when each of two     *)
(* live objects has the description of the other one.  Messages may arrive *)
(* in any order, late or never; candidates travel with the descriptions.   *)
(***************************************************************************)
EXTENDS Naturals, FiniteSets

CONSTANTS
  Stores,          \* the users
  MaxConnections,  \* the size of the pool
  MaxPeers,        \* Peer objects made in one behaviour
  MaxHellos,       \* hello messages a store sends
  Faults           \* whether connections fail and attempts grow stale

ASSUME PoolAssumption == Stores # {} /\ MaxConnections \in Nat /\ MaxPeers \in Nat

VARIABLES
  running,     \* per store
  peers,       \* per store: the Peer of each other store, 0 for none
  pendingOtherPubkeys,
  made,        \* how many Peer objects there are
  at, to,      \* per object: whose it is and whom it connects to
  step,        \* where connect or handleSignaling stands
  remote,      \* the object whose description is set, 0 for none
  up, closed,
  msgs,        \* at the relays
  unwrapping,  \* received, in the await of giftUnwrap
  hellos       \* sent by each store

poolVars == <<peers, pendingOtherPubkeys>>
objVars == <<made, at, to, step, remote, up, closed>>
relayVars == <<msgs, unwrapping, hellos>>
peeringVars == <<running, peers, pendingOtherPubkeys, made, at, to, step,
          remote, up, closed, msgs, unwrapping, hellos>>

Objects == 1..MaxPeers
Others(s) == Stores \ {s}
Mine(s) == {peers[s][t] : t \in Others(s)} \ {0}
Hello(s, t) == [kind |-> "hello", from |-> s, to |-> t, obj |-> 0]

-----------------------------------------------------------------------------
(* Peer.close: the handlers of the object are cleared first, then onClose  *)
(* runs in the same turn and removes the entry of that id.                 *)
CloseAll(gone) ==
  /\ closed' = closed \cup gone
  /\ up' = up \ gone

Without(map, gone) ==
  [s \in Stores |-> [t \in Stores |-> IF map[s][t] \in gone THEN 0 ELSE map[s][t]]]

NewPeer(s, t, stage, description) ==
  /\ made < MaxPeers
  /\ made' = made + 1
  /\ at' = [at EXCEPT ![made + 1] = s]
  /\ to' = [to EXCEPT ![made + 1] = t]
  /\ step' = [step EXCEPT ![made + 1] = stage]
  /\ remote' = [remote EXCEPT ![made + 1] = description]

CanAcceptPeer(s) == Cardinality(Mine(s)) < MaxConnections
HasOtherPoolPubkey(s, t) == t \in pendingOtherPubkeys[s] \/ peers[s][t] # 0

(* maybeSendHello, when the pool is not satisfied.                         *)
SendHello(s) ==
  /\ running[s]
  /\ hellos[s] < MaxHellos
  /\ Cardinality(Mine(s) \cap up) < MaxConnections
  /\ hellos' = [hellos EXCEPT ![s] = @ + 1]
  /\ msgs' = msgs \cup {Hello(s, t) : t \in Others(s)}
  /\ UNCHANGED <<running, poolVars, objVars, unwrapping>>

-----------------------------------------------------------------------------
(* handleHello and connectToPeer up to its first await; neither asks       *)
(* whether the store is running.                                           *)
HandleHello(s, t) ==
  /\ Hello(t, s) \in msgs
  /\ msgs' = msgs \ {Hello(t, s)}
  /\ IF CanAcceptPeer(s) /\ ~HasOtherPoolPubkey(s, t)
       THEN /\ NewPeer(s, t, "offering", 0)
            /\ peers' = [peers EXCEPT ![s][t] = made + 1]
            /\ pendingOtherPubkeys' = [pendingOtherPubkeys EXCEPT ![s] = @ \cup {t}]
       ELSE UNCHANGED <<made, at, to, step, remote, poolVars>>
  /\ UNCHANGED <<running, up, closed, unwrapping, hellos>>

(* connect: the local description is set, unless the object was closed,    *)
(* which rejects and ends handleHello.                                     *)
OfferMade(o) ==
  /\ step[o] = "offering"
  /\ step' = [step EXCEPT ![o] = IF o \in closed THEN "done" ELSE "wrapping offer"]
  /\ pendingOtherPubkeys' =
       [pendingOtherPubkeys EXCEPT ![at[o]] = IF o \in closed THEN @ \ {to[o]} ELSE @]
  /\ UNCHANGED <<running, peers, made, at, to, remote, up, closed, relayVars>>

(* The gift wrap is done: the message goes out even if the object was      *)
(* closed meanwhile.                                                       *)
OfferSent(o) ==
  /\ step[o] = "wrapping offer"
  /\ step' = [step EXCEPT ![o] = "offered"]
  /\ pendingOtherPubkeys' = [pendingOtherPubkeys EXCEPT ![at[o]] = @ \ {to[o]}]
  /\ msgs' = msgs \cup {[kind |-> "offer", from |-> at[o], to |-> to[o], obj |-> o]}
  /\ UNCHANGED <<running, peers, made, at, to, remote, up, closed, unwrapping, hellos>>

(* handleSignalingEvent with a directed message, up to giftUnwrap.         *)
Receive(m) ==
  /\ m.kind # "hello"
  /\ running[m.to]
  /\ m \in msgs
  /\ msgs' = msgs \ {m}
  /\ unwrapping' = unwrapping \cup {m}
  /\ UNCHANGED <<running, poolVars, objVars, hellos>>

(* handleOffer: the Peer of that id is closed and a new one made, whatever *)
(* state the old one was in.                                               *)
\* Slip: the old object is taken out of the Map without being closed.
HandleOffer_Unclosed(m) ==
  LET s == m.to
      t == m.from
  IN /\ m.kind = "offer"
     /\ m \in unwrapping
     /\ unwrapping' = unwrapping \ {m}
     /\ IF peers[s][t] # 0 \/ (CanAcceptPeer(s) /\ ~HasOtherPoolPubkey(s, t))
          THEN /\ NewPeer(s, t, "answering", m.obj)
               /\ peers' = [peers EXCEPT ![s][t] = made + 1]
               /\ pendingOtherPubkeys' = [pendingOtherPubkeys EXCEPT ![s] = @ \ {t}]
          ELSE UNCHANGED <<made, at, to, step, remote, poolVars>>
     /\ UNCHANGED <<running, up, closed, msgs, hellos>>

HandleOffer(m) ==
  LET s == m.to
      t == m.from
  IN /\ m.kind = "offer"
     /\ m \in unwrapping
     /\ unwrapping' = unwrapping \ {m}
     /\ IF peers[s][t] # 0 \/ (CanAcceptPeer(s) /\ ~HasOtherPoolPubkey(s, t))
          THEN /\ CloseAll({peers[s][t]} \ {0})
               /\ NewPeer(s, t, "answering", m.obj)
               /\ peers' = [peers EXCEPT ![s][t] = made + 1]
               /\ pendingOtherPubkeys' = [pendingOtherPubkeys EXCEPT ![s] = @ \ {t}]
          ELSE UNCHANGED <<objVars, poolVars>>
     /\ UNCHANGED <<running, msgs, hellos>>

(* handleSignaling with the offer: remote and local description are set.   *)
AnswerMade(o) ==
  /\ step[o] = "answering"
  /\ step' = [step EXCEPT ![o] = IF o \in closed THEN "done" ELSE "wrapping answer"]
  /\ UNCHANGED <<running, poolVars, made, at, to, remote, up, closed, relayVars>>

AnswerSent(o) ==
  /\ step[o] = "wrapping answer"
  /\ step' = [step EXCEPT ![o] = "done"]
  /\ msgs' = msgs \cup {[kind |-> "answer", from |-> at[o], to |-> to[o], obj |-> o]}
  /\ UNCHANGED <<running, poolVars, made, at, to, remote, up, closed, unwrapping, hellos>>

(* handleSignaling with an answer: it is taken by the Peer of that id if   *)
(* an offer of its own is open, whichever offer the answer is for.         *)
HaveLocalOffer(o) == step[o] \in {"wrapping offer", "offered"} /\ remote[o] = 0

HandleAnswer(m) ==
  LET o == peers[m.to][m.from]
  IN /\ m.kind = "answer"
     /\ m \in unwrapping
     /\ unwrapping' = unwrapping \ {m}
     /\ remote' = IF o # 0 /\ HaveLocalOffer(o) THEN [remote EXCEPT ![o] = m.obj] ELSE remote
     /\ UNCHANGED <<running, poolVars, made, at, to, step, up, closed, msgs, hellos>>

-----------------------------------------------------------------------------
Live(o) == o \in 1..made /\ o \notin closed
Paired(o) == Live(o) /\ remote[o] # 0 /\ Live(remote[o]) /\ remote[remote[o]] = o

(* Connected, and the data channel open.                                   *)
Connected(o) ==
  /\ Paired(o)
  /\ o \notin up
  /\ up' = up \cup {o}
  /\ UNCHANGED <<running, poolVars, made, at, to, step, remote, closed, relayVars>>

(* onconnectionstatechange or onclose: failed, closed or disconnected.     *)
Failed(o) ==
  /\ Faults
  /\ Live(o)
  /\ remote[o] # 0
  /\ CloseAll({o})
  /\ peers' = Without(peers, {o})
  /\ UNCHANGED <<running, pendingOtherPubkeys, made, at, to, step, remote, relayVars>>

(* cleanupConnections finds an attempt that is still new after 15 seconds. *)
\* Slip: attempts still new are left to their connection state.
CleanupConnections_Failed(o) ==
  /\ Faults
  /\ Live(o)
  /\ running[at[o]]
  /\ remote[o] # 0 /\ o \notin up
  /\ peers[at[o]][to[o]] = o
  /\ CloseAll({o})
  /\ peers' = Without(peers, {o})
  /\ UNCHANGED <<running, pendingOtherPubkeys, made, at, to, step, remote, relayVars>>

CleanupConnections(o) ==
  /\ Faults
  /\ Live(o)
  /\ running[at[o]]
  /\ remote[o] = 0
  /\ peers[at[o]][to[o]] = o
  /\ CloseAll({o})
  /\ peers' = Without(peers, {o})
  /\ UNCHANGED <<running, pendingOtherPubkeys, made, at, to, step, remote, relayVars>>

(* setRelays: every connection goes; the new relays may hold the same      *)
(* messages.                                                               *)
SetRelays(s) ==
  /\ Faults
  /\ running[s]
  /\ Mine(s) # {}
  /\ CloseAll(Mine(s))
  /\ peers' = [peers EXCEPT ![s] = [t \in Stores |-> 0]]
  /\ UNCHANGED <<running, pendingOtherPubkeys, made, at, to, step, remote, relayVars>>

(* stop closes the subscriptions of the list: no directed message comes    *)
(* any more.  The one to hello messages is not in it and stays open.       *)
Stop(s) ==
  /\ Faults
  /\ running[s]
  /\ running' = [running EXCEPT ![s] = FALSE]
  /\ CloseAll(Mine(s))
  /\ peers' = [peers EXCEPT ![s] = [t \in Stores |-> 0]]
  /\ pendingOtherPubkeys' = [pendingOtherPubkeys EXCEPT ![s] = {}]
  /\ UNCHANGED <<made, at, to, step, remote, relayVars>>

-----------------------------------------------------------------------------
(* Every store has started and said hello once.                            *)
PeeringInit ==
  /\ running = [s \in Stores |-> TRUE]
  /\ peers = [s \in Stores |-> [t \in Stores |-> 0]]
  /\ pendingOtherPubkeys = [s \in Stores |-> {}]
  /\ made = 0
  /\ at = [o \in Objects |-> CHOOSE s \in Stores : TRUE]
  /\ to = [o \in Objects |-> CHOOSE s \in Stores : TRUE]
  /\ step = [o \in Objects |-> "none"]
  /\ remote = [o \in Objects |-> 0]
  /\ up = {}
  /\ closed = {}
  /\ msgs = UNION {{Hello(s, t) : t \in Others(s)} : s \in Stores}
  /\ unwrapping = {}
  /\ hellos = [s \in Stores |-> 1]

PeeringNext ==
  \/ \E s \in Stores : SendHello(s) \/ SetRelays(s) \/ Stop(s)
  \/ \E s \in Stores, t \in Stores : HandleHello(s, t)
  \/ \E m \in msgs : Receive(m)
  \/ \E m \in unwrapping : HandleOffer(m) \/ HandleAnswer(m)
  \/ \E o \in Objects :
       \/ OfferMade(o) \/ OfferSent(o) \/ AnswerMade(o) \/ AnswerSent(o)
       \/ Connected(o) \/ Failed(o) \/ CleanupConnections(o)

PeeringSpec == PeeringInit /\ [][PeeringNext]_peeringVars

(* Connections that cannot come up fail, and the cleanup interval runs     *)
(* while the store does; messages need not arrive.                         *)
PeeringFairness ==
  \A o \in Objects :
    WF_peeringVars(\/ OfferMade(o) \/ OfferSent(o) \/ AnswerMade(o) \/ AnswerSent(o)
            \/ Failed(o) \/ CleanupConnections(o))

PeeringFairSpec == PeeringSpec /\ PeeringFairness

-----------------------------------------------------------------------------
Steps == {"none", "offering", "wrapping offer", "offered", "answering", "wrapping answer", "done"}

PeeringTypeOK ==
  /\ running \in [Stores -> BOOLEAN]
  /\ peers \in [Stores -> [Stores -> 0..made]]
  /\ pendingOtherPubkeys \in [Stores -> SUBSET Stores]
  /\ made \in 0..MaxPeers
  /\ at \in [Objects -> Stores]
  /\ to \in [Objects -> Stores]
  /\ step \in [Objects -> Steps]
  /\ remote \in [Objects -> 0..made]
  /\ up \subseteq 1..made
  /\ closed \subseteq 1..made

(* The Map of a store holds exactly its live Peers, each under the id it   *)
(* connects to and never more than the pool has room for: a close never    *)
(* removes the Peer that replaced the closed one, and no connection lives  *)
(* on that nothing can close.                                              *)
PeersAreLive ==
  /\ PeeringTypeOK
  /\ \A s \in Stores : Mine(s) = {o \in 1..made : at[o] = s /\ o \notin closed}
  /\ \A s \in Stores, t \in Stores : peers[s][t] # 0 => to[peers[s][t]] = t
  /\ \A s \in Stores : Cardinality(Mine(s)) <= MaxConnections

(* An attempt to connect does not keep its id for ever: it succeeds or is  *)
(* dropped, so that a later hello can start another, while the store runs. *)
(* Attempts are finitely many, so each ends if again and again none is     *)
(* under way.                                                              *)
AttemptsEnd ==
  []<>(\A o \in Objects : Live(o) /\ o \notin up => ~running[at[o]])

(* Both users offered, and every message has arrived: "Collision is        *)
(* handled by Peer class (polite peer rolls back)", as handleHello has it. *)
CollisionResolved ==
  msgs = {} /\ unwrapping = {} /\ (\A o \in Objects : step[o] \in {"none", "offered", "done"}) =>
    \A s \in Stores : \A o \in Mine(s) : Paired(o)
=============================================================================
