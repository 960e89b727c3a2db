------------------------ MODULE PeerSignaling_proofs ------------------------
(***************************************************************************)
(* Signaling with plain calls, for any nodes: controller and proxy agree   *)
(* on what exists, and the controller's requests come in time.             *)
(*                                                                         *)
(* With plain calls the two queues of a link hold one conversation at a    *)
(* time.  Exchange lists its stages, each with the records that go with    *)
(* it; AnswersOK follows the one answer an incoming connection is asked    *)
(* for, from the offer that is due to the operation that gives it.         *)
(***************************************************************************)
EXTENDS PeerSignaling, SequenceTheorems, TLAPS

Peers ==
  [direction : {"inbound", "outbound"}, state : {"connecting", "connected"}, answerCreated : BOOLEAN]

SdpsTo(k) == [type : {"offer", "answer"}, id : 1..k, of : {None} \cup 1..k]

(* What a link's connection may be asked: the initiator offers, the other  *)
(* side answers.                                                           *)
Creates(l) == IF l[1] < l[2] THEN Item("createOffer", None) ELSE Item("createAnswer", None)
Settings(k) == [type : {"setLocal", "setRemote"}, arg : SdpsTo(k)]
Rollbacks(k) == [type : {"rollback"}, arg : SdpsTo(k)]
Ops(l, k) == {Creates(l)} \cup Settings(k) \cup Rollbacks(k)

Pcs(l, k) ==
  [id : 1..k, signaling : {"stable", "localOffer", "remoteOffer"},
   local : SdpsTo(k) \cup {None}, remote : SdpsTo(k) \cup {None},
   ops : Seq(Ops(l, k)), conn : {"new", "connected", "closed"}]

PcOK(c, l, k) ==
  /\ c \in Pcs(l, k)
  /\ c.signaling = "localOffer" => c.local \in SdpsTo(k) /\ c.local.type = "offer"
  /\ c.signaling = "remoteOffer" => c.remote \in SdpsTo(k) /\ c.remote.type = "offer"

PeerOK(p, l) ==
  /\ p \in Peers
  /\ p.direction = IF l[1] < l[2] THEN "outbound" ELSE "inbound"

(* An sdp that link l sends; what the other side sends goes the other way. *)
Sends(l, s) == s.type = IF l[1] < l[2] THEN "offer" ELSE "answer"
Gets(l, s) == s.type = IF l[1] < l[2] THEN "answer" ELSE "offer"

-----------------------------------------------------------------------------
(* The stages, for a link with peer record p, connection c, commands q and *)
(* events e.                                                               *)
Idle(p, c, q, e) == q = << >> /\ e = << >> /\ (p = None <=> c = None)

Creating(l, p, c, q, e, k) ==
  /\ e = << >> /\ p # None /\ c = None
  /\ p.state = "connecting" /\ ~p.answerCreated
  /\ \/ q = <<Item("createPeer", None)>> /\ l[1] < l[2]
     \/ \E s \in SdpsTo(k) :
          /\ s.type = "offer" /\ ~(l[1] < l[2])
          /\ q = <<Item("createPeer", None), Item("setRemote", s)>>

Created(l, p, c, q, e, k) ==
  /\ e = <<Item("peerCreated", None)>> /\ p # None /\ c # None
  /\ \/ q = << >>
     \/ \E s \in SdpsTo(k) :
          s.type = "offer" /\ ~(l[1] < l[2]) /\ q = <<Item("setRemote", s)>>

Asking(l, p, c, q, e, k) ==
  /\ e = << >> /\ p # None /\ c # None
  /\ \/ q = <<Creates(l)>>
     \/ \E s \in SdpsTo(k) :
          \/ q = <<Item("setLocal", s)>> /\ Sends(l, s)
          \/ q = <<Item("setRemote", s)>> /\ Gets(l, s)

Reporting(l, p, c, q, e, k) ==
  /\ q = << >> /\ p # None /\ c # None
  /\ \/ \E s \in SdpsTo(k) : e = <<Item("sdpCreated", s)>> /\ Sends(l, s)
     \/ \E b \in BOOLEAN : e = <<Item("descriptionSet", b)>>
     \/ e = <<Item("stateChange", "connected")>> /\ c.conn = "connected"

Failed(p, c, q, e) == q = << >> /\ e = <<Item("stateChange", "failed")>> /\ p # None /\ c = None
Shut(p, c, q, e) == q = << >> /\ e = <<Item("dataChannelClose", None)>> /\ p # None /\ c # None
Closing(p, q, e) == q = <<Item("closePeer", None)>> /\ e = << >> /\ p = None
Gone(p, c, q, e) == q = << >> /\ e = <<Item("peerClosed", None)>> /\ p = None /\ c = None

Exchange(l, p, c, q, e, k) ==
  \/ Idle(p, c, q, e) \/ Creating(l, p, c, q, e, k) \/ Created(l, p, c, q, e, k)
  \/ Asking(l, p, c, q, e, k) \/ Reporting(l, p, c, q, e, k)
  \/ Failed(p, c, q, e) \/ Shut(p, c, q, e) \/ Closing(p, q, e) \/ Gone(p, c, q, e)

OpenOK(p, c, e) ==
  (p # None /\ c # None /\ p.state = "connected") =>
    (c.conn = "connected" \/ e = <<Item("dataChannelClose", None)>>)

-----------------------------------------------------------------------------
(* The one answer.  Until it is asked for, the connection has only been    *)
(* given offers; until it is given, only offers come before it.            *)
SetsOffer(x) == x.type = "setRemote" /\ x.arg.type = "offer"
OnlyOffers(ops) == \A i \in 1..Len(ops) : SetsOffer(ops[i])

AnswerAsked(c) ==
  \A i \in 1..Len(c.ops) :
    c.ops[i].type = "createAnswer" =>
      c.signaling = "remoteOffer" /\ \A j \in 1..(i - 1) : SetsOffer(c.ops[j])

Unanswered(p, c, q, e) ==
  /\ p.state = "connecting" /\ OnlyOffers(c.ops) /\ OnlyOffers(q)
  /\ \/ c.signaling = "stable" /\ c.remote = None /\ e \in {<< >>, <<Item("peerCreated", None)>>}
     \/ c.signaling = "remoteOffer" /\ e = <<Item("descriptionSet", TRUE)>>

AnswersOK(p, c, q, e) ==
  c # None =>
    /\ AnswerAsked(c)
    /\ q = <<Item("createAnswer", None)>> => c.signaling = "remoteOffer" /\ OnlyOffers(c.ops)
    /\ (p # None /\ p.direction = "inbound" /\ ~p.answerCreated) => Unanswered(p, c, q, e)

-----------------------------------------------------------------------------
LinkOK(l, p, c, q, e, k) ==
  /\ p # None => PeerOK(p, l)
  /\ c # None => PcOK(c, l, k)
  /\ Exchange(l, p, c, q, e, k)
  /\ OpenOK(p, c, e)
  /\ AnswersOK(p, c, q, e)

MessageOK(msg, k) ==
  /\ msg \in [from : Nodes, to : Nodes, sdp : SdpsTo(k)]
  /\ <<msg.from, msg.to>> \in Links
  /\ Sends(<<msg.from, msg.to>>, msg.sdp)

Tables ==
  /\ made \in Nat
  /\ DOMAIN peer = Links /\ DOMAIN pc = Links /\ DOMAIN cmds = Links /\ DOMAIN events = Links

IInv ==
  /\ Tables
  /\ \A msg \in net : MessageOK(msg, made)
  /\ \A l \in Links : LinkOK(l, peer[l], pc[l], cmds[l], events[l], made)

-----------------------------------------------------------------------------
(* What the theorems assume: the wiring of the hashtree.cc app, keys that  *)
(* can be compared, and that null is neither a record nor a connection.    *)
PlainCalls ==
  /\ Wiring = "sync"
  /\ Nodes \subseteq Nat
  /\ None \notin Peers
  /\ \A l \in Links, k \in Nat : None \notin Pcs(l, k)

(* Queues hold one thing, or two when an offer opens a connection.         *)
LEMMA One ==
  ASSUME NEW x
  PROVE  /\ << >> \o <<x>> = <<x>> /\ <<x>> # << >> /\ << >> \o << >> = << >>
         /\ Len(<<x>>) = 1 /\ <<x>>[1] = x
         /\ Head(<<x>>) = x /\ Tail(<<x>>) = << >>
OBVIOUS

LEMMA Singles ==
  ASSUME NEW x, NEW y, <<x>> = <<y>>
  PROVE  x = y
OBVIOUS

LEMMA OneItem ==
  ASSUME NEW t, NEW x, NEW e, e = <<Item(t, x)>>
  PROVE  Tail(e) = << >> /\ Head(e).type = t /\ Head(e).arg = x
<1>1. Head(e) = Item(t, x) /\ Tail(e) = << >>
  BY One
<1> QED
  BY <1>1 DEF Item

LEMMA Two ==
  ASSUME NEW x, NEW y
  PROVE  /\ << >> \o <<x, y>> = <<x, y>> /\ <<x, y>> # << >>
         /\ Len(<<x, y>>) = 2 /\ <<x, y>>[1] = x /\ <<x, y>>[2] = y
         /\ Head(<<x, y>>) = x /\ Tail(<<x, y>>) = <<y>>
OBVIOUS

LEMMA Links2 ==
  ASSUME NEW l \in Links
  PROVE  l = <<l[1], l[2]>> /\ l[1] \in Nodes /\ l[2] \in Nodes /\ l[1] # l[2]
BY DEF Links

(* The ids in use only grow.                                               *)
LEMMA SdpsGrow ==
  ASSUME NEW k \in Nat, NEW k2 \in Nat, k <= k2
  PROVE  SdpsTo(k) \subseteq SdpsTo(k2)
<1>1. 1..k \subseteq 1..k2
  OBVIOUS
<1> QED
  BY <1>1 DEF SdpsTo

LEMMA OpsGrow ==
  ASSUME NEW l, NEW k \in Nat, NEW k2 \in Nat, k <= k2
  PROVE  Ops(l, k) \subseteq Ops(l, k2)
BY SdpsGrow DEF Ops, Settings, Rollbacks

LEMMA SeqsGrow ==
  ASSUME NEW S, NEW T, S \subseteq T, NEW q \in Seq(S)
  PROVE  q \in Seq(T)
OBVIOUS

LEMMA PcGrows ==
  ASSUME NEW l, NEW k \in Nat, NEW k2 \in Nat, k <= k2, NEW c, PcOK(c, l, k)
  PROVE  PcOK(c, l, k2)
<1>1. SdpsTo(k) \subseteq SdpsTo(k2) /\ 1..k \subseteq 1..k2
  BY SdpsGrow
<1>2. c.ops \in Seq(Ops(l, k2))
  <2>1. c.ops \in Seq(Ops(l, k))
    BY DEF PcOK, Pcs
  <2> QED
    BY <2>1, OpsGrow, SeqsGrow
<1>3. c \in Pcs(l, k2)
  BY <1>1, <1>2 DEF PcOK, Pcs
<1> QED
  BY <1>1, <1>3 DEF PcOK

LEMMA LinkGrows ==
  ASSUME NEW l, NEW p, NEW c, NEW q, NEW e, NEW k \in Nat, NEW k2 \in Nat, k <= k2,
         LinkOK(l, p, c, q, e, k)
  PROVE  LinkOK(l, p, c, q, e, k2)
<1>1. SdpsTo(k) \subseteq SdpsTo(k2)
  BY SdpsGrow
<1>2. c # None => PcOK(c, l, k2)
  BY PcGrows DEF LinkOK
<1>3. Exchange(l, p, c, q, e, k2)
  <2>1. Exchange(l, p, c, q, e, k)
    BY DEF LinkOK
  <2> QED
    BY <1>1, <2>1 DEF Exchange, Creating, Created, Asking, Reporting
<1> QED
  BY <1>2, <1>3 DEF LinkOK

-----------------------------------------------------------------------------
(* Which stage a link is in.                                               *)
LEMMA AtQuiet ==
  ASSUME NEW l, NEW p, NEW c, NEW k, Exchange(l, p, c, << >>, << >>, k)
  PROVE  p = None <=> c = None
BY One, Two DEF Exchange, Idle, Creating, Created, Asking, Reporting, Failed, Shut, Closing, Gone

LEMMA AtEvent ==
  ASSUME NEW l, NEW p, NEW c, NEW q, NEW e, NEW k, Exchange(l, p, c, q, e, k), e # << >>
  PROVE  \/ Created(l, p, c, q, e, k) \/ Reporting(l, p, c, q, e, k)
         \/ Failed(p, c, q, e) \/ Shut(p, c, q, e) \/ Gone(p, c, q, e)
BY DEF Exchange, Idle, Creating, Asking, Closing

LEMMA AtCommand ==
  ASSUME NEW l, NEW p, NEW c, NEW q, NEW e, NEW k, Exchange(l, p, c, q, e, k), q # << >>
  PROVE  \/ Creating(l, p, c, q, e, k) \/ Created(l, p, c, q, e, k)
         \/ Asking(l, p, c, q, e, k) \/ Closing(p, q, e)
BY DEF Exchange, Idle, Reporting, Failed, Shut, Gone

LEMMA OfferLists ==
  /\ OnlyOffers(<< >>)
  /\ \A x : OnlyOffers(<<x>>) <=> SetsOffer(x)
<1>1. OnlyOffers(<< >>)
  <2>1. 1..Len(<< >>) = {}
    OBVIOUS
  <2> QED
    BY <2>1 DEF OnlyOffers
<1>2. ASSUME NEW x PROVE OnlyOffers(<<x>>) <=> SetsOffer(x)
  <2>1. Len(<<x>>) = 1 /\ <<x>>[1] = x /\ 1..1 = {1}
    OBVIOUS
  <2> QED
    BY <2>1 DEF OnlyOffers
<1> QED
  BY <1>1, <1>2

LEMMA Something ==
  ASSUME PlainCalls, NEW l \in Links, NEW k \in Nat
  PROVE  /\ \A c : PcOK(c, l, k) => c # None
         /\ \A p : PeerOK(p, l) => p # None
<1>1. None \notin Pcs(l, k) /\ None \notin Peers
  BY DEF PlainCalls
<1> QED
  BY <1>1 DEF PcOK, PeerOK

(* A new connection is asked nothing yet.                                  *)
LEMMA NewPcOK ==
  ASSUME NEW l, NEW k \in Nat
  PROVE  /\ PcOK(NewPc(k + 1), l, k + 1) /\ AnswerAsked(NewPc(k + 1))
         /\ OnlyOffers(NewPc(k + 1).ops) /\ NewPc(k + 1).signaling = "stable"
         /\ NewPc(k + 1).remote = None
<1>1. << >> \in Seq(Ops(l, k + 1)) /\ Len(<< >>) = 0
  BY EmptySeq
<1>2. k + 1 \in 1..(k + 1)
  OBVIOUS
<1> QED
  BY <1>1, <1>2 DEF PcOK, Pcs, NewPc, AnswerAsked, OnlyOffers

-----------------------------------------------------------------------------
(* The proxy: createPeer, closePeer, and what a connection is asked.       *)
LEMMA CreateLink ==
  ASSUME PlainCalls, NEW l \in Links, NEW p, NEW c, NEW q, NEW e, NEW k \in Nat,
         LinkOK(l, p, c, q, e, k), q # << >>, Head(q).type = "createPeer"
  PROVE  /\ c = None
         /\ LinkOK(l, p, NewPc(k + 1), Tail(q), e \o (<< >> \o <<Item("peerCreated", None)>>), k + 1)
<1>1. Creating(l, p, c, q, e, k)
  <2>1. Exchange(l, p, c, q, e, k)
    BY DEF LinkOK
  <2>2. ~Created(l, p, c, q, e, k)
    BY One DEF Created, Item
  <2>3. ~Asking(l, p, c, q, e, k)
    BY One DEF Asking, Item, Creates
  <2>4. ~Closing(p, q, e)
    BY One DEF Closing, Item
  <2> QED
    BY <2>1, <2>2, <2>3, <2>4, AtCommand
<1> DEFINE d == NewPc(k + 1)
           f == e \o (<< >> \o <<Item("peerCreated", None)>>)
<1>2. c = None /\ p # None /\ p.state = "connecting" /\ ~p.answerCreated
  BY <1>1 DEF Creating
<1>3. f = <<Item("peerCreated", None)>>
  BY <1>1, One DEF Creating
<1>4. d # None
  <2>1. k + 1 \in Nat
    OBVIOUS
  <2> QED
    BY <2>1, NewPcOK, Something
<1>5. \/ Tail(q) = << >> /\ l[1] < l[2]
      \/ \E s \in SdpsTo(k + 1) :
           s.type = "offer" /\ ~(l[1] < l[2]) /\ Tail(q) = <<Item("setRemote", s)>>
  <2>1. CASE q = <<Item("createPeer", None)>> /\ l[1] < l[2]
    BY <2>1, One
  <2>2. ASSUME NEW s \in SdpsTo(k), s.type = "offer", ~(l[1] < l[2]),
               q = <<Item("createPeer", None), Item("setRemote", s)>>
        PROVE  s \in SdpsTo(k + 1) /\ Tail(q) = <<Item("setRemote", s)>>
    BY <2>2, Two, SdpsGrow
  <2> QED
    BY <1>1, <2>1, <2>2 DEF Creating
<1>6. OnlyOffers(Tail(q))
  BY <1>5, OfferLists DEF SetsOffer, Item
<1>7. Exchange(l, p, d, Tail(q), f, k + 1)
  <2>1. Created(l, p, d, Tail(q), f, k + 1)
    BY <1>2, <1>3, <1>4, <1>5 DEF Created
  <2> QED
    BY <2>1 DEF Exchange
<1>8. OpenOK(p, d, f)
  BY <1>2 DEF OpenOK
<1>9. AnswersOK(p, d, Tail(q), f)
  <2>1. Tail(q) # <<Item("createAnswer", None)>>
    BY <1>5, One DEF Item
  <2>2. Unanswered(p, d, Tail(q), f)
    BY <1>2, <1>3, <1>6, NewPcOK DEF Unanswered
  <2> QED
    BY <2>1, <2>2, NewPcOK DEF AnswersOK
<1> QED
  BY <1>2, <1>7, <1>8, <1>9, NewPcOK DEF LinkOK

LEMMA DropLink ==
  ASSUME PlainCalls, NEW l \in Links, NEW p, NEW q, NEW e, NEW k \in Nat,
         LinkOK(l, p, None, q, e, k), q # << >>, Head(q).type # "createPeer"
  PROVE  LinkOK(l, p, None, Tail(q), e, k)
<1>1. Closing(p, q, e)
  <2>1. Exchange(l, p, None, q, e, k)
    BY DEF LinkOK
  <2>2. ~Creating(l, p, None, q, e, k)
    BY One, Two DEF Creating, Item
  <2> QED
    BY <2>1, <2>2, AtCommand DEF Created, Asking
<1>2. Idle(p, None, Tail(q), e)
  BY <1>1, One DEF Closing, Idle
<1> QED
  BY <1>1, <1>2 DEF LinkOK, Exchange, Closing, OpenOK, AnswersOK

LEMMA ClosePcLink ==
  ASSUME PlainCalls, NEW l \in Links, NEW p, NEW c, NEW q, NEW e, NEW k \in Nat,
         LinkOK(l, p, c, q, e, k), c # None, q # << >>, Head(q).type = "closePeer"
  PROVE  LinkOK(l, p, None, Tail(q), e \o <<Item("peerClosed", None)>>, k)
<1>1. Closing(p, q, e)
  <2>1. Exchange(l, p, c, q, e, k)
    BY DEF LinkOK
  <2>2. ~Created(l, p, c, q, e, k)
    BY One DEF Created, Item
  <2>3. ~Asking(l, p, c, q, e, k)
    BY One DEF Asking, Item, Creates
  <2> QED
    BY <2>1, <2>2, <2>3, AtCommand DEF Creating
<1> DEFINE f == e \o <<Item("peerClosed", None)>>
<1>2. Gone(p, None, Tail(q), f)
  BY <1>1, One DEF Closing, Gone
<1> QED
  BY <1>1, <1>2 DEF LinkOK, Exchange, Closing, OpenOK, AnswersOK

(* Which command it can be, when it is neither createPeer nor closePeer.   *)
LEMMA Asked ==
  ASSUME NEW l \in Links, NEW p, NEW c, NEW q, NEW e, NEW k \in Nat,
         Exchange(l, p, c, q, e, k), c # None, q # << >>,
         Head(q).type \notin {"createPeer", "closePeer"}
  PROVE  /\ p # None /\ q = <<Head(q)>> /\ Tail(q) = << >>
         /\ Head(q) = Creates(l) \/ Head(q) \in Settings(k)
         /\ e \in {<< >>, <<Item("peerCreated", None)>>}
<1>1. Created(l, p, c, q, e, k) \/ Asking(l, p, c, q, e, k)
  <2>1. ~Creating(l, p, c, q, e, k)
    BY DEF Creating
  <2>2. ~Closing(p, q, e)
    BY One DEF Closing, Item
  <2> QED
    BY <2>1, <2>2, AtCommand
<1>2. ASSUME NEW s \in SdpsTo(k)
      PROVE  Item("setRemote", s) \in Settings(k) /\ Item("setLocal", s) \in Settings(k)
  BY DEF Settings, Item
<1>3. CASE Created(l, p, c, q, e, k)
  <2>1. PICK s \in SdpsTo(k) : q = <<Item("setRemote", s)>>
    BY <1>3 DEF Created
  <2> QED
    BY <1>2, <1>3, <2>1, One DEF Created
<1>4. CASE Asking(l, p, c, q, e, k)
  <2>1. CASE q = <<Creates(l)>>
    BY <1>4, <2>1, One DEF Asking
  <2>2. ASSUME NEW s \in SdpsTo(k), q = <<Item("setRemote", s)>> \/ q = <<Item("setLocal", s)>>
        PROVE  q = <<Head(q)>> /\ Tail(q) = << >> /\ Head(q) \in Settings(k)
    BY <1>2, <2>2, One
  <2> QED
    BY <1>4, <2>1, <2>2 DEF Asking
<1> QED
  BY <1>1, <1>3, <1>4

LEMMA Appended ==
  ASSUME NEW S, NEW ops \in Seq(S), NEW y \in S
  PROVE  /\ Append(ops, y) \in Seq(S) /\ Len(Append(ops, y)) = Len(ops) + 1
         /\ Len(ops) \in Nat /\ Append(ops, y)[Len(ops) + 1] = y
         /\ \A i \in 1..Len(ops) : Append(ops, y)[i] = ops[i]
BY AppendProperties, LenProperties

LEMMA AskLink ==
  ASSUME PlainCalls, NEW l \in Links, NEW p, NEW c, NEW q, NEW e, NEW k \in Nat,
         LinkOK(l, p, c, q, e, k), c # None, q # << >>,
         Head(q).type \notin {"createPeer", "closePeer"},
         NEW y, NEW rolls \in BOOLEAN,
         rolls <=> /\ Head(q).type = "setRemote" /\ Head(q).arg.type = "offer"
                   /\ c.signaling # "stable",
         y = IF rolls THEN Item("rollback", Head(q).arg) ELSE Head(q)
  PROVE  LinkOK(l, p, [c EXCEPT !.ops = Append(@, y)], Tail(q), e, k)
<1> DEFINE x == Head(q)
           d == [c EXCEPT !.ops = Append(@, y)]
<1>1. /\ p # None /\ q = <<x>> /\ Tail(q) = << >>
      /\ x = Creates(l) \/ x \in Settings(k)
      /\ e \in {<< >>, <<Item("peerCreated", None)>>}
  BY Asked DEF LinkOK
<1>2. y \in Ops(l, k) /\ (y.type = "createAnswer" => x = Item("createAnswer", None))
  BY <1>1 DEF Ops, Creates, Settings, Rollbacks, Item
<1>3. c \in Pcs(l, k) /\ c.ops \in Seq(Ops(l, k)) /\ PcOK(c, l, k)
  BY DEF LinkOK, PcOK, Pcs
<1>4. /\ d.signaling = c.signaling /\ d.remote = c.remote /\ d.local = c.local /\ d.conn = c.conn
      /\ d.ops = Append(c.ops, y) /\ d \in Pcs(l, k)
  <2>1. Append(c.ops, y) \in Seq(Ops(l, k))
    BY <1>2, <1>3, Appended
  <2> QED
    BY <1>3, <2>1 DEF Pcs
<1>5. PcOK(d, l, k) /\ d # None
  <2>1. PcOK(d, l, k)
    BY <1>3, <1>4 DEF PcOK
  <2> QED
    BY <2>1, Something
<1>6. Exchange(l, p, d, << >>, e, k)
  <2>1. CASE e = << >>
    BY <1>1, <1>5, <2>1 DEF Exchange, Idle
  <2>2. CASE e = <<Item("peerCreated", None)>>
    BY <1>1, <1>5, <2>2 DEF Exchange, Created
  <2> QED
    BY <1>1, <2>1, <2>2
<1>7. OpenOK(p, d, e)
  BY <1>4 DEF LinkOK, OpenOK
<1>8. AnswersOK(p, c, q, e)
  BY DEF LinkOK
<1>9. AnswerAsked(d)
  <2> SUFFICES ASSUME NEW i \in 1..(Len(c.ops) + 1), d.ops[i].type = "createAnswer"
               PROVE  d.signaling = "remoteOffer" /\ \A j \in 1..(i - 1) : SetsOffer(d.ops[j])
    BY <1>2, <1>3, <1>4, Appended DEF AnswerAsked
  <2>1. Len(c.ops) \in Nat /\ \A j \in 1..Len(c.ops) : d.ops[j] = c.ops[j]
    BY <1>2, <1>3, <1>4, Appended
  <2>2. CASE i \in 1..Len(c.ops)
    BY <1>4, <1>8, <2>1, <2>2 DEF AnswersOK, AnswerAsked
  <2>3. CASE i = Len(c.ops) + 1
    <3>1. d.ops[i] = y
      BY <1>2, <1>3, <1>4, <2>3, Appended
    <3>2. c.signaling = "remoteOffer" /\ OnlyOffers(c.ops)
      BY <1>1, <1>2, <1>8, <3>1 DEF AnswersOK
    <3> QED
      BY <1>4, <2>1, <2>3, <3>2 DEF OnlyOffers
  <2> QED
    BY <2>1, <2>2, <2>3
<1>10. (p.direction = "inbound" /\ ~p.answerCreated) => Unanswered(p, d, << >>, e)
  <2> SUFFICES ASSUME p.direction = "inbound", ~p.answerCreated
               PROVE  Unanswered(p, d, << >>, e)
    OBVIOUS
  <2>1. Unanswered(p, c, <<x>>, e)
    BY <1>1, <1>8 DEF AnswersOK
  <2>2. c.signaling = "stable" /\ c.remote = None
    BY <1>1, <2>1, One DEF Unanswered, Item
  <2>3. SetsOffer(y)
    BY <2>1, <2>2, OfferLists DEF Unanswered
  <2>4. OnlyOffers(d.ops)
    <3>1. OnlyOffers(c.ops)
      BY <2>1 DEF Unanswered
    <3>2. ASSUME NEW i \in 1..(Len(c.ops) + 1) PROVE SetsOffer(d.ops[i])
      BY <1>2, <1>3, <1>4, <2>3, <3>1, Appended DEF OnlyOffers
    <3> QED
      BY <1>2, <1>3, <1>4, <3>2, Appended DEF OnlyOffers
  <2> QED
    BY <1>1, <1>4, <2>1, <2>2, <2>4, OfferLists DEF Unanswered
<1>11. AnswersOK(p, d, << >>, e)
  BY <1>9, <1>10, One DEF AnswersOK
<1> QED
  BY <1>1, <1>5, <1>6, <1>7, <1>11 DEF LinkOK

-----------------------------------------------------------------------------
(* The controller: each event of handleProxyEvent.                         *)
LEMMA PlainEvents ==
  ASSUME NEW l, NEW p, NEW c, NEW q, NEW e, NEW k, Exchange(l, p, c, q, e, k), e # << >>
  PROVE  /\ Tail(e) = << >>
         /\ p = None => Idle(p, c, q, Tail(e))
         /\ p # None =>
              \/ Head(e).type = "peerCreated" /\ Created(l, p, c, q, e, k)
              \/ Head(e).type = "stateChange" /\ Head(e).arg = "failed" /\ Failed(p, c, q, e)
              \/ /\ Head(e).type \in {"stateChange", "sdpCreated", "descriptionSet"}
                 /\ Head(e).arg # "failed" \/ Head(e).type # "stateChange"
                 /\ Reporting(l, p, c, q, e, k)
              \/ Head(e).type = "dataChannelClose" /\ Shut(p, c, q, e)
<1>1. CASE Created(l, p, c, q, e, k)
  BY <1>1, One DEF Created, Item
<1>2. CASE Reporting(l, p, c, q, e, k)
  <2>1. ASSUME NEW s, e = <<Item("sdpCreated", s)>>
        PROVE  Tail(e) = << >> /\ Head(e).type = "sdpCreated"
    BY <2>1, OneItem
  <2>2. ASSUME NEW b, e = <<Item("descriptionSet", b)>>
        PROVE  Tail(e) = << >> /\ Head(e).type = "descriptionSet"
    BY <2>2, OneItem
  <2>3. ASSUME e = <<Item("stateChange", "connected")>>
        PROVE  Tail(e) = << >> /\ Head(e).type = "stateChange" /\ Head(e).arg = "connected"
    BY <2>3, OneItem
  <2>4. /\ Tail(e) = << >> /\ Head(e).type \in {"stateChange", "sdpCreated", "descriptionSet"}
        /\ Head(e).arg # "failed" \/ Head(e).type # "stateChange"
    BY <1>2, <2>1, <2>2, <2>3 DEF Reporting
  <2>5. p # None
    BY <1>2 DEF Reporting
  <2> QED
    BY <1>2, <2>4, <2>5
<1>3. CASE Failed(p, c, q, e)
  BY <1>3, One DEF Failed, Item
<1>4. CASE Shut(p, c, q, e)
  BY <1>4, One DEF Shut, Item
<1>5. CASE Gone(p, c, q, e)
  BY <1>5, One DEF Gone, Idle
<1> QED
  BY <1>1, <1>2, <1>3, <1>4, <1>5, AtEvent

LEMMA NobodyLink ==
  ASSUME PlainCalls, NEW l \in Links, NEW c, NEW q, NEW e, NEW k \in Nat,
         LinkOK(l, None, c, q, e, k), e # << >>
  PROVE  LinkOK(l, None, c, q, Tail(e), k)
<1>1. Idle(None, c, q, Tail(e))
  BY PlainEvents DEF LinkOK
<1> QED
  BY <1>1 DEF LinkOK, Exchange, Idle, OpenOK, AnswersOK

(* Where a connection still waits to be asked for its answer, the only     *)
(* report is that it holds the offer.                                      *)
LEMMA CreatedLink ==
  ASSUME PlainCalls, NEW l \in Links, NEW p, NEW c, NEW q, NEW e, NEW k \in Nat,
         LinkOK(l, p, c, q, e, k), p # None, e # << >>, Head(e).type = "peerCreated", NEW q2,
         q2 = IF p.direction = "outbound" THEN q \o <<Item("createOffer", None)>> ELSE q
  PROVE  LinkOK(l, p, c, q2, Tail(e), k)
<1>1. Created(l, p, c, q, e, k) /\ Tail(e) = << >>
  BY PlainEvents DEF LinkOK
<1>2. PeerOK(p, l) /\ c # None /\ PcOK(c, l, k)
  BY <1>1 DEF LinkOK, Created
<1>3. AnswersOK(p, c, q, e)
  BY DEF LinkOK
<1>4. OpenOK(p, c, << >>)
  BY <1>1, One DEF LinkOK, OpenOK, Created, Item
<1>5. CASE p.direction = "outbound"
  <2>1. q2 = <<Creates(l)>> /\ Creates(l) = Item("createOffer", None)
    BY <1>1, <1>2, <1>5, One DEF PeerOK, Creates, Created
  <2>2. Asking(l, p, c, q2, << >>, k)
    BY <1>1, <2>1 DEF Asking, Created
  <2>3. AnswersOK(p, c, q2, << >>)
    <3>1. q2 # <<Item("createAnswer", None)>>
      BY <2>1, Singles DEF Item
    <3> QED
      BY <1>3, <1>5, <3>1 DEF AnswersOK
  <2> QED
    BY <1>1, <1>2, <1>4, <2>2, <2>3 DEF LinkOK, Exchange
<1>6. CASE p.direction # "outbound"
  <2>1. Exchange(l, p, c, q, << >>, k)
    <3>1. CASE q = << >>
      BY <1>1, <3>1 DEF Exchange, Idle, Created
    <3>2. CASE q # << >>
      <4>1. Asking(l, p, c, q, << >>, k)
        BY <1>1, <3>2 DEF Asking, Created, Gets
      <4> QED
        BY <4>1 DEF Exchange
    <3> QED
      BY <3>1, <3>2
  <2>2. AnswersOK(p, c, q, << >>)
    <3>1. Unanswered(p, c, q, e) => Unanswered(p, c, q, << >>)
      BY <1>1, One DEF Unanswered, Created, Item
    <3> QED
      BY <1>3, <3>1 DEF AnswersOK
  <2> QED
    BY <1>1, <1>2, <1>4, <1>6, <2>1, <2>2 DEF LinkOK
<1> QED
  BY <1>5, <1>6

LEMMA CloseLink ==
  ASSUME PlainCalls, NEW l \in Links, NEW p, NEW c, NEW q, NEW e, NEW k \in Nat,
         LinkOK(l, p, c, q, e, k), p # None, e # << >>,
         Failed(p, c, q, e) \/ Shut(p, c, q, e)
  PROVE  LinkOK(l, None, c, q \o <<Item("closePeer", None)>>, Tail(e), k)
<1> DEFINE q2 == q \o <<Item("closePeer", None)>>
<1>1. Tail(e) = << >> /\ q2 = <<Item("closePeer", None)>>
  BY PlainEvents, One DEF LinkOK, Failed, Shut
<1>2. Closing(None, q2, << >>)
  BY <1>1 DEF Closing
<1>3. AnswersOK(None, c, q2, << >>)
  BY <1>1, One DEF LinkOK, AnswersOK, Item
<1> QED
  BY <1>1, <1>2, <1>3 DEF LinkOK, Exchange, OpenOK

LEMMA ConnectedLink ==
  ASSUME PlainCalls, NEW l \in Links, NEW p, NEW c, NEW q, NEW e, NEW k \in Nat,
         LinkOK(l, p, c, q, e, k), p # None, e # << >>,
         Head(e).type = "stateChange", Head(e).arg # "failed"
  PROVE  LinkOK(l, [p EXCEPT !.state = "connected"], c, q, Tail(e), k)
<1>1. Reporting(l, p, c, q, e, k) /\ Tail(e) = << >>
  BY PlainEvents DEF LinkOK
<1>2. c.conn = "connected" /\ e = <<Item("stateChange", "connected")>>
  BY <1>1, One DEF Reporting, Item
<1> DEFINE r == [p EXCEPT !.state = "connected"]
<1>3. PeerOK(p, l) /\ PeerOK(r, l) /\ r.direction = p.direction /\ r.answerCreated = p.answerCreated
  BY DEF LinkOK, PeerOK, Peers
<1>4. r # None /\ c # None /\ q = << >>
  BY <1>1, <1>3, Something DEF Reporting
<1>5. Exchange(l, r, c, q, << >>, k)
  BY <1>4 DEF Exchange, Idle
<1>6. AnswersOK(r, c, q, << >>)
  <2>1. ~Unanswered(p, c, q, e)
    BY <1>2, One DEF Unanswered, Item
  <2>2. AnswersOK(p, c, q, e)
    BY DEF LinkOK
  <2> QED
    BY <1>3, <1>4, <2>1, <2>2 DEF AnswersOK
<1> QED
  BY <1>1, <1>2, <1>3, <1>5, <1>6 DEF LinkOK, OpenOK

LEMMA SdpLink ==
  ASSUME PlainCalls, NEW l \in Links, NEW p, NEW c, NEW q, NEW e, NEW k \in Nat,
         LinkOK(l, p, c, q, e, k), p # None, e # << >>, Head(e).type = "sdpCreated"
  PROVE  /\ Head(e).arg \in SdpsTo(k) /\ Sends(l, Head(e).arg)
         /\ LinkOK(l, p, c, q \o <<Item("setLocal", Head(e).arg)>>, Tail(e), k)
<1>1. Reporting(l, p, c, q, e, k) /\ Tail(e) = << >>
  BY PlainEvents DEF LinkOK
<1>2. PICK s \in SdpsTo(k) : e = <<Item("sdpCreated", s)>> /\ Sends(l, s)
  BY <1>1, One DEF Reporting, Item
<1>3. Head(e).arg = s
  BY <1>2, One DEF Item
<1> DEFINE q2 == q \o <<Item("setLocal", s)>>
<1>4. q2 = <<Item("setLocal", s)>>
  BY <1>1, One DEF Reporting
<1>5. Asking(l, p, c, q2, << >>, k)
  BY <1>1, <1>2, <1>4 DEF Asking, Reporting
<1>6. AnswersOK(p, c, q2, << >>)
  <2>1. ~Unanswered(p, c, q, e)
    BY <1>2, One DEF Unanswered, Item
  <2> QED
    BY <1>4, <2>1, One DEF LinkOK, AnswersOK, Item
<1>7. OpenOK(p, c, << >>)
  BY <1>2, One DEF LinkOK, OpenOK, Item
<1> QED
  BY <1>1, <1>2, <1>3, <1>5, <1>6, <1>7 DEF LinkOK, Exchange

LEMMA DescribedLink ==
  ASSUME PlainCalls, NEW l \in Links, NEW p, NEW c, NEW q, NEW e, NEW k \in Nat,
         LinkOK(l, p, c, q, e, k), p # None, e # << >>, Head(e).type = "descriptionSet"
  PROVE  /\ (Head(e).arg /\ AnswerDue(p)) =>
              LinkOK(l, [p EXCEPT !.answerCreated = TRUE], c,
                     q \o <<Item("createAnswer", None)>>, Tail(e), k)
         /\ ~(Head(e).arg /\ AnswerDue(p)) => LinkOK(l, p, c, q, Tail(e), k)
<1>1. Reporting(l, p, c, q, e, k) /\ Tail(e) = << >>
  BY PlainEvents DEF LinkOK
<1>2. PICK b \in BOOLEAN : e = <<Item("descriptionSet", b)>>
  BY <1>1, One DEF Reporting, Item
<1>3. q = << >> /\ c # None /\ PeerOK(p, l) /\ AnswersOK(p, c, q, e) /\ OpenOK(p, c, e)
  BY <1>1 DEF LinkOK, Reporting
<1>4. OpenOK(p, c, << >>)
  BY <1>2, <1>3, One DEF OpenOK, Item
<1>5. ASSUME Head(e).arg, AnswerDue(p)
      PROVE  LinkOK(l, [p EXCEPT !.answerCreated = TRUE], c,
                    q \o <<Item("createAnswer", None)>>, Tail(e), k)
  <2> DEFINE r == [p EXCEPT !.answerCreated = TRUE]
             q2 == q \o <<Item("createAnswer", None)>>
  <2>1. PeerOK(r, l) /\ r.direction = p.direction /\ r.answerCreated /\ r.state = p.state
    BY <1>3 DEF PeerOK, Peers
  <2>2. r # None
    BY <2>1, Something
  <2>3. q2 = <<Creates(l)>> /\ Creates(l) = Item("createAnswer", None)
    BY <1>3, <1>5, One DEF AnswerDue, PeerOK, Creates
  <2>4. Asking(l, r, c, q2, << >>, k)
    BY <1>3, <2>2, <2>3 DEF Asking
  <2>5. AnswersOK(r, c, q2, << >>)
    <3>1. c.signaling = "remoteOffer" /\ OnlyOffers(c.ops) /\ AnswerAsked(c)
      BY <1>2, <1>3, <1>5, One DEF AnswersOK, Unanswered, AnswerDue, Item
    <3> QED
      BY <2>1, <3>1 DEF AnswersOK
  <2>6. OpenOK(r, c, << >>)
    BY <1>4, <2>1 DEF OpenOK
  <2> QED
    BY <1>1, <2>1, <2>4, <2>5, <2>6 DEF LinkOK, Exchange
<1>6. ASSUME ~(Head(e).arg /\ AnswerDue(p))
      PROVE  LinkOK(l, p, c, q, Tail(e), k)
  <2>1. Idle(p, c, q, << >>)
    BY <1>3 DEF Idle
  <2>2. AnswersOK(p, c, q, << >>)
    <3>1. ~(p.direction = "inbound" /\ ~p.answerCreated)
      BY <1>2, <1>3, <1>6, One DEF AnswersOK, Unanswered, AnswerDue, Item
    <3> QED
      BY <1>3, <3>1 DEF AnswersOK
  <2> QED
    BY <1>1, <1>4, <2>1, <2>2 DEF LinkOK, Exchange
<1> QED
  BY <1>5, <1>6

-----------------------------------------------------------------------------
(* The browser: what an operation leaves and reports.                      *)
OpReports(l, reports, k) ==
  \/ reports = << >>
  \/ \E s \in SdpsTo(k) : reports = <<Item("sdpCreated", s)>> /\ Sends(l, s)
  \/ \E b \in BOOLEAN : reports = <<Item("descriptionSet", b)>>

OpDone(l, c, d, reports, k) ==
  /\ PcOK(d, l, k) /\ d.conn = c.conn
  /\ \/ d.ops = Tail(c.ops)
     \/ \E s \in SdpsTo(k) : d.ops = Append(Tail(c.ops), Item("setRemote", s))
  /\ OpReports(l, reports, k)
  /\ SetsOffer(Head(c.ops)) =>
       /\ d.signaling = "remoteOffer" /\ d.ops = Tail(c.ops)
       /\ reports = <<Item("descriptionSet", TRUE)>>

LEMMA Describes ==
  ASSUME NEW l, NEW k, NEW b \in BOOLEAN
  PROVE  OpReports(l, <<Item("descriptionSet", b)>>, k)
BY DEF OpReports

LEMMA Parts ==
  ASSUME NEW d, NEW y, NEW r, r = [pc |-> d, reports |-> y]
  PROVE  r.pc = d /\ r.reports = y
OBVIOUS

LEMMA Finishes ==
  ASSUME NEW l, NEW k, NEW c, NEW r, PcOK(r.pc, l, k), r.pc.conn = c.conn,
         r.pc.ops = Tail(c.ops), OpReports(l, r.reports, k), ~SetsOffer(Head(c.ops))
  PROVE  OpDone(l, c, r.pc, r.reports, k)
BY DEF OpDone

LEMMA OpLink ==
  ASSUME NEW l \in Links, NEW k \in Nat, NEW c, PcOK(c, l, k), c.ops # << >>,
         NEW r, r = OpResult(c, Head(c.ops))
  PROVE  OpDone(l, c, r.pc, r.reports, k)
<1> DEFINE o == Head(c.ops)
           Rest(d) == [d EXCEPT !.ops = Tail(@)]
           Done(d) == [pc |-> Rest(d), reports |-> <<Item("descriptionSet", TRUE)>>]
           Refused == [pc |-> Rest(c), reports |-> <<Item("descriptionSet", FALSE)>>]
<1>1. /\ o \in Ops(l, k) /\ Tail(c.ops) \in Seq(Ops(l, k)) /\ c \in Pcs(l, k)
  BY HeadTailProperties DEF PcOK, Pcs
<1>2. ASSUME NEW d, PcOK(d, l, k), d.ops = c.ops
      PROVE  PcOK(Rest(d), l, k) /\ Rest(d).ops = Tail(c.ops) /\ Rest(d).conn = d.conn
                /\ Rest(d).signaling = d.signaling
  BY <1>1, <1>2 DEF PcOK, Pcs
<1>0. PcOK(Rest(c), l, k) /\ Rest(c).ops = Tail(c.ops) /\ Rest(c).conn = c.conn
  BY <1>2
<1>3. ASSUME r = Refused, ~SetsOffer(o)
      PROVE  OpDone(l, c, r.pc, r.reports, k)
  <2> HIDE DEF Rest
  <2>0. r = [pc |-> Rest(c), reports |-> <<Item("descriptionSet", FALSE)>>]
    BY ONLY <1>3
  <2>1. r.pc = Rest(c) /\ r.reports = <<Item("descriptionSet", FALSE)>>
    BY ONLY <2>0, Parts
  <2>2. OpReports(l, r.reports, k)
    BY <2>1, Describes
  <2> QED
    BY <1>0, <1>3, <2>1, <2>2, Finishes
<1>4. ASSUME NEW d, PcOK(d, l, k), d.ops = c.ops, d.conn = c.conn, r = Done(d),
             SetsOffer(o) => d.signaling = "remoteOffer"
      PROVE  OpDone(l, c, r.pc, r.reports, k)
  <2> HIDE DEF Rest
  <2>0. r = [pc |-> Rest(d), reports |-> <<Item("descriptionSet", TRUE)>>]
    BY ONLY <1>4
  <2>1. r.pc = Rest(d) /\ r.reports = <<Item("descriptionSet", TRUE)>>
    BY ONLY <2>0, Parts
  <2>2. OpReports(l, r.reports, k)
    BY <2>1, Describes
  <2>3. /\ PcOK(r.pc, l, k) /\ r.pc.ops = Tail(c.ops) /\ r.pc.conn = c.conn
        /\ r.pc.signaling = d.signaling
    BY <1>2, <1>4, <2>1
  <2> QED
    BY <1>4, <2>1, <2>2, <2>3 DEF OpDone
<1>5. CASE o.type = "createOffer"
  <2>1. r = [pc |-> Rest(c), reports |-> <<Item("sdpCreated", Offer(c.id))>>]
    BY <1>5 DEF OpResult
  <2>2. Offer(c.id) \in SdpsTo(k) /\ Sends(l, Offer(c.id))
    BY <1>1, <1>5 DEF Pcs, SdpsTo, Offer, Ops, Creates, Settings, Rollbacks, Item, Sends
  <2>3. OpReports(l, r.reports, k)
    BY <2>1, <2>2 DEF OpReports
  <2> QED
    BY <1>0, <1>5, <2>1, <2>3, Finishes DEF SetsOffer
<1>6. CASE o.type = "createAnswer"
  <2>1. CASE c.signaling = "remoteOffer"
    <3>1. r = [pc |-> Rest(c), reports |-> <<Item("sdpCreated", Answer(c.id, c.remote))>>]
      BY <1>6, <2>1 DEF OpResult
    <3>2. Answer(c.id, c.remote) \in SdpsTo(k)
      BY <1>1, <2>1 DEF PcOK, Pcs, SdpsTo, Answer
    <3>3. Sends(l, Answer(c.id, c.remote))
      BY <1>1, <1>6 DEF Answer, Ops, Creates, Settings, Rollbacks, Item, Sends
    <3>4. OpReports(l, r.reports, k)
      BY <3>1, <3>2, <3>3 DEF OpReports
    <3> QED
      BY <1>0, <1>6, <3>1, <3>4, Finishes DEF SetsOffer
  <2>2. CASE c.signaling # "remoteOffer"
    <3>1. r = [pc |-> Rest(c), reports |-> << >>]
      BY <1>6, <2>2 DEF OpResult
    <3> QED
      BY <1>0, <1>6, <3>1, Finishes DEF OpReports, SetsOffer
  <2> QED
    BY <2>1, <2>2
<1>7. CASE o.type = "setLocal"
  <2>1. o.arg \in SdpsTo(k) /\ o.arg.type \in {"offer", "answer"} /\ ~SetsOffer(o)
    BY <1>1, <1>7 DEF Ops, Creates, Settings, Rollbacks, Item, SdpsTo, SetsOffer
  <2>2. CASE o.arg.type = "offer" /\ c.signaling # "remoteOffer"
    <3> DEFINE d == [c EXCEPT !.signaling = "localOffer", !.local = o.arg]
    <3>1. r = Done(d)
      BY <1>7, <2>2 DEF OpResult
    <3>2. PcOK(d, l, k) /\ d.ops = c.ops /\ d.conn = c.conn
      BY <1>1, <2>1, <2>2 DEF PcOK, Pcs
    <3> QED
      BY <1>4, <2>1, <3>1, <3>2
  <2>3. CASE o.arg.type = "answer" /\ c.signaling = "remoteOffer"
    <3> DEFINE d == [c EXCEPT !.signaling = "stable", !.local = o.arg]
    <3>1. r = Done(d)
      BY <1>7, <2>3 DEF OpResult
    <3>2. PcOK(d, l, k) /\ d.ops = c.ops /\ d.conn = c.conn
      BY <1>1, <2>1, <2>3 DEF PcOK, Pcs
    <3> QED
      BY <1>4, <2>1, <3>1, <3>2
  <2>4. CASE \/ o.arg.type = "offer" /\ c.signaling = "remoteOffer"
             \/ o.arg.type = "answer" /\ c.signaling # "remoteOffer"
    <3>1. r = Refused
      BY <1>7, <2>4 DEF OpResult
    <3> QED
      BY <1>3, <2>1, <3>1
  <2> QED
    BY <2>1, <2>2, <2>3, <2>4
<1>8. CASE o.type = "rollback"
  <2>1. CASE c.signaling # "stable"
    <3> DEFINE y == Item("setRemote", o.arg)
               w == [c EXCEPT !.signaling = "stable", !.local = None, !.ops = Append(@, y)]
               d == Rest(w)
    <3>1. r = [pc |-> d, reports |-> << >>]
      BY <1>8, <2>1 DEF OpResult
    <3>2. y \in Ops(l, k) /\ o.arg \in SdpsTo(k)
      BY <1>1, <1>8 DEF Ops, Creates, Settings, Rollbacks, Item
    <3>3. d.ops = Append(Tail(c.ops), y) /\ d.ops \in Seq(Ops(l, k))
      <4>1. d.ops = Tail(Append(c.ops, y))
        BY <1>1 DEF Pcs
      <4>2. c.ops \in Seq(Ops(l, k))
        BY <1>1 DEF Pcs
      <4> QED
        BY <1>1, <3>2, <4>1, <4>2, HeadTailAppend, AppendProperties
    <3>4. d.signaling = "stable" /\ d.conn = c.conn /\ PcOK(d, l, k)
      BY <1>1, <3>3 DEF PcOK, Pcs
    <3> QED
      <4>1. r.pc = d /\ OpReports(l, r.reports, k) /\ ~SetsOffer(o)
        BY <1>8, <3>1 DEF OpReports, SetsOffer
      <4>2. \E s \in SdpsTo(k) : d.ops = Append(Tail(c.ops), Item("setRemote", s))
        BY <3>2, <3>3
      <4> HIDE DEF d
      <4> QED
        BY <3>4, <4>1, <4>2 DEF OpDone
  <2>2. CASE c.signaling = "stable"
    <3>1. r = Refused
      BY <1>8, <2>2 DEF OpResult
    <3> QED
      BY <1>3, <1>8, <3>1 DEF SetsOffer
  <2> QED
    BY <2>1, <2>2
<1>9. CASE o.type = "setRemote"
  <2>1. o.arg \in SdpsTo(k)
    BY <1>1, <1>9 DEF Ops, Creates, Settings, Rollbacks, Item
  <2>2. CASE o.arg.type = "offer"
    <3> DEFINE d == [c EXCEPT !.signaling = "remoteOffer", !.remote = o.arg]
    <3>1. r = Done(d)
      BY <1>9, <2>2 DEF OpResult
    <3>2. PcOK(d, l, k) /\ d.ops = c.ops /\ d.conn = c.conn /\ d.signaling = "remoteOffer"
      BY <1>1, <2>1, <2>2 DEF PcOK, Pcs
    <3> QED
      BY <1>4, <3>1, <3>2
  <2>3. CASE o.arg.type # "offer" /\ c.signaling = "localOffer"
    <3> DEFINE d == [c EXCEPT !.signaling = "stable", !.remote = o.arg]
    <3>1. r = Done(d)
      BY <1>9, <2>3 DEF OpResult
    <3>2. PcOK(d, l, k) /\ d.ops = c.ops /\ d.conn = c.conn
      BY <1>1, <2>1, <2>3 DEF PcOK, Pcs
    <3> QED
      BY <1>4, <2>3, <3>1, <3>2 DEF SetsOffer
  <2>4. CASE o.arg.type # "offer" /\ c.signaling # "localOffer"
    <3>1. r = Refused
      BY <1>9, <2>4 DEF OpResult
    <3> QED
      BY <1>3, <2>4, <3>1 DEF SetsOffer
  <2> QED
    BY <2>2, <2>3, <2>4
<1> QED
  <2>1. o.type \in {"createOffer", "createAnswer", "setLocal", "setRemote", "rollback"}
    BY <1>1 DEF Ops, Creates, Settings, Rollbacks, Item
  <2> QED
    BY <1>5, <1>6, <1>7, <1>8, <1>9, <2>1

LEMMA Tails ==
  ASSUME NEW S, NEW ops \in Seq(S), ops # << >>
  PROVE  /\ Len(ops) \in Nat \ {0} /\ Head(ops) = ops[1]
         /\ Tail(ops) \in Seq(S) /\ Len(Tail(ops)) = Len(ops) - 1
         /\ \A i \in 1..Len(Tail(ops)) : Tail(ops)[i] = ops[i + 1]
BY HeadTailProperties, EmptySeq, LenProperties

LEMMA OperateLink ==
  ASSUME PlainCalls, NEW l \in Links, NEW p, NEW c, NEW k \in Nat,
         LinkOK(l, p, c, << >>, << >>, k), c # None, c.ops # << >>,
         NEW r, r = OpResult(c, Head(c.ops))
  PROVE  LinkOK(l, p, r.pc, << >>, << >> \o r.reports, k)
<1>1. PcOK(c, l, k) /\ c.ops \in Seq(Ops(l, k)) /\ p # None
  BY AtQuiet DEF LinkOK, PcOK, Pcs
<1>2. PICK d, reports : d = r.pc /\ reports = r.reports
  OBVIOUS
<1>3. OpDone(l, c, d, reports, k)
  BY <1>1, <1>2, OpLink
<1>4. PcOK(d, l, k) /\ d # None /\ d.conn = c.conn
  BY <1>3, Something DEF OpDone
<1>5. << >> \o reports = reports
  BY <1>3, One DEF OpDone, OpReports
<1>6. Exchange(l, p, d, << >>, reports, k)
  <2>1. CASE reports = << >>
    BY <1>1, <1>4, <2>1 DEF Exchange, Idle
  <2>2. CASE reports # << >>
    <3>1. Reporting(l, p, d, << >>, reports, k)
      BY <1>1, <1>3, <1>4, <2>2 DEF OpDone, OpReports, Reporting
    <3> QED
      BY <3>1 DEF Exchange
  <2> QED
    BY <2>1, <2>2
<1>7. OpenOK(p, d, reports)
  <2>1. OpenOK(p, c, << >>) /\ << >> # <<Item("dataChannelClose", None)>>
    BY One DEF LinkOK
  <2> QED
    BY <1>1, <1>4, <2>1 DEF OpenOK
<1>8. AnswersOK(p, c, << >>, << >>) /\ AnswerAsked(c)
  BY DEF LinkOK, AnswersOK
<1>9. /\ Len(c.ops) \in Nat \ {0} /\ Head(c.ops) = c.ops[1]
      /\ Tail(c.ops) \in Seq(Ops(l, k)) /\ Len(Tail(c.ops)) = Len(c.ops) - 1
      /\ \A i \in 1..Len(Tail(c.ops)) : Tail(c.ops)[i] = c.ops[i + 1]
  BY <1>1, Tails
<1>10. AnswerAsked(d)
  <2> SUFFICES ASSUME NEW i \in 1..Len(d.ops), d.ops[i].type = "createAnswer"
               PROVE  d.signaling = "remoteOffer" /\ \A j \in 1..(i - 1) : SetsOffer(d.ops[j])
    BY DEF AnswerAsked
  <2>1. i \in 1..Len(Tail(c.ops)) /\ d.ops[i] = Tail(c.ops)[i]
    <3>1. CASE d.ops = Tail(c.ops)
      BY <3>1
    <3>2. ASSUME NEW s \in SdpsTo(k), d.ops = Append(Tail(c.ops), Item("setRemote", s))
          PROVE  i \in 1..Len(Tail(c.ops)) /\ d.ops[i] = Tail(c.ops)[i]
      <4>1. Item("setRemote", s) \in Ops(l, k)
        BY DEF Item, Ops, Settings
      <4>2. /\ Len(d.ops) = Len(Tail(c.ops)) + 1 /\ Len(Tail(c.ops)) \in Nat
            /\ d.ops[Len(Tail(c.ops)) + 1] = Item("setRemote", s)
            /\ \A j \in 1..Len(Tail(c.ops)) : d.ops[j] = Tail(c.ops)[j]
        BY <1>9, <3>2, <4>1, Appended
      <4>3. i # Len(Tail(c.ops)) + 1
        BY <4>2 DEF Item
      <4> QED
        BY <4>2, <4>3
    <3> QED
      BY <1>3, <3>1, <3>2 DEF OpDone
  <2>2. i + 1 \in 1..Len(c.ops) /\ c.ops[i + 1].type = "createAnswer" /\ 1 \in 1..((i + 1) - 1)
    BY <1>9, <2>1
  <2>3. \A j \in 1..((i + 1) - 1) : SetsOffer(c.ops[j])
    BY <1>8, <2>2 DEF AnswerAsked
  <2>4. d.signaling = "remoteOffer" /\ d.ops = Tail(c.ops)
    BY <1>3, <1>9, <2>2, <2>3 DEF OpDone
  <2>5. ASSUME NEW j \in 1..(i - 1) PROVE SetsOffer(d.ops[j])
    <3>1. j \in 1..Len(Tail(c.ops)) /\ j + 1 \in 1..((i + 1) - 1)
      BY <2>1, <1>9
    <3> QED
      BY <1>9, <2>3, <2>4, <3>1
  <2> QED
    BY <2>4, <2>5
<1>11. (p.direction = "inbound" /\ ~p.answerCreated) => Unanswered(p, d, << >>, reports)
  <2> SUFFICES ASSUME p.direction = "inbound", ~p.answerCreated
               PROVE  Unanswered(p, d, << >>, reports)
    OBVIOUS
  <2>1. Unanswered(p, c, << >>, << >>)
    BY <1>1, <1>8 DEF AnswersOK
  <2>2. OnlyOffers(c.ops) /\ p.state = "connecting"
    BY <2>1 DEF Unanswered
  <2>3. SetsOffer(Head(c.ops))
    BY <1>9, <2>2 DEF OnlyOffers
  <2>4. /\ d.signaling = "remoteOffer" /\ d.ops = Tail(c.ops)
        /\ reports = <<Item("descriptionSet", TRUE)>>
    BY <1>3, <2>3 DEF OpDone
  <2>5. OnlyOffers(d.ops)
    <3>1. ASSUME NEW i \in 1..Len(Tail(c.ops)) PROVE SetsOffer(Tail(c.ops)[i])
      BY <1>9, <2>2 DEF OnlyOffers
    <3> QED
      BY <2>4, <3>1 DEF OnlyOffers
  <2> QED
    BY <2>2, <2>4, <2>5, OfferLists DEF Unanswered
<1>12. AnswersOK(p, d, << >>, reports)
  BY <1>10, <1>11, One DEF AnswersOK
<1> QED
  BY <1>2, <1>4, <1>5, <1>6, <1>7, <1>12 DEF LinkOK

-----------------------------------------------------------------------------
(* A quiet link's connection opens, fails or is closed.  None of it comes  *)
(* before the answer: there is no other side's description yet.            *)
LEMMA Answered ==
  ASSUME NEW l \in Links, NEW p, NEW c, NEW k \in Nat,
         LinkOK(l, p, c, << >>, << >>, k), c # None, c.remote # None
  PROVE  /\ p # None /\ PcOK(c, l, k) /\ PeerOK(p, l)
         /\ ~(p.direction = "inbound" /\ ~p.answerCreated) /\ AnswerAsked(c)
<1>1. p # None /\ PcOK(c, l, k) /\ PeerOK(p, l) /\ AnswersOK(p, c, << >>, << >>)
  BY AtQuiet DEF LinkOK
<1>2. ~Unanswered(p, c, << >>, << >>)
  BY One DEF Unanswered
<1> QED
  BY <1>1, <1>2 DEF AnswersOK

LEMMA ConnLink ==
  ASSUME PlainCalls, NEW l \in Links, NEW p, NEW c, NEW k \in Nat,
         LinkOK(l, p, c, << >>, << >>, k), c # None, c.remote # None,
         NEW conn, NEW item,
         \/ conn = "connected" /\ item = Item("stateChange", "connected")
         \/ conn = "closed" /\ item = Item("dataChannelClose", None)
  PROVE  LinkOK(l, p, [c EXCEPT !.conn = conn], << >>, << >> \o <<item>>, k)
<1> DEFINE d == [c EXCEPT !.conn = conn]
<1>1. /\ p # None /\ PcOK(c, l, k) /\ PeerOK(p, l) /\ AnswerAsked(c)
      /\ ~(p.direction = "inbound" /\ ~p.answerCreated)
  BY Answered
<1>2. PcOK(d, l, k) /\ d.ops = c.ops /\ d.signaling = c.signaling /\ d.conn = conn
  BY <1>1 DEF PcOK, Pcs
<1>3. d # None
  BY <1>2, Something
<1>4. << >> \o <<item>> = <<item>>
  BY One
<1>5. Exchange(l, p, d, << >>, <<item>>, k) /\ OpenOK(p, d, <<item>>)
  <2>1. CASE conn = "connected" /\ item = Item("stateChange", "connected")
    BY <1>1, <1>2, <1>3, <2>1 DEF Exchange, Reporting, OpenOK
  <2>2. CASE conn = "closed" /\ item = Item("dataChannelClose", None)
    BY <1>1, <1>2, <1>3, <2>2 DEF Exchange, Shut, OpenOK
  <2> QED
    BY <2>1, <2>2
<1>6. AnswersOK(p, d, << >>, <<item>>)
  <2>1. AnswerAsked(d)
    BY <1>1, <1>2 DEF AnswerAsked
  <2> QED
    BY <1>1, <2>1, One DEF AnswersOK
<1>7. LinkOK(l, p, d, << >>, <<item>>, k)
  <2> HIDE DEF d
  <2> QED
    BY <1>1, <1>2, <1>5, <1>6 DEF LinkOK
<1> QED
  BY <1>4, <1>7

LEMMA FailLink ==
  ASSUME PlainCalls, NEW l \in Links, NEW p, NEW c, NEW k \in Nat,
         LinkOK(l, p, c, << >>, << >>, k), c # None, c.remote # None
  PROVE  LinkOK(l, p, None, << >>, << >> \o <<Item("stateChange", "failed")>>, k)
<1> DEFINE e == <<Item("stateChange", "failed")>>
<1>1. p # None /\ PeerOK(p, l)
  BY Answered
<1>2. Failed(p, None, << >>, e) /\ << >> \o e = e
  BY <1>1, One DEF Failed
<1> QED
  BY <1>1, <1>2 DEF LinkOK, Exchange, OpenOK, AnswersOK

-----------------------------------------------------------------------------
(* A quiet link takes a hello, an offer or an answer.                      *)
LEMMA HelloLink ==
  ASSUME PlainCalls, NEW l \in Links, NEW c, NEW k \in Nat,
         LinkOK(l, None, c, << >>, << >>, k), l[1] < l[2]
  PROVE  LinkOK(l, NewPeer("outbound"), c, << >> \o <<Item("createPeer", None)>>, << >>, k)
<1> DEFINE p == NewPeer("outbound")
<1>1. c = None
  BY AtQuiet DEF LinkOK
<1>2. PeerOK(p, l) /\ p.state = "connecting" /\ ~p.answerCreated
  BY DEF PeerOK, Peers, NewPeer
<1>3. p # None
  BY <1>2, Something
<1>4. << >> \o <<Item("createPeer", None)>> = <<Item("createPeer", None)>>
  BY One
<1>5. Creating(l, p, c, <<Item("createPeer", None)>>, << >>, k)
  BY <1>1, <1>2, <1>3 DEF Creating
<1>6. LinkOK(l, p, c, <<Item("createPeer", None)>>, << >>, k)
  <2> HIDE DEF p
  <2> QED
    BY <1>1, <1>2, <1>5 DEF LinkOK, Exchange, OpenOK, AnswersOK
<1> QED
  BY <1>4, <1>6

LEMMA NewOfferLink ==
  ASSUME PlainCalls, NEW l \in Links, NEW c, NEW k \in Nat, NEW s \in SdpsTo(k),
         LinkOK(l, None, c, << >>, << >>, k), ~(l[1] < l[2]), s.type = "offer"
  PROVE  LinkOK(l, NewPeer("inbound"), c,
                << >> \o <<Item("createPeer", None), Item("setRemote", s)>>, << >>, k)
<1> DEFINE p == NewPeer("inbound")
           q == <<Item("createPeer", None), Item("setRemote", s)>>
<1>1. c = None
  BY AtQuiet DEF LinkOK
<1>2. PeerOK(p, l) /\ p.state = "connecting" /\ ~p.answerCreated
  BY DEF PeerOK, Peers, NewPeer
<1>3. p # None
  BY <1>2, Something
<1>4. << >> \o q = q
  BY Two
<1>5. Creating(l, p, c, q, << >>, k)
  BY <1>1, <1>2, <1>3 DEF Creating
<1>6. LinkOK(l, p, c, q, << >>, k)
  <2> HIDE DEF p, q
  <2> QED
    BY <1>1, <1>2, <1>5 DEF LinkOK, Exchange, OpenOK, AnswersOK
<1> QED
  BY <1>4, <1>6

LEMMA RemoteLink ==
  ASSUME PlainCalls, NEW l \in Links, NEW p, NEW c, NEW k \in Nat, NEW s \in SdpsTo(k),
         LinkOK(l, p, c, << >>, << >>, k), p # None, Gets(l, s)
  PROVE  LinkOK(l, p, c, << >> \o <<Item("setRemote", s)>>, << >>, k)
<1> DEFINE q == <<Item("setRemote", s)>>
<1>1. c # None /\ PeerOK(p, l) /\ AnswersOK(p, c, << >>, << >>)
  BY AtQuiet DEF LinkOK
<1>2. << >> \o q = q
  BY One
<1>3. Asking(l, p, c, q, << >>, k)
  BY <1>1 DEF Asking
<1>4. AnswersOK(p, c, q, << >>)
  <2>1. q # <<Item("createAnswer", None)>>
    BY Singles DEF Item
  <2>2. p.direction = "inbound" => OnlyOffers(q)
    BY <1>1, OfferLists DEF PeerOK, Gets, SetsOffer, Item
  <2> HIDE DEF q
  <2> QED
    BY <1>1, <2>1, <2>2 DEF AnswersOK, Unanswered
<1>5. LinkOK(l, p, c, q, << >>, k)
  <2> HIDE DEF q
  <2> QED
    BY <1>1, <1>3, <1>4 DEF LinkOK, Exchange
<1> QED
  BY <1>2, <1>5

-----------------------------------------------------------------------------
(* A step of one link leaves the others alone.                             *)
Only(g, f, l, v) == DOMAIN g = Links /\ g[l] = v /\ \A m \in Links \ {l} : g[m] = f[m]

LEMMA Changed ==
  ASSUME NEW f, DOMAIN f = Links, NEW l \in Links, NEW v
  PROVE  Only([f EXCEPT ![l] = v], f, l, v) /\ Only(f, f, l, f[l])
BY DEF Only

LEMMA Frame ==
  ASSUME IInv, NEW l \in Links, NEW p, NEW c, NEW q, NEW e,
         Only(peer', peer, l, p), Only(pc', pc, l, c),
         Only(cmds', cmds, l, q), Only(events', events, l, e),
         made' \in Nat, made <= made', \A msg \in net' : MessageOK(msg, made'),
         LinkOK(l, p, c, q, e, made')
  PROVE  IInv'
<1>1. Tables'
  BY DEF Tables, Only
<1>2. ASSUME NEW m \in Links
      PROVE  LinkOK(m, peer'[m], pc'[m], cmds'[m], events'[m], made')
  <2>1. CASE m = l
    BY <2>1 DEF Only
  <2>2. CASE m # l
    <3>1. LinkOK(m, peer[m], pc[m], cmds[m], events[m], made) /\ made \in Nat
      BY DEF IInv, Tables
    <3>2. LinkOK(m, peer[m], pc[m], cmds[m], events[m], made')
      BY <3>1, LinkGrows
    <3> QED
      BY <2>2, <3>2 DEF Only
  <2> QED
    BY <2>1, <2>2
<1> QED
  BY <1>1, <1>2 DEF IInv

LEMMA MessagesKept ==
  ASSUME IInv, NEW k \in Nat, made <= k
  PROVE  \A msg \in net : MessageOK(msg, k)
<1>1. made \in Nat /\ SdpsTo(made) \subseteq SdpsTo(k)
  BY SdpsGrow DEF IInv, Tables
<1> QED
  BY <1>1 DEF IInv, MessageOK

LEMMA Held ==
  ASSUME IInv, NEW l \in Links
  PROVE  /\ made \in Nat /\ LinkOK(l, peer[l], pc[l], cmds[l], events[l], made)
         /\ DOMAIN peer = Links /\ DOMAIN pc = Links
         /\ DOMAIN cmds = Links /\ DOMAIN events = Links
BY DEF IInv, Tables

LEMMA Hushed ==
  ASSUME PlainCalls, NEW n, NEW m, <<n, m>> \in Links, Quiet(n)
  PROVE  cmds[<<n, m>>] = << >> /\ events[<<n, m>>] = << >>
<1>1. m \in Nodes \ {n}
  BY DEF Links
<1> QED
  BY <1>1 DEF Quiet, PlainCalls

-----------------------------------------------------------------------------
(* Every step keeps the invariant.                                         *)
LEMMA HelloKeeps ==
  ASSUME PlainCalls, IInv, NEW n, NEW m, <<n, m>> \in Links, HandleHello(n, m)
  PROVE  IInv'
<1> DEFINE l == <<n, m>>
<1>1. cmds[l] = << >> /\ events[l] = << >> /\ peer[l] = None /\ l[1] < l[2]
  BY Hushed DEF HandleHello, Initiates
<1>2. /\ made \in Nat /\ LinkOK(l, None, pc[l], << >>, << >>, made)
      /\ DOMAIN peer = Links /\ DOMAIN pc = Links
      /\ DOMAIN cmds = Links /\ DOMAIN events = Links
  BY <1>1, Held
<1>3. LinkOK(l, NewPeer("outbound"), pc[l], << >> \o <<Item("createPeer", None)>>, << >>, made)
  BY <1>1, <1>2, HelloLink
<1>4. /\ Only(peer', peer, l, NewPeer("outbound"))
      /\ Only(pc', pc, l, pc[l])
      /\ Only(cmds', cmds, l, << >> \o <<Item("createPeer", None)>>)
      /\ Only(events', events, l, << >>)
  BY <1>1, <1>2, Changed DEF HandleHello, Commands
<1>5. made' = made /\ net' = net
  BY DEF HandleHello
<1> QED
  BY <1>2, <1>3, <1>4, <1>5, Frame, MessagesKept

LEMMA ReceiveKeeps ==
  ASSUME PlainCalls, IInv, NEW msg \in net, Receive(msg)
  PROVE  IInv'
<1> DEFINE n == msg.to
           m == msg.from
           l == <<n, m>>
           s == msg.sdp
<1>1. MessageOK(msg, made)
  BY DEF IInv
<1>2. PICK lk \in Links : lk = l
  BY <1>1 DEF MessageOK, Links
<1>3. s \in SdpsTo(made) /\ Gets(lk, s) /\ (s.type = "offer" <=> ~(lk[1] < lk[2]))
  <2>1. n \in Nat /\ m \in Nat /\ n # m
    BY <1>1 DEF MessageOK, Links, PlainCalls
  <2>2. s.type = IF m < n THEN "offer" ELSE "answer"
    BY <1>1 DEF MessageOK, Sends
  <2> QED
    BY <1>1, <1>2, <2>1, <2>2 DEF MessageOK, Gets
<1>4. cmds[lk] = << >> /\ events[lk] = << >>
  BY <1>2, Hushed DEF Receive
<1>5. /\ made \in Nat /\ LinkOK(lk, peer[lk], pc[lk], << >>, << >>, made)
      /\ DOMAIN peer = Links /\ DOMAIN pc = Links
      /\ DOMAIN cmds = Links /\ DOMAIN events = Links
  BY <1>4, Held
<1>6. made' = made /\ (\A x \in net' : MessageOK(x, made'))
      /\ Only(pc', pc, lk, pc[lk]) /\ Only(events', events, lk, << >>)
  <2>1. net' \subseteq net /\ made' = made /\ pc' = pc /\ events' = events
    BY DEF Receive
  <2>2. \A x \in net' : MessageOK(x, made')
    BY <2>1 DEF IInv
  <2>3. Only(pc, pc, lk, pc[lk]) /\ Only(events, events, lk, events[lk])
    BY <1>5, Changed
  <2> QED
    BY <1>4, <2>1, <2>2, <2>3
<1>7. ASSUME Only(peer', peer, lk, peer[lk]), Only(cmds', cmds, lk, << >>)
      PROVE  IInv'
  BY <1>5, <1>6, <1>7, Frame
<1>8. ASSUME peer[lk] # None, Only(peer', peer, lk, peer[lk]),
             Only(cmds', cmds, lk, << >> \o <<Item("setRemote", s)>>)
      PROVE  IInv'
  <2>1. LinkOK(lk, peer[lk], pc[lk], << >> \o <<Item("setRemote", s)>>, << >>, made)
    BY <1>3, <1>5, <1>8, RemoteLink
  <2> QED
    BY <1>5, <1>6, <1>8, <2>1, Frame
<1>9. CASE s.type = "offer"
  <2>1. HandleOffer(n, m, s)
    BY <1>9 DEF Receive
  <2>2. CASE peer[lk] = None /\ UNCHANGED <<peer, cmds>>
    BY <1>4, <1>5, <1>7, <2>2, Changed
  <2>3. CASE /\ peer[lk] = None /\ peer' = [peer EXCEPT ![lk] = NewPeer("inbound")]
             /\ Commands(n, m, <<Item("createPeer", None), Item("setRemote", s)>>)
    <3> DEFINE q == << >> \o <<Item("createPeer", None), Item("setRemote", s)>>
    <3>1. Only(peer', peer, lk, NewPeer("inbound")) /\ Only(cmds', cmds, lk, q)
      BY <1>2, <1>4, <1>5, <2>3, Changed DEF Commands
    <3>2. LinkOK(lk, NewPeer("inbound"), pc[lk], q, << >>, made)
      BY <1>3, <1>5, <1>9, <2>3, NewOfferLink
    <3> HIDE DEF q
    <3> QED
      BY <1>5, <1>6, <3>1, <3>2, Frame
  <2>4. CASE peer[lk] # None
    <3>1. peer[lk].direction = "inbound"
      BY <1>3, <1>5, <1>9, <2>4 DEF LinkOK, PeerOK
    <3>2. peer' = peer /\ Commands(n, m, <<Item("setRemote", s)>>)
      BY <1>2, <2>1, <2>4, <3>1 DEF HandleOffer
    <3> QED
      BY <1>2, <1>4, <1>5, <1>8, <2>4, <3>2, Changed DEF Commands
  <2> QED
    BY <1>2, <2>1, <2>2, <2>3, <2>4 DEF HandleOffer
<1>10. CASE s.type # "offer"
  <2>1. HandleAnswer(n, m, s)
    BY <1>10 DEF Receive
  <2>2. CASE peer[lk] = None
    <3>1. peer' = peer /\ cmds' = cmds
      BY <1>2, <2>1, <2>2 DEF HandleAnswer
    <3>2. Only(peer, peer, lk, peer[lk]) /\ Only(cmds, cmds, lk, cmds[lk])
      BY <1>5, Changed
    <3> QED
      BY <1>4, <1>7, <3>1, <3>2
  <2>3. CASE peer[lk] # None
    <3>1. peer' = peer /\ Commands(n, m, <<Item("setRemote", s)>>)
      BY <1>2, <2>1, <2>3 DEF HandleAnswer
    <3> QED
      BY <1>2, <1>4, <1>5, <1>8, <2>3, <3>1, Changed DEF Commands
  <2> QED
    BY <2>2, <2>3
<1> QED
  BY <1>9, <1>10

LEMMA ControllerKeeps ==
  ASSUME PlainCalls, IInv, NEW n, NEW m, <<n, m>> \in Links, ControllerStep(n, m)
  PROVE  IInv'
<1> DEFINE l == <<n, m>>
<1>1. /\ made \in Nat /\ LinkOK(l, peer[l], pc[l], cmds[l], events[l], made)
      /\ DOMAIN peer = Links /\ DOMAIN pc = Links
      /\ DOMAIN cmds = Links /\ DOMAIN events = Links
  BY Held
<1>2. PICK p, c, q, e : p = peer[l] /\ c = pc[l] /\ q = cmds[l] /\ e = events[l]
  OBVIOUS
<1>3. /\ LinkOK(l, p, c, q, e, made) /\ e # << >> /\ made' = made
      /\ Only(pc', pc, l, c) /\ Only(events', events, l, Tail(e))
  BY <1>1, <1>2, Changed DEF ControllerStep
<1>4. \A msg \in net : MessageOK(msg, made')
  BY <1>3 DEF IInv
<1>5. Only(peer, peer, l, p) /\ Only(cmds, cmds, l, q)
  BY <1>1, <1>2, Changed
<1>6. ASSUME NEW items, Commands(n, m, items) PROVE Only(cmds', cmds, l, q \o items)
  BY <1>1, <1>2, <1>6, Changed DEF Commands
<1>7. ASSUME NEW p2, peer' = [peer EXCEPT ![l] = p2] PROVE Only(peer', peer, l, p2)
  BY <1>1, <1>7, Changed
<1>8. ASSUME NEW p2, NEW q2, LinkOK(l, p2, c, q2, Tail(e), made),
             Only(peer', peer, l, p2), Only(cmds', cmds, l, q2),
             \A msg \in net' : MessageOK(msg, made')
      PROVE  IInv'
  BY <1>1, <1>3, <1>8, Frame
<1>9. CASE p = None
  <2>1. LinkOK(l, None, c, q, Tail(e), made)
    BY <1>1, <1>3, <1>9, NobodyLink
  <2>2. peer' = peer /\ cmds' = cmds /\ net' = net
    BY <1>2, <1>9 DEF ControllerStep
  <2> QED
    BY <1>4, <1>5, <1>8, <1>9, <2>1, <2>2
<1>10. CASE p # None /\ Head(e).type # "peerClosed"
  <2>1. HandleEvent(n, m, Head(e))
    BY <1>2, <1>10 DEF ControllerStep
  <2>2. CASE Head(e).type = "peerCreated"
    <3>1. OnPeerCreated(n, m)
      BY <2>1, <2>2 DEF HandleEvent
    <3>2. CASE p.direction = "outbound"
      <4>1. Commands(n, m, <<Item("createOffer", None)>>) /\ peer' = peer /\ net' = net
        BY <1>2, <3>1, <3>2 DEF OnPeerCreated
      <4>2. LinkOK(l, p, c, q \o <<Item("createOffer", None)>>, Tail(e), made)
        BY <1>1, <1>3, <1>10, <2>2, <3>2, CreatedLink
      <4> QED
        BY <1>4, <1>5, <1>6, <1>8, <4>1, <4>2
    <3>3. CASE p.direction # "outbound"
      <4>1. cmds' = cmds /\ peer' = peer /\ net' = net
        BY <1>2, <3>1, <3>3 DEF OnPeerCreated
      <4>2. LinkOK(l, p, c, q, Tail(e), made)
        BY <1>1, <1>3, <1>10, <2>2, <3>3, CreatedLink
      <4> QED
        BY <1>4, <1>5, <1>8, <4>1, <4>2
    <3> QED
      BY <3>2, <3>3
  <2>3. CASE \/ Head(e).type = "stateChange" /\ Head(e).arg = "failed"
             \/ Head(e).type = "dataChannelClose"
    <3>1. Close(n, m) /\ net' = net
      BY <2>1, <2>3 DEF HandleEvent, OnStateChange
    <3>2. Failed(p, c, q, e) \/ Shut(p, c, q, e)
      BY <1>3, <1>10, <2>3, PlainEvents DEF LinkOK
    <3>3. LinkOK(l, None, c, q \o <<Item("closePeer", None)>>, Tail(e), made)
      BY <1>1, <1>3, <1>10, <3>2, CloseLink
    <3> QED
      BY <1>4, <1>6, <1>7, <1>8, <3>1, <3>3 DEF Close
  <2>4. CASE Head(e).type = "stateChange" /\ Head(e).arg # "failed"
    <3>1. /\ peer' = [peer EXCEPT ![l] = [p EXCEPT !.state = "connected"]]
          /\ cmds' = cmds /\ net' = net
      BY <1>2, <2>1, <2>4 DEF HandleEvent, OnStateChange
    <3>2. LinkOK(l, [p EXCEPT !.state = "connected"], c, q, Tail(e), made)
      BY <1>1, <1>3, <1>10, <2>4, ConnectedLink
    <3> QED
      BY <1>4, <1>5, <1>7, <1>8, <3>1, <3>2
  <2>5. CASE Head(e).type = "sdpCreated"
    <3> DEFINE s == Head(e).arg
               message == [from |-> n, to |-> m, sdp |-> s]
    <3>1. OnSdpCreated(n, m, s)
      BY <2>1, <2>5 DEF HandleEvent
    <3>2. /\ s \in SdpsTo(made) /\ Sends(l, s)
          /\ LinkOK(l, p, c, q \o <<Item("setLocal", s)>>, Tail(e), made)
      BY <1>1, <1>3, <1>10, <2>5, SdpLink
    <3>3. MessageOK(message, made')
      <4>1. n \in Nodes /\ m \in Nodes
        BY DEF Links
      <4> QED
        BY <1>3, <3>2, <4>1 DEF MessageOK
    <3>4. \A msg \in net' : MessageOK(msg, made')
      BY <1>4, <3>1, <3>3 DEF OnSdpCreated
    <3> QED
      BY <1>5, <1>6, <1>8, <3>1, <3>2, <3>4 DEF OnSdpCreated
  <2>6. CASE Head(e).type = "descriptionSet"
    <3>1. OnDescriptionSet(n, m, Head(e).arg)
      BY <2>1, <2>6 DEF HandleEvent
    <3>2. CASE Head(e).arg /\ AnswerDue(p)
      <4>1. /\ peer' = [peer EXCEPT ![l] = [p EXCEPT !.answerCreated = TRUE]]
            /\ Commands(n, m, <<Item("createAnswer", None)>>) /\ net' = net
        BY <1>2, <3>1, <3>2 DEF OnDescriptionSet
      <4>2. LinkOK(l, [p EXCEPT !.answerCreated = TRUE], c,
                   q \o <<Item("createAnswer", None)>>, Tail(e), made)
        BY <1>1, <1>3, <1>10, <2>6, <3>2, DescribedLink
      <4> QED
        BY <1>4, <1>6, <1>7, <1>8, <4>1, <4>2
    <3>3. CASE ~(Head(e).arg /\ AnswerDue(p))
      <4>1. peer' = peer /\ cmds' = cmds /\ net' = net
        BY <1>2, <3>1, <3>3 DEF OnDescriptionSet
      <4>2. LinkOK(l, p, c, q, Tail(e), made)
        BY <1>1, <1>3, <1>10, <2>6, <3>3, DescribedLink
      <4> QED
        BY <1>4, <1>5, <1>8, <4>1, <4>2
    <3> QED
      BY <3>2, <3>3
  <2> QED
    BY <1>3, <1>10, <2>2, <2>3, <2>4, <2>5, <2>6, PlainEvents DEF LinkOK
<1>11. CASE p # None /\ Head(e).type = "peerClosed"
  BY <1>3, <1>11, PlainEvents DEF LinkOK
<1> QED
  BY <1>9, <1>10, <1>11

LEMMA ProxyKeeps ==
  ASSUME PlainCalls, IInv, NEW n, NEW m, <<n, m>> \in Links, ProxyStep(n, m)
  PROVE  IInv'
<1> DEFINE l == <<n, m>>
<1>1. /\ made \in Nat /\ LinkOK(l, peer[l], pc[l], cmds[l], events[l], made)
      /\ DOMAIN peer = Links /\ DOMAIN pc = Links
      /\ DOMAIN cmds = Links /\ DOMAIN events = Links
  BY Held
<1>2. PICK p, c, q, e : p = peer[l] /\ c = pc[l] /\ q = cmds[l] /\ e = events[l]
  OBVIOUS
<1>3. /\ LinkOK(l, p, c, q, e, made) /\ q # << >> /\ net' = net
      /\ Only(peer', peer, l, p) /\ Only(cmds', cmds, l, Tail(q))
  BY <1>1, <1>2, Changed DEF ProxyStep
<1>4. Only(pc, pc, l, c) /\ Only(events, events, l, e)
  BY <1>1, <1>2, Changed
<1>5. ASSUME NEW items, Reports(n, m, items) PROVE Only(events', events, l, e \o items)
  BY <1>1, <1>2, <1>5, Changed DEF Reports
<1>6. ASSUME NEW c2, pc' = [pc EXCEPT ![l] = c2] PROVE Only(pc', pc, l, c2)
  BY <1>1, <1>6, Changed
<1>7. ASSUME NEW c2, NEW e2, NEW k \in Nat, made' = k, made <= k,
             LinkOK(l, p, c2, Tail(q), e2, k), Only(pc', pc, l, c2), Only(events', events, l, e2)
      PROVE  IInv'
  <2>1. \A msg \in net' : MessageOK(msg, made')
    BY <1>3, <1>7, MessagesKept
  <2> QED
    BY <1>3, <1>7, <2>1, Frame
<1>8. CASE Head(q).type = "createPeer"
  <2>1. CreatePeer(n, m)
    BY <1>2, <1>8 DEF ProxyStep
  <2>2. /\ c = None
        /\ LinkOK(l, p, NewPc(made + 1), Tail(q), e \o (<< >> \o <<Item("peerCreated", None)>>), made + 1)
    BY <1>1, <1>3, <1>8, CreateLink
  <2>3. /\ made' = made + 1 /\ pc' = [pc EXCEPT ![l] = NewPc(made + 1)]
        /\ Reports(n, m, << >> \o <<Item("peerCreated", None)>>)
    BY <1>2, <2>1, <2>2 DEF CreatePeer
  <2>4. made + 1 \in Nat /\ made <= made + 1
    BY <1>1
  <2>5. /\ Only(pc', pc, l, NewPc(made + 1))
        /\ Only(events', events, l, e \o (<< >> \o <<Item("peerCreated", None)>>))
    BY <1>5, <1>6, <2>3
  <2> QED
    BY <1>7, <2>2, <2>3, <2>4, <2>5
<1>9. CASE Head(q).type # "createPeer" /\ c = None
  <2>1. pc' = pc /\ events' = events /\ made' = made
    BY <1>2, <1>9 DEF ProxyStep
  <2>2. LinkOK(l, p, c, Tail(q), e, made)
    BY <1>1, <1>3, <1>9, DropLink
  <2> QED
    BY <1>1, <1>4, <1>7, <2>1, <2>2
<1>10. CASE Head(q).type = "closePeer" /\ c # None
  <2>1. ClosePc(n, m)
    BY <1>2, <1>10 DEF ProxyStep
  <2>2. LinkOK(l, p, None, Tail(q), e \o <<Item("peerClosed", None)>>, made)
    BY <1>1, <1>3, <1>10, ClosePcLink
  <2>3. Only(pc', pc, l, None) /\ Only(events', events, l, e \o <<Item("peerClosed", None)>>)
    BY <1>5, <1>6, <2>1 DEF ClosePc
  <2>4. made' = made /\ made <= made
    BY <1>1, <2>1 DEF ClosePc
  <2> QED
    BY <1>1, <1>7, <2>2, <2>3, <2>4
<1>11. CASE Head(q).type \notin {"createPeer", "closePeer"} /\ c # None
  <2>1. Ask(n, m, Head(q))
    BY <1>2, <1>11 DEF ProxyStep
  <2>2. PICK rolls \in BOOLEAN :
          rolls <=> /\ Head(q).type = "setRemote" /\ Head(q).arg.type = "offer"
                    /\ c.signaling # "stable"
    OBVIOUS
  <2> DEFINE y == IF rolls THEN Item("rollback", Head(q).arg) ELSE Head(q)
  <2>3. pc' = [pc EXCEPT ![l] = [c EXCEPT !.ops = Append(@, y)]] /\ events' = events /\ made' = made
    BY <1>2, <2>1, <2>2 DEF Ask
  <2>4. LinkOK(l, p, [c EXCEPT !.ops = Append(@, y)], Tail(q), e, made)
    BY <1>1, <1>3, <1>11, <2>2, AskLink
  <2> HIDE DEF y
  <2>5. Only(pc', pc, l, [c EXCEPT !.ops = Append(@, y)]) /\ Only(events', events, l, e)
    BY <1>4, <1>6, <2>3
  <2>6. made <= made
    BY <1>1
  <2> QED
    BY <1>1, <1>7, <2>3, <2>4, <2>5, <2>6
<1> QED
  BY <1>8, <1>9, <1>10, <1>11

(* What the browser does on its own, when its node is quiet.               *)
LEMMA BrowserKeeps ==
  ASSUME PlainCalls, IInv, NEW n, NEW m, <<n, m>> \in Links, Quiet(n), NEW c, NEW items,
         pc' = [pc EXCEPT ![<<n, m>>] = c], Reports(n, m, items),
         peer' = peer, cmds' = cmds, made' = made, net' = net,
         LinkOK(<<n, m>>, peer[<<n, m>>], c, << >>, << >> \o items, made)
  PROVE  IInv'
<1> DEFINE l == <<n, m>>
<1>1. /\ made \in Nat /\ cmds[l] = << >> /\ events[l] = << >>
      /\ DOMAIN peer = Links /\ DOMAIN pc = Links
      /\ DOMAIN cmds = Links /\ DOMAIN events = Links
  BY Held, Hushed
<1>2. /\ Only(peer', peer, l, peer[l]) /\ Only(pc', pc, l, c)
      /\ Only(cmds', cmds, l, << >>) /\ Only(events', events, l, << >> \o items)
  BY <1>1, Changed DEF Reports
<1>3. \A msg \in net' : MessageOK(msg, made')
  BY DEF IInv
<1>4. made' \in Nat /\ made <= made'
  BY <1>1
<1> QED
  BY <1>2, <1>3, <1>4, Frame

LEMMA HushedLink ==
  ASSUME PlainCalls, IInv, NEW n, NEW m, <<n, m>> \in Links, Quiet(n)
  PROVE  made \in Nat /\ LinkOK(<<n, m>>, peer[<<n, m>>], pc[<<n, m>>], << >>, << >>, made)
BY Held, Hushed

LEMMA OperateKeeps ==
  ASSUME PlainCalls, IInv, NEW n, NEW m, <<n, m>> \in Links, PcStep(n, m)
  PROVE  IInv'
<1> DEFINE l == <<n, m>>
<1>1. PICK r : r = OpResult(pc[l], Head(pc[l].ops))
  OBVIOUS
<1>2. Quiet(n) /\ pc[l] # None /\ pc[l].ops # << >>
  BY DEF PcStep
<1>3. LinkOK(l, peer[l], r.pc, << >>, << >> \o r.reports, made)
  BY <1>1, <1>2, HushedLink, OperateLink
<1>4. /\ pc' = [pc EXCEPT ![l] = r.pc] /\ Reports(n, m, r.reports)
      /\ peer' = peer /\ cmds' = cmds /\ made' = made /\ net' = net
  BY <1>1 DEF PcStep
<1> QED
  BY <1>2, <1>3, <1>4, BrowserKeeps

LEMMA ConnectsKeeps ==
  ASSUME PlainCalls, IInv, NEW n, NEW m, <<n, m>> \in Links, Connects(n, m)
  PROVE  IInv'
<1> DEFINE l == <<n, m>>
           c == [pc[l] EXCEPT !.conn = "connected"]
           items == <<Item("stateChange", "connected")>>
<1>1. Quiet(n) /\ pc[l] # None /\ pc[l].remote # None
  BY DEF Connects, Meet, Holds
<1>2. LinkOK(l, peer[l], c, << >>, << >> \o items, made)
  BY <1>1, HushedLink, ConnLink
<1>3. /\ pc' = [pc EXCEPT ![l] = c] /\ Reports(n, m, items)
      /\ peer' = peer /\ cmds' = cmds /\ made' = made /\ net' = net
  BY DEF Connects
<1> QED
  BY <1>1, <1>2, <1>3, BrowserKeeps

LEMMA FailsKeeps ==
  ASSUME PlainCalls, IInv, NEW n, NEW m, <<n, m>> \in Links, Fails(n, m)
  PROVE  IInv'
<1> DEFINE l == <<n, m>>
<1>1. /\ Quiet(n) /\ pc[l] # None /\ pc[l].remote # None
      /\ peer' = peer /\ cmds' = cmds /\ made' = made /\ net' = net
  BY DEF Fails, Tries
<1>2. CASE /\ pc' = [pc EXCEPT ![l] = None]
           /\ Reports(n, m, <<Item("stateChange", "failed")>>)
  <2>1. LinkOK(l, peer[l], None, << >>, << >> \o <<Item("stateChange", "failed")>>, made)
    BY <1>1, HushedLink, FailLink
  <2> QED
    BY <1>1, <1>2, <2>1, BrowserKeeps
<1>3. CASE /\ pc' = [pc EXCEPT ![l].conn = "closed"]
           /\ Reports(n, m, <<Item("dataChannelClose", None)>>)
  <2> DEFINE c == [pc[l] EXCEPT !.conn = "closed"]
  <2>1. LinkOK(l, peer[l], c, << >>, << >> \o <<Item("dataChannelClose", None)>>, made)
    BY <1>1, HushedLink, ConnLink
  <2>2. pc' = [pc EXCEPT ![l] = c]
    BY <1>3
  <2> QED
    BY <1>1, <1>3, <2>1, <2>2, BrowserKeeps
<1> QED
  BY <1>2, <1>3 DEF Fails

LEMMA NothingLink ==
  ASSUME NEW l, NEW k
  PROVE  LinkOK(l, None, None, << >>, << >>, k)
BY DEF LinkOK, Exchange, Idle, OpenOK, AnswersOK

LEMMA RestartKeeps ==
  ASSUME IInv, NEW n \in Nodes, Restart(n)
  PROVE  IInv'
<1>1. Tables'
  BY DEF Restart, IInv, Tables
<1>2. \A msg \in net' : MessageOK(msg, made')
  BY DEF Restart, IInv
<1>3. ASSUME NEW l \in Links
      PROVE  LinkOK(l, peer'[l], pc'[l], cmds'[l], events'[l], made')
  <2>1. LinkOK(l, peer[l], pc[l], cmds[l], events[l], made) /\ made' = made
    BY DEF Restart, IInv
  <2>2. CASE l[1] = n
    <3>1. peer'[l] = None /\ pc'[l] = None /\ cmds'[l] = << >> /\ events'[l] = << >>
      BY <2>2 DEF Restart
    <3> QED
      BY <3>1, NothingLink
  <2>3. CASE l[1] # n
    <3>1. peer'[l] = peer[l] /\ pc'[l] = pc[l] /\ cmds'[l] = cmds[l] /\ events'[l] = events[l]
      BY <2>3 DEF Restart
    <3> QED
      BY <2>1, <3>1
  <2> QED
    BY <2>2, <2>3
<1> QED
  BY <1>1, <1>2, <1>3 DEF IInv

LEMMA LoseKeeps ==
  ASSUME IInv, NEW msg \in net, Lose(msg)
  PROVE  IInv'
BY DEF Lose, queues, IInv, Tables

LEMMA StepKeeps ==
  ASSUME PlainCalls, IInv, [Next]_vars
  PROVE  IInv'
<1>1. ASSUME NEW l \in Links,
             HandleHello(l[1], l[2]) \/ LinkStep(l[1], l[2]) \/ Fails(l[1], l[2])
      PROVE  IInv'
  <2>1. PICK n, m : l = <<n, m>> /\ n = l[1] /\ m = l[2]
    BY Links2
  <2>2. <<n, m>> \in Links
    BY <2>1
  <2>3. CASE HandleHello(n, m)
    BY <2>2, <2>3, HelloKeeps
  <2>4. CASE ControllerStep(n, m)
    BY <2>2, <2>4, ControllerKeeps
  <2>5. CASE ProxyStep(n, m)
    BY <2>2, <2>5, ProxyKeeps
  <2>6. CASE PcStep(n, m)
    BY <2>2, <2>6, OperateKeeps
  <2>7. CASE Connects(n, m)
    BY <2>2, <2>7, ConnectsKeeps
  <2>8. CASE Fails(n, m)
    BY <2>2, <2>8, FailsKeeps
  <2> QED
    BY <1>1, <2>1, <2>3, <2>4, <2>5, <2>6, <2>7, <2>8 DEF LinkStep
<1>2. ASSUME NEW msg \in net, Receive(msg) PROVE IInv'
  BY <1>2, ReceiveKeeps
<1>3. ASSUME NEW msg \in net, Lose(msg) PROVE IInv'
  BY <1>3, LoseKeeps
<1>4. ASSUME NEW n \in Nodes, Restart(n) PROVE IInv'
  BY <1>4, RestartKeeps
<1>5. CASE UNCHANGED vars
  BY <1>5 DEF vars, IInv, Tables
<1> QED
  BY <1>1, <1>2, <1>3, <1>4, <1>5 DEF Next

-----------------------------------------------------------------------------
(* The results.                                                            *)
LEMMA InitHolds ==
  ASSUME Init
  PROVE  IInv
BY NothingLink DEF Init, IInv, Tables

LEMMA InvariantAgrees ==
  ASSUME PlainCalls, IInv
  PROVE  HalvesAgree
<1>1. TypeOK
  <2>1. Sdps = SdpsTo(made)
    BY DEF Sdps, SdpsTo
  <2>2. ASSUME NEW l \in Links
        PROVE  /\ peer[l] \in {None} \cup Peers
               /\ pc[l] # None => PcOK(pc[l], l, made)
    BY <2>2 DEF IInv, LinkOK, PeerOK
  <2>3. \A msg \in net : msg.sdp \in Sdps
    BY <2>1 DEF IInv, MessageOK
  <2> QED
    BY <2>1, <2>2, <2>3 DEF TypeOK, Peers, PcOK, Pcs
<1>2. ASSUME NEW l \in Links, Still(l[1], l[2])
      PROVE  /\ peer[l] = None <=> pc[l] = None
             /\ (peer[l] # None /\ pc[l] # None /\ peer[l].state = "connected") =>
                   pc[l].conn = "connected"
  <2>1. cmds[l] = << >> /\ events[l] = << >>
    BY <1>2, Links2 DEF Still
  <2>2. LinkOK(l, peer[l], pc[l], << >>, << >>, made)
    BY <2>1, Held
  <2>3. OpenOK(peer[l], pc[l], << >>) /\ << >> # <<Item("dataChannelClose", None)>>
    BY <2>2, One DEF LinkOK
  <2>4. peer[l] = None <=> pc[l] = None
    BY <2>2, AtQuiet DEF LinkOK
  <2> QED
    BY <2>3, <2>4 DEF OpenOK
<1>3. ProxyAgrees
  BY <1>2 DEF ProxyAgrees
<1>4. ConnectedMeansOpen
  BY <1>2 DEF ConnectedMeansOpen
<1>5. OneInitiator
  <2> SUFFICES ASSUME NEW l \in Links, NEW back, back = <<l[2], l[1]>>,
                      peer[l] # None, peer[l].direction = "outbound",
                      peer[back] # None, peer[back].direction = "outbound"
               PROVE  FALSE
    BY DEF OneInitiator
  <2>1. back \in Links /\ back[1] = l[2] /\ back[2] = l[1]
    BY DEF Links
  <2>2. PeerOK(peer[l], l) /\ PeerOK(peer[back], back)
    BY <2>1 DEF IInv, LinkOK
  <2>3. l[1] < l[2] /\ l[2] < l[1]
    BY <2>1, <2>2 DEF PeerOK
  <2>4. l[1] \in Nat /\ l[2] \in Nat
    BY Links2 DEF PlainCalls
  <2> QED
    BY <2>3, <2>4
<1> QED
  BY <1>1, <1>3, <1>4, <1>5 DEF HalvesAgree

(* With plain calls the queues of a link hold one stage of its exchange,   *)
(* and its answer is asked for at the one moment it may be.                *)
THEOREM InvariantHolds ==
  ASSUME PlainCalls
  PROVE  Spec => []IInv
<1>1. Init => IInv
  BY InitHolds
<1>2. IInv /\ [Next]_vars => IInv'
  BY StepKeeps
<1> QED
  BY <1>1, <1>2, PTL DEF Spec

(* Controller and proxy, and the two sides, agree on what exists, however  *)
(* many nodes there are and whatever fails, is lost or restarts.           *)
THEOREM HalvesAlwaysAgree ==
  ASSUME PlainCalls
  PROVE  Spec => []HalvesAgree
<1>1. IInv => HalvesAgree
  BY InvariantAgrees
<1> QED
  BY <1>1, InvariantHolds, PTL

(* The record is still there when an offer is to be requested, and the     *)
(* connection holds an offer when an answer is asked of it.                *)
THEOREM RequestsComeInTime ==
  ASSUME PlainCalls
  PROVE  Spec => RequestsInTime
<1>1. IInv => [\A l \in Links :
       (/\ events[l] # << >> /\ Head(events[l]).type = "peerCreated"
        /\ events'[l] = Tail(events[l]) /\ peer[l] = None) =>
         \E i \in DOMAIN cmds[l] : cmds[l][i].type = "closePeer"]_vars
  <2> SUFFICES ASSUME IInv, NEW l \in Links, events[l] # << >>,
                      Head(events[l]).type = "peerCreated", peer[l] = None
               PROVE  FALSE
    OBVIOUS
  <2>1. Exchange(l, peer[l], pc[l], cmds[l], events[l], made)
    BY DEF IInv, LinkOK
  <2>2. Gone(peer[l], pc[l], cmds[l], events[l])
    BY <2>1, AtEvent DEF Created, Reporting, Failed, Shut
  <2> QED
    BY <2>2, One DEF Gone, Item
<1>2. IInv => [\A l \in Links :
       (/\ pc[l] # None /\ pc[l].ops # << >> /\ Head(pc[l].ops).type = "createAnswer"
        /\ pc'[l] # None /\ pc'[l].ops = Tail(pc[l].ops)) => pc[l].signaling = "remoteOffer"]_vars
  <2> SUFFICES ASSUME IInv, NEW l \in Links, pc[l] # None, pc[l].ops # << >>,
                      Head(pc[l].ops).type = "createAnswer"
               PROVE  pc[l].signaling = "remoteOffer"
    OBVIOUS
  <2>1. AnswerAsked(pc[l]) /\ pc[l].ops \in Seq(Ops(l, made))
    BY DEF IInv, LinkOK, AnswersOK, PcOK, Pcs
  <2>2. Head(pc[l].ops) = pc[l].ops[1] /\ 1 \in 1..Len(pc[l].ops)
    BY <2>1, Tails
  <2> QED
    BY <2>1, <2>2 DEF AnswerAsked
<1> QED
  BY <1>1, <1>2, InvariantHolds, PTL DEF RequestsInTime, OfferRequested, AnswersAllowed
=============================================================================
