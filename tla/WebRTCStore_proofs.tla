------------------------- MODULE WebRTCStore_proofs -------------------------
(***************************************************************************)
(* The WebRTC store of the Nostr package: the requests of one Peer, the    *)
(* pool of Peers, and the reads that ask them.                             *)
(***************************************************************************)
EXTENDS PeerRequests, StorePeering, PendingReads, FiniteSetTheorems, TLAPS

-----------------------------------------------------------------------------
(***************************************************************************)
(* The invariants of a peer's requests, for any callers, any answers and   *)
(* any contents they may carry.                                            *)
(***************************************************************************)
(* Fragments on the channel are of an answer that was given, and a closed  *)
(* channel delivers none.                                                  *)
NetSent ==
  /\ \A m \in net : sent[m[1]] \in Contents
  /\ ~open => net = {}

(* Who waits behind whom: a chain begins at the caller that made the entry *)
(* and is one link deep; the maker of an entry, or of one whose answer is  *)
(* being checked, still waits itself; an entry in the Map is not being     *)
(* checked, and an answer is checked once.                                 *)
Chained ==
  /\ \A c \in Callers : result[c] = "idle" => behind[c] = None
  /\ \A c \in Callers : result[c] = "waiting" => behind[c] # None
  /\ \A c \in Callers : behind[c] # None => behind[behind[c]] = behind[c]
  /\ entry # None =>
       behind[entry] = entry /\ result[entry] = "waiting" /\ entry \notin expired
  /\ \A c \in Callers, good \in BOOLEAN : <<c, good>> \in checking =>
       /\ behind[c] = c /\ result[c] = "waiting"
       /\ c # entry /\ c \notin expired
       /\ <<c, ~good>> \notin checking
  /\ \A c \in expired : behind[c] = c /\ result[c] = "null"

CallsInv ==
  OneTimerPerEntry /\ ClosedIsQuiet /\ Chained /\ NobodyForgotten /\ JoinersShareAnswer

RequestsInv == TypeOK /\ NetSent /\ CallsInv

-----------------------------------------------------------------------------
LEMMA RequestsInitHold == Init => RequestsInv
<1> SUFFICES ASSUME Init PROVE RequestsInv
  OBVIOUS
<1>1. TypeOK
  BY MaxPartsAssumption DEF Init, TypeOK, Results
<1>2. NetSent
  BY DEF Init, NetSent
<1>3. CallsInv
  BY DEF Init, CallsInv, OneTimerPerEntry, ClosedIsQuiet, Chained, NobodyForgotten,
         JoinersShareAnswer
<1> QED  BY <1>1, <1>2, <1>3 DEF RequestsInv

-----------------------------------------------------------------------------
(* What is left of the timeouts when those of the entry are cleared, and   *)
(* when its stall timeout is set.                                          *)
LEMMA TimersOfEntry ==
  ASSUME TypeOK, OneTimerPerEntry
  PROVE  /\ timers \ TimersOf(entry) = {}
         /\ Rearmed = IF entry = None THEN {} ELSE {<<"stall", entry>>}
BY DEF OneTimerPerEntry, TimersOf, Rearmed

(* An armed timeout is the entry's.                                        *)
LEMMA ArmedIsEntry ==
  ASSUME TypeOK, OneTimerPerEntry, NEW c \in Callers, NEW kind,
         <<kind, c>> \in timers
  PROVE  entry = c /\ timers = {<<kind, c>>}
BY NoneAssumption DEF OneTimerPerEntry

(* Contents have a number of parts that fits.                              *)
LEMMA ContentType ==
  ASSUME NEW content \in Contents
  PROVE  content.parts \in 1..MaxParts /\ content.good \in BOOLEAN
BY ContentsAssumption

-----------------------------------------------------------------------------
(* Calls that take part in no step stay in order.                          *)
LEMMA CallsStay ==
  ASSUME RequestsInv, UNCHANGED <<result, behind, entry, checking, expired>>,
         OneTimerPerEntry', ClosedIsQuiet'
  PROVE  CallsInv'
<1>1. Chained'
  BY DEF RequestsInv, CallsInv, Chained
<1>2. NobodyForgotten' /\ JoinersShareAnswer'
  BY DEF RequestsInv, CallsInv, NobodyForgotten, JoinersShareAnswer
<1> QED  BY <1>1, <1>2 DEF CallsInv

LEMMA RequestKeeps ==
  ASSUME RequestsInv, NEW c \in Callers, Request(c)
  PROVE  RequestsInv'
<1> USE NoneAssumption
<1>1. /\ UNCHANGED <<open, total, parts, checking, sent, net, expired>>
      /\ result[c] = "idle" /\ behind[c] = None
      /\ result \in [Callers -> Results] /\ behind \in [Callers -> Callers \cup {None}]
  BY DEF Request, reassemblyVars, netVars, RequestsInv, CallsInv, Chained, TypeOK
<1>2. NetSent'
  BY <1>1 DEF RequestsInv, NetSent
<1>3. CASE ~open
  <2>1. /\ UNCHANGED <<behind, entry, timers>>
        /\ \A d \in Callers : result'[d] = IF d = c THEN "null" ELSE result[d]
        /\ result' \in [Callers -> Results]
    BY <1>1, <1>3 DEF Request, Settle, Results
  <2>2. TypeOK'
    BY <1>1, <2>1 DEF RequestsInv, TypeOK
  <2>3. OneTimerPerEntry' /\ ClosedIsQuiet'
    BY <1>1, <2>1 DEF RequestsInv, CallsInv, OneTimerPerEntry, ClosedIsQuiet
  <2>4. Chained'
    BY <1>1, <2>1 DEF RequestsInv, CallsInv, Chained, TypeOK
  <2>5. NobodyForgotten'
    BY <1>1, <2>1 DEF RequestsInv, CallsInv, NobodyForgotten, TypeOK
  <2>6. JoinersShareAnswer'
    BY <1>1, <2>1 DEF RequestsInv, CallsInv, JoinersShareAnswer, Chained, TypeOK
  <2> QED  BY <1>2, <2>2, <2>3, <2>4, <2>5, <2>6 DEF RequestsInv, CallsInv
<1>4. CASE open /\ entry = None
  <2>1. /\ entry' = c /\ timers = {} /\ timers' = {<<"request", c>>}
        /\ \A d \in Callers : result'[d] = IF d = c THEN "waiting" ELSE result[d]
        /\ \A d \in Callers : behind'[d] = IF d = c THEN c ELSE behind[d]
        /\ result' \in [Callers -> Results] /\ behind' \in [Callers -> Callers \cup {None}]
    BY <1>1, <1>4 DEF Request, Send, Settle, Results, RequestsInv, CallsInv, OneTimerPerEntry
  <2>2. TypeOK'
    BY <1>1, <2>1 DEF RequestsInv, TypeOK
  <2>3. OneTimerPerEntry' /\ ClosedIsQuiet'
    BY <1>1, <1>4, <2>1 DEF OneTimerPerEntry, ClosedIsQuiet
  <2>4. \A d \in Callers : behind[d] # c
    BY <1>1 DEF RequestsInv, CallsInv, Chained, TypeOK
  <2>5. Chained'
    BY <1>1, <1>4, <2>1, <2>4 DEF RequestsInv, CallsInv, Chained, TypeOK
  <2>6. NobodyForgotten'
    <3> SUFFICES ASSUME NEW d \in Callers, result'[d] = "waiting"
                 PROVE  \/ behind'[d] = entry'
                        \/ \E good \in BOOLEAN : <<behind'[d], good>> \in checking'
                        \/ behind'[d] \in expired' /\ behind'[d] # d
      BY DEF NobodyForgotten
    <3>1. CASE d = c
      BY <2>1, <3>1
    <3>2. CASE d # c
      <4>1. result[d] = "waiting" /\ behind'[d] = behind[d]
        BY <2>1, <3>2
      <4>2. behind[d] # entry
        BY <1>4, <4>1 DEF RequestsInv, CallsInv, Chained
      <4>3. \/ \E good \in BOOLEAN : <<behind[d], good>> \in checking
            \/ behind[d] \in expired /\ behind[d] # d
        BY <4>1, <4>2 DEF RequestsInv, CallsInv, NobodyForgotten
      <4> QED  BY <1>1, <4>1, <4>3
    <3> QED  BY <3>1, <3>2
  <2>7. JoinersShareAnswer'
    BY <1>1, <2>1, <2>4 DEF RequestsInv, CallsInv, JoinersShareAnswer, Chained, TypeOK
  <2> QED  BY <1>2, <2>2, <2>3, <2>5, <2>6, <2>7 DEF RequestsInv, CallsInv
<1>5. CASE open /\ entry # None
  <2>1. /\ UNCHANGED <<entry, timers>>
        /\ \A d \in Callers : result'[d] = IF d = c THEN "waiting" ELSE result[d]
        /\ \A d \in Callers : behind'[d] = IF d = c THEN entry ELSE behind[d]
        /\ result' \in [Callers -> Results] /\ behind' \in [Callers -> Callers \cup {None}]
    BY <1>1, <1>5 DEF Request, Join, Settle, Results, RequestsInv, TypeOK
  <2>2. TypeOK'
    BY <1>1, <2>1 DEF RequestsInv, TypeOK
  <2>3. OneTimerPerEntry' /\ ClosedIsQuiet'
    BY <1>1, <2>1 DEF RequestsInv, CallsInv, OneTimerPerEntry, ClosedIsQuiet
  <2>4. entry \in Callers /\ entry # c /\ \A d \in Callers : behind[d] # c
    BY <1>1, <1>5 DEF RequestsInv, CallsInv, Chained, TypeOK
  <2>5. Chained'
    BY <1>1, <1>5, <2>1, <2>4 DEF RequestsInv, CallsInv, Chained, TypeOK
  <2>6. NobodyForgotten'
    <3> SUFFICES ASSUME NEW d \in Callers, result'[d] = "waiting"
                 PROVE  \/ behind'[d] = entry'
                        \/ \E good \in BOOLEAN : <<behind'[d], good>> \in checking'
                        \/ behind'[d] \in expired' /\ behind'[d] # d
      BY DEF NobodyForgotten
    <3>1. CASE d = c
      BY <2>1, <3>1
    <3>2. CASE d # c
      <4>1. result[d] = "waiting" /\ behind'[d] = behind[d]
        BY <2>1, <3>2
      <4>2. \/ behind[d] = entry
            \/ \E good \in BOOLEAN : <<behind[d], good>> \in checking
            \/ behind[d] \in expired /\ behind[d] # d
        BY <4>1 DEF RequestsInv, CallsInv, NobodyForgotten
      <4> QED  BY <1>1, <2>1, <4>1, <4>2
    <3> QED  BY <3>1, <3>2
  <2>7. JoinersShareAnswer'
    BY <1>1, <1>5, <2>1, <2>4 DEF RequestsInv, CallsInv, JoinersShareAnswer, Chained, TypeOK
  <2> QED  BY <1>2, <2>2, <2>3, <2>5, <2>6, <2>7 DEF RequestsInv, CallsInv
<1> QED  BY <1>3, <1>4, <1>5 DEF RequestsInv, TypeOK

(* The request timeout lets its own caller go; those behind it are behind  *)
(* an expired entry from now on.                                           *)
LEMMA RequestTimeoutKeeps ==
  ASSUME RequestsInv, NEW c \in Callers, RequestTimeout(c)
  PROVE  RequestsInv'
<1> USE NoneAssumption
<1>1. /\ entry = c /\ timers' = {} /\ entry' = None
      /\ UNCHANGED <<open, behind, total, parts, checking, sent, net>>
      /\ expired' = expired \cup {c}
      /\ \A d \in Callers : result'[d] = IF d = c THEN "null" ELSE result[d]
      /\ result' \in [Callers -> Results]
  BY ArmedIsEntry DEF RequestTimeout, Settle, reassemblyVars, netVars, RequestsInv, CallsInv, TypeOK,
                      Results
<1>2. TypeOK' /\ NetSent'
  BY <1>1 DEF RequestsInv, TypeOK, NetSent
<1>3. OneTimerPerEntry' /\ ClosedIsQuiet'
  BY <1>1 DEF RequestsInv, CallsInv, OneTimerPerEntry, ClosedIsQuiet
<1>4. Chained'
  BY <1>1 DEF RequestsInv, CallsInv, Chained, TypeOK
<1>5. NobodyForgotten'
  BY <1>1 DEF RequestsInv, CallsInv, NobodyForgotten, TypeOK
<1>6. JoinersShareAnswer'
  <2>1. behind[c] = c
    BY <1>1 DEF RequestsInv, CallsInv, Chained
  <2> SUFFICES ASSUME NEW d \in Callers, behind[d] # None, behind[d] # c, behind[d] \notin expired
               PROVE  result'[d] = result'[behind[d]]
    BY <1>1 DEF JoinersShareAnswer
  <2>2. d # c /\ behind[d] \in Callers
    BY <2>1 DEF RequestsInv, TypeOK
  <2> QED  BY <1>1, <2>2 DEF RequestsInv, CallsInv, JoinersShareAnswer
<1> QED  BY <1>2, <1>3, <1>4, <1>5, <1>6 DEF RequestsInv, CallsInv

(* The entry ends, and everyone behind it gets null.                       *)
LEMMA EntryEnds ==
  ASSUME RequestsInv, entry # None,
         Settle(Waiters(entry), "null"), entry' = None, timers' = {},
         UNCHANGED <<behind, checking, expired>>,
         total' = 0
  PROVE  CallsInv' /\ result' \in [Callers -> Results]
<1> USE NoneAssumption
<1>1. /\ entry \in Callers /\ behind[entry] = entry
      /\ result[entry] = "waiting" /\ entry \notin expired
  BY DEF RequestsInv, CallsInv, Chained, TypeOK
<1>2. \A d \in Callers : behind[d] = entry => result[d] = "waiting"
  BY <1>1 DEF RequestsInv, CallsInv, JoinersShareAnswer
<1>3. /\ \A d \in Callers : result'[d] = IF behind[d] = entry THEN "null" ELSE result[d]
      /\ result' \in [Callers -> Results]
  BY <1>2 DEF Settle, Waiters, RequestsInv, TypeOK, Results
<1>4. OneTimerPerEntry' /\ ClosedIsQuiet'
  BY DEF OneTimerPerEntry, ClosedIsQuiet
<1>5. Chained'
  BY <1>1, <1>3 DEF RequestsInv, CallsInv, Chained, TypeOK
<1>6. NobodyForgotten'
  BY <1>1, <1>3 DEF RequestsInv, CallsInv, NobodyForgotten, TypeOK
<1>7. JoinersShareAnswer'
  BY <1>1, <1>3 DEF RequestsInv, CallsInv, JoinersShareAnswer, Chained, TypeOK
<1> QED  BY <1>3, <1>4, <1>5, <1>6, <1>7 DEF CallsInv

LEMMA StallTimeoutKeeps ==
  ASSUME RequestsInv, NEW c \in Callers, StallTimeout(c)
  PROVE  RequestsInv'
<1>1. entry = c /\ entry # None /\ timers' = {} /\ entry' = None
  BY ArmedIsEntry, NoneAssumption DEF StallTimeout, RequestsInv, CallsInv
<1>2. /\ UNCHANGED <<open, behind, checking, sent, net, expired>>
      /\ total' = 0 /\ parts' = {}
  BY DEF StallTimeout, netVars
<1>3. CallsInv' /\ result' \in [Callers -> Results]
  BY <1>1, <1>2, EntryEnds DEF StallTimeout
<1>4. TypeOK' /\ NetSent'
  BY <1>1, <1>2, <1>3, MaxPartsAssumption DEF RequestsInv, TypeOK, NetSent
<1> QED  BY <1>3, <1>4 DEF RequestsInv

LEMMA CloseKeeps ==
  ASSUME RequestsInv, Close
  PROVE  RequestsInv'
<1>1. /\ UNCHANGED <<behind, checking, sent, expired>>
      /\ open' = FALSE /\ total' = 0 /\ parts' = {} /\ entry' = None /\ net' = {} /\ timers' = {}
  BY TimersOfEntry DEF Close, RequestsInv, CallsInv
<1>2. CallsInv' /\ result' \in [Callers -> Results]
  <2>1. CASE entry = None
    <3>1. UNCHANGED result
      BY <2>1 DEF Close, Settle, RequestsInv, TypeOK
    <3>2. OneTimerPerEntry' /\ ClosedIsQuiet'
      BY <1>1 DEF OneTimerPerEntry, ClosedIsQuiet
    <3> QED  BY <1>1, <2>1, <3>1, <3>2, CallsStay DEF RequestsInv, TypeOK
  <2>2. CASE entry # None
    <3>1. Settle(Waiters(entry), "null")
      BY <2>2 DEF Close
    <3> QED  BY <1>1, <2>2, <3>1, EntryEnds
  <2> QED  BY <2>1, <2>2
<1>3. TypeOK'
  <2>1. open' \in BOOLEAN
    BY <1>1
  <2>2. total' \in 0..MaxParts /\ parts' \subseteq Indexes \X BOOLEAN
    BY <1>1, MaxPartsAssumption
  <2>3. net' \subseteq Answers \X Indexes /\ timers' \subseteq {"request", "stall"} \X Callers
    BY <1>1
  <2> QED  BY <1>1, <1>2, <2>1, <2>2, <2>3 DEF RequestsInv, TypeOK
<1>4. NetSent'
  BY <1>1 DEF NetSent
<1> QED  BY <1>2, <1>3, <1>4 DEF RequestsInv

-----------------------------------------------------------------------------
LEMMA AnswerKeeps ==
  ASSUME RequestsInv, NEW a \in Answers, NEW content \in Contents, Answer(a, content)
  PROVE  RequestsInv'
<1>1. UNCHANGED <<open, result, behind, entry, timers, total, parts, checking, expired>>
  BY DEF Answer, callVars, reassemblyVars
<1>2. net' \subseteq Answers \X Indexes
  <2>1. 0..(content.parts - 1) \subseteq Indexes
    BY ContentType, MaxPartsAssumption DEF Indexes
  <2> QED  BY <2>1 DEF Answer, RequestsInv, TypeOK
<1>3. TypeOK'
  BY <1>1, <1>2 DEF Answer, RequestsInv, TypeOK
<1>4. NetSent'
  BY DEF Answer, RequestsInv, NetSent, TypeOK
<1>5. CallsInv'
  BY <1>1, CallsStay DEF RequestsInv, CallsInv, OneTimerPerEntry, ClosedIsQuiet
<1> QED  BY <1>3, <1>4, <1>5 DEF RequestsInv

(* A complete answer takes the entry out of the Map.                       *)
LEMMA CompleteKeeps ==
  ASSUME RequestsInv, NEW good \in BOOLEAN, Complete(good), open, open' = open,
         UNCHANGED <<result, behind, expired>>
  PROVE  /\ CallsInv'
         /\ entry' = None /\ timers' = {} /\ checking' \subseteq Callers \X BOOLEAN
<1> USE NoneAssumption
<1>1. entry' = None /\ timers' = {}
  BY TimersOfEntry DEF Complete, RequestsInv, CallsInv
<1>2. OneTimerPerEntry' /\ ClosedIsQuiet'
  BY <1>1 DEF OneTimerPerEntry, ClosedIsQuiet
<1>3. CASE entry = None
  BY <1>1, <1>2, <1>3, CallsStay DEF Complete, RequestsInv, TypeOK
<1>4. CASE entry # None
  <2>1. entry \in Callers /\ checking' = checking \cup {<<entry, good>>}
    BY <1>4 DEF Complete, RequestsInv, TypeOK
  <2>2. \A g \in BOOLEAN : <<entry, g>> \notin checking
    BY <2>1 DEF RequestsInv, CallsInv, Chained
  <2>3. Chained'
    BY <1>1, <1>4, <2>1, <2>2 DEF RequestsInv, CallsInv, Chained
  <2>4. NobodyForgotten'
    BY <1>1, <2>1 DEF RequestsInv, CallsInv, NobodyForgotten
  <2>5. JoinersShareAnswer'
    BY DEF RequestsInv, CallsInv, JoinersShareAnswer
  <2> QED  BY <1>1, <1>2, <2>1, <2>3, <2>4, <2>5 DEF CallsInv, RequestsInv, TypeOK
<1> QED  BY <1>3, <1>4

LEMMA ReceiveWholeKeeps ==
  ASSUME RequestsInv, NEW a \in Answers, ReceiveWhole(a)
  PROVE  RequestsInv'
<1>1. open /\ sent[a] \in Contents
  BY DEF ReceiveWhole, RequestsInv, NetSent
<1>2. /\ UNCHANGED <<open, result, behind, expired, total, parts, sent>>
      /\ net' \subseteq net
  BY DEF ReceiveWhole, callVars, reassemblyVars
<1>3. /\ CallsInv'
      /\ entry' = None /\ timers' = {} /\ checking' \subseteq Callers \X BOOLEAN
  BY <1>1, <1>2, ContentType, CompleteKeeps DEF ReceiveWhole
<1>4. TypeOK'
  BY <1>2, <1>3 DEF RequestsInv, TypeOK
<1>5. NetSent'
  BY <1>1, <1>2 DEF RequestsInv, NetSent
<1> QED  BY <1>3, <1>4, <1>5 DEF RequestsInv

(* A fragment that completes nothing only moves the timeout.               *)
LEMMA RearmKeeps ==
  ASSUME RequestsInv, open, open' = open, timers' = Rearmed,
         UNCHANGED <<result, behind, entry, checking, expired>>
  PROVE  CallsInv' /\ timers' \subseteq {"request", "stall"} \X Callers
<1>1. timers' = IF entry = None THEN {} ELSE {<<"stall", entry>>}
  BY TimersOfEntry DEF RequestsInv, CallsInv
<1>2. OneTimerPerEntry' /\ ClosedIsQuiet'
  BY <1>1 DEF OneTimerPerEntry, ClosedIsQuiet
<1>3. timers' \subseteq {"request", "stall"} \X Callers
  BY <1>1 DEF RequestsInv, TypeOK
<1> QED  BY <1>2, <1>3, CallsStay

LEMMA ReceiveFragmentKeeps ==
  ASSUME RequestsInv, NEW a \in Answers, NEW i \in Indexes, ReceiveFragment(a, i)
  PROVE  RequestsInv'
<1> DEFINE count == IF total = 0 THEN sent[a].parts ELSE total
           stored == Stored(i, sent[a].good)
<1>1. open /\ sent[a] \in Contents
  BY DEF ReceiveFragment, RequestsInv, NetSent
<1>2. /\ UNCHANGED <<open, result, behind, expired, sent>>
      /\ net' \subseteq net
  BY DEF ReceiveFragment, callVars
<1>3. count \in 0..MaxParts /\ stored \subseteq Indexes \X BOOLEAN
  BY <1>1, ContentType, MaxPartsAssumption DEF RequestsInv, TypeOK, Stored
<1>4. \/ /\ total' = 0 /\ parts' = {}
         /\ Complete(\A part \in stored : part[2])
      \/ /\ total' = 0 /\ parts' = {}
         /\ timers' = Rearmed /\ UNCHANGED <<entry, checking>>
      \/ /\ total' = count /\ parts' = stored
         /\ timers' = Rearmed /\ UNCHANGED <<entry, checking>>
  BY DEF ReceiveFragment
<1> HIDE DEF count, stored
<1>5. NetSent'
  BY <1>1, <1>2 DEF RequestsInv, NetSent
<1>6. total' \in 0..MaxParts /\ parts' \subseteq Indexes \X BOOLEAN
  <2>1. 0 \in 0..MaxParts /\ {} \subseteq Indexes \X BOOLEAN
    BY MaxPartsAssumption
  <2> QED  BY <1>3, <1>4, <2>1, Zenon
<1>7. /\ CallsInv'
      /\ entry' \in Callers \cup {None} /\ timers' \subseteq {"request", "stall"} \X Callers
      /\ checking' \subseteq Callers \X BOOLEAN
  <2>1. CASE Complete(\A part \in stored : part[2])
    <3>1. (\A part \in stored : part[2]) \in BOOLEAN
      OBVIOUS
    <3> QED  BY <1>1, <1>2, <2>1, <3>1, CompleteKeeps
  <2>2. CASE timers' = Rearmed /\ UNCHANGED <<entry, checking>>
    BY <1>1, <1>2, <2>2, RearmKeeps DEF RequestsInv, TypeOK
  <2> QED  BY <1>4, <2>1, <2>2
<1>8. TypeOK'
  BY <1>2, <1>6, <1>7 DEF RequestsInv, TypeOK
<1> QED  BY <1>5, <1>7, <1>8 DEF RequestsInv

LEMMA CleanUpKeeps ==
  ASSUME RequestsInv, CleanUp
  PROVE  RequestsInv'
<1>1. /\ UNCHANGED <<open, result, behind, entry, timers, checking, sent, net, expired>>
      /\ total' = 0 /\ parts' = {}
  BY DEF CleanUp, callVars, netVars
<1>2. TypeOK' /\ NetSent'
  BY <1>1, MaxPartsAssumption DEF RequestsInv, TypeOK, NetSent
<1>3. CallsInv'
  BY <1>1, CallsStay DEF RequestsInv, CallsInv, OneTimerPerEntry, ClosedIsQuiet
<1> QED  BY <1>2, <1>3 DEF RequestsInv

-----------------------------------------------------------------------------
(* The digest settles everyone behind the entry that was asked with.       *)
LEMMA VerifiedKeeps ==
  ASSUME RequestsInv, NEW c \in Callers, NEW good \in BOOLEAN, Verified(c, good)
  PROVE  RequestsInv'
<1> USE NoneAssumption
<1> DEFINE given == IF good THEN "data" ELSE "null"
<1>1. /\ UNCHANGED <<open, behind, entry, timers, total, parts, sent, net, expired>>
      /\ checking' = checking \ {<<c, good>>}
  BY DEF Verified, reassemblyVars, netVars
<1>2. /\ behind[c] = c /\ result[c] = "waiting" /\ c # entry /\ c \notin expired
      /\ \A g \in BOOLEAN : <<c, g>> \notin checking'
  BY <1>1 DEF Verified, RequestsInv, CallsInv, Chained
<1>3. \A d \in Callers : behind[d] = c => result[d] = "waiting"
  BY <1>2, NoneAssumption DEF RequestsInv, CallsInv, JoinersShareAnswer
<1>4. /\ \A d \in Callers : result'[d] = IF behind[d] = c THEN given ELSE result[d]
      /\ result' \in [Callers -> Results]
      /\ given # "waiting" /\ given # "idle"
  BY <1>3 DEF Verified, Settle, Waiters, RequestsInv, TypeOK, Results
<1> HIDE DEF given
<1>5. TypeOK' /\ NetSent'
  BY <1>1, <1>4 DEF RequestsInv, TypeOK, NetSent
<1>6. OneTimerPerEntry' /\ ClosedIsQuiet'
  BY <1>1 DEF RequestsInv, CallsInv, OneTimerPerEntry, ClosedIsQuiet
<1>7. Chained'
  BY <1>1, <1>2, <1>4 DEF RequestsInv, CallsInv, Chained, TypeOK
<1>8. NobodyForgotten'
  BY <1>1, <1>4 DEF RequestsInv, CallsInv, NobodyForgotten, TypeOK
<1>9. JoinersShareAnswer'
  BY <1>1, <1>2, <1>4 DEF RequestsInv, CallsInv, JoinersShareAnswer, Chained, TypeOK
<1> QED  BY <1>5, <1>6, <1>7, <1>8, <1>9 DEF RequestsInv, CallsInv

-----------------------------------------------------------------------------
LEMMA StepKeeps == RequestsInv /\ [Next]_vars => RequestsInv'
<1> SUFFICES ASSUME RequestsInv, [Next]_vars PROVE RequestsInv'
  OBVIOUS
<1>1. ASSUME NEW c \in Callers, Request(c) PROVE RequestsInv'
  BY <1>1, RequestKeeps
<1>2. ASSUME NEW c \in Callers, RequestTimeout(c) PROVE RequestsInv'
  BY <1>2, RequestTimeoutKeeps
<1>3. ASSUME NEW c \in Callers, StallTimeout(c) PROVE RequestsInv'
  BY <1>3, StallTimeoutKeeps
<1>4. ASSUME NEW c \in Callers, NEW good \in BOOLEAN, Verified(c, good) PROVE RequestsInv'
  BY <1>4, VerifiedKeeps
<1>5. ASSUME NEW a \in Answers, NEW content \in Contents, Answer(a, content) PROVE RequestsInv'
  BY <1>5, AnswerKeeps
<1>6. ASSUME NEW a \in Answers, ReceiveWhole(a) PROVE RequestsInv'
  BY <1>6, ReceiveWholeKeeps
<1>7. ASSUME NEW a \in Answers, NEW i \in Indexes, ReceiveFragment(a, i) PROVE RequestsInv'
  BY <1>7, ReceiveFragmentKeeps
<1>8. CASE CleanUp
  BY <1>8, CleanUpKeeps
<1>9. CASE Close
  BY <1>9, CloseKeeps
<1>10. CASE UNCHANGED vars
  <2>1. TypeOK' /\ NetSent'
    BY <1>10 DEF vars, RequestsInv, TypeOK, NetSent
  <2>2. CallsInv'
    BY <1>10, CallsStay DEF vars, RequestsInv, CallsInv, OneTimerPerEntry, ClosedIsQuiet
  <2> QED  BY <2>1, <2>2 DEF RequestsInv
<1> QED  BY <1>1, <1>2, <1>3, <1>4, <1>5, <1>6, <1>7, <1>8, <1>9, <1>10 DEF Next

(* The inductive invariant holds in every behaviour.                       *)
THEOREM RequestsInvHolds == Spec => []RequestsInv
<1>1. Init => RequestsInv
  BY RequestsInitHold
<1>2. RequestsInv /\ [Next]_vars => RequestsInv'
  BY StepKeeps
<1> QED  BY <1>1, <1>2, PTL DEF Spec

(* Every variable keeps its type, whatever a peer sends: no index beyond   *)
(* the largest content gets into a reassembly.                             *)
THEOREM TypeCorrect == Spec => []TypeOK
<1>1. RequestsInv => TypeOK
  BY DEF RequestsInv
<1> QED  BY <1>1, RequestsInvHolds, PTL

(* The entry of a hash and its timeout come and go together, though four   *)
(* places set, move or clear it.                                           *)
THEOREM TimerWithEntry == Spec => []OneTimerPerEntry
<1>1. RequestsInv => OneTimerPerEntry
  BY DEF RequestsInv, CallsInv
<1> QED  BY <1>1, RequestsInvHolds, PTL

(* A caller that waits can still be answered, unless the request it joined *)
(* timed out.                                                              *)
THEOREM WaitersReachable == Spec => []NobodyForgotten
<1>1. RequestsInv => NobodyForgotten
  BY DEF RequestsInv, CallsInv
<1> QED  BY <1>1, RequestsInvHolds, PTL

(* Callers that share a request that did not time out share its answer.    *)
THEOREM AnswerShared == Spec => []JoinersShareAnswer
<1>1. RequestsInv => JoinersShareAnswer
  BY DEF RequestsInv, CallsInv
<1> QED  BY <1>1, RequestsInvHolds, PTL

(* A closed peer keeps no entry, no timeout and no fragment.               *)
THEOREM NothingAfterClose == Spec => []ClosedIsQuiet
<1>1. RequestsInv => ClosedIsQuiet
  BY DEF RequestsInv, CallsInv
<1> QED  BY <1>1, RequestsInvHolds, PTL

-----------------------------------------------------------------------------
(* A fragment is counted once per index, and a reassembly that stays in    *)
(* the Map lacks one at least.                                             *)
LEMMA PartsFinite ==
  ASSUME TypeOK
  PROVE  IsFiniteSet(parts) /\ Cardinality(parts) \in Nat
<1>1. IsFiniteSet(Indexes)
  BY FS_Interval, MaxPartsAssumption DEF Indexes
<1>2. IsFiniteSet(BOOLEAN)
  <2>1. IsFiniteSet({TRUE}) /\ IsFiniteSet({TRUE} \cup {FALSE})
    BY FS_Singleton, FS_AddElement
  <2>2. BOOLEAN = {TRUE} \cup {FALSE}
    OBVIOUS
  <2> QED  BY <2>1, <2>2
<1>3. IsFiniteSet(Indexes \X BOOLEAN)
  BY <1>1, <1>2, FS_Product
<1> QED  BY <1>3, FS_Subset, FS_CardinalityType DEF TypeOK

LEMMA FragmentStored ==
  ASSUME RequestsInv, OneFragmentPerIndex, NEW i \in Indexes, NEW good \in BOOLEAN
  PROVE  /\ \A j \in Indexes : ~(<<j, TRUE>> \in Stored(i, good) /\ <<j, FALSE>> \in Stored(i, good))
         /\ Cardinality(Stored(i, good)) \in 1..(Cardinality(parts) + 1)
<1>1. \A j \in Indexes : ~(<<j, TRUE>> \in Stored(i, good) /\ <<j, FALSE>> \in Stored(i, good))
  BY DEF OneFragmentPerIndex, Stored
<1>2. IsFiniteSet(parts) /\ Cardinality(parts) \in Nat
  BY PartsFinite DEF RequestsInv
<1>3. CASE \E g \in BOOLEAN : <<i, g>> \in parts
  <2>1. Stored(i, good) = parts /\ parts # {}
    BY <1>3 DEF Stored
  <2>2. Cardinality(parts) # 0
    BY <1>2, <2>1, FS_EmptySet
  <2>3. Cardinality(parts) \in 1..(Cardinality(parts) + 1)
    BY <1>2, <2>2
  <2> QED  BY <1>1, <2>1, <2>3
<1>4. CASE ~\E g \in BOOLEAN : <<i, g>> \in parts
  <2>1. Stored(i, good) = parts \cup {<<i, good>>} /\ <<i, good>> \notin parts
    BY <1>4 DEF Stored
  <2>2. Cardinality(Stored(i, good)) = Cardinality(parts) + 1
    BY <1>2, <2>1, FS_AddElement
  <2>3. Cardinality(parts) + 1 \in 1..(Cardinality(parts) + 1)
    BY <1>2
  <2> QED  BY <1>1, <2>2, <2>3, Zenon
<1> QED  BY <1>3, <1>4

LEMMA FragmentKeepsCount ==
  ASSUME RequestsInv, OneFragmentPerIndex, NEW a \in Answers, NEW i \in Indexes, ReceiveFragment(a, i)
  PROVE  OneFragmentPerIndex'
<1> DEFINE count == IF total = 0 THEN sent[a].parts ELSE total
           stored == Stored(i, sent[a].good)
<1>1. sent[a] \in Contents /\ sent[a].parts \in 2..MaxParts /\ sent[a].good \in BOOLEAN
  <2>1. sent[a] \in Contents /\ sent[a].parts > 1
    BY DEF ReceiveFragment, RequestsInv, NetSent
  <2> QED  BY <2>1, ContentType, MaxPartsAssumption
<1>2. /\ \A j \in Indexes : ~(<<j, TRUE>> \in stored /\ <<j, FALSE>> \in stored)
      /\ Cardinality(stored) \in 1..(Cardinality(parts) + 1)
  BY <1>1, FragmentStored
<1>3. Cardinality(parts) \in Nat /\ total \in 0..MaxParts
  BY PartsFinite DEF RequestsInv, TypeOK
<1>4. count \in 2..MaxParts /\ Cardinality(stored) \in 1..count
  <2>1. CASE total = 0
    <3>1. Cardinality(parts) = 0
      BY <2>1, FS_EmptySet DEF OneFragmentPerIndex
    <3> QED  BY <1>1, <1>2, <2>1, <3>1, MaxPartsAssumption
  <2>2. CASE total # 0
    <3>1. Cardinality(parts) \in 1..(total - 1)
      BY <2>2 DEF OneFragmentPerIndex
    <3> QED  BY <1>2, <1>3, <2>2, <3>1, MaxPartsAssumption
  <2> QED  BY <2>1, <2>2
<1>5. \/ total' = 0 /\ parts' = {}
      \/ total' = count /\ parts' = stored /\ Cardinality(stored) # count
  BY DEF ReceiveFragment
<1> HIDE DEF count, stored
<1>6. CASE total' = 0 /\ parts' = {}
  BY <1>6 DEF OneFragmentPerIndex
<1>7. CASE total' = count /\ parts' = stored /\ Cardinality(stored) # count
  <2>1. total' # 0 /\ Cardinality(stored) \in 1..(count - 1)
    BY <1>4, <1>7, MaxPartsAssumption
  <2> QED  BY <1>2, <1>7, <2>1 DEF OneFragmentPerIndex
<1> QED  BY <1>5, <1>6, <1>7

(* However the fragments of several answers mix, one per index is kept.    *)
THEOREM FragmentsCounted == Spec => []OneFragmentPerIndex
<1>1. Init => OneFragmentPerIndex
  BY DEF Init, OneFragmentPerIndex
<1>2. RequestsInv /\ OneFragmentPerIndex /\ [Next]_vars => OneFragmentPerIndex'
  <2> SUFFICES ASSUME RequestsInv, OneFragmentPerIndex, [Next]_vars PROVE OneFragmentPerIndex'
    OBVIOUS
  <2>1. ASSUME NEW a \in Answers, NEW i \in Indexes, ReceiveFragment(a, i)
        PROVE  OneFragmentPerIndex'
    BY <2>1, FragmentKeepsCount
  <2>2. CASE total' = 0 /\ parts' = {}
    BY <2>2 DEF OneFragmentPerIndex
  <2>3. CASE UNCHANGED <<total, parts>>
    BY <2>3 DEF OneFragmentPerIndex
  <2>4. \/ total' = 0 /\ parts' = {}
        \/ UNCHANGED <<total, parts>>
        \/ \E a \in Answers, i \in Indexes : ReceiveFragment(a, i)
    BY DEF Next, vars, reassemblyVars, Request, RequestTimeout, StallTimeout, Verified, Answer,
           ReceiveWhole, CleanUp, Close
  <2> QED  BY <2>1, <2>2, <2>3, <2>4
<1> QED  BY <1>1, <1>2, RequestsInvHolds, PTL DEF Spec

(* Together: the bookkeeping of requests is consistent in every state.     *)
THEOREM BookkeepingKept == Spec => []Bookkeeping
<1>1. TypeOK /\ OneTimerPerEntry /\ ClosedIsQuiet /\ OneFragmentPerIndex => Bookkeeping
  BY DEF Bookkeeping
<1> QED  BY <1>1, TypeCorrect, TimerWithEntry, NothingAfterClose, FragmentsCounted, PTL

(* Callers that share a request are served alike, and the only way to be   *)
(* out of reach is to have joined a request that timed out.                *)
THEOREM CallersAreServed == Spec => []CallersServed
<1>1. NobodyForgotten /\ JoinersShareAnswer => CallersServed
  BY DEF CallersServed
<1> QED  BY <1>1, WaitersReachable, AnswerShared, PTL

-----------------------------------------------------------------------------
(***************************************************************************)
(* The pool of the WebRTC store, for any stores, any size of the pool and  *)
(* any number of Peer objects: in whatever order messages, failures,       *)
(* cleanups, changes of relays and stops come, the Map of each store holds *)
(* exactly its live Peers.                                                 *)
(***************************************************************************)
(* Messages come from one store to another and name an object that exists. *)
IsMessage(m, n) ==
  /\ m.from \in Stores /\ m.to \in Stores /\ m.from # m.to
  /\ m.obj \in 0..n

MessagesOK == \A m \in msgs \cup unwrapping : IsMessage(m, made)

(* An object connects two stores; none has begun that was not made.        *)
ObjectsOK ==
  /\ \A o \in 1..made : at[o] # to[o]
  /\ \A o \in Objects : step[o] # "none" => o \in 1..made

(* The entries of the Map and the live objects are the same.               *)
IsEntry(s, t, o) == o \in 1..made /\ at[o] = s /\ to[o] = t /\ o \notin closed

EntriesLive ==
  \A s \in Stores, t \in Stores : peers[s][t] # 0 => IsEntry(s, t, peers[s][t])
LiveEntered ==
  \A o \in 1..made : o \notin closed => peers[at[o]][to[o]] = o

PoolBounded == \A s \in Stores : Cardinality(Mine(s)) <= MaxConnections

PeeringInv == PeeringTypeOK /\ MessagesOK /\ ObjectsOK /\ EntriesLive /\ LiveEntered /\ PoolBounded

-----------------------------------------------------------------------------
LEMMA PeeringInitHolds == PeeringInit => PeeringInv
<1> SUFFICES ASSUME PeeringInit PROVE PeeringInv
  OBVIOUS
<1>1. PeeringTypeOK
  <2>1. at \in [Objects -> Stores] /\ to \in [Objects -> Stores]
    <3>1. (CHOOSE s \in Stores : TRUE) \in Stores
      BY PoolAssumption
    <3> QED  BY <3>1 DEF PeeringInit
  <2>2. step \in [Objects -> Steps]
    BY DEF PeeringInit, Steps
  <2> QED  BY <2>1, <2>2, PoolAssumption DEF PeeringInit, PeeringTypeOK
<1>2. MessagesOK
  BY DEF PeeringInit, MessagesOK, IsMessage, Hello, Others
<1>3. \A s \in Stores : Mine(s) = {}
  BY DEF PeeringInit, Mine, Others
<1>4. PoolBounded
  BY <1>3, FS_EmptySet, PoolAssumption DEF PoolBounded
<1>5. ObjectsOK /\ EntriesLive /\ LiveEntered
  BY DEF PeeringInit, ObjectsOK, EntriesLive, LiveEntered
<1> QED  BY <1>1, <1>2, <1>4, <1>5 DEF PeeringInv

-----------------------------------------------------------------------------
LEMMA MadeAreObjects ==
  ASSUME PeeringTypeOK
  PROVE  /\ made \in Nat /\ MaxPeers \in Nat /\ made <= MaxPeers /\ 1..made \subseteq Objects
         /\ \A o \in 1..made : at[o] \in Stores /\ to[o] \in Stores
<1>1. made \in Nat /\ MaxPeers \in Nat /\ made <= MaxPeers
  BY PoolAssumption DEF PeeringTypeOK
<1>2. 1..made \subseteq Objects
  BY <1>1 DEF Objects
<1> QED  BY <1>1, <1>2 DEF PeeringTypeOK

(* The Peers of a store are finitely many.                                 *)
LEMMA MineFinite ==
  ASSUME PeeringTypeOK, NEW s \in Stores
  PROVE  Mine(s) \subseteq 1..made /\ IsFiniteSet(Mine(s)) /\ Cardinality(Mine(s)) \in Nat
<1>1. made \in Nat /\ Mine(s) \subseteq 1..made
  BY DEF PeeringTypeOK, Mine, Others
<1>2. IsFiniteSet(1..made)
  BY <1>1, FS_Interval
<1> QED  BY <1>1, <1>2, FS_Subset, FS_CardinalityType

(* A pool that loses Peers stays within its bound.                         *)
LEMMA PoolShrinks ==
  ASSUME PeeringInv, \A s \in Stores : Mine(s)' \subseteq Mine(s)
  PROVE  PoolBounded'
<1> SUFFICES ASSUME NEW s \in Stores PROVE Cardinality(Mine(s)') <= MaxConnections
  BY DEF PoolBounded
<1>1. IsFiniteSet(Mine(s)) /\ Cardinality(Mine(s)) <= MaxConnections /\ Cardinality(Mine(s)) \in Nat
  BY MineFinite DEF PeeringInv, PoolBounded
<1>2. PICK S : S = Mine(s)'
  OBVIOUS
<1>3. Cardinality(S) <= Cardinality(Mine(s)) /\ Cardinality(S) \in Nat
  BY <1>1, <1>2, FS_Subset, FS_CardinalityType
<1> QED  BY <1>1, <1>2, <1>3, PoolAssumption

(* Objects and Map stay as they are.                                       *)
LEMMA PoolStays ==
  ASSUME PeeringInv, UNCHANGED <<peers, made, at, to, closed>>
  PROVE  EntriesLive' /\ LiveEntered' /\ PoolBounded'
<1>1. EntriesLive' /\ LiveEntered'
  BY DEF PeeringInv, EntriesLive, LiveEntered, IsEntry
<1>2. \A s \in Stores : Mine(s)' \subseteq Mine(s)
  BY DEF Mine
<1> QED  BY <1>1, <1>2, PoolShrinks

(* Peers are closed, and their entries go in the same turn.                *)
LEMMA ClosesHold ==
  ASSUME PeeringInv, NEW gone \in SUBSET (1..made), CloseAll(gone),
         UNCHANGED <<made, at, to, step, remote, msgs, unwrapping>>,
         peers' \in [Stores -> [Stores -> 0..made]],
         \A s \in Stores, t \in Stores : peers'[s][t] = IF peers[s][t] \in gone THEN 0 ELSE peers[s][t],
         running' \in [Stores -> BOOLEAN], pendingOtherPubkeys' \in [Stores -> SUBSET Stores]
  PROVE  PeeringInv'
<1>1. closed' \subseteq 1..made /\ up' \subseteq 1..made
  BY DEF CloseAll, PeeringInv, PeeringTypeOK
<1>2. PeeringTypeOK'
  BY <1>1 DEF PeeringInv, PeeringTypeOK
<1>3. MessagesOK' /\ ObjectsOK'
  BY DEF PeeringInv, MessagesOK, ObjectsOK
<1>4. EntriesLive'
  BY DEF PeeringInv, EntriesLive, IsEntry, CloseAll
<1>5. LiveEntered'
  <2> SUFFICES ASSUME NEW o \in 1..made, o \notin closed' PROVE peers'[at[o]][to[o]] = o
    BY DEF LiveEntered
  <2>1. at[o] \in Stores /\ to[o] \in Stores
    BY MadeAreObjects DEF PeeringInv
  <2>2. o \notin closed /\ o \notin gone
    BY DEF CloseAll
  <2> QED  BY <2>1, <2>2 DEF PeeringInv, LiveEntered
<1>6. \A s \in Stores : Mine(s)' \subseteq Mine(s)
  BY DEF Mine, Others
<1>7. PoolBounded'
  BY <1>6, PoolShrinks
<1> QED  BY <1>2, <1>3, <1>4, <1>5, <1>7 DEF PeeringInv

(* A new Peer takes an entry: of none, or of the Peer it replaces.         *)
LEMMA MakesHold ==
  ASSUME PeeringInv, NEW s \in Stores, NEW t \in Stores, s # t,
         NEW stage \in Steps, NEW d \in 0..made, NewPeer(s, t, stage, d),
         peers' = [peers EXCEPT ![s][t] = made + 1],
         CloseAll({peers[s][t]} \ {0}),
         peers[s][t] # 0 \/ CanAcceptPeer(s)
  PROVE  /\ made' \in 0..MaxPeers /\ made <= made' /\ made \in Nat
         /\ peers' \in [Stores -> [Stores -> 0..made']]
         /\ at' \in [Objects -> Stores] /\ to' \in [Objects -> Stores]
         /\ step' \in [Objects -> Steps] /\ remote' \in [Objects -> 0..made']
         /\ up' \subseteq 1..made' /\ closed' \subseteq 1..made'
         /\ ObjectsOK' /\ EntriesLive' /\ LiveEntered' /\ PoolBounded'
<1>1. made \in Nat /\ made' = made + 1 /\ made + 1 \in Objects /\ made < MaxPeers
  BY PoolAssumption DEF NewPeer, Objects, PeeringInv, PeeringTypeOK
<1>2. PICK p : p = peers[s][t]
  OBVIOUS
<1>3. peers \in [Stores -> [Stores -> 0..made]] /\ p \in 0..made
  BY <1>2 DEF PeeringInv, PeeringTypeOK
<1>4. made' \in 0..MaxPeers /\ made <= made'
  BY <1>1, PoolAssumption
<1>5. peers' \in [Stores -> [Stores -> 0..made']]
  BY <1>1, <1>3
<1>6. /\ at' = [at EXCEPT ![made + 1] = s] /\ to' = [to EXCEPT ![made + 1] = t]
      /\ step' = [step EXCEPT ![made + 1] = stage]
      /\ remote' = [remote EXCEPT ![made + 1] = d]
  BY DEF NewPeer
<1>7. /\ at \in [Objects -> Stores] /\ to \in [Objects -> Stores] /\ step \in [Objects -> Steps]
      /\ remote \in [Objects -> 0..made] /\ up \subseteq 1..made /\ closed \subseteq 1..made
  BY DEF PeeringInv, PeeringTypeOK
<1>8. /\ at' \in [Objects -> Stores] /\ to' \in [Objects -> Stores]
      /\ step' \in [Objects -> Steps] /\ remote' \in [Objects -> 0..made']
  BY <1>1, <1>6, <1>7
<1>9. closed' = closed \cup ({p} \ {0}) /\ up' = up \ ({p} \ {0})
  BY <1>2 DEF CloseAll
<1>10. up' \subseteq 1..made' /\ closed' \subseteq 1..made' /\ made + 1 \notin closed'
  BY <1>1, <1>3, <1>7, <1>9
<1>11. /\ at'[made + 1] = s /\ to'[made + 1] = t
       /\ \A o \in Objects \ {made + 1} : at'[o] = at[o] /\ to'[o] = to[o] /\ step'[o] = step[o]
  BY <1>1, <1>6, <1>7
<1>12. 1..made \subseteq Objects \ {made + 1} /\ 1..made' = (1..made) \cup {made + 1}
  <2>1. 1..made \subseteq Objects
    BY MadeAreObjects DEF PeeringInv
  <2>2. made + 1 \notin 1..made /\ 1..(made + 1) = (1..made) \cup {made + 1}
    BY <1>1
  <2> QED  BY <1>1, <2>1, <2>2
<1>13. ObjectsOK'
  BY <1>1, <1>11, <1>12 DEF PeeringInv, ObjectsOK
<1>14. /\ peers'[s][t] = made + 1
       /\ \A a \in Stores, b \in Stores : a # s \/ b # t => peers'[a][b] = peers[a][b]
  BY <1>3
<1>15. EntriesLive'
  <2> SUFFICES ASSUME NEW a \in Stores, NEW b \in Stores, NEW q, q = peers'[a][b], q # 0
               PROVE  q \in 1..made' /\ at'[q] = a /\ to'[q] = b /\ q \notin closed'
    BY DEF EntriesLive, IsEntry
  <2>1. CASE a = s /\ b = t
    BY <1>10, <1>11, <1>12, <1>14, <2>1
  <2>2. CASE a # s \/ b # t
    <3>1. peers[a][b] = q
      BY <1>14, <2>2
    <3>2. q \in 1..made /\ at[q] = a /\ to[q] = b /\ q \notin closed
      BY <3>1 DEF PeeringInv, EntriesLive, IsEntry
    <3>3. p # 0 => at[p] = s /\ to[p] = t
      BY <1>2 DEF PeeringInv, EntriesLive, IsEntry
    <3>4. q # p
      BY <2>2, <3>2, <3>3
    <3> QED  BY <1>9, <1>11, <1>12, <3>2, <3>4
  <2> QED  BY <2>1, <2>2
<1>16. LiveEntered'
  <2> SUFFICES ASSUME NEW o \in 1..made', o \notin closed' PROVE peers'[at'[o]][to'[o]] = o
    BY DEF LiveEntered
  <2>1. CASE o = made + 1
    BY <1>11, <1>14, <2>1
  <2>2. CASE o \in 1..made
    <3>1. /\ at'[o] = at[o] /\ to'[o] = to[o] /\ at[o] \in Stores /\ to[o] \in Stores
          /\ o \notin closed /\ o # p
      BY <1>7, <1>9, <1>11, <1>12, <2>2
    <3>2. peers[at[o]][to[o]] = o
      BY <2>2, <3>1 DEF PeeringInv, LiveEntered
    <3>3. at[o] # s \/ to[o] # t
      BY <1>2, <3>1, <3>2
    <3> QED  BY <1>14, <3>1, <3>2, <3>3
  <2> QED  BY <1>12, <2>1, <2>2
<1>17. PoolBounded'
  <2> SUFFICES ASSUME NEW a \in Stores PROVE Cardinality(Mine(a)') <= MaxConnections
    BY DEF PoolBounded
  <2>1. PICK S : S = Mine(a)'
    OBVIOUS
  <2>2. PICK T : T = Mine(a)
    OBVIOUS
  <2>3. /\ IsFiniteSet(T) /\ Cardinality(T) <= MaxConnections /\ Cardinality(T) \in Nat
        /\ T \subseteq 1..made
    BY <2>2, MineFinite DEF PeeringInv, PoolBounded
  <2>4. CASE a # s
    <3>1. S = T
      BY <1>14, <2>1, <2>2, <2>4 DEF Mine, Others
    <3> QED  BY <2>1, <2>3, <3>1
  <2>5. CASE a = s /\ p = 0
    <3>1. S \subseteq T \cup {made + 1}
      BY <1>14, <2>1, <2>2, <2>5 DEF Mine, Others
    <3>2. made + 1 \notin T
      BY <1>1, <2>3
    <3>3. IsFiniteSet(T \cup {made + 1}) /\ Cardinality(T \cup {made + 1}) = Cardinality(T) + 1
      BY <2>3, <3>2, FS_AddElement
    <3>4. Cardinality(S) <= Cardinality(T) + 1 /\ Cardinality(S) \in Nat
      BY <3>1, <3>3, FS_Subset, FS_CardinalityType
    <3>5. Cardinality(T) < MaxConnections
      BY <1>2, <2>2, <2>5 DEF CanAcceptPeer
    <3> QED  BY <2>1, <2>3, <3>4, <3>5, PoolAssumption
  <2>6. CASE a = s /\ p # 0
    <3>1. p \in T
      BY <1>2, <2>2, <2>6 DEF Mine, Others
    <3>2. S \subseteq (T \ {p}) \cup {made + 1}
      <4> SUFFICES ASSUME NEW b \in Others(s), peers'[s][b] # 0
                   PROVE  peers'[s][b] \in (T \ {p}) \cup {made + 1}
        BY <2>1, <2>6 DEF Mine
      <4>1. CASE b = t
        BY <1>14, <4>1
      <4>2. CASE b # t
        <5>1. peers'[s][b] = peers[s][b] /\ b \in Stores
          BY <1>14, <4>2 DEF Others
        <5>2. to[peers[s][b]] = b /\ to[p] = t
          BY <1>2, <2>6, <5>1 DEF PeeringInv, EntriesLive, IsEntry
        <5>3. peers[s][b] \in T
          BY <2>2, <2>6, <5>1 DEF Mine
        <5> QED  BY <4>2, <5>1, <5>2, <5>3
      <4> QED  BY <4>1, <4>2
    <3>3. IsFiniteSet(T \ {p}) /\ Cardinality(T \ {p}) = Cardinality(T) - 1 /\ made + 1 \notin T \ {p}
      BY <1>1, <2>3, <3>1, FS_RemoveElement
    <3>4. /\ IsFiniteSet((T \ {p}) \cup {made + 1})
          /\ Cardinality((T \ {p}) \cup {made + 1}) = Cardinality(T)
      <4>1. PICK U : U = T \ {p}
        OBVIOUS
      <4>2. IsFiniteSet(U) /\ Cardinality(U) = Cardinality(T) - 1 /\ made + 1 \notin U
        BY <3>3, <4>1
      <4>3. IsFiniteSet(U \cup {made + 1}) /\ Cardinality(U \cup {made + 1}) = Cardinality(U) + 1
        BY <4>2, FS_AddElement
      <4> QED  BY <2>3, <4>1, <4>2, <4>3
    <3>5. Cardinality(S) <= Cardinality(T) /\ Cardinality(S) \in Nat
      BY <3>2, <3>4, FS_Subset, FS_CardinalityType
    <3> QED  BY <2>1, <2>3, <3>5, PoolAssumption
  <2> QED  BY <2>4, <2>5, <2>6
<1> QED  BY <1>1, <1>4, <1>5, <1>8, <1>10, <1>13, <1>15, <1>16, <1>17

-----------------------------------------------------------------------------
LEMMA HelloHolds ==
  ASSUME PeeringInv, NEW s \in Stores, NEW t \in Stores, HandleHello(s, t)
  PROVE  PeeringInv'
<1>1. t # s /\ msgs' \subseteq msgs /\ unwrapping' = unwrapping
  <2>1. IsMessage(Hello(t, s), made)
    BY DEF HandleHello, PeeringInv, MessagesOK
  <2> QED  BY <2>1 DEF IsMessage, Hello, HandleHello
<1>2. running' = running /\ up' = up /\ closed' = closed
  BY DEF HandleHello
<1>3. CASE CanAcceptPeer(s) /\ ~HasOtherPoolPubkey(s, t)
  <2>1. /\ NewPeer(s, t, "offering", 0)
        /\ peers' = [peers EXCEPT ![s][t] = made + 1]
        /\ pendingOtherPubkeys' = [pendingOtherPubkeys EXCEPT ![s] = @ \cup {t}]
    BY <1>3 DEF HandleHello
  <2>2. peers[s][t] = 0
    BY <1>3 DEF HasOtherPoolPubkey
  <2>3. CloseAll({peers[s][t]} \ {0})
    BY <1>2, <2>2 DEF CloseAll
  <2>4. "offering" \in Steps /\ 0 \in 0..made
    BY MadeAreObjects DEF Steps, PeeringInv
  <2>5. /\ made' \in 0..MaxPeers /\ made <= made' /\ made \in Nat
        /\ peers' \in [Stores -> [Stores -> 0..made']]
        /\ at' \in [Objects -> Stores] /\ to' \in [Objects -> Stores]
        /\ step' \in [Objects -> Steps] /\ remote' \in [Objects -> 0..made']
        /\ up' \subseteq 1..made' /\ closed' \subseteq 1..made'
        /\ ObjectsOK' /\ EntriesLive' /\ LiveEntered' /\ PoolBounded'
    BY <1>1, <1>3, <2>1, <2>3, <2>4, MakesHold
  <2>6. pendingOtherPubkeys' \in [Stores -> SUBSET Stores] /\ running' \in [Stores -> BOOLEAN]
    BY <1>2, <2>1 DEF PeeringInv, PeeringTypeOK
  <2>7. PeeringTypeOK'
    BY <2>5, <2>6 DEF PeeringTypeOK
  <2>8. MessagesOK'
    BY <1>1, <2>5 DEF PeeringInv, MessagesOK, IsMessage
  <2> QED  BY <2>5, <2>7, <2>8 DEF PeeringInv
<1>4. CASE ~(CanAcceptPeer(s) /\ ~HasOtherPoolPubkey(s, t))
  <2>1. UNCHANGED <<made, at, to, step, remote, peers, pendingOtherPubkeys>>
    BY <1>4 DEF HandleHello, poolVars
  <2>2. PeeringTypeOK' /\ ObjectsOK'
    BY <1>2, <2>1 DEF PeeringInv, PeeringTypeOK, ObjectsOK
  <2>3. MessagesOK'
    BY <1>1, <2>1 DEF PeeringInv, MessagesOK, IsMessage
  <2> QED  BY <1>2, <2>1, <2>2, <2>3, PoolStays DEF PeeringInv
<1> QED  BY <1>3, <1>4

LEMMA OfferHolds ==
  ASSUME PeeringInv, NEW m \in unwrapping, HandleOffer(m)
  PROVE  PeeringInv'
<1>1. PICK s \in Stores : s = m.to
  BY DEF PeeringInv, MessagesOK, IsMessage
<1>2. PICK t \in Stores : t = m.from /\ s # t
  BY <1>1 DEF PeeringInv, MessagesOK, IsMessage
<1>3. m.obj \in 0..made /\ msgs' = msgs /\ unwrapping' \subseteq unwrapping /\ running' = running
  BY DEF PeeringInv, MessagesOK, IsMessage, HandleOffer
<1>4. CASE peers[s][t] # 0 \/ (CanAcceptPeer(s) /\ ~HasOtherPoolPubkey(s, t))
  <2>1. /\ CloseAll({peers[s][t]} \ {0})
        /\ NewPeer(s, t, "answering", m.obj)
        /\ peers' = [peers EXCEPT ![s][t] = made + 1]
        /\ pendingOtherPubkeys' = [pendingOtherPubkeys EXCEPT ![s] = @ \ {t}]
    BY <1>1, <1>2, <1>4 DEF HandleOffer
  <2>2. "answering" \in Steps
    BY DEF Steps
  <2>3. /\ made' \in 0..MaxPeers /\ made <= made' /\ made \in Nat
        /\ peers' \in [Stores -> [Stores -> 0..made']]
        /\ at' \in [Objects -> Stores] /\ to' \in [Objects -> Stores]
        /\ step' \in [Objects -> Steps] /\ remote' \in [Objects -> 0..made']
        /\ up' \subseteq 1..made' /\ closed' \subseteq 1..made'
        /\ ObjectsOK' /\ EntriesLive' /\ LiveEntered' /\ PoolBounded'
    BY <1>2, <1>3, <1>4, <2>1, <2>2, MakesHold
  <2>4. pendingOtherPubkeys' \in [Stores -> SUBSET Stores] /\ running' \in [Stores -> BOOLEAN]
    BY <1>3, <2>1 DEF PeeringInv, PeeringTypeOK
  <2>5. PeeringTypeOK'
    BY <2>3, <2>4 DEF PeeringTypeOK
  <2>6. MessagesOK'
    BY <1>3, <2>3 DEF PeeringInv, MessagesOK, IsMessage
  <2> QED  BY <2>3, <2>5, <2>6 DEF PeeringInv
<1>5. CASE ~(peers[s][t] # 0 \/ (CanAcceptPeer(s) /\ ~HasOtherPoolPubkey(s, t)))
  <2>1. UNCHANGED <<objVars, poolVars>>
    BY <1>1, <1>2, <1>5 DEF HandleOffer
  <2>2. PeeringTypeOK' /\ ObjectsOK'
    BY <1>3, <2>1 DEF objVars, poolVars, PeeringInv, PeeringTypeOK, ObjectsOK
  <2>3. MessagesOK'
    BY <1>3, <2>1 DEF objVars, PeeringInv, MessagesOK, IsMessage
  <2>4. EntriesLive' /\ LiveEntered' /\ PoolBounded'
    BY <2>1, PoolStays DEF objVars, poolVars
  <2> QED  BY <2>2, <2>3, <2>4 DEF PeeringInv
<1> QED  BY <1>4, <1>5

(* Messages come and go, and a negotiation gets on: Map and objects stay.  *)
LEMMA StepHolds ==
  ASSUME PeeringInv, UNCHANGED <<running, peers, made, at, to, closed>>,
         pendingOtherPubkeys' \in [Stores -> SUBSET Stores],
         step' \in [Objects -> Steps], \A o \in Objects : step'[o] # "none" => step[o] # "none",
         remote' \in [Objects -> 0..made], up' \subseteq 1..made,
         \A m \in msgs' \cup unwrapping' : IsMessage(m, made)
  PROVE  PeeringInv'
<1>1. PeeringTypeOK'
  BY DEF PeeringInv, PeeringTypeOK
<1>2. MessagesOK'
  BY DEF MessagesOK
<1>3. ObjectsOK'
  BY DEF PeeringInv, ObjectsOK
<1> QED  BY <1>1, <1>2, <1>3, PoolStays DEF PeeringInv

LEMMA NegotiationHolds ==
  ASSUME PeeringInv, NEW o \in Objects,
         OfferMade(o) \/ OfferSent(o) \/ AnswerMade(o) \/ AnswerSent(o) \/ Connected(o)
  PROVE  PeeringInv'
<1>1. /\ pendingOtherPubkeys \in [Stores -> SUBSET Stores] /\ step \in [Objects -> Steps]
      /\ remote \in [Objects -> 0..made] /\ up \subseteq 1..made /\ at \in [Objects -> Stores]
      /\ to \in [Objects -> Stores] /\ made \in Nat
  BY DEF PeeringInv, PeeringTypeOK
<1>2. \A m \in msgs \cup unwrapping : IsMessage(m, made)
  BY DEF PeeringInv, MessagesOK
<1>3. ASSUME NEW kind, step[o] # "none"
      PROVE  IsMessage([kind |-> kind, from |-> at[o], to |-> to[o], obj |-> o], made)
  <2>1. o \in 1..made /\ at[o] # to[o]
    BY <1>3 DEF PeeringInv, ObjectsOK
  <2> QED  BY <1>1, <2>1 DEF IsMessage
<1>4. {"done", "wrapping offer", "offered", "wrapping answer"} \subseteq Steps
  BY DEF Steps
<1>5. CASE OfferMade(o)
  BY <1>1, <1>2, <1>4, <1>5, StepHolds DEF OfferMade, relayVars
<1>6. CASE OfferSent(o)
  BY <1>1, <1>2, <1>3, <1>4, <1>6, StepHolds DEF OfferSent
<1>7. CASE AnswerMade(o)
  BY <1>1, <1>2, <1>4, <1>7, StepHolds DEF AnswerMade, relayVars, poolVars
<1>8. CASE AnswerSent(o)
  BY <1>1, <1>2, <1>3, <1>4, <1>8, StepHolds DEF AnswerSent, poolVars
<1>9. CASE Connected(o)
  BY <1>1, <1>2, <1>9, StepHolds DEF Connected, Paired, Live, relayVars, poolVars
<1> QED  BY <1>5, <1>6, <1>7, <1>8, <1>9

LEMMA MessageHolds ==
  ASSUME PeeringInv
  PROVE  /\ \A s \in Stores : SendHello(s) => PeeringInv'
         /\ \A m \in msgs : Receive(m) => PeeringInv'
         /\ \A m \in unwrapping : HandleAnswer(m) => PeeringInv'
<1>1. /\ pendingOtherPubkeys \in [Stores -> SUBSET Stores] /\ step \in [Objects -> Steps]
      /\ remote \in [Objects -> 0..made] /\ up \subseteq 1..made /\ made \in Nat
  BY DEF PeeringInv, PeeringTypeOK
<1>2. \A m \in msgs \cup unwrapping : IsMessage(m, made)
  BY DEF PeeringInv, MessagesOK
<1>3. ASSUME NEW s \in Stores, SendHello(s) PROVE PeeringInv'
  <2>1. \A t \in Others(s) : IsMessage(Hello(s, t), made)
    BY <1>1 DEF IsMessage, Hello, Others
  <2> QED  BY <1>1, <1>2, <1>3, <2>1, StepHolds DEF SendHello, poolVars, objVars
<1>4. ASSUME NEW m \in msgs, Receive(m) PROVE PeeringInv'
  BY <1>1, <1>2, <1>4, StepHolds DEF Receive, poolVars, objVars
<1>5. ASSUME NEW m \in unwrapping, HandleAnswer(m) PROVE PeeringInv'
  <2>1. m.obj \in 0..made
    BY <1>2 DEF IsMessage
  <2>2. remote' \in [Objects -> 0..made]
    BY <1>1, <1>5, <2>1 DEF HandleAnswer
  <2> QED  BY <1>1, <1>2, <1>5, <2>2, StepHolds DEF HandleAnswer, poolVars
<1> QED  BY <1>3, <1>4, <1>5

LEMMA ClosingHolds ==
  ASSUME PeeringInv
  PROVE  /\ \A o \in Objects : Failed(o) \/ CleanupConnections(o) => PeeringInv'
         /\ \A s \in Stores : SetRelays(s) \/ Stop(s) => PeeringInv'
<1>1. /\ pendingOtherPubkeys \in [Stores -> SUBSET Stores] /\ running \in [Stores -> BOOLEAN]
      /\ peers \in [Stores -> [Stores -> 0..made]] /\ made \in Nat
  BY DEF PeeringInv, PeeringTypeOK
<1>2. ASSUME NEW o \in Objects, Failed(o) \/ CleanupConnections(o) PROVE PeeringInv'
  <2>1. /\ {o} \in SUBSET (1..made) /\ CloseAll({o}) /\ peers' = Without(peers, {o})
        /\ UNCHANGED <<running, pendingOtherPubkeys, made, at, to, step, remote, msgs, unwrapping>>
    BY <1>2 DEF Failed, CleanupConnections, Live, relayVars
  <2>2. \A s \in Stores, t \in Stores :
          peers'[s][t] = IF peers[s][t] \in {o} THEN 0 ELSE peers[s][t]
    BY <2>1 DEF Without
  <2>3. peers' \in [Stores -> [Stores -> 0..made]]
    BY <1>1, <2>1 DEF Without
  <2> QED  BY <1>1, <2>1, <2>2, <2>3, ClosesHold
<1>3. ASSUME NEW s \in Stores, SetRelays(s) \/ Stop(s) PROVE PeeringInv'
  <2>1. /\ CloseAll(Mine(s)) /\ peers' = [peers EXCEPT ![s] = [t \in Stores |-> 0]]
        /\ UNCHANGED <<made, at, to, step, remote, msgs, unwrapping>>
    BY <1>3 DEF SetRelays, Stop, relayVars
  <2>2. Mine(s) \in SUBSET (1..made)
    BY MineFinite DEF PeeringInv
  <2>3. peers' \in [Stores -> [Stores -> 0..made]]
    BY <1>1, <2>1
  <2>4. running' \in [Stores -> BOOLEAN] /\ pendingOtherPubkeys' \in [Stores -> SUBSET Stores]
    BY <1>1, <1>3 DEF SetRelays, Stop
  <2>5. ASSUME NEW a \in Stores, NEW b \in Stores
        PROVE  peers'[a][b] = IF peers[a][b] \in Mine(s) THEN 0 ELSE peers[a][b]
    <3>1. peers[a][b] # 0 => at[peers[a][b]] = a /\ to[peers[a][b]] = b /\ a # b
      BY DEF PeeringInv, EntriesLive, IsEntry, ObjectsOK
    <3>2. CASE a = s
      BY <1>1, <2>1, <3>1, <3>2 DEF Mine, Others
    <3>3. CASE a # s
      <4>1. \A o \in Mine(s) : at[o] = s /\ o # 0
        BY DEF Mine, Others, PeeringInv, EntriesLive, IsEntry
      <4> QED  BY <1>1, <2>1, <3>1, <3>3, <4>1
    <3> QED  BY <3>2, <3>3
  <2> QED  BY <2>1, <2>2, <2>3, <2>4, <2>5, ClosesHold
<1> QED  BY <1>2, <1>3

-----------------------------------------------------------------------------
LEMMA PeeringNextHolds == PeeringInv /\ [PeeringNext]_peeringVars => PeeringInv'
<1> SUFFICES ASSUME PeeringInv, [PeeringNext]_peeringVars PROVE PeeringInv'
  OBVIOUS
<1>1. CASE \E s \in Stores : SendHello(s) \/ SetRelays(s) \/ Stop(s)
  BY <1>1, MessageHolds, ClosingHolds
<1>2. CASE \E s \in Stores, t \in Stores : HandleHello(s, t)
  BY <1>2, HelloHolds
<1>3. CASE \E m \in msgs : Receive(m)
  BY <1>3, MessageHolds
<1>4. CASE \E m \in unwrapping : HandleOffer(m) \/ HandleAnswer(m)
  BY <1>4, OfferHolds, MessageHolds
<1>5. CASE \E o \in Objects :
             \/ OfferMade(o) \/ OfferSent(o) \/ AnswerMade(o) \/ AnswerSent(o)
             \/ Connected(o) \/ Failed(o) \/ CleanupConnections(o)
  BY <1>5, NegotiationHolds, ClosingHolds
<1>6. CASE UNCHANGED peeringVars
  <2>1. PeeringTypeOK' /\ MessagesOK' /\ ObjectsOK'
    BY <1>6 DEF peeringVars, PeeringInv, PeeringTypeOK, MessagesOK, ObjectsOK
  <2> QED  BY <1>6, <2>1, PoolStays DEF peeringVars, PeeringInv
<1> QED  BY <1>1, <1>2, <1>3, <1>4, <1>5, <1>6 DEF PeeringNext

(* Messages name stores and objects that exist, objects connect two stores,*)
(* and the Map and the live objects agree, as long as the system runs.     *)
THEOREM PeeringInvHolds == PeeringSpec => []PeeringInv
<1>1. PeeringInit => PeeringInv
  BY PeeringInitHolds
<1>2. PeeringInv /\ [PeeringNext]_peeringVars => PeeringInv'
  BY PeeringNextHolds
<1> QED  BY <1>1, <1>2, PTL DEF PeeringSpec

(* Whatever closes, replaces or fails when: the Map of each store holds    *)
(* exactly its live Peers, under the ids they connect to, and never more   *)
(* than the pool has room for.                                             *)
THEOREM MapHoldsLivePeers == PeeringSpec => []PeersAreLive
<1>1. ASSUME PeeringInv PROVE PeersAreLive
  <2>1. ASSUME NEW s \in Stores PROVE Mine(s) = {o \in 1..made : at[o] = s /\ o \notin closed}
    <3>1. ASSUME NEW o \in Mine(s) PROVE o \in 1..made /\ at[o] = s /\ o \notin closed
      BY <1>1, <3>1 DEF Mine, Others, PeeringInv, EntriesLive, IsEntry
    <3>2. ASSUME NEW o \in 1..made, at[o] = s, o \notin closed PROVE o \in Mine(s)
      <4>1. peers[s][to[o]] = o /\ to[o] \in Others(s) /\ o # 0
        <5>1. to[o] \in Stores /\ at[o] # to[o] /\ peers[at[o]][to[o]] = o /\ o # 0
          BY <1>1, <3>2, MadeAreObjects DEF PeeringInv, LiveEntered, ObjectsOK
        <5> QED  BY <3>2, <5>1 DEF Others
      <4> QED  BY <4>1 DEF Mine
    <3> QED  BY <3>1, <3>2
  <2>2. \A s \in Stores, t \in Stores : peers[s][t] # 0 => to[peers[s][t]] = t
    BY <1>1 DEF PeeringInv, EntriesLive, IsEntry
  <2> QED  BY <1>1, <2>1, <2>2 DEF PeersAreLive, PeeringInv, PoolBounded
<1> QED  BY <1>1, PeeringInvHolds, PTL

-----------------------------------------------------------------------------
(***************************************************************************)
(* The reads of the WebRTC store, for any reads, arrays, hashes and peers: *)
(* a read that waits is one that a scan will serve, and what it returns is *)
(* what was found.                                                         *)
(***************************************************************************)
(* A scan of a hash has its key and its list from the start, the scan of a *)
(* peer has them while it asks for them.                                   *)
IsScan(s) ==
  /\ s = [peer |-> s.peer, key |-> s.key, array |-> s.array, left |-> s.left,
          at |-> s.at, asking |-> s.asking]
  /\ s.peer \in Peers \cup {Unset}
  /\ s.peer = Unset => s.left \subseteq Peers
  /\ s.peer = Unset \/ s.at # "next" => s.key \in Refs /\ s.array \in Reads

ScansOK == \A s \in scans : IsScan(s)

(* The fetch in the Map is one of that hash.                               *)
FetchOfHash == \A h \in Hashes : pendingGets[h] # Unset => Hash(pendingGets[h]) = h

(* A scan will ask a peer what the reads in a list under a key want: that  *)
(* of the peer, unless it has passed the key, or one of the hash, if it    *)
(* goes through this very list.                                            *)
Asks(s, p, k, list) ==
  \/ s.peer = p /\ k \notin s.left
  \/ s.peer = Unset /\ s.key = k /\ s.array = list /\ p \in s.left

Listed(r) ==
  /\ state[r] = "waiting" /\ pendingReqs[ref[r]] # Unset
  /\ r \in arrays[pendingReqs[ref[r]]]

Reached ==
  \A r \in Reads : Listed(r) =>
    \A p \in connected \ tried[r] :
      \E s \in scans : Asks(s, p, ref[r], pendingReqs[ref[r]])

ReadsInv == ReadsTypeOK /\ ScansOK /\ OneFetchPerHash /\ FetchOfHash /\ Reached

-----------------------------------------------------------------------------
LEMMA ReadsInitHolds == ReadsInit => ReadsInv
<1> SUFFICES ASSUME ReadsInit PROVE ReadsInv
  OBVIOUS
<1>1. ReadsTypeOK
  BY ReadsAssumption DEF ReadsInit, ReadsTypeOK, States
<1>2. ScansOK /\ Reached
  BY DEF ReadsInit, ScansOK, Reached, Listed
<1>3. OneFetchPerHash /\ FetchOfHash
  BY DEF ReadsInit, OneFetchPerHash, FetchOfHash, Hash, Hashes
<1> QED  BY <1>1, <1>2, <1>3 DEF ReadsInv

-----------------------------------------------------------------------------
LEMMA HashOfRead ==
  ASSUME ReadsTypeOK, NEW r \in Reads
  PROVE  Hash(r) \in Hashes /\ ref[r] \in Refs
BY DEF ReadsTypeOK, Hash, Hashes

(* The reads behind a fetch return and the fetch goes: what is left is one *)
(* fetch per hash still.                                                   *)
LEMMA SettleKeeps ==
  ASSUME ReadsInv, NEW rs \in SUBSET Reads, NEW v \in {"data", "null"}, SettleReads(rs, v),
         ref' = ref
  PROVE  /\ OneFetchPerHash' /\ FetchOfHash'
         /\ state' \in [Reads -> States] /\ value' \in [Reads -> {"data", "null", Unset}]
         /\ pendingGets' \in [Hashes -> Reads \cup {Unset}]
         /\ \A q \in Reads : state'[q] = state[q] \/ state'[q] = "done"
         /\ \A q \in rs : state'[q] = "done"
<1> DEFINE all == UNION {Sharing(r) : r \in rs}
<1>1. /\ state' = [q \in Reads |-> IF q \in all THEN "done" ELSE state[q]]
      /\ value' = [q \in Reads |-> IF q \in all THEN v ELSE value[q]]
      /\ pendingGets' = [h \in Hashes |-> IF pendingGets[h] \in rs THEN Unset ELSE pendingGets[h]]
  BY DEF SettleReads
<1>2. \A q : q \in all <=>
        q \in rs \/ (q \in Reads /\ state[q] = "joined" /\ \E r \in rs : Hash(q) = Hash(r))
  BY DEF Sharing
<1> HIDE DEF all
<1>3. /\ state \in [Reads -> States] /\ value \in [Reads -> {"data", "null", Unset}]
      /\ pendingGets \in [Hashes -> Reads \cup {Unset}]
  BY DEF ReadsInv, ReadsTypeOK
<1>4. \A q \in Reads : Hash(q) \in Hashes /\ Hash(q)' = Hash(q)
  BY HashOfRead DEF ReadsInv, Hash
<1>5. /\ state' \in [Reads -> States] /\ value' \in [Reads -> {"data", "null", Unset}]
      /\ pendingGets' \in [Hashes -> Reads \cup {Unset}]
  BY <1>1, <1>3 DEF States
<1>6. \A q \in Reads : state'[q] = IF q \in all THEN "done" ELSE state[q]
  BY <1>1
<1>7. \A h \in Hashes : pendingGets'[h] = IF pendingGets[h] \in rs THEN Unset ELSE pendingGets[h]
  BY <1>1
<1>8. FetchOfHash'
  BY <1>3, <1>4, <1>7 DEF ReadsInv, FetchOfHash, Hash
<1>9. ASSUME NEW r \in Reads
      PROVE  /\ state'[r] = "joined" => pendingGets'[Hash(r)] # Unset
             /\ state'[r] \in {"querying", "storing", "fallback", "waiting"} =>
                  pendingGets'[Hash(r)] = r
  <2>1. CASE r \in all
    BY <1>6, <2>1
  <2>2. CASE r \notin all
    <3>1. state'[r] = state[r] /\ r \notin rs
      BY <1>2, <1>6, <2>2
    <3>2. state[r] = "joined" => pendingGets[Hash(r)] # Unset /\ pendingGets[Hash(r)] \notin rs
      <4> SUFFICES ASSUME state[r] = "joined", pendingGets[Hash(r)] \in rs PROVE FALSE
        BY DEF ReadsInv, OneFetchPerHash
      <4>1. Hash(pendingGets[Hash(r)]) = Hash(r)
        BY <1>4, ReadsAssumption DEF ReadsInv, FetchOfHash
      <4> QED  BY <1>2, <2>2, <4>1
    <3>3. state[r] \in {"querying", "storing", "fallback", "waiting"} => pendingGets[Hash(r)] = r
      BY DEF ReadsInv, OneFetchPerHash
    <3> QED  BY <1>4, <1>7, <3>1, <3>2, <3>3
  <2> QED  BY <2>1, <2>2
<1>10. ASSUME NEW h \in Hashes, pendingGets'[h] # Unset
       PROVE  state'[pendingGets'[h]] \notin {"idle", "joined", "done"}
  <2>1. PICK x \in Reads : x = pendingGets[h] /\ x \notin rs /\ pendingGets'[h] = x
    BY <1>3, <1>7, <1>10
  <2>2. state[x] \notin {"idle", "joined", "done"}
    BY <2>1, ReadsAssumption DEF ReadsInv, OneFetchPerHash
  <2>3. x \notin all
    BY <1>2, <2>1, <2>2
  <2> QED  BY <1>6, <2>1, <2>2, <2>3
<1>11. OneFetchPerHash'
  BY <1>4, <1>9, <1>10 DEF OneFetchPerHash, Hash, Hashes
<1>12. \A q \in rs : state'[q] = "done"
  BY <1>2, <1>6
<1> QED  BY <1>5, <1>6, <1>8, <1>11, <1>12

(* A read goes from one place of its fetch to another.                     *)
Active == {"querying", "storing", "fallback", "waiting"}

LEMMA GotoKeeps ==
  ASSUME ReadsInv, NEW r \in Reads, NEW where \in Active, state[r] \in Active, Goto(r, where),
         ref' = ref, pendingGets' = pendingGets
  PROVE  /\ OneFetchPerHash' /\ FetchOfHash' /\ state' \in [Reads -> States]
         /\ state'[r] = where /\ \A q \in Reads \ {r} : state'[q] = state[q]
<1>1. /\ state' = [state EXCEPT ![r] = where] /\ state \in [Reads -> States]
      /\ pendingGets \in [Hashes -> Reads \cup {Unset}]
  BY DEF Goto, ReadsInv, ReadsTypeOK
<1>2. state'[r] = where /\ \A q \in Reads \ {r} : state'[q] = state[q]
  BY <1>1
<1>3. state' \in [Reads -> States]
  BY <1>1 DEF States, Active
<1>4. \A q \in Reads : Hash(q)' = Hash(q)
  BY DEF Hash
<1>5. FetchOfHash'
  BY <1>1 DEF ReadsInv, FetchOfHash, Hash
<1>6. pendingGets[Hash(r)] = r
  BY DEF ReadsInv, OneFetchPerHash, Active
<1>7. OneFetchPerHash'
  BY <1>1, <1>2, <1>4, <1>6 DEF ReadsInv, OneFetchPerHash, Active, Hash, Hashes
<1> QED  BY <1>2, <1>3, <1>5, <1>7

LEMMA FetchStays ==
  ASSUME ReadsInv, UNCHANGED <<ref, state, pendingGets>>
  PROVE  OneFetchPerHash' /\ FetchOfHash'
BY DEF ReadsInv, OneFetchPerHash, FetchOfHash, Hash, Hashes

-----------------------------------------------------------------------------
(* No read is listed anew, no peer connects, and whatever a scan would ask *)
(* is still asked by one, or was asked now.                                *)
LEMMA ReachStays ==
  ASSUME ReadsInv, ref' = ref, connected' \subseteq connected,
         \A r \in Reads : tried[r] \subseteq tried'[r],
         \A r \in Reads : Listed(r)' => Listed(r) /\ pendingReqs'[ref[r]] = pendingReqs[ref[r]],
         \A s \in scans, p \in Peers, k \in Refs :
           pendingReqs'[k] # Unset /\ Asks(s, p, k, pendingReqs[k]) =>
             \/ \E u \in scans' : Asks(u, p, k, pendingReqs[k])
             \/ \A r \in arrays[pendingReqs[k]] : p \in tried'[r]
  PROVE  Reached'
<1> SUFFICES ASSUME NEW r \in Reads, Listed(r)', NEW p \in connected' \ tried'[r]
             PROVE  \E s \in scans' : Asks(s, p, ref[r], pendingReqs'[ref[r]])
  BY DEF Reached, Asks
<1>1. Listed(r) /\ pendingReqs'[ref[r]] = pendingReqs[ref[r]] /\ pendingReqs'[ref[r]] # Unset
  BY DEF Listed
<1>2. p \in connected \ tried[r] /\ p \in Peers /\ ref[r] \in Refs
  BY DEF ReadsInv, ReadsTypeOK
<1>3. PICK s \in scans : Asks(s, p, ref[r], pendingReqs[ref[r]])
  BY <1>1, <1>2 DEF ReadsInv, Reached
<1>4. r \in arrays[pendingReqs[ref[r]]]
  BY <1>1 DEF Listed
<1> QED  BY <1>1, <1>2, <1>3, <1>4

(* Scans stay or come, and lists only lose reads.                          *)
LEMMA ReachOnlyLoses ==
  ASSUME ReadsInv, ref' = ref, connected' \subseteq connected,
         \A r \in Reads : tried[r] \subseteq tried'[r], pendingReqs' = pendingReqs, arrays' = arrays,
         \A r \in Reads : state'[r] = "waiting" => state[r] = "waiting",
         scans \subseteq scans'
  PROVE  Reached'
<1>1. \A r \in Reads : Listed(r)' => Listed(r) /\ pendingReqs'[ref[r]] = pendingReqs[ref[r]]
  BY DEF Listed
<1>2. \A s \in scans, p \in Peers, k \in Refs :
           pendingReqs'[k] # Unset /\ Asks(s, p, k, pendingReqs[k]) =>
             \/ \E u \in scans' : Asks(u, p, k, pendingReqs[k])
             \/ \A r \in arrays[pendingReqs[k]] : p \in tried'[r]
  OBVIOUS
<1> QED  BY <1>1, <1>2, ReachStays
-----------------------------------------------------------------------------
LEMMA TypeFacts ==
  ASSUME ReadsInv
  PROVE  /\ ref \in [Reads -> Refs] /\ connected \subseteq Peers
         /\ state \in [Reads -> States] /\ value \in [Reads -> {"data", "null", Unset}]
         /\ tried \in [Reads -> SUBSET Peers] /\ unasked \in [Reads -> SUBSET Peers]
         /\ pendingGets \in [Hashes -> Reads \cup {Unset}]
         /\ pendingReqs \in [Refs -> Reads \cup {Unset}] /\ arrays \in [Reads -> SUBSET Reads]
         /\ local \subseteq Hashes
BY DEF ReadsInv, ReadsTypeOK

LEMMA GetHolds ==
  ASSUME ReadsInv, NEW r \in Reads, Get(r)
  PROVE  ReadsInv'
<1> USE ReadsAssumption
<1>1. PICK h \in Hashes : h = Hash(r)
  BY HashOfRead DEF ReadsInv
<1>2. /\ state[r] = "idle" /\ UNCHANGED <<linkVars, local, tried, pendingReqs, arrays, scans>>
      /\ Hash(r)' = Hash(r) /\ ref' = ref
  BY DEF Get, linkVars, Hash
<1>3. \A q \in Reads : Hash(q) \in Hashes /\ Hash(q)' = Hash(q)
  BY <1>2, HashOfRead DEF ReadsInv, Hash
<1>4. /\ OneFetchPerHash' /\ FetchOfHash'
      /\ state' \in [Reads -> States] /\ value' \in [Reads -> {"data", "null", Unset}]
      /\ unasked' \in [Reads -> SUBSET Peers]
      /\ pendingGets' \in [Hashes -> Reads \cup {Unset}]
      /\ \A q \in Reads : state'[q] = "waiting" => state[q] = "waiting"
  <2>1. CASE /\ state' = [state EXCEPT ![r] = "done"] /\ value' = [value EXCEPT ![r] = "data"]
             /\ UNCHANGED <<unasked, pendingGets>>
    <3>1. /\ state' \in [Reads -> States] /\ value' \in [Reads -> {"data", "null", Unset}]
          /\ state'[r] = "done" /\ \A q \in Reads \ {r} : state'[q] = state[q]
      BY <2>1, TypeFacts DEF States
    <3>2. OneFetchPerHash'
      BY <1>2, <1>3, <2>1, <3>1, TypeFacts DEF ReadsInv, OneFetchPerHash, Hashes
    <3>3. FetchOfHash'
      BY <1>3, <2>1, TypeFacts DEF ReadsInv, FetchOfHash, Hash, Hashes
    <3> QED  BY <2>1, <3>1, <3>2, <3>3, TypeFacts
  <2>2. CASE /\ pendingGets[h] # Unset /\ state' = [state EXCEPT ![r] = "joined"]
             /\ UNCHANGED <<value, unasked, pendingGets>>
    <3>1. /\ state' \in [Reads -> States]
          /\ state'[r] = "joined" /\ \A q \in Reads \ {r} : state'[q] = state[q]
      BY <2>2, TypeFacts DEF States
    <3>2. OneFetchPerHash'
      BY <1>1, <1>2, <1>3, <2>2, <3>1, TypeFacts DEF ReadsInv, OneFetchPerHash, Hashes
    <3>3. FetchOfHash'
      BY <1>3, <2>2, TypeFacts DEF ReadsInv, FetchOfHash, Hash, Hashes
    <3> QED  BY <2>2, <3>1, <3>2, <3>3, TypeFacts
  <2>3. CASE /\ pendingGets[h] = Unset /\ pendingGets' = [pendingGets EXCEPT ![h] = r]
             /\ state' = [state EXCEPT ![r] = "querying"]
             /\ unasked' = [unasked EXCEPT ![r] = connected] /\ UNCHANGED value
    <3>1. /\ state' \in [Reads -> States] /\ unasked' \in [Reads -> SUBSET Peers]
          /\ state'[r] = "querying" /\ \A q \in Reads \ {r} : state'[q] = state[q]
      BY <2>3, TypeFacts DEF States
    <3>2. /\ pendingGets' \in [Hashes -> Reads \cup {Unset}] /\ pendingGets'[h] = r
          /\ \A g \in Hashes \ {h} : pendingGets'[g] = pendingGets[g]
      BY <2>3, TypeFacts
    <3>3. ASSUME NEW q \in Reads
          PROVE  /\ state'[q] = "joined" => pendingGets'[Hash(q)] # Unset
                 /\ state'[q] \in {"querying", "storing", "fallback", "waiting"} =>
                      pendingGets'[Hash(q)] = q
      BY <1>1, <1>3, <2>3, <3>1, <3>2 DEF ReadsInv, OneFetchPerHash
    <3>4. \A g \in Hashes : pendingGets'[g] # Unset =>
            state'[pendingGets'[g]] \notin {"idle", "joined", "done"}
      BY <1>2, <3>1, <3>2, TypeFacts DEF ReadsInv, OneFetchPerHash
    <3>5. OneFetchPerHash'
      BY <1>3, <3>3, <3>4 DEF OneFetchPerHash, Hashes
    <3>6. FetchOfHash'
      BY <1>1, <1>3, <3>2, TypeFacts DEF ReadsInv, FetchOfHash, Hashes
    <3> QED  BY <2>3, <3>1, <3>2, <3>5, <3>6, TypeFacts
  <2> QED  BY <1>1, <2>1, <2>2, <2>3 DEF Get, Goto
<1>5. ReadsTypeOK'
  BY <1>2, <1>4 DEF ReadsInv, ReadsTypeOK, linkVars, Hashes
<1>6. ScansOK'
  BY <1>2 DEF ReadsInv, ScansOK
<1>7. Reached'
  BY <1>2, <1>4, ReachOnlyLoses DEF linkVars
<1> QED  BY <1>4, <1>5, <1>6, <1>7 DEF ReadsInv

(* The peers are asked in waves, and the query ends.                       *)
LEMMA QueryHolds ==
  ASSUME ReadsInv, NEW r \in Reads,
         \/ \E wave \in SUBSET unasked[r] : Wave(r, wave)
         \/ WaveAnswer(r) \/ QueryOver(r)
  PROVE  ReadsInv'
<1>1. UNCHANGED <<linkVars, local, value, pendingGets, pendingReqs, arrays, scans>>
  BY DEF Wave, WaveAnswer, QueryOver, reqVars
<1>2. /\ OneFetchPerHash' /\ FetchOfHash' /\ state' \in [Reads -> States]
      /\ \A q \in Reads : state'[q] = "waiting" => state[q] = "waiting"
  <2>1. CASE UNCHANGED state
    BY <1>1, <2>1, FetchStays, TypeFacts DEF linkVars
  <2>2. CASE ~UNCHANGED state
    <3>1. PICK where \in {"storing", "fallback"} : state[r] = "querying" /\ Goto(r, where)
      BY <2>2 DEF Wave, WaveAnswer, QueryOver
    <3>2. where \in Active /\ state[r] \in Active
      BY <3>1 DEF Active
    <3> QED  BY <1>1, <3>1, <3>2, GotoKeeps DEF linkVars
  <2> QED  BY <2>1, <2>2
<1>3. /\ tried' \in [Reads -> SUBSET Peers] /\ \A q \in Reads : tried[q] \subseteq tried'[q]
      /\ unasked' \in [Reads -> SUBSET Peers]
  BY TypeFacts DEF Wave, WaveAnswer, QueryOver
<1>4. ReadsTypeOK'
  BY <1>1, <1>2, <1>3 DEF ReadsInv, ReadsTypeOK, linkVars, Hashes
<1>5. ScansOK'
  BY <1>1 DEF ReadsInv, ScansOK
<1>6. Reached'
  BY <1>1, <1>2, <1>3, ReachOnlyLoses DEF linkVars
<1> QED  BY <1>2, <1>4, <1>5, <1>6 DEF ReadsInv

LEMMA StoredHolds ==
  ASSUME ReadsInv, NEW r \in Reads, ReadStored(r)
  PROVE  ReadsInv'
<1>1. /\ SettleReads({r}, "data") /\ local' = local \cup {Hash(r)}
      /\ unasked' = [unasked EXCEPT ![r] = {}]
      /\ UNCHANGED <<linkVars, tried, pendingReqs, arrays, scans>>
  BY DEF ReadStored
<1>2. {r} \in SUBSET Reads /\ "data" \in {"data", "null"} /\ ref' = ref
  BY <1>1 DEF linkVars
<1>3. /\ OneFetchPerHash' /\ FetchOfHash'
      /\ state' \in [Reads -> States] /\ value' \in [Reads -> {"data", "null", Unset}]
      /\ pendingGets' \in [Hashes -> Reads \cup {Unset}]
      /\ \A q \in Reads : state'[q] = state[q] \/ state'[q] = "done"
  BY <1>1, <1>2, SettleKeeps
<1>4. unasked' \in [Reads -> SUBSET Peers] /\ local' \subseteq Hashes
  BY <1>1, TypeFacts, HashOfRead DEF ReadsInv
<1>5. ReadsTypeOK'
  BY <1>1, <1>3, <1>4 DEF ReadsInv, ReadsTypeOK, linkVars, Hashes
<1>6. ScansOK'
  BY <1>1 DEF ReadsInv, ScansOK
<1>7. Reached'
  BY <1>1, <1>3, ReachOnlyLoses DEF linkVars
<1> QED  BY <1>3, <1>5, <1>6, <1>7 DEF ReadsInv
-----------------------------------------------------------------------------
(* A read that is listed gets a scan of its own, which goes through all    *)
(* connected peers for everybody in the list.                              *)
LEMMA WaitsHold ==
  ASSUME ReadsInv, NEW r \in Reads, state[r] = "fallback", Goto(r, "waiting"),
         pendingReqs' = [pendingReqs EXCEPT ![ref[r]] = IF @ = Unset THEN r ELSE @],
         arrays' = [arrays EXCEPT ![pendingReqs'[ref[r]]] = @ \cup {r}],
         ReachNow(r), UNCHANGED <<linkVars, local, tried, unasked, value, pendingGets>>
  PROVE  ReadsInv'
<1> USE ReadsAssumption
<1>1. PICK k \in Refs : k = ref[r]
  BY TypeFacts
<1>2. PICK list \in Reads : list = IF pendingReqs[k] = Unset THEN r ELSE pendingReqs[k]
  BY <1>1, TypeFacts
<1>3. /\ pendingReqs' \in [Refs -> Reads \cup {Unset}] /\ pendingReqs'[k] = list
      /\ \A j \in Refs \ {k} : pendingReqs'[j] = pendingReqs[j]
  BY <1>1, <1>2, TypeFacts
<1>4. /\ arrays' \in [Reads -> SUBSET Reads]
      /\ \A a \in Reads : arrays'[a] = IF a = list THEN arrays[a] \cup {r} ELSE arrays[a]
  <2>1. PICK more : more = arrays[list] \cup {r}
    OBVIOUS
  <2>2. arrays' = [arrays EXCEPT ![list] = more] /\ more \in SUBSET Reads
    BY <1>1, <1>3, <2>1, TypeFacts
  <2> QED  BY <2>1, <2>2, TypeFacts
<1>5. PICK n : n = [peer |-> Unset, key |-> k, array |-> list, left |-> connected,
                    at |-> "next", asking |-> Unset]
  OBVIOUS
<1>6. n.peer = Unset /\ n.key = k /\ n.array = list /\ n.left = connected /\ IsScan(n)
  BY <1>1, <1>2, <1>5, TypeFacts DEF IsScan
<1>7. scans' = scans \cup {n}
  BY <1>1, <1>2, <1>5 DEF ReachNow, Reach
<1>8. ref' = ref /\ connected' = connected /\ tried' = tried
  BY DEF linkVars
<1>9. /\ OneFetchPerHash' /\ FetchOfHash' /\ state' \in [Reads -> States]
      /\ state'[r] = "waiting" /\ \A q \in Reads \ {r} : state'[q] = state[q]
  BY <1>8, GotoKeeps DEF Active
<1>10. ReadsTypeOK'
  BY <1>3, <1>4, <1>8, <1>9 DEF ReadsInv, ReadsTypeOK, linkVars, Hashes
<1>11. ScansOK'
  BY <1>6, <1>7 DEF ReadsInv, ScansOK, IsScan
<1>12. ASSUME NEW q \in Reads, Listed(q)', NEW p \in connected \ tried[q]
       PROVE  \E s \in scans' : Asks(s, p, ref[q], pendingReqs'[ref[q]])
  <2>1. CASE ref[q] = k
    <3>1. Asks(n, p, ref[q], pendingReqs'[ref[q]])
      BY <1>3, <1>6, <1>12, <2>1 DEF Asks
    <3> QED  BY <1>7, <3>1
  <2>2. CASE ref[q] # k
    <3>1. q # r /\ ref[q] \in Refs /\ pendingReqs'[ref[q]] = pendingReqs[ref[q]]
      BY <1>1, <1>3, <2>2, TypeFacts
    <3>2. /\ state[q] = "waiting" /\ pendingReqs[ref[q]] # Unset
          /\ q \in arrays'[pendingReqs[ref[q]]]
      BY <1>8, <1>9, <1>12, <3>1 DEF Listed
    <3>3. pendingReqs[ref[q]] \in Reads
      BY <3>1, <3>2, TypeFacts
    <3>4. Listed(q)
      BY <1>4, <3>1, <3>2, <3>3 DEF Listed
    <3>5. \E s \in scans : Asks(s, p, ref[q], pendingReqs[ref[q]])
      BY <1>12, <3>4 DEF ReadsInv, Reached
    <3> QED  BY <1>7, <3>1, <3>5
  <2> QED  BY <2>1, <2>2
<1>13. Reached'
  BY <1>8, <1>12 DEF Reached, Asks
<1> QED  BY <1>9, <1>10, <1>11, <1>13 DEF ReadsInv

LEMMA FallbackHolds ==
  ASSUME ReadsInv, NEW r \in Reads, NEW found \in BOOLEAN, FallbackAnswer(r, found)
  PROVE  ReadsInv'
<1>1. state[r] = "fallback" /\ UNCHANGED <<linkVars, local, tried, unasked>> /\ ref' = ref
  BY DEF FallbackAnswer, linkVars
<1>2. CASE Goto(r, "storing") /\ UNCHANGED <<value, reqVars, scans>>
  <2>1. /\ OneFetchPerHash' /\ FetchOfHash' /\ state' \in [Reads -> States]
        /\ \A q \in Reads : state'[q] = "waiting" => state[q] = "waiting"
    BY <1>1, <1>2, GotoKeeps DEF Active, reqVars
  <2>2. ReadsTypeOK'
    BY <1>1, <1>2, <2>1 DEF ReadsInv, ReadsTypeOK, linkVars, reqVars, Hashes
  <2>3. ScansOK'
    BY <1>2 DEF ReadsInv, ScansOK
  <2>4. Reached'
    BY <1>1, <1>2, <2>1, ReachOnlyLoses DEF linkVars, reqVars
  <2> QED  BY <2>1, <2>2, <2>3, <2>4 DEF ReadsInv
<1>3. CASE SettleReads({r}, "null") /\ UNCHANGED <<pendingReqs, arrays, scans>>
  <2>1. {r} \in SUBSET Reads /\ "null" \in {"data", "null"}
    OBVIOUS
  <2>2. /\ OneFetchPerHash' /\ FetchOfHash'
        /\ state' \in [Reads -> States] /\ value' \in [Reads -> {"data", "null", Unset}]
        /\ pendingGets' \in [Hashes -> Reads \cup {Unset}]
        /\ \A q \in Reads : state'[q] = state[q] \/ state'[q] = "done"
    BY <1>1, <1>3, <2>1, SettleKeeps
  <2>3. ReadsTypeOK'
    BY <1>1, <1>3, <2>2 DEF ReadsInv, ReadsTypeOK, linkVars, Hashes
  <2>4. ScansOK'
    BY <1>3 DEF ReadsInv, ScansOK
  <2>5. Reached'
    BY <1>1, <1>3, <2>2, ReachOnlyLoses DEF linkVars
  <2> QED  BY <2>2, <2>3, <2>4, <2>5 DEF ReadsInv
<1> QED  BY <1>1, <1>2, <1>3, WaitsHold DEF FallbackAnswer

-----------------------------------------------------------------------------
(* What a deletion from the Map makes a scan meet again does not make it   *)
(* ask less.                                                               *)
LEMMA ForgetKeeps ==
  ASSUME NEW S, NEW k, \A s \in S : IsScan(s)
  PROVE  /\ \A s \in Forget(S, k) : IsScan(s)
         /\ \A s \in S, p \in Peers, j \in Refs : \A list :
              Asks(s, p, j, list) => \E u \in Forget(S, k) : Asks(u, p, j, list)
<1>1. ASSUME NEW s \in S
      PROVE  /\ IsScan(IF s.peer = Unset THEN s ELSE [s EXCEPT !.left = @ \ {k}])
             /\ \A p \in Peers, j \in Refs : \A list : Asks(s, p, j, list) =>
                  Asks(IF s.peer = Unset THEN s ELSE [s EXCEPT !.left = @ \ {k}], p, j, list)
  <2>1. PICK m : m = s.left \ {k}
    OBVIOUS
  <2>2. PICK u : u = IF s.peer = Unset THEN s ELSE [s EXCEPT !.left = m]
    OBVIOUS
  <2>3. u = IF s.peer = Unset THEN s ELSE [s EXCEPT !.left = @ \ {k}]
    BY <2>1, <2>2
  <2>4. IsScan(s)
    OBVIOUS
  <2>5. CASE s.peer = Unset
    BY <2>2, <2>3, <2>4, <2>5
  <2>6. CASE s.peer # Unset
    <3>1. /\ u = [peer |-> u.peer, key |-> u.key, array |-> u.array, left |-> u.left,
                  at |-> u.at, asking |-> u.asking]
          /\ u.peer = s.peer /\ u.key = s.key /\ u.array = s.array /\ u.left = m /\ u.at = s.at
      BY <2>2, <2>4, <2>6 DEF IsScan
    <3>2. IsScan(u)
      BY <2>4, <2>6, <3>1 DEF IsScan
    <3>3. \A p \in Peers, j \in Refs : \A list : Asks(s, p, j, list) => Asks(u, p, j, list)
      BY <2>1, <2>6, <3>1 DEF Asks
    <3> QED  BY <2>3, <3>2, <3>3
  <2> QED  BY <2>5, <2>6
<1>2. \A s \in S : (IF s.peer = Unset THEN s ELSE [s EXCEPT !.left = @ \ {k}]) \in Forget(S, k)
  BY DEF Forget
<1>3. \A u \in Forget(S, k) : \E s \in S :
        u = IF s.peer = Unset THEN s ELSE [s EXCEPT !.left = @ \ {k}]
  BY DEF Forget
<1>4. \A s \in Forget(S, k) : IsScan(s)
  BY <1>1, <1>3
<1>5. ASSUME NEW s \in S, NEW p \in Peers, NEW j \in Refs, NEW list, Asks(s, p, j, list)
      PROVE  \E u \in Forget(S, k) : Asks(u, p, j, list)
  BY <1>1, <1>2, <1>5
<1> QED  BY <1>4, <1>5

LEMMA TimeOutHolds ==
  ASSUME ReadsInv, NEW r \in Reads, TimeOut(r)
  PROVE  ReadsInv'
<1> USE ReadsAssumption
<1>1. PICK k \in Refs : k = ref[r]
  BY TypeFacts
<1>2. PICK list \in Reads \cup {Unset} : list = pendingReqs[k]
  BY TypeFacts
<1>3. PICK gone \in BOOLEAN : gone = (list # Unset /\ arrays[list] = {r})
  OBVIOUS
<1>4. /\ arrays' = IF list = Unset THEN arrays ELSE [arrays EXCEPT ![list] = @ \ {r}]
      /\ pendingReqs' = [pendingReqs EXCEPT ![k] = IF gone THEN Unset ELSE @]
      /\ scans' = IF gone THEN Forget(scans, k) ELSE scans
      /\ SettleReads({r}, "null") /\ UNCHANGED <<linkVars, local, tried, unasked>>
  BY <1>1, <1>2, <1>3 DEF TimeOut
<1>5. {r} \in SUBSET Reads /\ "null" \in {"data", "null"} /\ ref' = ref
      /\ connected' = connected /\ tried' = tried
  BY <1>4 DEF linkVars
<1>6. /\ OneFetchPerHash' /\ FetchOfHash'
      /\ state' \in [Reads -> States] /\ value' \in [Reads -> {"data", "null", Unset}]
      /\ pendingGets' \in [Hashes -> Reads \cup {Unset}]
      /\ \A q \in Reads : state'[q] = state[q] \/ state'[q] = "done"
  BY <1>4, <1>5, SettleKeeps
<1>7. /\ arrays' \in [Reads -> SUBSET Reads] /\ \A a \in Reads : arrays'[a] \subseteq arrays[a]
      /\ pendingReqs' \in [Refs -> Reads \cup {Unset}]
      /\ \A j \in Refs : pendingReqs'[j] # Unset => pendingReqs'[j] = pendingReqs[j]
  BY <1>1, <1>2, <1>4, TypeFacts
<1>8. ReadsTypeOK'
  BY <1>4, <1>6, <1>7 DEF ReadsInv, ReadsTypeOK, linkVars, Hashes
<1>9. ScansOK'
  BY <1>4, ForgetKeeps DEF ReadsInv, ScansOK
<1>10. \A s \in scans, p \in Peers, j \in Refs : \A l : Asks(s, p, j, l) => \E u \in scans' : Asks(u, p, j, l)
  BY <1>4, ForgetKeeps DEF ReadsInv, ScansOK
<1>11. \A q \in Reads : Listed(q)' => Listed(q) /\ pendingReqs'[ref[q]] = pendingReqs[ref[q]]
  <2> SUFFICES ASSUME NEW q \in Reads, Listed(q)'
               PROVE  Listed(q) /\ pendingReqs'[ref[q]] = pendingReqs[ref[q]]
    OBVIOUS
  <2>1. /\ state'[q] = "waiting" /\ pendingReqs'[ref[q]] # Unset
        /\ q \in arrays'[pendingReqs'[ref[q]]] /\ ref[q] \in Refs
    BY <1>5, TypeFacts DEF Listed
  <2>2. pendingReqs'[ref[q]] = pendingReqs[ref[q]] /\ pendingReqs[ref[q]] \in Reads
    BY <1>7, <2>1, TypeFacts
  <2> QED  BY <1>6, <1>7, <2>1, <2>2 DEF Listed
<1>12. Reached'
  BY <1>5, <1>10, <1>11, ReachStays
<1> QED  BY <1>6, <1>8, <1>9, <1>12 DEF ReadsInv
-----------------------------------------------------------------------------
(* A scan goes on, and the reads it asks for are marked.                   *)
LEMMA MarkedFacts ==
  ASSUME ReadsInv, NEW rs, NEW p \in Peers, tried' = Marked(rs, p)
  PROVE  /\ tried' \in [Reads -> SUBSET Peers]
         /\ \A r \in Reads : tried[r] \subseteq tried'[r] /\ (r \in rs => p \in tried'[r])
BY TypeFacts DEF Marked

(* One scan is replaced by another that still asks what the first did, but *)
(* for what has been asked now.                                            *)
LEMMA ScanMoves ==
  ASSUME ReadsInv, NEW s \in scans, NEW u, IsScan(u), scans' = (scans \ {s}) \cup {u},
         tried' \in [Reads -> SUBSET Peers], \A r \in Reads : tried[r] \subseteq tried'[r],
         \A p \in Peers, k \in Refs :
           pendingReqs[k] # Unset /\ Asks(s, p, k, pendingReqs[k]) =>
             Asks(u, p, k, pendingReqs[k]) \/ \A r \in arrays[pendingReqs[k]] : p \in tried'[r],
         UNCHANGED <<linkVars, local, state, value, unasked, reqVars>>
  PROVE  ReadsInv'
<1>1. ref' = ref /\ connected' = connected /\ pendingReqs' = pendingReqs /\ arrays' = arrays
      /\ state' = state /\ pendingGets' = pendingGets
  BY DEF linkVars, reqVars
<1>2. OneFetchPerHash' /\ FetchOfHash'
  BY <1>1, FetchStays
<1>3. ReadsTypeOK'
  BY DEF ReadsInv, ReadsTypeOK, linkVars, reqVars, Hashes
<1>4. ScansOK'
  BY DEF ReadsInv, ScansOK, IsScan
<1>5. \A r \in Reads : Listed(r)' => Listed(r) /\ pendingReqs'[ref[r]] = pendingReqs[ref[r]]
  BY <1>1 DEF Listed
<1>6. \A v \in scans, p \in Peers, k \in Refs :
           pendingReqs'[k] # Unset /\ Asks(v, p, k, pendingReqs[k]) =>
             \/ \E w \in scans' : Asks(w, p, k, pendingReqs[k])
             \/ \A r \in arrays[pendingReqs[k]] : p \in tried'[r]
  <2> SUFFICES ASSUME NEW v \in scans, NEW p \in Peers, NEW k \in Refs,
                      pendingReqs[k] # Unset, Asks(v, p, k, pendingReqs[k])
               PROVE  \/ \E w \in scans' : Asks(w, p, k, pendingReqs[k])
                      \/ \A r \in arrays[pendingReqs[k]] : p \in tried'[r]
    BY <1>1
  <2>1. CASE v = s
    BY <2>1
  <2>2. CASE v # s
    BY <2>2
  <2> QED  BY <2>1, <2>2
<1>7. Reached'
  BY <1>1, <1>5, <1>6, ReachStays
<1> QED  BY <1>2, <1>3, <1>4, <1>7 DEF ReadsInv

LEMMA HashScanHolds ==
  ASSUME ReadsInv, NEW s \in scans, NEW p \in Peers, HashScanStep(s, p)
  PROVE  ReadsInv'
<1> USE ReadsAssumption
<1>1. IsScan(s) /\ s.peer = Unset /\ s.at = "next" /\ p \in s.left
      /\ s.key \in Refs /\ s.array \in Reads
  BY DEF ReadsInv, ScansOK, IsScan, HashScanStep
<1>2. PICK rs : rs = Untried(s.array, p)
  OBVIOUS
<1>3. PICK rest : rest = s.left \ {p}
  OBVIOUS
<1>4. PICK u : u = IF rs = {} THEN [s EXCEPT !.left = rest]
                   ELSE [s EXCEPT !.left = rest, !.at = "asking", !.asking = p]
  OBVIOUS
<1>5. /\ u = [peer |-> u.peer, key |-> u.key, array |-> u.array, left |-> u.left,
              at |-> u.at, asking |-> u.asking]
      /\ u.peer = Unset /\ u.key = s.key /\ u.array = s.array /\ u.left = rest
  BY <1>1, <1>4 DEF IsScan
<1>6. IsScan(u)
  BY <1>1, <1>3, <1>5 DEF IsScan
<1>7. tried' = Marked(rs, p) /\ scans' = (scans \ {s}) \cup {u}
      /\ UNCHANGED <<linkVars, local, state, value, unasked, reqVars>>
  BY <1>1, <1>2, <1>3, <1>4 DEF HashScanStep, IsScan
<1>8. /\ tried' \in [Reads -> SUBSET Peers]
      /\ \A r \in Reads : tried[r] \subseteq tried'[r] /\ (r \in rs => p \in tried'[r])
  BY <1>7, MarkedFacts
<1>9. ASSUME NEW j \in Peers, NEW k \in Refs, pendingReqs[k] # Unset, Asks(s, j, k, pendingReqs[k])
      PROVE  Asks(u, j, k, pendingReqs[k]) \/ \A r \in arrays[pendingReqs[k]] : j \in tried'[r]
  <2>1. s.key = k /\ s.array = pendingReqs[k] /\ j \in s.left
    BY <1>1, <1>9 DEF Asks
  <2>2. CASE j # p
    BY <1>3, <1>5, <2>1, <2>2 DEF Asks
  <2>3. CASE j = p
    <3>1. \A r \in arrays[s.array] : r \in Reads /\ (r \in rs \/ p \in tried[r])
      BY <1>1, <1>2, TypeFacts DEF Untried
    <3> QED  BY <1>8, <2>1, <2>3, <3>1
  <2> QED  BY <2>2, <2>3
<1> QED  BY <1>6, <1>7, <1>8, <1>9, ScanMoves

LEMMA PeerScanHolds ==
  ASSUME ReadsInv, NEW s \in scans, NEW k \in Refs, PeerScanStep(s, k)
  PROVE  ReadsInv'
<1> USE ReadsAssumption
<1>1. /\ IsScan(s) /\ s.peer \in Peers /\ s.at = "next" /\ k \notin s.left
      /\ pendingReqs[k] \in Reads
  BY TypeFacts DEF ReadsInv, ScansOK, IsScan, PeerScanStep
<1>2. PICK list : list = pendingReqs[k]
  OBVIOUS
<1>3. PICK p : p = s.peer
  OBVIOUS
<1>4. PICK rs : rs = Untried(list, p)
  OBVIOUS
<1>5. PICK passed : passed = s.left \cup {k}
  OBVIOUS
<1>6. PICK u : u = IF rs = {} THEN [s EXCEPT !.left = passed]
                   ELSE [s EXCEPT !.left = passed, !.key = k, !.array = list,
                                  !.at = "asking", !.asking = p]
  OBVIOUS
<1>7. /\ u = [peer |-> u.peer, key |-> u.key, array |-> u.array, left |-> u.left,
              at |-> u.at, asking |-> u.asking]
      /\ u.peer = p /\ u.left = passed
      /\ \/ u.at = "next"
         \/ u.key = k /\ u.array = list
  BY <1>1, <1>3, <1>6 DEF IsScan
<1>8. IsScan(u)
  BY <1>1, <1>2, <1>3, <1>7 DEF IsScan
<1>9. tried' = Marked(rs, p) /\ scans' = (scans \ {s}) \cup {u}
      /\ UNCHANGED <<linkVars, local, state, value, unasked, reqVars>>
  <2>1. tried' = Marked(rs, p) /\ UNCHANGED <<linkVars, local, state, value, unasked, reqVars>>
    BY <1>2, <1>3, <1>4 DEF PeerScanStep
  <2>2. u = IF rs = {} THEN [s EXCEPT !.left = @ \cup {k}]
            ELSE [[s EXCEPT !.left = @ \cup {k}] EXCEPT
                    !.key = k, !.array = pendingReqs[k], !.at = "asking", !.asking = s.peer]
    BY <1>1, <1>2, <1>3, <1>5, <1>6 DEF IsScan
  <2> QED  BY <1>2, <1>3, <1>4, <2>1, <2>2 DEF PeerScanStep
<1>10. /\ tried' \in [Reads -> SUBSET Peers]
       /\ \A r \in Reads : tried[r] \subseteq tried'[r] /\ (r \in rs => p \in tried'[r])
  BY <1>1, <1>3, <1>9, MarkedFacts
<1>11. ASSUME NEW j \in Peers, NEW l \in Refs, pendingReqs[l] # Unset, Asks(s, j, l, pendingReqs[l])
       PROVE  Asks(u, j, l, pendingReqs[l]) \/ \A r \in arrays[pendingReqs[l]] : j \in tried'[r]
  <2>1. p = j /\ l \notin s.left
    BY <1>1, <1>3, <1>11 DEF Asks
  <2>2. CASE l # k
    BY <1>5, <1>7, <2>1, <2>2 DEF Asks
  <2>3. CASE l = k
    <3>1. \A r \in arrays[list] : r \in Reads /\ (r \in rs \/ p \in tried[r])
      BY <1>1, <1>2, <1>4, TypeFacts DEF Untried
    <3> QED  BY <1>2, <1>10, <2>1, <2>3, <3>1
  <2> QED  BY <2>2, <2>3
<1> QED  BY <1>8, <1>9, <1>10, <1>11, ScanMoves

LEMMA ScanAnswerHolds ==
  ASSUME ReadsInv, NEW s \in scans, NEW found \in BOOLEAN, ScanAnswer(s, found)
  PROVE  ReadsInv'
<1>1. PICK where : where = IF found THEN "storing" ELSE "next"
  OBVIOUS
<1>2. PICK u : u = [s EXCEPT !.at = where, !.asking = Unset]
  OBVIOUS
<1>3. IsScan(s) /\ s.at = "asking"
  BY DEF ReadsInv, ScansOK, ScanAnswer
<1>4. /\ u = [peer |-> u.peer, key |-> u.key, array |-> u.array, left |-> u.left,
              at |-> u.at, asking |-> u.asking]
      /\ u.peer = s.peer /\ u.key = s.key /\ u.array = s.array /\ u.left = s.left
  BY <1>2, <1>3 DEF IsScan
<1>5. IsScan(u)
  BY <1>3, <1>4 DEF IsScan
<1>6. scans' = (scans \ {s}) \cup {u} /\ UNCHANGED <<linkVars, local, state, value, unasked, reqVars>>
      /\ tried' = tried
  BY <1>1, <1>2 DEF ScanAnswer, getVars
<1>7. \A p \in Peers, k \in Refs : Asks(s, p, k, pendingReqs[k]) => Asks(u, p, k, pendingReqs[k])
  BY <1>4 DEF Asks
<1> QED  BY <1>5, <1>6, <1>7, TypeFacts, ScanMoves

LEMMA ScanOverHolds ==
  ASSUME ReadsInv, NEW s \in scans, ScanOver(s)
  PROVE  ReadsInv'
<1>1. /\ scans' = scans \ {s} /\ UNCHANGED <<linkVars, local, getVars, reqVars>>
      /\ IF s.peer = Unset THEN s.left = {} ELSE \A k \in Refs \ s.left : pendingReqs[k] = Unset
  BY DEF ScanOver
<1>2. ref' = ref /\ connected' = connected /\ pendingReqs' = pendingReqs /\ arrays' = arrays
      /\ state' = state /\ pendingGets' = pendingGets /\ tried' = tried
  BY <1>1 DEF linkVars, getVars, reqVars
<1>3. OneFetchPerHash' /\ FetchOfHash'
  BY <1>2, FetchStays
<1>4. ReadsTypeOK'
  BY <1>1 DEF ReadsInv, ReadsTypeOK, linkVars, getVars, reqVars, Hashes
<1>5. ScansOK'
  BY <1>1 DEF ReadsInv, ScansOK
<1>6. \A r \in Reads : Listed(r)' => Listed(r) /\ pendingReqs'[ref[r]] = pendingReqs[ref[r]]
  BY <1>2 DEF Listed
<1>7. \A p \in Peers, k \in Refs : pendingReqs[k] # Unset => ~Asks(s, p, k, pendingReqs[k])
  BY <1>1, ReadsAssumption DEF Asks
<1>8. Reached'
  BY <1>1, <1>2, <1>6, <1>7, ReachStays
<1> QED  BY <1>3, <1>4, <1>5, <1>8 DEF ReadsInv
(* What was found is stored, a list is resolved, and the one in the Map,   *)
(* the same or another, goes: nobody under that key is listed any more.    *)
LEMMA ScanStoredHolds ==
  ASSUME ReadsInv, NEW s \in scans, ScanStored(s)
  PROVE  ReadsInv'
<1> USE ReadsAssumption
<1>1. IsScan(s) /\ s.at = "storing" /\ s.key \in Refs /\ s.array \in Reads
  BY DEF ReadsInv, ScansOK, IsScan, ScanStored
<1>2. PICK k \in Refs : k = s.key
  BY <1>1
<1>3. PICK list \in Reads \cup {Unset} : list = IF s.peer = Unset THEN pendingReqs[k] ELSE s.array
  BY <1>1, TypeFacts
<1>4. PICK u : u = [s EXCEPT !.at = "next"]
  OBVIOUS
<1>5. PICK rest : rest = IF s.peer = Unset THEN scans \ {s} ELSE (scans \ {s}) \cup {u}
  OBVIOUS
<1>6. /\ local' = local \cup {HashOf[k]}
      /\ \/ UNCHANGED <<state, value, pendingGets>>
         \/ list # Unset /\ SettleReads(Waiting(list), "data")
      /\ pendingReqs' = [pendingReqs EXCEPT ![k] = Unset]
      /\ scans' = IF pendingReqs[k] = Unset THEN rest ELSE Forget(rest, k)
      /\ UNCHANGED <<linkVars, tried, unasked, arrays>>
  BY <1>2, <1>3, <1>4, <1>5 DEF ScanStored
<1>7. ref' = ref /\ connected' = connected /\ tried' = tried
  BY <1>6 DEF linkVars
<1>8. /\ OneFetchPerHash' /\ FetchOfHash'
      /\ state' \in [Reads -> States] /\ value' \in [Reads -> {"data", "null", Unset}]
      /\ pendingGets' \in [Hashes -> Reads \cup {Unset}]
      /\ \A q \in Reads : state'[q] = "waiting" => state[q] = "waiting"
  <2>1. CASE UNCHANGED <<state, value, pendingGets>>
    BY <1>7, <2>1, FetchStays, TypeFacts DEF Hashes
  <2>2. CASE list # Unset /\ SettleReads(Waiting(list), "data")
    <3>1. Waiting(list) \in SUBSET Reads /\ "data" \in {"data", "null"}
      BY <1>3, <2>2, TypeFacts DEF Waiting
    <3> QED  BY <1>7, <2>2, <3>1, SettleKeeps
  <2> QED  BY <1>6, <2>1, <2>2
<1>9. /\ pendingReqs' \in [Refs -> Reads \cup {Unset}]
      /\ \A j \in Refs : pendingReqs'[j] # Unset => j # k /\ pendingReqs'[j] = pendingReqs[j]
  BY <1>6, TypeFacts
<1>10. ReadsTypeOK'
  BY <1>6, <1>8, <1>9, TypeFacts DEF ReadsInv, ReadsTypeOK, linkVars, Hashes
<1>11. u.peer = s.peer /\ u.left = s.left /\ (s.peer # Unset => IsScan(u))
  BY <1>1, <1>4 DEF IsScan
<1>12. \A v \in rest : IsScan(v)
  BY <1>5, <1>11 DEF ReadsInv, ScansOK
<1>13. ScansOK'
  BY <1>6, <1>12, ForgetKeeps DEF ScansOK, IsScan
<1>14. ASSUME NEW v \in scans, NEW p \in Peers, NEW j \in Refs, j # k, Asks(v, p, j, pendingReqs[j])
       PROVE  \E w \in rest : Asks(w, p, j, pendingReqs[j])
  <2>1. CASE v # s
    BY <1>5, <1>14, <2>1
  <2>2. CASE v = s /\ s.peer = Unset
    BY <1>2, <1>14, <2>2 DEF Asks
  <2>3. CASE v = s /\ s.peer # Unset
    <3>1. Asks(u, p, j, pendingReqs[j]) /\ u \in rest
      BY <1>5, <1>11, <1>14, <2>3 DEF Asks
    <3> QED  BY <3>1
  <2> QED  BY <2>1, <2>2, <2>3
<1>15. \A w \in rest, p \in Peers, j \in Refs : \A l : Asks(w, p, j, l) => \E x \in scans' : Asks(x, p, j, l)
  BY <1>6, <1>12, ForgetKeeps
<1>16. \A v \in scans, p \in Peers, j \in Refs :
         pendingReqs'[j] # Unset /\ Asks(v, p, j, pendingReqs[j]) =>
           \/ \E w \in scans' : Asks(w, p, j, pendingReqs[j])
           \/ \A r \in arrays[pendingReqs[j]] : p \in tried'[r]
  BY <1>9, <1>14, <1>15
<1>17. \A q \in Reads : Listed(q)' => Listed(q) /\ pendingReqs'[ref[q]] = pendingReqs[ref[q]]
  <2> SUFFICES ASSUME NEW q \in Reads, Listed(q)'
               PROVE  Listed(q) /\ pendingReqs'[ref[q]] = pendingReqs[ref[q]]
    OBVIOUS
  <2>1. /\ state'[q] = "waiting" /\ pendingReqs'[ref[q]] # Unset
        /\ q \in arrays[pendingReqs'[ref[q]]] /\ ref[q] \in Refs
    BY <1>6, <1>7, TypeFacts DEF Listed
  <2> QED  BY <1>8, <1>9, <2>1 DEF Listed
<1>18. Reached'
  BY <1>7, <1>16, <1>17, ReachStays
<1> QED  BY <1>8, <1>10, <1>13, <1>18 DEF ReadsInv

-----------------------------------------------------------------------------
(* A peer that connects is scanned for at once.                            *)
LEMMA ConnectHolds ==
  ASSUME ReadsInv, NEW p \in Peers, Connect(p)
  PROVE  ReadsInv'
<1> USE ReadsAssumption
<1>1. PICK n : n = [peer |-> p, key |-> Unset, array |-> Unset, left |-> {}, at |-> "next", asking |-> Unset]
  OBVIOUS
<1>2. n.peer = p /\ n.left = {} /\ IsScan(n)
  BY <1>1 DEF IsScan
<1>3. /\ scans' = scans \cup {n} /\ connected' = connected \cup {p} /\ connects' = connects + 1
      /\ connects < MaxConnects /\ UNCHANGED <<ref, started, local, getVars, reqVars>>
  BY <1>1 DEF Connect
<1>4. pendingReqs' = pendingReqs /\ arrays' = arrays /\ state' = state /\ pendingGets' = pendingGets
      /\ tried' = tried /\ ref' = ref
  BY <1>3 DEF getVars, reqVars
<1>5. OneFetchPerHash' /\ FetchOfHash'
  BY <1>4, FetchStays
<1>6. connects' \in 0..MaxConnects
  BY <1>3 DEF ReadsInv, ReadsTypeOK
<1>7. ReadsTypeOK'
  BY <1>3, <1>6 DEF ReadsInv, ReadsTypeOK, getVars, reqVars, Hashes
<1>8. ScansOK'
  BY <1>2, <1>3 DEF ReadsInv, ScansOK, IsScan
<1>9. ASSUME NEW r \in Reads, Listed(r), NEW j \in (connected \cup {p}) \ tried[r]
      PROVE  \E s \in scans' : Asks(s, j, ref[r], pendingReqs[ref[r]])
  <2>1. CASE j = p
    <3>1. Asks(n, j, ref[r], pendingReqs[ref[r]])
      BY <1>2, <2>1 DEF Asks
    <3> QED  BY <1>3, <3>1
  <2>2. CASE j \in connected
    BY <1>3, <1>9, <2>2 DEF ReadsInv, Reached
  <2> QED  BY <2>1, <2>2
<1>10. Reached'
  BY <1>3, <1>4, <1>9 DEF Reached, Listed, Asks
<1> QED  BY <1>5, <1>7, <1>8, <1>10 DEF ReadsInv

LEMMA DisconnectHolds ==
  ASSUME ReadsInv, (\E p \in Peers : Disconnect(p)) \/ StopReads
  PROVE  ReadsInv'
<1>1. /\ connected' \subseteq connected /\ started' \in BOOLEAN
      /\ UNCHANGED <<ref, connects, local, getVars, reqVars, scans>>
  BY DEF Disconnect, StopReads, ReadsInv, ReadsTypeOK
<1>2. OneFetchPerHash' /\ FetchOfHash'
  BY <1>1, FetchStays DEF getVars, reqVars
<1>3. ReadsTypeOK'
  BY <1>1 DEF ReadsInv, ReadsTypeOK, getVars, reqVars, Hashes
<1>4. ScansOK'
  BY <1>1 DEF ReadsInv, ScansOK
<1>5. Reached'
  BY <1>1, ReachOnlyLoses DEF getVars, reqVars
<1> QED  BY <1>2, <1>3, <1>4, <1>5 DEF ReadsInv

-----------------------------------------------------------------------------
LEMMA ReadsNextHolds == ReadsInv /\ [ReadsNext]_readVars => ReadsInv'
<1> SUFFICES ASSUME ReadsInv, [ReadsNext]_readVars PROVE ReadsInv'
  OBVIOUS
<1>1. CASE ScanTurn
  BY <1>1, HashScanHolds, PeerScanHolds, ScanOverHolds DEF ScanTurn
<1>2. ASSUME NEW r \in Reads,
             \/ Get(r) \/ WaveAnswer(r) \/ ReadStep(r)
             \/ \E wave \in SUBSET unasked[r] : Wave(r, wave)
      PROVE  ReadsInv'
  BY <1>2, GetHolds, QueryHolds, StoredHolds, TimeOutHolds, FallbackHolds DEF ReadStep
<1>3. ASSUME NEW s \in scans, (\E found \in BOOLEAN : ScanAnswer(s, found)) \/ ScanStored(s)
      PROVE  ReadsInv'
  BY <1>3, ScanAnswerHolds, ScanStoredHolds
<1>4. ASSUME (\E p \in Peers : Connect(p) \/ Disconnect(p)) \/ StopReads
      PROVE  ReadsInv'
  BY <1>4, ConnectHolds, DisconnectHolds
<1>5. CASE UNCHANGED readVars
  <2>1. ReadsTypeOK' /\ ScansOK'
    BY <1>5 DEF readVars, ReadsInv, ReadsTypeOK, ScansOK, Hashes
  <2>2. OneFetchPerHash' /\ FetchOfHash'
    BY <1>5, FetchStays DEF readVars
  <2>3. Reached'
    BY <1>5 DEF readVars, ReadsInv, Reached, Listed, Asks
  <2> QED  BY <2>1, <2>2, <2>3 DEF ReadsInv
<1> QED  BY <1>1, <1>2, <1>3, <1>4, <1>5 DEF ReadsNext

LEMMA ReadsInvHolds == ReadsSpec => []ReadsInv
<1> QED  BY ReadsInitHolds, ReadsNextHolds, PTL DEF ReadsSpec

(* Whoever reads what when, and whichever peers come and go while scans    *)
(* and waves await their answers: reads of a hash share one fetch, and a   *)
(* waiting read has asked every connected peer or a scan will.             *)
THEOREM ReadsAreSound == ReadsSpec => []ReadsSound
<1>1. ReadsInv => NoPeerMissed
  BY DEF ReadsInv, Reached, Listed, NoPeerMissed, Asks
<1>2. ReadsInv => ReadsSound
  BY <1>1 DEF ReadsInv, ReadsSound
<1> QED  BY <1>2, ReadsInvHolds, PTL
=============================================================================
