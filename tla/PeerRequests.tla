---------------------------- MODULE PeerRequests ----------------------------
(***************************************************************************)
(* packages/hashtree-nostr/src/webrtc/peer.ts: our requests to one peer,   *)
(* the callers that share them, and the fragments its answers come in.     *)
(*                                                                         *)
(* The module follows one content hash.  Callers of request() that find an *)
(* entry in ourRequests join it by wrapping its resolve function; the      *)
(* entry, and the chain of resolve functions behind it, are named by the   *)
(* caller that made it.  The data channel is reliable but unordered, so    *)
(* fragments of several answers may arrive mixed.                          *)
(***************************************************************************)
EXTENDS Naturals, FiniteSets

CONSTANTS
  Callers,   \* calls of request()
  Answers,   \* responses the peer may send
  Contents,  \* what a response carries: [parts, good]; one part is unfragmented
  MaxParts,
  None

ASSUME ContentsAssumption == Contents \subseteq [parts : 1..MaxParts, good : BOOLEAN]
ASSUME MaxPartsAssumption == MaxParts \in Nat
ASSUME NoneAssumption == None \notin Callers

VARIABLES
  open,      \* the peer has not been closed
  result,    \* what each call returned so far
  behind,    \* whose entry a caller waits on, itself if it made the entry
  entry,     \* the entry in ourRequests, or None
  timers,    \* armed timeouts of entries, "request" or "stall"
  total,     \* pendingReassemblies: totalExpected, 0 for no reassembly
  parts,     \* and its fragments, <<index, good>>
  checking,  \* complete answers whose digest is being computed
  sent,      \* what the peer answered
  net,       \* fragments on the channel
  expired    \* entries ended by their request timeout (history)

callVars == <<result, behind, expired>>
reassemblyVars == <<total, parts>>
netVars == <<sent, net>>
vars == <<open, result, behind, entry, timers, total, parts, checking, sent, net, expired>>

Indexes == 0..(MaxParts - 1)
Waiters(c) == {d \in Callers : behind[d] = c /\ result[d] = "waiting"}
Settle(calls, value) ==
  result' = [d \in Callers |-> IF d \in calls THEN value ELSE result[d]]
TimersOf(c) == {"request", "stall"} \X {c}

-----------------------------------------------------------------------------
(* request: nothing to ask when the channel is not open; a caller that     *)
(* finds an entry joins it, the others send a request.                     *)
\* Slip: the entry is replaced.
Join_Replace(c) ==
  /\ entry' = c
  /\ behind' = [behind EXCEPT ![c] = c]
  /\ timers' = (timers \ TimersOf(entry)) \cup {<<"request", c>>}

Join(c) ==
  /\ behind' = [behind EXCEPT ![c] = entry]
  /\ UNCHANGED <<entry, timers>>

Send(c) ==
  /\ entry' = c
  /\ behind' = [behind EXCEPT ![c] = c]
  /\ timers' = timers \cup {<<"request", c>>}

Request(c) ==
  /\ result[c] = "idle"
  /\ IF open
       THEN /\ Settle({c}, "waiting")
            /\ IF entry = None THEN Send(c) ELSE Join(c)
       ELSE /\ Settle({c}, "null")
            /\ UNCHANGED <<behind, entry, timers>>
  /\ UNCHANGED <<open, reassemblyVars, checking, netVars, expired>>

(* The timeout set by request calls the resolve of its own promise, not    *)
(* the one that joined callers wrapped.                                    *)
RequestTimeout(c) ==
  /\ <<"request", c>> \in timers
  /\ timers' = timers \ {<<"request", c>>}
  /\ entry' = None
  /\ Settle({c}, "null")
  /\ expired' = expired \cup {c}
  /\ UNCHANGED <<open, behind, reassemblyVars, checking, netVars>>

(* The timeout set at a fragment resolves the whole chain.                 *)
\* Slip: like the other timeout, it resolves its own promise only.
StallTimeout_Own(c) ==
  /\ <<"stall", c>> \in timers
  /\ timers' = timers \ {<<"stall", c>>}
  /\ entry' = None
  /\ total' = 0
  /\ parts' = {}
  /\ Settle({c}, "null")
  /\ UNCHANGED <<open, behind, checking, netVars, expired>>

StallTimeout(c) ==
  /\ <<"stall", c>> \in timers
  /\ timers' = timers \ {<<"stall", c>>}
  /\ entry' = None
  /\ total' = 0
  /\ parts' = {}
  /\ Settle(Waiters(c), "null")
  /\ UNCHANGED <<open, behind, checking, netVars, expired>>

-----------------------------------------------------------------------------
(* sendResponse of the peer: it answers what was asked, maybe late, maybe  *)
(* more than once (as a response and as a push).                           *)
\* Slip: one fragment too many.
Answer_OneMore(a, content) ==
  /\ open
  /\ sent[a] = None
  /\ \E c \in Callers : behind[c] = c
  /\ sent' = [sent EXCEPT ![a] = content]
  /\ net' = net \cup {<<a, i>> : i \in 0..content.parts}
  /\ UNCHANGED <<open, callVars, entry, timers, reassemblyVars, checking>>

Answer(a, content) ==
  /\ open
  /\ sent[a] = None
  /\ \E c \in Callers : behind[c] = c
  /\ sent' = [sent EXCEPT ![a] = content]
  /\ net' = net \cup {<<a, i>> : i \in 0..(content.parts - 1)}
  /\ UNCHANGED <<open, callVars, entry, timers, reassemblyVars, checking>>

(* handleMessage with a complete answer: the entry leaves the Map before   *)
(* the digest is awaited.                                                  *)
Complete(good) ==
  /\ entry' = None
  /\ timers' = timers \ TimersOf(entry)
  /\ checking' = IF entry = None THEN checking ELSE checking \cup {<<entry, good>>}

ReceiveWhole(a) ==
  /\ <<a, 0>> \in net
  /\ sent[a].parts = 1
  /\ net' = net \ {<<a, 0>>}
  /\ Complete(sent[a].good)
  /\ UNCHANGED <<open, callVars, reassemblyVars, sent>>

(* handleFragmentResponse restarts the timeout at every fragment.          *)
\* Slip: the timeout that runs is not cleared.
Rearmed_KeepOld == IF entry = None THEN timers ELSE timers \cup {<<"stall", entry>>}
\* Slip: the timeout is cleared and not set again.
Rearmed_Cleared == timers \ TimersOf(entry)

Rearmed ==
  IF entry = None THEN timers ELSE (timers \ TimersOf(entry)) \cup {<<"stall", entry>>}

\* Slip: a fragment is stored although its index is there.
Stored_Again(i, good) == parts \cup {<<i, good>>}
Stored(i, good) ==
  IF \E g \in BOOLEAN : <<i, g>> \in parts THEN parts ELSE parts \cup {<<i, good>>}

(* assembleFragments throws when an index below the total is missing.      *)
Assembles(stored, count) == \A i \in 0..(count - 1) : \E g \in BOOLEAN : <<i, g>> \in stored

ReceiveFragment(a, i) ==
  LET count == IF total = 0 THEN sent[a].parts ELSE total
      stored == Stored(i, sent[a].good)
  IN /\ <<a, i>> \in net
     /\ sent[a].parts > 1
     /\ net' = net \ {<<a, i>>}
     /\ IF Cardinality(stored) = count
          THEN /\ total' = 0
               /\ parts' = {}
               /\ IF Assembles(stored, count)
                    THEN Complete(\A part \in stored : part[2])
                    ELSE timers' = Rearmed /\ UNCHANGED <<entry, checking>>
          ELSE /\ total' = count
               /\ parts' = stored
               /\ timers' = Rearmed
               /\ UNCHANGED <<entry, checking>>
     /\ UNCHANGED <<open, callVars, sent>>

(* verifyHash returns.                                                     *)
Verified(c, good) ==
  /\ <<c, good>> \in checking
  /\ checking' = checking \ {<<c, good>>}
  /\ Settle(Waiters(c), IF good THEN "data" ELSE "null")
  /\ UNCHANGED <<open, behind, entry, timers, reassemblyVars, netVars, expired>>

(* cleanupStaleReassemblies: stalled, over its total time, or the oldest   *)
(* of too many.                                                            *)
CleanUp ==
  /\ open
  /\ total # 0
  /\ total' = 0
  /\ parts' = {}
  /\ UNCHANGED <<open, callVars, entry, timers, checking, netVars>>

\* Slip: the fragments stay.
Close_KeepParts ==
  /\ open
  /\ open' = FALSE
  /\ Settle(IF entry = None THEN {} ELSE Waiters(entry), "null")
  /\ timers' = timers \ TimersOf(entry)
  /\ entry' = None
  /\ net' = {}
  /\ UNCHANGED <<behind, reassemblyVars, checking, sent, expired>>

Close ==
  /\ open
  /\ open' = FALSE
  /\ total' = 0
  /\ parts' = {}
  /\ Settle(IF entry = None THEN {} ELSE Waiters(entry), "null")
  /\ timers' = timers \ TimersOf(entry)
  /\ entry' = None
  /\ net' = {}
  /\ UNCHANGED <<behind, checking, sent, expired>>

-----------------------------------------------------------------------------
Init ==
  /\ open = TRUE
  /\ result = [c \in Callers |-> "idle"]
  /\ behind = [c \in Callers |-> None]
  /\ entry = None
  /\ timers = {}
  /\ total = 0 /\ parts = {}
  /\ checking = {}
  /\ sent = [a \in Answers |-> None] /\ net = {}
  /\ expired = {}

Next ==
  \/ \E c \in Callers : Request(c) \/ RequestTimeout(c) \/ StallTimeout(c)
  \/ \E c \in Callers, good \in BOOLEAN : Verified(c, good)
  \/ \E a \in Answers, content \in Contents : Answer(a, content)
  \/ \E a \in Answers : ReceiveWhole(a)
  \/ \E a \in Answers, i \in Indexes : ReceiveFragment(a, i)
  \/ CleanUp
  \/ Close

Spec == Init /\ [][Next]_vars

(* setTimeout and crypto.subtle.digest call back; nothing else is assumed, *)
(* so answers may never come.                                              *)
Fairness ==
  \A c \in Callers :
    /\ WF_vars(RequestTimeout(c) \/ StallTimeout(c))
    /\ WF_vars(\E good \in BOOLEAN : Verified(c, good))

FairSpec == Spec /\ Fairness

-----------------------------------------------------------------------------
Results == {"idle", "waiting", "null", "data"}

TypeOK ==
  /\ open \in BOOLEAN
  /\ result \in [Callers -> Results]
  /\ behind \in [Callers -> Callers \cup {None}]
  /\ entry \in Callers \cup {None}
  /\ timers \subseteq {"request", "stall"} \X Callers
  /\ total \in 0..MaxParts
  /\ parts \subseteq Indexes \X BOOLEAN
  /\ checking \subseteq Callers \X BOOLEAN
  /\ sent \in [Answers -> Contents \cup {None}]
  /\ net \subseteq Answers \X Indexes
  /\ expired \subseteq Callers

(* One fragment per index is kept, whatever mixture of answers arrives,    *)
(* and a reassembly in the Map is never complete.                          *)
OneFragmentPerIndex ==
  /\ \A i \in Indexes : ~(<<i, TRUE>> \in parts /\ <<i, FALSE>> \in parts)
  /\ IF total = 0 THEN parts = {} ELSE Cardinality(parts) \in 1..(total - 1)

(* The entry has exactly one timeout running, and a timeout running has    *)
(* its entry: an old one would end the request of a later caller.          *)
OneTimerPerEntry ==
  IF entry = None THEN timers = {} ELSE \E kind \in {"request", "stall"} : timers = {<<kind, entry>>}

(* Nothing is left of a closed peer that only its callbacks would free.    *)
ClosedIsQuiet == ~open => entry = None /\ timers = {} /\ total = 0

(* A caller that waits can still be answered, through the entry or an      *)
(* answer being checked, unless the request it joined has timed out.       *)
NobodyForgotten ==
  \A c \in Callers : result[c] = "waiting" =>
    \/ behind[c] = entry
    \/ \E good \in BOOLEAN : <<behind[c], good>> \in checking
    \/ behind[c] \in expired /\ behind[c] # c

(* Callers that share a request get the same answer, unless it timed out.  *)
JoinersShareAnswer ==
  \A c \in Callers : behind[c] # None /\ behind[c] \notin expired => result[c] = result[behind[c]]

(* Entries, timeouts and fragments stay consistent, whatever the peer      *)
(* sends and whenever it is closed.                                        *)
Bookkeeping == TypeOK /\ OneTimerPerEntry /\ ClosedIsQuiet /\ OneFragmentPerIndex

(* Callers of one request are served alike, and none that waits is out of  *)
(* reach unless the request it joined timed out.                           *)
CallersServed == NobodyForgotten /\ JoinersShareAnswer

(* Whoever sent a request gets an answer, data or not, whatever fragments  *)
(* come and however the timeouts are moved.  Calls are finitely many, so   *)
(* each ends if again and again none is under way.                         *)
SendersSettle ==
  []<>(\A c \in Callers : ~(result[c] = "waiting" /\ behind[c] = c))

(* A caller that joined a request is resolved when that request is, as the *)
(* comment in request() has it.                                            *)
JoinersSettle ==
  \A c \in Callers : result[c] = "waiting" ~> result[c] # "waiting"
=============================================================================
