---------------------------- MODULE PendingReads ----------------------------
(***************************************************************************)
(* packages/hashtree-nostr/src/webrtc/store.ts: reads of the WebRTC store. *)
(* A read asks the connected peers in waves, then the fallback stores, and *)
(* then waits for peers to come; every peer that connects is asked what    *)
(* the waiting reads want.                                                 *)
(*                                                                         *)
(* pendingReqs is keyed by the Uint8Array a read was called with, not by   *)
(* its bytes: two arrays with the same hash are two keys.  Its lists are   *)
(* named by the read that made them, since scans hold them across awaits.  *)
(* A request to a peer may take any time, or never be answered at all      *)
(* (PeerRequests.JoinersSettle is violated).                               *)
(***************************************************************************)
EXTENDS Naturals, FiniteSets

CONSTANTS
  Reads,        \* calls of get
  Refs,         \* the Uint8Arrays they are called with
  HashOf,       \* the hash in each of those
  Peers,
  Satisfied,    \* connections that satisfy the pools
  MaxConnects,  \* connections made in one behaviour
  Unset

ASSUME ReadsAssumption ==
  MaxConnects \in Nat /\ Unset \notin Reads /\ Unset \notin Peers

VARIABLES
  ref,          \* the Uint8Array of each read
  started,
  connected,
  connects,     \* connections made
  local,        \* hashes in the local store
  state,        \* where each read stands
  value,        \* what it returned
  tried,        \* triedPeers of each read
  unasked,      \* peers queryPeersWithDispatch has not reached yet
  pendingGets,  \* per hash, the read others join
  pendingReqs,  \* per Uint8Array, the list in the Map
  arrays,       \* the reads in each list
  scans         \* tryConnectedPeersForHash and tryPendingReqs under way

linkVars == <<ref, started, connected, connects>>
getVars == <<state, value, tried, unasked>>
reqVars == <<pendingGets, pendingReqs, arrays>>
readVars == <<ref, started, connected, connects, local, state, value, tried, unasked,
          pendingGets, pendingReqs, arrays, scans>>

Hashes == {HashOf[x] : x \in Refs}
Hash(r) == HashOf[ref[r]]
Sharing(r) == {r} \cup {q \in Reads : state[q] = "joined" /\ Hash(q) = Hash(r)}

(* The promise of a fetch settles: its reads return, and the entry goes.   *)
SettleReads(rs, v) ==
  LET all == UNION {Sharing(r) : r \in rs} IN
  /\ state' = [q \in Reads |-> IF q \in all THEN "done" ELSE state[q]]
  /\ value' = [q \in Reads |-> IF q \in all THEN v ELSE value[q]]
  /\ pendingGets' = [h \in Hashes |-> IF pendingGets[h] \in rs THEN Unset ELSE pendingGets[h]]

Goto(r, where) == state' = [state EXCEPT ![r] = where]

-----------------------------------------------------------------------------
(* get, when the local store has answered: a hit, a fetch under way to     *)
(* join, or a fetch of its own, whose peers are those connected now.       *)
Get(r) ==
  LET h == Hash(r) IN
  /\ state[r] = "idle"
  /\ \/ /\ h \in local
        /\ Goto(r, "done")
        /\ value' = [value EXCEPT ![r] = "data"]
        /\ UNCHANGED <<unasked, pendingGets>>
     \/ /\ h \notin local
        /\ pendingGets[h] # Unset
        /\ Goto(r, "joined")
        /\ UNCHANGED <<value, unasked, pendingGets>>
     \/ /\ h \notin local
        /\ pendingGets[h] = Unset
        /\ pendingGets' = [pendingGets EXCEPT ![h] = r]
        /\ Goto(r, "querying")
        /\ unasked' = [unasked EXCEPT ![r] = connected]
        /\ UNCHANGED value
  /\ UNCHANGED <<linkVars, local, tried, pendingReqs, arrays, scans>>

(* queryPeersWithDispatch: the next wave.                                  *)
Wave(r, wave) ==
  /\ state[r] = "querying"
  /\ wave # {}
  /\ unasked' = [unasked EXCEPT ![r] = @ \ wave]
  /\ tried' = [tried EXCEPT ![r] = @ \cup wave]
  /\ UNCHANGED <<linkVars, local, state, value, reqVars, scans>>

(* One of the peers asked has it; any other answer only counts in the      *)
(* statistics of the selector.                                             *)
WaveAnswer(r) ==
  /\ state[r] = "querying"
  /\ tried[r] # {}
  /\ Goto(r, "storing")
  /\ UNCHANGED <<linkVars, local, value, tried, unasked, reqVars, scans>>

(* The deadline, or every peer answered no: later answers go nowhere.      *)
QueryOver(r) ==
  /\ state[r] = "querying"
  /\ unasked' = [unasked EXCEPT ![r] = {}]
  /\ Goto(r, "fallback")
  /\ UNCHANGED <<linkVars, local, value, tried, reqVars, scans>>

ReadStored(r) ==
  /\ state[r] = "storing"
  /\ local' = local \cup {Hash(r)}
  /\ SettleReads({r}, "data")
  /\ unasked' = [unasked EXCEPT ![r] = {}]
  /\ UNCHANGED <<linkVars, tried, pendingReqs, arrays, scans>>

(* fetchFromPeers after the fallback stores: waitForHash, which starts     *)
(* tryConnectedPeersForHash at once, or null.                              *)
Reach(r) == [peer |-> Unset, key |-> ref[r], array |-> IF pendingReqs[ref[r]] = Unset
             THEN r ELSE pendingReqs[ref[r]], left |-> connected, at |-> "next", asking |-> Unset]

\* Slip: peers that connected meanwhile are not looked at again.
ReachNow_Later(r) == UNCHANGED scans

ReachNow(r) == scans' = scans \cup {Reach(r)}

FallbackAnswer(r, found) ==
  /\ state[r] = "fallback"
  /\ \/ /\ found
        /\ Goto(r, "storing")
        /\ UNCHANGED <<value, reqVars, scans>>
     \/ /\ ~found
        /\ started /\ (Cardinality(connected) < Satisfied \/ tried[r] = {})
        /\ Goto(r, "waiting")
        /\ pendingReqs' = [pendingReqs EXCEPT ![ref[r]] = IF @ = Unset THEN r ELSE @]
        /\ arrays' = [arrays EXCEPT ![pendingReqs'[ref[r]]] = @ \cup {r}]
        /\ ReachNow(r)
        /\ UNCHANGED <<value, pendingGets>>
     \/ /\ ~found
        /\ ~(started /\ (Cardinality(connected) < Satisfied \/ tried[r] = {}))
        /\ SettleReads({r}, "null")
        /\ UNCHANGED <<pendingReqs, arrays, scans>>
  /\ UNCHANGED <<linkVars, local, tried, unasked>>

-----------------------------------------------------------------------------
(* An entry deleted from the Map while it is iterated is met again when it *)
(* comes back.                                                             *)
Forget(all, k) ==
  {IF s.peer = Unset THEN s ELSE [s EXCEPT !.left = @ \ {k}] : s \in all}

(* The timeout of waitForHash.                                             *)
\* Slip: the request leaves the list and nobody is told.
TimeOut_Silent(r) ==
  LET k == ref[r]
      list == pendingReqs[k]
  IN /\ state[r] = "waiting"
     /\ list # Unset /\ r \in arrays[list]
     /\ arrays' = [arrays EXCEPT ![list] = @ \ {r}]
     /\ pendingReqs' = [pendingReqs EXCEPT ![k] = IF arrays'[list] = {} THEN Unset ELSE @]
     /\ UNCHANGED <<linkVars, local, getVars, pendingGets, scans>>

TimeOut(r) ==
  LET k == ref[r]
      list == pendingReqs[k]
      gone == list # Unset /\ arrays[list] = {r}
  IN /\ state[r] = "waiting"
     /\ arrays' = IF list = Unset THEN arrays ELSE [arrays EXCEPT ![list] = @ \ {r}]
     /\ pendingReqs' = [pendingReqs EXCEPT ![k] = IF gone THEN Unset ELSE @]
     /\ scans' = IF gone THEN Forget(scans, k) ELSE scans
     /\ SettleReads({r}, "null")
     /\ UNCHANGED <<linkVars, local, tried, unasked>>

(* A scan goes on: `left` holds the peers still to ask, or, for the scan   *)
(* of a new peer, the keys it has passed.  Requests that tried the peer    *)
(* are skipped, the others marked before the request is sent.              *)
Untried(array, p) == {r \in arrays[array] : p \notin tried[r]}

Marked(rs, p) == [r \in Reads |-> IF r \in rs THEN tried[r] \cup {p} ELSE tried[r]]

HashScanStep(s, p) ==
  /\ s.peer = Unset
  /\ s.at = "next"
  /\ p \in s.left
  /\ LET rs == Untried(s.array, p)
         passed == [s EXCEPT !.left = @ \ {p}]
     IN /\ tried' = Marked(rs, p)
        /\ scans' = (scans \ {s}) \cup
             {IF rs = {} THEN passed ELSE [passed EXCEPT !.at = "asking", !.asking = p]}
  /\ UNCHANGED <<linkVars, local, state, value, unasked, reqVars>>

PeerScanStep(s, k) ==
  /\ s.peer # Unset
  /\ s.at = "next"
  /\ k \notin s.left
  /\ pendingReqs[k] # Unset
  /\ LET rs == Untried(pendingReqs[k], s.peer)
         passed == [s EXCEPT !.left = @ \cup {k}]
     IN /\ tried' = Marked(rs, s.peer)
        /\ scans' = (scans \ {s}) \cup
             {IF rs = {} THEN passed
              ELSE [passed EXCEPT !.key = k, !.array = pendingReqs[k], !.at = "asking", !.asking = s.peer]}
  /\ UNCHANGED <<linkVars, local, state, value, unasked, reqVars>>

ScanOver(s) ==
  /\ s.at = "next"
  /\ IF s.peer = Unset THEN s.left = {} ELSE \A k \in Refs \ s.left : pendingReqs[k] = Unset
  /\ scans' = scans \ {s}
  /\ UNCHANGED <<linkVars, local, getVars, reqVars>>

ScanAnswer(s, found) ==
  /\ s.at = "asking"
  /\ scans' = (scans \ {s}) \cup {[s EXCEPT !.at = IF found THEN "storing" ELSE "next", !.asking = Unset]}
  /\ UNCHANGED <<linkVars, local, getVars, reqVars>>

(* The content is stored; the scan of a hash resolves the array in the Map *)
(* now and returns, the scan of a peer resolves the one it read before its *)
(* awaits, deletes what is in the Map now, and goes on.                    *)
Waiting(array) == {r \in arrays[array] : state[r] = "waiting"}

ScanStored(s) ==
  LET k == s.key
      array == IF s.peer = Unset THEN pendingReqs[k] ELSE s.array
      rest == IF s.peer = Unset THEN scans \ {s}
              ELSE (scans \ {s}) \cup {[s EXCEPT !.at = "next"]}
  IN /\ s.at = "storing"
     /\ local' = local \cup {HashOf[k]}
     /\ IF array = Unset
          THEN UNCHANGED <<state, value, pendingGets>>
          ELSE SettleReads(Waiting(array), "data")
     /\ pendingReqs' = [pendingReqs EXCEPT ![k] = Unset]
     /\ scans' = IF pendingReqs[k] = Unset THEN rest ELSE Forget(rest, k)
     /\ UNCHANGED <<linkVars, tried, unasked, arrays>>

-----------------------------------------------------------------------------
(* onConnected starts tryPendingReqs.                                      *)
Connect(p) ==
  /\ started
  /\ p \notin connected
  /\ connects < MaxConnects
  /\ connects' = connects + 1
  /\ connected' = connected \cup {p}
  /\ scans' = scans \cup {[peer |-> p, key |-> Unset, array |-> Unset, left |-> {},
                           at |-> "next", asking |-> Unset]}
  /\ UNCHANGED <<ref, started, local, getVars, reqVars>>

Disconnect(p) ==
  /\ p \in connected
  /\ connected' = connected \ {p}
  /\ UNCHANGED <<ref, started, connects, local, getVars, reqVars, scans>>

StopReads ==
  /\ started
  /\ started' = FALSE
  /\ connected' = {}
  /\ UNCHANGED <<ref, connects, local, getVars, reqVars, scans>>

-----------------------------------------------------------------------------
ReadsInit ==
  /\ ref \in [Reads -> Refs]
  /\ started = TRUE
  /\ connected = {}
  /\ connects = 0
  /\ local = {}
  /\ state = [r \in Reads |-> "idle"]
  /\ value = [r \in Reads |-> Unset]
  /\ tried = [r \in Reads |-> {}]
  /\ unasked = [r \in Reads |-> {}]
  /\ pendingGets = [h \in Hashes |-> Unset]
  /\ pendingReqs = [k \in Refs |-> Unset]
  /\ arrays = [r \in Reads |-> {}]
  /\ scans = {}

(* A scan goes on in the turn it was started or answered in: nothing else  *)
(* happens until each one awaits an answer again or is over.               *)
ScanTurn ==
  \E s \in scans :
    \/ \E p \in Peers : HashScanStep(s, p)
    \/ \E k \in Refs : PeerScanStep(s, k)
    \/ ScanOver(s)

Idle == \A s \in scans : s.at # "next"

ReadStep(r) ==
  \/ QueryOver(r) \/ ReadStored(r) \/ TimeOut(r)
  \/ \E found \in BOOLEAN : FallbackAnswer(r, found)

ReadsNext ==
  \/ ScanTurn
  \/ /\ Idle
     /\ \/ \E r \in Reads :
             \/ Get(r) \/ WaveAnswer(r) \/ ReadStep(r)
             \/ \E wave \in SUBSET unasked[r] : Wave(r, wave)
        \/ \E s \in scans :
             \/ \E found \in BOOLEAN : ScanAnswer(s, found)
             \/ ScanStored(s)
        \/ \E p \in Peers : Connect(p) \/ Disconnect(p)
        \/ StopReads

ReadsSpec == ReadsInit /\ [][ReadsNext]_readVars

(* The stores answer and timers fire; a peer need not answer.              *)
ReadsFairness ==
  /\ WF_readVars(ScanTurn)
  /\ \A r \in Reads : WF_readVars(Idle /\ ReadStep(r))

ReadsFairSpec == ReadsSpec /\ ReadsFairness

-----------------------------------------------------------------------------
States == {"idle", "joined", "querying", "storing", "fallback", "waiting", "done"}

ReadsTypeOK ==
  /\ ref \in [Reads -> Refs]
  /\ started \in BOOLEAN
  /\ connected \subseteq Peers
  /\ connects \in 0..MaxConnects
  /\ local \subseteq Hashes
  /\ state \in [Reads -> States]
  /\ value \in [Reads -> {"data", "null", Unset}]
  /\ tried \in [Reads -> SUBSET Peers]
  /\ unasked \in [Reads -> SUBSET Peers]
  /\ pendingGets \in [Hashes -> Reads \cup {Unset}]
  /\ pendingReqs \in [Refs -> Reads \cup {Unset}]
  /\ arrays \in [Reads -> SUBSET Reads]

(* Whenever a peer connects, before, during or after the fallback stores   *)
(* were asked, every read in the list asks it: it has tried each connected *)
(* peer, or a scan is under way that will.                                 *)
NoPeerMissed ==
  \A r \in Reads :
    LET k == ref[r] IN
    state[r] = "waiting" /\ pendingReqs[k] # Unset /\ r \in arrays[pendingReqs[k]] =>
      \A p \in connected \ tried[r] : \E s \in scans :
        \/ s.peer = p /\ k \notin s.left
        \/ s.peer = Unset /\ s.key = k /\ p \in s.left

(* One fetch per hash: a read that joined has a fetch to join, and the     *)
(* fetch under way is the one in the Map.                                  *)
OneFetchPerHash ==
  /\ \A r \in Reads :
       /\ state[r] = "joined" => pendingGets[Hash(r)] # Unset
       /\ state[r] \in {"querying", "storing", "fallback", "waiting"} => pendingGets[Hash(r)] = r
  /\ \A h \in Hashes : pendingGets[h] # Unset => state[pendingGets[h]] \notin {"idle", "joined", "done"}

(* Reads of a hash share a fetch, and waiting ones share the peers.        *)
ReadsSound == ReadsTypeOK /\ NoPeerMissed /\ OneFetchPerHash

(* Every read returns, even when no peer ever answers what it is asked:    *)
(* again and again none of the finitely many is under way.                 *)
ReadsSettle == []<>(\A r \in Reads : state[r] \in {"idle", "done"})
=============================================================================
