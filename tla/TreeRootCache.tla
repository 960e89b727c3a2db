--------------------------- MODULE TreeRootCache ----------------------------
(***************************************************************************)
(* packages/hashtree-worker/src/iris/treeRootCache.ts and the lookup of    *)
(* treeRootSubscription.ts that uses it: the root of a mutable tree, as    *)
(* the newest replaceable event about it says, kept in an LRU in memory    *)
(* and in a Store underneath.                                              *)
(*                                                                         *)
(* The module follows one tree.  Each call is a little process: a step     *)
(* runs to its next await, and steps of several calls interleave.  A       *)
(* history variable remembers whether two calls ever were under way at     *)
(* once, or every caller waited for the call before it, as the tests do.   *)
(***************************************************************************)
EXTENDS Naturals, FiniteSets

CONSTANTS
  Calls,    \* calls that may be made
  Events,   \* published roots: [at, id, hash, key], id 0 for one without id
  Hashes,
  KeyOf,    \* the key that decrypts each root hash
  Kinds,    \* which of the operations are called
  None

Records == [at : Nat, id : Nat, hash : Hashes, key : {KeyOf[h] : h \in Hashes} \cup {None}]
KeyFits(rec) == rec.key \in {None, KeyOf[rec.hash]}

ASSUME EventsAssumption == \A e \in Events : e \in Records /\ KeyFits(e)
ASSUME NoneAssumption == None \notin Calls /\ None \notin Records

VARIABLES
  memory,     \* the record in memoryCache, or None
  disk,       \* the record in the store, or None
  call,       \* the calls
  resolving,  \* the call whose lookup inFlightRootResolutions holds
  acked,      \* the newest record a set has returned as applied
  overlapped  \* whether two calls have been under way at once

vars == <<memory, disk, call, resolving, acked, overlapped>>

Frame(pc, kind, arg, rec) == [pc |-> pc, kind |-> kind, arg |-> arg, rec |-> rec]
Done == Frame("done", None, None, None)
Busy == {c \in Calls : call[c].pc \notin {"idle", "done"}}

-----------------------------------------------------------------------------
(* compareReplaceableEventOrder < 0.                                       *)
OlderThan(a, b) == a.at < b.at \/ (a.at = b.at /\ a.id < b.id)

(* A call ends; if its lookup was shared, those who joined it end too.     *)
Finish(c) ==
  /\ call' = [d \in Calls |->
       IF d = c \/ (resolving = c /\ call[d].pc = "joined") THEN Done ELSE call[d]]
  /\ resolving' = IF resolving = c THEN None ELSE resolving

GoTo(c, frame) ==
  /\ call' = [call EXCEPT ![c] = frame]
  /\ UNCHANGED resolving

(* getCachedRootInfo: memory first; a miss reads the store and puts what   *)
(* it finds into memory, whatever is there by then.                        *)
Look(c, kind, arg) ==
  IF memory # None THEN GoTo(c, Frame("looked", kind, arg, memory))
                   ELSE GoTo(c, Frame("reading", kind, arg, None))

ReadStore(c) ==
  /\ call[c].pc = "reading"
  /\ GoTo(c, [call[c] EXCEPT !.pc = "filling", !.rec = disk])
  /\ UNCHANGED <<memory, disk, acked>>

FillMemory(c) ==
  /\ call[c].pc = "filling"
  /\ memory' = IF call[c].rec # None THEN call[c].rec ELSE memory
  /\ GoTo(c, [call[c] EXCEPT !.pc = "looked"])
  /\ UNCHANGED <<disk, acked>>

-----------------------------------------------------------------------------
(* The calls begin.                                                        *)
Free(c, kind) == kind \in Kinds /\ call[c].pc = "idle"

GetCachedRoot(c) ==
  Free(c, "get") /\ Look(c, "get", None) /\ UNCHANGED <<memory, disk, acked>>

SetCachedRoot(c, e) ==
  Free(c, "set") /\ Look(c, "set", e) /\ UNCHANGED <<memory, disk, acked>>

MergeCachedRootKey(c, h) ==
  Free(c, "merge") /\ Look(c, "merge", h) /\ UNCHANGED <<memory, disk, acked>>

ResolveTreeRootNow(c) ==
  Free(c, "resolve") /\ Look(c, "resolve", None) /\ UNCHANGED <<memory, disk, acked>>

RemoveCachedRoot(c) ==
  /\ Free(c, "remove")
  /\ memory' = None
  /\ acked' = None
  /\ GoTo(c, Frame("deleting", "remove", None, None))
  /\ UNCHANGED disk

-----------------------------------------------------------------------------
(* ... and go on after their lookup.                                       *)
Looked(c, kind) == call[c].pc = "looked" /\ call[c].kind = kind

ReturnRoot(c) ==
  /\ Looked(c, "get")
  /\ Finish(c)
  /\ UNCHANGED <<memory, disk, acked>>

(* What setCachedRoot would store: a key or id the event lacks is taken    *)
(* from the record it replaces if that is of the same root hash.           *)
\* Slip: hash and key swapped.
Cached_Swapped(e, old) == [at |-> e.at, id |-> e.id, hash |-> e.key, key |-> e.hash]
\* Slip: the old key is kept for any hash.
Cached_AnyHash(e, old) ==
  [at |-> e.at, id |-> e.id, hash |-> e.hash,
   key |-> IF e.key = None /\ old # None THEN old.key ELSE e.key]

Cached(e, old) ==
  LET sameHash == old # None /\ old.hash = e.hash IN
  [at |-> e.at, hash |-> e.hash,
   key |-> IF e.key = None /\ sameHash THEN old.key ELSE e.key,
   id |-> IF e.id = 0 /\ sameHash THEN old.id ELSE e.id]

\* cachedRootEquals, which does not compare the event ids.
SameRoot(a, b) == a.at = b.at /\ a.hash = b.hash /\ a.key = b.key

\* Slip: whatever arrives last wins.
Applies_LastWins(e, old) == IF old = None THEN TRUE ELSE ~SameRoot(Cached(e, old), old)

Applies(e, old) ==
  IF old = None THEN TRUE ELSE ~OlderThan(e, old) /\ ~SameRoot(Cached(e, old), old)

Apply(c, record) ==
  /\ memory' = record
  /\ GoTo(c, [call[c] EXCEPT !.pc = "persisting", !.rec = record])
  /\ UNCHANGED <<disk, acked>>

DecideSet(c) ==
  /\ Looked(c, "set")
  /\ \/ /\ Applies(call[c].arg, call[c].rec)
        /\ Apply(c, Cached(call[c].arg, call[c].rec))
     \/ /\ ~Applies(call[c].arg, call[c].rec)
        /\ Finish(c)
        /\ UNCHANGED <<memory, disk, acked>>

DecideMerge(c) ==
  LET old == call[c].rec
      mergeable == old # None /\ old.key = None /\ old.hash = call[c].arg
  IN /\ Looked(c, "merge")
     /\ \/ mergeable /\ Apply(c, [old EXCEPT !.key = KeyOf[call[c].arg]])
        \/ ~mergeable /\ Finish(c) /\ UNCHANGED <<memory, disk, acked>>

Newest(a, b) == IF a = None \/ (b # None /\ OlderThan(a, b)) THEN b ELSE a

(* store.put of the record, and the return of the call.                    *)
\* Slip: a record the store already has an entry for is not written again.
Persist_Once(c) ==
  /\ call[c].pc = "persisting"
  /\ disk' = IF disk = None THEN call[c].rec ELSE disk
  /\ acked' = Newest(acked, call[c].rec)
  /\ Finish(c)
  /\ UNCHANGED memory

Persist(c) ==
  /\ call[c].pc = "persisting"
  /\ disk' = call[c].rec
  /\ acked' = Newest(acked, call[c].rec)
  /\ Finish(c)
  /\ UNCHANGED memory

Delete(c) ==
  /\ call[c].pc = "deleting"
  /\ disk' = None
  /\ Finish(c)
  /\ UNCHANGED <<memory, acked>>

(* resolveTreeRootNow: nothing cached, so the network is asked, by one     *)
(* caller for all; what comes back goes through setCachedRoot.             *)
\* Slip: whether a lookup runs is decided before the cache is read.
AskNetwork_Always(c) ==
  /\ call' = [call EXCEPT ![c] = Frame("fetching", "resolve", None, None)]
  /\ resolving' = c

AskNetwork(c) ==
  IF resolving # None
    THEN GoTo(c, Frame("joined", "resolve", None, None))
    ELSE /\ call' = [call EXCEPT ![c] = Frame("fetching", "resolve", None, None)]
         /\ resolving' = c

DecideResolve(c) ==
  /\ Looked(c, "resolve")
  /\ \/ call[c].rec # None /\ Finish(c)
     \/ call[c].rec = None /\ AskNetwork(c)
  /\ UNCHANGED <<memory, disk, acked>>

Fetched(c) ==
  /\ call[c].pc = "fetching"
  /\ \/ Finish(c)
     \/ \E e \in Events : Look(c, "set", e)
  /\ UNCHANGED <<memory, disk, acked>>

-----------------------------------------------------------------------------
(* A thousand other roots were used since: the LRU drops this one.         *)
Evict ==
  /\ memory # None
  /\ memory' = None
  /\ UNCHANGED <<disk, call, resolving, acked>>

(* The worker is torn down, and started again over the same store.         *)
Restart ==
  /\ memory' = None
  /\ call' = [c \in Calls |-> IF c \in Busy THEN Done ELSE call[c]]
  /\ resolving' = None
  /\ UNCHANGED <<disk, acked>>

Init ==
  /\ memory = None /\ disk = None
  /\ call = [c \in Calls |-> Frame("idle", None, None, None)]
  /\ resolving = None
  /\ acked = None
  /\ overlapped = FALSE

CallBegins(c) ==
  \/ GetCachedRoot(c)
  \/ \E e \in Events : SetCachedRoot(c, e)
  \/ \E h \in Hashes : MergeCachedRootKey(c, h)
  \/ ResolveTreeRootNow(c)
  \/ RemoveCachedRoot(c)

CallContinues(c) ==
  \/ ReadStore(c)
  \/ FillMemory(c)
  \/ ReturnRoot(c)
  \/ DecideSet(c)
  \/ DecideMerge(c)
  \/ DecideResolve(c)
  \/ Fetched(c)
  \/ Persist(c)
  \/ Delete(c)

Next ==
  \/ \E c \in Calls : CallBegins(c) /\ overlapped' = (overlapped \/ Busy # {})
  \/ \E c \in Calls : CallContinues(c) /\ UNCHANGED overlapped
  \/ Evict /\ UNCHANGED overlapped
  \/ Restart /\ UNCHANGED overlapped

Spec == Init /\ [][Next]_vars

-----------------------------------------------------------------------------
TypeOK ==
  /\ memory \in Records \cup {None}
  /\ disk \in Records \cup {None}
  /\ resolving \in Calls \cup {None}
  /\ overlapped \in BOOLEAN
  /\ \A c \in Calls : call[c].pc \in {"idle", "reading", "filling", "looked", "fetching",
                                      "joined", "persisting", "deleting", "done"}

(* What a lookup answers now.                                              *)
Answer == IF memory # None THEN memory ELSE disk

(* A root once reported as applied is not lost to an older one: whatever   *)
(* events arrive later, in whatever order, and through evictions and       *)
(* restarts, a lookup answers with that root or a newer one.  So it is as  *)
(* long as callers wait for each other.                                    *)
AcknowledgedKept ==
  ~overlapped /\ acked # None => Answer # None /\ ~OlderThan(Answer, acked)

(* The cached root is not older than one already reported as applied: what *)
(* the subscription tests ask of an older event that arrives later.        *)
NewerRootKept ==
  memory # None /\ acked # None => ~OlderThan(memory, acked)

(* When no call is under way, what memory holds the store holds too, so    *)
(* that an eviction or a restart changes no answer; again as long as       *)
(* callers wait for each other.                                            *)
BackedByStore == ~overlapped /\ Busy = {} /\ memory # None => disk = memory

(* A key is only ever stored beside the root hash it decrypts, though it   *)
(* may come from the event, from the record replaced, or from a merge that *)
(* began when another root was current.                                    *)
KeyMatchesHash ==
  \A rec \in {memory, disk} \ {None} : KeyFits(rec)

(* A root that was applied is not lost to an older one, nor to an eviction *)
(* or a restart, as long as callers wait for each other.                   *)
RootsKept == AcknowledgedKept /\ BackedByStore

(* Callers that need the network share one lookup: no two are under way.   *)
OneFetchAtATime == Cardinality({c \in Calls : call[c].pc = "fetching"}) <= 1

(* Whatever calls overlap, keys stay beside their hashes and the network   *)
(* is asked by one of them.                                                *)
RootsAgree == TypeOK /\ KeyMatchesHash /\ OneFetchAtATime
=============================================================================
