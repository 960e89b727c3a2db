---------------------------- MODULE Iris_proofs -----------------------------
(***************************************************************************)
(* The Iris worker.  What the cache of tree roots keeps, for any events,   *)
(* any number of calls and any evictions and restarts: keys beside their   *)
(* hashes and one lookup in the network whatever overlaps, and the newest  *)
(* root that was applied as long as callers wait for each other.  What a   *)
(* request for media is sent, whatever its file becomes.  What the social  *)
(* graph never loses.                                                      *)
(***************************************************************************)
EXTENDS TreeRootCache, LiveMedia, ContactCrawl, FiniteSetTheorems, SequenceTheorems, TLAPS

-----------------------------------------------------------------------------
(* The cache of roots.                                                     *)
(* A record that may be stored, or none.                                   *)
Fitting == {rec \in Records : KeyFits(rec)} \cup {None}

Frames ==
  [pc : {"idle", "reading", "filling", "looked", "fetching", "joined", "persisting",
         "deleting", "done"},
   kind : {"get", "set", "merge", "resolve", "remove", None},
   arg : Events \cup Hashes \cup {None},
   rec : Fitting]

(* A call that sets a root carries an event, one that merges a key a hash. *)
FrameOK(f) ==
  /\ f \in Frames
  /\ f.pc \in {"reading", "filling", "looked"} =>
       /\ f.kind = "set" => f.arg \in Events
       /\ f.kind = "merge" => f.arg \in Hashes
  /\ f.pc = "persisting" => f.rec # None

(* Keys fit wherever a record is, in a call under way too; and the call    *)
(* that asks the network is the one that the others find.                  *)
CallsOK ==
  /\ call \in [Calls -> Frames]
  /\ \A c \in Calls : FrameOK(call[c])
  /\ \A c \in Calls : call[c].pc = "fetching" => resolving = c

RecordsOK == memory \in Fitting /\ disk \in Fitting /\ acked \in Fitting

Consistent == TypeOK /\ CallsOK /\ RecordsOK

(* While callers wait for each other: one call at most is under way; the   *)
(* store holds the newest root that was applied; memory holds what the     *)
(* store holds, or what a call is about to write there; and what the call  *)
(* under way has read is still what there is.                              *)
Writing(rec) == \E c \in Calls : call[c].pc = "persisting" /\ call[c].rec = rec

Alone == \A c, d \in Calls : c \in Busy /\ d \in Busy => c = d
StoreNewest == acked # None => disk # None /\ ~OlderThan(disk, acked)
MemoryBacked == memory # None => memory = disk \/ Writing(memory)
ReadIsCurrent ==
  \A c \in Calls :
    /\ call[c].pc \in {"reading", "filling"} => memory = None
    /\ call[c].pc \in {"filling", "looked"} => call[c].rec = disk
    /\ call[c].pc = "persisting" =>
         /\ memory \in {None, call[c].rec}
         /\ disk # None => ~OlderThan(call[c].rec, disk)
    /\ call[c].pc = "deleting" => memory = None /\ acked = None

Ordered == Alone /\ StoreNewest /\ MemoryBacked /\ ReadIsCurrent
OneAfterAnother == ~overlapped => Ordered

IInv == Consistent /\ OneAfterAnother

-----------------------------------------------------------------------------
(* Comparing replaceable events: older than is a strict weak order.        *)
LEMMA NotOlderTransitive ==
  ASSUME NEW a \in Records, NEW b \in Records, NEW d \in Records,
         ~OlderThan(a, b), ~OlderThan(b, d)
  PROVE  ~OlderThan(a, d)
BY DEF OlderThan, Records

LEMMA NotOlderReflexive ==
  ASSUME NEW a \in Records
  PROVE  ~OlderThan(a, a)
BY DEF OlderThan, Records

(* What is stored for an event that applies fits, and is not older than    *)
(* the record it replaces.                                                 *)
LEMMA CachedFits ==
  ASSUME NEW e \in Events, NEW old \in Fitting
  PROVE  /\ Cached(e, old) \in Fitting \ {None}
         /\ old # None /\ Applies(e, old) => ~OlderThan(Cached(e, old), old)
<1>1. e \in Records /\ e.key \in {None, KeyOf[e.hash]}
  BY EventsAssumption DEF KeyFits
<1>2. CASE old = None
  <2>1. Cached(e, old) = [at |-> e.at, hash |-> e.hash, key |-> e.key, id |-> e.id]
    BY <1>2 DEF Cached
  <2> QED  BY <1>1, <1>2, <2>1, NoneAssumption DEF Fitting, KeyFits, Records
<1>3. CASE old # None
  <2>1. old \in Records /\ old.key \in {None, KeyOf[old.hash]}
    BY <1>3 DEF Fitting, KeyFits
  <2>2. Cached(e, old) \in Records /\ KeyFits(Cached(e, old))
    BY <1>1, <1>3, <2>1 DEF Cached, Records, KeyFits
  <2>3. Applies(e, old) => ~OlderThan(Cached(e, old), old)
    BY <1>1, <1>3, <2>1 DEF Applies, Cached, OlderThan, Records
  <2> QED  BY <2>2, <2>3, NoneAssumption DEF Fitting
<1> QED  BY <1>2, <1>3

(* A merge only adds the key of the hash.                                  *)
LEMMA MergedFits ==
  ASSUME NEW old \in Fitting, NEW h \in Hashes, old # None, old.hash = h
  PROVE  /\ [old EXCEPT !.key = KeyOf[h]] \in Fitting \ {None}
         /\ ~OlderThan([old EXCEPT !.key = KeyOf[h]], old)
BY NoneAssumption DEF Fitting, KeyFits, Records, OlderThan

LEMMA NewestFits ==
  ASSUME NEW a \in Fitting, NEW b \in Fitting \ {None}
  PROVE  /\ Newest(a, b) \in Fitting \ {None}
         /\ Newest(a, b) \in {a, b}
         /\ Newest(a, b) = a => ~OlderThan(a, b)
BY NotOlderReflexive DEF Newest, Fitting

-----------------------------------------------------------------------------
(* The two ways a call goes on: with another frame, or to its end.         *)
LEMMA FrameOf ==
  ASSUME NEW pc, NEW kind, NEW arg, NEW rec
  PROVE  /\ Frame(pc, kind, arg, rec).pc = pc /\ Frame(pc, kind, arg, rec).kind = kind
         /\ Frame(pc, kind, arg, rec).arg = arg /\ Frame(pc, kind, arg, rec).rec = rec
BY DEF Frame

LEMMA DoneOK == FrameOK(Done) /\ Done.pc = "done"
BY DEF FrameOK, Done, Frame, Frames, Fitting

LEMMA GoToKeeps ==
  ASSUME Consistent, NEW c \in Calls, NEW frame, GoTo(c, frame),
         FrameOK(frame), frame.pc # "fetching",
         overlapped' \in BOOLEAN, RecordsOK'
  PROVE  Consistent'
<1>1. /\ call \in [Calls -> Frames] /\ frame \in Frames
      /\ call' = [call EXCEPT ![c] = frame] /\ resolving' = resolving
  BY DEF GoTo, FrameOK, Consistent, CallsOK
<1>2. /\ call' \in [Calls -> Frames]
      /\ \A d \in Calls : call'[d] = IF d = c THEN frame ELSE call[d]
  BY <1>1
<1>3. CallsOK'
  BY <1>1, <1>2 DEF Consistent, CallsOK, FrameOK
<1>4. TypeOK'
  BY <1>1, <1>2 DEF Consistent, RecordsOK, TypeOK, Frames, Fitting
<1> QED  BY <1>3, <1>4 DEF Consistent

LEMMA FinishKeeps ==
  ASSUME Consistent, NEW c \in Calls, Finish(c),
         overlapped' \in BOOLEAN, RecordsOK'
  PROVE  Consistent'
<1>1. /\ call \in [Calls -> Frames]
      /\ resolving' = IF resolving = c THEN None ELSE resolving
      /\ call' = [d \in Calls |-> IF d = c \/ (resolving = c /\ call[d].pc = "joined")
                                    THEN Done ELSE call[d]]
  BY DEF Finish, Consistent, CallsOK
<1>2. Done \in Frames /\ FrameOK(Done) /\ Done.pc = "done"
  BY DoneOK DEF FrameOK
<1>3. \A d \in Calls : call'[d] \in {Done, call[d]} /\ call'[c] = Done
  BY <1>1
<1>4. call' \in [Calls -> Frames]
  BY <1>1, <1>2
<1>5. CallsOK'
  <2>1. \A d \in Calls : FrameOK(call'[d])
    BY <1>2, <1>3 DEF Consistent, CallsOK
  <2>2. \A d \in Calls : call'[d].pc = "fetching" => resolving' = d
    BY <1>1, <1>2, <1>3 DEF Consistent, CallsOK
  <2> QED  BY <1>4, <2>1, <2>2 DEF CallsOK
<1>6. TypeOK'
  BY <1>1, <1>4 DEF Consistent, RecordsOK, TypeOK, Frames, Fitting
<1> QED  BY <1>5, <1>6 DEF Consistent

-----------------------------------------------------------------------------
(* Keys stay beside their hashes and lookups stay shared, step by step.    *)
LEMMA InitConsistent == Init => Consistent
<1> SUFFICES ASSUME Init PROVE Consistent
  OBVIOUS
<1>1. \A c \in Calls : call[c] = Frame("idle", None, None, None)
  BY DEF Init
<1>2. Frame("idle", None, None, None) \in Frames
  BY DEF Frame, Frames, Fitting
<1>3. CallsOK
  BY <1>1, <1>2, FrameOf DEF Init, CallsOK, FrameOK
<1>4. TypeOK
  <2>1. \A c \in Calls : call[c].pc = "idle"
    BY <1>1, FrameOf
  <2> QED  BY <2>1 DEF Init, TypeOK
<1>5. RecordsOK
  BY DEF Init, RecordsOK, Fitting
<1> QED  BY <1>3, <1>4, <1>5 DEF Consistent

LEMMA LookKeeps ==
  ASSUME Consistent, NEW c \in Calls, NEW kind \in {"get", "set", "merge", "resolve"},
         NEW arg \in Events \cup Hashes \cup {None}, Look(c, kind, arg),
         kind = "set" => arg \in Events, kind = "merge" => arg \in Hashes,
         UNCHANGED <<memory, disk, acked>>, overlapped' \in BOOLEAN
  PROVE  Consistent'
<1>1. RecordsOK'
  BY DEF Consistent, RecordsOK
<1>2. PICK f : /\ GoTo(c, f)
               /\ f \in {Frame("looked", kind, arg, memory), Frame("reading", kind, arg, None)}
  BY DEF Look
<1>3. FrameOK(f) /\ f.pc # "fetching"
  BY <1>2 DEF Frame, FrameOK, Frames, Consistent, RecordsOK, Fitting
<1> QED  BY <1>1, <1>2, <1>3, GoToKeeps

LEMMA BeginKeepsConsistent ==
  ASSUME Consistent, NEW c \in Calls, CallBegins(c), overlapped' \in BOOLEAN
  PROVE  Consistent'
<1>1. CASE GetCachedRoot(c)
  BY <1>1, LookKeeps DEF GetCachedRoot
<1>2. ASSUME NEW e \in Events, SetCachedRoot(c, e) PROVE Consistent'
  BY <1>2, LookKeeps DEF SetCachedRoot
<1>3. ASSUME NEW h \in Hashes, MergeCachedRootKey(c, h) PROVE Consistent'
  BY <1>3, LookKeeps DEF MergeCachedRootKey
<1>4. CASE ResolveTreeRootNow(c)
  BY <1>4, LookKeeps DEF ResolveTreeRootNow
<1>5. CASE RemoveCachedRoot(c)
  <2>1. RecordsOK'
    BY <1>5 DEF RemoveCachedRoot, Consistent, RecordsOK, Fitting
  <2>2. FrameOK(Frame("deleting", "remove", None, None))
    BY DEF Frame, FrameOK, Frames, Fitting
  <2> QED  BY <1>5, <2>1, <2>2, FrameOf, GoToKeeps DEF RemoveCachedRoot
<1> QED  BY <1>1, <1>2, <1>3, <1>4, <1>5 DEF CallBegins

LEMMA ContinueKeepsConsistent ==
  ASSUME Consistent, NEW c \in Calls, CallContinues(c), overlapped' = overlapped
  PROVE  Consistent'
<1>1. /\ overlapped' \in BOOLEAN
      /\ call[c] \in Frames /\ call[c].rec \in Fitting /\ FrameOK(call[c])
      /\ memory \in Fitting /\ disk \in Fitting /\ acked \in Fitting
  BY DEF Consistent, TypeOK, CallsOK, RecordsOK, Frames
<1>2. UNCHANGED <<memory, disk, acked>> => RecordsOK'
  BY DEF Consistent, RecordsOK
<1>3. CASE ReadStore(c)
  <2>1. FrameOK([call[c] EXCEPT !.pc = "filling", !.rec = disk])
    BY <1>1, <1>3 DEF ReadStore, FrameOK, Frames
  <2>2. [call[c] EXCEPT !.pc = "filling", !.rec = disk].pc = "filling"
    BY <1>1 DEF Frames
  <2> QED  BY <1>1, <1>2, <1>3, <2>1, <2>2, GoToKeeps DEF ReadStore
<1>4. CASE FillMemory(c)
  <2>1. FrameOK([call[c] EXCEPT !.pc = "looked"])
    BY <1>1, <1>4 DEF FillMemory, FrameOK, Frames
  <2>2. [call[c] EXCEPT !.pc = "looked"].pc = "looked"
    BY <1>1 DEF Frames
  <2>3. RecordsOK'
    BY <1>1, <1>4 DEF FillMemory, RecordsOK
  <2> QED  BY <1>1, <1>4, <2>1, <2>2, <2>3, GoToKeeps DEF FillMemory
<1>5. CASE ReturnRoot(c)
  BY <1>1, <1>2, <1>5, FinishKeeps DEF ReturnRoot
<1>6. ASSUME NEW record \in Fitting \ {None}, Apply(c, record) PROVE Consistent'
  <2>1. FrameOK([call[c] EXCEPT !.pc = "persisting", !.rec = record])
    BY <1>1 DEF FrameOK, Frames
  <2>2. [call[c] EXCEPT !.pc = "persisting", !.rec = record].pc = "persisting"
    BY <1>1 DEF Frames
  <2>3. RecordsOK'
    BY <1>1, <1>6 DEF Apply, RecordsOK
  <2> QED  BY <1>1, <1>6, <2>1, <2>2, <2>3, GoToKeeps DEF Apply
<1>7. CASE DecideSet(c)
  <2>1. call[c].arg \in Events
    BY <1>1, <1>7 DEF DecideSet, Looked, FrameOK
  <2> QED  BY <1>1, <1>2, <1>6, <1>7, <2>1, CachedFits, FinishKeeps DEF DecideSet
<1>8. CASE DecideMerge(c)
  <2>1. call[c].arg \in Hashes
    BY <1>1, <1>8 DEF DecideMerge, Looked, FrameOK
  <2> QED  BY <1>1, <1>2, <1>6, <1>8, <2>1, MergedFits, FinishKeeps DEF DecideMerge
<1>9. CASE DecideResolve(c)
  <2>1. CASE Finish(c)
    BY <1>1, <1>2, <1>9, <2>1, FinishKeeps DEF DecideResolve
  <2>2. CASE GoTo(c, Frame("joined", "resolve", None, None))
    <3>1. FrameOK(Frame("joined", "resolve", None, None))
      BY DEF Frame, FrameOK, Frames, Fitting
    <3> QED  BY <1>1, <1>2, <1>9, <2>2, <3>1, FrameOf, GoToKeeps DEF DecideResolve
  <2>3. CASE /\ resolving = None /\ resolving' = c
             /\ call' = [call EXCEPT ![c] = Frame("fetching", "resolve", None, None)]
    <3>1. FrameOK(Frame("fetching", "resolve", None, None))
      BY DEF Frame, FrameOK, Frames, Fitting
    <3>2. /\ call' \in [Calls -> Frames]
          /\ \A d \in Calls \ {c} : call'[d] = call[d]
          /\ call'[c] = Frame("fetching", "resolve", None, None)
      BY <2>3, <3>1 DEF FrameOK, Consistent, CallsOK
    <3>3. CallsOK'
      BY <2>3, <3>1, <3>2, NoneAssumption DEF Consistent, CallsOK
    <3>4. TypeOK'
      BY <1>1, <1>9, <2>3, <3>2 DEF DecideResolve, Consistent, TypeOK, Frames
    <3> QED  BY <1>2, <1>9, <3>3, <3>4 DEF Consistent, DecideResolve
  <2> QED  BY <1>9, <2>1, <2>2, <2>3 DEF DecideResolve, AskNetwork
<1>10. CASE Fetched(c)
  <2>1. CASE Finish(c)
    BY <1>1, <1>2, <1>10, <2>1, FinishKeeps DEF Fetched
  <2>2. ASSUME NEW e \in Events, Look(c, "set", e) PROVE Consistent'
    BY <1>1, <1>10, <2>2, LookKeeps DEF Fetched
  <2> QED  BY <1>10, <2>1, <2>2 DEF Fetched
<1>11. CASE Persist(c)
  <2>1. call[c].rec \in Fitting \ {None}
    BY <1>1, <1>11 DEF Persist, FrameOK
  <2>2. RecordsOK'
    BY <1>1, <1>11, <2>1, NewestFits DEF Persist, RecordsOK
  <2> QED  BY <1>1, <1>11, <2>2, FinishKeeps DEF Persist
<1>12. CASE Delete(c)
  <2>1. RecordsOK'
    BY <1>1, <1>12 DEF Delete, RecordsOK, Fitting
  <2> QED  BY <1>1, <1>12, <2>1, FinishKeeps DEF Delete
<1> QED  BY <1>3, <1>4, <1>5, <1>7, <1>8, <1>9, <1>10, <1>11, <1>12 DEF CallContinues

LEMMA EvictKeepsConsistent ==
  ASSUME Consistent, Evict, UNCHANGED overlapped
  PROVE  Consistent'
BY DEF Consistent, Evict, TypeOK, CallsOK, RecordsOK, Fitting

LEMMA RestartKeepsConsistent ==
  ASSUME Consistent, Restart, UNCHANGED overlapped
  PROVE  Consistent'
<1>1. /\ call \in [Calls -> Frames] /\ Done \in Frames /\ FrameOK(Done) /\ Done.pc = "done"
      /\ call' = [c \in Calls |-> IF c \in Busy THEN Done ELSE call[c]]
  BY DoneOK DEF Restart, FrameOK, Consistent, CallsOK
<1>2. /\ call' \in [Calls -> Frames]
      /\ \A c \in Calls : call'[c] \in {Done, call[c]} /\ call'[c].pc \in {"idle", "done"}
  BY <1>1 DEF Busy
<1>3. CallsOK'
  BY <1>1, <1>2 DEF Consistent, CallsOK
<1>4. TypeOK' /\ RecordsOK'
  BY <1>1, <1>2 DEF Restart, Consistent, TypeOK, RecordsOK, Frames, Fitting
<1> QED  BY <1>3, <1>4 DEF Consistent

LEMMA NextKeepsConsistent == Consistent /\ [Next]_vars => Consistent'
<1> SUFFICES ASSUME Consistent, [Next]_vars PROVE Consistent'
  OBVIOUS
<1>1. ASSUME NEW c \in Calls, CallBegins(c), overlapped' = (overlapped \/ Busy # {})
      PROVE  Consistent'
  BY <1>1, BeginKeepsConsistent DEF Consistent, TypeOK
<1>2. ASSUME NEW c \in Calls, CallContinues(c), UNCHANGED overlapped PROVE Consistent'
  BY <1>2, ContinueKeepsConsistent
<1>3. CASE UNCHANGED vars
  BY <1>3 DEF vars, Consistent, TypeOK, CallsOK, RecordsOK, FrameOK
<1> QED  BY <1>1, <1>2, <1>3, EvictKeepsConsistent, RestartKeepsConsistent DEF Next

-----------------------------------------------------------------------------
THEOREM StaysConsistent == Spec => []Consistent
BY InitConsistent, NextKeepsConsistent, PTL DEF Spec

THEOREM TypeCorrect == Spec => []TypeOK
<1>1. Consistent => TypeOK
  BY DEF Consistent
<1> QED  BY <1>1, StaysConsistent, PTL

(* Whatever calls overlap, whichever record a key came from.               *)
THEOREM KeysMatchHashes == Spec => []KeyMatchesHash
<1>1. Consistent => KeyMatchesHash
  BY NoneAssumption DEF Consistent, RecordsOK, KeyMatchesHash, Fitting
<1> QED  BY <1>1, StaysConsistent, PTL

(* The call that others find under way is the only one that asks.          *)
THEOREM FetchesShared == Spec => []OneFetchAtATime
<1>1. Consistent => OneFetchAtATime
  <2> SUFFICES ASSUME Consistent PROVE OneFetchAtATime
    OBVIOUS
  <2> DEFINE fetching == {c \in Calls : call[c].pc = "fetching"}
  <2>1. \A c, d \in fetching : c = d
    BY DEF Consistent, CallsOK
  <2>2. Cardinality(fetching) <= 1
    <3>1. CASE fetching = {}
      BY <3>1, FS_EmptySet
    <3>2. CASE fetching # {}
      <4>1. PICK c \in fetching : fetching = {c}
        BY <2>1, <3>2
      <4>2. Cardinality({c}) = 1
        BY FS_Singleton
      <4> HIDE DEF fetching
      <4> QED  BY <4>1, <4>2
    <3> QED  BY <3>1, <3>2
  <2> QED  BY <2>2 DEF OneFetchAtATime
<1> QED  BY <1>1, StaysConsistent, PTL

(* Together: what holds of the roots whatever calls overlap.               *)
THEOREM RootsAlwaysAgree == Spec => []RootsAgree
<1>1. TypeOK /\ KeyMatchesHash /\ OneFetchAtATime => RootsAgree
  BY DEF RootsAgree
<1> QED  BY <1>1, TypeCorrect, KeysMatchHashes, FetchesShared, PTL

-----------------------------------------------------------------------------
(* Callers that wait for each other.  What each step does to the call that *)
(* takes it, and to those that were already over.                          *)
LEMMA InitOrdered == Init => OneAfterAnother
<1> SUFFICES ASSUME Init PROVE OneAfterAnother
  OBVIOUS
<1>1. \A c \in Calls : call[c].pc = "idle"
  BY FrameOf DEF Init
<1> QED  BY <1>1 DEF Init, OneAfterAnother, Ordered, Alone, Busy, StoreNewest, MemoryBacked, ReadIsCurrent

LEMMA GoToAlone ==
  ASSUME Consistent, NEW c \in Calls, NEW frame, GoTo(c, frame),
         Alone, Busy \subseteq {c}
  PROVE  /\ Alone' /\ call'[c] = frame
         /\ \A d \in Calls \ {c} : call'[d] = call[d] /\ call[d].pc \in {"idle", "done"}
BY DEF GoTo, Consistent, CallsOK, Alone, Busy

LEMMA FinishAlone ==
  ASSUME Consistent, NEW c \in Calls, Finish(c), Alone, Busy \subseteq {c}
  PROVE  /\ Alone'
         /\ \A d \in Calls : call'[d].pc \in {"idle", "done"}
<1>1. \A d \in Calls : call'[d] \in {Done, call[d]} /\ call'[c] = Done
  BY DEF Finish
<1>2. \A d \in Calls \ {c} : call[d].pc \in {"idle", "done"}
  BY DEF Busy
<1>3. \A d \in Calls : call'[d].pc \in {"idle", "done"}
  BY <1>1, <1>2, DoneOK
<1> QED  BY <1>3 DEF Alone, Busy

LEMMA LookKeepsOrder ==
  ASSUME Consistent, NEW c \in Calls, NEW kind, NEW arg, Look(c, kind, arg),
         Alone, Busy \subseteq {c}, StoreNewest, MemoryBacked, ~Writing(memory),
         UNCHANGED <<memory, disk, acked>>
  PROVE  Alone' /\ StoreNewest' /\ MemoryBacked' /\ ReadIsCurrent'
<1>1. PICK f : /\ GoTo(c, f)
               /\ \/ memory # None /\ f = Frame("looked", kind, arg, memory)
                  \/ memory = None /\ f = Frame("reading", kind, arg, None)
  BY DEF Look
<1>2. /\ Alone' /\ call'[c] = f
      /\ \A d \in Calls \ {c} : call'[d] = call[d] /\ call[d].pc \in {"idle", "done"}
  BY <1>1, GoToAlone
<1>3. StoreNewest' /\ MemoryBacked'
  BY DEF StoreNewest, MemoryBacked, Writing
<1>4. ReadIsCurrent'
  BY <1>1, <1>2, FrameOf DEF ReadIsCurrent, MemoryBacked
<1> QED  BY <1>2, <1>3, <1>4

LEMMA BeginKeepsOrder ==
  ASSUME Consistent, Ordered, Busy = {}, NEW c \in Calls, CallBegins(c)
  PROVE  Ordered'
<1>1. /\ Alone /\ Busy \subseteq {c} /\ StoreNewest /\ MemoryBacked
      /\ \A d \in Calls : call[d].pc \in {"idle", "done"}
  BY DEF Ordered, Busy
<1>2. ~Writing(memory)
  BY <1>1 DEF Writing
<1>3. ASSUME NEW kind, NEW arg, Look(c, kind, arg), UNCHANGED <<memory, disk, acked>>
      PROVE  Ordered'
  BY <1>1, <1>2, <1>3, LookKeepsOrder DEF Ordered
<1>4. CASE RemoveCachedRoot(c)
  <2>1. /\ memory' = None /\ acked' = None /\ disk' = disk
        /\ GoTo(c, Frame("deleting", "remove", None, None))
    BY <1>4 DEF RemoveCachedRoot
  <2>2. /\ Alone' /\ call'[c] = Frame("deleting", "remove", None, None)
        /\ \A d \in Calls \ {c} : call'[d] = call[d]
    BY <1>1, <2>1, GoToAlone
  <2>3. ReadIsCurrent'
    BY <1>1, <2>1, <2>2, FrameOf DEF ReadIsCurrent
  <2> QED  BY <2>1, <2>2, <2>3 DEF Ordered, StoreNewest, MemoryBacked
<1> QED  BY <1>3, <1>4 DEF CallBegins, GetCachedRoot, SetCachedRoot, MergeCachedRootKey,
             ResolveTreeRootNow

(* A call that puts a record in memory which is not older than the one it  *)
(* has read, which is the one in the store.                                *)
LEMMA ApplyKeepsOrder ==
  ASSUME Consistent, Ordered, NEW c \in Calls, Busy \subseteq {c}, call[c].pc = "looked",
         NEW record \in Fitting \ {None}, Apply(c, record),
         call[c].rec # None => ~OlderThan(record, call[c].rec)
  PROVE  Ordered'
<1> DEFINE frame == [call[c] EXCEPT !.pc = "persisting", !.rec = record]
<1>1. call[c] \in Frames /\ frame.pc = "persisting" /\ frame.rec = record
  BY DEF Consistent, CallsOK, Frames
<1>2. GoTo(c, frame) /\ memory' = record /\ UNCHANGED <<disk, acked>>
  BY DEF Apply
<1>3. /\ Alone' /\ call'[c] = frame
      /\ \A d \in Calls \ {c} : call'[d] = call[d] /\ call[d].pc \in {"idle", "done"}
  <2> HIDE DEF frame
  <2> QED  BY <1>2, GoToAlone DEF Ordered
<1> HIDE DEF frame
<1>4. StoreNewest'
  BY <1>2 DEF Ordered, StoreNewest
<1>5. MemoryBacked'
  BY <1>1, <1>2, <1>3 DEF MemoryBacked, Writing
<1>6. ReadIsCurrent'
  <2>1. disk # None => ~OlderThan(record, disk)
    BY DEF Ordered, ReadIsCurrent
  <2> QED  BY <1>1, <1>2, <1>3, <2>1 DEF ReadIsCurrent
<1> QED  BY <1>3, <1>4, <1>5, <1>6 DEF Ordered

(* A call that ends with memory and store as they were.                    *)
LEMMA FinishKeepsOrder ==
  ASSUME Consistent, Ordered, NEW c \in Calls, Busy \subseteq {c},
         call[c].pc # "persisting", Finish(c), UNCHANGED <<memory, disk, acked>>
  PROVE  Ordered'
<1>1. Alone' /\ \A d \in Calls : call'[d].pc \in {"idle", "done"}
  BY FinishAlone DEF Ordered
<1>2. ~Writing(memory)
  BY DEF Writing, Busy
<1>3. StoreNewest' /\ MemoryBacked' /\ ReadIsCurrent'
  BY <1>1, <1>2 DEF Ordered, StoreNewest, MemoryBacked, ReadIsCurrent
<1> QED  BY <1>1, <1>3 DEF Ordered

LEMMA ContinueKeepsOrder ==
  ASSUME Consistent, Ordered, NEW c \in Calls, CallContinues(c)
  PROVE  Ordered'
<1>1. /\ Alone /\ StoreNewest /\ MemoryBacked /\ ReadIsCurrent
      /\ call[c] \in Frames /\ call[c].rec \in Fitting /\ FrameOK(call[c])
      /\ memory \in Fitting /\ disk \in Fitting /\ acked \in Fitting
  BY DEF Ordered, Consistent, CallsOK, RecordsOK, Frames
<1>2. Busy \subseteq {c}
  <2>1. c \in Busy
    BY DEF CallContinues, Busy, ReadStore, FillMemory, ReturnRoot, DecideSet, DecideMerge,
           DecideResolve, Fetched, Persist, Delete, Looked
  <2> QED  BY <1>1, <2>1 DEF Alone, Busy
<1>3. CASE ReadStore(c)
  <2> DEFINE frame == [call[c] EXCEPT !.pc = "filling", !.rec = disk]
  <2>1. frame.pc = "filling" /\ frame.rec = disk
    BY <1>1 DEF Frames
  <2>2. GoTo(c, frame) /\ UNCHANGED <<memory, disk, acked>> /\ memory = None
    BY <1>1, <1>3 DEF ReadStore, ReadIsCurrent
  <2> HIDE DEF frame
  <2>3. /\ Alone' /\ call'[c] = frame
        /\ \A d \in Calls \ {c} : call'[d] = call[d] /\ call[d].pc \in {"idle", "done"}
    BY <1>1, <1>2, <2>2, GoToAlone
  <2>4. StoreNewest' /\ MemoryBacked' /\ ReadIsCurrent'
    BY <1>1, <2>1, <2>2, <2>3 DEF StoreNewest, MemoryBacked, ReadIsCurrent
  <2> QED  BY <2>3, <2>4 DEF Ordered
<1>4. CASE FillMemory(c)
  <2> DEFINE frame == [call[c] EXCEPT !.pc = "looked"]
  <2>1. frame.pc = "looked" /\ frame.rec = disk
    BY <1>1, <1>4 DEF Frames, FillMemory, ReadIsCurrent
  <2>2. GoTo(c, frame) /\ UNCHANGED <<disk, acked>> /\ memory' = disk
    BY <1>1, <1>4 DEF FillMemory, ReadIsCurrent
  <2> HIDE DEF frame
  <2>3. /\ Alone' /\ call'[c] = frame
        /\ \A d \in Calls \ {c} : call'[d] = call[d] /\ call[d].pc \in {"idle", "done"}
    BY <1>1, <1>2, <2>2, GoToAlone
  <2>4. StoreNewest' /\ MemoryBacked' /\ ReadIsCurrent'
    BY <1>1, <2>1, <2>2, <2>3 DEF StoreNewest, MemoryBacked, ReadIsCurrent
  <2> QED  BY <2>3, <2>4 DEF Ordered
<1>5. CASE ReturnRoot(c)
  BY <1>2, <1>5, FinishKeepsOrder DEF ReturnRoot, Looked
<1>6. CASE DecideSet(c)
  <2>1. call[c].arg \in Events /\ call[c].pc = "looked"
    BY <1>1, <1>6 DEF DecideSet, Looked, FrameOK
  <2>2. /\ Cached(call[c].arg, call[c].rec) \in Fitting \ {None}
        /\ call[c].rec # None /\ Applies(call[c].arg, call[c].rec) =>
             ~OlderThan(Cached(call[c].arg, call[c].rec), call[c].rec)
    BY <1>1, <2>1, CachedFits
  <2> QED  BY <1>2, <1>6, <2>1, <2>2, ApplyKeepsOrder, FinishKeepsOrder DEF DecideSet
<1>7. CASE DecideMerge(c)
  <2>1. call[c].arg \in Hashes /\ call[c].pc = "looked"
    BY <1>1, <1>7 DEF DecideMerge, Looked, FrameOK
  <2> QED  BY <1>1, <1>2, <1>7, <2>1, MergedFits, ApplyKeepsOrder, FinishKeepsOrder
           DEF DecideMerge
<1>8. CASE DecideResolve(c)
  <2>1. call[c].pc = "looked" /\ UNCHANGED <<memory, disk, acked>>
    BY <1>8 DEF DecideResolve, Looked
  <2>2. CASE Finish(c)
    BY <1>2, <2>1, <2>2, FinishKeepsOrder
  <2>3. CASE \E pc \in {"joined", "fetching"} :
               call' = [call EXCEPT ![c] = Frame(pc, "resolve", None, None)]
    <3>1. PICK pc \in {"joined", "fetching"} :
             call' = [call EXCEPT ![c] = Frame(pc, "resolve", None, None)]
      BY <2>3
    <3>2. /\ call'[c].pc \in {"joined", "fetching"}
          /\ \A d \in Calls \ {c} : call'[d] = call[d] /\ call[d].pc \in {"idle", "done"}
      BY <1>2, <3>1, FrameOf DEF Consistent, CallsOK, Busy
    <3>3. Alone' /\ ~Writing(memory)
      BY <2>1, <3>2 DEF Alone, Busy, Writing
    <3>4. StoreNewest' /\ MemoryBacked' /\ ReadIsCurrent'
      BY <1>1, <2>1, <3>2, <3>3 DEF StoreNewest, MemoryBacked, ReadIsCurrent
    <3> QED  BY <3>3, <3>4 DEF Ordered
  <2> QED  BY <1>8, <2>2, <2>3 DEF DecideResolve, AskNetwork, GoTo
<1>9. CASE Fetched(c)
  <2>1. ~Writing(memory)
    BY <1>2, <1>9 DEF Fetched, Writing, Busy
  <2> QED  BY <1>1, <1>2, <1>9, <2>1, FinishKeepsOrder, LookKeepsOrder DEF Fetched, Ordered
<1>10. CASE Persist(c)
  <2>1. /\ call[c].rec \in Fitting \ {None} /\ disk' = call[c].rec /\ memory' = memory
        /\ acked' = Newest(acked, call[c].rec)
    BY <1>1, <1>10 DEF Persist, FrameOK
  <2>2. Alone' /\ \A d \in Calls : call'[d].pc \in {"idle", "done"}
    BY <1>1, <1>2, <1>10, FinishAlone DEF Persist
  <2>3. StoreNewest'
    <3>1. acked # None => ~OlderThan(call[c].rec, acked)
      <4> SUFFICES ASSUME acked # None PROVE ~OlderThan(call[c].rec, acked)
        OBVIOUS
      <4>1. disk # None /\ ~OlderThan(disk, acked) /\ ~OlderThan(call[c].rec, disk)
        BY <1>1, <1>10 DEF StoreNewest, ReadIsCurrent, Persist
      <4> QED  BY <1>1, <2>1, <4>1, NotOlderTransitive DEF Fitting
    <3>2. Newest(acked, call[c].rec) \in {acked, call[c].rec}
      BY <1>1, <2>1, NewestFits
    <3>3. ~OlderThan(call[c].rec, call[c].rec)
      BY <2>1, NotOlderReflexive DEF Fitting
    <3> QED  BY <2>1, <3>1, <3>2, <3>3 DEF StoreNewest
  <2>4. MemoryBacked'
    <3>1. memory \in {None, call[c].rec}
      BY <1>1, <1>10 DEF Persist, ReadIsCurrent
    <3> QED  BY <2>1, <3>1 DEF MemoryBacked
  <2>5. ReadIsCurrent'
    BY <2>2 DEF ReadIsCurrent
  <2> QED  BY <2>2, <2>3, <2>4, <2>5 DEF Ordered
<1>11. CASE Delete(c)
  <2>1. memory = None /\ acked = None /\ UNCHANGED <<memory, acked>>
    BY <1>1, <1>11 DEF Delete, ReadIsCurrent
  <2>2. Alone' /\ \A d \in Calls : call'[d].pc \in {"idle", "done"}
    BY <1>1, <1>2, <1>11, FinishAlone DEF Delete
  <2> QED  BY <2>1, <2>2 DEF Ordered, StoreNewest, MemoryBacked, ReadIsCurrent
<1> QED  BY <1>3, <1>4, <1>5, <1>6, <1>7, <1>8, <1>9, <1>10, <1>11 DEF CallContinues

LEMMA EvictKeepsOrder ==
  ASSUME Consistent, Ordered, Evict
  PROVE  Ordered'
BY DEF Evict, Ordered, Alone, Busy, StoreNewest, MemoryBacked, ReadIsCurrent, Consistent, CallsOK

LEMMA RestartKeepsOrder ==
  ASSUME Consistent, Ordered, Restart
  PROVE  Ordered'
<1>1. \A c \in Calls : call'[c].pc \in {"idle", "done"}
  BY DoneOK DEF Restart, Busy
<1>2. memory' = None /\ UNCHANGED <<disk, acked>>
  BY DEF Restart
<1> QED  BY <1>1, <1>2 DEF Ordered, Alone, Busy, StoreNewest, MemoryBacked, ReadIsCurrent

LEMMA NextKeepsOrder == IInv /\ [Next]_vars => OneAfterAnother'
<1> SUFFICES ASSUME Consistent, OneAfterAnother, [Next]_vars, ~overlapped' PROVE Ordered'
  BY DEF IInv, OneAfterAnother
<1>1. ASSUME NEW c \in Calls, CallBegins(c), overlapped' = (overlapped \/ Busy # {})
      PROVE  Ordered'
  BY <1>1, BeginKeepsOrder DEF OneAfterAnother
<1>2. overlapped' = overlapped => Ordered
  BY DEF OneAfterAnother
<1>3. CASE UNCHANGED vars
  BY <1>2, <1>3 DEF vars, Ordered, Alone, Busy, StoreNewest, MemoryBacked, Writing, ReadIsCurrent
<1> QED  BY <1>1, <1>2, <1>3, ContinueKeepsOrder, EvictKeepsOrder, RestartKeepsOrder DEF Next

THEOREM InvariantHolds == Spec => []IInv
<1>1. Init => IInv
  BY InitConsistent, InitOrdered DEF IInv
<1>2. IInv /\ [Next]_vars => IInv'
  BY NextKeepsConsistent, NextKeepsOrder DEF IInv
<1> QED  BY <1>1, <1>2, PTL DEF Spec

(* The newest root that was applied survives older events, evictions and   *)
(* restarts, and an idle cache holds nothing that the store lacks.         *)
THEOREM RootsAreKept == Spec => []RootsKept
<1>1. IInv => AcknowledgedKept
  <2> SUFFICES ASSUME Consistent, Ordered, acked # None
               PROVE  Answer # None /\ ~OlderThan(Answer, acked)
    BY DEF IInv, OneAfterAnother, AcknowledgedKept
  <2>1. disk # None /\ ~OlderThan(disk, acked)
    BY DEF Ordered, StoreNewest
  <2>2. CASE memory \in {None, disk}
    BY <2>1, <2>2 DEF Answer
  <2>3. CASE memory # None /\ Writing(memory)
    <3>1. PICK c \in Calls : call[c].pc = "persisting" /\ call[c].rec = memory
      BY <2>3 DEF Writing
    <3>2. ~OlderThan(memory, disk)
      BY <2>1, <3>1 DEF Ordered, ReadIsCurrent
    <3>3. memory \in Records /\ disk \in Records /\ acked \in Records
      BY <2>1, <2>3 DEF Consistent, RecordsOK, Fitting
    <3> QED  BY <2>1, <2>3, <3>2, <3>3, NotOlderTransitive DEF Answer
  <2> QED  BY <2>2, <2>3 DEF Ordered, MemoryBacked
<1>2. IInv => BackedByStore
  BY DEF IInv, OneAfterAnother, Ordered, MemoryBacked, Writing, Busy, BackedByStore
<1> QED  BY <1>1, <1>2, InvariantHolds, PTL DEF RootsKept

-----------------------------------------------------------------------------
(* Requests for media.                                                     *)

Messages == [type : {"headers", "chunk", "done", "error"}, from : Nat, to : Nat]

(* What has been posted: each message fits the one before it.              *)
Fits(s, start) ==
  \A i \in 1..Len(s) : LET m == s[i] IN
    /\ m.type = "headers" => i = 1
    /\ m.type = "chunk" => i > 1 /\ m.from = (IF i = 2 THEN start ELSE s[i - 1].to) /\ m.from <= m.to
    /\ m.type \in {"done", "error"} => i = Len(s)

Complete(s) == Len(s) > 2 /\ s[Len(s)].type = "done" => s[Len(s) - 1].to >= s[1].to

(* Headers and chunks up to a position, without an end yet.                *)
Unended(s, start, position) ==
  /\ s \in Seq(Messages) /\ Len(s) > 0 /\ s[1].type = "headers"
  /\ \A i \in 2..Len(s) : s[i].type = "chunk"
  /\ Fits(s, start)
  /\ position = IF Len(s) = 1 THEN start ELSE s[Len(s)].to

-----------------------------------------------------------------------------
(* The inductive invariant.                                                *)
Before == {"idle", "asking", "missed", "waiting", "resolving", "sizing", "buffering"}
Following == {"live", "checking", "reading"}
Open == {"fetching", "streaming"} \cup Following
WithRoot == {"resolving", "sizing", "buffering"} \cup Open
WithSize == {"sizing", "buffering", "fetching", "streaming", "reading"}

LiveTypes ==
  /\ file \in Seq(Nat \cup {Absent}) /\ published \in 1..Len(file) /\ cached \in 0..published
  /\ root \in [Requests -> 0..published] /\ offset \in [Requests -> Nat]
  /\ at \in [Requests -> Before \cup Open \cup {"over"}]
  /\ out \in [Requests -> Seq(Messages)]
  /\ ask = [r \in Requests |-> ask[r]]

(* What is read has a root and, past the directory, a size; and whoever    *)
(* goes on by path was given a root that the cache had.                    *)
RootKnown(r) ==
  /\ at[r] \in WithRoot => root[r] \in 1..published
  /\ at[r] \in WithSize => SizeOf(r) \in Nat
  /\ at[r] \in {"resolving"} \cup Following => cached # NoRoot
  /\ at[r] \in {"sizing", "fetching"} => ask[r].kind = "cid" \/ cached # NoRoot

(* The position is where the messages end.                                 *)
Posted(r) ==
  /\ at[r] \in Before =>
       out[r] = <<>> /\ (at[r] # "idle" => offset[r] = ask[r].start /\ ask[r].start \in Nat)
  /\ at[r] = "buffering" => offset[r] = 0
  /\ at[r] \in Open => Unended(out[r], ask[r].start, offset[r])
  /\ at[r] \in {"fetching", "streaming"} => out[r][1].to = SizeOf(r)
  /\ at[r] = "fetching" => Len(out[r]) = 1
  /\ at[r] \in Following => r \in lacked \/ offset[r] >= out[r][1].to
  /\ at[r] = "reading" => SizeOf(r) > offset[r]
  /\ Fits(out[r], ask[r].start)
  /\ r \in lacked \/ Complete(out[r])

LiveInv ==
  /\ LiveTypes /\ WaitsAreNeeded
  /\ \A r \in Requests : RootKnown(r) /\ Posted(r)
-----------------------------------------------------------------------------
(* The messages.                                                           *)
LEMMA MessageTypes ==
  /\ \A n \in Nat : Headers(n) \in Messages /\ Headers(n).type = "headers" /\ Headers(n).to = n
  /\ \A a, b \in Nat : Chunk(a, b) \in Messages /\ Chunk(a, b).type = "chunk" /\ Chunk(a, b).from = a /\ Chunk(a, b).to = b
  /\ \A type \in {"done", "error"} : End(type) \in Messages /\ End(type).type = type
BY DEF Headers, Chunk, End, Messages

LEMMA Appended ==
  ASSUME NEW S, NEW s \in Seq(S), NEW m \in S
  PROVE  /\ s \o <<m>> \in Seq(S) /\ Append(s, m) = s \o <<m>>
         /\ Len(s \o <<m>>) = Len(s) + 1 /\ (s \o <<m>>)[Len(s) + 1] = m
         /\ \A i \in 1..Len(s) : (s \o <<m>>)[i] = s[i]
OBVIOUS

LEMMA PostHeaders ==
  ASSUME NEW n \in Nat, NEW start
  PROVE  /\ Unended(<<>> \o <<Headers(n)>>, start, start) /\ Len(<<>> \o <<Headers(n)>>) = 1
         /\ (<<>> \o <<Headers(n)>>)[1].to = n
<1> DEFINE h == Headers(n)
<1>1. h \in Messages /\ h.type = "headers" /\ h.to = n
  BY MessageTypes
<1> HIDE DEF h
<1>2. <<>> \o <<h>> = <<h>> /\ <<h>> \in Seq(Messages) /\ Len(<<h>>) = 1 /\ <<h>>[1] = h
  BY <1>1
<1>3. Unended(<<h>>, start, start)
  BY <1>1, <1>2 DEF Unended, Fits
<1> QED  BY <1>1, <1>2, <1>3 DEF h

LEMMA PostChunk ==
  ASSUME NEW s, NEW start, NEW a \in Nat, NEW b \in Nat, a <= b, Unended(s, start, a)
  PROVE  /\ Unended(s \o <<Chunk(a, b)>>, start, b)
         /\ (s \o <<Chunk(a, b)>>)[1] = s[1]
         /\ Len(s \o <<Chunk(a, b)>>) = Len(s) + 1
<1> DEFINE m == Chunk(a, b)
           t == s \o <<m>>
<1>1. m \in Messages /\ m.type = "chunk" /\ m.from = a /\ m.to = b
  BY MessageTypes
<1>2. s \in Seq(Messages) /\ Len(s) \in Nat /\ Len(s) > 0
  BY DEF Unended
<1>3. /\ t \in Seq(Messages) /\ Len(t) = Len(s) + 1 /\ t[Len(s) + 1] = m
      /\ \A i \in 1..Len(s) : t[i] = s[i]
  BY <1>1, <1>2, Appended
<1> HIDE DEF m, t
<1>4. \A i \in 1..(Len(s) + 1) : i \in 1..Len(s) \/ i = Len(s) + 1
  BY <1>2
<1>5. t[1] = s[1] /\ t[1].type = "headers"
  BY <1>2, <1>3 DEF Unended
<1>6. \A i \in 2..Len(t) : t[i].type = "chunk"
  <2> SUFFICES ASSUME NEW i \in 2..Len(t) PROVE t[i].type = "chunk"
    OBVIOUS
  <2>1. CASE i = Len(s) + 1
    BY <1>1, <1>3, <2>1
  <2>2. CASE i \in 2..Len(s)
    BY <1>3, <2>2 DEF Unended
  <2> QED  BY <1>2, <1>3, <2>1, <2>2
<1>7. Fits(t, start)
  <2> SUFFICES ASSUME NEW i \in 1..Len(t)
               PROVE  /\ t[i].type = "headers" => i = 1
                      /\ t[i].type = "chunk" =>
                           i > 1 /\ t[i].from = (IF i = 2 THEN start ELSE t[i - 1].to) /\ t[i].from <= t[i].to
                      /\ t[i].type \in {"done", "error"} => i = Len(t)
    BY DEF Fits
  <2>1. CASE i = 1
    BY <1>5, <2>1
  <2>2. CASE i \in 2..Len(s)
    <3>1. t[i] = s[i] /\ t[i - 1] = s[i - 1] /\ s[i].type = "chunk" /\ i \in 1..Len(s)
      BY SMTT(30), <1>2, <1>3, <2>2 DEF Unended
    <3>2. i > 1 /\ s[i].from = (IF i = 2 THEN start ELSE s[i - 1].to) /\ s[i].from <= s[i].to
      BY <3>1 DEF Unended, Fits
    <3> QED  BY <3>1, <3>2
  <2>3. CASE i = Len(s) + 1
    <3>1. t[i] = m /\ i - 1 = Len(s) /\ i > 1 /\ t[i - 1] = s[Len(s)]
      BY <1>2, <1>3, <2>3
    <3>2. a = IF Len(s) = 1 THEN start ELSE s[Len(s)].to
      BY DEF Unended
    <3>3. i = 2 <=> Len(s) = 1
      <4>1. \A n \in Nat : n + 1 = 2 <=> n = 1
        OBVIOUS
      <4> QED  BY <1>2, <2>3, <4>1
    <3> QED  BY <1>1, <3>1, <3>2, <3>3
  <2> QED  BY <1>2, <1>3, <2>1, <2>2, <2>3
<1>8. b = IF Len(t) = 1 THEN start ELSE t[Len(t)].to
  BY <1>1, <1>2, <1>3
<1>9. Unended(t, start, b)
  BY <1>2, <1>3, <1>5, <1>6, <1>7, <1>8 DEF Unended
<1> QED  BY <1>3, <1>5, <1>9 DEF m, t

(* The end of a response, and when it is a good one.                       *)
LEMMA PostEnd ==
  ASSUME NEW s, NEW start, NEW a, Unended(s, start, a), NEW type \in {"done", "error"}
  PROVE  LET t == s \o <<End(type)>> IN
         /\ t \in Seq(Messages) /\ Fits(t, start)
         /\ type = "error" \/ Len(s) = 1 \/ a >= s[1].to => Complete(t)
<1> DEFINE m == End(type)
           t == s \o <<m>>
<1>1. m \in Messages /\ m.type = type
  BY MessageTypes
<1>2. s \in Seq(Messages) /\ Len(s) \in Nat /\ Len(s) > 0
  BY DEF Unended
<1>3. /\ t \in Seq(Messages) /\ Len(t) = Len(s) + 1 /\ t[Len(s) + 1] = m
      /\ \A i \in 1..Len(s) : t[i] = s[i]
  BY <1>1, <1>2, Appended
<1> HIDE DEF m, t
<1>4. Fits(t, start)
  <2> SUFFICES ASSUME NEW i \in 1..Len(t)
               PROVE  /\ t[i].type = "headers" => i = 1
                      /\ t[i].type = "chunk" =>
                           i > 1 /\ t[i].from = (IF i = 2 THEN start ELSE t[i - 1].to) /\ t[i].from <= t[i].to
                      /\ t[i].type \in {"done", "error"} => i = Len(t)
    BY DEF Fits
  <2>1. CASE i = 1
    <3>1. t[i].type = "headers"
      BY <1>2, <1>3, <2>1 DEF Unended
    <3> QED  BY <2>1, <3>1
  <2>2. CASE i \in 2..Len(s)
    <3>1. t[i] = s[i] /\ t[i - 1] = s[i - 1] /\ s[i].type = "chunk" /\ i \in 1..Len(s)
      BY <1>2, <1>3, <2>2 DEF Unended
    <3>2. i > 1 /\ s[i].from = (IF i = 2 THEN start ELSE s[i - 1].to) /\ s[i].from <= s[i].to
      BY <3>1 DEF Unended, Fits
    <3> QED  BY <3>1, <3>2
  <2>3. CASE i = Len(s) + 1
    BY <1>1, <1>3, <2>3
  <2> QED  BY <1>2, <1>3, <2>1, <2>2, <2>3
<1>5. type = "error" \/ Len(s) = 1 \/ a >= s[1].to => Complete(t)
  <2>1. CASE type = "error"
    BY <1>1, <1>2, <1>3, <2>1 DEF Complete
  <2>2. CASE Len(s) = 1
    BY <1>2, <1>3, <2>2 DEF Complete
  <2>3. CASE Len(s) # 1 /\ a >= s[1].to
    <3>1. t[Len(t) - 1] = s[Len(s)] /\ t[1] = s[1] /\ a = s[Len(s)].to
      BY <1>2, <1>3, <2>3 DEF Unended
    <3> QED  BY <2>3, <3>1 DEF Complete
  <2> QED  BY <2>1, <2>2, <2>3
<1> QED  BY <1>3, <1>4, <1>5 DEF m, t

LEMMA ErrorAlone ==
  ASSUME NEW start
  PROVE  LET t == <<>> \o <<End("error")>> IN
         t \in Seq(Messages) /\ t = Append(<<>>, End("error")) /\ Fits(t, start) /\ Complete(t)
<1> DEFINE m == End("error")
<1>1. m \in Messages /\ m.type = "error"
  BY MessageTypes
<1> HIDE DEF m
<1>2. <<>> \o <<m>> = <<m>> /\ Append(<<>>, m) = <<m>> /\ <<m>> \in Seq(Messages) /\ Len(<<m>>) = 1 /\ <<m>>[1] = m
  BY <1>1
<1>3. Fits(<<m>>, start) /\ Complete(<<m>>)
  BY <1>1, <1>2 DEF Fits, Complete
<1> QED  BY <1>2, <1>3 DEF m

LEMMA UnendedIsFine ==
  ASSUME NEW s, NEW start, NEW a, Unended(s, start, a)
  PROVE  s \in Seq(Messages) /\ Fits(s, start) /\ Complete(s)
<1>1. Len(s) \in Nat /\ (Len(s) > 2 => s[Len(s)].type = "chunk")
  BY DEF Unended
<1> QED  BY <1>1 DEF Unended, Complete

LEMMA NothingIsFine ==
  ASSUME NEW start
  PROVE  <<>> \in Seq(Messages) /\ Fits(<<>>, start) /\ Complete(<<>>)
BY DEF Fits, Complete

-----------------------------------------------------------------------------
(* Steps of one request, and steps that leave a request alone.             *)
Others(r) == \A x \in Requests \ {r} :
  at'[x] = at[x] /\ ask'[x] = ask[x] /\ root'[x] = root[x] /\ offset'[x] = offset[x] /\ out'[x] = out[x]

Kept(r) == RootKnown(r) /\ Posted(r)

LEMMA PublishedIs ==
  ASSUME LiveTypes
  PROVE  published \in Nat
BY DEF LiveTypes

LEMMA LeftAlone ==
  ASSUME NEW r \in Requests, Kept(r), LiveTypes, published <= published', published' \in Nat, UNCHANGED file,
         cached # NoRoot => cached' # NoRoot, lacked \subseteq lacked',
         at'[r] = at[r], ask'[r] = ask[r], root'[r] = root[r], offset'[r] = offset[r], out'[r] = out[r]
  PROVE  RootKnown(r)' /\ Posted(r)'
<1>1. published \in Nat
  BY PublishedIs
<1>2. SizeOf(r)' = SizeOf(r)
  BY DEF SizeOf
<1>3. RootKnown(r)'
  BY <1>1, <1>2 DEF Kept, RootKnown
<1>4. Posted(r)'
  BY <1>2 DEF Kept, Posted
<1> QED  BY <1>3, <1>4

(* One request moves and nothing of the roots changes.                     *)
LEMMA OneMoves ==
  ASSUME LiveInv, NEW r \in Requests, UNCHANGED <<file, published, cached, waiting>>, lacked \subseteq lacked',
         LiveTypes', Others(r), at'[r] # "waiting", RootKnown(r)', Posted(r)'
  PROVE  LiveInv'
<1>1. \A x \in Requests \ {r} : RootKnown(x)' /\ Posted(x)'
  <2> SUFFICES ASSUME NEW x \in Requests \ {r} PROVE RootKnown(x)' /\ Posted(x)'
    OBVIOUS
  <2>1. Kept(x) /\ LiveTypes
    BY DEF LiveInv, Kept
  <2>2. published \in Nat
    BY <2>1, PublishedIs
  <2>3. published <= published' /\ published' \in Nat
    BY <2>2
  <2> QED  BY <2>1, <2>3, LeftAlone DEF Others
<1>2. WaitsAreNeeded'
  <2>1. Waiters' \subseteq Waiters
    BY DEF Waiters, Others
  <2> QED  BY <2>1 DEF LiveInv, WaitsAreNeeded
<1>3. \A x \in Requests : RootKnown(x)' /\ Posted(x)'
  BY <1>1
<1> QED  BY <1>2, <1>3 DEF LiveInv

LEMMA LiveInitHolds == LiveInit => LiveInv
<1> SUFFICES ASSUME LiveInit PROVE LiveInv
  OBVIOUS
<1> USE LiveAssumption DEF LiveInit, NoRoot
<1>1. LiveTypes
  <2>1. file \in Seq(Nat \cup {Absent}) /\ Len(file) \in Nat /\ Len(file) > 0
    OBVIOUS
  <2>2. \A r \in Requests : <<>> \in Seq(Messages)
    OBVIOUS
  <2> QED  BY <2>1, <2>2 DEF LiveTypes, Before
<1>2. WaitsAreNeeded
  BY DEF WaitsAreNeeded, Waiters
<1>3. ASSUME NEW r \in Requests PROVE RootKnown(r) /\ Posted(r)
  <2>1. Fits(out[r], ask[r].start) /\ Complete(out[r])
    BY NothingIsFine
  <2> QED  BY <2>1 DEF RootKnown, Posted, Before, Open, Following, WithRoot, WithSize
<1> QED  BY <1>1, <1>2, <1>3 DEF LiveInv

(* waitForCachedRoot returns v to some requests that have nothing yet.     *)
LEMMA RootedKeeps ==
  ASSUME LiveInv, NEW rs \in SUBSET Requests, NEW v \in 0..published', Rooted(rs, v),
         \A r \in rs : at[r] \in {"asking", "missed", "waiting"},
         UNCHANGED <<file, ask, offset, lacked>>, published' = published, cached' \in 0..published',
         cached # NoRoot => cached' # NoRoot, v # NoRoot => cached' # NoRoot
  PROVE  /\ LiveTypes' /\ \A r \in Requests : RootKnown(r)' /\ Posted(r)'
         /\ Waiters' = Waiters \ rs
<1> USE DEF NoRoot
<1>0. LiveTypes /\ \A r \in Requests : Kept(r)
  BY DEF LiveInv, Kept
<1>1. /\ root' = [r \in Requests |-> IF r \in rs THEN v ELSE root[r]]
      /\ at' = [r \in Requests |->
           IF r \notin rs THEN at[r]
           ELSE IF v = 0 THEN "over" ELSE IF again[r] THEN "asking" ELSE "resolving"]
      /\ out' = [r \in Requests |->
           IF r \in rs /\ v = 0 THEN Append(out[r], End("error")) ELSE out[r]]
  BY DEF Rooted
<1>2. \A r \in rs : out[r] = <<>> /\ offset[r] = ask[r].start /\ ask[r].start \in Nat
  BY <1>0 DEF Kept, Posted, Before
<1>3. Append(<<>>, End("error")) \in Seq(Messages)
      /\ \A start : Fits(Append(<<>>, End("error")), start) /\ Complete(Append(<<>>, End("error")))
  BY ErrorAlone
<1>4. LiveTypes'
  <2>1. root' \in [Requests -> 0..published']
    BY <1>0, <1>1 DEF LiveTypes
  <2>2. at' \in [Requests -> Before \cup Open \cup {"over"}]
    BY <1>0, <1>1 DEF LiveTypes, Before
  <2>3. out' \in [Requests -> Seq(Messages)]
    BY <1>0, <1>1, <1>2, <1>3 DEF LiveTypes
  <2> QED  BY <1>0, <2>1, <2>2, <2>3 DEF LiveTypes
<1>5. ASSUME NEW r \in Requests \ rs PROVE RootKnown(r)' /\ Posted(r)'
  <2>1. at'[r] = at[r] /\ root'[r] = root[r] /\ out'[r] = out[r]
    BY <1>1
  <2>2. published <= published' /\ published' \in Nat
    BY <1>0 DEF LiveTypes
  <2> QED  BY <1>0, <2>1, <2>2, LeftAlone
<1>6. ASSUME NEW r \in rs PROVE RootKnown(r)' /\ Posted(r)'
  <2>1. CASE v = 0
    <3>1. at'[r] = "over" /\ out'[r] = Append(<<>>, End("error"))
      BY <1>1, <1>2, <2>1
    <3> QED  BY <1>3, <3>1 DEF RootKnown, Posted, Before, Open, Following, WithRoot, WithSize
  <2>2. CASE v # 0
    <3>1. at'[r] \in {"asking", "resolving"} /\ out'[r] = <<>> /\ root'[r] = v
      BY <1>1, <1>2, <2>2
    <3>2. Fits(out'[r], ask'[r].start) /\ Complete(out'[r])
      BY <3>1, NothingIsFine
    <3>3. v \in 1..published'
      BY <1>0, <2>2 DEF LiveTypes
    <3>4. RootKnown(r)'
      BY <2>2, <3>1, <3>3 DEF RootKnown, Open, Following, WithRoot, WithSize
    <3>5. Posted(r)'
      BY <1>2, <3>1, <3>2 DEF Posted, Before, Open, Following
    <3> QED  BY <3>4, <3>5
  <2> QED  BY <2>1, <2>2
<1>7. Waiters' = Waiters \ rs
  BY <1>1 DEF Waiters
<1> QED  BY <1>4, <1>5, <1>6, <1>7

-----------------------------------------------------------------------------
(* The steps of the roots.                                                 *)
LEMMA AskCachedRootKeeps ==
  ASSUME LiveInv, NEW r \in Requests, AskCachedRoot(r)
  PROVE  LiveInv'
<1> USE DEF NoRoot
<1>1. at[r] = "asking" /\ UNCHANGED <<file, rootVars, ask, offset, streamVars, lacked>>
  BY DEF AskCachedRoot
<1>2. CASE cached # NoRoot
  <2>1. Rooted({r}, cached)
    BY <1>2 DEF AskCachedRoot
  <2>2. /\ UNCHANGED <<file, published, cached, waiting, ask, offset, lacked>>
        /\ cached \in 0..published' /\ cached' \in 0..published'
    BY <1>1 DEF rootVars, LiveInv, LiveTypes
  <2>3. LiveTypes' /\ (\A x \in Requests : RootKnown(x)' /\ Posted(x)') /\ Waiters' = Waiters \ {r}
    BY <1>1, <1>2, <2>1, <2>2, RootedKeeps
  <2>4. WaitsAreNeeded'
    BY <2>2, <2>3 DEF LiveInv, WaitsAreNeeded
  <2> QED  BY <2>3, <2>4 DEF LiveInv
<1>3. CASE cached = NoRoot
  <2>1. /\ at' = [at EXCEPT ![r] = "missed"] /\ UNCHANGED <<again, root, out>>
        /\ UNCHANGED <<file, published, cached, waiting, ask, offset, lacked>>
    BY <1>1, <1>3 DEF AskCachedRoot, MoveTo, rootVars
  <2>2. LiveTypes' /\ at'[r] = "missed"
    BY <2>1 DEF LiveInv, LiveTypes, Before
  <2>3. RootKnown(r)' /\ Posted(r)'
    BY <1>1, <2>1, <2>2 DEF LiveInv, RootKnown, Posted, Before, Open, Following, WithRoot, WithSize
  <2>4. Others(r)
    BY <2>1 DEF Others, LiveInv, LiveTypes
  <2> QED  BY <2>1, <2>2, <2>3, <2>4, OneMoves
<1> QED  BY <1>2, <1>3

LEMMA WaitForCachedRootKeeps ==
  ASSUME LiveInv, NEW r \in Requests, WaitForCachedRoot(r)
  PROVE  LiveInv'
<1> USE DEF NoRoot
<1>1. at[r] = "missed" /\ UNCHANGED <<file, published, cached, ask, offset, streamVars, lacked>>
  BY DEF WaitForCachedRoot
<1>2. LiveTypes /\ \A x \in Requests : Kept(x)
  BY DEF LiveInv, Kept
<1>3. CASE ~waiting /\ cached # NoRoot
  <2>1. Rooted({r}, cached) /\ UNCHANGED waiting
    BY <1>3 DEF WaitForCachedRoot
  <2>2. cached \in 0..published' /\ cached' \in 0..published'
    BY <1>1 DEF LiveInv, LiveTypes
  <2>3. LiveTypes' /\ (\A x \in Requests : RootKnown(x)' /\ Posted(x)') /\ Waiters' = Waiters \ {r}
    BY <1>1, <1>3, <2>1, <2>2, RootedKeeps
  <2>4. WaitsAreNeeded'
    BY <1>1, <2>1, <2>3 DEF LiveInv, WaitsAreNeeded
  <2> QED  BY <2>3, <2>4 DEF LiveInv
<1>4. CASE waiting \/ cached = NoRoot
  <2>1. at' = [at EXCEPT ![r] = "waiting"] /\ UNCHANGED <<again, root, out>>
    BY <1>4 DEF WaitForCachedRoot, MoveTo
  <2>2. waiting' = TRUE \/ (waiting /\ UNCHANGED waiting)
    BY <1>4 DEF WaitForCachedRoot
  <2>3. cached' = NoRoot
    BY <1>1, <1>4 DEF LiveInv, WaitsAreNeeded
  <2>4. WaitsAreNeeded'
    BY <2>2, <2>3 DEF WaitsAreNeeded
  <2>5. LiveTypes' /\ at'[r] = "waiting"
    BY <1>1, <2>1 DEF LiveInv, LiveTypes, Before
  <2>6. RootKnown(r)' /\ Posted(r)'
    BY <1>1, <1>2, <2>1, <2>5 DEF Kept, RootKnown, Posted, Before, Open, Following, WithRoot, WithSize
  <2>7. ASSUME NEW x \in Requests, x # r PROVE RootKnown(x)' /\ Posted(x)'
    <3>1. at'[x] = at[x] /\ Kept(x) /\ published <= published' /\ published' \in Nat
      BY <1>1, <1>2, <2>1, <2>7 DEF LiveTypes
    <3> QED  BY <1>1, <1>2, <2>1, <3>1, LeftAlone
  <2> QED  BY <2>4, <2>5, <2>6, <2>7 DEF LiveInv
<1> QED  BY <1>3, <1>4

(* The wait ends for all who share it.                                     *)
LEMMA FinishWaitKeeps ==
  ASSUME LiveInv, NEW v, FinishWait(v), cached' = cached \/ v # NoRoot,
         v \in 0..published', published' = published, cached' \in 0..published',
         cached # NoRoot => cached' # NoRoot, v # NoRoot => cached' # NoRoot,
         UNCHANGED <<file, ask, offset, lacked>>
  PROVE  LiveInv'
<1> DEFINE rs == IF waiting THEN Waiters ELSE {}
<1>1. waiting' = FALSE /\ Rooted(rs, v)
  BY DEF FinishWait
<1>2. rs = Waiters /\ rs \in SUBSET Requests
  BY DEF LiveInv, WaitsAreNeeded, Waiters
<1>3. \A r \in rs : at[r] \in {"asking", "missed", "waiting"}
  BY DEF Waiters
<1> HIDE DEF rs
<1>4. LiveTypes' /\ (\A x \in Requests : RootKnown(x)' /\ Posted(x)') /\ Waiters' = Waiters \ rs
  BY <1>1, <1>2, <1>3, RootedKeeps
<1>5. WaitsAreNeeded'
  BY <1>1, <1>2, <1>4 DEF WaitsAreNeeded
<1> QED  BY <1>4, <1>5 DEF LiveInv

(* Nothing moves but the clock, the lookup or what is published.           *)
LEMMA NothingMoves ==
  ASSUME LiveInv, UNCHANGED <<file, cached, waiting, ask, at, root, offset, out, lacked>>,
         published' = published \/ (published < Len(file) /\ published' = published + 1)
  PROVE  LiveInv'
<1>1. published \in Nat /\ published' \in Nat /\ published <= published' /\ published' <= Len(file) /\ Len(file) \in Nat
  BY DEF LiveInv, LiveTypes
<1>2. LiveTypes'
  BY <1>1 DEF LiveInv, LiveTypes
<1>3. WaitsAreNeeded'
  BY DEF LiveInv, WaitsAreNeeded, Waiters
<1>4. ASSUME NEW r \in Requests PROVE RootKnown(r)' /\ Posted(r)'
  <2>1. Kept(r) /\ LiveTypes
    BY DEF LiveInv, Kept
  <2> QED  BY <1>1, <2>1, LeftAlone
<1> QED  BY <1>2, <1>3, <1>4 DEF LiveInv

LEMMA RootsKeep ==
  ASSUME LiveInv,
         \/ WaitTimesOut \/ ResolvesNothing \/ Publish \/ Tick \/ UNCHANGED liveVars
         \/ \E r \in Requests : Cancel(r)
         \/ \E v \in 1..published : Resolved(v) \/ Updated(v)
  PROVE  LiveInv'
<1> USE DEF NoRoot
<1>0. published \in Nat /\ cached \in Nat /\ cached <= published /\ cached \in 0..published
  BY DEF LiveInv, LiveTypes
<1>1. CASE WaitTimesOut
  <2>1. FinishWait(NoRoot) /\ UNCHANGED <<file, published, cached, ask, offset, lacked>>
    BY <1>1 DEF WaitTimesOut
  <2> QED  BY <1>0, <2>1, FinishWaitKeeps
<1>2. ASSUME NEW v \in 1..published, Resolved(v) PROVE LiveInv'
  <2>1. /\ cached' = Larger(cached, v) /\ FinishWait(cached')
        /\ UNCHANGED <<file, published, ask, offset, lacked>>
    BY <1>2 DEF Resolved
  <2>2. cached' \in 1..published
    BY <1>0, <2>1 DEF Larger
  <2> QED  BY <1>0, <2>1, <2>2, FinishWaitKeeps
<1>3. ASSUME NEW v \in 1..published, Updated(v) PROVE LiveInv'
  <2>1. cached' = v /\ FinishWait(v) /\ UNCHANGED <<file, published, ask, offset, lacked>>
    BY <1>3 DEF Updated
  <2> QED  BY <1>0, <2>1, FinishWaitKeeps
<1>4. CASE ResolvesNothing \/ Publish \/ Tick \/ UNCHANGED liveVars \/ \E r \in Requests : Cancel(r)
  <2>1. UNCHANGED <<file, cached, waiting, ask, at, root, offset, out, lacked>>
    BY <1>4 DEF ResolvesNothing, Publish, Tick, liveVars, rootVars, streamVars, Cancel
  <2>2. published' = published \/ (published < Len(file) /\ published' = published + 1)
    BY <1>4 DEF ResolvesNothing, Publish, Tick, liveVars, rootVars, streamVars, Cancel
  <2> QED  BY <2>1, <2>2, NothingMoves
<1> QED  BY <1>1, <1>2, <1>3, <1>4

-----------------------------------------------------------------------------
(* The steps of one request.                                               *)
LEMMA MoreMessages ==
  ASSUME NEW s \in Seq(Messages)
  PROVE  /\ s \o <<>> = s
         /\ \A m \in Messages : s \o <<m>> \in Seq(Messages)
         /\ \A l, m \in Messages : s \o <<l, m>> = (s \o <<l>>) \o <<m>> /\ Append(<<l>>, m) = <<l, m>>
         /\ \A k, l, m \in Messages : s \o <<k, l, m>> = ((s \o <<k>>) \o <<l>>) \o <<m>>
<1>1. s \o <<>> = s
  BY ConcatEmptySeq
<1>2. \A m \in Messages : <<m>> \in Seq(Messages)
  OBVIOUS
<1>3. \A m \in Messages : s \o <<m>> \in Seq(Messages)
  BY <1>2
<1>4. ASSUME NEW l \in Messages, NEW m \in Messages PROVE <<l, m>> = <<l>> \o <<m>>
  <2>1. /\ <<l>> \o <<m>> \in Seq(Messages) /\ Len(<<l>> \o <<m>>) = 2
        /\ (<<l>> \o <<m>>)[1] = l /\ (<<l>> \o <<m>>)[2] = m
    OBVIOUS
  <2>2. <<l, m>> \in Seq(Messages) /\ Len(<<l, m>>) = 2 /\ <<l, m>>[1] = l /\ <<l, m>>[2] = m
    OBVIOUS
  <2>3. \A i \in 1..2 : <<l, m>>[i] = (<<l>> \o <<m>>)[i]
    BY <2>1, <2>2
  <2> QED  BY <2>1, <2>2, <2>3, SeqEqual
<1>5. ASSUME NEW k \in Messages, NEW l \in Messages, NEW m \in Messages
      PROVE  <<k, l, m>> = (<<k>> \o <<l>>) \o <<m>>
  <2>1. <<k, l>> \in Seq(Messages) /\ Len(<<k, l>>) = 2 /\ <<k, l>>[1] = k /\ <<k, l>>[2] = l
    OBVIOUS
  <2>2. ASSUME NEW t \in Seq(Messages), Len(t) = 2, t[1] = k, t[2] = l
        PROVE  t \o <<m>> = <<k, l, m>>
    <3>1. /\ t \o <<m>> \in Seq(Messages) /\ Len(t \o <<m>>) = 3
          /\ (t \o <<m>>)[1] = k /\ (t \o <<m>>)[2] = l /\ (t \o <<m>>)[3] = m
      <4>1. t \o <<m>> \in Seq(Messages)
        BY <1>3
      <4>2. Len(t \o <<m>>) = Len(t) + 1
        BY <1>3, Appended
      <4>3. (t \o <<m>>)[Len(t) + 1] = m
        BY Appended
      <4>4. \A i \in 1..Len(t) : (t \o <<m>>)[i] = t[i]
        BY Appended
      <4> QED  BY <2>2, <4>1, <4>2, <4>3, <4>4
    <3>2. /\ <<k, l, m>> \in Seq(Messages) /\ Len(<<k, l, m>>) = 3
          /\ <<k, l, m>>[1] = k /\ <<k, l, m>>[2] = l /\ <<k, l, m>>[3] = m
      OBVIOUS
    <3>3. \A i \in 1..3 : <<k, l, m>>[i] = (t \o <<m>>)[i]
      BY <3>1, <3>2
    <3> QED  BY <3>1, <3>2, <3>3, SeqEqual
  <2> QED  BY <1>4, <2>1, <2>2
<1>6. ASSUME NEW l \in Messages, NEW m \in Messages
      PROVE  s \o <<l, m>> = (s \o <<l>>) \o <<m>> /\ Append(<<l>>, m) = <<l, m>>
  <2>1. s \o <<l, m>> = (s \o <<l>>) \o <<m>>
    BY <1>2, <1>4, ConcatAssociative
  <2>2. Append(<<l>>, m) = <<l, m>>
    <3>1. \A t \in Seq(Messages) : Append(t, m) = t \o <<m>>
      BY AppendIsConcat
    <3>2. Append(<<l>>, m) = <<l>> \o <<m>>
      BY <1>2, <3>1, Zenon
    <3> QED  BY <1>4, <3>2, Zenon
  <2> QED  BY <2>1, <2>2
<1>7. ASSUME NEW k \in Messages, NEW l \in Messages, NEW m \in Messages
      PROVE  s \o <<k, l, m>> = ((s \o <<k>>) \o <<l>>) \o <<m>>
  <2>1. <<k>> \o <<l>> \in Seq(Messages)
    OBVIOUS
  <2>2. s \o ((<<k>> \o <<l>>) \o <<m>>) = (s \o (<<k>> \o <<l>>)) \o <<m>>
    BY <1>2, <2>1, ConcatAssociative
  <2>3. s \o (<<k>> \o <<l>>) = (s \o <<k>>) \o <<l>>
    BY <1>2, ConcatAssociative
  <2> QED  BY <1>5, <2>2, <2>3
<1> QED  BY <1>1, <1>3, <1>6, <1>7

(* One request moves to a place, with a root, a position and what it got.  *)
LEMMA RequestMoves ==
  ASSUME LiveInv, NEW r \in Requests, NEW place \in (Before \cup Open \cup {"over"}) \ {"waiting"},
         NEW v \in 0..published, NEW n \in Nat, NEW s \in Seq(Messages), NEW q,
         UNCHANGED <<file, rootVars>>, lacked \subseteq lacked',
         at' = [at EXCEPT ![r] = place], root' = [root EXCEPT ![r] = v], ask' = [ask EXCEPT ![r] = q],
         offset' = [offset EXCEPT ![r] = n], out' = [out EXCEPT ![r] = s],
         RootKnown(r)', Posted(r)'
  PROVE  LiveInv'
<1>1. LiveTypes
  BY DEF LiveInv
<1>2. UNCHANGED <<file, published, cached, waiting>>
  BY DEF rootVars
<1>3. LiveTypes'
  <2>1. root' \in [Requests -> 0..published'] /\ offset' \in [Requests -> Nat]
    BY <1>1, <1>2 DEF LiveTypes
  <2>2. at' \in [Requests -> Before \cup Open \cup {"over"}]
    BY <1>1 DEF LiveTypes
  <2>3. out' \in [Requests -> Seq(Messages)]
    BY <1>1 DEF LiveTypes
  <2>4. ask' = [x \in Requests |-> ask'[x]]
    BY <1>1 DEF LiveTypes
  <2> QED  BY <1>1, <1>2, <2>1, <2>2, <2>3, <2>4 DEF LiveTypes
<1>4. Others(r)
  BY <1>1 DEF Others, LiveTypes
<1>5. at'[r] # "waiting"
  BY <1>1 DEF LiveTypes
<1> QED  BY <1>2, <1>3, <1>4, <1>5, OneMoves

(* What a request had before the step, by the place it was in.             *)
Had(r) ==
  /\ root[r] \in 0..published /\ published \in Nat /\ offset[r] \in Nat /\ out[r] \in Seq(Messages)
  /\ RootKnown(r) /\ Posted(r)
  /\ root = [root EXCEPT ![r] = root[r]] /\ ask = [ask EXCEPT ![r] = ask[r]]
  /\ offset = [offset EXCEPT ![r] = offset[r]] /\ out = [out EXCEPT ![r] = out[r]]
  /\ at = [at EXCEPT ![r] = at[r]]
  /\ \A place : [at EXCEPT ![r] = place][r] = place
  /\ \A v : [root EXCEPT ![r] = v][r] = v
  /\ \A q : [ask EXCEPT ![r] = q][r] = q
  /\ \A n : [offset EXCEPT ![r] = n][r] = n
  /\ \A s : [out EXCEPT ![r] = s][r] = s
  /\ \A v \in 1..published : file[v] \in Nat \cup {Absent}

LEMMA HadBefore ==
  ASSUME LiveInv, NEW r \in Requests
  PROVE  Had(r)
<1>1. LiveTypes /\ RootKnown(r) /\ Posted(r)
  BY DEF LiveInv
<1>2. \A v \in 1..published : file[v] \in Nat \cup {Absent}
  BY <1>1 DEF LiveTypes
<1>3. root[r] \in 0..published /\ published \in Nat /\ offset[r] \in Nat /\ out[r] \in Seq(Messages)
  BY <1>1 DEF LiveTypes
<1>4. /\ root = [root EXCEPT ![r] = root[r]] /\ ask = [ask EXCEPT ![r] = ask[r]]
      /\ offset = [offset EXCEPT ![r] = offset[r]] /\ out = [out EXCEPT ![r] = out[r]]
      /\ at = [at EXCEPT ![r] = at[r]]
  BY <1>1 DEF LiveTypes
<1>5. /\ \A place : [at EXCEPT ![r] = place][r] = place
      /\ \A v : [root EXCEPT ![r] = v][r] = v
      /\ \A n : [offset EXCEPT ![r] = n][r] = n
      /\ \A s : [out EXCEPT ![r] = s][r] = s
  BY <1>1 DEF LiveTypes
<1>6. \A q : [ask EXCEPT ![r] = q][r] = q
  BY <1>1 DEF LiveTypes
<1> QED  BY <1>1, <1>2, <1>3, <1>4, <1>5, <1>6 DEF Had

(* The last message has been posted, and the request is over.              *)
LEMMA IsOver ==
  ASSUME LiveInv, NEW r \in Requests, NEW s \in Seq(Messages), Fits(s, ask[r].start), r \in lacked' \/ Complete(s),
         UNCHANGED <<file, rootVars, ask, root, offset>>, lacked \subseteq lacked',
         at' = [at EXCEPT ![r] = "over"], out' = [out EXCEPT ![r] = s]
  PROVE  LiveInv'
<1>1. Had(r)
  BY HadBefore
<1>2. at'[r] = "over" /\ out'[r] = s
  BY <1>1 DEF Had
<1>3. RootKnown(r)'
  BY <1>2 DEF RootKnown, Open, Following, WithRoot, WithSize
<1>4. Posted(r)'
  BY <1>2 DEF Posted, Before, Open, Following
<1>5. root[r] \in 0..published /\ offset[r] \in Nat
      /\ root' = [root EXCEPT ![r] = root[r]] /\ ask' = [ask EXCEPT ![r] = ask[r]]
      /\ offset' = [offset EXCEPT ![r] = offset[r]]
  BY <1>1 DEF Had
<1>6. "over" \in (Before \cup Open \cup {"over"}) \ {"waiting"}
  OBVIOUS
<1> QED  BY <1>3, <1>4, <1>5, <1>6, RequestMoves

LEMMA FailKeeps ==
  ASSUME LiveInv, NEW r \in Requests, at[r] \in {"resolving", "sizing", "buffering", "fetching", "streaming"},
         Fail(r), UNCHANGED <<file, rootVars, ask, root, offset>>, lacked \subseteq lacked'
  PROVE  LiveInv'
<1>1. at' = [at EXCEPT ![r] = "over"] /\ out' = [out EXCEPT ![r] = out[r] \o <<End("error")>>]
  BY HadBefore DEF Fail, Post, MoveTo, Had
<1>2. Posted(r)
  BY DEF LiveInv
<1> DEFINE s == out[r] \o <<End("error")>>
<1>3. s \in Seq(Messages) /\ Fits(s, ask[r].start) /\ Complete(s)
  <2>1. CASE at[r] \in {"resolving", "sizing", "buffering"}
    <3>1. out[r] = <<>>
      BY <1>2, <2>1 DEF Posted, Before
    <3> QED  BY <3>1, ErrorAlone
  <2>2. CASE at[r] \in {"fetching", "streaming"}
    <3>1. Unended(out[r], ask[r].start, offset[r])
      BY <1>2, <2>2 DEF Posted, Open
    <3> QED  BY <3>1, PostEnd
  <2> QED  BY <2>1, <2>2
<1> HIDE DEF s
<1>4. out' = [out EXCEPT ![r] = s]
  BY <1>1 DEF s
<1> QED  BY <1>1, <1>3, <1>4, IsOver

(* Only its place and what it got change.                                  *)
LEMMA RequestAdvances ==
  ASSUME LiveInv, NEW r \in Requests, NEW place \in (Before \cup Open) \ {"waiting"}, NEW s \in Seq(Messages),
         UNCHANGED <<file, rootVars, ask, root, offset>>, lacked \subseteq lacked',
         at' = [at EXCEPT ![r] = place], out' = [out EXCEPT ![r] = s],
         RootKnown(r)', Posted(r)'
  PROVE  LiveInv'
<1>1. /\ root' = [root EXCEPT ![r] = root[r]] /\ ask' = [ask EXCEPT ![r] = ask[r]]
      /\ offset' = [offset EXCEPT ![r] = offset[r]]
      /\ root[r] \in 0..published /\ offset[r] \in Nat
  BY HadBefore DEF Had
<1> QED  BY <1>1, RequestMoves

LEMMA AskKeeps ==
  ASSUME LiveInv, NEW r \in Requests, NEW q \in AsksOf[r], Ask(r, q)
  PROVE  LiveInv'
<1>1. /\ at[r] = "idle" /\ UNCHANGED <<file, rootVars, out, lacked>>
      /\ ask' = [ask EXCEPT ![r] = q] /\ offset' = [offset EXCEPT ![r] = q.start]
  BY DEF Ask
<1>2. Had(r) /\ q.start \in Nat
  BY HadBefore, LiveAssumption
<1>3. /\ out[r] = <<>> /\ out' = [out EXCEPT ![r] = <<>>] /\ out'[r] = <<>>
      /\ ask'[r] = q /\ offset'[r] = q.start
  BY <1>1, <1>2 DEF Had, Posted, Before
<1>4. <<>> \in Seq(Messages) /\ Fits(<<>>, q.start) /\ Complete(<<>>)
  BY NothingIsFine
<1>5. CASE q.kind = "cid"
  <2>1. PICK v \in 1..published : file[v] # Absent /\ root' = [root EXCEPT ![r] = v] /\ at' = [at EXCEPT ![r] = "sizing"]
    BY <1>5 DEF Ask, MoveTo
  <2>2. at'[r] = "sizing" /\ root'[r] = v /\ v \in 0..published
    <3>1. at'[r] = "sizing" /\ root'[r] = v
      BY <1>2, <2>1 DEF Had
    <3>2. published \in Nat
      BY <1>2 DEF Had
    <3> QED  BY <3>1, <3>2
  <2>6. file[v] \in Nat
    BY <1>2, <2>1 DEF Had
  <2>3. RootKnown(r)'
    BY <1>1, <1>3, <1>5, <2>2, <2>6 DEF RootKnown, SizeOf, rootVars, Open, Following, WithRoot, WithSize
  <2>4. Posted(r)'
    BY <1>2, <1>3, <1>4, <2>2 DEF Posted, Before, Open, Following
  <2>5. "sizing" \in (Before \cup Open \cup {"over"}) \ {"waiting"}
    BY DEF Before
  <2> QED  BY <1>1, <1>2, <1>3, <1>4, <2>1, <2>2, <2>3, <2>4, <2>5, RequestMoves
<1>6. CASE q.kind # "cid"
  <2>1. at' = [at EXCEPT ![r] = "asking"] /\ root' = root
    BY <1>6 DEF Ask, MoveTo
  <2>2. at'[r] = "asking" /\ root' = [root EXCEPT ![r] = root[r]] /\ root[r] \in 0..published
    BY <1>2, <2>1 DEF Had
  <2>3. RootKnown(r)'
    BY <2>2 DEF RootKnown, Open, Following, WithRoot, WithSize
  <2>4. Posted(r)'
    BY <1>2, <1>3, <1>4, <2>2 DEF Posted, Before, Open, Following
  <2>5. "asking" \in (Before \cup Open \cup {"over"}) \ {"waiting"}
    BY DEF Before
  <2> QED  BY <1>1, <1>2, <1>3, <1>4, <2>1, <2>2, <2>3, <2>4, <2>5, RequestMoves
<1> QED  BY <1>5, <1>6

LEMMA ResolveKeeps ==
  ASSUME LiveInv, NEW r \in Requests, NEW read, Resolve(r, read)
  PROVE  LiveInv'
<1>1. /\ at[r] = "resolving" /\ UNCHANGED <<file, rootVars, ask, root, offset>> /\ lacked \subseteq lacked'
  BY DEF Resolve, Lack
<1>2. Had(r)
  BY HadBefore
<1>3. CASE read = "data" /\ SizeOf(r) # Absent
  <2>1. at' = [at EXCEPT ![r] = "sizing"] /\ out' = out
    BY <1>3 DEF Resolve, MoveTo
  <2>2. at'[r] = "sizing"
    BY <1>2, <2>1 DEF Had
  <2>3. /\ root[r] \in 1..published /\ cached # NoRoot /\ out[r] = <<>>
        /\ offset[r] = ask[r].start /\ ask[r].start \in Nat /\ <<>> \in Seq(Messages)
    BY <1>1, <1>2 DEF Had, RootKnown, Posted, WithRoot, Before
  <2>4. SizeOf(r) \in Nat
    BY <1>2, <1>3, <2>3 DEF Had, SizeOf
  <2>5. RootKnown(r)'
    BY <1>1, <2>2, <2>3, <2>4 DEF RootKnown, SizeOf, rootVars, Open, Following, WithRoot, WithSize
  <2>6. Fits(<<>>, ask[r].start) /\ Complete(<<>>)
    BY NothingIsFine
  <2>7. Posted(r)'
    BY <1>1, <2>1, <2>2, <2>3, <2>6 DEF Posted, Before, Open, Following
  <2>8. "sizing" \in (Before \cup Open) \ {"waiting"}
    BY DEF Before
  <2>9. out' = [out EXCEPT ![r] = out[r]] /\ out[r] \in Seq(Messages)
    BY <1>2, <2>1 DEF Had
  <2> QED  BY <1>1, <2>1, <2>5, <2>7, <2>8, <2>9, RequestAdvances
<1>4. CASE ~(read = "data" /\ SizeOf(r) # Absent)
  <2>1. Fail(r)
    BY <1>4 DEF Resolve
  <2> QED  BY <1>1, <2>1, FailKeeps
<1> QED  BY <1>3, <1>4

LEMMA SizeKeeps ==
  ASSUME LiveInv, NEW r \in Requests, NEW read, Size(r, read)
  PROVE  LiveInv'
<1>1. /\ at[r] = "sizing" /\ UNCHANGED <<file, rootVars, ask, root, offset>> /\ lacked \subseteq lacked'
  BY DEF Size, Lack
<1>2. Had(r)
  BY HadBefore
<1>3. /\ root[r] \in 1..published /\ SizeOf(r) \in Nat /\ (ask[r].kind = "cid" \/ cached # NoRoot)
      /\ out[r] = <<>> /\ offset[r] = ask[r].start /\ ask[r].start \in Nat
  BY <1>1, <1>2 DEF Had, RootKnown, Posted, WithRoot, WithSize, Before
<1>4. SizeOf(r)' = SizeOf(r) /\ cached' = cached /\ published' = published
  BY <1>1 DEF SizeOf, rootVars
<1>5. CASE read = "data"
  <2> DEFINE s == <<>> \o <<Headers(SizeOf(r))>>
  <2>1. PICK place \in {"streaming", "fetching"} : at' = [at EXCEPT ![r] = place]
    BY <1>5 DEF Size, MoveTo
  <2>2. out' = [out EXCEPT ![r] = s]
    BY <1>3, <1>5 DEF Size, Post
  <2>3. Unended(s, ask[r].start, ask[r].start) /\ Len(s) = 1 /\ s[1].to = SizeOf(r)
    BY <1>3, PostHeaders
  <2> HIDE DEF s
  <2>4. s \in Seq(Messages) /\ Fits(s, ask[r].start) /\ Complete(s)
    BY <2>3, UnendedIsFine
  <2>5. at'[r] = place /\ out'[r] = s
    BY <1>2, <2>1, <2>2 DEF Had
  <2>6. RootKnown(r)'
    BY <1>1, <1>3, <1>4, <2>5 DEF RootKnown, Open, Following, WithRoot, WithSize
  <2>7. Posted(r)'
    BY <1>1, <1>3, <1>4, <2>3, <2>4, <2>5 DEF Posted, Before, Open, Following
  <2>8. place \in (Before \cup Open) \ {"waiting"}
    BY DEF Before, Open
  <2> QED  BY <1>1, <2>1, <2>2, <2>4, <2>6, <2>7, <2>8, RequestAdvances
<1>6. CASE read # "data" /\ ask[r].kind = "file" /\ read = "nothing" /\ offset[r] = 0
  <2>1. at' = [at EXCEPT ![r] = "buffering"] /\ out' = out
    BY <1>6 DEF Size, MoveTo
  <2>2. at'[r] = "buffering" /\ out' = [out EXCEPT ![r] = out[r]] /\ out[r] \in Seq(Messages)
    BY <1>2, <2>1 DEF Had
  <2>3. RootKnown(r)'
    BY <1>1, <1>3, <1>4, <2>2 DEF RootKnown, Open, Following, WithRoot, WithSize
  <2>4. Fits(<<>>, ask[r].start) /\ Complete(<<>>)
    BY NothingIsFine
  <2>5. Posted(r)'
    BY <1>1, <1>3, <1>6, <2>1, <2>2, <2>4 DEF Posted, Before, Open, Following
  <2>6. "buffering" \in (Before \cup Open) \ {"waiting"}
    BY DEF Before
  <2> QED  BY <1>1, <2>1, <2>2, <2>3, <2>5, <2>6, RequestAdvances
<1>7. CASE read # "data" /\ ~(ask[r].kind = "file" /\ read = "nothing" /\ offset[r] = 0)
  <2>1. Fail(r)
    BY <1>7 DEF Size
  <2> QED  BY <1>1, <2>1, FailKeeps
<1> QED  BY <1>5, <1>6, <1>7

(* What is sent of a file read whole, up to its end or without it.         *)
LEMMA PostChunks ==
  ASSUME NEW s, NEW start, NEW a \in Nat, NEW b \in Nat, Unended(s, start, a)
  PROVE  /\ Unended(s \o Chunks(a, b), start, Larger(a, b)) /\ (s \o Chunks(a, b))[1] = s[1]
         /\ (s \o Chunks(a, b)) \o <<End("done")>> = s \o Append(Chunks(a, b), End("done"))
<1>1. s \in Seq(Messages) /\ Chunk(a, b) \in Messages /\ End("done") \in Messages
  BY MessageTypes DEF Unended
<1>2. CASE a < b
  <2>1. Chunks(a, b) = <<Chunk(a, b)>> /\ Larger(a, b) = b
    BY <1>2 DEF Chunks, Larger
  <2>2. Unended(s \o <<Chunk(a, b)>>, start, b) /\ (s \o <<Chunk(a, b)>>)[1] = s[1]
    BY <1>2, PostChunk
  <2>3. Append(<<Chunk(a, b)>>, End("done")) = <<Chunk(a, b), End("done")>>
    BY <1>1, MoreMessages
  <2>4. s \o <<Chunk(a, b), End("done")>> = (s \o <<Chunk(a, b)>>) \o <<End("done")>>
    BY <1>1, MoreMessages
  <2> QED  BY <2>1, <2>2, <2>3, <2>4
<1>3. CASE ~(a < b)
  <2>1. Chunks(a, b) = <<>> /\ Larger(a, b) = a /\ s \o <<>> = s
    BY <1>1, <1>3, MoreMessages DEF Chunks, Larger
  <2>2. Append(<<>>, End("done")) = <<End("done")>>
    OBVIOUS
  <2> QED  BY <2>1, <2>2
<1> QED  BY <1>2, <1>3

LEMMA FetchKeeps ==
  ASSUME LiveInv, NEW r \in Requests, NEW read, Fetch(r, read)
  PROVE  LiveInv'
<1>1. /\ at[r] = "fetching" /\ UNCHANGED <<file, rootVars, ask, root>> /\ lacked \subseteq lacked'
      /\ read # "data" => r \in lacked'
  BY DEF Fetch, Lack
<1>2. Had(r)
  BY HadBefore
<1> DEFINE size == SizeOf(r)
           start == ask[r].start
           s == out[r]
<1>3. /\ root[r] \in 1..published /\ size \in Nat /\ (ask[r].kind = "cid" \/ cached # NoRoot)
      /\ Unended(s, start, offset[r]) /\ s[1].to = size /\ Len(s) = 1
      /\ offset[r] \in Nat /\ s \in Seq(Messages)
  BY <1>1, <1>2 DEF Had, RootKnown, Posted, WithRoot, WithSize, Open
<1>4. SizeOf(r)' = SizeOf(r) /\ cached' = cached /\ published' = published
  BY <1>1 DEF SizeOf, rootVars
<1>5. CASE ask[r].kind = "cid" /\ read = "data"
  <2>1. /\ at' = [at EXCEPT ![r] = "over"] /\ UNCHANGED offset
        /\ out' = [out EXCEPT ![r] = s \o Append(Chunks(offset[r], size), End("done"))]
    BY <1>2, <1>5 DEF Fetch, MoveTo, Post, Had
  <2> DEFINE t == s \o Chunks(offset[r], size)
  <2>2. Unended(t, start, Larger(offset[r], size)) /\ t[1] = s[1]
        /\ t \o <<End("done")>> = s \o Append(Chunks(offset[r], size), End("done"))
    BY <1>3, PostChunks
  <2>3. Larger(offset[r], size) >= size
    BY <1>3 DEF Larger
  <2> HIDE DEF t
  <2>4. t \o <<End("done")>> \in Seq(Messages) /\ Fits(t \o <<End("done")>>, start) /\ Complete(t \o <<End("done")>>)
    BY <1>3, <2>2, <2>3, PostEnd
  <2> QED  BY <1>1, <2>1, <2>2, <2>4, IsOver
<1>6. CASE ask[r].kind # "cid" /\ ask[r].kind = "path" /\ read # "error"
  <2> DEFINE more == IF read = "data" THEN Chunks(offset[r], size) ELSE <<>>
             n == IF read = "data" THEN Larger(offset[r], size) ELSE offset[r]
             t == s \o more
  <2>1. /\ at' = [at EXCEPT ![r] = "live"]
        /\ out' = [out EXCEPT ![r] = t]
        /\ offset' = [offset EXCEPT ![r] = n]
    BY <1>2, <1>6 DEF Fetch, MoveTo, Post, Had
  <2>2. Unended(t, start, n) /\ t[1] = s[1] /\ n \in Nat /\ (read = "data" => n >= size)
    <3>1. CASE read = "data"
      <4>1. Unended(s \o Chunks(offset[r], size), start, Larger(offset[r], size))
            /\ (s \o Chunks(offset[r], size))[1] = s[1]
        BY ZenonT(40), <1>3, PostChunks
      <4>2. Larger(offset[r], size) \in Nat /\ Larger(offset[r], size) >= size
        BY <1>3 DEF Larger
      <4> QED  BY <3>1, <4>1, <4>2
    <3>2. CASE read # "data"
      <4>1. s \o <<>> = s
        BY <1>3, MoreMessages
      <4> QED  BY <1>3, <3>2, <4>1
    <3> QED  BY <3>1, <3>2
  <2> HIDE DEF t, n, more
  <2>3. t \in Seq(Messages) /\ Fits(t, start) /\ Complete(t)
    BY <2>2, UnendedIsFine
  <2>4. at'[r] = "live" /\ out'[r] = t /\ offset'[r] = n
    BY <1>2, <2>1 DEF Had
  <2>5. RootKnown(r)'
    BY <1>1, <1>3, <1>4, <1>6, <2>4 DEF RootKnown, Open, Following, WithRoot, WithSize
  <2>6. Posted(r)'
    BY <1>1, <1>3, <2>2, <2>3, <2>4 DEF Posted, Before, Open, Following
  <2>7. "live" \in (Before \cup Open \cup {"over"}) \ {"waiting"}
    BY DEF Open, Following
  <2>8. /\ root' = [root EXCEPT ![r] = root[r]] /\ ask' = [ask EXCEPT ![r] = ask[r]]
        /\ root[r] \in 0..published
    BY <1>1, <1>2 DEF Had
  <2> QED  BY <1>1, <2>1, <2>2, <2>3, <2>5, <2>6, <2>7, <2>8, RequestMoves
<1>7. CASE ask[r].kind = "cid" /\ read # "data"
  <2>1. /\ at' = [at EXCEPT ![r] = "over"] /\ UNCHANGED offset
        /\ out' = [out EXCEPT ![r] = s \o <<End("error")>>]
    BY <1>2, <1>7 DEF Fetch, MoveTo, Post, Had
  <2>2. Fail(r)
    BY <1>2, <2>1 DEF Fail, MoveTo, Post, Had
  <2> QED  BY <1>1, <2>1, <2>2, FailKeeps
<1>8. CASE ask[r].kind # "cid" /\ ~(ask[r].kind = "path" /\ read # "error")
  <2>1. Fail(r) /\ UNCHANGED offset
    BY <1>8 DEF Fetch
  <2> QED  BY <1>1, <2>1, FailKeeps
<1> QED  BY <1>5, <1>6, <1>7, <1>8

LEMMA BufferKeeps ==
  ASSUME LiveInv, NEW r \in Requests, NEW read, Buffer(r, read)
  PROVE  LiveInv'
<1>1. at[r] = "buffering" /\ UNCHANGED <<file, rootVars, ask, root, offset>> /\ lacked \subseteq lacked'
  BY DEF Buffer, Lack
<1>2. Had(r)
  BY HadBefore
<1>3. out[r] = <<>> /\ SizeOf(r) \in Nat /\ ask[r].start = 0
  BY <1>1, <1>2 DEF Had, RootKnown, Posted, WithSize, Before
<1>4. CASE read = "data"
  <2> DEFINE n == SizeOf(r)
             h == <<>> \o <<Headers(n)>>
             c == h \o <<Chunk(0, n)>>
             t == c \o <<End("done")>>
  <2>1. /\ at' = [at EXCEPT ![r] = "over"]
        /\ out' = [out EXCEPT ![r] = <<>> \o <<Headers(n), Chunk(0, n), End("done")>>]
    BY <1>2, <1>3, <1>4 DEF Buffer, MoveTo, Post
  <2>2. <<>> \o <<Headers(n), Chunk(0, n), End("done")>> = t
    <3>1. Headers(n) \in Messages /\ Chunk(0, n) \in Messages /\ End("done") \in Messages
      BY <1>3, MessageTypes
    <3>2. <<>> \in Seq(Messages)
      OBVIOUS
    <3> QED  BY <3>1, <3>2, MoreMessages
  <2>3. Unended(h, 0, 0) /\ h[1].to = n
    BY <1>3, PostHeaders
  <2> HIDE DEF h
  <2>4. Unended(c, 0, n) /\ c[1] = h[1]
    BY <1>3, <2>3, PostChunk
  <2> HIDE DEF c
  <2>5. t \in Seq(Messages) /\ Fits(t, 0) /\ Complete(t)
    BY <1>3, <2>3, <2>4, PostEnd
  <2> HIDE DEF t
  <2> QED  BY <1>1, <1>3, <2>1, <2>2, <2>5, IsOver
<1>5. CASE read # "data"
  <2>1. Fail(r)
    BY <1>5 DEF Buffer
  <2> QED  BY <1>1, <2>1, FailKeeps
<1> QED  BY <1>4, <1>5

LEMMA StreamChunkKeeps ==
  ASSUME LiveInv, NEW r \in Requests, NEW read, StreamChunk(r, read)
  PROVE  LiveInv'
<1>1. at[r] = "streaming" /\ UNCHANGED <<file, rootVars, ask, root>> /\ lacked \subseteq lacked'
  BY DEF StreamChunk, Lack
<1>2. Had(r)
  BY HadBefore
<1> DEFINE s == out[r]
           a == offset[r]
           start == ask[r].start
<1>3. /\ Unended(s, start, a) /\ s \in Seq(Messages) /\ s[1].to = SizeOf(r)
      /\ SizeOf(r) \in Nat /\ a \in Nat /\ root[r] \in 1..published
  BY <1>1, <1>2 DEF Had, RootKnown, Posted, WithRoot, WithSize, Open
<1>4. ASSUME at' = [at EXCEPT ![r] = "over"], out' = [out EXCEPT ![r] = s \o <<End("done")>>], UNCHANGED offset,
             a >= SizeOf(r) \/ r \in lacked'
      PROVE  LiveInv'
  <2>1. /\ s \o <<End("done")>> \in Seq(Messages) /\ Fits(s \o <<End("done")>>, start)
        /\ a >= s[1].to => Complete(s \o <<End("done")>>)
    BY <1>3, PostEnd
  <2> QED  BY <1>1, <1>3, <1>4, <2>1, IsOver
<1>5. CASE a >= SizeOf(r)
  <2>1. MoveTo(r, "over") /\ Post(r, <<End("done")>>) /\ UNCHANGED offset
    BY <1>5 DEF StreamChunk
  <2>2. at' = [at EXCEPT ![r] = "over"] /\ out' = [out EXCEPT ![r] = s \o <<End("done")>>]
    BY <1>2, <2>1 DEF MoveTo, Post, Had
  <2> QED  BY <1>4, <1>5, <2>1, <2>2
<1>6. CASE ~(a >= SizeOf(r)) /\ read = "data"
  <2> DEFINE t == s \o <<Chunk(a, a + 1)>>
  <2>1. Post(r, <<Chunk(offset[r], offset[r] + 1)>>) /\ offset' = [offset EXCEPT ![r] = @ + 1] /\ at' = at
    BY <1>6 DEF StreamChunk, Fail
  <2>2. out' = [out EXCEPT ![r] = t] /\ offset' = [offset EXCEPT ![r] = a + 1] /\ at' = [at EXCEPT ![r] = "streaming"]
    BY <1>1, <1>2, <2>1 DEF Post, Had
  <2>3. Unended(t, start, a + 1) /\ t[1] = s[1]
    <3>1. a + 1 \in Nat /\ a <= a + 1
      BY <1>3
    <3> QED  BY SMTT(30), <1>3, <3>1, PostChunk
  <2> HIDE DEF t
  <2>4. t \in Seq(Messages) /\ Fits(t, start) /\ Complete(t)
    BY <2>3, UnendedIsFine
  <2>5. at'[r] = "streaming" /\ out'[r] = t /\ offset'[r] = a + 1 /\ a + 1 \in Nat
    <3>1. at'[r] = "streaming" /\ out'[r] = t /\ offset'[r] = a + 1
      BY <1>2, <2>2 DEF Had
    <3> QED  BY <1>3, <3>1
  <2>6. SizeOf(r)' = SizeOf(r) /\ published' = published /\ cached' = cached
    BY <1>1 DEF SizeOf, rootVars
  <2>7. RootKnown(r)'
    BY <1>1, <1>3, <2>5, <2>6 DEF RootKnown, Open, Following, WithRoot, WithSize
  <2>8. Posted(r)'
    BY <1>1, <1>3, <2>3, <2>4, <2>5, <2>6 DEF Posted, Before, Open, Following
  <2>9. "streaming" \in (Before \cup Open \cup {"over"}) \ {"waiting"}
    BY DEF Open
  <2>10. /\ root' = [root EXCEPT ![r] = root[r]] /\ ask' = [ask EXCEPT ![r] = ask[r]]
         /\ root[r] \in 0..published
    BY <1>1, <1>2 DEF Had
  <2> QED  BY <1>1, <2>2, <2>4, <2>5, <2>7, <2>8, <2>9, <2>10, RequestMoves
<1>7. CASE ~(a >= SizeOf(r)) /\ read # "data"
  <2>1. Lack(r, read) /\ r \in lacked'
    BY <1>7 DEF StreamChunk, Lack
  <2>2. \/ MoveTo(r, "over") /\ Post(r, <<End("done")>>) /\ UNCHANGED offset
        \/ Fail(r) /\ UNCHANGED offset
    BY <1>7 DEF StreamChunk
  <2>3. CASE MoveTo(r, "over") /\ Post(r, <<End("done")>>) /\ UNCHANGED offset
    <3>1. at' = [at EXCEPT ![r] = "over"] /\ out' = [out EXCEPT ![r] = s \o <<End("done")>>]
      BY <1>2, <2>3 DEF MoveTo, Post, Had
    <3> QED  BY <1>4, <2>1, <2>3, <3>1
  <2>4. CASE Fail(r) /\ UNCHANGED offset
    BY <1>1, <2>4, FailKeeps
  <2> QED  BY <2>2, <2>3, <2>4
<1> QED  BY <1>5, <1>6, <1>7

(* A live stream has what it announced, unless something could not be read.*)
LEMMA FollowingKept ==
  ASSUME LiveInv, NEW r \in Requests, at[r] \in Following
  PROVE  /\ Had(r) /\ root[r] \in 1..published /\ cached # NoRoot
         /\ Unended(out[r], ask[r].start, offset[r]) /\ (r \in lacked \/ offset[r] >= out[r][1].to)
         /\ out[r] \in Seq(Messages) /\ Fits(out[r], ask[r].start) /\ Complete(out[r])
<1>1. Had(r)
  BY HadBefore
<1>2. Unended(out[r], ask[r].start, offset[r])
  BY <1>1 DEF Had, Posted, Open
<1>3. Fits(out[r], ask[r].start) /\ Complete(out[r]) /\ out[r] \in Seq(Messages)
  BY <1>2, UnendedIsFine
<1>4. root[r] \in 1..published /\ cached # NoRoot /\ (r \in lacked \/ offset[r] >= out[r][1].to)
  BY <1>1 DEF Had, RootKnown, Posted, WithRoot, Open
<1> QED  BY <1>1, <1>2, <1>3, <1>4

LEMMA PollKeeps ==
  ASSUME LiveInv, NEW r \in Requests, Poll(r)
  PROVE  LiveInv'
<1>1. at[r] = "live" /\ UNCHANGED <<file, rootVars, ask, offset, lacked>>
  BY DEF Poll
<1>2. /\ Had(r) /\ root[r] \in 1..published /\ cached # NoRoot
      /\ Unended(out[r], ask[r].start, offset[r]) /\ (r \in lacked \/ offset[r] >= out[r][1].to)
      /\ out[r] \in Seq(Messages) /\ Fits(out[r], ask[r].start) /\ Complete(out[r])
  BY <1>1, FollowingKept DEF Following
<1>3. CASE r \in cancelled \/ quiet[r] > LiveTimeout
  <2>1. PICK s : s = out[r] \o (IF r \in cancelled THEN <<>> ELSE <<End("done")>>)
    OBVIOUS
  <2>2. at' = [at EXCEPT ![r] = "over"] /\ out' = [out EXCEPT ![r] = s] /\ root' = root
    BY <1>2, <1>3, <2>1 DEF Poll, MoveTo, Post, Had
  <2>3. s \in Seq(Messages) /\ Fits(s, ask[r].start) /\ (r \in lacked \/ Complete(s))
    <3>1. CASE r \in cancelled
      <4>1. s = out[r]
        BY <1>2, <2>1, <3>1, MoreMessages
      <4> QED  BY <1>2, <4>1
    <3>2. CASE r \notin cancelled
      <4>1. s = out[r] \o <<End("done")>>
        BY <2>1, <3>2
      <4> QED  BY <1>2, <4>1, PostEnd
    <3> QED  BY <3>1, <3>2
  <2> QED  BY <1>1, <2>2, <2>3, IsOver
<1>4. CASE ~(r \in cancelled \/ quiet[r] > LiveTimeout)
  <2>1. root' = [root EXCEPT ![r] = cached] /\ at' = [at EXCEPT ![r] = "checking"] /\ out' = out
    BY <1>4 DEF Poll, MoveTo
  <2>2. root'[r] = cached /\ at'[r] = "checking"
    BY <1>2, <2>1 DEF Had
  <2>3. cached \in 0..published /\ cached \in 1..published /\ cached' = cached /\ published' = published
    BY <1>1, <1>2 DEF LiveInv, LiveTypes, rootVars, NoRoot
  <2>4. RootKnown(r)'
    BY <1>1, <1>2, <2>2, <2>3 DEF RootKnown, Open, Following, WithRoot, WithSize
  <2>5. Posted(r)'
    BY <1>1, <1>2, <2>1, <2>2 DEF Posted, Before, Open, Following
  <2>6. "checking" \in (Before \cup Open \cup {"over"}) \ {"waiting"}
    BY DEF Open, Following
  <2>7. /\ offset' = [offset EXCEPT ![r] = offset[r]] /\ ask' = [ask EXCEPT ![r] = ask[r]]
        /\ out' = [out EXCEPT ![r] = out[r]] /\ offset[r] \in Nat
    BY <1>1, <1>2, <2>1 DEF Had
  <2> QED  BY <1>1, <1>2, <2>1, <2>3, <2>4, <2>5, <2>6, <2>7, RequestMoves
<1> QED  BY <1>3, <1>4

(* The stream goes on or, cancelled, is over.                              *)
LEMMA SleepKeeps ==
  ASSUME LiveInv, NEW r \in Requests, at[r] \in Following, Sleep(r), NEW n \in Nat, NEW s,
         UNCHANGED <<file, rootVars, ask, root, lacked>>, n >= offset[r],
         offset' = [offset EXCEPT ![r] = n], out' = [out EXCEPT ![r] = s],
         Unended(s, ask[r].start, n), s[1] = out[r][1]
  PROVE  LiveInv'
<1>1. /\ Had(r) /\ root[r] \in 1..published /\ cached # NoRoot
      /\ Unended(out[r], ask[r].start, offset[r]) /\ (r \in lacked \/ offset[r] >= out[r][1].to)
  BY FollowingKept
<1>2. s \in Seq(Messages) /\ Fits(s, ask[r].start) /\ Complete(s)
  BY UnendedIsFine
<1>3. PICK place \in {"over", "live"} : at' = [at EXCEPT ![r] = place]
  BY DEF Sleep, MoveTo
<1>4. at'[r] = place /\ offset'[r] = n /\ out'[r] = s
  BY <1>1, <1>3 DEF Had
<1>5. r \in lacked \/ n >= s[1].to
  <2>1. s[1].to \in Nat /\ offset[r] \in Nat
    <3>1. offset[r] \in Nat
      BY <1>1 DEF Had
    <3>2. s[1] \in Messages
      BY DEF Unended
    <3>3. s[1].to \in Nat
      BY <3>2 DEF Messages
    <3> QED  BY <3>1, <3>3
  <2> QED  BY <1>1, <2>1
<1>6. cached' = cached /\ published' = published
  BY DEF rootVars
<1>7. RootKnown(r)'
  BY <1>1, <1>4, <1>6 DEF RootKnown, Open, Following, WithRoot, WithSize
<1>8. Posted(r)'
  BY <1>2, <1>4, <1>5 DEF Posted, Before, Open, Following
<1>9. place \in (Before \cup Open \cup {"over"}) \ {"waiting"}
  BY DEF Open, Following
<1>10. /\ root' = [root EXCEPT ![r] = root[r]] /\ ask' = [ask EXCEPT ![r] = ask[r]]
       /\ root[r] \in 0..published
  BY <1>1 DEF Had
<1> QED  BY <1>2, <1>3, <1>7, <1>8, <1>9, <1>10, RequestMoves

LEMMA CheckKeeps ==
  ASSUME LiveInv, NEW r \in Requests, NEW read, Check(r, read)
  PROVE  LiveInv'
<1>1. at[r] = "checking" /\ UNCHANGED <<file, rootVars, ask, root, offset, out, lacked>>
  BY DEF Check
<1>2. /\ Had(r) /\ root[r] \in 1..published /\ cached # NoRoot
      /\ Unended(out[r], ask[r].start, offset[r]) /\ (r \in lacked \/ offset[r] >= out[r][1].to)
      /\ out[r] \in Seq(Messages) /\ Fits(out[r], ask[r].start) /\ Complete(out[r])
  BY <1>1, FollowingKept DEF Following
<1>3. /\ offset' = [offset EXCEPT ![r] = offset[r]] /\ out' = [out EXCEPT ![r] = out[r]] /\ offset[r] \in Nat
  BY <1>1, <1>2 DEF Had
<1>4. CASE read = "data" /\ SizeOf(r) # Absent /\ SizeOf(r) > offset[r]
  <2>1. at' = [at EXCEPT ![r] = "reading"]
    BY <1>4 DEF Check, MoveTo
  <2>2. at'[r] = "reading"
    BY <1>2, <2>1 DEF Had
  <2>3. SizeOf(r) \in Nat
    BY <1>2, <1>4 DEF Had, SizeOf
  <2>4. SizeOf(r)' = SizeOf(r) /\ cached' = cached /\ published' = published
    BY <1>1 DEF SizeOf, rootVars
  <2>5. RootKnown(r)'
    BY <1>1, <1>2, <2>2, <2>3, <2>4 DEF RootKnown, Open, Following, WithRoot, WithSize
  <2>6. Posted(r)'
    BY <1>1, <1>2, <1>4, <2>2, <2>4 DEF Posted, Before, Open, Following
  <2>7. "reading" \in (Before \cup Open) \ {"waiting"}
    BY DEF Open, Following
  <2> QED  BY <1>1, <1>2, <1>3, <2>1, <2>5, <2>6, <2>7, RequestAdvances
<1>5. CASE ~(read = "data" /\ SizeOf(r) # Absent /\ SizeOf(r) > offset[r])
  <2>1. Sleep(r)
    BY <1>5 DEF Check
  <2>2. offset[r] >= offset[r] /\ at[r] \in Following
    BY <1>1, <1>3 DEF Following
  <2> QED  BY <1>1, <1>2, <1>3, <2>1, <2>2, SleepKeeps
<1> QED  BY <1>4, <1>5

LEMMA ReadNewKeeps ==
  ASSUME LiveInv, NEW r \in Requests, NEW read, ReadNew(r, read)
  PROVE  LiveInv'
<1>1. /\ at[r] = "reading" /\ at[r] \in Following /\ Sleep(r)
      /\ UNCHANGED <<file, rootVars, ask, root, lacked>>
  BY DEF ReadNew, Following
<1>2. /\ Had(r) /\ Unended(out[r], ask[r].start, offset[r])
  BY <1>1, FollowingKept
<1>3. SizeOf(r) \in Nat /\ SizeOf(r) > offset[r] /\ offset[r] \in Nat
  BY <1>1, <1>2 DEF Had, RootKnown, Posted, WithSize
<1>4. CASE Post(r, <<Chunk(offset[r], SizeOf(r))>>) /\ offset' = [offset EXCEPT ![r] = SizeOf(r)]
  <2>1. out' = [out EXCEPT ![r] = out[r] \o <<Chunk(offset[r], SizeOf(r))>>]
    BY <1>2, <1>4 DEF Post, Had
  <2>3. SizeOf(r) >= offset[r] /\ offset[r] <= SizeOf(r)
    BY <1>3
  <2>2. /\ Unended(out[r] \o <<Chunk(offset[r], SizeOf(r))>>, ask[r].start, SizeOf(r))
        /\ (out[r] \o <<Chunk(offset[r], SizeOf(r))>>)[1] = out[r][1]
    BY ZenonT(40), <1>2, <1>3, <2>3, PostChunk
  <2> QED  BY <1>1, <1>3, <1>4, <2>1, <2>2, <2>3, SleepKeeps
<1>5. CASE UNCHANGED <<offset, out>>
  <2>1. offset' = [offset EXCEPT ![r] = offset[r]] /\ out' = [out EXCEPT ![r] = out[r]]
    BY <1>2, <1>5 DEF Had
  <2>2. offset[r] >= offset[r]
    BY <1>3
  <2> QED  BY <1>1, <1>2, <1>3, <2>1, <2>2, SleepKeeps
<1> QED  BY <1>4, <1>5 DEF ReadNew

-----------------------------------------------------------------------------
(* The requests of a LiveSpec behaviour keep the invariant.                *)
THEOREM LiveInvHolds == LiveSpec => []LiveInv
<1>1. LiveInv /\ [LiveNext]_liveVars => LiveInv'
  <2> SUFFICES ASSUME LiveInv, [LiveNext]_liveVars PROVE LiveInv'
    OBVIOUS
  <2>1. ASSUME NEW r \in Requests, Advance(r) PROVE LiveInv'
    <3>1. CASE AskCachedRoot(r)
      BY <3>1, AskCachedRootKeeps
    <3>2. CASE WaitForCachedRoot(r)
      BY <3>2, WaitForCachedRootKeeps
    <3>3. CASE Poll(r)
      BY <3>3, PollKeeps
    <3>4. ASSUME NEW read \in Reads,
                 \/ Resolve(r, read) \/ Size(r, read) \/ Fetch(r, read) \/ Buffer(r, read)
                 \/ StreamChunk(r, read) \/ Check(r, read) \/ ReadNew(r, read)
          PROVE  LiveInv'
      BY <3>4, ResolveKeeps, SizeKeeps, FetchKeeps, BufferKeeps, StreamChunkKeeps, CheckKeeps, ReadNewKeeps
    <3> QED  BY <2>1, <3>1, <3>2, <3>3, <3>4 DEF Advance
  <2>2. ASSUME NEW r \in Requests, NEW q \in AsksOf[r], Ask(r, q) PROVE LiveInv'
    BY <2>2, AskKeeps
  <2>3. CASE \/ WaitTimesOut \/ ResolvesNothing \/ Publish \/ Tick \/ UNCHANGED liveVars
             \/ \E r \in Requests : Cancel(r)
             \/ \E v \in 1..published : Resolved(v) \/ Updated(v)
    BY <2>3, RootsKeep
  <2> QED  BY <2>1, <2>2, <2>3 DEF LiveNext
<1> QED  BY <1>1, LiveInitHolds, PTL DEF LiveSpec

(* Nobody waits for a root that is there, every response is headers, the   *)
(* bytes from where it was asked without gap or overlap and one end, and a *)
(* good end comes after all that the headers promise, unless a block was   *)
(* missing: for any number of requests, whatever the file becomes.         *)
THEOREM LiveIsSound == LiveSpec => []LiveSound
<1>1. LiveInv => LiveSound
  <2> SUFFICES ASSUME LiveInv PROVE LiveSound
    OBVIOUS
  <2>1. ExactBytes
    <3> SUFFICES ASSUME NEW r \in Requests, NEW i \in 1..Len(out[r])
                 PROVE  LET m == out[r][i] IN
                        /\ m.type = "headers" => i = 1
                        /\ m.type = "chunk" =>
                             i > 1 /\ m.from = (IF i = 2 THEN ask[r].start ELSE out[r][i - 1].to) /\ m.from <= m.to
                        /\ m.type \in {"done", "error"} => i = Len(out[r])
      BY DEF ExactBytes
    <3>1. Fits(out[r], ask[r].start)
      BY DEF LiveInv, Posted
    <3> QED  BY <3>1 DEF Fits
  <2>2. DoneIsWhole
    <3> SUFFICES ASSUME NEW r \in Requests
                 PROVE  LET n == Len(out[r]) IN
                        n > 2 /\ r \notin lacked /\ out[r][n].type = "done" => out[r][n - 1].to >= out[r][1].to
      BY DEF DoneIsWhole
    <3>1. r \in lacked \/ Complete(out[r])
      BY DEF LiveInv, Posted
    <3> QED  BY <3>1 DEF Complete
  <2> QED  BY <2>1, <2>2 DEF LiveInv, LiveSound
<1> QED  BY <1>1, LiveInvHolds, PTL

-----------------------------------------------------------------------------
(* The social graph.                                                       *)
Contacts == <<"contacts", NoOne>>

GraphTypes ==
  /\ known \subseteq Users /\ database \subseteq Users /\ toMerge \subseteq Users /\ saves \in Seq(SUBSET Users)
  /\ subs = [id \in DOMAIN subs |-> subs[id]]

(* A snapshot that is being written is what memory holds, unless loaded    *)
(* users have been added to that since, and no timer runs beside it: the   *)
(* next change would have overtaken it.  Memory may be ahead of the        *)
(* database without a save only before the end of a load that found        *)
(* something, whose end is a change.                                       *)
PendingInv ==
  ~(overtaken \/ failed \/ replaced) =>
    /\ saves # <<>> => ~timer
    /\ loader = "merging" \/ \A i \in 1..Len(saves) : saves[i] = known
    /\ timer => dirty
    /\ \/ timer \/ saves # <<>> \/ known = database
       \/ loader \in {"decoding", "merging"} \/ (loader = "reading" /\ database # {})

(* The user the first subscription is for is the root, unless the root was *)
(* moved, and it is never replaced by another.                             *)
AskedInv ==
  ~(moved \/ replaced) =>
     /\ identity = graphRoot
     /\ Loading \/ graphRoot \in known \/ (Contacts \in DOMAIN subs /\ graphRoot \in subs[Contacts])

GraphInv == GraphTypes /\ PendingInv /\ HandledIsKnown /\ AskedInv

LEMMA Removed ==
  ASSUME NEW S, NEW s \in Seq(S), NEW i \in 1..Len(s)
  PROVE  /\ RemoveAt(s, i) \in Seq(S)
         /\ \A j \in 1..Len(RemoveAt(s, i)) : \E k \in 1..Len(s) : RemoveAt(s, i)[j] = s[k]
<1> DEFINE a == SubSeq(s, 1, i - 1)
           b == SubSeq(s, i + 1, Len(s))
<1>1. Len(s) \in Nat /\ i \in Nat /\ i >= 1 /\ i <= Len(s)
  OBVIOUS
<1>2. a \in Seq(S) /\ Len(a) = i - 1 /\ \A j \in 1..(i - 1) : a[j] = s[j]
  BY <1>1
<1>3. b \in Seq(S) /\ Len(b) = Len(s) - i /\ \A j \in 1..(Len(s) - i) : b[j] = s[i + j]
  BY <1>1
<1>4. RemoveAt(s, i) = a \o b
  BY DEF RemoveAt
<1> HIDE DEF a, b
<1>5. /\ a \o b \in Seq(S) /\ Len(a \o b) = Len(a) + Len(b)
      /\ \A j \in 1..(Len(a) + Len(b)) : (a \o b)[j] = IF j <= Len(a) THEN a[j] ELSE b[j - Len(a)]
  BY <1>2, <1>3, ConcatProperties
<1>6. ASSUME NEW j \in 1..Len(a \o b) PROVE \E k \in 1..Len(s) : (a \o b)[j] = s[k]
  <2>1. CASE j <= Len(a)
    <3>1. (a \o b)[j] = s[j] /\ j \in 1..Len(s)
      BY <1>1, <1>2, <1>3, <1>5, <2>1
    <3> QED  BY <3>1
  <2>2. CASE ~(j <= Len(a))
    <3>1. j - Len(a) \in 1..(Len(s) - i) /\ i + (j - Len(a)) = j + 1 /\ j + 1 \in 1..Len(s)
      BY <1>1, <1>2, <1>3, <1>5, <2>2
    <3>2. (a \o b)[j] = s[j + 1]
      BY <1>3, <1>5, <2>2, <3>1
    <3> QED  BY <3>1, <3>2
  <2> QED  BY <2>1, <2>2
<1> QED  BY <1>4, <1>5, <1>6

(* What a subscription of another id leaves of the first one.              *)
KeepsContacts(now, then) ==
  /\ then = [id \in DOMAIN then |-> then[id]]
  /\ Contacts \in DOMAIN now => Contacts \in DOMAIN then /\ then[Contacts] = now[Contacts]

LEMMA SubscribeKeeps ==
  ASSUME NEW now, NEW id, NEW users, id # Contacts
  PROVE  KeepsContacts(now, Subscribe(now, id, users))
BY DEF KeepsContacts, Subscribe

LEMMA CrawlKeeps ==
  ASSUME NEW state, NEW users, NEW graph,
         state.subs = [id \in DOMAIN state.subs |-> state.subs[id]]
  PROVE  KeepsContacts(state.subs, Crawl(state, users, graph).subs)
<1>1. <<"depth1", NoOne>> # Contacts
  BY DEF Contacts
<1>2. \A missing : KeepsContacts(state.subs, Subscribe(state.subs, <<"depth1", NoOne>>, missing))
  BY <1>1, SubscribeKeeps
<1>3. KeepsContacts(state.subs, state.subs)
  BY DEF KeepsContacts
<1> QED  BY <1>2, <1>3 DEF Crawl

LEMMA CrawledKeeps ==
  ASSUME GraphTypes, NEW u, NEW graph
  PROVE  KeepsContacts(subs, Crawled(u, graph).subs)
<1> DEFINE own == Crawl(Now, FollowedBy(graph, u), graph)
<1>1. Now.subs = subs /\ subs = [id \in DOMAIN subs |-> subs[id]]
  BY DEF Now, GraphTypes
<1>2. KeepsContacts(subs, own.subs)
  BY <1>1, CrawlKeeps
<1> HIDE DEF own
<1>3. \A users : KeepsContacts(subs, Crawl(own, users, graph).subs)
  <2> SUFFICES ASSUME NEW users PROVE KeepsContacts(subs, Crawl(own, users, graph).subs)
    OBVIOUS
  <2>1. own.subs = [id \in DOMAIN own.subs |-> own.subs[id]]
    BY <1>2 DEF KeepsContacts
  <2>2. KeepsContacts(own.subs, Crawl(own, users, graph).subs)
    BY <2>1, CrawlKeeps
  <2> QED  BY <1>2, <2>2 DEF KeepsContacts
<1>4. KeepsContacts(subs, Now.subs)
  BY <1>1 DEF KeepsContacts
<1> QED  BY <1>2, <1>3, <1>4 DEF Crawled, own

(* Who is told of a change will save it, unless it overtakes a save; so    *)
(* the users may have changed, and the load may have ended.                *)
LEMMA NotifyKeeps ==
  ASSUME GraphTypes, Notify, replaced' = replaced, PendingInv
  PROVE  PendingInv' /\ database' = database /\ saves' = saves
<1>1. dirty' = TRUE /\ timer' = TRUE /\ UNCHANGED <<database, saves, failed>>
  BY DEF Notify
<1>2. overtaken' <=> overtaken \/ saves # <<>>
  BY DEF Notify
<1>3. CASE saves = <<>>
  BY <1>1, <1>2, <1>3 DEF PendingInv
<1>4. CASE saves # <<>>
  BY <1>1, <1>2, <1>4 DEF PendingInv
<1> QED  BY <1>3, <1>4

LEMMA HandleKeeps ==
  ASSUME GraphInv, NEW u \in Users, NEW dropped \in BOOLEAN, HandleSocialGraphEvent(u, dropped)
  PROVE  GraphInv'
<1>1. /\ latest' = latest \cup {u} /\ subs' = Crawled(u, known').subs /\ Notify
      /\ \/ known' = known /\ refused' = refused \cup {u}
         \/ known' = known \cup {u} /\ refused' = refused
      /\ UNCHANGED <<graphRoot, identity, loader, toMerge, moved, replaced>>
  BY DEF HandleSocialGraphEvent, Handled, loadVars
<1>2. GraphTypes /\ PendingInv /\ HandledIsKnown /\ AskedInv
  BY DEF GraphInv
<1>3. KeepsContacts(subs, subs')
  BY <1>1, <1>2, CrawledKeeps
<1>4. PendingInv' /\ database' = database /\ saves' = saves
  BY <1>1, <1>2, NotifyKeeps
<1>5. GraphTypes'
  BY <1>1, <1>2, <1>3, <1>4 DEF GraphTypes, KeepsContacts
<1>6. HandledIsKnown'
  BY <1>1, <1>2 DEF HandledIsKnown
<1>7. AskedInv'
  BY <1>1, <1>2, <1>3 DEF AskedInv, KeepsContacts, Loading
<1> QED  BY <1>4, <1>5, <1>6, <1>7 DEF GraphInv

(* After a load the user's own list is known or asked for.                 *)
LEMMA SetupAsks ==
  ASSUME GraphInv, Setup, loader' = "done", UNCHANGED <<graphRoot, known, identity, moved, replaced>>
  PROVE  AskedInv' /\ subs' = [id \in DOMAIN subs' |-> subs'[id]]
<1>1. GraphTypes /\ AskedInv
  BY DEF GraphInv
<1>2. CASE FollowedBy(known, identity) = {}
  <2>1. subs' = Subscribe(subs, Contacts, {identity, Bootstrap})
    BY <1>2 DEF Setup, Contacts
  <2>2. /\ subs' = [id \in DOMAIN subs' |-> subs'[id]]
        /\ Contacts \in DOMAIN subs' /\ identity \in subs'[Contacts]
    BY <2>1 DEF Subscribe
  <2> QED  BY <1>1, <2>2 DEF AskedInv
<1>3. CASE FollowedBy(known, identity) # {}
  <2>1. subs' = subs /\ identity \in known
    BY <1>3 DEF Setup, FollowedBy
  <2> QED  BY <1>1, <2>1 DEF AskedInv, GraphTypes
<1> QED  BY <1>2, <1>3

LEMMA NothingLoaded ==
  ASSUME GraphInv, NEW ok \in BOOLEAN, LoadsNothing(ok), UNCHANGED loadKeeps,
         ok => loader = "reading" /\ database = {}
  PROVE  GraphInv'
<1>1. GraphTypes /\ PendingInv /\ HandledIsKnown /\ AskedInv
  BY DEF GraphInv
<1>2. UNCHANGED <<graphRoot, known, identity, latest, refused, moved, replaced, database, dirty, timer, saves, overtaken, toMerge>>
  BY DEF LoadsNothing, loadKeeps
<1>3. loader' = "done" /\ Setup /\ (failed' <=> failed \/ ~ok)
  BY DEF LoadsNothing
<1>4. AskedInv' /\ subs' = [id \in DOMAIN subs' |-> subs'[id]]
  BY <1>2, <1>3, SetupAsks
<1>5. PendingInv'
  BY <1>1, <1>2, <1>3 DEF PendingInv
<1> QED  BY <1>1, <1>2, <1>4, <1>5 DEF GraphInv, GraphTypes, HandledIsKnown

LEMMA LoadKeeps ==
  ASSUME GraphInv, Load
  PROVE  GraphInv'
<1>1. GraphTypes /\ PendingInv /\ HandledIsKnown /\ AskedInv
  BY DEF GraphInv
<1>2. ASSUME NEW ok \in BOOLEAN, NEW row \in BOOLEAN, LoadReads(ok, row) PROVE GraphInv'
  <2>1. CASE ok /\ row
    <3>1. /\ loader = "reading" /\ loader' = "decoding" /\ toMerge' \subseteq database
          /\ UNCHANGED <<graphRoot, known, identity, latest, refused, moved, replaced, saveVars, subs>>
      BY <1>2, <2>1 DEF LoadReads, loadKeeps, crawlVars
    <3>2. PendingInv'
      BY <1>1, <3>1 DEF PendingInv, saveVars
    <3> QED  BY <1>1, <3>1, <3>2 DEF GraphInv, GraphTypes, HandledIsKnown, AskedInv, Loading, saveVars
  <2>2. CASE ~(ok /\ row)
    <3>1. LoadsNothing(ok) /\ UNCHANGED loadKeeps /\ (ok => loader = "reading" /\ database = {})
      BY <1>2, <2>2 DEF LoadReads
    <3> QED  BY <3>1, NothingLoaded
  <2> QED  BY <2>1, <2>2
<1>3. ASSUME NEW ok \in BOOLEAN, LoadDecodes(ok) PROVE GraphInv'
  <2>1. CASE ok
    <3>1. /\ loader = "decoding" /\ loader' = "merging"
          /\ UNCHANGED <<graphRoot, known, identity, latest, refused, moved, replaced, toMerge, saveVars, subs>>
      BY <1>3, <2>1 DEF LoadDecodes, loadKeeps, crawlVars
    <3>2. PendingInv'
      BY <1>1, <3>1 DEF PendingInv, saveVars
    <3> QED  BY <1>1, <3>1, <3>2 DEF GraphInv, GraphTypes, HandledIsKnown, AskedInv, Loading, saveVars
  <2>2. CASE ~ok
    <3>1. LoadsNothing(FALSE) /\ UNCHANGED loadKeeps
      BY <1>3, <2>2 DEF LoadDecodes
    <3> QED  BY <3>1, NothingLoaded
  <2> QED  BY <2>1, <2>2
<1>4. ASSUME NEW u \in toMerge, MergeUser(u) PROVE GraphInv'
  <2>1. /\ loader = "merging" /\ known' = known \cup {u} /\ toMerge' = toMerge \ {u}
        /\ UNCHANGED <<graphRoot, identity, latest, refused, moved, replaced, loader, saveVars, subs>>
    BY <1>4 DEF MergeUser, crawlVars
  <2>2. PendingInv'
    BY <1>1, <2>1 DEF PendingInv, saveVars
  <2> QED  BY <1>1, <2>1, <2>2 DEF GraphInv, GraphTypes, HandledIsKnown, AskedInv, Loading, saveVars
<1>5. CASE LoadEnds
  <2>1. /\ loader' = "done" /\ Setup /\ Notify
        /\ UNCHANGED <<graphRoot, known, identity, latest, refused, moved, replaced, toMerge>>
    BY <1>5 DEF LoadEnds, loadKeeps
  <2>2. PendingInv' /\ database' = database /\ saves' = saves
    BY <1>1, <2>1, NotifyKeeps
  <2>3. AskedInv' /\ subs' = [id \in DOMAIN subs' |-> subs'[id]]
    BY <2>1, SetupAsks
  <2> QED  BY <1>1, <2>1, <2>2, <2>3 DEF GraphInv, GraphTypes, HandledIsKnown
<1> QED  BY <1>2, <1>3, <1>4, <1>5 DEF Load

LEMMA SavesKeep ==
  ASSUME GraphInv, SaveBegins \/ Save
  PROVE  GraphInv'
<1>1. GraphTypes /\ PendingInv /\ HandledIsKnown /\ AskedInv
  BY DEF GraphInv
<1>2. UNCHANGED <<graphRoot, known, identity, loader, toMerge, subs, latest, refused, overtaken, moved, replaced>>
  BY DEF SaveBegins, Save, SaveEnds, crawlVars, loadVars
<1>3. HandledIsKnown' /\ AskedInv'
  BY <1>1, <1>2 DEF HandledIsKnown, AskedInv, Loading
<1>4. CASE SaveBegins
  <2>1. /\ timer /\ timer' = FALSE /\ UNCHANGED <<database, dirty, failed>>
        /\ saves' = IF dirty THEN Append(saves, known) ELSE saves
    BY <1>4 DEF SaveBegins
  <2>2. saves' \in Seq(SUBSET Users)
    BY <1>1, <2>1 DEF GraphTypes
  <2>3. PendingInv'
    <3>1. CASE overtaken \/ failed \/ replaced
      BY <1>2, <2>1, <3>1 DEF PendingInv
    <3>2. CASE ~(overtaken \/ failed \/ replaced)
      <4>1. saves = <<>> /\ dirty
        BY <1>1, <2>1, <3>2 DEF PendingInv
      <4>2. saves' = Append(<<>>, known)
        BY <2>1, <4>1
      <4>3. saves' # <<>> /\ \A i \in 1..Len(saves') : saves'[i] = known
        BY <4>2
      <4> QED  BY <1>2, <2>1, <4>3 DEF PendingInv
    <3> QED  BY <3>1, <3>2
  <2>4. GraphTypes'
    BY <1>1, <1>2, <2>1, <2>2 DEF GraphTypes
  <2> QED  BY <1>3, <2>3, <2>4 DEF GraphInv
<1>5. ASSUME NEW ok \in BOOLEAN, NEW i \in 1..Len(saves), SaveEnds(i, ok) PROVE GraphInv'
  <2>1. /\ saves' = RemoveAt(saves, i) /\ timer' = timer
        /\ \/ ok /\ database' = saves[i] /\ dirty' = FALSE /\ UNCHANGED failed
           \/ ~ok /\ failed' = TRUE /\ UNCHANGED <<database, dirty>>
    BY <1>5 DEF SaveEnds
  <2>2. /\ saves' \in Seq(SUBSET Users)
        /\ \A j \in 1..Len(saves') : \E k \in 1..Len(saves) : saves'[j] = saves[k]
    <3>1. saves \in Seq(SUBSET Users)
      BY <1>1 DEF GraphTypes
    <3>2. /\ RemoveAt(saves, i) \in Seq(SUBSET Users)
          /\ \A j \in 1..Len(RemoveAt(saves, i)) : \E k \in 1..Len(saves) : RemoveAt(saves, i)[j] = saves[k]
      <4>1. PICK S : S = SUBSET Users
        OBVIOUS
      <4>2. saves \in Seq(S)
        BY <3>1, <4>1
      <4>3. /\ RemoveAt(saves, i) \in Seq(S)
            /\ \A j \in 1..Len(RemoveAt(saves, i)) : \E k \in 1..Len(saves) : RemoveAt(saves, i)[j] = saves[k]
        BY <4>2, Removed
      <4> QED  BY <4>1, <4>3
    <3> QED  BY <2>1, <3>2
  <2>3. saves[i] \subseteq Users
    BY <1>1 DEF GraphTypes
  <2>4. GraphTypes'
    BY <1>1, <1>2, <2>1, <2>2, <2>3 DEF GraphTypes
  <2>5. PendingInv'
    <3>1. CASE failed' \/ overtaken \/ failed \/ replaced
      BY <1>2, <2>1, <3>1 DEF PendingInv
    <3>2. CASE ~(failed' \/ overtaken \/ failed \/ replaced)
      <4>1. saves # <<>>
        BY <1>1 DEF GraphTypes
      <4>2. ~timer
        BY <1>1, <3>2, <4>1 DEF PendingInv
      <4>3. CASE loader = "merging"
        BY <1>2, <2>1, <4>2, <4>3 DEF PendingInv
      <4>4. CASE loader # "merging"
        <5>1. \A k \in 1..Len(saves) : saves[k] = known
          BY <1>1, <3>2, <4>4 DEF PendingInv
        <5>2. database' = known
          BY <2>1, <3>2, <5>1
        <5>3. \A j \in 1..Len(saves') : saves'[j] = known
          BY <2>2, <5>1
        <5> QED  BY <1>2, <2>1, <4>2, <5>2, <5>3 DEF PendingInv
      <4> QED  BY <4>3, <4>4
    <3> QED  BY <3>1, <3>2
  <2> QED  BY <1>3, <2>4, <2>5 DEF GraphInv
<1> QED  BY <1>4, <1>5 DEF Save

LEMMA CallsKeep ==
  ASSUME GraphInv, NEW u \in PageUsers,
         \/ SetIdentity(u) \/ SetSocialGraphRoot(u) \/ InitSocialGraph(u)
         \/ \E dropped \in BOOLEAN : SocialGraphEvents(u, dropped)
         \/ FetchUserFollows(u) \/ FetchUserFollowers(u)
  PROVE  GraphInv'
<1>1. GraphTypes /\ PendingInv /\ HandledIsKnown /\ AskedInv
  BY DEF GraphInv
<1>2. CASE SetIdentity(u) \/ SetSocialGraphRoot(u)
  <2>1. Notify /\ UNCHANGED <<known, toMerge, loader, subs, latest, refused, replaced>>
    BY <1>2 DEF SetIdentity, SetSocialGraphRoot, crawlVars, loadVars
  <2>2. graphRoot' = u /\ identity' \in {u, identity} /\ (moved' <=> moved \/ u # graphRoot)
    BY <1>2 DEF SetIdentity, SetSocialGraphRoot
  <2>3. PendingInv' /\ database' = database /\ saves' = saves
    BY <1>1, <2>1, NotifyKeeps
  <2>4. AskedInv'
    BY <1>1, <2>1, <2>2 DEF AskedInv, Loading
  <2> QED  BY <1>1, <2>1, <2>3, <2>4 DEF GraphInv, GraphTypes, HandledIsKnown
<1>3. CASE InitSocialGraph(u)
  <2>1. known' = {} /\ toMerge' \subseteq toMerge /\ replaced' = TRUE /\ UNCHANGED <<database, saves, subs>>
    BY <1>3 DEF InitSocialGraph, saveVars, crawlVars
  <2> QED  BY <1>1, <2>1 DEF GraphInv, GraphTypes, PendingInv, HandledIsKnown, AskedInv
<1>4. ASSUME NEW dropped \in BOOLEAN, SocialGraphEvents(u, dropped) PROVE GraphInv'
  <2>1. /\ Notify /\ known \subseteq known'
        /\ UNCHANGED <<graphRoot, identity, toMerge, loader, subs, latest, refused, moved, replaced>>
    BY <1>4 DEF SocialGraphEvents, crawlVars, loadVars
  <2>2. known' \subseteq Users
    BY <1>1, <1>4, GraphAssumption DEF SocialGraphEvents, GraphTypes
  <2>3. PendingInv' /\ database' = database /\ saves' = saves
    BY <1>1, <2>1, NotifyKeeps
  <2> QED  BY <1>1, <2>1, <2>2, <2>3 DEF GraphInv, GraphTypes, HandledIsKnown, AskedInv, Loading
<1>5. CASE FetchUserFollows(u) \/ FetchUserFollowers(u)
  <2>1. UNCHANGED <<graphRoot, known, identity, saveVars, loader, toMerge, latest, refused, moved, replaced>>
    BY <1>5 DEF FetchUserFollows, FetchUserFollowers, loadVars
  <2>2. <<"profile", u>> # Contacts /\ <<"followers", u>> # Contacts
    BY DEF Contacts
  <2>3. KeepsContacts(subs, subs)
    BY <1>1 DEF KeepsContacts, GraphTypes
  <2>4. KeepsContacts(subs, subs')
    BY <1>5, <2>2, <2>3, SubscribeKeeps DEF FetchUserFollows, FetchUserFollowers, crawlVars
  <2>5. PendingInv' /\ HandledIsKnown'
    BY <1>1, <2>1 DEF PendingInv, HandledIsKnown, saveVars
  <2>6. GraphTypes'
    BY <1>1, <2>1, <2>4 DEF GraphTypes, KeepsContacts, saveVars
  <2>7. AskedInv'
    BY <1>1, <2>1, <2>4 DEF AskedInv, KeepsContacts, Loading
  <2> QED  BY <2>5, <2>6, <2>7 DEF GraphInv
<1> QED  BY <1>2, <1>3, <1>4, <1>5

(* The social graph of a GraphSpec behaviour keeps the invariant.          *)
THEOREM GraphInvHolds == GraphSpec => []GraphInv
<1>1. GraphInit => GraphInv
  <2> SUFFICES ASSUME GraphInit PROVE GraphInv
    OBVIOUS
  <2>1. GraphTypes
    BY GraphAssumption DEF GraphInit, GraphTypes
  <2> QED  BY <2>1 DEF GraphInit, GraphInv, PendingInv, HandledIsKnown, AskedInv, Loading
<1>2. GraphInv /\ [GraphNext]_graphVars => GraphInv'
  <2> SUFFICES ASSUME GraphInv, [GraphNext]_graphVars PROVE GraphInv'
    OBVIOUS
  <2>1. ASSUME NEW u \in Users, NEW dropped \in BOOLEAN, HandleSocialGraphEvent(u, dropped) PROVE GraphInv'
    BY <2>1, HandleKeeps
  <2>2. CASE Load
    BY <2>2, LoadKeeps
  <2>3. CASE SaveBegins \/ Save
    BY <2>3, SavesKeep
  <2>4. ASSUME NEW u \in PageUsers,
               \/ SetIdentity(u) \/ SetSocialGraphRoot(u) \/ InitSocialGraph(u)
               \/ \E dropped \in BOOLEAN : SocialGraphEvents(u, dropped)
               \/ FetchUserFollows(u) \/ FetchUserFollowers(u)
        PROVE  GraphInv'
    BY <2>4, CallsKeep
  <2>5. CASE UNCHANGED graphVars
    BY <2>5 DEF graphVars, saveVars, loadVars, crawlVars, GraphInv, GraphTypes, PendingInv, HandledIsKnown, AskedInv, Loading
  <2> QED  BY <2>1, <2>2, <2>3, <2>4, <2>5 DEF GraphNext
<1> QED  BY <1>1, <1>2, PTL DEF GraphSpec

(* A save is on its way while memory is ahead of the database, once it is  *)
(* loaded and unless a change came during a save or something failed; a    *)
(* contact list that was handled and that the graph took stays; and the    *)
(* worker's own list is known or asked for: for any users, whomever they   *)
(* follow, in whatever order the loaded users are merged between events,   *)
(* saves and calls.                                                        *)
THEOREM GraphIsSound == GraphSpec => []GraphSound
<1>1. GraphInv => GraphSound
  <2> SUFFICES ASSUME GraphInv PROVE GraphSound
    OBVIOUS
  <2>1. SavePending
    BY DEF GraphInv, PendingInv, SavePending, Loading
  <2>2. RootAsked
    BY DEF GraphInv, AskedInv, RootAsked
  <2> QED  BY <2>1, <2>2 DEF GraphInv, GraphSound
<1> QED  BY <1>1, GraphInvHolds, PTL

=============================================================================
