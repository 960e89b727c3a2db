------------------------- MODULE RefResolver_proofs -------------------------
(***************************************************************************)
(* What the Nostr resolver shows, for any roots, callers, lists, calls,    *)
(* times and windows: the newest it was sent, and never an older root      *)
(* after a newer one, unless a publish was overtaken while it encrypted.   *)
(***************************************************************************)
EXTENDS RefResolver, FiniteSetTheorems, TLAPS

(* What a view may hold, with the callbacks that wait for it.              *)
Shapes ==
  /\ clock \in 0..MaxTime /\ foreign \in 0..MaxForeign
  /\ events \subseteq {e \in Entries : e.id # 0}
  /\ cache \in Entries
  /\ sub \in {Absent} \cup Shown /\ (sub # Absent => sub.users # {})
  /\ lists \in [ListObjs -> Shown] /\ \A l \in ListObjs : lists[l].users \subseteq Listers
  /\ listSub \in ListObjs \cup {0}
  /\ calls \in [Publishes -> {Absent, Ended} \cup InFlight]
  /\ overlap \in BOOLEAN

(* A call that encrypts chose a time no earlier than the clock when it     *)
(* began, and later than every copy a publish goes by, unless one of them  *)
(* has changed since.                                                      *)
Later(t) == \A u \in Known : u < t
Ahead(call) == call.began <= call.at /\ (~call.overtaken => Later(call.at))
CallsAhead == \A c \in Publishes : calls[c] \in InFlight => Ahead(calls[c])

(* What an open list shows, and what an open subscription does.            *)
ListShows(entry, seen) ==
  \A e \in seen : ~Newer(e, entry) \/ Guarded(entry, e.hash, e.at)
SubShows(entry, seen) == \A e \in seen : e.hash # Deleted => ~Newer(e, entry)

AllShow ==
  /\ sub # Absent => SubShows(sub.entry, sub.seen)
  /\ \A l \in ListObjs : ListShows(lists[l].entry, lists[l].seen)

IInv == Shapes /\ CallsAhead /\ (~overlap => AllShow)

-----------------------------------------------------------------------------
(* The order of events, and what a newer entry still shows.                *)
LEMMA IdsAreNumbers == \A i \in EventIds : i \in Nat /\ i # 0
<1>1. Cardinality(Publishes) \in Nat
  BY FS_CardinalityType, BoundsAssumption
<1> QED  BY <1>1, BoundsAssumption DEF EventIds

LEMMA Times == \A e \in Entries : e.at \in Nat /\ e.id \in Nat
<1> SUFFICES ASSUME NEW e \in Entries PROVE e.at \in Nat /\ e.id \in Nat
  OBVIOUS
<1>1. e.at \in Nat /\ e.id \in EventIds \cup {0}
  BY DEF Entries
<1> QED  BY <1>1, IdsAreNumbers

LEMMA OrderLaws ==
  ASSUME NEW x \in Entries, NEW y \in Entries, NEW z \in Entries
  PROVE  /\ ~(Newer(x, y) /\ Newer(y, x))
         /\ ~Newer(z, x) /\ ~Newer(x, y) => ~Newer(z, y)
<1>2. /\ x.at \in Nat /\ y.at \in Nat /\ z.at \in Nat
      /\ x.id \in Nat /\ y.id \in Nat /\ z.id \in Nat
  BY Times
<1> QED  BY <1>2 DEF Newer

(* A list may take any entry that is not older and does not undo a         *)
(* deletion too soon; t is the time it is judged by.                       *)
LEMMA ListAdvances ==
  ASSUME NEW x \in Entries, NEW y \in Entries, NEW seen \in SUBSET Entries,
         NEW t \in Nat, t <= y.at, ~Newer(x, y),
         y.hash = Deleted \/ ~Guarded(x, y.hash, t), ListShows(x, seen)
  PROVE  ListShows(y, seen) /\ ListShows(y, seen \cup {y})
<1>1. ASSUME NEW e \in seen PROVE ~Newer(e, y) \/ Guarded(y, e.hash, e.at)
  <2>1. e \in Entries
    OBVIOUS
  <2>2. CASE ~Newer(e, x)
    BY <2>1, <2>2, OrderLaws
  <2>3. CASE Guarded(x, e.hash, e.at) /\ y.hash = Deleted
    BY <2>1, <2>3, BoundsAssumption DEF Guarded, Newer, Entries
  <2>4. CASE Guarded(x, e.hash, e.at) /\ y.hash # Deleted
    BY <2>1, <2>4, BoundsAssumption DEF Guarded, Newer, Entries
  <2> QED  BY <2>2, <2>3, <2>4 DEF ListShows
<1>2. ~Newer(y, y)
  BY OrderLaws
<1> QED  BY <1>1, <1>2 DEF ListShows

LEMMA SubAdvances ==
  ASSUME NEW x \in Entries, NEW y \in Entries, NEW seen \in SUBSET Entries,
         ~Newer(x, y), SubShows(x, seen)
  PROVE  SubShows(y, seen) /\ SubShows(y, seen \cup {y})
<1>1. \A e \in seen : ~Newer(e, x) => ~Newer(e, y)
  BY OrderLaws
<1>2. ~Newer(y, y)
  BY OrderLaws
<1> QED  BY <1>1, <1>2 DEF SubShows

LEMMA UnknownIsOldest ==
  Unknown \in Entries /\ \A e \in Entries : ~Newer(Unknown, e) /\ \A h, t : ~Guarded(Unknown, h, t)
<1>1. Unknown \in Entries /\ Unknown.hash = Absent /\ Unknown.at = 0 /\ Unknown.id = 0
  BY DEF Unknown, Entry, Entries
<1>3. \A e \in Entries : ~Newer(Unknown, e)
  BY <1>1, Times DEF Newer
<1>4. \A h, t : ~Guarded(Unknown, h, t)
  BY <1>1, NamesAssumption DEF Guarded
<1> QED  BY <1>1, <1>3, <1>4

LEMMA EntryFields ==
  ASSUME NEW h \in Targets \cup {Absent}, NEW t \in Nat, NEW i \in EventIds \cup {0}
  PROVE  /\ Entry(h, t, i) \in Entries
         /\ Entry(h, t, i).hash = h /\ Entry(h, t, i).at = t /\ Entry(h, t, i).id = i
BY DEF Entry, Entries

(* An entry of a later second is newer.                                    *)
LEMMA LaterIsNewer ==
  ASSUME NEW x \in Entries, NEW y \in Entries, x.at < y.at
  PROVE  ~Newer(x, y)
BY DEF Newer, Entries

-----------------------------------------------------------------------------
(* The time of a publish: no earlier than asked for and later than every   *)
(* copy it goes by.                                                        *)
LEMMA KnownTimes ==
  ASSUME Shapes
  PROVE  /\ Known \subseteq Nat
         /\ \E t \in Known : \A u \in Known : u <= t
<1> DEFINE a == cache.at
           B == IF sub = Absent THEN {} ELSE {sub.entry.at}
           C == IF listSub = 0 THEN {} ELSE {lists[listSub].entry.at}
<1>1. a \in Nat
  BY DEF Shapes, Entries
<1>2. B = {} \/ \E b \in Nat : B = {b}
  BY DEF Shapes, Shown, Entries
<1>3. C = {} \/ \E b \in Nat : C = {b}
  BY DEF Shapes, Shown, Entries
<1>4. Known = {a} \cup B \cup C
  BY DEF Known
<1> HIDE DEF a, B, C
<1>5. {a} \cup B \cup C \subseteq Nat
  BY <1>1, <1>2, <1>3
<1>6. PICK t1 \in {a} \cup B : \A u \in {a} \cup B : u <= t1
  <2>1. CASE B = {}
    BY <2>1, <1>1
  <2>2. ASSUME NEW b \in Nat, B = {b} PROVE \E t \in {a} \cup B : \A u \in {a} \cup B : u <= t
    <3>1. CASE a <= b
      BY <2>2, <3>1, <1>1
    <3>2. CASE b <= a
      BY <2>2, <3>2, <1>1
    <3> QED  BY <3>1, <3>2, <1>1
  <2> QED  BY <2>1, <2>2, <1>2
<1>7. \E t \in {a} \cup B \cup C : \A u \in {a} \cup B \cup C : u <= t
  <2>1. CASE C = {}
    BY <2>1, <1>6
  <2>2. ASSUME NEW c \in Nat, C = {c} PROVE \E t \in {a} \cup B \cup C : \A u \in {a} \cup B \cup C : u <= t
    <3>1. CASE t1 <= c
      BY <2>2, <3>1, <1>5, <1>6
    <3>2. CASE c <= t1
      BY <2>2, <3>2, <1>5, <1>6
    <3> QED  BY <2>2, <3>1, <3>2, <1>5
  <2> QED  BY <2>1, <2>2, <1>3
<1> QED  BY <1>4, <1>5, <1>7

LEMMA NextIsLater ==
  ASSUME Shapes, NEW minimum \in Nat
  PROVE  /\ NextCreatedAt(minimum) \in Nat
         /\ minimum <= NextCreatedAt(minimum)
         /\ Later(NextCreatedAt(minimum))
<1> DEFINE latest == CHOOSE t \in Known : \A u \in Known : u <= t
<1>1. latest \in Known /\ \A u \in Known : u <= latest
  BY KnownTimes
<1>2. Known \subseteq Nat
  BY KnownTimes
<1>3. NextCreatedAt(minimum) = IF latest >= minimum THEN latest + 1 ELSE minimum
  BY DEF NextCreatedAt
<1> HIDE DEF latest
<1> QED  BY <1>1, <1>2, <1>3 DEF Later

(* What a publish goes by.                                                 *)
LEMMA KnownCopies ==
  ASSUME Shapes, NEW t \in Nat, Later(t)
  PROVE  /\ cache.at < t
         /\ sub # Absent => sub.entry.at < t
         /\ listSub # 0 => lists[listSub].entry.at < t
BY DEF Later, Known

-----------------------------------------------------------------------------
(* What a step may do to the views, to the calls that encrypt, and to both. *)
SubGoes ==
  sub' # Absent =>
    \/ sub = Absent /\ sub'.seen = {}
    \/ /\ sub # Absent /\ ~Newer(sub.entry, sub'.entry)
       /\ SubShows(sub'.entry, sub'.seen)

ListGoes(l) ==
  \/ lists'[l].seen = {} /\ (lists[l] = NoList \/ lists'[l] = NoList)
  \/ ~Newer(lists[l].entry, lists'[l].entry) /\ ListShows(lists'[l].entry, lists'[l].seen)

Goes == SubGoes /\ \A l \in ListObjs : ListGoes(l)
Kept == Shapes' /\ CallsAhead' /\ (~overlap' => ~overlap /\ Goes)

LEMMA ListFields ==
  ASSUME Shapes, NEW l \in ListObjs
  PROVE  /\ lists[l] \in Shown /\ lists[l].entry \in Entries
         /\ lists[l].seen \in SUBSET Entries /\ lists[l].users \in SUBSET Watchers
BY DEF Shapes, Shown

LEMMA SubFields ==
  ASSUME Shapes, sub # Absent
  PROVE  /\ sub \in Shown /\ sub.entry \in Entries
         /\ sub.seen \in SUBSET Entries /\ sub.users \in SUBSET Watchers
BY DEF Shapes, Shown

LEMMA SubKept ==
  ASSUME Shapes, AllShow,
         sub' # Absent => sub # Absent /\ sub'.entry = sub.entry /\ sub'.seen = sub.seen
  PROVE  SubGoes
BY SubFields, OrderLaws DEF SubGoes, AllShow

LEMMA ListKept ==
  ASSUME Shapes, AllShow, NEW l \in ListObjs,
         lists'[l].entry = lists[l].entry, lists'[l].seen = lists[l].seen
  PROVE  ListGoes(l)
BY ListFields, OrderLaws DEF ListGoes, AllShow

LEMMA SubAdvanced ==
  ASSUME Shapes, AllShow, NEW y \in Entries,
         sub # Absent => ~Newer(sub.entry, y),
         sub' = IF sub = Absent THEN Absent ELSE [sub EXCEPT !.entry = y]
  PROVE  SubGoes
<1>1. CASE sub = Absent
  BY <1>1 DEF SubGoes
<1>2. CASE sub # Absent
  <2>1. sub \in Shown /\ sub.entry \in Entries /\ sub.seen \in SUBSET Entries
    BY <1>2, SubFields
  <2>2. sub'.entry = y /\ sub'.seen = sub.seen
    BY <1>2, <2>1 DEF Shown
  <2>3. SubShows(sub.entry, sub.seen)
    BY <1>2 DEF AllShow
  <2>4. SubShows(y, sub.seen)
    BY <1>2, <2>1, <2>3, SubAdvances
  <2> QED  BY <1>2, <2>2, <2>4 DEF SubGoes
<1> QED  BY <1>1, <1>2

LEMMA SubTyped ==
  ASSUME Shapes, NEW y \in Entries
  PROVE  LET new == IF sub = Absent THEN Absent ELSE [sub EXCEPT !.entry = y] IN
         new \in {Absent} \cup Shown /\ (new # Absent => new.users # {})
<1>1. CASE sub = Absent
  BY <1>1
<1>2. CASE sub # Absent
  <2>1. [sub EXCEPT !.entry = y] \in Shown /\ [sub EXCEPT !.entry = y].users = sub.users
    BY <1>2, SubFields DEF Shown
  <2> QED  BY <1>2, <2>1 DEF Shapes
<1> QED  BY <1>1, <1>2

(* A list that takes an entry, or none that does.                          *)
LEMMA ListAdvanced ==
  ASSUME Shapes, AllShow, NEW y \in Entries, NEW t \in Nat, t <= y.at,
         NEW k \in ListObjs, ~Newer(lists[k].entry, y),
         y.hash = Deleted \/ ~Guarded(lists[k].entry, y.hash, t),
         NEW seen, seen = lists[k].seen \/ seen = lists[k].seen \cup {y},
         lists' = [lists EXCEPT ![k].entry = y, ![k].seen = seen]
  PROVE  \A l \in ListObjs : ListGoes(l)
<1> TAKE l \in ListObjs
<1>1. DOMAIN lists = ListObjs
  BY DEF Shapes
<1>2. CASE l # k
  <2>1. lists'[l] = lists[l]
    BY <1>1, <1>2
  <2> QED  BY <2>1, ListKept
<1>3. CASE l = k
  <2>1. /\ lists[k] \in Shown /\ lists[k].entry \in Entries /\ lists[k].seen \in SUBSET Entries
    BY ListFields
  <2>2. lists'[k].entry = y /\ lists'[k].seen = seen
    BY <1>1, <2>1 DEF Shown
  <2>3. ListShows(lists[k].entry, lists[k].seen)
    BY DEF AllShow
  <2>4. ListShows(y, lists[k].seen) /\ ListShows(y, lists[k].seen \cup {y})
    BY <2>1, <2>3, ListAdvances
  <2> QED  BY <1>3, <2>2, <2>4 DEF ListGoes
<1> QED  BY <1>2, <1>3

LEMMA ListTyped ==
  ASSUME Shapes, NEW y \in Entries, NEW k \in ListObjs, NEW seen \in SUBSET Entries
  PROVE  LET new == [lists EXCEPT ![k].entry = y, ![k].seen = seen] IN
         new \in [ListObjs -> Shown] /\ \A l \in ListObjs : new[l].users \subseteq Listers
<1> DEFINE rec == [lists[k] EXCEPT !.entry = y, !.seen = seen]
<1>1. rec \in Shown /\ rec.users = lists[k].users
  BY ListFields DEF Shown
<1>2. [lists EXCEPT ![k].entry = y, ![k].seen = seen] = [lists EXCEPT ![k] = rec]
  BY DEF Shapes
<1> HIDE DEF rec
<1> QED  BY <1>1, <1>2 DEF Shapes

(* Publishes.                                                                  *)
LEMMA CallFields ==
  ASSUME Shapes, NEW c \in Publishes, calls[c] \in InFlight
  PROVE  /\ calls[c].hash \in Roots /\ calls[c].at \in Nat /\ calls[c].began \in Nat
         /\ calls[c].overtaken \in BOOLEAN
BY DEF InFlight

LEMMA OvertakenCalls ==
  ASSUME Shapes, CallsAhead, NEW c \in Publishes,
         calls' = Overtake \/ calls' = [Overtake EXCEPT ![c] = Ended]
  PROVE  calls' \in [Publishes -> {Absent, Ended} \cup InFlight] /\ CallsAhead'
<1>1. ASSUME NEW d \in Publishes
      PROVE  /\ Overtake[d] \in {Absent, Ended} \cup InFlight
             /\ Overtake[d] \in InFlight => Overtake[d].began <= Overtake[d].at /\ Overtake[d].overtaken
  <2>1. CASE calls[d] \in {Absent, Ended}
    BY <2>1, NamesAssumption DEF Overtake
  <2>2. CASE calls[d] \notin {Absent, Ended}
    <3>1. calls[d] \in InFlight
      BY <2>2 DEF Shapes
    <3>2. Overtake[d] = [calls[d] EXCEPT !.overtaken = TRUE]
      BY <2>2 DEF Overtake
    <3>3. calls[d].began <= calls[d].at
      BY <3>1 DEF CallsAhead, Ahead
    <3>4. /\ Overtake[d] \in InFlight /\ Overtake[d].overtaken = TRUE
          /\ Overtake[d].began = calls[d].began /\ Overtake[d].at = calls[d].at
      BY <3>1, <3>2 DEF InFlight
    <3> QED  BY <3>3, <3>4
  <2> QED  BY <2>1, <2>2
<1>2. \A d \in Publishes : calls'[d] = Overtake[d] \/ calls'[d] = Ended
  BY DEF Overtake
<1>3. calls' = [d \in Publishes |-> calls'[d]]
  BY DEF Overtake
<1>4. calls' \in [Publishes -> {Absent, Ended} \cup InFlight]
  BY <1>1, <1>2, <1>3
<1>5. ASSUME NEW d \in Publishes, calls'[d] \in InFlight
      PROVE  calls'[d].began <= calls'[d].at /\ calls'[d].overtaken
  BY <1>1, <1>2, <1>5, NamesAssumption
<1> QED  BY <1>4, <1>5 DEF CallsAhead, Ahead

LEMMA CallsKept ==
  ASSUME Shapes, CallsAhead, UNCHANGED calls, Known' \subseteq Known
  PROVE  calls' \in [Publishes -> {Absent, Ended} \cup InFlight] /\ CallsAhead'
BY DEF Shapes, CallsAhead, Ahead, Later

LEMMA KnownShrinks ==
  ASSUME Shapes, cache' = cache,
         sub' # Absent => \/ sub # Absent /\ sub'.entry = sub.entry
                        \/ sub'.entry = cache,
         listSub' # 0 => \/ listSub # 0 /\ lists'[listSub'].entry = lists[listSub].entry
                         \/ lists'[listSub'].entry = cache
  PROVE  Known' \subseteq Known
BY DEF Known

-----------------------------------------------------------------------------
(* The clock, other devices and callers come and go.                       *)
LEMMA TickKeeps == IInv /\ Tick => Kept
<1> SUFFICES ASSUME IInv, Tick PROVE Kept
  OBVIOUS
<1>1. UNCHANGED <<sub, lists, listSub, cache, calls, overlap>>
  BY DEF Tick, views
<1>2. Shapes'
  BY <1>1, BoundsAssumption DEF IInv, Shapes, Tick
<1>3. Known' \subseteq Known
  BY <1>1 DEF Known
<1>4. CallsAhead'
  BY <1>1, <1>3, CallsKept DEF IInv
<1>5. ASSUME ~overlap' PROVE ~overlap /\ Goes
  BY <1>1, <1>5, SubKept, ListKept DEF IInv, Goes
<1> QED  BY <1>2, <1>4, <1>5 DEF Kept

LEMMA ForeignKeeps == IInv /\ Foreign => Kept
<1> SUFFICES ASSUME IInv, Foreign PROVE Kept
  OBVIOUS
<1>1. UNCHANGED <<clock, sub, lists, listSub, cache, calls, overlap>>
  BY DEF Foreign, views
<1>2. events' \subseteq {e \in Entries : e.id # 0}
  <2>1. PICK h \in Targets, t \in ForeignTimes, i \in FreshIds : events' = events \cup {Entry(h, t, i)}
    BY DEF Foreign
  <2>2. i \in EventIds /\ t \in Nat
    BY BoundsAssumption DEF FreshIds
  <2>3. Entry(h, t, i) \in Entries /\ Entry(h, t, i).id # 0
    BY <2>2, EntryFields, IdsAreNumbers
  <2> QED  BY <2>1, <2>3 DEF IInv, Shapes
<1>3. Shapes'
  BY <1>1, <1>2, BoundsAssumption DEF IInv, Shapes, Foreign
<1>4. Known' \subseteq Known
  BY <1>1 DEF Known
<1>5. CallsAhead'
  BY <1>1, <1>4, CallsKept DEF IInv
<1>6. ASSUME ~overlap' PROVE ~overlap /\ Goes
  BY <1>1, <1>6, SubKept, ListKept DEF IInv, Goes
<1> QED  BY <1>3, <1>5, <1>6 DEF Kept

LEMMA SubscribeKeeps ==
  ASSUME IInv, NEW w \in Subscribers, Subscribe(w)
  PROVE  Kept
<1>1. UNCHANGED <<clock, events, foreign, lists, listSub, cache, calls, overlap>>
  BY DEF Subscribe
<1>2. w \in Watchers
  BY DEF Watchers
<1>3. /\ sub' \in Shown /\ sub'.users # {}
      /\ \/ sub # Absent /\ sub'.entry = sub.entry /\ sub'.seen = sub.seen
         \/ sub = Absent /\ sub'.entry = cache /\ sub'.seen = {}
  <2>1. CASE sub # Absent
    <3>1. sub' = [sub EXCEPT !.users = @ \cup {w}]
      BY <2>1 DEF Subscribe
    <3>2. sub \in Shown
      BY <2>1, SubFields DEF IInv
    <3> QED  BY <1>2, <2>1, <3>1, <3>2 DEF Shown
  <2>2. CASE sub = Absent
    <3>1. sub' = [entry |-> cache, users |-> {w}, seen |-> {}]
      BY <2>2 DEF Subscribe
    <3> QED  BY <1>2, <2>2, <3>1 DEF IInv, Shapes, Shown
  <2> QED  BY <2>1, <2>2
<1>4. Shapes'
  BY <1>1, <1>3 DEF IInv, Shapes
<1>5. Known' \subseteq Known
  BY <1>1, <1>3, KnownShrinks DEF IInv
<1>6. CallsAhead'
  BY <1>1, <1>5, CallsKept DEF IInv
<1>7. ASSUME ~overlap' PROVE ~overlap /\ Goes
  <2>1. SubGoes
    BY <1>1, <1>3, <1>7, SubKept DEF IInv, SubGoes
  <2> QED  BY <1>1, <1>7, <2>1, ListKept DEF IInv, Goes
<1> QED  BY <1>4, <1>6, <1>7 DEF Kept

LEMMA UnsubscribeKeeps ==
  ASSUME IInv, NEW w \in Subscribers, Unsubscribe(w)
  PROVE  Kept
<1>1. UNCHANGED <<clock, events, foreign, lists, listSub, cache, calls, overlap>>
  BY DEF Unsubscribe
<1>2. sub' # Absent =>
        sub # Absent /\ sub' \in Shown /\ sub'.users # {} /\ sub'.entry = sub.entry /\ sub'.seen = sub.seen
  <2>1. CASE sub = Absent \/ sub.users \subseteq {w}
    BY <2>1 DEF Unsubscribe
  <2>2. CASE sub # Absent /\ ~(sub.users \subseteq {w})
    <3>1. sub' = [sub EXCEPT !.users = @ \ {w}]
      BY <2>2 DEF Unsubscribe
    <3>2. sub \in Shown
      BY <2>2, SubFields DEF IInv
    <3> QED  BY <2>2, <3>1, <3>2 DEF Shown
  <2> QED  BY <2>1, <2>2
<1>3. Shapes'
  BY <1>1, <1>2 DEF IInv, Shapes
<1>4. Known' \subseteq Known
  BY <1>1, <1>2, KnownShrinks DEF IInv
<1>5. CallsAhead'
  BY <1>1, <1>4, CallsKept DEF IInv
<1>6. ASSUME ~overlap' PROVE ~overlap /\ Goes
  BY <1>1, <1>2, <1>6, SubKept, ListKept DEF IInv, Goes
<1> QED  BY <1>3, <1>5, <1>6 DEF Kept

(* The list that gets a callback or loses one keeps its entry; a new one   *)
(* starts from the cache.                                                  *)
LEMMA ListKeeps ==
  ASSUME IInv, NEW w \in Listers, List(w)
  PROVE  Kept
<1>1. UNCHANGED <<clock, events, foreign, sub, cache, calls, overlap>>
  BY DEF List
<1>2. w \in Watchers
  BY DEF Watchers
<1>3. Shapes
  BY DEF IInv
<1>4. CASE listSub # 0
  <2>1. lists' = [lists EXCEPT ![listSub].users = @ \cup {w}] /\ listSub' = listSub
    BY <1>4 DEF List
  <2>2. listSub \in ListObjs
    BY <1>3, <1>4 DEF Shapes
  <2> DEFINE rec == [lists[listSub] EXCEPT !.users = @ \cup {w}]
  <2>3. rec \in Shown /\ rec.users = lists[listSub].users \cup {w}
        /\ rec.entry = lists[listSub].entry /\ rec.seen = lists[listSub].seen
    BY <1>2, <1>3, <2>2, ListFields DEF Shown
  <2>4. lists' = [lists EXCEPT ![listSub] = rec]
    BY <2>1
  <2> HIDE DEF rec
  <2>5. lists' \in [ListObjs -> Shown] /\ \A l \in ListObjs : lists'[l].users \subseteq Listers
    BY <1>3, <2>2, <2>3, <2>4 DEF Shapes
  <2>6. \A l \in ListObjs : lists'[l].entry = lists[l].entry /\ lists'[l].seen = lists[l].seen
    BY <1>3, <2>2, <2>3, <2>4 DEF Shapes
  <2>7. Shapes'
    BY <1>1, <1>3, <2>1, <2>5 DEF Shapes
  <2>8. Known' \subseteq Known
    BY <1>1, <1>3, <2>1, <2>2, <2>6, KnownShrinks
  <2>9. CallsAhead'
    BY <1>1, <2>8, CallsKept DEF IInv
  <2>10. ASSUME ~overlap' PROVE ~overlap /\ Goes
    BY <1>1, <2>6, <2>10, SubKept, ListKept DEF IInv, Goes
  <2> QED  BY <2>7, <2>9, <2>10 DEF Kept
<1>5. CASE listSub = 0
  <2> DEFINE rec == [entry |-> cache, users |-> {w}, seen |-> {}]
  <2>1. PICK k \in ListObjs : lists[k] = NoList /\ lists' = [lists EXCEPT ![k] = rec] /\ listSub' = k
    BY <1>5 DEF List
  <2>2. rec \in Shown /\ rec.users = {w} /\ rec.entry = cache /\ rec.seen = {}
    BY <1>2, <1>3 DEF Shown, Shapes
  <2> HIDE DEF rec
  <2>3. lists' \in [ListObjs -> Shown] /\ \A l \in ListObjs : lists'[l].users \subseteq Listers
    BY <1>3, <2>1, <2>2 DEF Shapes
  <2>4. lists'[k] = rec /\ \A l \in ListObjs : l # k => lists'[l] = lists[l]
    BY <1>3, <2>1 DEF Shapes
  <2>5. Shapes'
    BY <1>1, <1>3, <2>1, <2>3 DEF Shapes
  <2>6. lists'[listSub'].entry = cache
    BY <2>1, <2>2, <2>4
  <2>7. Known' \subseteq Known
    BY <1>1, <1>3, <2>6, KnownShrinks
  <2>8. CallsAhead'
    BY <1>1, <2>7, CallsKept DEF IInv
  <2>9. ASSUME ~overlap' PROVE ~overlap /\ Goes
    <3>1. AllShow
      BY <1>1, <2>9 DEF IInv
    <3>2. \A l \in ListObjs : l # k => ListGoes(l)
      BY <1>3, <2>4, <3>1, ListKept
    <3>3. ListGoes(k)
      BY <2>1, <2>2, <2>4 DEF ListGoes
    <3>4. SubGoes
      BY <1>1, <1>3, <3>1, SubKept
    <3> QED  BY <1>1, <2>9, <3>2, <3>3, <3>4 DEF Goes
  <2> QED  BY <2>5, <2>8, <2>9 DEF Kept
<1> QED  BY <1>4, <1>5

LEMMA UnlistKeeps ==
  ASSUME IInv, NEW w \in Listers, Unlist(w)
  PROVE  Kept
<1> DEFINE k == watching[w]
           last == lists[k].users \subseteq {w}
           rec == IF last THEN NoList ELSE [lists[k] EXCEPT !.users = @ \ {w}]
<1>1. UNCHANGED <<clock, events, foreign, sub, cache, calls, overlap>>
  BY DEF Unlist
<1>2. Shapes
  BY DEF IInv
<1>3. /\ k \in ListObjs /\ lists' = [lists EXCEPT ![k] = rec]
      /\ listSub' = IF last THEN 0 ELSE listSub
  <2>1. k \in ListObjs /\ listSub' = IF last THEN 0 ELSE listSub
    BY DEF Unlist
  <2>2. lists' = [lists EXCEPT ![k] = rec]
    BY DEF Unlist
  <2> QED  BY <2>1, <2>2
<1>4. /\ rec \in Shown /\ rec.users \subseteq Listers
      /\ \/ rec.entry = lists[k].entry /\ rec.seen = lists[k].seen
         \/ last /\ rec = NoList /\ rec.seen = {}
  <2>1. CASE last
    BY <2>1, UnknownIsOldest DEF NoList, Shown
  <2>2. CASE ~last
    BY <1>2, <1>3, <2>2, ListFields DEF Shown, Shapes
  <2> QED  BY <2>1, <2>2
<1>5. lists' \in [ListObjs -> Shown] /\ \A l \in ListObjs : lists'[l].users \subseteq Listers
  BY <1>2, <1>3, <1>4 DEF Shapes
<1>6. lists'[k] = rec /\ \A l \in ListObjs : l # k => lists'[l] = lists[l]
  BY <1>2, <1>3 DEF Shapes
<1>7. Shapes'
  BY <1>1, <1>2, <1>3, <1>5 DEF Shapes
<1>8. listSub' # 0 => listSub # 0 /\ lists'[listSub'].entry = lists[listSub].entry
  <2>1. ASSUME listSub' # 0 PROVE ~last /\ listSub' = listSub /\ listSub \in ListObjs
    BY <1>2, <1>3, <2>1 DEF Shapes
  <2> QED  BY <1>4, <1>6, <2>1
<1>9. Known' \subseteq Known
  BY <1>1, <1>2, <1>8, KnownShrinks
<1>10. CallsAhead'
  BY <1>1, <1>9, CallsKept DEF IInv
<1>11. ASSUME ~overlap' PROVE ~overlap /\ Goes
  <2>1. AllShow
    BY <1>1, <1>11 DEF IInv
  <2>2. \A l \in ListObjs : l # k => ListGoes(l)
    BY <1>2, <1>6, <2>1, ListKept
  <2>3. ListGoes(k)
    <3>1. CASE rec.entry = lists[k].entry /\ rec.seen = lists[k].seen
      BY <1>2, <1>3, <1>6, <2>1, <3>1, ListKept
    <3>2. CASE rec = NoList /\ rec.seen = {}
      BY <1>6, <3>2 DEF ListGoes
    <3> QED  BY <1>4, <3>1, <3>2
  <2>4. SubGoes
    BY <1>1, <1>2, <2>1, SubKept
  <2> QED  BY <1>1, <1>11, <2>2, <2>3, <2>4 DEF Goes
<1> QED  BY <1>7, <1>10, <1>11 DEF Kept

LEMMA StopAllKeeps == IInv /\ StopAll => Kept
<1> SUFFICES ASSUME IInv, StopAll PROVE Kept
  OBVIOUS
<1>1. UNCHANGED <<clock, events, foreign, lists, cache, calls, overlap>> /\ sub' = Absent /\ listSub' = 0
  BY DEF StopAll
<1>2. Shapes'
  BY <1>1 DEF IInv, Shapes
<1>3. Known' \subseteq Known
  BY <1>1, KnownShrinks DEF IInv
<1>4. CallsAhead'
  BY <1>1, <1>3, CallsKept DEF IInv
<1>5. ASSUME ~overlap' PROVE ~overlap /\ Goes
  BY <1>1, <1>5, SubKept, ListKept DEF IInv, Goes
<1> QED  BY <1>2, <1>4, <1>5 DEF Kept

-----------------------------------------------------------------------------
(* Events.                                                                 *)
LEMMA SubEventKeeps ==
  ASSUME IInv, NEW e \in events, SubEvent(e)
  PROVE  Kept
<1>1. UNCHANGED <<clock, events, foreign, lists, listSub, overlap>> /\ sub # Absent
  BY DEF SubEvent
<1>2. Shapes /\ e \in Entries
  BY DEF IInv, Shapes
<1>3. /\ sub \in Shown /\ sub.entry \in Entries /\ sub.seen \in SUBSET Entries /\ sub.users # {}
  BY <1>1, <1>2, SubFields DEF Shapes
<1>4. CASE SubTakes(e)
  <2>1. /\ sub' = [sub EXCEPT !.entry = e, !.seen = @ \cup {e}]
        /\ cache' = e /\ calls' = Overtake
    BY <1>4 DEF SubEvent
  <2>2. /\ sub' \in Shown /\ sub'.users # {} /\ sub' # Absent
        /\ sub'.entry = e /\ sub'.seen = sub.seen \cup {e}
    BY <1>2, <1>3, <2>1, NamesAssumption DEF Shown
  <2>3. calls' \in [Publishes -> {Absent, Ended} \cup InFlight] /\ CallsAhead'
    <3>1. CASE Publishes = {}
      BY <2>1, <3>1 DEF Overtake, CallsAhead
    <3>2. CASE Publishes # {}
      BY <1>2, <2>1, <3>2, OvertakenCalls DEF IInv
    <3> QED  BY <3>1, <3>2
  <2>4. Shapes'
    BY <1>1, <1>2, <2>1, <2>2, <2>3 DEF Shapes
  <2>5. ~Newer(sub.entry, e)
    BY <1>2, <1>3, <1>4, OrderLaws DEF SubTakes
  <2>6. ASSUME ~overlap' PROVE ~overlap /\ Goes
    <3>1. AllShow
      BY <1>1, <2>6 DEF IInv
    <3>2. SubShows(e, sub.seen \cup {e})
      BY <1>1, <1>2, <1>3, <2>5, <3>1, SubAdvances DEF AllShow
    <3>3. SubGoes
      BY <1>1, <2>2, <2>5, <3>2 DEF SubGoes
    <3> QED  BY <1>1, <1>2, <2>6, <3>1, <3>3, ListKept DEF Goes
  <2> QED  BY <2>3, <2>4, <2>6 DEF Kept
<1>5. CASE ~SubTakes(e)
  <2>1. sub' = [sub EXCEPT !.seen = @ \cup {e}] /\ UNCHANGED <<cache, calls>>
    BY <1>5 DEF SubEvent
  <2>2. /\ sub' \in Shown /\ sub'.users # {} /\ sub' # Absent
        /\ sub'.entry = sub.entry /\ sub'.seen = sub.seen \cup {e}
    BY <1>2, <1>3, <2>1, NamesAssumption DEF Shown
  <2>3. Shapes'
    BY <1>1, <1>2, <2>1, <2>2 DEF Shapes
  <2>4. Known' \subseteq Known
    BY <1>1, <1>2, <2>1, <2>2, KnownShrinks
  <2>5. CallsAhead'
    BY <2>1, <2>4, CallsKept DEF IInv
  <2>6. ASSUME ~overlap' PROVE ~overlap /\ Goes
    <3>1. AllShow
      BY <1>1, <2>6 DEF IInv
    <3>2. SubShows(sub.entry, sub.seen \cup {e})
      BY <1>1, <1>5, <3>1 DEF AllShow, SubShows, SubTakes
    <3>3. ~Newer(sub.entry, sub.entry)
      BY <1>3, OrderLaws
    <3>4. SubGoes
      BY <1>1, <2>2, <3>2, <3>3 DEF SubGoes
    <3> QED  BY <1>1, <1>2, <2>6, <3>1, <3>4, ListKept DEF Goes
  <2> QED  BY <2>3, <2>5, <2>6 DEF Kept
<1> QED  BY <1>4, <1>5

LEMMA ListEventKeeps ==
  ASSUME IInv, NEW e \in events, NEW k \in ListObjs, ListEvent(k, e)
  PROVE  Kept
<1>1. UNCHANGED <<clock, events, foreign, sub, listSub, overlap>>
  BY DEF ListEvent
<1>2. Shapes /\ e \in Entries /\ e.at \in Nat
  BY Times DEF IInv, Shapes
<1>3. /\ lists[k] \in Shown /\ lists[k].entry \in Entries /\ lists[k].seen \in SUBSET Entries
  BY <1>2, ListFields
<1>4. CASE ListTakes(lists[k].entry, e)
  <2> DEFINE seen == lists[k].seen \cup {e}
  <2>1. /\ lists' = [lists EXCEPT ![k].entry = e, ![k].seen = seen]
        /\ cache' = e /\ calls' = Overtake
    BY <1>4 DEF ListEvent
  <2>2. seen \in SUBSET Entries
    BY <1>2, <1>3
  <2>3. calls' \in [Publishes -> {Absent, Ended} \cup InFlight] /\ CallsAhead'
    <3>1. CASE Publishes = {}
      BY <2>1, <3>1 DEF Overtake, CallsAhead
    <3>2. CASE Publishes # {}
      BY <1>2, <2>1, <3>2, OvertakenCalls DEF IInv
    <3> QED  BY <3>1, <3>2
  <2>4. Shapes'
    BY <1>1, <1>2, <2>1, <2>2, <2>3, ListTyped DEF Shapes
  <2>5. ~Newer(lists[k].entry, e) /\ ~Guarded(lists[k].entry, e.hash, e.at)
    BY <1>2, <1>3, <1>4, UnknownIsOldest DEF ListTakes
  <2>6. ASSUME ~overlap' PROVE ~overlap /\ Goes
    <3>1. AllShow
      BY <1>1, <2>6 DEF IInv
    <3>2. e.at <= e.at
      BY <1>2
    <3>3. \A l \in ListObjs : ListGoes(l)
      BY <1>2, <2>1, <2>5, <3>1, <3>2, ListAdvanced
    <3> QED  BY <1>1, <1>2, <2>6, <3>1, <3>3, SubKept DEF Goes
  <2> QED  BY <2>3, <2>4, <2>6 DEF Kept
<1>5. CASE ~ListTakes(lists[k].entry, e)
  <2> DEFINE rec == [lists[k] EXCEPT !.seen = @ \cup {e}]
  <2>1. lists' = [lists EXCEPT ![k] = rec] /\ UNCHANGED <<cache, calls>>
    BY <1>2, <1>5 DEF ListEvent, Shapes
  <2>2. /\ rec \in Shown /\ rec.users = lists[k].users
        /\ rec.entry = lists[k].entry /\ rec.seen = lists[k].seen \cup {e}
    BY <1>2, <1>3 DEF Shown
  <2> HIDE DEF rec
  <2>3. lists' \in [ListObjs -> Shown] /\ \A l \in ListObjs : lists'[l].users \subseteq Listers
    BY <1>2, <2>1, <2>2 DEF Shapes
  <2>4. lists'[k] = rec /\ \A l \in ListObjs : l # k => lists'[l] = lists[l]
    BY <1>2, <2>1 DEF Shapes
  <2>5. Shapes'
    BY <1>1, <1>2, <2>1, <2>3 DEF Shapes
  <2>6. listSub \in ListObjs => lists'[listSub].entry = lists[listSub].entry
    BY <2>2, <2>4
  <2>7. Known' \subseteq Known
    BY <1>1, <1>2, <2>1, <2>6, KnownShrinks DEF Shapes
  <2>8. CallsAhead'
    BY <2>1, <2>7, CallsKept DEF IInv
  <2>9. ASSUME ~overlap' PROVE ~overlap /\ Goes
    <3>1. AllShow
      BY <1>1, <2>9 DEF IInv
    <3>2. ~Newer(e, lists[k].entry) \/ Guarded(lists[k].entry, e.hash, e.at)
      BY <1>2, <1>3, <1>5, OrderLaws DEF ListTakes
    <3>3. ListShows(rec.entry, rec.seen)
      BY <2>2, <3>1, <3>2 DEF AllShow, ListShows
    <3>4. ~Newer(lists[k].entry, rec.entry)
      BY <1>3, <2>2, OrderLaws
    <3>5. ListGoes(k)
      BY <2>4, <3>3, <3>4 DEF ListGoes
    <3>6. \A l \in ListObjs : l # k => ListGoes(l)
      BY <1>2, <2>4, <3>1, ListKept
    <3> QED  BY <1>1, <1>2, <2>9, <3>1, <3>5, <3>6, SubKept DEF Goes
  <2> QED  BY <2>5, <2>8, <2>9 DEF Kept
<1> QED  BY <1>4, <1>5

-----------------------------------------------------------------------------
(* Publish, delete and inject.                                             *)
LEMMA EntryOnly ==
  ASSUME Shapes, NEW k \in ListObjs, NEW y \in Entries
  PROVE  [lists EXCEPT ![k].entry = y] = [lists EXCEPT ![k].entry = y, ![k].seen = lists[k].seen]
<1>1. [lists[k] EXCEPT !.entry = y] = [lists[k] EXCEPT !.entry = y, !.seen = lists[k].seen]
  BY ListFields DEF Shown
<1> QED  BY <1>1 DEF Shapes

(* The registered list takes an entry made here, or does not.              *)
LEMMA RegisteredTakes ==
  ASSUME Shapes, NEW h \in Targets, NEW t \in Nat, NEW began \in Nat, began <= t,
         \/ lists' = lists
         \/ /\ listSub # 0 /\ (h = Deleted \/ ~Guarded(lists[listSub].entry, h, began))
            /\ lists' = [lists EXCEPT ![listSub].entry = Entry(h, t, 0)]
  PROVE  /\ lists' \in [ListObjs -> Shown] /\ \A l \in ListObjs : lists'[l].users \subseteq Listers
         /\ Later(t) /\ AllShow => \A l \in ListObjs : ListGoes(l)
<1> DEFINE y == Entry(h, t, 0)
<1>1. y \in Entries /\ y.hash = h /\ y.at = t
  BY EntryFields
<1>2. CASE lists' = lists
  BY <1>2, ListKept DEF Shapes
<1>3. CASE /\ listSub # 0 /\ (h = Deleted \/ ~Guarded(lists[listSub].entry, h, began))
           /\ lists' = [lists EXCEPT ![listSub].entry = y]
  <2>1. listSub \in ListObjs
    BY <1>3 DEF Shapes
  <2>2. lists[listSub].entry \in Entries /\ lists[listSub].seen \in SUBSET Entries
    BY <2>1, ListFields
  <2>3. lists' = [lists EXCEPT ![listSub].entry = y, ![listSub].seen = lists[listSub].seen]
    BY <1>1, <1>3, <2>1, EntryOnly
  <2> HIDE DEF y
  <2>4. lists' \in [ListObjs -> Shown] /\ \A l \in ListObjs : lists'[l].users \subseteq Listers
    BY <1>1, <2>1, <2>2, <2>3, ListTyped
  <2>5. ASSUME Later(t), AllShow PROVE \A l \in ListObjs : ListGoes(l)
    <3>1. ~Newer(lists[listSub].entry, y)
      BY <1>1, <1>3, <2>2, <2>5, KnownCopies, LaterIsNewer
    <3>2. y.hash = Deleted \/ ~Guarded(lists[listSub].entry, y.hash, began)
      BY <1>1, <1>3
    <3>3. began <= y.at
      BY <1>1
    <3> QED  BY <1>1, <2>1, <2>3, <2>5, <3>1, <3>2, <3>3, ListAdvanced
  <2> QED  BY <2>4, <2>5
<1> QED  BY <1>2, <1>3

LEMMA SubTakesMade ==
  ASSUME Shapes, NEW y \in Entries,
         sub' = IF sub = Absent THEN Absent ELSE [sub EXCEPT !.entry = y]
  PROVE  /\ sub' \in {Absent} \cup Shown /\ (sub' # Absent => sub'.users # {})
         /\ Later(y.at) /\ AllShow => SubGoes
<1>1. sub' \in {Absent} \cup Shown /\ (sub' # Absent => sub'.users # {})
  BY SubTyped
<1>2. ASSUME Later(y.at), AllShow PROVE SubGoes
  <2>1. y.at \in Nat
    BY Times
  <2>2. sub # Absent => ~Newer(sub.entry, y)
    BY <1>2, <2>1, SubFields, KnownCopies, LaterIsNewer
  <2> QED  BY <1>2, <2>2, SubAdvanced
<1> QED  BY <1>1, <1>2

LEMMA SentTyped ==
  ASSUME Shapes, NEW h \in Targets, NEW t \in Nat, Sent(h, t)
  PROVE  events' \subseteq {e \in Entries : e.id # 0}
<1>1. ASSUME NEW i \in FreshIds, events' = events \cup {Entry(h, t, i)}
      PROVE  events' \subseteq {e \in Entries : e.id # 0}
  <2>1. i \in EventIds
    BY DEF FreshIds
  <2>2. Entry(h, t, i) \in Entries /\ Entry(h, t, i).id # 0
    BY <2>1, EntryFields, IdsAreNumbers
  <2> QED  BY <1>1, <2>2 DEF Shapes
<1> QED  BY <1>1 DEF Sent, Shapes

LEMMA PublishKeeps ==
  ASSUME IInv, NEW c \in Publishes, NEW h \in Roots, NEW t \in Nat, NEW began \in Nat, began <= t,
         Publish(c, h, t, began),
         overlap' \in BOOLEAN, ~overlap' => ~overlap /\ Later(t)
  PROVE  Kept
<1>1. UNCHANGED <<clock, foreign, listSub, watching>> /\ cache' = Entry(h, t, 0)
  BY DEF Publish, views
<1>2. Shapes /\ h \in Targets
  BY DEF IInv, Targets
<1>3. /\ Entry(h, t, 0) \in Entries /\ Entry(h, t, 0).at = t
  BY <1>2, EntryFields
<1>4. calls' \in [Publishes -> {Absent, Ended} \cup InFlight] /\ CallsAhead'
  BY <1>2, OvertakenCalls DEF Publish, IInv
<1>5. sub' = IF sub = Absent THEN Absent ELSE [sub EXCEPT !.entry = Entry(h, t, 0)]
  BY DEF Publish
<1>6. /\ sub' \in {Absent} \cup Shown /\ (sub' # Absent => sub'.users # {})
      /\ Later(t) /\ AllShow => SubGoes
  BY <1>2, <1>3, <1>5, SubTakesMade
<1>7. \/ lists' = lists
      \/ /\ listSub # 0 /\ ~Guarded(lists[listSub].entry, h, began)
         /\ lists' = [lists EXCEPT ![listSub].entry = Entry(h, t, 0)]
  BY DEF Publish
<1>8. /\ lists' \in [ListObjs -> Shown] /\ \A l \in ListObjs : lists'[l].users \subseteq Listers
      /\ Later(t) /\ AllShow => \A l \in ListObjs : ListGoes(l)
  BY <1>2, <1>7, RegisteredTakes
<1>9. events' \subseteq {e \in Entries : e.id # 0}
  BY <1>2, SentTyped DEF Publish
<1>10. Shapes'
  BY <1>1, <1>2, <1>3, <1>4, <1>6, <1>8, <1>9 DEF Shapes
<1>11. ~overlap' => ~overlap /\ Goes
  BY <1>6, <1>8 DEF IInv, Goes
<1> QED  BY <1>4, <1>10, <1>11 DEF Kept

LEMMA PublishNowKeeps ==
  ASSUME IInv, NEW c \in Publishes, PublishNow(c)
  PROVE  Kept
<1>1. PICK h \in Roots : Publish(c, h, NextCreatedAt(clock), clock)
  BY DEF PublishNow
<1>2. clock \in Nat
  BY BoundsAssumption DEF IInv, Shapes
<1>3. /\ NextCreatedAt(clock) \in Nat /\ clock <= NextCreatedAt(clock)
      /\ Later(NextCreatedAt(clock))
  BY <1>2, NextIsLater DEF IInv
<1>4. overlap' = overlap /\ overlap \in BOOLEAN
  BY DEF PublishNow, IInv, Shapes
<1> QED  BY <1>1, <1>2, <1>3, <1>4, PublishKeeps

LEMMA PublishEncryptsKeeps ==
  ASSUME IInv, NEW c \in Publishes, PublishEncrypts(c)
  PROVE  Kept
<1> DEFINE t == NextCreatedAt(clock)
<1>1. UNCHANGED <<clock, events, foreign, sub, lists, listSub, cache, overlap>>
  BY DEF PublishEncrypts, views
<1>2. PICK h \in Roots :
        calls' = [calls EXCEPT ![c] = [hash |-> h, at |-> t, began |-> clock, overtaken |-> FALSE]]
  BY DEF PublishEncrypts
<1>3. Shapes /\ clock \in Nat
  BY BoundsAssumption DEF IInv, Shapes
<1>4. t \in Nat /\ clock <= t /\ Later(t)
  BY <1>3, NextIsLater
<1> HIDE DEF t
<1> DEFINE rec == [hash |-> h, at |-> t, began |-> clock, overtaken |-> FALSE]
<1>5. rec \in InFlight /\ rec.at = t /\ rec.began = clock
  BY <1>3, <1>4 DEF InFlight
<1> HIDE DEF rec
<1>6. calls' = [calls EXCEPT ![c] = rec]
  BY <1>2 DEF rec
<1>7. calls' \in [Publishes -> {Absent, Ended} \cup InFlight]
  BY <1>3, <1>5, <1>6 DEF Shapes
<1>8. Known' = Known
  BY <1>1 DEF Known
<1>9. CallsAhead'
  <2>1. \A d \in Publishes : d # c => calls'[d] = calls[d]
    BY <1>3, <1>6 DEF Shapes
  <2>2. calls'[c] = rec
    BY <1>3, <1>6 DEF Shapes
  <2> QED  BY <1>4, <1>5, <1>8, <2>1, <2>2 DEF IInv, CallsAhead, Ahead, Later
<1>10. Shapes'
  BY <1>1, <1>3, <1>7 DEF Shapes
<1>11. ASSUME ~overlap' PROVE ~overlap /\ Goes
  BY <1>1, <1>3, <1>11, SubKept, ListKept DEF IInv, Goes
<1> QED  BY <1>9, <1>10, <1>11 DEF Kept

LEMMA PublishEncryptedKeeps ==
  ASSUME IInv, NEW c \in Publishes, PublishEncrypted(c)
  PROVE  Kept
<1> DEFINE h == calls[c].hash
           t == calls[c].at
           began == calls[c].began
<1>1. Shapes /\ calls[c] \in InFlight
  BY DEF IInv, Shapes, PublishEncrypted
<1>2. h \in Roots /\ t \in Nat /\ began \in Nat /\ calls[c].overtaken \in BOOLEAN
  BY <1>1, CallFields
<1>3. began <= t /\ (~calls[c].overtaken => Later(t))
  BY <1>1 DEF IInv, CallsAhead, Ahead
<1>4. Publish(c, h, t, began) /\ overlap' = (overlap \/ calls[c].overtaken)
  BY DEF PublishEncrypted
<1>5. overlap' \in BOOLEAN /\ (~overlap' => ~overlap /\ Later(t))
  BY <1>1, <1>2, <1>3, <1>4 DEF Shapes
<1> HIDE DEF h, t, began
<1> QED  BY <1>2, <1>3, <1>4, <1>5, PublishKeeps

LEMMA DeleteKeeps ==
  ASSUME IInv, NEW c \in Publishes, DeleteTree(c)
  PROVE  Kept
<1> DEFINE t == NextCreatedAt(clock + 1)
           e == Entry(Deleted, t, 0)
           gone == Entry(Absent, t, 0)
<1>1. UNCHANGED <<clock, foreign, listSub, overlap>> /\ cache' = e
  BY DEF DeleteTree
<1>2. Shapes /\ clock + 1 \in Nat /\ Deleted \in Targets
  BY BoundsAssumption DEF IInv, Shapes, Targets
<1>3. t \in Nat /\ Later(t)
  BY <1>2, NextIsLater
<1>4. /\ e.at = t /\ [e EXCEPT !.hash = Absent] = gone
  BY DEF Entry
<1>5. /\ sub' = IF sub = Absent THEN Absent ELSE [sub EXCEPT !.entry = gone]
      /\ lists' = IF listSub = 0 THEN lists ELSE [lists EXCEPT ![listSub].entry = e]
      /\ Sent(Deleted, t) /\ calls' = [Overtake EXCEPT ![c] = Ended]
  BY <1>4 DEF DeleteTree
<1> HIDE DEF t
<1>6. e \in Entries /\ gone \in Entries /\ gone.at = t
  <2>1. Deleted \in Targets \cup {Absent} /\ Absent \in Targets \cup {Absent} /\ 0 \in EventIds \cup {0}
    BY <1>2
  <2>2. e \in Entries
    BY <1>3, <2>1, EntryFields
  <2>3. gone \in Entries /\ gone.at = t
    BY <1>3, <2>1, EntryFields
  <2> QED  BY <2>2, <2>3
<1>7. calls' \in [Publishes -> {Absent, Ended} \cup InFlight] /\ CallsAhead'
  BY <1>2, <1>5, OvertakenCalls DEF IInv
<1>8. /\ sub' \in {Absent} \cup Shown /\ (sub' # Absent => sub'.users # {})
      /\ AllShow => SubGoes
  <2> HIDE DEF gone
  <2> QED  BY <1>2, <1>3, <1>5, <1>6, SubTakesMade
<1>9. /\ lists' \in [ListObjs -> Shown] /\ \A l \in ListObjs : lists'[l].users \subseteq Listers
      /\ AllShow => \A l \in ListObjs : ListGoes(l)
  <2>1. \/ lists' = lists
        \/ listSub # 0 /\ lists' = [lists EXCEPT ![listSub].entry = Entry(Deleted, t, 0)]
    BY <1>5
  <2>2. t <= t
    BY <1>3
  <2> QED  BY <1>2, <1>3, <2>1, <2>2, RegisteredTakes
<1>10. events' \subseteq {x \in Entries : x.id # 0}
  BY <1>2, <1>3, <1>5, SentTyped
<1>11. Shapes'
  <2> HIDE DEF e
  <2> QED  BY <1>1, <1>2, <1>6, <1>7, <1>8, <1>9, <1>10 DEF Shapes
<1>12. ~overlap' => ~overlap /\ Goes
  BY <1>1, <1>8, <1>9 DEF IInv, Goes
<1> QED  BY <1>7, <1>11, <1>12 DEF Kept

LEMMA InjectKeeps ==
  ASSUME IInv, NEW c \in Publishes, Inject(c)
  PROVE  Kept
<1>1. UNCHANGED <<clock, events, foreign, sub, listSub, watching, overlap>>
  BY DEF Inject
<1>2. Shapes /\ clock \in Nat
  BY BoundsAssumption DEF IInv, Shapes
<1> DEFINE t == NextCreatedAt(clock)
<1>3. t \in Nat /\ clock <= t /\ Later(t)
  BY <1>2, NextIsLater
<1>4. PICK h \in Roots :
        /\ cache' \in {cache, Entry(h, t, 0)}
        /\ \/ lists' = lists
           \/ /\ listSub # 0 /\ ~Guarded(lists[listSub].entry, h, clock)
              /\ lists' = [lists EXCEPT ![listSub].entry = Entry(h, t, 0)]
  BY DEF Inject
<1> HIDE DEF t
<1>5. h \in Targets
  BY DEF Targets
<1>6. cache' \in Entries
  BY <1>2, <1>3, <1>4, <1>5, EntryFields DEF Shapes
<1>7. calls' \in [Publishes -> {Absent, Ended} \cup InFlight] /\ CallsAhead'
  BY <1>2, OvertakenCalls DEF IInv, Inject
<1>8. /\ lists' \in [ListObjs -> Shown] /\ \A l \in ListObjs : lists'[l].users \subseteq Listers
      /\ AllShow => \A l \in ListObjs : ListGoes(l)
  BY <1>2, <1>3, <1>4, <1>5, RegisteredTakes
<1>9. Shapes'
  BY <1>1, <1>2, <1>6, <1>7, <1>8 DEF Shapes
<1>10. ASSUME ~overlap' PROVE ~overlap /\ Goes
  BY <1>1, <1>2, <1>8, <1>10, SubKept DEF IInv, Goes
<1> QED  BY <1>7, <1>9, <1>10 DEF Kept

-----------------------------------------------------------------------------
(* Every step keeps the invariant and moves every view forward.            *)
LEMMA InitHolds == NamesInit => IInv
<1> SUFFICES ASSUME NamesInit PROVE IInv
  OBVIOUS
<1>1. Unknown \in Entries
  BY UnknownIsOldest
<1>2. NoList \in Shown /\ NoList.users = {} /\ NoList.seen = {}
  BY <1>1 DEF NoList, Shown
<1>3. Shapes
  <2>1. clock \in 0..MaxTime /\ foreign \in 0..MaxForeign
    BY BoundsAssumption DEF NamesInit
  <2>2. lists \in [ListObjs -> Shown] /\ \A l \in ListObjs : lists[l].users \subseteq Listers
    BY <1>2 DEF NamesInit
  <2>3. calls \in [Publishes -> {Absent, Ended} \cup InFlight]
    BY DEF NamesInit
  <2>4. /\ events = {} /\ sub = Absent /\ listSub = 0 /\ cache \in Entries /\ overlap = FALSE
    BY <1>1 DEF NamesInit
  <2> QED  BY <2>1, <2>2, <2>3, <2>4 DEF Shapes
<1>4. CallsAhead
  BY NamesAssumption DEF NamesInit, CallsAhead
<1>5. AllShow
  BY <1>2 DEF NamesInit, AllShow, ListShows
<1> QED  BY <1>3, <1>4, <1>5 DEF IInv

LEMMA NextKeeps == IInv /\ NamesNext => Kept
<1> SUFFICES ASSUME IInv, NamesNext PROVE Kept
  OBVIOUS
<1>1. CASE Tick
  BY <1>1, TickKeeps
<1>2. CASE Foreign
  BY <1>2, ForeignKeeps
<1>3. CASE StopAll
  BY <1>3, StopAllKeeps
<1>4. ASSUME NEW w \in Subscribers, Subscribe(w) \/ Unsubscribe(w) PROVE Kept
  BY <1>4, SubscribeKeeps, UnsubscribeKeeps
<1>5. ASSUME NEW w \in Listers, List(w) \/ Unlist(w) PROVE Kept
  BY <1>5, ListKeeps, UnlistKeeps
<1>6. ASSUME NEW e \in events, SubEvent(e) \/ \E l \in ListObjs : ListEvent(l, e) PROVE Kept
  BY <1>6, SubEventKeeps, ListEventKeeps
<1>7. ASSUME NEW c \in Publishes,
             PublishNow(c) \/ PublishEncrypts(c) \/ PublishEncrypted(c) \/ DeleteTree(c) \/ Inject(c)
      PROVE  Kept
  BY <1>7, PublishNowKeeps, PublishEncryptsKeeps, PublishEncryptedKeeps, DeleteKeeps, InjectKeeps
<1> QED  BY <1>1, <1>2, <1>3, <1>4, <1>5, <1>6, <1>7 DEF NamesNext

LEMMA KeptHolds == IInv /\ Kept => IInv'
<1> SUFFICES ASSUME IInv, Kept PROVE IInv'
  OBVIOUS
<1>1. ASSUME ~overlap' PROVE AllShow'
  <2>1. Goes
    BY <1>1 DEF Kept
  <2>2. sub' # Absent => SubShows(sub'.entry, sub'.seen)
    BY <2>1 DEF Goes, SubGoes, SubShows
  <2>3. ASSUME NEW l \in ListObjs PROVE ListShows(lists'[l].entry, lists'[l].seen)
    BY <2>1 DEF Goes, ListGoes, ListShows
  <2> QED  BY <2>2, <2>3 DEF AllShow
<1> QED  BY <1>1 DEF Kept, IInv

(* The invariant: every copy is typed, a call under way that nothing has   *)
(* overtaken is ahead of every copy, and every view shows the newest it    *)
(* was sent.                                                               *)
THEOREM InvariantHolds == NamesSpec => []IInv
<1>1. IInv /\ UNCHANGED namesVars => IInv'
  <2> SUFFICES ASSUME IInv, UNCHANGED namesVars PROVE IInv'
    OBVIOUS
  <2> QED  BY DEF namesVars, views, IInv, Shapes, CallsAhead, Ahead, Later, Known, AllShow
<1>2. IInv /\ [NamesNext]_namesVars => IInv'
  BY <1>1, NextKeeps, KeptHolds
<1> QED  BY <1>2, InitHolds, PTL DEF NamesSpec

(* In whatever order relays deliver and whatever is published, deleted,    *)
(* injected, opened and closed in between, an open subscription shows a    *)
(* root at least as new as every root it was sent, and an open list the    *)
(* newest that does not undo a deletion too soon.                          *)
THEOREM NewestAlwaysShown == NamesSpec => []NewestShown
<1>1. ASSUME IInv PROVE NewestShown
  <2>1. NamesTypeOK
    <3>1. \A x \in Entries : IsEntry(x)
      BY DEF Entries, IsEntry
    <3> QED  BY <1>1, <3>1 DEF IInv, Shapes, Shown, NamesTypeOK
  <2>2. ~overlap => SubShowsNewest /\ ListsShowNewest
    BY <1>1 DEF IInv, AllShow, SubShows, ListShows, SubShowsNewest, ListsShowNewest
  <2> QED  BY <2>1, <2>2 DEF NewestShown
<1> QED  BY <1>1, InvariantHolds, PTL

(* No view goes back to an older entry, so a deletion made here is not     *)
(* undone by what relays still send and what was published here is not     *)
(* hidden by it, unless a publish was overtaken while it encrypted.        *)
THEOREM ViewsNeverGoBack == NamesSpec => NeverBack
<1> DEFINE Forward ==
      /\ sub # Absent /\ sub' # Absent /\ ~overlap' => ~Newer(sub.entry, sub'.entry)
      /\ \A l \in ListObjs : lists[l] # NoList /\ lists'[l] # NoList /\ ~overlap'
           => ~Newer(lists[l].entry, lists'[l].entry)
<1>1. IInv /\ NamesNext => Forward
  <2> SUFFICES ASSUME IInv, NamesNext PROVE Forward
    OBVIOUS
  <2>1. Kept
    BY NextKeeps
  <2>2. ASSUME ~overlap' PROVE Goes
    BY <2>1, <2>2 DEF Kept
  <2> QED  BY <2>2 DEF Goes, SubGoes, ListGoes
<1>2. IInv /\ [NamesNext]_namesVars => [Forward]_namesVars
  BY <1>1
<1> QED  BY <1>2, InvariantHolds, PTL DEF NamesSpec, NeverBack
=============================================================================
