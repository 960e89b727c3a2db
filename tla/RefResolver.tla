----------------------------- MODULE RefResolver -----------------------------
(****************************************************************************)
(* The Nostr resolver (resolver/nostr.ts): which root a name stands for,    *)
(* as told by replaceable events.  It keeps three copies: the entry of the  *)
(* open subscription, the entry of each open list, and a cache that         *)
(* outlives both; each of its calls and each event updates some of them.    *)
(*                                                                          *)
(* One tree of one user is followed.  A root is a value, Deleted is an      *)
(* event without a hash.  Everything runs to its end at once but a publish  *)
(* that encrypts a key, which awaits that first, and the network.           *)
(****************************************************************************)
EXTENDS Integers, FiniteSets

CONSTANTS Roots,     \* roots a tree can have
          Deleted,   \* the empty hash of a deletion
          Absent, Ended,
          Subscribers, Listers, \* callers of subscribe and of list
          ListObjs,  \* bound: list subscriptions at a time, 1..n
          Publishes,     \* publish, delete and injectListEntry calls
          MaxTime,   \* bound: seconds that pass
          ForeignTimes, \* created_at of the events of other devices
          Window,    \* seconds within which a deletion is not undone
          MaxForeign \* bound: events other devices publish

VARIABLES
  clock,
  events,    \* what relays hold: every event published so far, old ones too
  foreign,   \* how many of them other devices made
  sub,       \* subscriptions.get(key), Absent without one
  lists,     \* list subscriptions, also those stop() has forgotten
  listSub,   \* listSubscriptions.get(npub): its number, 0 without one
  cache,     \* localListCache
  calls,     \* calls in flight
  watching,  \* what each watcher has open: the subscription (0), a list, or Absent
  overlap    \* history: a publish ended after something changed while it encrypted

namesVars == <<clock, events, foreign, sub, lists, listSub, cache, calls, watching, overlap>>
views == <<sub, lists, listSub, watching>>

Targets == Roots \cup {Deleted}
Watchers == Subscribers \cup Listers
EventIds == 1..(MaxForeign + Cardinality(Publishes))

\* compareReplaceableEventOrder: by time, then by id, where no id comes first.
Newer(a, b) == a.at > b.at \/ (a.at = b.at /\ a.id > b.id)
Entry(h, t, i) == [hash |-> h, at |-> t, id |-> i]
Entries == [hash : Targets \cup {Absent}, at : Nat, id : EventIds \cup {0}]
Unknown == Entry(Absent, 0, 0)
\* A subscription or list: its entry, its callbacks, and (history) what it was sent.
Shown == [entry : Entries, users : SUBSET Watchers, seen : SUBSET Entries]
InFlight == [hash : Roots, at : Nat, began : Nat, overtaken : BOOLEAN]
NoList == [entry |-> Unknown, users |-> {}, seen |-> {}]
FreshIds == EventIds \ {e.id : e \in events}

ASSUME BoundsAssumption ==
  /\ MaxTime \in Nat /\ MaxForeign \in Nat /\ Window \in Nat
  /\ ForeignTimes \subseteq Nat /\ IsFiniteSet(Publishes)
ASSUME NamesAssumption ==
  /\ Deleted \notin Roots /\ Absent # Deleted
  /\ Absent \notin Shown \cup InFlight /\ Ended \notin InFlight

NamesInit ==
  /\ clock = 0 /\ events = {} /\ foreign = 0
  /\ sub = Absent /\ listSub = 0 /\ cache = Unknown
  /\ lists = [l \in ListObjs |-> NoList]
  /\ calls = [c \in Publishes |-> Absent]
  /\ watching = [w \in Watchers |-> Absent]
  /\ overlap = FALSE

Tick == clock < MaxTime /\ clock' = clock + 1
        /\ UNCHANGED <<events, foreign, views, cache, calls, overlap>>

\* Another device of the same user, its clock maybe ahead of ours.
Foreign ==
  /\ foreign < MaxForeign
  /\ foreign' = foreign + 1
  /\ \E h \in Targets, t \in ForeignTimes, i \in FreshIds : events' = events \cup {Entry(h, t, i)}
  /\ UNCHANGED <<clock, views, cache, calls, overlap>>

\* Whatever changes an entry may overtake the publishes that encrypt meanwhile.
Overtake == [c \in Publishes |-> IF calls[c] \in {Absent, Ended} THEN calls[c]
                             ELSE [calls[c] EXCEPT !.overtaken = TRUE]]

-----------------------------------------------------------------------------
(* subscribe and list. *)

Subscribe(w) ==
  /\ watching[w] = Absent
  /\ watching' = [watching EXCEPT ![w] = 0]
  /\ sub' = IF sub # Absent THEN [sub EXCEPT !.users = @ \cup {w}]
            ELSE [entry |-> cache, users |-> {w}, seen |-> {}]
  /\ UNCHANGED <<clock, events, foreign, lists, listSub, cache, calls, overlap>>

\* The function subscribe returned: it finds the subscription by its key.
Unsubscribe(w) ==
  /\ watching[w] = 0
  /\ watching' = [watching EXCEPT ![w] = Absent]
  /\ sub' = IF sub = Absent THEN Absent
            ELSE IF sub.users \subseteq {w} THEN Absent ELSE [sub EXCEPT !.users = @ \ {w}]
  /\ UNCHANGED <<clock, events, foreign, lists, listSub, cache, calls, overlap>>

List(w) ==
  /\ watching[w] = Absent
  /\ IF listSub # 0
     THEN /\ lists' = [lists EXCEPT ![listSub].users = @ \cup {w}]
          /\ watching' = [watching EXCEPT ![w] = listSub]
          /\ UNCHANGED listSub
     ELSE \E l \in ListObjs :
            /\ lists[l] = NoList /\ \A k \in ListObjs : k < l => lists[k] # NoList
            /\ lists' = [lists EXCEPT ![l] = [entry |-> cache, users |-> {w}, seen |-> {}]]
            /\ watching' = [watching EXCEPT ![w] = l]
            /\ listSub' = l
  /\ UNCHANGED <<clock, events, foreign, sub, cache, calls, overlap>>

\* The function list returned holds on to its own list, but removes whichever
\* one is registered.
Unlist(w) ==
  /\ watching[w] \in ListObjs
  /\ LET l == watching[w]
         last == lists[l].users \subseteq {w} IN
     /\ lists' = [lists EXCEPT ![l] = IF last THEN NoList ELSE [lists[l] EXCEPT !.users = @ \ {w}]]
     /\ listSub' = IF last THEN 0 ELSE listSub
  /\ watching' = [watching EXCEPT ![w] = Absent]
  /\ UNCHANGED <<clock, events, foreign, sub, cache, calls, overlap>>

\* stop closes the subscription and forgets the list without closing it.
StopAll ==
  /\ sub' = Absent /\ listSub' = 0
  /\ UNCHANGED <<clock, events, foreign, lists, cache, calls, watching, overlap>>

-----------------------------------------------------------------------------
(* Events. *)

\* Slip: of the events of one second the last to arrive counts.
SubTakes_Latest(e) == e.hash # Deleted /\ e.at >= sub.entry.at
\* A deletion has no hash and is skipped; an event of the same order may bring
\* data that differs.
SubTakes(e) ==
  /\ e.hash # Deleted
  /\ Newer(e, sub.entry) \/ (~Newer(sub.entry, e) /\ e.hash # sub.entry.hash)

SubEvent(e) ==
  /\ sub # Absent
  /\ IF SubTakes(e)
     THEN /\ sub' = [sub EXCEPT !.entry = e, !.seen = @ \cup {e}]
          /\ cache' = e
          /\ calls' = Overtake
     ELSE /\ sub' = [sub EXCEPT !.seen = @ \cup {e}]
          /\ UNCHANGED <<cache, calls>>
  /\ UNCHANGED <<clock, events, foreign, lists, listSub, watching, overlap>>

\* A deletion is not undone by what is at most Window younger.
Guarded(entry, h, t) == entry.hash = Deleted /\ h # Deleted /\ t - entry.at < Window

ListTakes(entry, e) ==
  \/ entry = Unknown
  \/ ~Guarded(entry, e.hash, e.at) /\ ~Newer(entry, e) /\ ~(~Newer(e, entry) /\ entry.hash = e.hash)

ListEvent(l, e) ==
  /\ lists[l] # NoList
  /\ IF ListTakes(lists[l].entry, e)
     THEN /\ lists' = [lists EXCEPT ![l].entry = e, ![l].seen = @ \cup {e}]
          /\ cache' = e
          /\ calls' = Overtake
     ELSE /\ lists' = [lists EXCEPT ![l].seen = @ \cup {e}]
          /\ UNCHANGED <<cache, calls>>
  /\ UNCHANGED <<clock, events, foreign, sub, listSub, watching, overlap>>

-----------------------------------------------------------------------------
(* publish, delete, injectListEntry. *)

Known == {cache.at} \cup (IF sub = Absent THEN {} ELSE {sub.entry.at})
                    \cup (IF listSub = 0 THEN {} ELSE {lists[listSub].entry.at})
\* Slip: the clock alone dates a publish.
NextCreatedAt_Clock(minimum) == minimum
NextCreatedAt(minimum) ==
  LET latest == CHOOSE t \in Known : \A u \in Known : u <= t IN
  IF latest >= minimum THEN latest + 1 ELSE minimum

Sent(h, t) == \/ \E i \in FreshIds : events' = events \cup {Entry(h, t, i)}
              \/ UNCHANGED events

\* The synchronous end of publish: cache, subscription and registered list,
\* then the network.  began is the clock when the call was made.
Publish(c, h, t, began) ==
  /\ cache' = Entry(h, t, 0)
  /\ sub' = IF sub = Absent THEN Absent ELSE [sub EXCEPT !.entry = Entry(h, t, 0)]
  /\ lists' = IF listSub = 0 \/ Guarded(lists[listSub].entry, h, began) THEN lists
              ELSE [lists EXCEPT ![listSub].entry = Entry(h, t, 0)]
  /\ Sent(h, t)
  /\ calls' = [Overtake EXCEPT ![c] = Ended]
  /\ UNCHANGED <<clock, foreign, listSub, watching>>

PublishNow(c) ==
  /\ calls[c] = Absent
  /\ \E h \in Roots : Publish(c, h, NextCreatedAt(clock), clock)
  /\ UNCHANGED overlap

PublishEncrypts(c) ==
  /\ calls[c] = Absent
  /\ \E h \in Roots : calls' = [calls EXCEPT ![c] = [hash |-> h, at |-> NextCreatedAt(clock), began |-> clock, overtaken |-> FALSE]]
  /\ UNCHANGED <<clock, events, foreign, views, cache, overlap>>

PublishEncrypted(c) ==
  /\ calls[c] \notin {Absent, Ended}
  /\ Publish(c, calls[c].hash, calls[c].at, calls[c].began)
  /\ overlap' = (overlap \/ calls[c].overtaken)

DeleteTree(c) ==
  /\ calls[c] = Absent
  /\ LET e == Entry(Deleted, NextCreatedAt(clock + 1), 0) IN
     /\ cache' = e
     /\ sub' = IF sub = Absent THEN Absent ELSE [sub EXCEPT !.entry = [e EXCEPT !.hash = Absent]]
     /\ lists' = IF listSub = 0 THEN lists ELSE [lists EXCEPT ![listSub].entry = e]
     /\ Sent(Deleted, e.at)
  /\ calls' = [Overtake EXCEPT ![c] = Ended]
  /\ UNCHANGED <<clock, foreign, listSub, watching, overlap>>

Inject(c) ==
  /\ calls[c] = Absent
  /\ calls' = [Overtake EXCEPT ![c] = Ended]
  /\ \E h \in Roots :
       LET e == Entry(h, NextCreatedAt(clock), 0)
           Takes(x) == x = Unknown \/ ~Newer(x, e) IN
       IF Guarded(cache, h, clock) THEN UNCHANGED <<cache, lists>>
       ELSE /\ cache' = IF Takes(cache) THEN e ELSE cache
            /\ lists' = IF listSub # 0 /\ ~Guarded(lists[listSub].entry, h, clock) /\ Takes(lists[listSub].entry)
                        THEN [lists EXCEPT ![listSub].entry = e] ELSE lists
  /\ UNCHANGED <<clock, events, foreign, sub, listSub, watching, overlap>>

NamesNext ==
  \/ Tick \/ Foreign \/ StopAll
  \/ \E w \in Subscribers : Subscribe(w) \/ Unsubscribe(w)
  \/ \E w \in Listers : List(w) \/ Unlist(w)
  \/ \E e \in events : SubEvent(e) \/ \E l \in ListObjs : ListEvent(l, e)
  \/ \E c \in Publishes : PublishNow(c) \/ PublishEncrypts(c) \/ PublishEncrypted(c) \/ DeleteTree(c) \/ Inject(c)

NamesSpec == NamesInit /\ [][NamesNext]_namesVars

-----------------------------------------------------------------------------
(* Properties. *)

IsEntry(x) == x.hash \in Targets \cup {Absent} /\ x.at \in Nat /\ x.id \in EventIds \cup {0}

NamesTypeOK ==
  /\ clock \in 0..MaxTime /\ foreign \in 0..MaxForeign
  /\ \A e \in events : IsEntry(e) /\ e.id # 0
  /\ IsEntry(cache)
  /\ sub = Absent \/ (IsEntry(sub.entry) /\ sub.users # {} /\ sub.users \subseteq Watchers)
  /\ \A l \in ListObjs : IsEntry(lists[l].entry) /\ (lists[l].users \subseteq Listers)
  /\ listSub \in ListObjs \cup {0}

\* In whatever order relays deliver and whatever is published, deleted or
\* injected in between, an open subscription shows a root at least as new as
\* every root it was sent, and an open list the newest of what it was sent, but
\* for roots that would undo a deletion too soon (nostr.ts:440-466, 925-946).
SubShowsNewest ==
  sub # Absent => \A e \in sub.seen : e.hash # Deleted => ~Newer(e, sub.entry)
ListsShowNewest ==
  \A l \in ListObjs : lists[l] # NoList =>
    \A e \in lists[l].seen : ~Newer(e, lists[l].entry) \/ Guarded(lists[l].entry, e.hash, e.at)
NewestShown == NamesTypeOK /\ (~overlap => SubShowsNewest /\ ListsShowNewest)

\* No view goes back: what a subscription or list holds is replaced by newer
\* entries only, so a deletion made here is not undone by what relays still
\* send, and what was published here is not hidden by it; but for a publish
\* that chose its time before it awaited its encryption (nostr.ts:277-296, 632, 705).
NeverBack ==
  [][/\ sub # Absent /\ sub' # Absent /\ ~overlap' => ~Newer(sub.entry, sub'.entry)
     /\ \A l \in ListObjs : lists[l] # NoList /\ lists'[l] # NoList /\ ~overlap'
          => ~Newer(lists[l].entry, lists'[l].entry)]_namesVars
=============================================================================
