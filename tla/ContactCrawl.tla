---------------------------- MODULE ContactCrawl -----------------------------
(****************************************************************************)
(* packages/hashtree-worker/src/iris/worker.ts: the social graph of the     *)
(* iris worker.  It is loaded from IndexedDB after the worker has said it   *)
(* is ready, one user at a time, grows by the contact lists that arrive,    *)
(* asks for the lists of those the root follows, and is saved five seconds  *)
(* after the last change.                                                   *)
(*                                                                          *)
(* A user's list does not change; "known" are the users whose list the      *)
(* graph has.  Lists are short enough for one subscription each.  The code  *)
(* compares SocialGraph.size(), an object, with a number: both comparisons  *)
(* are false, so that there is no crawl of depth two and no limit.          *)
(****************************************************************************)
EXTENDS Naturals, FiniteSets, Sequences, SequencesExt

CONSTANTS Users,
          Bootstrap,    \* DEFAULT_BOOTSTRAP_PUBKEY
          FollowsOf,    \* the contact list of each user
          Saved,        \* what may be in the database: sets of users
          FewFollows,   \* a root with fewer also uses those of Bootstrap
          PageUsers,    \* users the page asks about
          NoOne,
          MaxSaves,     \* bound: saves at one time
          MaxCalls      \* bound: calls of the page

ASSUME GraphAssumption == Saved \subseteq SUBSET Users /\ PageUsers \subseteq Users

VARIABLES
  graphRoot, known,     \* socialGraph
  identity,             \* _config.pubkey
  database,
  rootPubkey,           \* of loadSocialGraph
  loader, toMerge,      \* how far it is, and whom it has still to merge
  dirty, timer, saves,  \* socialGraphDirty, its timeout, snapshots being written
  followsSet,
  subscribed,           \* subscribedPubkeys
  fetchedFollowers,     \* fetchedFollowersPubkeys
  latest,               \* socialGraphLatestByPubkey: whose list was handled
  refused,              \* history: whose list the graph then did not take
  subs,                 \* NDK subscriptions by id: the users they ask for
  calls,
  overtaken, failed,    \* history: a change came during a save; a load or save failed
  moved, replaced       \* history: the root changed, the graph was made anew

saveVars == <<database, dirty, timer, saves, overtaken, failed>>
loadVars == <<rootPubkey, loader, toMerge>>
crawlVars == <<subscribed, subs>>
graphVars == <<graphRoot, known, identity, saveVars, loadVars, followsSet, crawlVars, fetchedFollowers, latest,
          refused, calls, moved, replaced>>

FollowedBy(graph, u) == IF u \in graph THEN FollowsOf[u] ELSE {}
Loading == loader # "done"

\* Who has a follow distance in a graph.
Reached(root, graph) ==
  LET Within[n \in Nat] ==
        IF n = 0 THEN {root} ELSE Within[n - 1] \cup UNION {FollowedBy(graph, u) : u \in Within[n - 1]}
  IN Within[Cardinality(Users)]

-----------------------------------------------------------------------------
\* notifySocialGraphVersionUpdate.
Notify ==
  /\ dirty' = TRUE /\ timer' = TRUE
  /\ overtaken' = (overtaken \/ saves # <<>>)
  /\ UNCHANGED <<database, saves, failed>>

\* ndkSubscribe: a subscription of the same id is closed.
Subscribe(now, id, users) == [i \in DOMAIN now \cup {id} |-> IF i = id THEN users ELSE now[i]]

\* subscribeToFollowsContactLists, as a step from [subscribed, subs].
Crawl(state, users, graph) ==
  LET unasked == users \ state.subscribed
      missing == {u \in unasked : FollowedBy(graph, u) = {}}
  IN IF Loading THEN state
     ELSE [subscribed |-> state.subscribed \cup unasked,
           subs |-> IF missing = {} THEN state.subs ELSE Subscribe(state.subs, <<"depth1", NoOne>>, missing)]

Now == [subscribed |-> subscribed, subs |-> subs]

\* Who else is asked for when an event of u was handled.
Crawled(u, graph) ==
  LET follows == FollowedBy(graph, u)
      own == Crawl(Now, follows, graph)
  IN IF u # graphRoot THEN Now
     ELSE IF Cardinality(follows) < FewFollows /\ u # Bootstrap
     THEN Crawl(own, FollowedBy(graph, Bootstrap), graph) ELSE own

Handled(u) ==
  /\ followsSet' = IF u = graphRoot THEN FollowedBy(known', u) ELSE followsSet
  /\ subscribed' = Crawled(u, known').subscribed /\ subs' = Crawled(u, known').subs
  /\ Notify
  /\ UNCHANGED <<graphRoot, identity, loadVars, fetchedFollowers, calls, moved, replaced>>

\* Slip: a list is remembered as handled before the graph has it, when loading.
HandleSocialGraphEvent_Drops(u, dropped) ==
  /\ \E id \in DOMAIN subs : u \in subs[id]
  /\ u \notin latest /\ latest' = latest \cup {u}
  /\ known' = IF dropped \/ Loading THEN known ELSE known \cup {u}
  /\ refused' = IF dropped THEN refused \cup {u} ELSE refused
  /\ Handled(u)
\* handleSocialGraphEvent: a contact list that some subscription asks for.  It
\* counts as handled whether or not the graph takes it: it drops a list dated
\* ten minutes ahead, or of an author with more who mute than follow.
HandleSocialGraphEvent(u, dropped) ==
  /\ \E id \in DOMAIN subs : u \in subs[id]
  /\ u \notin latest /\ latest' = latest \cup {u}
  /\ known' = IF dropped THEN known ELSE known \cup {u}
  /\ refused' = IF dropped THEN refused \cup {u} ELSE refused
  /\ Handled(u)

-----------------------------------------------------------------------------
(* Loading and saving.                                                      *)

\* setupSocialGraphSubscription, once the graph is loaded, for who the user
\* is by then.
Setup ==
  LET authors == {identity, Bootstrap} IN
  IF FollowedBy(known, identity) = {}
  THEN subscribed' = authors /\ subs' = Subscribe(subs, <<"contacts", NoOne>>, authors)
  ELSE subscribed' = {identity} /\ UNCHANGED subs

loadKeeps == <<graphRoot, known, identity, rootPubkey, followsSet, fetchedFollowers, latest, refused, calls, moved, replaced>>

\* There was nothing to load, or it could not be read.
LoadsNothing(ok) ==
  /\ loader' = "done" /\ Setup
  /\ failed' = (failed \/ ~ok)
  /\ UNCHANGED <<database, dirty, timer, saves, overtaken, toMerge>>

\* loadSocialGraph has read the row; an empty graph may be in one or in none.
\* What will be merged are the users with a distance from the root it was
\* called with.
LoadReads(ok, row) ==
  /\ loader = "reading" /\ UNCHANGED loadKeeps
  /\ row \/ ~ok \/ database = {}
  /\ IF ok /\ row
     THEN /\ loader' = "decoding" /\ toMerge' = database \cap Reached(rootPubkey, database)
          /\ UNCHANGED <<saveVars, crawlVars>>
     ELSE LoadsNothing(ok)

\* SocialGraph.fromBinary, and the graph of the moment begins to merge.
LoadDecodes(ok) ==
  /\ loader = "decoding" /\ UNCHANGED loadKeeps
  /\ IF ok THEN loader' = "merging" /\ UNCHANGED <<toMerge, saveVars, crawlVars>> ELSE LoadsNothing(FALSE)

\* processNextUser, in a timeout of its own.
MergeUser(u) ==
  /\ loader = "merging" /\ u \in toMerge
  /\ known' = known \cup {u} /\ toMerge' = toMerge \ {u}
  /\ UNCHANGED <<graphRoot, identity, rootPubkey, loader, saveVars, followsSet, crawlVars, fetchedFollowers, latest,
                 refused, calls, moved, replaced>>

\* Slip: nobody is told of what was loaded.
LoadEnds_Silent ==
  /\ loader = "merging" /\ toMerge = {} /\ UNCHANGED loadKeeps
  /\ loader' = "done" /\ Setup
  /\ UNCHANGED <<toMerge, saveVars>>
\* All are merged: handleInit goes on.
LoadEnds ==
  /\ loader = "merging" /\ toMerge = {} /\ UNCHANGED loadKeeps
  /\ loader' = "done" /\ Setup
  /\ Notify /\ UNCHANGED toMerge

\* The timer fires: saveSocialGraph up to its first await.
SaveBegins ==
  /\ timer /\ timer' = FALSE
  /\ dirty => Len(saves) < MaxSaves
  /\ saves' = IF dirty THEN Append(saves, known) ELSE saves
  /\ UNCHANGED <<graphRoot, known, identity, database, loadVars, dirty, followsSet, crawlVars, fetchedFollowers,
                 latest, refused, calls, overtaken, failed, moved, replaced>>

\* Slip: a save that fails counts as one.
SaveEnds_Forgives(i, ok) ==
  /\ saves' = RemoveAt(saves, i)
  /\ database' = IF ok THEN saves[i] ELSE database
  /\ dirty' = FALSE
  /\ UNCHANGED <<graphRoot, known, identity, loadVars, timer, followsSet, crawlVars, fetchedFollowers, latest,
                 refused, calls, overtaken, failed, moved, replaced>>

\* A snapshot is in the database, or the write has failed.
SaveEnds(i, ok) ==
  /\ saves' = RemoveAt(saves, i)
  /\ \/ ok /\ database' = saves[i] /\ dirty' = FALSE /\ UNCHANGED failed
     \/ ~ok /\ failed' = TRUE /\ UNCHANGED <<database, dirty>>
  /\ UNCHANGED <<graphRoot, known, identity, loadVars, timer, followsSet, crawlVars, fetchedFollowers, latest,
                 refused, calls, overtaken, moved, replaced>>

-----------------------------------------------------------------------------
(* Calls of the page.                                                       *)
Call == calls < MaxCalls /\ calls' = calls + 1

\* handleSetIdentity, which leaves followsSet and the subscriptions as they are.
SetIdentity(u) ==
  /\ Call
  /\ graphRoot' = u /\ identity' = u /\ moved' = (moved \/ u # graphRoot)
  /\ Notify
  /\ UNCHANGED <<known, loadVars, followsSet, crawlVars, fetchedFollowers, latest, refused, replaced>>

SetSocialGraphRoot(u) ==
  /\ Call
  /\ graphRoot' = u /\ moved' = (moved \/ u # graphRoot)
  /\ followsSet' = FollowedBy(known, u)
  /\ Notify
  /\ UNCHANGED <<known, identity, loadVars, crawlVars, fetchedFollowers, latest, refused, replaced>>

\* handleInitSocialGraph with a root: the graph is empty again, and what was
\* being merged goes on into the old one.
InitSocialGraph(u) ==
  /\ Call
  /\ graphRoot' = u /\ known' = {} /\ moved' = (moved \/ u # graphRoot) /\ replaced' = TRUE
  /\ toMerge' = IF loader = "merging" THEN {} ELSE toMerge
  /\ UNCHANGED <<identity, rootPubkey, loader, saveVars, followsSet, crawlVars, fetchedFollowers, latest, refused>>

\* handleSocialGraphEvents: a list the page has, which the graph may drop.
SocialGraphEvents(u, dropped) ==
  /\ Call
  /\ known' = IF dropped THEN known ELSE known \cup {u}
  /\ Notify
  /\ UNCHANGED <<graphRoot, identity, loadVars, followsSet, crawlVars, fetchedFollowers, latest, refused, moved, replaced>>

FetchUserFollows(u) ==
  /\ Call
  /\ IF u \in known \cup subscribed THEN UNCHANGED crawlVars
     ELSE subscribed' = subscribed \cup {u} /\ subs' = Subscribe(subs, <<"profile", u>>, {u})
  /\ UNCHANGED <<graphRoot, known, identity, saveVars, loadVars, followsSet, fetchedFollowers, latest, refused, moved, replaced>>

FetchUserFollowers(u) ==
  /\ Call
  /\ IF u \in fetchedFollowers \/ Cardinality({v \in known : u \in FollowsOf[v]}) > 10
     THEN UNCHANGED <<fetchedFollowers, subs>>
     ELSE /\ fetchedFollowers' = fetchedFollowers \cup {u}
          /\ subs' = Subscribe(subs, <<"followers", u>>, {v \in Users : u \in FollowsOf[v]})
  /\ UNCHANGED <<graphRoot, known, identity, saveVars, loadVars, followsSet, subscribed, latest, refused, moved, replaced>>

-----------------------------------------------------------------------------
GraphInit ==
  /\ graphRoot \in PageUsers /\ known = {} /\ database \in Saved
  /\ identity = graphRoot /\ rootPubkey = graphRoot /\ loader = "reading" /\ toMerge = {}
  /\ dirty = FALSE /\ timer = FALSE /\ saves = <<>>
  /\ followsSet = {} /\ subscribed = {} /\ fetchedFollowers = {} /\ latest = {} /\ refused = {}
  /\ subs = [id \in {} |-> {}] /\ calls = 0
  /\ overtaken = FALSE /\ failed = FALSE /\ moved = FALSE /\ replaced = FALSE

Load ==
  \/ \E ok \in BOOLEAN : LoadDecodes(ok) \/ \E row \in BOOLEAN : LoadReads(ok, row)
  \/ \E u \in toMerge : MergeUser(u)
  \/ LoadEnds
Save == \E ok \in BOOLEAN, i \in 1..Len(saves) : SaveEnds(i, ok)

GraphNext ==
  \/ \E u \in Users, dropped \in BOOLEAN : HandleSocialGraphEvent(u, dropped)
  \/ Load \/ SaveBegins \/ Save
  \/ \E u \in PageUsers :
       \/ SetIdentity(u) \/ SetSocialGraphRoot(u) \/ InitSocialGraph(u)
       \/ \E dropped \in BOOLEAN : SocialGraphEvents(u, dropped)
       \/ FetchUserFollows(u) \/ FetchUserFollowers(u)

GraphSpec == GraphInit /\ [][GraphNext]_graphVars

\* The database answers, and timers fire.
GraphFairness == WF_graphVars(Load) /\ WF_graphVars(SaveBegins) /\ WF_graphVars(Save)

-----------------------------------------------------------------------------
(* Unless a change came while an older state was being written, or a write  *)
(* or the load failed, a save is always on its way when memory is ahead of  *)
(* the database, once the load is over, during which saves write what was   *)
(* merged so far.  The graph may be replaced without a save.                *)
SavePending ==
  ~(overtaken \/ failed \/ replaced \/ Loading \/ known = database) => timer \/ saves # <<>>

(* A list that was handled, and will not be handled again, is in the graph, *)
(* however saves, merging and calls of the page came between, unless the    *)
(* graph did not take it.                                                   *)
HandledIsKnown == ~replaced => latest \ refused \subseteq known

(* As long as the root is the one the worker began with, its own list is    *)
(* known or asked for.                                                      *)
RootAsked ==
  ~(moved \/ replaced \/ Loading) => graphRoot \in known \/ \E id \in DOMAIN subs : graphRoot \in subs[id]

GraphSound == SavePending /\ HandledIsKnown /\ RootAsked

(* Every change gets into the database, five seconds after the last one.    *)
GraphSaved == []<>(known = database \/ overtaken \/ failed \/ replaced)
==============================================================================
