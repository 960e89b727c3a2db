# hashtree-cc: a verification development

This directory holds TLA+ models of hashtree-cc, the TLC runs that check them on
small instances, and TLAPS proofs of their central properties. Everything here
is translated from the TypeScript under `src/`; paths below are relative to it,
and `PROJECT.json` gives the lines behind every definition.

## 1. The system

hashtree-cc stores files as trees of content-addressed blocks and moves the
blocks between browsers. A browser tab runs an *app*, a *worker* behind a
message channel, a *mesh node* that asks other browsers for blocks over WebRTC
data channels, a *block store* in IndexedDB, and a *client* for HTTP block
servers (Blossom). Mutable references, which tree is the current one, travel as
replaceable Nostr events. A second implementation of the mesh, with pools and
fragment reassembly, lives in the Nostr package.

Everything is JavaScript. Code between two awaits, callbacks or messages is
atomic; whatever lies on both sides of one interleaves with every other call.
All hard behaviour of the system comes from that, from relays and channels that
lose, repeat and reorder, and from pages that vanish at any moment.

| part | source | state | operations | talks to | what is hard | correct means |
|---|---|---|---|---|---|---|
| query forwarding machine | `hashtree-worker/src/p2p/queryForwardingMachine.ts` | who waits for which hash, a timeout per hash, a limiter per peer | begin, resolve, cancel, timeout, removePeer, stop | the mesh node | two indexes and a timer table kept in step by six operations | nobody is dropped in silence, nobody waits for ever, limits are exact |
| mesh node, data plane | `.../p2p/webrtcController.ts` | per peer: pending entry, mark, deferred queue; recent own requests | request, response, late response, get, buffer high and low, close | machine, local store, proxy | store reads and digests in flight while peers leave, return, answer late | only verified content stored; answered at most as often as asked; queues bounded and drained |
| mesh node, control plane | same file, `webrtcProxy.ts` | a record per peer; the proxy's connections | hello, offer, answer, state changes, close | relays, proxy, browser | two queues, two machines, lost and replayed messages, reports of old connections | both halves agree; pairs connect |
| requests to a peer | `hashtree-nostr/src/webrtc/peer.ts` | entry, joined callers, timeouts, fragments | request, whole and fragmented answer, two timeouts, cleanup, close | data channel, digest | fragments of several answers mixed; callers sharing an entry that ends in four ways | every caller released, with one answer |
| tree roots | `hashtree-worker/src/iris/treeRootCache.ts`, `treeRootSubscription.ts` | newest root in memory and on disk, shared lookup | get, set, merge key, remove, resolve | Nostr, block store | decisions on a record read before an await | an applied root is not lost to an older one |
| block store | `hashtree-dexie/src/index.ts`, `capabilities/idbStorage.ts` | blobs, access rows, noted uses, eviction schedule | get, put, delete, clear, flush, evict | IndexedDB | batches, evictions and writes overlap; restarts | every blob evictable; LRU order; limit enforced |
| worker and its client | `client.ts`, `worker.ts` | pending calls with timeouts, the init promise, the worker's storage, its allowlist for peers, reverse fetches | init, request, close, p2pFetch, putBlob, getBlob | app, stores, mesh | init and close overlap each other and running requests; a read crosses a change of storage | each call ends; answers were compared with their digest; peers get encrypted uploads only |
| send queue | `webrtcProxy.ts` 300-364, `boundedQueue.ts` | bounded queue, sending flag, marks | send, drain, cleanup | data channel, worker | a throwing send, marks against backpressure | what is queued is sent once, in order, or dropped; nothing is stuck |
| layered store | `hashtree/src/store/fallback.ts` | the read in flight per hash | get, put, has, delete, add and remove a fallback | other stores | races against timeouts, answers later than them | one read is shared; every get returns |
| Blossom client | `hashtree/src/store/blossom.ts` | write queue, backoff per server, attempts per hash | put, get, has, delete | HTTP servers | failures of some servers, a queue behind them | a put that resolves says what is true; each is answered in its turn |
| WebRTC store, peering | `hashtree-nostr/src/webrtc/store.ts`, `peer.ts` | Peers by id, their connection, relays | hello, offer, answer, replace, cleanup, stop | relays, browser | both offer at once, close reports of a replaced Peer | the Map holds exactly the live Peers; attempts end |
| WebRTC store, reads | `webrtc/store.ts` | fetches by hash, waiting lists by array | get, waves, fallback stores, tryPendingReqs | peers, stores | lists read before an await, peers that connect meanwhile | no connecting peer is missed; each read returns |
| resolver | `resolver/nostr.ts` | an entry of the subscription, one per list, a cache | subscribe, list, publish, delete, inject, stop | relays | old, equal and repeated events in any order; a time chosen before an await | the newest is shown, no view goes back |
| trees | `hashtree/src/tree/*`, `builder.ts`, `streaming.ts`, `encrypted.ts`, `hashtree.ts` | none but a stream's buffer | build, append, read, patch; set, remove, rename, move; push, pull | stores | ranges at chunk edges, two ideas of a link's size, a push whose walker and uploaders wait for each other | equal to the naive definition; push returns |
| search index | `hashtree-index/src/*` | none | insert, delete, search | trees | splits and emptied nodes, two orders of keys | what was entered is found |
| app, service worker | `apps/hashtree-cc/src/sw.ts`, `lib/swInit.ts`, `lib/mediaStreaming*.ts`, `capabilities/mediaStreaming.ts` | requests under way, port, setup promise, controller | fetch, setup, update | worker, page | restarts, updates, late messages | bodies are what their headers promise; updates spare downloads |
| Iris worker, media | `hashtree-worker/src/iris/mediaHandler.ts`, `treeRootSubscription.ts` | waits for roots, live streams, cancelled ones | requests by hash, by path, of the service worker; poll, cancel | page, service worker, relays | the root may come between the look and the wait; the file grows while it is read | each request gets its bytes in order, and ends |
| Iris worker, social graph | `hashtree-worker/src/iris/worker.ts` 375-447, 871-930, 1499-1827 | graph, dirty mark, save timer, who was subscribed to | load, save, contact lists, calls of the page | NDK, IndexedDB | lists come while the saved graph is merged user by user, and are refused; changes come while it is written | no list is lost, each change is saved |
| UI, vendored forks | `apps/`, `packages/ndk*`, `nostr-social-graph` | configuration | wiring | all | | see section 7 |

`PROJECT.json` lists every component with its status, and under `hazards` what
can go wrong in each at the line where it would.

## 2. Modules

Each component has one module. A step is what the code does between two awaits,
timers or messages, with every call it makes on the way; calls that span several
are little processes with a program counter. Pure algorithms are operators, and
what they compute is compared with the naive definition in every state reached.

| module | models | how state and actions correspond |
|---|---|---|
| `RequestCoalescing` | what the forwarding machine promises | a set of (hash, peer) pairs; peers join one at a time and go with their hash, alone, or all together |
| `QueryForwarding` | the machine | the three Maps and the timers are variables of the same names; one action per public method plus the timer callback and the passage of time; limiter timestamps are ages cut off at the window |
| `MeshNode` | data plane of the controller | uses `RequestCoalescing` for the machine; follows one hash; `Conns` are WorkerPeer objects, so that a peer that returns under its id is a new object beside the old one; requests, responses and gets have a program counter; a read of the store or a put into it may reject, and `broken` are the connections whose drain loop ended with it; a late response notes who was marked when it arrived |
| `PeerSignaling` | control plane and proxy, on both sides of a pair | records, connections, the two queues between controller and proxy, and the relays; `Wiring` chooses plain calls (hashtree.cc) or posted messages (iris) |
| `PeerRequests` | our requests in `peer.ts` | the entry and the chain of wrapped resolve functions are named by the caller that made them; fragments carry index and whether they are good |
| `StorePeering` | how stores of the Nostr package find each other | a Peer is a number with its place in the negotiation; messages are a set and may arrive late, in any order, or never; relay changes and stops close Peers |
| `PendingReads` | reads of that store | a get is a process through local store, waves, fallbacks and waiting; waiting lists are keyed by the array a read was called with, and scans hold them across their awaits |
| `TreeRootCache` | root cache and lookup | every call is a frame that reads, fills, decides, persists; memory and disk are single records of one tree |
| `RefResolver` | Nostr resolver | the subscription's entry, the lists' entries and the cache are separate; events carry second and id; a publish that encrypts its key is the one call that spans an await |
| `BlobStore` | Dexie store and eviction schedule | the two tables, the Map of noted uses, the flush promise and its timer, frames for calls |
| `FallbackStore` | layered store | reads of one hash are numbered; each reader waits for one of them; a fallback's answer, timeout and late answer are actions |
| `BlossomStore` | Blossom client | the head of the queue is the running put; each server answers a look or an upload in one of five ways; a put may throw before it uploads |
| `WorkerRpc` | client and worker | two queues of messages between two threads; every call, init and close is a process; the worker's jobs go on across a change of its storage |
| `SendQueue` | queue of a data channel | `drainQueue` is an operator over the queue and the channel's buffer, run by `sendData` and by low-buffer events |
| `BTree`, `SearchIndex` | the index | insert, split, remove, traverse, range, search are recursive operators; a variable holds the tree and another the map it should be; keys are numbers, which `<` compares, and `Collation` is how localeCompare puts them |
| `FileTree` | files | the chunker, the tree and the stream writer; reads of all kinds are operators over the tree, patches and appends are actions |
| `DirTree` | directories | edits of both kinds (`edit.ts`, `editEncrypted.ts`) against a flat set of paths |
| `TreePush` | push and pull | walker and consumer with the promise each resolves for the other |
| `LiveMedia` | media requests of the Iris worker | roots and sizes are numbers; a request goes from place to place, each step one await; a tick is one interval of the poll |
| `ContactCrawl` | its social graph | a user's contact list is fixed; the graph is the set of users whose list it has; the load goes from reading the row over decoding to merging one user a step; an event is recorded as handled and then taken or dropped; saves under way hold the snapshot they write |
| `MediaStreaming` | page, service worker and worker | fetches, the setup handshake with its port, the update of the service worker; a file is the sequence of the ends of its chunks, and the worker reads and posts it one chunk a step |

`MeshNode` composes with the machine through the abstract module: `QueryForwarding`
is proved to implement `RequestCoalescing`, and `MeshNode` only uses
`RequestCoalescing`'s actions. `SearchIndex` stands on `BTree`. `PendingReads`
takes from `PeerRequests` that a request may never be answered, which is finding 1.

Eight modules hold the theorems. `BlobStore_proofs`, `MeshNode_proofs`,
`PeerSignaling_proofs` and `RefResolver_proofs` are about the module they are named
after; the others are about the components that live together: `Stores_proofs` about
`QueryForwarding`, `FallbackStore`, `BlossomStore` and `TreePush`,
`WebRTCStore_proofs` about `PeerRequests`, `StorePeering` and `PendingReads`,
`PageWorkers_proofs` about `WorkerRpc` and `MediaStreaming`, `Iris_proofs` about
`TreeRootCache`, `LiveMedia` and `ContactCrawl`.

`MC*` modules give the constants values. Several components share a run: `MCStores`,
`MCStorage`, `MCPeers`, `MCPage` and `MCIris` extend every module that theorems are about, so
that run and theorem speak of the same definitions, and instantiate the others
(`SendQueue`, `SearchIndex`, `FileTree`, `DirTree`). They choose
in the initial state, with the variable `part`, which component moves;
the others stay as they begin, so that each behaviour is one component's and a
property of one component holds of the whole run exactly if it holds of that
component. Where an action is enabled from the start, its fairness is asked only of
behaviours of its own part. `MCMeshNode` chooses with `scenario` between three workloads of one
module in the same way.

Data is abstracted to what the properties tell apart: content is good or bad, a
hash is a value or the content itself, sizes are one or two units, keys are "the
key of this root", a byte of a file is a number.

## 3. Runs

| run | instance | what it shows |
|---|---|---|
| `mesh` | 2 ids, one of which may reconnect as a new object; up to 3 requests, a get, a response; queue limit 2 | `NothingStranded`: entries keep a timeout and deferred requests a loop, though both are overwritten, paused and resumed midway. `AnswersWereAsked`. `SettledTogether`: marks and waiting end together. `MarkedAreServed`: who was marked when content arrived and still is when it is stored gets it once. Reads and puts of the store may reject |
| `signaling_early` (violation) | posted messages, 1 fault | the late "closed" of an old connection deletes the new record |
| `peers` | requests: 3 callers, 2 answers in 1 to 3 fragments. Peering: 2 stores, 3 Peers, 2 hellos. Reads: 2 reads of a hash, 2 peers | `Bookkeeping`, `CallersServed` of requests; `PeersAreLive`: the Map has the live Peers, within the pool's limit. `ReadsSound`: a waiting read misses no peer, and gets what it asked for. `PeersSettle`: requests are answered, attempts decided, and reads return |
| `peer_joined` (violation) | 2 callers | a joined caller is never resolved when the request times out |
| `peering_glare` (violation) | 2 stores that both offer | the collision nobody resolves |
| `roots_older_wins` (violation) | 2 overlapping sets | the older event replaces the newer |
| `storage` | blobs: 3 of which not all fit, 4 calls, restarts. Index: order 2, 3 terms, 2 items. Files: 6 bytes, chunks of 2, 2 patches. Directories: depth 3, 4 entries. Resolver: a subscriber, a list, 2 publishes, an event of another device | `StoreSound`: every blob can be evicted, noted uses are kept, one eviction runs. `EvictionFreesEnough`: it removes what it set out to remove. `LeastRecentlyUsedFirst`: what goes was not used since it was listed, and nothing stays that was used before it. `IndexSound`; `FilesSound`; `EditsExact`. `NewestShown`: an open view has the newest root it was sent. `NeverBack`: no view goes back to an older one |
| `index_order` (violation) | 2 terms whose keys localeCompare and `<` order differently, 2 items, one leaf | an item is not found by its own term |
| `write_at` (violation) | an encrypted file of several chunks | a patch lands at the wrong place |
| `stores` | machine: 2 hashes, 2 peers, limits of 2. Fallback: 2 stores, 2 readers, 2 reads. Blossom: 2 servers, 3 puts, 1 get. Channel: 6 items, queue of 4. Push: 5 blocks, one linked twice, queue of 2 | `Safety`: indexes, timers and limiter agree. `RefusedOnlyWhenSpent`: nobody is refused early. `ImplementsCoalescing`: the machine implements `RequestCoalescing`. `EveryWaiterReleased`. `ReadsShared`: gets that miss share a read. `PutsAreTrue`: a put that resolves says what is true. `QueueDelivers`: what is queued is sent once, in order, or dropped. `PushComplete`: a block is uploaded once, and a push that returns has accounted for every block. `StoresSettle`: gets and pushes return, puts are answered |
| `page` | signaling: 2 nodes, plain calls, 2 faults, 5 connections. Worker: a close and two other calls, 2 workers. Media: a download, a head request, reads of ranges of 3 chunks, one restart, one update | `HalvesAgree`: controller and proxy agree, no old report is taken for new, one initiator. `RequestsInTime`: offers and answers are asked for when they can be made. `NodesConnect`, without faults. `CallsSound`: answers were compared with their digest, peers get encrypted uploads only, who waits is known; `ClosesOwnWorker`: a close ends the worker it was called for. `ReaderSound`: each fetch has its entry, its port and its setup; `BodiesExact`: bodies are what their headers promise. `UpdatesSpareDownloads`. `PageSettles`: calls and fetches end |
| `iris` | cache: 3 calls of any kind, 4 events, 2 roots, evictions, restarts. Media: a request by path beside one by hash or of the service worker, 2 roots, timeouts of 1 tick. Graph: 4 users, 3 databases, a call of the page, 2 saves at a time | `RootsAgree`: keys belong to their hashes and one lookup serves all who wait. `RootsKept`: an acknowledged root is not lost, memory is what the store has. `LiveSound`: no request waits for a root that is there, each gets its bytes in order and, when it ends, all of them. `GraphSound`: no handled contact list that the graph took is lost, a save is on its way while memory is ahead of the database. `IrisSettles`: requests end and changes are saved |

**Bounds.** Each is the least at which the interesting case happens. Two
requesters are needed to share a forward, and two hashes to share a requester.
A third request makes a queue of two overflow. Two connection objects under one
id make a stale report possible. Three callers give an entry with a joined
caller and a fresh entry while the first answer is still being checked. Two
answers and a longer bad one mix fragments with different counts. Three blobs
of one and two units make an eviction remove one and keep one. Three Peers are
an attempt, the one that replaces it, and the other side's. Two reads of one
hash, by one array or by two, and two peers are what it takes to join a fetch,
to miss a peer and to orphan a list. Three puts over two servers with at most
two attempts per hash reach the refusal and a put queued behind a failing one.
Six items of one or two units overflow a queue of four items and of five units.
A push queue of two with five blocks blocks the walker and starves the uploader.
A close, a call that runs across it and a second close or init need two workers.
An order of two makes every index split twice with three keys and empty inner
nodes on removal. Three chunks of which the last is short have every kind of
range end. Two roots make a file grow, or appear, while it is read and a root
come while it is waited for. Four users are a root, the bootstrap user, a friend and
a friend's friend; one database has a user the root does not reach, whom the merge
leaves out; two saves overlap. A download beside a second request and an update are the case
that the idle check is for; ranges are read apart from downloads (`MediaWithin`).

Faults and connections in `PeerSignaling` are budgets; the liveness property is
about behaviours that use no fault, and the bound of five connections leaves it
room. `MCStorage` follows an index up to three levels and lets one entry of a directory
at a time have metadata; it does not follow an index after the removal that lowers a
name, directories after an edit that could not read one, or names after a publish was
overtaken, where the properties say nothing any more (`Followed`, see section 6). It
begins the numbered calls of the store and publishes of the resolver in their order
(`InOrder`), which tells apart nothing, as they are alike. `BlossomWithin` keeps the
lookups before large uploads apart from has and delete. Runs with `CHECK_DEADLOCK FALSE`
have a finite supply of calls, after which the system may stop. Symmetry is used in
`mesh` and `roots_older_wins`, which have no liveness property.

**Fairness.** It is what the event loop, a timer or the platform gives, and no
peer, server or relay is trusted with more.

| module | assumed | not assumed |
|---|---|---|
| `QueryForwarding` | time passes, due timers run | that anybody answers |
| `PeerRequests` | both timeouts and the digest call back | answers, fragments |
| `PeerSignaling` | queues are drained, browsers go on with their operations, relays deliver what they do not lose, hellos recur as the controller's interval sends them | that nothing is lost: the property asks for no fault instead |
| `StorePeering` | a Peer's own steps end, its connection fails or the cleanup interval finds it stale | delivery of messages, success |
| `PendingReads` | stores answer and the read's timers fire | that a peer answers, ever |
| `FallbackStore` | the primary store answers, timeouts fire | that a fallback answers |
| `BlossomStore` | a server answers or its request is aborted | that it answers well |
| `SendQueue` | the channel transmits its buffer and reports it low | that a send succeeds |
| `TreePush` | stores answer the reads and puts | that they have the block |
| `WorkerRpc` | timeouts fire and settled promises are followed up | that the worker handles a message |
| `MediaStreaming` | the inactivity timeout | any message |
| `LiveMedia` | promises settle, timers fire; the new bytes of a live file can be read at some time | that relays answer, that pages cancel |
| `ContactCrawl` | the database answers, the save timer fires | that a contact list comes, that a write succeeds |

A call is made once in these models, so calls are finitely many and "every call
ends" is stated as: again and again none is under way.

## 4. Findings

* `peer.ts:539` (`peer_joined`): the timeout set in `request` resolves its own
  promise only. A caller that joined (524-528) stays pending; the loops of
  `store.ts` that await it stop there.
* `treeRootCache.ts:189` (`roots_older_wins`): memory is set without comparing
  again after the await at 162, so overlapping events can leave the older root;
  the test at `treeRootSubscription.test.ts:106` has only the sequential case.
* `webrtcController.ts:586` (`signaling_early`): `rtc:peerClosed` deletes
  whatever record is there, also that of a newer connection.
* `store.ts:656` (`peering_glare`): when both users offer at once, each closes
  its own Peer for the other's offer, and the collision branch of `peer.ts` is
  never reached.
* `writeAt.ts:256` (`write_at`): patching takes the plaintext sizes in the links
  of an encrypted file for ciphertext sizes.
* `btree.ts:526` (`index_order`): entries are sorted by localeCompare (426-430), while
  descent (418) and ranges (525-526, 537-540) compare by `<`. A search stops at the
  first entry past its end by `<`, though what it looks for comes after it: with
  `école:b` and `film:a` in one leaf, `film` finds nothing. Capitals, accents, and a
  term followed by a digit (`video:a`, `video2:a`) make such keys.

## 5. Proofs

All theorems hold for every value of the constants, under the named assumptions
of the modules. These say that times, limits and sizes are natural numbers, that
calls, peers and hashes are finitely many where they are counted, that contents have at most
`MaxParts` parts, that the events given to the cache fit their hashes, that a push has a
root among its blocks, that the ends of a file's chunks do not go back, that what the database holds at the start are sets of users, and
that `None`, `Nil`, `Absent` and their like are no caller, record or connection. TLC
evaluates them all in the runs. Only `PlainCalls`, below, is a hypothesis of theorems instead.

The plan is the same for each component: an inductive invariant that
implies the property, a lemma per action that the invariant is kept, and the theorems
that take the property from it. Each invariant was checked by TLC on the instance
of a run before it was proved. None of the properties is inductive alone. Below, the
invariant of each, and why its parts are needed.

**QueryForwarding.** `TypeOK /\ IndexAgrees /\ OneTimerPerForward`.
`removePeer` finds a peer's forwards only through its index entry, so the
timers stay matched only if the indexes agree; a timeout knows its hash only, so
that what it clears is its own forward needs the timers matched. Under the invariant
it is proved what each operation does to the requesters of
every hash, and from that come the refinement (`MachineCoalesces`, which states
`ImplementsCoalescing`) and `WaitersAreNamed`. `LimiterOrdered` and what dropping the
expired prefix leaves give that a refusal is earned (`RefusalsEarned` for
`RefusedOnlyWhenSpent`); `TablesAgree` joins all parts of `Safety`. With this every
property of the machine is proved but the liveness one.

**MeshNode.** Four parts that hardly touch. `NetOK`: what the node knows of its
peers. `EntriesOK`: an entry of an open connection has its owner's timeout, also after another owner
took the entry over. `RequestsOK`: a queue holds each deferred request of its
peer once, within the limit, and where the peer is not paused a request of its own
drain loop is being read, so that a loop that loses its peer to a pause in the middle
is known again at the next low buffer, unless a read rejected in the last loop (`broken`). `AccountOK`: answers sent plus marks left are no more
than the requests that are over, counted per id and not per connection, since a peer that
returns under its id takes its answers with it; a read that rejects only loses an answer. From these come all four
properties of the run: `NothingIsStranded`, `AnswersAreAsked`,
`MarksSettleTogether` (an action property) and `MarkedPeersAreServed`, which relates
the marks at a response's arrival to what is sent two awaits later.

**TreeRootCache.** `Consistent` is kept whatever overlaps: keys fit their hashes in
memory, on disk and in every frame, and the one call that asks the network is
the one the others find. `OneAfterAnother` says, as long as callers wait for each
other, that the store holds the newest root applied, that memory holds what the store
holds or is about to, and that what the call under way has read is still what there
is. The last conjunct is what finding 2 breaks. It rests on "older than" being a
strict weak order (`NotOlderTransitive`). `RootsAlwaysAgree`, `RootsAreKept`.

**RefResolver.** `CallsAhead`: a publish that awaits its encryption carries a time later than every
copy it goes by, unless one of them has changed since. Without it a publish
could put an older root into a view when its encryption is done. `AllShow`:
an open subscription shows a root at least as new as every root it was sent; an open
list the newest event that does not undo its deletion within the window that guards it. `NewestAlwaysShown`, and `ViewsNeverGoBack` (an
action property): whichever copy a step replaces, it puts a newer one there.

**PeerSignaling.** With plain calls the two queues between controller and proxy
hold one conversation at a time: `Exchange` lists its nine stages, each with the record and
the connection that go with it. `AnswersOK` follows the one answer an
incoming connection is asked for; `OpenOK` ties an open record to an open
connection. Which side offers is fixed by the order of the keys, so what travels on a link is
determined by its direction. The theorems `HalvesAlwaysAgree` and
`RequestsComeInTime` assume `PlainCalls`: the wiring of hashtree.cc, keys that can be
compared, null that is neither record nor connection. With posted messages the
properties do not hold, which is finding 3.

**BlobStore.** `TypeOK /\ CallsOK /\ EveryBlobEvictable /\ TouchesNotStranded /\
EvictionKnown`: `CallsOK` says that a put still holds its hash and time when it
writes; `EvictionKnown` that a running eviction is the one the schedule waits
for, from which there is only one. `StoreIsSound` is the run's `StoreSound`.
For the order of evictions `OrderInv` is put on top: the time by which the tables and the noted
uses know a blob lies within its last use; an eviction lists every blob; and of
its queue, whatever was not used since goes in an order in which it may go.
`OldestGoFirst` states `LeastRecentlyUsedFirst`. The proof found that a use noted in
memory only and lost in a restart breaks the order, which takes five calls and so
more than the run has; the property now excepts it.
`FreedInv` is on top for `EvictionFrees`, which states `EvictionFreesEnough`: what is stored
beside the blob that is about to go, plus what the eviction has removed, is no more than
what it counted plus what was written since. Sizes are summed as the number of
bytes of the blobs, a set, so that a sum goes down by what is taken from it by
`FiniteSetTheorems`, without an induction.

**PeerRequests.** `TypeOK /\ NetSent /\ OneTimerPerEntry /\ ClosedIsQuiet /\
Chained /\ NobodyForgotten /\ JoinersShareAnswer`. `Chained` is the shape of the
resolve chains: callers wait on the caller that made their entry, who waits on
itself; expired entries have returned null. `NobodyForgotten` is proved with its
exception, the request that timed out, which is finding 1.
`FragmentsCounted` is a second invariant on top, by counting stored fragments.
`BookkeepingKept` and `CallersAreServed` are the run's `Bookkeeping` and
`CallersServed`.

**StorePeering.** The entries of the Map and the live Peers are the same
(`EntriesLive`, `LiveEntered`), for which messages must join two different stores
and name Peers that exist, and a Peer must have begun no step before it was made. The pool
stays within its limit since a replacement leaves its size as it was.
`MapHoldsLivePeers` states `PeersAreLive`.

**PendingReads.** `ReadsTypeOK /\ ScansOK /\ OneFetchPerHash /\ FetchOfHash /\ Reached`.
A waiting read may be served by three kinds of scan, which hold lists and keys across
their awaits while the lists are taken apart. `Reached` says what they owe it: for
each connected peer that it has not tried there is a scan that will still ask, either
one of that peer that has not passed its key, or one of its list that has that peer left.
`ReadsAreSound` takes `ReadsSound` from it, by which a read is not listed without a peer being asked.

**WorkerRpc.** `RpcInv`: what travels between the threads and every job is of a call that was made
(`RequestsOK`, `RecordsOK`); a blob in an answer was compared with its digest where it
was read, whatever storage the worker has by then (`RepliesOK`); a peer's read that
got past the mark is of an encrypted upload (`MarkOfUpload`); the worker a close found is
the worker there is, as long as no other close ends in between (`OwnWorker`).
`CallsAreSound`, and `CloseEndsOwn` for the action property `ClosesOwnWorker`.

**MediaStreaming.** Four invariants. `RequestsInv`: a fetch the service worker does not know has a
response and nothing under way, and the first message of one without a response gives it one
(`ResponseFirst`). `SetupInv`: port and setup promise belong to the version in charge
(`OwnPort`), and of its setups only that of the promise is still going on (`OneSetup`),
unless one of an older version gave up meanwhile, see section 6. `UpdateInv`: an update
that was told "idle" knows of no download, whatever began or ended while it
asked. `BodiesInv`: the data of a body, the messages on their way and the rest the worker holds are
adjacent pieces of the range, from its first byte to the chunk the worker reads next (`Carries`,
`Streaming`), and `done` is posted last, when that is the end of the range (`Said`). For a queue this is said by
the places at which its messages begin, so that what is appended or taken off is one lemma each
(`CarriesJoin`, `CarriesTail`, `CarriesPieces`) and no induction is needed.
`ReaderIsSound`, `BodiesAreExact`, `UpdatesSpare` (an action property).

**FallbackStore.** `FallbackInv`: at most the read in flight is open (`OneOpen`), a read that ended with
null has no fallback left to wait for (`ReadsKept`), and a reader that was told null
had such a read (`ReadersKept`). `ReadsAreShared`.

**BlossomStore.** `BlossomInv`: the put at the head of the queue asks write servers only, is below its
attempts, and has won only if one of them has had its blob (`TurnKept`), which later deletes must
not undo (`ServersKept`). A put that throws before it uploads leaves the attempts. `PutsTrue` states the action property `PutsAreTrue`.

**TreePush.** `PushInv`: a visited block is with the walker, in the queue, being uploaded, or ended,
and in one of these only (`OnePlace`); the walk is closed under the links of what it visited
(`Walked`); who is done has left nothing to the other (`Stages`). The queue passes its limit
by one block, the one a cancelled push lets through (`Bounded`), which the proof needed to
know of. `PushesComplete`.

**LiveMedia.** `LiveInv`: a request that reads has a root and a size (`RootKnown`); its
position is where its messages end, and these are headers, adjacent pieces and
an end, in this order (`Posted`). The file may have any size under each root, also a smaller one later.
`LiveIsSound`.

**ContactCrawl.** `GraphInv`: as long as no change overtook a save, no save failed and the page replaced
nothing, no timer runs beside a snapshot that is being written, and this is what
memory holds but for users merged since (`PendingInv`); memory may be ahead of the
database without a save on its way only within a load, whose end is a change
itself. The first subscription is to the list of who the user is by then, and is not
replaced (`AskedInv`). That a list counts as handled before the graph takes it makes
`HandledIsKnown` a part of the invariant.
`GraphIsSound`.

**Model-checked only.** Liveness: every property of the runs that says that something ends,
settles or is delivered (`EveryWaiterReleased`, `PeersSettle`, `StoresSettle`, `QueueDelivers`,
`NodesConnect`, `PageSettles`, `IrisSettles`). `IndexSound`,
`FilesSound` and `EditsExact`: `BTree`, `SearchIndex`, `FileTree` and `DirTree`, like
`SendQueue`, are written with recursive operators, which TLAPS does not reason about; what
they compute is compared with the naive definition over all small inputs instead. All other
invariants and action properties of the passing runs are stated by a theorem.

## 6. What the models leave out of the parts they cover

Some properties except a case in which the code is known not to keep them. The
exception is in the property, and the hazard in `PROJECT.json` names it.

* `IndexSound`: an index from which the first child of an inner node was removed
  (`lowered`): a later insert below the new first name is not found again
  (`btree.ts` 407-426, 443-474). A range that ends before the first name of the root
  finds nothing although the first child may hold smaller keys.
  Keys that localeCompare and `<` order differently (`OrdersAgree`), finding 6.
* `NothingStranded`: a read of the store that rejects, as a call of the storage worker does
  after a timeout (`p2p.ts` 328-332, `client.ts` 205-227), throws through the drain loop
  (`webrtcController.ts` 705-710). What is queued for the peer (`broken`) then waits for its channel
  to fill and drain once more.
* `MarkedAreServed`: a put that rejects leaves marks and waiting peers as they are (961, 982).
  Peers that are marked only while a late response is verified and stored, nobody
  having been marked when it arrived (950), have the content stored for them but not
  pushed.
* `EditsExact`: an edit that met a directory it could not read writes it back
  without its entries (`dirty`); two entries of one name.
* `FilesSound`: a patched encrypted file of several chunks, finding 5.
* `ClosesOwnWorker`: closes that cross each other; `NewestShown`, `NeverBack`: publishes
  overtaken while they await their encryption; `RootsKept`: overlapping calls, finding 2.
* `GraphSound`, `IrisSettles`: a change made while an older snapshot is being written is marked as
  saved with it (`worker.ts` 415), a save that failed is not tried again, and
  a graph replaced by the page is not saved.
* `GraphSound`: an event is recorded as handled (`worker.ts` 1692) before the graph may drop it
  (`SocialGraph.ts` 158-172, `refused`), for a date ten minutes ahead or an overmuted
  author; the author's real list, being older, is then ignored.
* `IrisSettles`: as long as a live file has new bytes that cannot be read, its
  stream counts as active and is polled for ever (`mediaHandler.ts` 477).
* `PushComplete`, `StoresSettle`: a cancelled push, whose uploader may be left waiting.
* `QueueDelivers`: a queue of which a send threw: `sending` stays true, and no
  event comes if the buffer is low already.
* `NodesConnect`: a lost offer or answer leaves a connecting record that
  makes later hellos be ignored (`webrtcController.ts` 316) until a restart.
* `LeastRecentlyUsedFirst`: a use that was only noted in memory when the page went away
  (`hashtree-dexie/src/index.ts` 72) counts no more.
* `BodiesExact`: the root of a file is read for its size and again for its bytes; if it is
  gone by then (`rootless`), the stream ends without an error and the body is closed
  with nothing of what its headers promised (`encrypted.ts` 298, `read.ts` 160).
* `ReaderSound`: a service worker that the browser restarted has no port,
  while the page takes it for set up. A setup of an older version that gives up
  clears the setup promise of the new one (`late`), so that two setups may run and the port be
  replaced by one that the worker then refuses.

Left out altogether: in `MeshNode` ranking of peers (any order is allowed), the
metadata snapshot, other hashes in the deferred queue; in `PeerSignaling` ICE
candidates, the two channels of a connection, encoding of messages; in
`PeerRequests` the serving side; in `StorePeering` the pool of followed users and
mesh frames; in `TreeRootCache` lists, histories, parsing, relay queries; in
`RefResolver` `resolve`, visibility and encodings; in `BlobStore` failures of
IndexedDB, which is taken to run overlapping transactions in the order they were
asked for; in `WorkerRpc` upload streams, settings and statistics; in
`FallbackStore` a late answer that restores a block deleted meanwhile is
allowed; in `BlossomStore` HTTP beyond the kind of answer; in `FileTree` the
byte format and appends that overlap; in `MediaStreaming` the pages but one, upload
activity, and ranges of the form `bytes=-n`; in `LiveMedia` thumbnail aliases and the
HTTP side; in `ContactCrawl` mutes, distances but for who is merged, queries of the graph, and lists
that newer ones replace.

`worker.ts` compares `SocialGraph.size()`, an object, with a number (1724, 1753, 1757), which is
never true: the crawl of depth two and the limit on users that these lines are
written for do not happen, and `ContactCrawl` has neither.

## 7. Not modelled, and why

User interface, build and configuration keep no protocol state. Cryptography,
hashing, names and text encodings are functions on bytes that a model checker
cannot usefully enumerate; the signaling messages are such encodings.
`packages/ndk`, `packages/ndk-cache` and `packages/nostr-social-graph` are forks
of third-party code and together more than half of the implementation's lines; of the
last, `ContactCrawl` has what the worker calls.
Of the Iris worker the requests it only hands on to stores, NDK and signer are left
out.

What remains worth doing, in this order:

1. `PeerRequests`: the serving side of `peer.ts`; `PeerSignaling`: ICE
   candidates, one refused of which makes a description be reported as an error.
2. Fragmented answers, which the worker's controller sends but does not put
   together (`webrtcController.ts` 1003).
3. Mesh frames and the pools of followed users of the WebRTC store.
4. Proofs: the order of the send queue, for which drains would
   have to be steps of their own, and the recursive components by other means than TLAPS.
