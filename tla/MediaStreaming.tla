--------------------------- MODULE MediaStreaming ---------------------------
(****************************************************************************)
(* A page reads files through its service worker (sw.ts), which asks the    *)
(* hashtree worker over a MessagePort (worker.ts, mediaStreaming.ts); the   *)
(* page sets the port up (mediaStreamingSetup.ts) and lets a new version of *)
(* the service worker take over when it finds no download (swInit.ts).      *)
(*                                                                          *)
(* A byte of a file is its position, and a file is given by the ends of its *)
(* chunks; a port has the number of the setup that made it.                 *)
(****************************************************************************)
EXTENDS Integers, Sequences, FiniteSets, SequencesExt

CONSTANTS Requests,     \* fetch events
          RequestsOf,   \* what each may be: [file, from, to, head, download]
          ChunkSize,    \* of the worker's answer
          MaxControllers, \* bound: versions of the service worker
          MaxRestarts,  \* bound: restarts of it by the browser
          MaxSetups,    \* bound: setups of the port
          Absent

IsFile(file) == file \in Seq(Nat) /\ \A i, j \in 1..Len(file) : i <= j => file[i] <= file[j]
IsPlace(x) == x = Absent \/ x \in Nat

ASSUME MediaAssumption ==
  /\ MaxControllers \in Nat \ {0} /\ MaxSetups \in Nat
  /\ \A r \in Requests : \A q \in RequestsOf[r], p \in 0..MaxSetups :
       [request |-> q, port |-> p] # Absent
ASSUME FilesAssumption ==
  /\ ChunkSize \in Nat \ {0}
  /\ \A r \in Requests : \A q \in RequestsOf[r] : IsFile(q.file) /\ IsPlace(q.from) /\ IsPlace(q.to)

VARIABLES
  controller, waiting,      \* the version in charge and whether a newer one waits
  restarts,
  port,                     \* in the service worker: the setup its port is from, 0 for none
  unfinished,                  \* in it: requests without an end
  activeDownloadCount,
  asked,                    \* of each request: Absent or [request, port]
  response, body,           \* what the page gets: [status, length]; [data, end]
  isSetup, activeController, setupPromise, setup, setups,
  late,                     \* history: a setup of an older version gave up under this one
  registering, served,      \* ports on their way to the service worker; ports the worker reads
  streams, network,                \* per request: [at, next chunk, remaining, rest]; messages to the service worker
  activity,                 \* the update: none, asking, idle
  known                     \* history: requests made before it was found idle

swVars == <<controller, waiting, restarts, port, unfinished, activeDownloadCount>>
pageVars == <<asked, response, body>>
setupVars == <<isSetup, activeController, setupPromise, setup, setups, late, registering, served>>
streamVars == <<streams, network>>
updateVars == <<activity, known>>
mediaVars == <<swVars, pageVars, setupVars, streamVars, updateVars>>

Setups == 1..MaxSetups
Smaller(a, b) == IF a < b THEN a ELSE b
Larger(a, b) == IF a < b THEN b ELSE a

-----------------------------------------------------------------------------
(* The answer of the worker.                                                *)

SizeOfFile(file) == IF file = <<>> THEN 0 ELSE file[Len(file)]

\* parseRange: a suffix range is taken for one from the first byte.
Start(q) == IF q.from = Absent THEN 0 ELSE q.from
LastByte(q) ==
  IF q.to = Absent THEN SizeOfFile(q.file) - 1
  ELSE Smaller(SizeOfFile(q.file) - 1, Larger(Start(q), q.to))

Bytes(from, to) == [i \in 1..(to - from + 1) |-> from + i - 1]
\* readFileStream: chunk i of the file, cut at the offset if that lies in it.
FirstByte(file, i) == IF i = 1 THEN 0 ELSE file[i - 1]
ReadFileStream(file, i, offset) == Bytes(Larger(FirstByte(file, i), offset), file[i] - 1)

\* Slip: the source chunk in which the range ends is sent whole.
Consumed_Whole(source, remaining) == IF remaining = 0 THEN <<>> ELSE source
Consumed(source, remaining) == SubSeq(source, 1, Smaller(Len(source), remaining))

Headers(status, length) == [type |-> "headers", status |-> status, length |-> length, data |-> <<>>]
Message(type, data) == [type |-> type, status |-> 0, length |-> 0, data |-> data]
Done == Message("done", <<>>)
Error == Message("error", <<>>)

Status(q) == IF Start(q) = 0 /\ LastByte(q) = SizeOfFile(q.file) - 1 THEN 200 ELSE 206

Post(r, messages) == network' = [network EXCEPT ![r] = @ \o messages]
StreamOf(r, stage, next, remaining, rest) ==
  streams' = [streams EXCEPT ![r] = [at |-> stage, next |-> next, remaining |-> remaining, rest |-> rest]]
Finish(r, stage, messages) == Post(r, messages) /\ StreamOf(r, stage, 0, 0, <<>>)

\* handleMediaFileRequest up to its headers, or an error: no tree, no such file.
Handle(r, fails) ==
  /\ streams[r].at = "posted" /\ asked[r].port \in served
  /\ UNCHANGED <<swVars, pageVars, setupVars, updateVars>>
  /\ LET q == asked[r].request
         size == SizeOfFile(q.file) IN
     \/ fails /\ Finish(r, "ended", <<Error>>)
     \/ /\ ~fails /\ Start(q) >= size
        /\ Finish(r, "ended", <<Headers(IF size = 0 THEN 200 ELSE 416, 0), Done>>)
     \/ /\ ~fails /\ Start(q) < size
        /\ LET headers == Headers(Status(q), LastByte(q) - Start(q) + 1) IN
           IF q.head THEN Finish(r, "ended", <<headers, Done>>)
           ELSE Post(r, <<headers>>) /\ StreamOf(r, "opening", 0, 0, <<>>)

\* readFileStream reads the root again, which was read for the size; if it is
\* gone the stream ends like one that is complete.
Open(r, root) ==
  /\ streams[r].at = "opening"
  /\ UNCHANGED <<swVars, pageVars, setupVars, updateVars>>
  /\ LET q == asked[r].request IN
     \/ root = "fails" /\ Finish(r, "ended", <<Error>>)
     \/ root = "missing" /\ Finish(r, "rootless", <<Done>>)
     \/ /\ root = "found" /\ UNCHANGED network
        /\ \E i \in 1..Len(q.file) :
             /\ FirstByte(q.file, i) <= Start(q) /\ Start(q) < q.file[i]
             /\ StreamOf(r, "streaming", i, LastByte(q) - Start(q) + 1, <<>>)

\* streamFileRangeChunks: the next chunk of the file, of which full chunks go
\* out at once; what is left goes out at the end.
PostChunk(r, fails) ==
  /\ streams[r].at = "streaming"
  /\ UNCHANGED <<swVars, pageVars, setupVars, updateVars>>
  /\ LET q == asked[r].request
         s == streams[r]
         over == s.next > Len(q.file) \/ s.remaining <= 0
         new == Consumed(ReadFileStream(q.file, s.next, Start(q)), s.remaining)
         all == s.rest \o new
         full == Len(all) \div ChunkSize
     IN
     \/ fails /\ s.next <= Len(q.file) /\ Finish(r, "ended", <<Error>>)
     \/ ~fails /\ over /\ s.rest = <<>> /\ Finish(r, "ended", <<Done>>)
     \/ ~fails /\ over /\ s.rest # <<>> /\ Finish(r, "ended", <<Message("chunk", s.rest), Done>>)
     \/ /\ ~fails /\ ~over
        /\ Post(r, [i \in 1..full |-> Message("chunk", SubSeq(all, (i - 1) * ChunkSize + 1, i * ChunkSize))])
        /\ StreamOf(r, "streaming", s.next + 1, s.remaining - Len(new), SubSeq(all, full * ChunkSize + 1, Len(all)))

-----------------------------------------------------------------------------
(* The service worker.                                                      *)

Tracked(r) == asked[r] # Absent /\ asked[r].request.download /\ ~asked[r].request.head
Respond(r, status, length) == response' = [response EXCEPT ![r] = [status |-> status, length |-> length]]

Fetch(r, q) ==
  /\ asked[r] = Absent
  /\ asked' = [asked EXCEPT ![r] = [request |-> q, port |-> port]]
  /\ UNCHANGED <<controller, waiting, restarts, port, body, setupVars, network, updateVars>>
  /\ IF port = 0 THEN Respond(r, 503, 0) /\ UNCHANGED <<unfinished, activeDownloadCount, streams>>
     ELSE /\ unfinished' = unfinished \cup {r}
          /\ activeDownloadCount' = activeDownloadCount + (IF q.download /\ ~q.head THEN 1 ELSE 0)
          /\ StreamOf(r, "posted", 0, 0, <<>>)
          /\ UNCHANGED response

\* Slip: every request that ends counts as a download that ends.
ClearPending_Any(r) ==
  /\ unfinished' = unfinished \ {r}
  /\ activeDownloadCount' = activeDownloadCount - (IF activeDownloadCount > 0 THEN 1 ELSE 0)

ClearPending(r) ==
  /\ unfinished' = unfinished \ {r}
  /\ activeDownloadCount' = activeDownloadCount - (IF Tracked(r) /\ activeDownloadCount > 0 THEN 1 ELSE 0)

\* The body is cut if there is one, and the fetch fails if it has no response.
Break(requests) ==
  /\ body' = [r \in Requests |-> IF r \in requests /\ body[r].end = "open" THEN [body[r] EXCEPT !.end = "aborted"] ELSE body[r]]
  /\ response' = [r \in Requests |-> IF r \in requests /\ response[r].status = 0 THEN [status |-> 500, length |-> 0] ELSE response[r]]

\* handleWorkerMessage.
HandleWorkerMessage(r) ==
  /\ network[r] # <<>>
  /\ network' = [network EXCEPT ![r] = Tail(@)]
  /\ UNCHANGED <<controller, waiting, restarts, port, asked, setupVars, streams, updateVars>>
  /\ LET m == Head(network[r]) IN
     \/ /\ r \notin unfinished \/ (m.type = "chunk" /\ body[r].end = "none")
        /\ UNCHANGED <<unfinished, activeDownloadCount, response, body>>
     \/ /\ r \in unfinished /\ m.type = "headers"
        /\ Respond(r, m.status, m.length)
        /\ IF asked[r].request.head THEN ClearPending(r) /\ UNCHANGED body
           ELSE body' = [body EXCEPT ![r].end = "open"] /\ UNCHANGED <<unfinished, activeDownloadCount>>
     \/ /\ r \in unfinished /\ m.type = "chunk" /\ body[r].end # "none"
        /\ body' = [body EXCEPT ![r].data = @ \o m.data]
        /\ UNCHANGED <<unfinished, activeDownloadCount, response>>
     \/ /\ r \in unfinished /\ m.type = "done"
        /\ ClearPending(r)
        /\ body' = [body EXCEPT ![r].end = IF @ = "open" THEN "closed" ELSE @]
        /\ UNCHANGED response
     \/ /\ r \in unfinished /\ m.type = "error"
        /\ ClearPending(r)
        /\ Break({r})

\* Slip: the headers stop the clock.
PortTimeout_Headers(r) ==
  /\ r \in unfinished /\ response[r].status = 0
  /\ ClearPending(r) /\ Break({r})
  /\ UNCHANGED <<controller, waiting, restarts, port, asked, setupVars, streamVars, updateVars>>
\* Nothing came for a minute.
PortTimeout(r) ==
  /\ r \in unfinished
  /\ ClearPending(r) /\ Break({r})
  /\ UNCHANGED <<controller, waiting, restarts, port, asked, setupVars, streamVars, updateVars>>

\* A service worker that stops takes its ports and requests along.
Stops == port' = 0 /\ unfinished' = {} /\ activeDownloadCount' = 0 /\ Break(unfinished)

\* The browser stops an idle service worker and starts it again, unseen by the page.
RestartServiceWorker ==
  /\ restarts < MaxRestarts /\ restarts' = restarts + 1
  /\ Stops
  /\ UNCHANGED <<controller, waiting, asked, setupVars, streamVars, updateVars>>

-----------------------------------------------------------------------------
(* The page: the port, and the update of the service worker.                *)

SetUp(i, of, inWorker, ack) == setup' = [setup EXCEPT ![i] = [of |-> of, worker |-> inWorker, ack |-> ack]]

\* Also by the listener of controllerchange.
SetupMediaStreaming ==
  /\ ~(isSetup /\ activeController = controller) /\ setupPromise = 0
  /\ setups < MaxSetups /\ setups' = setups + 1
  /\ SetUp(setups', controller, "asked", "waiting")
  /\ setupPromise' = setups'
  /\ registering' = registering \cup {setups'}
  /\ UNCHANGED <<isSetup, activeController, late, served, swVars, pageVars, streamVars, updateVars>>

\* REGISTER_WORKER_PORT; one to a version that is gone is lost.
RegisterWorkerPort(i) ==
  /\ i \in registering
  /\ registering' = registering \ {i}
  /\ IF setup[i].of = controller THEN port' = i /\ setup' = [setup EXCEPT ![i].ack = IF @ = "waiting" THEN "sent" ELSE @]
     ELSE UNCHANGED <<port, setup>>
  /\ UNCHANGED <<isSetup, activeController, setupPromise, setups, late, served, controller, waiting, restarts,
                 unfinished, activeDownloadCount, pageVars, streamVars, updateVars>>

\* registerMediaPort in the worker; without a worker the setup fails for good.
RegisterMediaPort(i, fails) ==
  /\ setup[i].worker = "asked"
  /\ setup' = [setup EXCEPT ![i].worker = IF fails THEN "failed" ELSE "registered"]
  /\ served' = IF fails THEN served ELSE served \cup {i}
  /\ UNCHANGED <<isSetup, activeController, setupPromise, setups, late, registering, swVars, pageVars, streamVars, updateVars>>

\* The service worker's answer, or none in five seconds.
Acknowledge(i, timeout) ==
  /\ setup[i].ack = "sent" \/ (timeout /\ setup[i].ack = "waiting")
  /\ setup' = [setup EXCEPT ![i].ack = IF timeout THEN "no" ELSE "yes"]
  /\ UNCHANGED <<isSetup, activeController, setupPromise, setups, late, registering, served, swVars, pageVars, streamVars, updateVars>>

SetupEnds(i) ==
  /\ setup[i].worker = "registered" /\ setup[i].ack \in {"yes", "no"}
  /\ setup' = [setup EXCEPT ![i].worker = "ended"]
  /\ late' = (late \/ (setup[i].of # controller /\ setup[i].ack = "no"))
  /\ IF setup[i].ack = "yes"
     THEN isSetup' = TRUE /\ activeController' = setup[i].of /\ UNCHANGED setupPromise
     ELSE setupPromise' = 0 /\ UNCHANGED <<isSetup, activeController>>
  /\ UNCHANGED <<setups, registering, served, swVars, pageVars, streamVars, updateVars>>

NewVersion ==
  /\ ~waiting /\ controller < MaxControllers
  /\ waiting' = TRUE
  /\ UNCHANGED <<controller, restarts, port, unfinished, activeDownloadCount, pageVars, setupVars, streamVars, updateVars>>

\* hasActiveDownloadTransfers; no answer in a second counts as none.
AskActivity ==
  /\ waiting /\ activity = "none"
  /\ activity' = "asking"
  /\ UNCHANGED <<known, swVars, pageVars, setupVars, streamVars>>

\* Slip: a download counts once it has a response.
Busy_Responded == \E r \in unfinished : Tracked(r) /\ response[r].status # 0
Busy == activeDownloadCount > 0

Answered ==
  /\ activity = "asking"
  /\ activity' = IF Busy THEN "none" ELSE "idle"
  /\ known' = {r \in Requests : asked[r] # Absent}
  /\ UNCHANGED <<swVars, pageVars, setupVars, streamVars>>

Unanswered ==
  /\ activity = "asking"
  /\ activity' = "idle" /\ known' = {}
  /\ UNCHANGED <<swVars, pageVars, setupVars, streamVars>>

\* updateSW and controllerchange.
Activate ==
  /\ activity = "idle"
  /\ activity' = "none" /\ waiting' = FALSE /\ controller' = controller + 1
  /\ Stops
  /\ isSetup' = FALSE /\ setupPromise' = 0 /\ activeController' = 0 /\ late' = FALSE
  /\ UNCHANGED <<restarts, asked, setup, setups, registering, served, streamVars, known>>

-----------------------------------------------------------------------------
MediaInit ==
  /\ controller = 1 /\ waiting = FALSE /\ restarts = 0
  /\ port = 0 /\ unfinished = {} /\ activeDownloadCount = 0
  /\ asked = [r \in Requests |-> Absent]
  /\ response = [r \in Requests |-> [status |-> 0, length |-> 0]]
  /\ body = [r \in Requests |-> [data |-> <<>>, end |-> "none"]]
  /\ isSetup = FALSE /\ activeController = 0 /\ setupPromise = 0 /\ setups = 0 /\ late = FALSE
  /\ setup = [i \in Setups |-> [of |-> 0, worker |-> "none", ack |-> "none"]]
  /\ registering = {} /\ served = {}
  /\ streams = [r \in Requests |-> [at |-> "none", next |-> 0, remaining |-> 0, rest |-> <<>>]]
  /\ network = [r \in Requests |-> <<>>]
  /\ activity = "none" /\ known = {}

MediaNext ==
  \/ \E r \in Requests :
       \/ \E q \in RequestsOf[r] : Fetch(r, q)
       \/ HandleWorkerMessage(r) \/ PortTimeout(r)
       \/ \E fails \in BOOLEAN : Handle(r, fails) \/ PostChunk(r, fails)
       \/ \E root \in {"found", "missing", "fails"} : Open(r, root)
  \/ \E i \in Setups :
       \/ RegisterWorkerPort(i) \/ SetupEnds(i)
       \/ \E fails \in BOOLEAN : RegisterMediaPort(i, fails) \/ Acknowledge(i, fails)
  \/ RestartServiceWorker \/ SetupMediaStreaming \/ NewVersion \/ AskActivity \/ Answered \/ Unanswered \/ Activate

MediaSpec == MediaInit /\ [][MediaNext]_mediaVars

\* Timers fire; neither worker need ever answer.
MediaFairness == \A r \in Requests : WF_mediaVars(PortTimeout(r))
MediaFairSpec == MediaSpec /\ MediaFairness

-----------------------------------------------------------------------------
(* Properties. *)

MediaTypeOK ==
  /\ controller \in 1..MaxControllers /\ port \in 0..setups /\ setupPromise \in 0..setups
  /\ unfinished \subseteq Requests /\ served \subseteq Setups
  /\ \A r \in Requests : /\ body[r].end \in {"none", "open", "closed", "aborted"}
                         /\ streams[r].at \in {"none", "posted", "opening", "streaming", "ended", "rootless"}

\* What a page reads is what the headers promise: a body that ends well has
\* every byte of the range, in order and once, however the file is cut in chunks
\* and whatever is late; one that ends early is cut, not closed (sw.ts:168-211,
\* mediaStreaming.ts:9-60).  Not so if the root of the file, which was there when
\* its size was asked, is gone when it is read (encrypted.ts:298): the body
\* is closed without a byte.
BodiesExact ==
  \A r \in Requests : body[r].end # "none" =>
    LET q == asked[r].request
        promised == IF Start(q) >= SizeOfFile(q.file) THEN <<>> ELSE Bytes(Start(q), LastByte(q))
    IN /\ IsPrefix(body[r].data, promised)
       /\ Len(promised) = response[r].length
       /\ body[r].end = "closed" => body[r].data = promised \/ streams[r].at = "rootless"

\* Whoever the service worker forgot was answered, and its body has an end; the
\* downloads it counts are those it has (sw.ts:154-166).
NobodyForgotten ==
  /\ \A r \in Requests : asked[r] # Absent /\ r \notin unfinished => response[r].status # 0 /\ body[r].end # "open"
  /\ activeDownloadCount = Cardinality({r \in unfinished : Tracked(r)})

\* When the page takes the port for set up, the service worker in charge has one,
\* and the worker reads it or never will, as the setup will find; but for a
\* service worker that was restarted, and for a setup of an older version that
\* gives up under this one: it clears setupPromise, so that a second setup may
\* replace the port and fail (mediaStreamingSetup.ts:74-125).
PortSetUp ==
  isSetup /\ activeController = controller /\ restarts = 0 /\ ~late =>
    port # 0 /\ (port \in served \/ setup[port].worker = "asked")

ReaderSound == MediaTypeOK /\ NobodyForgotten /\ PortSetUp

\* "Updates are activated only after transfer activity goes idle": one that was
\* told so cuts no download that had begun by then (swInit.ts:98-165).
UpdatesSpareDownloads ==
  [][controller' # controller => \A r \in unfinished \cap known : ~Tracked(r)]_mediaVars

\* Every fetch ends, also when no worker ever answers: again and again none is
\* under way (sw.ts:213-240).
FetchesEnd == []<>(unfinished = {})
=============================================================================
