# Models and proofs of the repository's programs

The repository is a collection of small programs, most of them studies. This
directory holds TLA+ specifications of the ones with logic worth checking, TLC
configurations that check them on small instances, and proofs for TLAPS. Paths
are relative to the repository; `G/` stands for
`Program/CPlusPlus/GatewayDemo/`.

## 1. Inventory

| Part | State it keeps | Operations | What is hard |
|---|---|---|---|
| GatewayDemo (`G/`): an HTTP gateway in C++ | see below | see below | one pool of four threads for everything; blocking waits in it; callbacks that outlive frames; hot reload; signals |
| architecture-smell-scanner, backend (`S/` = `Program/Python/architecture-smell-scanner/backend/app/`) | projects, collaborators, scans, smells in a database; snapshots on disk | create and share projects, upload, scan, report, clean up | concurrent transactions, check-then-insert, failures and crashes halfway through a scan |
| its analyzer (`S/scanner`) | the smells of one analysis | analyse a directory, score | names that depend on the server's directory, thresholds |
| bank statement merger (`Program/Python/bank_statement_merger`) | the merged table, the folder, the mapping | import, export, write demonstrations | state that outlives a failed import; banks with the same headers |
| photo scripts (`Program/Python/addTimestampWatermarktoImgs`, copied to `Algorithm/MachineLearning/skill/photo-print-selection`) | folders of photos | copy under the date, write the date | names that collide, files that vanish during the loop |
| RAG evaluation (`Algorithm/MachineLearning/study/RAGAS/ragas-evaluation-demo`) | vector stores in memory and on disk, the chain | load, create, add, save, load, query, evaluate | which store a chain refers to; two files of one store; scores that are missing |
| skill demonstration (`Algorithm/MachineLearning/study/skill`) | the registry | load, dispatch | order of directories, skills of one name |
| car sales prediction (`Algorithm/MachineLearning/TianChi/CarSellPredict`) | what was trained, the files | train, predict, write | dates as numbers, files of earlier runs |
| Threads (`Program/Threads`) | a counter, a list of documents, a shared result, a singleton, two locks | add, query in batches, restart a timer, call with a timeout, lazy creation, lock pairs | every one is an example of a race, a timeout or a deadlock |
| FileWatcher (`Program/CPlusPlus/FileWatcher`) | last seen times, the monitor thread | Start, End, poll | ending the thread against its own callback |
| Java agent (`Program/Java/Agent-demo`) | a map of managed threads | add, stop, stopall | commands from several attach threads |
| GO signaltest, Duplicator middleware | a wait group; joined events and counters | work or stop; compare | signal during work; events in any order |
| everything else | none that outlives a call | | demonstrations, homework, notes, vendored files |

`PROJECT.json` lists each part with the reason when it is left out.

### The gateway

```
 client --> HttpServer ---- read handler ----> Gateway::handle_request
            accept loop                         |  RequestRouter::match_route
            connections                         |  LoadBalancer::select_backend
                                                v
                                        Gateway::forward_request --wait_for--.
                                                |                            |
                                                v            callback        |
                                        HttpClient::RequestContext ----------'
                                        resolve, connect, write, read | timer

 config file --> ConfigWatcher thread --> Gateway::apply_config --> RequestRouter
 SIGINT ------> signal_handler ---------> Gateway::stop <------- main
```

| Component | State | Operations | What makes it correct |
|---|---|---|---|
| HTTP client (`http_client.cpp`) | socket, resolver, timer, `completed_` per request | `async_request`, handlers of the chain, `handle_timeout` | every request is called back, however I/O and timer race, and nothing stays open |
| Load balancer (`load_balancer.cpp`) | health marks under a mutex, an atomic counter | `select_backend`, `mark_backend_*` | unhealthy backends are skipped, selections are even |
| Gateway core (`gateway.cpp`) | configuration, the frames of `forward_request` | `handle_request`, `forward_request` | one true answer to every request |
| Router (`request_router.cpp`) | the sorted vector of rules | `add_route`, `clear_routes`, `match_route` | the matching rule of least priority is found |
| Watcher, hot reload (`config_watcher.cpp`, `gateway.cpp:175-247`) | last modification time, the thread | `start`, `stop`, poll, `apply_config` | the newest valid file is in force, and requests do not notice |
| HTTP server, main (`http_server.cpp`, `main.cpp`) | `running_`, the acceptor, connections | `start`, `stop`, accept, read and write handlers, signal handler | one accept loop, every request answered, the program ends |
| Config manager, parser, logger | none but the logger's sink | load and validate, parse, log | |

The parts call each other directly. What they share is the pool: `io_context`
is run by four threads (`gateway.cpp:37-41`), no strand orders handlers, and
`forward_request` blocks the thread it runs on until a handler on another
thread of the same pool has called it back.

### The scanner and the small programs

```
 client --> api/projects.py, api/scans.py --> database (one transaction per request)
                     |                              ^
                     | await start_scan             | smells, status
                     v                              |
            services/scan_service.py --------> scanner/analyzer.py
                     |
            storage/<project>/code_*.zip  <-- upload; worker: cleanup_old_snapshots
```

The handlers of the scanner run on one event loop and interleave wherever they
await a statement; what they share is the database and the disk. A scan runs
inside the request that creates it. The other programs are processes of their
own that share nothing with each other.

| Program | What makes it correct |
|---|---|
| scanner | what others see of a scan is whole and final; nothing outlives its project; an answer was true at some moment of the request |
| analyzer | a circle of imports is reported exactly if there is one |
| merger | a statement is read as one of its bank; what is exported is of the folder it is exported for |
| photo scripts | no photo is lost |
| RAG evaluation | an answer is made from the documents there are; a rating does not flatter |
| skills | a query is answered by the skill it fits |
| sales prediction | a forecast belongs to its row and lies in the range of what was sold |
| threads | no addition is lost; a batch is whole |

## 2. Modules

| Module | Models |
|---|---|
| `GatewayRequests` | the requests all components work for |
| `HttpClient` | `http_client.cpp`: contexts, timer, thread pool |
| `LoadBalancer` | `load_balancer.cpp` |
| `Gateway` | `handle_request` and `forward_request`; EXTENDS the two above and composes them |
| `GatewayPromise` | abstract specification of the gateway, which `Gateway` implements |
| `RequestRouter` | `request_router.cpp` |
| `HotReload` | editor, watcher thread, `apply_config`, concurrent searches; EXTENDS `RequestRouter` |
| `HttpServer` | `http_server.cpp`, the life of the program (`main.cpp`, start, stop, `~Gateway`), the logger's mutex |
| `Scanner` | `S/api/projects.py`, `S/api/scans.py`, `S/services/scan_service.py`, `S/worker.py`: requests about one project |
| `Analyzer` | `S/scanner/analyzer.py` and the health score |
| `StatementMerger` | the bank statement merger |
| `PhotoBatch` | both photo scripts, one after the other |
| `RagEvaluation` | the RAG demonstration and its evaluation |
| `SkillDispatch` | the skill demonstration |
| `CarPrediction` | the sales prediction and `DailyFile.py` |
| `RaceAdd`, `BatchQuery` | `race/raceAdd.py`; `race/race.py` and `timerloop/timerloop.py` |
| `MCLoadBalancer`, `MCGateway`, `MCHotReload`, `MCScanner`, `MCMerger`, `MCAnalyzer` | instances for TLC, with histories where a property needs one |
| `MCParts` | the parts that share nothing, explored in one run |
| `HttpClientProofs`, `LoadBalancerProofs`, `GatewayProofs`, `HotReloadProofs`, `HttpServerProofs`, `ScannerProofs`, `RaceProofs`, `PartsProofs` | theorems |

Variables carry the names of the members and locals they stand for
(`completed_`, `backend_health_`, `last_mtime_`), actions those of the functions
where an action is a whole function. `PROJECT.json` maps every definition to
its lines.

### How the code becomes actions

*HttpClient.* `op[c]` is the outstanding operation of a context (resolve,
connect, write, read), `net[c]` whether it is pending or its handler queued
with an outcome, `timer[c]` the state of the timer. A handler is three steps,
because `completed_` is a plain `bool` that is set only after the callback has
returned (`http_client.cpp:134-136`, `:174-182`): the entry, where it is
read and the timer cancelled or the socket closed; `callback`; `complete`.
Between them other threads run. `cancel()` cannot take back an expiry that is
already queued, and `async_connect` opens a closed socket again.

*LoadBalancer.* `FilterHealthy` is the part of `select_backend` under
`health_mutex_`, `TakeIndex` the `fetch_add` after the unlock. The copied vector
is the set of positions it was copied from.

*Gateway.* `phase[r]` and `home[r]` are the frame of the read handler of `r` and
the thread it is on. The callback captures locals of `forward_request` by
reference (`gateway.cpp:145`). When it runs late, after `wait_for` has given up,
the behaviour is undefined. Modelled are the outcomes a build produces: the
memory is that of another request which the same thread has in
`forward_request` now, at the same depth of its stack (`CallbackHitsOther`); or
nothing alive is hit, and the URL that is read is the old one or garbage
(`CallbackHitsNothing`). A crash, or a hang in the destroyed mutex, ends the
system and is left out. `WaitExpires` needs the client's timer to have run out:
it is armed earlier and for a second less.

*RequestRouter, HotReload.* `apply_config` is one step for each write to the
router. A search of the vector while it is written is a data race: it returns
what it should, any rule that matches, or nothing (`SearchTorn`). A path is a
sequence of opaque pieces, since only equality and the prefix order matter.
`std::sort` may return any sorted arrangement. Loading returns a configuration
or throws; what makes a text valid is not modelled. A poll looks at `running_`
(`PollStarts`, `PollEnds`), then at the file (`PollSeesChange`, `PollSeesNothing`), and
others step between. Modification times are whole
seconds, `now` is the clock.

*HttpServer.* `running_` is a plain `bool` and the acceptor has no lock, so
`stop` is three steps (look, clear, close) and the tail of the accept handler two
(look, accept again). `stop` is called by main and from inside the signal
handler. The signal handler logs first (`gateway.cpp:65`); if the thread it
interrupted is inside the logger, it waits for the mutex of its own thread
(`hung`), and then everyone who logs waits too. `SomeoneLogs` says when that may be:
main logs from its start to `~Gateway`, the watcher thread for as long as hot
reload is enabled, and the pool in `handle_request`. `start` accepts before it logs
(`StartAccepts`, `StartLogs`).

*Scanner.* `req[r]` is the frame of a handler: where it is, what it has read.
One step per statement, since the handler awaits each; a statement sees what is
committed when it runs. A row that is inserted but not committed is in `req`,
not in the tables. Updates and deletes are sent by the commit
(`core/database.py:24`) and are one step with it. The foreign keys of an
uncommitted row make `CommitDelete` wait, and those of a committed one make it
fail. Extraction and analysis await nothing and are one step, but `Crash` may
come in the middle (`CrashExtracting`). Requests arrive with a valid token;
there is one project, with its owner, one other user and an unknown address.
`MCScanner` adds what was true at the moments of a request.

*Analyzer.* A file is a record of what its text says: imports, classes,
functions, blocks of code as sets of tokens. The current directory is that of
the code or that of the server. `Linked` computes networkx's strongly connected
components the way Warshall does, by a fold over the nodes, because a fold can be
proved about. Smells are a set, of records with the path and the line of each, so that
equal findings at two places stay two, as in the code's list. A module name names one file in a directory that the property about
circles speaks of (`Plain`).

*StatementMerger.* A file is its headers, its encoding and the bank that has
issued it. Headers are translated from the Chinese one by one; an apostrophe
marks the second of two spellings of one word. An exception that leaves a slot
ends the program, as in PyQt6.

*PhotoBatch.* A folder is a function from names to photos, a name a stem, a
suffix and a date. `os.listdir` is read once (`todo`), while the loop renames,
writes and removes files in the same folder. A UUID is a stem that no file has
and no other file gets. That the conversion's `.jpg` may not be removable is
left out.

*RagEvaluation.* `main.py` runs its steps in order; a session calls the same
classes in any order, as the tests do. Stores are objects on `heap`, because the
manager and the chain refer to them. A store has an index of vectors and the documents,
which the positions of the vectors select; saved, these are two files. A process that is
killed while it saves leaves an old one beside a new one, or one that cannot be read
(`SaveKilled`), and the next process may load what is left: a query then
returns other documents or fewer (`Retrieved`), or raises for a position that has none.
Scores are tenths.

*SkillDispatch.* A query is the set of keywords that occur in it. The language
model may name any skill or none.

*CarPrediction.* Dates are numbers `yyyymm` as in the files. An error in writing is only
logged (`utilfile.py:124`), so a run that ends has written its prediction, the first
rows of it, or nothing, and the file may be of an earlier run (`written`); the medium
file likewise. Class 0 is that of the mean over all months (`utilAlg_Mean.py:52`).
`methods` may list the mean twice: the results are kept under the name of the class, so
the second training replaces the first, and it finds a `trainY` that the first has
changed, since `+=` works on a view (`utilAlg_Mean.py:23`; `SoldBy`). A file without rows ends the
program at the log of its first row. An error of reading in the middle of a file is
not distinguished from a file that is missing. What the regression computes is left out,
because its prediction always raises (`utilAlg_Lineregression.py:65`). `uploads` are the
files that `DailyFile.py` sets out to make; one that cannot be written it only prints.

*RaceAdd, BatchQuery.* A step per access to what the threads share.

## 3. Runs

`tlc -config <cfg>.cfg <module>`. The first six hold; each of the other six
checks one sentence of the repository's documentation, which the code breaks.

| Run (module / cfg) | Bounds | Shows |
|---|---|---|
| `client_pool` (HttpClient / HttpClientPool) | 2 requests, 3 threads | The state is well formed. A request is called back (liveness), at most twice, and never left without a timer or a handler that will end it. It is called back again only while another handler is between the callback and the flag (`SecondCallNeedsOverlap`), and a closed socket is opened again only while the handler that closed it has not set the flag (`ReopeningNeedsOverlap`): these overlaps are the only cause. Two threads are enough for the race of chain and timer; the third lets a third handler come, were there one. |
| `gateway_safety` (MCGateway / GatewaySafety) | 3 requests (two to overlapping routes, one to a malformed URL), 2 threads, symmetric | `Gateway` implements `GatewayPromise`; a response reaches another request's client only by a late callback on the same thread. Two threads: one that waits and one that runs handlers. |
| `gateway_one_thread` (MCGateway / GatewayOneThread) | 4 requests, 1 thread, fair | The pool exhausted, at its smallest (the code has four threads, which four requests exhaust alike): the only thread sits in `wait_for`. Every request is answered all the same, and a route whose backends are all marked answers 503 for good. |
| `hot_reload` (MCHotReload / HotReload) | 2 configurations, 3 paths, 1 search, 2 edits, 2 seconds, fair | Outside `apply_config` the router holds the routes of the configuration in force; a search that no reload overlaps finds the right rule; a file with a new time is put in force; neither the join nor the locks hang. Two edits make a broken file and its completion, or two versions in one second. |
| `scanner` (MCScanner / Scanner) | 3 requests, the owner and one other user, 1 name of an upload | Committed scans are finished and agree with their smells; a deleted project leaves nothing behind; a user has two rows as collaborator only after two requests were past the check at once; a scan sees a part of the code only if the archive is damaged or an extraction was killed; nobody waits for ever; answers were true; an internal error needs another request, such a duplicate, or a database that refuses the smells. Three requests: two that race and one that meets what they leave, or one that deletes meanwhile. |
| `parts` (MCParts / Parts) | see below | Ten parts that share nothing. `part` is chosen at first and the variables of the others stay, so the states add up instead of multiplying. |
| `gateway_own_response` | 2 requests, 2 threads | Violated: "every call has its own local variables" (`G/doc/FORWARD_REQUEST_EXPLAINED.md:476`). A late callback gives one client the response to another. |
| `client_orphan` (HttpClient / HttpClientOrphan) | 1 request, 2 threads | Violated: "close the socket to cancel all operations" (`G/src/http_client.cpp:177`). The chain's handler looks at `completed_`, the timer's closes the socket, the chain's connect opens it again: the connection of a completed request stays, with nothing left to end it. |
| `balancer_two_routes` | 2 routes of 2 backends | Violated: "N consecutive requests go to N different backends" for any route (`design.md:321`): all routes share one counter. |
| `reload_interruption` | 1 edit | Violated: "hot reload without service interruption" (`requirements.md:40`): while `apply_config` has emptied the router a path is answered 404. |
| `reload_stale` | 2 edits, fair | Violated: "new connections use the new configuration" (`design.md:283`): a second write within a second is never loaded. |
| `server_signal` | 1 connection, fair | Violated: "Press Ctrl+C to stop" (`G/tests/README.md:197`). |

The parts of the run `parts`:

| Part | Bounds | Properties |
|---|---|---|
| server | 2 connections, 2 threads, 1 signal, fair | Exactly one accept loop while the server runs, whatever errors it meets (`OneAcceptLoop`); once stopped it winds down in at most one more round (`StopEndsLoop`); every request is answered; a signal that catches no thread in the logger ends the program. |
| balancer | 3 callers of one route, 2 backends, counter modulo 4 | n consecutive selections of n healthy backends are distinct, across the wrap of the counter; a marked backend is skipped. 4 is a multiple of 1 and 2, as 2^64 is. With a number of backends that does not divide 2^64 the order breaks once in 2^64 calls. |
| analyzer | any set of 8 files, with cycles, an alias, all smells, a skipped folder, a file that cannot be parsed | A circle of plain imports is reported exactly if there is one, when the current directory is that of the code (`CyclesShowInCodeDirectory`). The server's is another: there it is never reported (`DeployedReportsNone`, section 4), which contradicts the scanner's README (section 5). |
| merger | 3 folders with good, foreign and undecodable files | What is exported are rows of the folder it is exported for, unless the last import came to nothing (`ExportIsOfFolder`). |
| photos | 7 files: a `.heic`, a `.heif` and a `.jpg` of one stem, an unreadable one, a Chinese name, a text | A photo is lost from its folder only if it is the `.jpg` twin of a HEIC file, and lost among the copies only if a HEIC file of its stem takes its name (`LossNeedsTwin`). |
| rag | 2 documents, 2 stores per process, 2 chunks retrieved, scores out of five, any number of processes killed while they save | Answers are made from documents of the store the manager has, unless it was replaced since the chain was built, and from as many as there are up to k, unless a process was killed while it saved (`AnswersUseStore`); a rating is too good only if a sample failed (`RatingNeverFlatters`). |
| adders | 3 threads, 2 additions each | The counter is exact (`CountIsExact`). |
| batch | 5 documents, one without a url, 2 threads, 2 batches | Both fields of a document are of the last batch, unless its thread met the one without a url before (`BatchIsWhole`). |
| cars | 3 training files (two rows of a month, the turn of a year, none), 3 files to predict (class 0, a class not in every file, none), 7 lists of methods (mean twice) | What a run has written, in whole or in part, has the dates and classes of its rows and lies within what was sold (`ForecastIsOfItsRow`). |
| skills | any set of 6 directories in any order, 3 words | A query that fits one skill only is answered by it (`OnlyMatchAnswers`). |

`design.md`, `requirements.md` and `tasks.md` are in `G/.kiro/specs/cpp-gateway/`.
Runs without deadlock checking are of systems that stop: all requests answered,
all edits made, main returned, a script ended.

### Fairness

*Threads and pool.* A thread that can take its next step takes it (weak). The
queue of an `io_context` is first in, first out, so a handler that is queued
again and again is not passed over for ever although the threads come and go
(strong, per handler). `wait_for` is bounded, so a blocked thread comes back.
*Clock.* An armed timer expires. *Network.* A resolution returns and an
operation on a closed socket fails; nothing is assumed of a backend: it may
accept and stay silent. *Clients, editor, signals* owe nothing; a client may
never finish its headers, and then it is promised no answer.
In `parts` the same fairness is stated of the part `server`; the other parts
have none, for their properties are about what has happened. `NobodyWaitsForever`
needs no fairness either: it says of every state that whoever waits, waits for
one who can go on.

## 4. Proofs

`tlapm <module>.tla`. All theorems hold for any requests, threads, backends,
routes and counter width; for any users, uploads, configurations, dates, files,
documents and folders. Each rests on an inductive invariant, which TLC checked
on the instances before it was proved.

| Module | Theorems (invariant or property) | The argument |
|---|---|---|
| `HttpClientProofs` | `ClientTyped`, `AtMostTwice`, `AlwaysWatched` (`OutstandingIsWatched`), `SecondCallOverlaps` (`SecondCallNeedsOverlap`), `ReopeningOverlaps` (`ReopeningNeedsOverlap`) | counting callbacks; who will end an operation |
| `LoadBalancerProofs` | `BalancerTyped`, `SkipsUnhealthy` (`UnhealthyIsSkipped`) | a copy holds what was healthy when it was made |
| `GatewayProofs` | `GatewayTyped`, `UsesClient`, `UsesBalancer`, `KeepsPromise` (`PromiseKept`), `DeadRoutesRefuse`, `MisdeliveryExplained`, `ClientKeepsItsWord` | whose frame is on which stack |
| `HotReloadProofs` | `ReloadTyped`, `RoutesFollow` (`RoutesFollowConfig`), `QuietSearches` (`QuietSearchIsRight`) | arrangements of a sequence compose |
| `HttpServerProofs` | `ServerTyped`, `OneLoop` (`OneAcceptLoop`), `StopWindsDown` (`StopEndsLoop`) | the accept loop is passed from hand to hand |
| `ScannerProofs` | `ScannerTyped`, `NothingIsOrphaned`, `ScansEnd`, `DuplicatesComeFromRaces`, `PartsAreExplained`, `AnswersHold` (`AnswersAreTrue`), `LoneRequestsDo` (`LoneRequestsSucceed`), `NobodyIsStuck` | what a request's place says of what it has seen |
| `RaceProofs` | `AddTyped`, `CounterIsExact`, `BatchTyped`, `BatchesAreWhole` (`BatchIsWhole`), `RoundRobin` (`ConsecutiveAreDistinct`) | the lock; a class of elements for each thread; a class of indices for each backend |
| `PartsProofs` | `DatesAreRecovered`, `MonthsStayApart`, `UploadsAreDisjoint`, `AnswersAreOfStore`, `ReportsAreHonest` (`RatingNeverFlatters`), `ExportsAreOfFolder`, `ColumnsOccurOnce`, `OnlyMatchesAnswer`, `SkillsTyped`, `PhotosAreKept` (`LossNeedsTwin`), `PhotosAreCounted`, `CarsTyped`, `ForecastsAreOfRows` (`ForecastIsOfItsRow`), `RagIsTyped`, `AnalyzerIsTyped`, `LinksArePaths`, `CyclesAreReported` (`CyclesShowInCodeDirectory`), `DeployedReportsNone`, `PartsUseParts`, `PartsTyped` (`PartsTypeOK`) | an argument for each program; folds by a least counterexample; a shortest circle |

*HttpClientProofs.*
`ClientTyped`: the state is well formed; type correctness alone is not
inductive, `Consistent` (an operation is outstanding exactly from start to end
of a chain, and no timer is set before) is needed with it.
`AtMostTwice`: no request is called back a third time. The invariant `Paid`
counts: callbacks run, plus handlers about to run one, never exceed the ends of
the chain and of the timer, one each; `OneHandlerEach` says that at most one
handler of each kind is about to. A handler may enter only by ending its chain or
its timer, which is why two suffice as a bound.
`AlwaysWatched`: what is outstanding has a timer, or a thread is in a handler of
the request (`WatchInv`); the handler that has cancelled the timer starts no
other operation, and the timer's closes the socket.
`SecondCallOverlaps`, `ReopeningOverlaps`: `OverlapInv` relates a callback that has
run, and a socket that the timer's handler has closed, to what remembers them:
`completed_`, or a handler that has not set it yet. A handler that begins its way to
the callback has found the flag clear (`BeginsUncompleted`), and so has one that
starts a connect; what remembers is then the other handler. Both hold for any number
of threads, as the code's four need, and say what the races are confined to; that
they do happen is the run `client_orphan`, and for the callback the bound of two.

*LoadBalancerProofs.*
`BalancerTyped`, and `SkipsUnhealthy`: no selection that filters the backends
after a mark can return the marked backend, while those that filtered before it
still may.

*GatewayProofs.*
`UsesClient`, `UsesBalancer`: every behaviour of the gateway is one of its
client's and of its load balancer's specification, which is what makes the
theorems above theorems about the gateway (`ClientKeepsItsWord` collects them).
`GatewayTyped`.
`KeepsPromise`: the gateway implements `GatewayPromise`. Needed on the way
(`GatewayInv`): a request on a stack has a thread to itself (`StackInv`); a
request has a backend from its selection on, and the client works only for such
requests (`ForwardInv`: otherwise a late callback could mark a backend that was
given to nobody); a set flag stands for a response, or for 502 from a backend that is
marked (`TruthInv`). Late callbacks are steps of this proof: whatever frame they
hit, they write a pair of response and mark that is consistent, so the promise
is kept although `ResponseIsOwn` is not.
`DeadRoutesRefuse`: a request that is queued while every backend of its route is
marked stays in `Refused`: the marks are never taken back, so it is still queued, or
about to select and find nothing, or answered 503. That it is
answered is liveness (`DeadRouteStaysDead`) and stays with TLC.
`MisdeliveryExplained`: a frame has no response before it is forwarded, and the
response of a backend in it was brought by a callback of the request whose
response it is (`LateInv`); only `CallbackHitsOther` brings one to another frame,
and it is late.

*HotReloadProofs.* `RoutesFollow`: while `apply_config` holds the lock, the rules
added and those still to be added are together an arrangement of the
configuration's, and those added are in order; after it they are sorted
(`RoutesInv`). The lemmas: arrangements compose (`ArrangementTransitive`) and
extend (`ArrangementExtends`); the first match of a sorted vector has the least
priority (`FirstMatchIsLeast`). `QuietSearches`: a search that has read a
configuration and was not torn still has the one in force (`SearchInv`).

*HttpServerProofs.* `OneLoop`: before main's first accept there is no loop; there
is one accept outstanding, queued or in the tail of its handler at most; and a
server that runs has one (`LoopInv`). Every step keeps the hand where it is,
passes it on, or drops it when `running_` is false. `StopWindsDown` follows from
the same invariant: with one hand the steps left can be counted.

*ScannerProofs.*
`ScannerTyped`: every id in use is below the next one to be handed out.
`NothingIsOrphaned`: not inductive, since a row is inserted long before it is
committed. `Kept` says that as long as a request has inserted a row, the project
is there; this is where `CommitDelete` has to wait, and where a delete that
loaded its children too early has to fail.
`ScansEnd`: the id of a row inserted and not committed is no committed scan's
(`FreshIds`), and two such ids differ (`DistinctIds`), so the smells committed
with a scan are those of no other. `Fits` adds what a request past its checks is
known to be: one that adds a collaborator never inserts a scan, and adds a user
who exists. The invariant is the conjunction of these, the type invariant and
the two properties (`ScannerInv`).
The others are about the histories that `MCScanner` keeps.
`DuplicatesComeFromRaces`: unless two requests were past the check at once, there
is one row of a user, or one request about to insert it (`RaceInv`).
`PartsAreExplained`: the upload that a scan has seen a part of was damaged, or a
crash came between (`PartInv`, which follows the upload from the disk through
the request to the scan). `AnswersHold`: where a request is in its handler says
which of its checks have been true at one of its moments (`MomentsInv`), and
every answer is the verdict of one such place. `LoneRequestsDo`: a request that
nobody has run beside was alone at all its moments, so that what it read still
holds (`LoneInv`).
`NobodyIsStuck`: for every request in progress the condition of its next step is true
(`Ready`), read off its place; except `CommitDelete`, which waits for rows that are
inserted and not committed, and whoever inserted one is ready. `Ready` repeats the
guards of the handlers' steps without ENABLED; that it says the same as
ENABLED is the other half of `NobodyWaitsForever`, which TLC checks in every state.

*RaceProofs.* `CounterIsExact`: the counter is the number of the additions
written, the copy of the thread between its read and its write is the counter
(the lock is held), and a thread that has ended has made all its additions; what
is printed is the size of the product of threads and iterations.
`BatchesAreWhole`: a thread visits the documents whose number is its own modulo
the number of threads, in ascending order and no others (`Walks`); those behind
it are of this batch, those before it of the last, and the one it is at may have
one field of each (`Stored`). The lemmas are about division by a constant:
no number of the class lies between one and the next (`NextOfClass`), and the
classes are disjoint and exhaust the documents. `RoundRobin` needs them too: the
selection that is m-th from the end was made at the index m before the next one, and
the index modulo the number of healthy backends is the backend's rank among them
(`TurnsInv`). The counter's wrap keeps this if that number divides 2^64
(`Wraps`), so the theorem is about 1, 2, 4, ... healthy backends; for another number
one backend may be returned twice running where the counter wraps. Its hypotheses are that all requests are for one route (`balancer_two_routes` refutes
it for two) and that the route names no backend twice. Two selections
with fewer than n of them from one to the other then have different ranks, since
equal ones are at least n indices apart (`ClassIsApart`).

*PartsProofs.* `DatesAreRecovered`: `recvermonth` inverts `washmonth` for every
month of every year. `MonthsStayApart`: different dates have
different numbers, so that no sales of two months are added. `UploadsAreDisjoint`:
`DailyFile.py` changes no line on two days.
`AnswersAreOfStore`: a chain that was built since the manager got its store
refers to it (`ChainIsOfStore`), a store in memory or on the disk has the index of its
documents unless a process was killed while it saved (`TornNeedsKill`), so that the
positions found are those of as many documents; and every operation that changes a
store takes the answer away. `ReportsAreHonest`: a mean of samples that have not failed is
half their sum, rounded down, so what is averaged is no more than what the
result is worth, and the level is monotone; it holds for the scores that the model
enumerates (`Scores`).
`ExportsAreOfFolder`: the table has the rows of the folder imported last, unless
that import came to nothing (`TableIsOfFolder`). `ColumnsOccurOnce`, which is
`MergerTypeOK`: no two rows of a mapping have one result header (`MappingsDiffer`), in
the file and in the code, so no header is made of two columns of a statement
(`MappedOnce`) or selected twice (`NamedOnce`).
`OnlyMatchesAnswer`: what is registered can be loaded, and of all that can be
loaded at least the name is registered once its turn has come (`Registered`); a
query that fits one of them only is found by every order of search. That a
least index exists is taken from the well-founded order of the numbers.
`SkillsTyped` is `SkillTypeOK`: registering adds a key, or none and no place either
(`OneKeyEach`).
`PhotosAreKept`: a photo without a twin is under its name until it is visited and
under its new name from then on (`Kept`); when visited it is copied under a
name that only twins share (`Copied`, `CopiesDiffer`). The case that needs
care is `a.jpg` visited after `a.heic`: the copies have the same name, and what
saves the HEIC photo is that its conversion has removed `a.jpg` by then
(`Removed`). The proof found that an earlier form of the property was
false: `a.heic` and `a.heif` are copied to one name too, which no instance had.
`CopyName` and the files of the instance come from there. `PhotosAreCounted` is
`PhotoTypeOK`: a visit takes one file off the list, counts at most one and adds at
most one copy (`VisitCounts`), so the copies are no more than the files, and those
tagged are copies (`Counts`).
Sums are folds over finite sets. Induction over a set of numbers or over the subsets of a
finite set needs no operator as a parameter (`NumbersInduction`, `SubsetsInduction`:
a least counterexample, from the well-founded order of the numbers and from
cardinality). With it the function that a fold chooses exists and has the equations
of a fold (`FoldExists`).
`ForecastsAreOfRows`: what the n-th training finds for a month lies between the sales
of the month and n times as much (`SoldByBounds`: the later rows are a part of all,
and n - 1 trainings have added them to the first). So the mean of the months of
a class, for class 0 of all classes, lies between the least sales and n times the
greatest, and rounded to a whole number it still does (`RoundedBetween`); each row
keeps its place, its class and, washed and recovered, its date. What is written
is all of this, its first rows, or nothing (`PredictedWell`).
`RagIsTyped` is `RagTypeOK`: every store has a chunk, since one is made only of a
list that is not empty, and no operation takes one away; what is retrieved is a
part of a finite store of at most k.
`AnalyzerIsTyped`: penalties are not negative and the score is cut at 0.
`LinksArePaths`: after a node has been folded in, the links are those of paths
through the nodes so far; at the end they are transitive, and any transitive
relation that has the edges has them all.
`DeployedReportsNone`: as deployed every edge goes from a module under `storage` to
one at the top, so no path comes back, whatever the files: the
scanner's README, which lists circular dependencies among the smells detected, is
not kept by any analysis. `CyclesAreReported`: in the code's directory a
component of two has a path each way, which follows imports of plain files and is
a circle; and of the walks that lead back to their start the shortest visits
different files (`ShortestCircle`).
`PartsUseParts`: a step of `MCParts` is one of the chosen part and leaves the
others alone; with it the types of the ten parts are that of the whole
(`PartsTyped`).

Assumed are only the ASSUMEs of the modules: the special values are none of the
requests, threads, backends, users, paths; routes are sequences of backends; the
modulus is positive; the threads that add are finitely many; a script runs, does
not run or raises; every folder of the merger has contents; the photo folder has finitely many files, none
has a date before its name, and no stem is a UUID that is yet to be drawn; files of sales
are finite sets of numbered rows, with dates `yyyymm` and numbers of cars; the documents are
finitely many files of some number of parts; a source file has finitely many imports,
classes, functions and blocks, and each import is an `import` or a `from`. Nothing else
can be read from a file that has an end, or from Python's syntax tree. No theorem
fixes the number of threads.

Only model-checked, and why:

- Liveness under fairness: `EveryRequestIsAnswered`, `SignalEndsMain`,
  `EveryRequestIsCalledBack`, `EveryRequestIsServed`, `NewFileIsApplied`, `NobodyHangs`,
  and `DeadRouteStaysDead` beyond its safety half. Out of the prover's reach.
- Of `NobodyWaitsForever` that a request which is `Ready` can take a step and the
  others cannot: it uses ENABLED.

## 5. What the models do not show

- Contents of requests and responses, the parser's limits, JSON. A response that
  does not fit the socket's buffer is sent on out of a string that has been
  destroyed (`http_server.cpp:52`, `:68`), and so is a request to a backend
  (`http_client.cpp:96`); that the text may be garbled is not in the models.
- Durations: only the order of the two timeouts is kept.
- Memory effects weaker than interleaving. The plain flags are read and written
  in single steps.
- More than one life of the server: its acceptor is never opened again.
- The scanner's registration, tokens and list of projects; more than one project.
- What language models, embeddings and RAGAS answer: any of a few outcomes.

Where the code disagrees with the repository's documentation, six times in a run (the
violations of section 3), and moreover, without a run of its own:

- The scanner's README lists `Circular Dependencies` (`:9`) and "CircularDependency |
  Critical | Module A imports B, B imports A" (`:71`) among what is detected
  (`Program/Python/architecture-smell-scanner/README.md`). As the server is deployed
  none is ever reported: module names are made relative to the current directory of the
  server (`analyzer.py:211`), so they begin with the storage folder and no import meets
  one. `DeployedReportsNone` proves it for any files.
- The merger's README says that it recognises the kind of bank
  (`Program/Python/bank_statement_merger/README.md:25`). `detect_bank` takes the first
  bank whose headers are all there (`main.py:187`), and all six headers of the
  demonstration's own statement of the Bank of China (`main.py:418-425`) are headers of
  ICBC too: it is read as one, and its columns are renamed by the wrong row.
- A backend that is too slow is answered 502, not the 504 of `requirements.md:86`:
  the client's timer fires a second before `wait_for` gives up and its callback
  makes every error a 502 (`gateway.cpp:148-152`).
- A failed backend is not followed by "the next available service"
  (`requirements.md:75`): the request fails, only later ones skip the backend.
- The warning about a changed port cannot appear: `config_` is overwritten before
  the comparison (`gateway.cpp:195-206`).
- `client_timeout_ms` is validated and used nowhere; a client that is silent keeps
  its connection for good (`http_server.cpp:24`).
- The route and the timeout of a request are read at two moments and may belong to
  two configurations (`gateway.cpp:133`).
- A store torn by a process that was killed in `save` is loaded without a complaint
  (`vector_store.py:240`) and answers from fewer or other documents.
- An error in writing the prediction of sales does not show in the way the program ends
  (`utilfile.py:124`).
- The mean algorithm, listed twice, counts later rows of a month again
  (`utilAlg_Mean.py:23`).
- The task `run_scan` of the scanner's worker is sent by nobody.
- The handler of an error in `addTags` raises itself: two values for three places
  (`addTimestampWatermarktoImgs.py:145`).
- `predictData` of the linear regression always raises: it uses a name before it
  is bound.
- The mapping configuration that the merger's demonstration writes into a folder
  is merged as a statement when that folder is imported.
- `listen_port` is narrowed to 16 bits before it is validated
  (`config_manager.cpp:82`).

## 6. Not modelled

The parts with the status `not_modelled` in `PROJECT.json` have the reason there.
Of the Python sources two thirds are one literal, the 12343 lines of test data of
`Program/Threads/race/esDemoData.py`, from which the model keeps which documents
have a url. The rest that no definition stands for is tests, pages and windows,
course homework, and calls of remote services whose only outcome is printed.

## 7. Plan

Written first, because it is the core: the gateway with its promise, hot reload
and the server. Then the programs in Python with state: the scanner, the merger,
the photo scripts, the RAG evaluation, the skills, the prediction, the threads.
Next:

1. `ConfigManager`: parsing and validation as operators (the narrowed port, the
   defaults, the required fields), composed with `HotReload` in place of its set
   of valid contents.
2. `TimeoutFunction`, `Singleton`, `LockPair`: the Threads programs in C++; that a
   result returned is the one the worker stored, that one object is created.
3. `FileLoopWatcher`, `ThreadControl`, `SignalTest`, `Duplicator`.
4. A composition of `HotReload` and `Gateway`, with routes that change under the
   requests.
