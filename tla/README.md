# A specification of uvicorn

TLA+ models of uvicorn's connections (HTTP/1.1 over httptools and over h11, HTTP/2,
WebSocket over two libraries), server life cycle and process supervision, checked with
TLC; the safety properties of all of them are also proved, with TLAPS, for every value of
their bounds.
The models are written from the source under `src/uvicorn/`; `PROJECT.json` maps every
definition to the lines it stands for.

## The system

uvicorn is an ASGI server. Everything inside one process runs on one asyncio event
loop: an action of a model is what happens between two suspension points (an `await`
that really suspends, or the return of a callback).

| component | state it keeps | operations | interacts with |
|---|---|---|---|
| HTTP/1.1 connection, `protocols/http/httptools_impl.py`, `flow_control.py` | parser, newest cycle, deque of queued cycles, keep-alive timer, read/write pause flags; per request a `RequestResponseCycle` | transport callbacks, parser callbacks, ASGI `receive`/`send`, end of the request task, `shutdown` | transport (close, write, pause), application, `ServerState` (connections, tasks, total_requests) |
| HTTP/1.1 connection, `h11_impl.py` | h11's two state machines and its buffer, newest cycle, keep-alive timer, pause flags | as above; the parser is pulled (`handle_events`) rather than calling back, also by the end of a response | the same, and `h11.Connection` |
| HTTP/1.1 connection, `zttp_impl.py` | as `h11_impl.py` | the same | `zttp.Connection` |
| HTTP/2 connection, `zttp_h2_impl.py` | a cycle per stream in a dictionary, keep-alive timer, shutdown flag, one write pause for all streams | frames of the parser, ASGI calls per stream, RST_STREAM, GOAWAY, `shutdown` | the same |
| WebSocket connection, `websockets_sansio_impl.py`, `wsproto_impl.py` | handshake and close flags, message queue, close timer, ping and pong timers, pause flags | frames, ASGI calls, timers, `shutdown` | transport, application, library object, `ServerState` |
| WebSocket connection, `websockets_impl.py` | that of the legacy library's `WebSocketServerProtocol` | coroutines of the library | the same |
| Lifespan, `lifespan/on.py`, `off.py` | receive queue, two events, failure flags | `startup`, `shutdown` (server); `receive`, `send`, return, raise (application) | server, application |
| Server, `server.py` | `should_exit`, `force_exit`, `started`, listening sockets, `ServerState` | startup, ticks of the main loop, shutdown, signal handler | lifespan, connections, event loop |
| Multiprocess supervisor, `supervisors/multiprocess.py` | list of processes, signal queue, `should_exit` | signal handlers, health checks over a pipe, rolling restart | worker processes |
| Reload supervisors, `supervisors/*reload.py` | one child, modification times, `should_exit` | scan, restart, shutdown | child process, file system |
| WSGI bridge, `middleware/wsgi.py` | send queue and event shared with a worker thread | `receive` loop, `sender`, `start_response` | connection, thread pool |
| Proxy headers, `middleware/proxy_headers.py` | trusted hosts | pure function of scope and headers | application |
| Configuration, command line, logging, imports | none that changes after start | sequential | everything |

The `ServerState` object is what ties connections to the server: a connection is in
`connections` from `connection_made` to `connection_lost`, the task of a request is in
`tasks` until it is done, and `Server.shutdown` waits for both to become empty.

### What is hard about it, and what correctness means

* **HTTP/1.1 connection.** Data arrives in chunks that call the parser's callbacks any
  number of times; the application receives and sends from tasks of its own; the client
  pipelines requests, disconnects, half-closes; writes are paused; the keep-alive timer
  fires; the server shuts down, and all of it interleaves. Correct: requests reach the
  application one at a time in order; the timer never closes a connection that owes a
  response; reading that is paused will be resumed; a waiting `receive` is woken; an
  unfinished response ends the connection; queued requests start; tasks end.
* **Lifespan and server.** Signals arrive between any two steps, binding may fail in
  each of its branches, a connection's `shutdown()` may raise, and clients pipeline requests
  behind the one the sweep finds. Correct: the application is told to shut down, only after
  everything the server asked to stop has stopped, on every way out that is not an exception
  leaving `_serve`; a swept connection answers what it had read and nothing later; with a
  timeout the server always exits.
* **Multiprocess.** Answers to health checks may be old, workers may die, hang or fail to
  start at any moment, and signals may come while a handler waits. Correct: no worker is
  lost, none is retired before its replacement serves, hung workers are found, SIGTERM
  is never lost.
* **h11.** As httptools; in addition the next cycle is started by the end of the response,
  inside the application's `send`, which then handles the buffered events: a request or an
  upgrade is taken up in the middle of an application call. Correct: what takes the
  connection away from its client comes only between requests; data held back in h11 is
  always brought back.
* **HTTP/2.** Streams end in many ways (answered, reset, aborted, failed, lost), in any order
  with frames and with each other. Correct: each is taken out of the dictionary and counted
  once; one stream's end spares its siblings; an idle connection has a timer or is on its
  way out.
* **WebSocket.** The closing handshake from both sides with its timer, pings and pongs,
  back-pressure through the queue, a handshake that may be answered by the application, the
  library, a 500 or shutdown, and answers and closes that the library refuses after the
  protocol has noted them. Correct, where nothing was refused: the connection never stays
  open once its end has begun, reading is paused only for the application, nothing follows
  the disconnect; and in every case the keepalive loop runs exactly once.
* **Reload.** Changes between an import and the next scan. **WSGI.** Two threads around one
  queue and one event.

The hazards are listed line by line in `PROJECT.json`, with the property that would
catch each, or why none does yet.

## The modules

| module | what it is |
|---|---|
| `Pipelining` | abstract specification: what a connection promises about pipelined requests, in four counters; with the proof of what its moves add up to |
| `HttpToolsConnection` | one HTTP/1.1 connection with its cycles, application and transport |
| `HttpToolsConnectionProofs` | the TLAPS proofs about its types, order, timer and refinement |
| `HttpToolsReceiveProofs` | the TLAPS proofs about what its tasks wait for |
| `MCHttpTools` | its instance for TLC |
| `Lifespan` | the lifespan protocol, both sides |
| `Server` | the server process; extends `Lifespan` |
| `MCServer`, `ServerProofs` | its instance for TLC, and the TLAPS proofs of its safety properties |
| `Multiprocess`, `MCMultiprocess` | the supervisor, its workers and pipes |
| `MultiprocessProofs` | the TLAPS proofs of its safety properties |
| `H11Connection`, `MCH11` | one HTTP/1.1 connection over h11; implements `Pipelining` too |
| `H11Proofs` | the TLAPS proofs of its safety properties and of the refinement |
| `H2Connection`, `MCH2` | one HTTP/2 connection, its streams and their applications |
| `H2Proofs` | the TLAPS proofs of its safety properties and of `EndSparesSiblings` |
| `WebSocketLifecycle` | abstract specification: the phases of a WebSocket connection and when it hears messages |
| `WebSocketBase` | the state and the handlers that the two WebSocket protocols share, and their properties |
| `WebSocketsSansIO`, `Wsproto` | the protocols; each extends `WebSocketBase` with the handlers of its own |
| `MCWebSocket` | both protocols side by side, as one instance for TLC and for the proofs |
| `WebSocketProofs` | the TLAPS proofs of their safety properties and of the refinement |

Operators named in a comment as a *mutation* of another are plausible bugs in the code
that operator models; substituting one must break the property listed with it in
`PROJECT.json`, which is how each property is known to speak about the code.

### HttpToolsConnection

The variables are the attributes of `HttpToolsProtocol` and `FlowControl`, and `cycles`
holds the `RequestResponseCycle` objects by arrival number. `data_received` does not
suspend but calls back several times; it is split into `DataReceived`, the callbacks and
`DataConsumed`, and while `feeding` holds nothing else may run. A request task is followed
by `stage`: queued, running, or suspended in `drain()` before either message of the 500
response. `receive` is two actions because it suspends (`Receive`, `ReceiveWakes`); `send`
is one, taken only when its `drain()` has returned. The application may call both from two
tasks, in any order, may return, return a value, or raise.

Abstracted: header names and values (whether a header closes the connection, or is
illegal, is a choice), the bytes and framing of a response, the request body (counted in
units), the scope. The 503 application of `limit_concurrency` is one of the applications.
A `send` that is refused and raises without a change, or returns silently after a
disconnect, is a stuttering step. `transport.write` may call `pause_writing` before it
returns. `transport.close()` is followed by `connection_lost` at some later time, or never
if the client does not read.

### Lifespan and Server

`phase` is where the coroutine `Server._serve` is suspended. Steps of the coroutine that do
not suspend are one action: `Proceed` runs through `_wait_tasks_to_complete` up to its next
real wait, then `FinishShutdown`. The signal handler `HandleExit` may run anywhere.

Binding is `Listen` (the socket listens, clients may connect, `create_server` has not returned),
then `Bind`; or `BindFails`, the host and port branch, which catches the `OSError` and tells the
application; or `BindRaises`, the branches for sockets, a file descriptor and a Unix path, from
which it leaves `startup()`, possibly with a socket already listening. `BeginShutdown` is the
sweep over `connections`: either every `shutdown()` returns, or one of them raises after any part of
the others was told, and the exception leaves `_serve`. `raised` records either exception.

A connection is abstracted to what the server can tell: where it is between `connection_made`
and `connection_lost`, whether the task of an unanswered request runs, and whether it was
upgraded. Its actions are those of `HttpToolsConnection` (and, for `websocket`, of
`WebSocketBase`) seen from outside. Requests are counted: `arrived` were read, `answered`
have their complete response, the rest is running or queued. The sweep clears `keep_alive` of the
newest cycle only, so `told` is the number of that request: `AfterResponse` starts the next queued
request until that one is answered, and closes behind it. Tasks that outlive their response or
their WebSocket are counted in `background`. `connection_lost` tells the newest cycle only, so
that a `lost_busy` connection with a request queued may still complete a response.
Which connections may raise in the sweep (`MayRefuse`) is what `WebSocketBase.Shutdown` and
`H11Connection.Shutdown` show: a WebSocket before its library is open, a request whose
application swallowed the error of a body h11 refused, and a connection already closing.
Connections that stay open after such a request's task has ended are in `H11Connection` only, and
HTTP/2 connections, with many requests running at once, in `H2Connection` only.

`WaitClosedWaits` is the one difference between event loops that matters: whether
`Server.wait_closed` waits for the transports accepted (asyncio from Python 3.12) or returns at
once. Re-raising captured signals after `serve`, the date header and `callback_notify` are left
out. The cancellation of tasks at the timeout enables their end and nothing else, since
the code does not wait for it.

### Multiprocess

`pc` is where the supervisor's only thread is. `proc` holds the processes with both
directions of their pipes: `pings` not yet answered and `pongs` not yet read, so that an
answer can be read by a later question. `Fault`s are crashes, hangs, and answers that come
after the deadline of a health check. A hung process neither answers nor reacts to
SIGTERM. SIGINT and SIGBREAK have the handler of SIGTERM. A dead process the supervisor has
let go of gives its id back, which is what makes `NoOrphans` a statement about every process.

### H11Connection

The cycle is that of httptools and the actions are laid out alike; what differs is under it.
`conn` is the `h11.Connection`: the states of the two sides, whether the connection can be
reused, and whether bytes are held back behind a request. h11 itself is external: `Fire` is
its table of state-triggered transitions, `Ours` and `Theirs` a send and a received event,
`Failed` the ERROR state that a refused send leaves behind. There is no queue: h11 answers
PAUSED at the end of a request until `start_next_cycle`, which `OnResponseComplete` calls, and
the `handle_events` it calls next is `feeding` becoming TRUE inside the application's send. A
refused send raises into the application, which may swallow the exception and go on, so
every send has a failing disjunct. `shut` records whether `shutdown()` returned or raised.

### H2Connection

`cycle` holds the `RequestResponseCycle` of each stream by number, `cycles` the streams in the
protocol's dictionary: a reset stream leaves the dictionary while its task goes on.
`OnStreamClosed` is used by whatever removes a stream, and `OnResponse` is the `on_response`
callback with the no-op that replaces it. Suspensions in `drain()` are explicit (`SendWaits`,
`Drained`), because a reset does not end them. zttp's 64 KiB windows keep the buffered body
at or below `HIGH_WATER_LIMIT` (the source says so at line 171), so that reading is never
paused and the body is a Boolean.

### WebSocketBase, WebSocketsSansIO, Wsproto

The two protocol classes are, for more than half of their lines, the same code: state,
keepalive, flow control, the end of the task, `connection_lost` and `shutdown` are actions of
`WebSocketBase`, and the modules that extend it add what differs. The websockets library
echoes a close frame by itself and keeps a denial response until it is complete; wsproto
leaves the echo to the protocol, reports a malformed frame as a close, and sends a denial
response piece by piece. The websockets library hands on frames that come before the handshake
is answered, wsproto keeps them until it is. The initial state is inside the first
`data_received`, since the HTTP protocol's upgrade feeds the handshake request at once. The
library's object is `conn`; messages are counted (`heard`), fragments are not told apart, and the
queue holds kinds of event. The ping interval is always configured, the ping timeout or not.

A call of the library that raises is one of two things. Where nothing was changed before it, the
application gets the exception, may go on, and there is no action. Where flags or the queue were
changed before it, there is one: `AcceptRefused` (`handshake_complete` set, `AcceptConnection`
refused for a subprotocol the client did not offer or a header), `DenialRefused` (a 1xx status
or a header of the denial's head), and `CloseRefused` (an invalid code or a reason too long,
which `WebSocketsSansIO` meets with the disconnect queued and `close_sent` still FALSE, and
`Wsproto` with `close_sent` TRUE and no timer set). Each sets the history variable `refused`, and the
application may catch the exception and go on. An answer refused on a transport that is
closing already changes nothing a client can see and does not set it.
`MCWebSocket` takes both by INSTANCE and chooses one initially; its next-state relation
is the shared actions or the chosen protocol's.

`WebSocketLifecycle` is stated over what the client has been sent: `Phase` is read from `conn`,
the library's state, and not from the protocol's flags, which a refused answer leaves ahead of
it. Its moves are `Answer`, `Hear`, `StartClosing` and `Close`.

## The runs

| run | checks | bounds |
|---|---|---|
| `http_tools` | the safety invariants and `ImplementsPipelining` | 3 requests, 1 unit of body, high-water mark 0 |
| `http_tools_live` | `QueuedRequestsStart`, `RequestTasksEnd`, `ShutdownCloses` | 2 requests, no body, 100-continue on and off |
| `http_tools_disconnect`, `http_tools_upgrade` | a test and a sentence of the docs, violated | 2 requests, 1 unit of body |
| `server` | draining, lifespan, exit | 2 connections, 2 requests on one of them, limit 2, graceful timeout |
| `multiprocess` | orphans, rolling restart, hung workers, SIGTERM | 2 workers, 2 signals, 1 fault, 2 pings per wait |
| `h11` | the safety invariants and `ImplementsPipelining` | 2 requests, 1 unit of body, high-water mark 0, 100-continue on and off |
| `h2` | stream accounting, idling and draining, `receive`, isolation of streams | 2 streams, bodies, with and without trailers |
| `h2_live` | `StreamTasksEnd` | 2 streams, no bodies or trailers |
| `h2_timer` | a sentence of the docs, violated | 2 streams |
| `websocket` | all properties of `WebSocketBase`, for both protocols | 3 messages; 4 events in a queue an application adds refused closes to |
| `wsproto_shutdown` | a sentence of the docs, violated | 1 message |

Why the bounds are enough to be interesting: three requests are one in progress, one that
is started from the queue and one that stays queued; a high-water mark of 0 with one unit of
body makes every buffered chunk pause reading; `KeepAlives` is `{TRUE}` in the cfgs because
`SendStart` already chooses a `connection: close` header, which clears the same flag. Two
server connections are one that was swept and one that came late, or two of which the sweep
reaches only one; a limit of two requests lets the limit, a signal, or both end the main loop;
two requests on one connection are one running at the sweep with the last one queued behind
it, or with one that comes too late. (With three requests, and in its safety with two on each
connection, the server was checked once, without error; these take minutes.) Two workers and
two signals make a rolling restart meet SIGTERM, SIGTTIN, SIGTTOU or a second SIGHUP, with
stale answers left over from the first wait. Over h11 a second request is where everything happens: it is held back, brought back by the first
response, or finds the connection closing. (An instance with three requests and 4.1 million
states was checked once, without error, and is not among the runs because it takes minutes.)
Two HTTP/2 streams are one that ends and one that must not notice, or that must. Three
messages are one being received, one that pauses reading and one that arrives in the same
chunk; four queued events let connect, the messages and an early disconnect meet, and
`MaxQueue` stops an application that retries a refused close for ever.

Deadlock is not checked for the connections: a connection that is lost, with its tasks
ended, has nothing left to do. `Server` and `Multiprocess` say explicitly where they may stop
(`Exited`, `Stopped`) and are checked for deadlock.

### What the properties say

* `ProcessedInOrder`, `ImplementsPipelining`: pipelined requests are processed one at a time,
  in order, the next one in the very step that completes the one before it.
* `TimerOnlyWhenIdle`: the keep-alive timer is not pending with a request unanswered or queued.
* `NoReadDeadlock`: paused reading always has a request left that will resume it.
* `NoAbandonedResponse`: a finished request task leaves a complete response or a closing
  connection.
* `NoLostWakeup`, `EndOfBodyIsFinal`: the two directions of `message_event`: set whenever there
  is something to learn, and not set again after the end of the body.
* `SweptConnectionsDrain`: a connection that `Server.shutdown` swept answers the requests it had
  read, the queued ones included, and closes with the last of them: it takes up none that
  came later and never goes idle.
* `SweptConnectionsFinish`, `FailedStartupNeverServes`: what has ended before the application is
  told to shut down, and what a failed startup never gets.
* `LifespanIsTold`: a server past its startup tells the application before it exits, with the
  exceptions named: a crashed lifespan task, a forced exit, and an exception that left `_serve`.
* `NoOrphans`, `RetiredOnlyWhenReplaced`: the supervisor's bookkeeping, and SIGHUP's promise.
* `OnlyBetweenRequests`, `ClientNeverStuck` (h11): what takes the connection away comes between
  requests; paused reading, data held back and an ended task never leave a client waiting.
  The latter speaks of connections h11 has not refused: after an application has sent a
  body shorter than announced and swallowed the error, the connection does stay open.
* `ReceiveContract` (h11, HTTP/2): when a waiting `receive` is due to wake, and that a finished
  one is woken only by the end; in HTTP/2 also that the loss reaches every stream.
* `StreamsAccounted`, `IdleOrClosing`, `EndSparesSiblings` (HTTP/2): the dictionary and the count
  against the tasks, the connection without streams, and the connection with others.
* `PausedOnlyForMessages` (WebSocket): reading paused on an open connection always has an event in
  the queue whose `receive` resumes it, and never outlasts the moment the close reply is awaited.
  That the event is a message is claimed where nothing was refused: a refused close of the
  websockets library can leave a disconnect there alone.
* `NothingAfterDisconnect` (WebSocket): no message behind a disconnect, where nothing was refused.
* `KeepaliveRuns` (WebSocket): the two timers that re-arm each other, without exception.
* `NeverLeftOpen` (WebSocket): a connection whose end has begun is closing or bounded by the
  close timer; where the close or the answer before it was refused, it is when its
  application ends.
* `ImplementsLifecycle`: both protocols answer the handshake at most once, take no message once a
  close frame was sent, and never take a close back, as the client sees it.
* Liveness: `QueuedRequestsStart`, `RequestTasksEnd`, `ShutdownCloses`, `ExitsWhenAsked`,
  `HungIsReplaced`, `TermStops`, `StreamTasksEnd`, `TaskEnds`.

### What the violation runs show

1. `DisconnectWakesReceive`: `connection_lost` tells only the newest cycle, which with a
   pipelined request is not the one whose application is waiting in `receive`.
2. `UpgradeWaitsItsTurn`: a pipelined WebSocket upgrade takes the transport at once.
3. `TimerOnlyWhenIdle` of `H2Connection`: a RST_STREAM that empties the dictionary arms the
   keep-alive timer in the middle of a chunk, and a request behind it in the chunk does not
   cancel it: the timer closes a connection with a request in progress.
4. `ShutdownFinalizes`: `shutdown()` of a wsproto connection with a denial response in progress
   raises `LocalProtocolError` through `Server.shutdown`'s loop and leaves the connection open; so
   does one whose accept or denial the library refused while the application goes on.

Other things the models show, for which no run is kept:

* The exception of the fourth finding leaves `Server._serve`, so that a server stopped by CTRL+C
  exits without `lifespan.shutdown`; `LifespanIsTold` excepts it by `raised`.
* Only a host and port that cannot be bound exit with `STARTUP_FAILURE`: a path, descriptor or
  socket that cannot be listened on is an exception out of `startup()`, and the application,
  which has started, is never told. `docs/release-notes.md` announces one code for all of them.
* After a refused `websocket.close`, an application that catches the exception finds the
  disconnect in its queue with the connection open: over the websockets library, messages queue
  up behind it; over wsproto, the close counts as sent, no timer bounds it, and the connection
  stays open for as long as the application runs.
* A httptools response completed before its request has arrived leaves the connection
  without a keep-alive timer as soon as the rest of the request arrives.
* A connection whose `connection_made` runs after the sweep of `Server.shutdown` is never asked
  to close and is waited for; with asyncio's `wait_closed` from Python 3.12 on, a second CTRL+C
  does not end the wait for an open connection.
* `H11Connection.Shutdown` raises, like wsproto's, where h11 is in its ERROR state on a connection
  that is still open, which takes an application that swallows what `send` raises.
* A WebSocket client that answers its pings is failed with 1011 when the application leaves
  reading paused for longer than the ping timeout: the pong is not read.

### Fairness, and why

* `HttpToolsConnection`: `data_received` returns; a callback or a task that is ready again and
  again runs (asyncio's ready queue is first in, first out, hence strong fairness: data
  that keeps arriving cannot starve it); a client behind with reading reads on or goes
  away (TCP timeouts); an application returns in the end. The last is an assumption on the
  application, under which `RequestTasksEnd` is about the part uvicorn adds: the `drain()` of
  the 500 response. It also means that the first finding above is not visible in that
  property: an application that only waits for `http.disconnect` does not return.
* `H2Connection`: `data_received` returns, a client behind with reading reads on or the connection
  is lost, a suspended `drain()` that could return again and again does, and an application
  that can end does. An application suspended in its own send cannot end: that its wait ends is
  the part `StreamTasksEnd` shows.
* `WebSocketBase`: callbacks, timers and ready tasks run, a closing transport is lost in the end,
  and an application that was told of the disconnect and is not suspended in a send ends.
* `Server`: binding succeeds or fails, the loop resumes a coroutine whose wait is over, the timeout expires, the lifespan
  application answers each event by a message or by ending. Nothing is assumed of clients
  and request tasks.
* `Multiprocess`: the supervisor runs; a worker that is not hung answers pings and exits when
  told. Where the supervisor joins a hung worker it stays there (`JoiningHung`), because
  `join()` has no timeout; the liveness properties name that exception.

## The proofs

`HttpToolsConnectionProofs` proves, for every value of the constants that satisfies
`ConstantsAssumption`:

* `Invariance`: the inductive invariant `IInv`.
* `TypeCorrect`, `InOrder`, `TimerIdle`: `TypeOK`, `ProcessedInOrder` and `TimerOnlyWhenIdle` hold.
* `Refinement`: the connection implements `Pipelining`.

`HttpToolsReceiveProofs` extends it and proves `ReceiveInvariance` (the invariant `RInv`), and
from it `ReceiveWakesUp`, `EndIsFinal`, `NeverAbandoned` and `ReadingResumes`: `NoLostWakeup`,
`EndOfBodyIsFinal`, `NoAbandonedResponse` and `NoReadDeadlock` hold. With these every safety
property of the run `http_tools` is a theorem.

`ProcessedInOrder` is not inductive: nothing in it says that the head of the pipeline is the
request right after the one being answered. `IInv` adds that the pipeline holds exactly the
newest cycles in order (`PipelineShape`), which cycles are created, queued and started
(`StageShape`), that every started cycle but the last is answered and that one is in
progress while others wait on an open connection (`Progress`), where the parser can be
(`ParserShape`), when the timer can be set (`TimerShape`), and that `total_requests` counts the
answered cycles (`Counting`), which the refinement needs. The central step is
`CompleteResponseShape`: a response completes only for the last started cycle, so starting the
head of the pipeline keeps the order. `RInv` adds to it one predicate on each cycle alone
(`Awake`: the event is set when there is something to tell, and not set again after the
end of the body; `Finished`: a task that is over has answered), that the parser still owes
the end of a request it is inside of unless that is answered (`EndToCome`, without which
another chunk could wake a finished receive), and that paused reading means the last
started response is not complete (`Pausing`, the witness of `NoReadDeadlock`). The lemmas of
the first module come in three layers (types, shape,
refinement), each with one lemma per group of actions.

`WebSocketProofs` proves of both WebSocket protocols (`MCSpec`), for all values of the constants
that satisfy `BoundsAssumption`:

* `Invariance`: the inductive invariant `IInv`.
* `TypeCorrect`, `ReadingResumes`, `DisconnectIsLast`, `KeepaliveNeverStops`, `ClosingIsBounded`:
  `TypeOK`, `PausedOnlyForMessages`, `NothingAfterDisconnect`, `KeepaliveRuns` and
  `NeverLeftOpen` hold.
* `Refinement`: the connection implements `WebSocketLifecycle`.

With these every property of the run `websocket` but `TaskEnds` is a theorem. None of them is
inductive, since the handlers ask the protocol's flags where the properties speak of the
library's state. `OpenShape` ties the two together: on an open transport, until a close is marked
as sent, `handshake_complete` and the denial determine `conn`, but for an answer that the library
refused; afterwards a `close_timer` is set, unless the library refused the close.
`KeepaliveShape` adds that no timer exists before the handshake is accepted, `FeedingShape` that
frames handled while no close was sent come over an open transport, over wsproto only once the
handshake is complete, and that the queue is empty until there is a task. `QueueShape` says
that no disconnect is queued or received while the end has not begun and nothing was refused
(`Calm`), and that reading is paused only then or after a refusal, with something in the
queue. Each part is preserved by a lemma with one step per handler; for the queue,
`QueueEffect` shows that all handlers but three keep it or end it with a disconnect as the
connection stops being `Calm`, so that the sequence is reasoned about in those two cases and
the three.

`ServerProofs` proves of `Server` with its `Lifespan`, for any set of connections, any number of
requests pipelined on each, any limit and with or without a timeout (`ServerAssumption`):
`Invariance` (`IInv`), `TypeCorrect`, `Drains`, `Finishes`, `NeverServes` and `TellsLifespan`:
`TypeOK` and the four other invariants of the run `server` hold.
`SweptConnectionsDrain` is inductive once `Owing` ties the counters to the connection: a request
task runs only while a request that was read is unanswered, and the sweep tells a request that
was read, so the connection that still answers is before the request it was told and the one
that reaches it closes. `SweptConnectionsFinish` speaks of the moment `lifespan.shutdown` is
sent, two loops after the sweep; `ShutdownShape` adds what each of these loops leaves behind when
it is not forced, and that nothing is swept or sent before the shutdown begins.
`StartupShape` is what a server past its startup knows of the answer. A sweep that raises
leaves `swept` with the connections that were told, and the two theorems about them hold of these.

`MultiprocessProofs` proves, for any number of workers, signals, faults and pings
(`MultiprocessAssumption`): `Invariance`, `TypeCorrect`, `LeavesNoOrphans` (`NoOrphans`) and
`RestartKeepsCapacity` (`RetiredOnlyWhenReplaced`). The latter depends on what is in the pipes:
the supervisor concludes that a worker has started from an answer that may be old, so
`AnswersTrue` says that an answer "started" in a pipe was and stays true of the process behind
it, and `ReplacementKept` that nobody tells a replacement to end. `ListShape` keeps the list free of
duplicates, so that retiring one slot retires one worker, and its length below the number of
process ids; `FreeExists` derives, through the cardinality of the list, that the `CHOOSE` of a free
id has something to choose. `IndexShape` keeps the loops inside a list that SIGTTIN and
SIGTTOU change.

`H11Proofs` proves, under `ConstantsAssumption`: `Invariance`, `TypeCorrect`, `BetweenRequests`,
`NeverStuck`, `Receives` and `Refinement`: every property of the run `h11` holds. uvicorn keeps no
state of its own from which these could be read: it asks h11. `ConnShape` is which
combinations of h11's two states occur, on an open connection and on a closing one, and
`Progress` what they say of the newest cycle: our side is in a response exactly while that cycle
is unanswered, the other side in a body only while the cycle awaits its end. `StageShape` makes the
newest cycle the only one that can be unanswered, `Counting` ties the count to it,
`Attended` says who will resume reading, `ModeShape` that events are handled on open connections and
that an upgrade finds nothing in progress. The steps of a task, five of which can send an answer,
are first reduced to their six outcomes (`TaskSteps`, `NextIsStep`), and h11's transitions to what they
make of the four fields (`OursFacts` to `NextCycleFacts`).

`H2Proofs` proves, for any number of streams: `Invariance`, `TypeCorrect`, `Accounted`, `IdleCloses`,
`Receives` and, as an action property, `SparesSiblings`: every property of the run `h2` holds. That
each stream is counted once is `Counted`, the count as the cardinality of the set of streams that
are over, which every step leaves alone or extends by one that was not (`CountsOneStep`).
It needs `CallbackShape`: `on_response` is still to be called exactly as long as the stream is
not over, which is what the no-op that replaces it achieves, and `Dictionary`, without which
the loss of the connection would not reach every stream (`Told`).

`Pipelining` proves of itself (`Promises`) that at most one request is in progress, and that on an
open connection a request waits only behind one that is. `Promised`, in
`HttpToolsConnectionProofs` and in `H11Proofs`, carries this over to the two HTTP/1.1 connections
by their refinements: it is the sentence of `docs/server-behavior.md` on pipelining. The
inductive invariant is `Accounted`; `WhileOpen` shows that the steps of an open connection keep
it, `OnceClosing` that the steps that close one do. This module has no run of its own: the runs
`http_tools` and `h11` check the connections against it.

In every one of the connections' and servers' modules the invariant was checked by TLC on the instance of the
run before it was proved, and is inductive as a whole, each part with the help of others.

Only model-checked: the liveness properties `QueuedRequestsStart`, `RequestTasksEnd`, `ShutdownCloses`,
`ExitsWhenAsked`, `HungIsReplaced`, `TermStops`, `StreamTasksEnd` and `TaskEnds`, because fairness and
ENABLED are out of the prover's reach. Every invariant, every action property and every
refinement that a passing run checks is also a theorem.

## Not modelled, and the plan

Not modelled, with the reason:

* `zttp_impl.py` and the choice between it and HTTP/2: the cycle of `h11_impl.py` over a parser
  whose states are compiled code outside the repository.
* `websockets_impl.py`: deprecated, and driven by the legacy library's own coroutines.
* The WSGI bridge (deprecated in favour of a2wsgi): one request's queue and event between the
  loop and a worker thread. The reload supervisors: for development, one polling loop around one
  child, and what they can miss depends on the file system.
* Proxy headers: a pure function, which the tests cover case by case.
* Configuration, command line and imports (sequential, no state that changes), logging and
  types, the choice of an event loop, `message_logger` and `asgi2` (no state), the deprecated
  Gunicorn worker classes, `limit_concurrency`'s count (it chooses the application of a request
  and touches no state of the connection).
* The bytes of responses and of frames, in every module.

What is left to do, in the order in which it is worth doing:

1. Proofs: the safety part of what the liveness properties rest on (that a step is enabled
   whose fairness they assume, stated without ENABLED), and more of what the invariants
   already contain as properties of their own.
2. HTTP/2 connections in `Server`, whose sweep leaves many requests running on one connection.
3. `WSGIBridge` and `Reload`.
