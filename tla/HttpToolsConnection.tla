------------------------ MODULE HttpToolsConnection ------------------------
(***************************************************************************)
(* One HTTP/1.1 connection of uvicorn's httptools protocol                 *)
(* (uvicorn/protocols/http/httptools_impl.py and flow_control.py): the     *)
(* HttpToolsProtocol, the RequestResponseCycle of every request parsed on  *)
(* it, the asyncio transport under it and the ASGI application above it.   *)
(*                                                                         *)
(* Everything runs on one event loop, so an action is what happens between *)
(* two suspension points.  A chunk of data is fed to the parser without    *)
(* suspending, but calls back any number of times: "feeding" is TRUE from  *)
(* the first line of data_received to its return, and only the parser's    *)
(* callbacks may happen meanwhile.                                         *)
(*                                                                         *)
(* The application is free to call receive and send in any order, from two *)
(* tasks of its own (a reader and a writer, as ASGI frameworks do), to     *)
(* return at any point, and to raise.  The 503 application of              *)
(* flow_control.service_unavailable is one such application.  A send that  *)
(* is refused (wrong message type, too many bytes) raises and changes      *)
(* nothing, and a send after a disconnect returns silently: both are       *)
(* stuttering steps and have no action here.                               *)
(***************************************************************************)
EXTENDS Integers, Sequences

CONSTANTS
  MaxRequests,       \* bound: requests the client sends on the connection
  MaxBody,           \* bound: units of request body buffered in one cycle
  HIGH_WATER_LIMIT,  \* units of buffered body above which reading is paused
  KeepAlives,        \* what should_keep_alive() may answer for a request
  Expects,           \* whether a request may carry "Expect: 100-continue"
  WebSockets         \* a ws_protocol_class is configured

ASSUME ConstantsAssumption ==
  /\ MaxRequests \in Nat \ {0}
  /\ MaxBody \in Nat
  /\ HIGH_WATER_LIMIT \in Nat
  /\ KeepAlives \subseteq BOOLEAN
  /\ Expects \subseteq BOOLEAN
  /\ WebSockets \in BOOLEAN

VARIABLES
  cycle,             \* number of the newest cycle, 0 for None
  cycles,            \* the RequestResponseCycle objects, by arrival number
  pipeline,          \* the deque of queued cycles, next to start first
  keep_alive_timer,  \* timeout_keep_alive_task is scheduled
  feeding,           \* inside data_received
  parser,            \* between two requests, inside a head, or after a head
  transport,         \* the asyncio transport: open, closing or lost
  read_paused,       \* FlowControl.read_paused
  write_paused,      \* FlowControl.write_paused
  upgraded,          \* the transport belongs to a WebSocket protocol
  shutting_down,     \* Server.shutdown has called shutdown()
  total_requests     \* server_state.total_requests, this connection's share

requests == <<cycle, cycles, pipeline, keep_alive_timer, total_requests>>
flow == <<read_paused, write_paused>>
mode == <<feeding, parser, upgraded, shutting_down>>
vars == <<requests, flow, mode, transport>>

Requests == 1..MaxRequests

(* Where run_asgi is: not created, waiting in the pipeline, in the
   application, waiting for drain() before the head or before the body of
   the 500 response, or returned. *)
Stages == {"none", "queued", "running", "start_500", "body_500", "done"}

Cycle == [
  stage : Stages,
  receiving : BOOLEAN,               \* a task waits in receive()
  disconnected : BOOLEAN,
  keep_alive : BOOLEAN,
  waiting_for_100_continue : BOOLEAN,
  body : 0..MaxBody,
  more_body : BOOLEAN,
  message_event : BOOLEAN,
  response_started : BOOLEAN,
  response_complete : BOOLEAN,
  end_received : BOOLEAN]            \* history: told more_body = False

NewCycle(stage, keep_alive, expect) == [
  stage |-> stage, receiving |-> FALSE, disconnected |-> FALSE,
  keep_alive |-> keep_alive, waiting_for_100_continue |-> expect,
  body |-> 0, more_body |-> TRUE, message_event |-> FALSE,
  response_started |-> FALSE, response_complete |-> FALSE,
  end_received |-> FALSE]

Init ==
  /\ cycle = 0
  /\ cycles = [c \in Requests |-> NewCycle("none", TRUE, FALSE)]
  /\ pipeline = <<>>
  /\ keep_alive_timer = FALSE
  /\ feeding = FALSE /\ parser = "between"
  /\ transport = "open"
  /\ read_paused = FALSE /\ write_paused = FALSE
  /\ upgraded = FALSE
  /\ shutting_down = FALSE
  /\ total_requests = 0

-----------------------------------------------------------------------------
(* Helpers. *)

is_closing == transport # "open"

(* transport.close() *)
Closed == IF transport = "open" THEN "closing" ELSE transport

(* Mutation of NewestAnswered: a request never waits for the one before it. *)
NeverWaits == TRUE

(* self.cycle is None or self.cycle.response_complete *)
NewestAnswered == IF cycle = 0 THEN TRUE ELSE cycles[cycle].response_complete

(* transport.write() calls the protocol's pause_writing before it returns when
   the buffer passes its high-water mark; after an upgrade the protocol it
   calls is the WebSocket's. *)
Write == write_paused' \in IF upgraded \/ transport = "lost"
                           THEN {write_paused} ELSE {write_paused, TRUE}

(* The suspension at the top of send(). *)
CanSend(c) == ~write_paused \/ cycles[c].disconnected

Running(c) == ~feeding /\ cycles[c].stage = "running"

(* The application calls send and gets past its two guards. *)
Sends(c) == Running(c) /\ ~write_paused /\ ~cycles[c].disconnected

-----------------------------------------------------------------------------
(* Parser callbacks, inside data_received. *)

DataReceived ==
  /\ ~feeding /\ ~is_closing /\ ~upgraded /\ ~read_paused
  /\ feeding' = TRUE
  /\ keep_alive_timer' = FALSE
  /\ UNCHANGED <<cycle, cycles, pipeline, total_requests, flow, parser, upgraded,
                 shutting_down, transport>>

(* The parser is inside the head of a request. *)
OnMessageBegin ==
  /\ feeding /\ parser = "between" /\ cycle < MaxRequests
  /\ parser' = "head"
  /\ UNCHANGED <<requests, flow, feeding, upgraded, shutting_down, transport>>

OnHeadersComplete(keep_alive, expect) ==
  /\ feeding /\ parser = "head"
  /\ parser' = "message"
  /\ cycle' = cycle + 1
  /\ IF NewestAnswered
     THEN /\ cycles' = [cycles EXCEPT ![cycle + 1] = NewCycle("running", keep_alive, expect)]
          /\ UNCHANGED <<pipeline, read_paused>>
     ELSE /\ cycles' = [cycles EXCEPT ![cycle + 1] = NewCycle("queued", keep_alive, expect)]
          /\ pipeline' = Append(pipeline, cycle + 1)
          /\ read_paused' = TRUE
  /\ UNCHANGED <<keep_alive_timer, total_requests, write_paused, feeding, upgraded,
                 shutting_down, transport>>

(* Mutation of BodyAfterChunk: the chunk is appended twice. *)
ChunkAppendedTwice == cycles[cycle].body + 2

BodyAfterChunk == cycles[cycle].body + 1

OnBody ==
  /\ feeding /\ parser = "message"
  /\ cycles[cycle].body < MaxBody
  /\ ~cycles[cycle].response_complete  \* otherwise the bytes are dropped
  /\ cycles' = [cycles EXCEPT ![cycle].body = BodyAfterChunk, ![cycle].message_event = TRUE]
  /\ read_paused' = (read_paused \/ BodyAfterChunk > HIGH_WATER_LIMIT)
  /\ UNCHANGED <<cycle, pipeline, keep_alive_timer, total_requests, write_paused, mode,
                 transport>>

(* Mutation of OnMessageComplete: message_event.set() is forgotten. *)
MessageCompleteKeepsEvent ==
  /\ feeding /\ parser = "message"
  /\ parser' = "between"
  /\ cycles' = IF cycles[cycle].response_complete THEN cycles
               ELSE [cycles EXCEPT ![cycle].more_body = FALSE]
  /\ UNCHANGED <<cycle, pipeline, keep_alive_timer, total_requests, flow, feeding,
                 upgraded, shutting_down, transport>>

OnMessageComplete ==
  /\ feeding /\ parser = "message"
  /\ parser' = "between"
  /\ cycles' = IF cycles[cycle].response_complete THEN cycles
               ELSE [cycles EXCEPT ![cycle].more_body = FALSE, ![cycle].message_event = TRUE]
  /\ UNCHANGED <<cycle, pipeline, keep_alive_timer, total_requests, flow, feeding,
                 upgraded, shutting_down, transport>>

DataConsumed ==
  /\ feeding
  /\ feeding' = FALSE
  /\ UNCHANGED <<requests, flow, parser, upgraded, shutting_down, transport>>

(* HttpParserError: the 400 response is written and the transport closed,
   whatever is in progress on the connection. *)
InvalidRequest ==
  /\ feeding
  /\ feeding' = FALSE
  /\ transport' = Closed
  /\ Write
  /\ UNCHANGED <<requests, read_paused, parser, upgraded, shutting_down>>

(* HttpParserUpgrade for a WebSocket: no cycle is made for the request, the
   transport is given to the WebSocket protocol at once. *)
HandleWebsocketUpgrade ==
  /\ WebSockets
  /\ feeding /\ parser = "head"
  /\ parser' = "between"
  /\ feeding' = FALSE
  /\ upgraded' = TRUE
  /\ UNCHANGED <<requests, flow, shutting_down, transport>>

-----------------------------------------------------------------------------
(* The application's calls. *)

(* Mutation of Delivered: message_event.clear() is forgotten. *)
DeliveredKeepsEvent(c, cs) ==
  [cs EXCEPT ![c].receiving = FALSE, ![c].body = 0,
             ![c].end_received = @ \/ ~cs[c].more_body]

(* receive() returns an http.request event. *)
Delivered(c, cs) ==
  [cs EXCEPT ![c].message_event = FALSE, ![c].receiving = FALSE,
             ![c].body = 0,
             ![c].end_received = @ \/ ~cs[c].more_body]

(* receive() up to its wait, and through it when the event is already set. *)
Receive(c) ==
  /\ Running(c) /\ ~cycles[c].receiving
  /\ ~cycles[c].disconnected /\ ~cycles[c].response_complete
  /\ LET continues == cycles[c].waiting_for_100_continue /\ ~is_closing
         cs == [cycles EXCEPT ![c].waiting_for_100_continue = @ /\ is_closing]
     IN  /\ IF continues THEN Write ELSE UNCHANGED write_paused
         /\ cycles' = IF cs[c].message_event THEN Delivered(c, cs)
                      ELSE [cs EXCEPT ![c].receiving = TRUE]
  /\ read_paused' = FALSE
  /\ UNCHANGED <<cycle, pipeline, keep_alive_timer, total_requests, mode, transport>>

(* The wait in receive() ends: http.disconnect, or an http.request event. *)
ReceiveWakes(c) ==
  /\ ~feeding /\ cycles[c].receiving /\ cycles[c].message_event
  /\ cycles' = IF cycles[c].disconnected \/ cycles[c].response_complete
               THEN [cycles EXCEPT ![c].message_event = FALSE, ![c].receiving = FALSE]
               ELSE Delivered(c, cycles)
  /\ UNCHANGED <<cycle, pipeline, keep_alive_timer, total_requests, flow, mode,
                 transport>>

(* send(http.response.start): "closes" when a header says connection: close. *)
SendStart(c) ==
  /\ Sends(c)
  /\ ~cycles[c].response_started
  /\ \E closes \in BOOLEAN :
       cycles' = [cycles EXCEPT ![c].response_started = TRUE,
                                ![c].waiting_for_100_continue = FALSE,
                                ![c].keep_alive = @ /\ ~closes]
  /\ Write
  /\ UNCHANGED <<cycle, pipeline, keep_alive_timer, total_requests, read_paused, mode,
                 transport>>

(* send(http.response.body, more_body = True), or a final body shorter than
   the content-length, which is written before send raises. *)
SendBody(c) ==
  /\ Sends(c)
  /\ cycles[c].response_started /\ ~cycles[c].response_complete
  /\ Write
  /\ UNCHANGED <<requests, read_paused, mode, transport>>

(* Mutation of OnResponseComplete: flow.resume_reading() is forgotten. *)
ResponseCompleteKeepsPaused(cs) ==
  /\ read_paused' = read_paused
  /\ keep_alive_timer' = (pipeline = <<>>)
  /\ IF pipeline = <<>>
     THEN cycles' = cs /\ UNCHANGED pipeline
     ELSE /\ cycles' = [cs EXCEPT ![Head(pipeline)].stage = "running"]
          /\ pipeline' = Tail(pipeline)

(* Mutation: the keep-alive timer is armed with requests still queued. *)
ResponseCompleteArmsAlways(cs) ==
  /\ read_paused' = FALSE
  /\ keep_alive_timer' = TRUE
  /\ IF pipeline = <<>>
     THEN cycles' = cs /\ UNCHANGED pipeline
     ELSE /\ cycles' = [cs EXCEPT ![Head(pipeline)].stage = "running"]
          /\ pipeline' = Tail(pipeline)

(* Mutation: the queue is left for the next request to arrive. *)
ResponseCompleteStartsNothing(cs) ==
  /\ read_paused' = FALSE
  /\ keep_alive_timer' = (pipeline = <<>>)
  /\ cycles' = cs /\ UNCHANGED pipeline

(* on_response_complete past its early return: cs is cycles with the response
   marked complete. *)
OnResponseComplete(cs) ==
  /\ read_paused' = FALSE
  /\ keep_alive_timer' = (pipeline = <<>>)
  /\ IF pipeline = <<>>
     THEN cycles' = cs /\ UNCHANGED pipeline
     ELSE /\ cycles' = [cs EXCEPT ![Head(pipeline)].stage = "running"]
          /\ pipeline' = Tail(pipeline)

(* The end of send() for the last body: cs is cycles as send has changed it. *)
CompleteResponse(c, cs) ==
  LET answered == [cs EXCEPT ![c].response_complete = TRUE, ![c].message_event = TRUE]
  IN  /\ total_requests' = total_requests + 1
      /\ transport' = IF cs[c].keep_alive THEN transport ELSE Closed
      /\ IF is_closing \/ ~cs[c].keep_alive
         THEN /\ cycles' = answered
              /\ UNCHANGED <<pipeline, keep_alive_timer, read_paused>>
         ELSE OnResponseComplete(answered)

(* send(http.response.body, more_body = False). *)
SendLastBody(c) ==
  /\ Sends(c)
  /\ cycles[c].response_started /\ ~cycles[c].response_complete
  /\ Write
  /\ CompleteResponse(c, cycles)
  /\ UNCHANGED <<cycle, mode>>

(* A header with an illegal name or value: send raises after it has set
   response_started and read the connection headers before the bad one. *)
SendInvalidStart(c) ==
  /\ Sends(c)
  /\ ~cycles[c].response_started
  /\ \E closes \in BOOLEAN :
       cycles' = [cycles EXCEPT ![c].response_started = TRUE,
                                ![c].waiting_for_100_continue = FALSE,
                                ![c].keep_alive = @ /\ ~closes]
  /\ UNCHANGED <<cycle, pipeline, keep_alive_timer, total_requests, flow, mode,
                 transport>>

-----------------------------------------------------------------------------
(* The end of run_asgi. *)

Ended(c, cs) == [cs EXCEPT ![c].stage = "done", ![c].receiving = FALSE]

(* send_500_response from its first unsuspended send on: both sends return at
   once after a disconnect; otherwise the head is written and, unless that
   write pauses writing, the body with it. *)
Send500(c) ==
  LET head == [cycles EXCEPT ![c].response_started = TRUE,
                             ![c].waiting_for_100_continue = FALSE,
                             ![c].keep_alive = FALSE,
                             ![c].receiving = FALSE]
  IN  \/ /\ cycles[c].disconnected
         /\ cycles' = Ended(c, cycles)
         /\ UNCHANGED <<pipeline, keep_alive_timer, total_requests, flow, transport>>
      \/ /\ ~cycles[c].disconnected
         /\ Write /\ write_paused'
         /\ cycles' = [head EXCEPT ![c].stage = "body_500"]
         /\ UNCHANGED <<pipeline, keep_alive_timer, total_requests, read_paused,
                        transport>>
      \/ /\ ~cycles[c].disconnected
         /\ Write
         /\ CompleteResponse(c, Ended(c, head))

RespondWith500(c) ==
  IF CanSend(c)
  THEN Send500(c)
  ELSE /\ cycles' = [cycles EXCEPT ![c].stage = "start_500", ![c].receiving = FALSE]
       /\ UNCHANGED <<pipeline, keep_alive_timer, total_requests, flow, transport>>

AppRaises(c) ==
  /\ Running(c)
  /\ IF cycles[c].response_started
     THEN /\ cycles' = Ended(c, cycles)
          /\ transport' = Closed
          /\ UNCHANGED <<pipeline, keep_alive_timer, total_requests, flow>>
     ELSE RespondWith500(c)
  /\ UNCHANGED <<cycle, mode>>

(* Mutation of LeavesOpen: an unfinished response is left as it is. *)
LeavesOpenAlways(c) == TRUE

(* The application has returned None after it started a response: is there
   nothing to complain about? *)
LeavesOpen(c) == cycles[c].response_complete \/ cycles[c].disconnected

AppReturns(c) ==
  /\ Running(c)
  /\ IF ~cycles[c].response_started /\ ~cycles[c].disconnected
     THEN RespondWith500(c)
     ELSE /\ cycles' = Ended(c, cycles)
          /\ transport' = IF LeavesOpen(c) THEN transport ELSE Closed
          /\ UNCHANGED <<pipeline, keep_alive_timer, total_requests, flow>>
  /\ UNCHANGED <<cycle, mode>>

(* The application returns something other than None. *)
AppReturnsValue(c) ==
  /\ Running(c)
  /\ cycles' = Ended(c, cycles)
  /\ transport' = Closed
  /\ UNCHANGED <<cycle, pipeline, keep_alive_timer, total_requests, flow, mode>>

(* drain() returns to a suspended send_500_response. *)
Resume500(c) ==
  /\ ~feeding /\ CanSend(c)
  /\ \/ cycles[c].stage = "start_500" /\ Send500(c)
     \/ /\ cycles[c].stage = "body_500"
        /\ IF cycles[c].disconnected
           THEN /\ cycles' = Ended(c, cycles)
                /\ UNCHANGED <<pipeline, keep_alive_timer, total_requests, flow,
                               transport>>
           ELSE /\ Write
                /\ CompleteResponse(c, Ended(c, cycles))
  /\ UNCHANGED <<cycle, mode>>

-----------------------------------------------------------------------------
(* The transport and the server. *)

ResumeWriting ==
  /\ ~feeding /\ ~upgraded /\ transport # "lost" /\ write_paused
  /\ write_paused' = FALSE
  /\ UNCHANGED <<requests, read_paused, mode, transport>>

(* eof_received returns None, so the transport closes itself; the end of the
   client's data is noticed only while the transport reads. *)
EofReceived ==
  /\ ~feeding /\ ~upgraded /\ ~read_paused /\ transport = "open"
  /\ transport' = "closing"
  /\ UNCHANGED <<requests, flow, mode>>

(* Mutation of ConnectionLost: flow.resume_writing() is forgotten. *)
LostWithoutResumingWriting(exc) ==
  /\ ~feeding /\ ~upgraded /\ transport # "lost"
  /\ transport' = "lost"
  /\ cycles' = IF cycle = 0 THEN cycles
               ELSE [cycles EXCEPT ![cycle].disconnected = @ \/ ~cycles[cycle].response_complete,
                                   ![cycle].message_event = TRUE]
  /\ keep_alive_timer' = (keep_alive_timer /\ exc)
  /\ UNCHANGED <<cycle, pipeline, total_requests, flow, mode>>

(* exc: connection_lost was called with an exception. Only the newest cycle is
   told. *)
ConnectionLost(exc) ==
  /\ ~feeding /\ ~upgraded /\ transport # "lost"
  /\ transport' = "lost"
  /\ cycles' = IF cycle = 0 THEN cycles
               ELSE [cycles EXCEPT ![cycle].disconnected = @ \/ ~cycles[cycle].response_complete,
                                   ![cycle].message_event = TRUE]
  /\ write_paused' = FALSE
  /\ keep_alive_timer' = (keep_alive_timer /\ exc)
  /\ UNCHANGED <<cycle, pipeline, total_requests, read_paused, mode>>

(* timeout_keep_alive_handler *)
KeepAliveTimeout ==
  /\ ~feeding /\ keep_alive_timer
  /\ keep_alive_timer' = FALSE
  /\ transport' = Closed
  /\ UNCHANGED <<cycle, cycles, pipeline, total_requests, flow, mode>>

(* Mutation of Shutdown: a busy connection keeps its keep_alive. *)
ShutdownOnlyIdle ==
  /\ ~feeding /\ ~upgraded /\ transport # "lost" /\ ~shutting_down
  /\ shutting_down' = TRUE
  /\ transport' = IF NewestAnswered THEN Closed ELSE transport
  /\ UNCHANGED <<requests, flow, feeding, parser, upgraded>>

(* shutdown(), called by Server.shutdown on every connection in its set: not
   on one that is lost or was handed to a WebSocket. *)
Shutdown ==
  /\ ~feeding /\ ~upgraded /\ transport # "lost" /\ ~shutting_down
  /\ shutting_down' = TRUE
  /\ IF NewestAnswered
     THEN transport' = Closed /\ UNCHANGED cycles
     ELSE /\ cycles' = [cycles EXCEPT ![cycle].keep_alive = FALSE]
          /\ UNCHANGED transport
  /\ UNCHANGED <<cycle, pipeline, keep_alive_timer, total_requests, flow, feeding,
                 parser, upgraded>>

(* The WebSocket protocol that owns the transport after an upgrade closes or
   loses it. *)
WebSocketTransport ==
  /\ upgraded
  /\ \/ transport = "open" /\ transport' = "closing"
     \/ transport # "lost" /\ transport' = "lost"
  /\ UNCHANGED <<requests, flow, mode>>

-----------------------------------------------------------------------------
Parse ==
  \/ DataReceived
  \/ OnMessageBegin
  \/ \E keep_alive \in KeepAlives, expect \in Expects : OnHeadersComplete(keep_alive, expect)
  \/ OnBody
  \/ OnMessageComplete
  \/ DataConsumed
  \/ InvalidRequest
  \/ HandleWebsocketUpgrade

App(c) ==
  \/ Receive(c) \/ ReceiveWakes(c)
  \/ SendStart(c) \/ SendInvalidStart(c) \/ SendBody(c) \/ SendLastBody(c)
  \/ AppRaises(c) \/ AppReturns(c) \/ AppReturnsValue(c) \/ Resume500(c)

Environment ==
  \/ ResumeWriting
  \/ EofReceived
  \/ \E exc \in BOOLEAN : ConnectionLost(exc)
  \/ KeepAliveTimeout
  \/ Shutdown
  \/ WebSocketTransport

Next == Parse \/ (\E c \in Requests : App(c)) \/ Environment

Spec == Init /\ [][Next]_vars

(* A client that is behind with reading reads on, or the connection is lost. *)
ReadsOrLeaves ==
  write_paused /\ (ResumeWriting \/ \E exc \in BOOLEAN : ConnectionLost(exc))

(* What the event loop, the client and the application owe: the parser returns
   from a chunk; a client either reads what is written to it or goes away; a
   callback or task that is ready again and again is run (asyncio's ready queue is
   first in, first out, so data arriving cannot starve it); an application ends. *)
Fairness ==
  /\ WF_vars(DataConsumed)
  /\ SF_vars(ReadsOrLeaves)
  /\ \A c \in Requests :
       /\ SF_vars(ReceiveWakes(c))
       /\ SF_vars(AppReturns(c))
       /\ SF_vars(Resume500(c))

FairSpec == Spec /\ Fairness

-----------------------------------------------------------------------------
(* Safety. *)

(* Every variable has its type. *)
TypeOK ==
  /\ cycle \in 0..MaxRequests
  /\ cycles \in [Requests -> Cycle]
  /\ pipeline \in Seq(Requests)
  /\ total_requests \in Nat
  /\ transport \in {"open", "closing", "lost"}
  /\ keep_alive_timer \in BOOLEAN /\ feeding \in BOOLEAN
  /\ parser \in {"between", "head", "message"}
  /\ read_paused \in BOOLEAN /\ write_paused \in BOOLEAN
  /\ upgraded \in BOOLEAN /\ shutting_down \in BOOLEAN

Started(c) == cycles[c].stage \notin {"none", "queued"}
Answered(c) == cycles[c].response_complete

(* A request reaches the application only when every request before it on the
   connection has been answered in full, whatever the client pipelines and
   however the earlier applications end. *)
ProcessedInOrder ==
  \A c, d \in Requests : c < d /\ Started(d) => Answered(c)

(* The keep-alive timer, whose expiry closes the connection, is never pending
   while a request of the connection is unanswered or waits in the pipeline. *)
TimerOnlyWhenIdle ==
  keep_alive_timer => pipeline = <<>> /\ \A c \in 1..cycle : Answered(c)

(* Reading is paused on an open connection only while some started request is
   unanswered: its receive or its last send is what resumes it. *)
NoReadDeadlock ==
  read_paused /\ transport = "open" =>
    \E c \in Requests : Started(c) /\ cycles[c].stage # "done" /\ ~Answered(c)

(* When run_asgi is over, the client has its whole response or is being
   disconnected: it is never left waiting on an open connection. *)
NoAbandonedResponse ==
  \A c \in Requests : cycles[c].stage = "done" /\ transport = "open" => Answered(c)

(* A task waiting in receive() is due to wake whenever it has something to
   learn: body bytes, the end of the body, a disconnect or the response's end. *)
NoLostWakeup ==
  \A c \in Requests :
    LET r == cycles[c] IN
      /\ r.receiving
      /\ \/ r.body > 0 \/ (~r.more_body /\ ~r.end_received)
         \/ r.disconnected \/ r.response_complete
      => r.message_event

(* Once the application was told more_body = False, receive only ever returns
   http.disconnect: nothing wakes it before the response or the connection is
   over, and no bytes are left behind. *)
EndOfBodyIsFinal ==
  \A c \in Requests :
    cycles[c].end_received =>
      /\ cycles[c].body = 0
      /\ cycles[c].message_event => cycles[c].disconnected \/ Answered(c)

(* The connection implements HTTP pipelining: requests seen, started and
   answered move as those of the abstract connection. *)
Abstract == INSTANCE Pipelining WITH
  arrived <- cycle, begun <- cycle - Len(pipeline),
  finished <- total_requests, open <- transport = "open"
ImplementsPipelining == Abstract!Spec

-----------------------------------------------------------------------------
(* Liveness, under FairSpec. *)

(* A pipelined request is started, unless the connection ends first (or a
   WebSocket upgrade takes the transport over). *)
QueuedRequestsStart ==
  \A c \in Requests :
    cycles[c].stage = "queued" ~> Started(c) \/ is_closing \/ upgraded

(* The task of every started request ends, also when the client disconnects
   while a send waits in drain(): Server.shutdown waits for these tasks. *)
RequestTasksEnd ==
  \A c \in Requests : Started(c) ~> cycles[c].stage = "done" \/ upgraded

(* shutdown() closes the connection: an idle one at once, a busy one after the
   response in progress, even if more requests arrive meanwhile. *)
ShutdownCloses == shutting_down ~> is_closing \/ upgraded

-----------------------------------------------------------------------------
(* What the documentation and the tests say and the code does not do. *)

(* tests/protocols/test_http.py, test_early_disconnect: an application waiting
   in receive() gets http.disconnect when the connection is lost. *)
DisconnectWakesReceive ==
  \A c \in Requests :
    cycles[c].receiving /\ transport = "lost" /\ ~upgraded => cycles[c].message_event

(* docs/server-behavior.md, HTTP Pipelining: an upgrade request is not
   processed while a response before it is still in progress. *)
UpgradeWaitsItsTurn ==
  [][upgraded' /\ ~upgraded => \A c \in 1..cycle : Answered(c)]_vars
=============================================================================
