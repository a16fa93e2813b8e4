---------------------------- MODULE H2Connection ----------------------------
(***************************************************************************)
(* One HTTP/2 connection (uvicorn/protocols/http/zttp_h2_impl.py): the     *)
(* ZttpH2Protocol, the RequestResponseCycle of every stream the client     *)
(* opens on it, the transport under it and the applications above it.      *)
(*                                                                         *)
(* As in HttpToolsConnection an action is what the event loop runs between *)
(* two suspension points, and "feeding" is TRUE while data_received works  *)
(* through the events of one chunk: a chunk carries frames of any number   *)
(* of streams, and nothing else runs between two of its events.            *)
(*                                                                         *)
(* zttp's 64 KiB inbound windows keep a stream's buffered body below       *)
(* HIGH_WATER_LIMIT (65536 bytes must be exceeded), so reading is never    *)
(* paused and the body is reduced to whether there are bytes to deliver.   *)
(* A message send refuses changes nothing and has no action; an            *)
(* application whose head or trailers zttp refuses raises like any other.  *)
(***************************************************************************)
EXTENDS Integers, FiniteSets

CONSTANTS
  MaxStreams,         \* bound: streams the client opens on the connection
  TrailersExpected,   \* what a response may announce as its "trailers"
  RequestBodies       \* requests may have a body, and applications read it

ASSUME ConstantsAssumption ==
  /\ MaxStreams \in Nat \ {0}
  /\ TrailersExpected \subseteq BOOLEAN
  /\ RequestBodies \in BOOLEAN

VARIABLES
  opened,             \* streams opened so far, numbered in order
  cycle,              \* the RequestResponseCycle of each stream
  cycles,             \* the streams in the protocol's dictionary
  keep_alive_timer,   \* timeout_keep_alive_task is scheduled
  feeding,            \* inside data_received
  fed,                \* history: data_received has been called
  transport,          \* the asyncio transport: open, closing or lost
  write_paused,       \* FlowControl.write_paused
  shutdown_requested, \* by the server's shutdown() or the client's GOAWAY
  total_requests      \* server_state.total_requests, this connection's share

streams == <<opened, cycle, cycles, total_requests>>
mode == <<feeding, fed, shutdown_requested>>
vars == <<streams, keep_alive_timer, mode, transport, write_paused>>

Streams == 1..MaxStreams

(* Where run_asgi is: not created, in the application, waiting in drain()
   before the head or the body of the 500 response, or returned. *)
Stages == {"none", "running", "start_500", "body_500", "done"}

Cycle == [
  stage : Stages,
  receiving : BOOLEAN,          \* a task waits in receive()
  draining : BOOLEAN,           \* a task waits in the drain() of send()
  disconnected : BOOLEAN,
  body : BOOLEAN,               \* body bytes are buffered
  more_body : BOOLEAN,
  message_event : BOOLEAN,
  response_started : BOOLEAN,
  trailers_expected : BOOLEAN,
  body_complete : BOOLEAN,
  response_complete : BOOLEAN,
  on_response : BOOLEAN,        \* the callback has not been called yet
  end_received : BOOLEAN]       \* history: told more_body = False

NewCycle(stage) == [
  stage |-> stage, receiving |-> FALSE, draining |-> FALSE, disconnected |-> FALSE,
  body |-> FALSE, more_body |-> TRUE, message_event |-> FALSE,
  response_started |-> FALSE, trailers_expected |-> FALSE, body_complete |-> FALSE,
  response_complete |-> FALSE, on_response |-> TRUE, end_received |-> FALSE]

Init ==
  /\ opened = 0
  /\ cycle = [s \in Streams |-> NewCycle("none")]
  /\ cycles = {}
  /\ keep_alive_timer = FALSE
  /\ feeding = FALSE /\ fed = FALSE
  /\ transport = "open"
  /\ write_paused \in BOOLEAN    \* the connection preface has been written
  /\ shutdown_requested = FALSE
  /\ total_requests = 0

-----------------------------------------------------------------------------
is_closing == transport # "open"

(* transport.write() calls pause_writing before it returns when the buffer
   passes its high-water mark. *)
Write == write_paused' \in IF transport = "lost" THEN {write_paused}
                           ELSE {write_paused, TRUE}

(* _close_connection writes GOAWAY before it closes. *)
WriteIfClosing == IF transport' = transport THEN UNCHANGED write_paused ELSE Write

(* Mutation of OnStreamClosed: a connection that is shutting down only closes in shutdown(). *)
StreamClosedNeverDrains(remaining) ==
  /\ UNCHANGED transport
  /\ keep_alive_timer' = IF is_closing THEN keep_alive_timer ELSE remaining = {}

(* on_stream_closed: "remaining" is the dictionary without the stream. *)
OnStreamClosed(remaining) ==
  LET drained == ~is_closing /\ remaining = {} /\ shutdown_requested
  IN  /\ transport' = IF drained THEN "closing" ELSE transport
      /\ keep_alive_timer' = IF is_closing THEN keep_alive_timer
                             ELSE remaining = {} /\ ~drained

-----------------------------------------------------------------------------
(* The events of a chunk. *)

DataReceived ==
  /\ ~feeding /\ ~is_closing
  /\ feeding' = TRUE /\ fed' = TRUE
  /\ keep_alive_timer' = FALSE
  /\ UNCHANGED <<streams, shutdown_requested, transport, write_paused>>

(* A request is answered by the application, or by service_unavailable when
   a shutdown has begun or limit_concurrency is exceeded. *)
HandleRequest ==
  /\ feeding /\ opened < MaxStreams
  /\ opened' = opened + 1
  /\ cycle' = [cycle EXCEPT ![opened + 1] = NewCycle("running")]
  /\ cycles' = cycles \cup {opened + 1}
  /\ UNCHANGED <<keep_alive_timer, mode, transport, write_paused, total_requests>>

(* A Data event; one for a stream that left the dictionary is ignored. *)
HandleData(s) ==
  /\ RequestBodies
  /\ feeding /\ s \in cycles /\ cycle[s].more_body
  /\ cycle' = [cycle EXCEPT ![s].body = TRUE, ![s].message_event = TRUE]
  /\ UNCHANGED <<opened, cycles, keep_alive_timer, mode,
                 transport, write_paused, total_requests>>

HandleEndOfMessage(s) ==
  /\ feeding /\ s \in cycles /\ cycle[s].more_body
  /\ cycle' = [cycle EXCEPT ![s].more_body = FALSE, ![s].message_event = TRUE]
  /\ UNCHANGED <<opened, cycles, keep_alive_timer, mode,
                 transport, write_paused, total_requests>>

HandleRstStream(s) ==
  /\ feeding /\ s \in cycles
  /\ cycles' = cycles \ {s}
  /\ cycle' = [cycle EXCEPT ![s].disconnected = TRUE, ![s].message_event = TRUE]
  /\ OnStreamClosed(cycles \ {s})
  /\ WriteIfClosing
  /\ UNCHANGED <<opened, mode, total_requests>>

HandleGoAway ==
  /\ feeding /\ ~shutdown_requested
  /\ shutdown_requested' = TRUE
  /\ transport' = IF cycles = {} /\ ~is_closing THEN "closing" ELSE transport
  /\ WriteIfClosing
  /\ UNCHANGED <<streams, keep_alive_timer, feeding, fed>>

(* The end of data_received: flush, and re-arm the timer when idle. *)
DataConsumed ==
  /\ feeding
  /\ feeding' = FALSE
  /\ Write
  /\ keep_alive_timer' = (keep_alive_timer \/ (cycles = {} /\ ~is_closing))
  /\ UNCHANGED <<streams, fed, shutdown_requested, transport>>

(* zttp raises RemoteProtocolError at a malformed frame. *)
InvalidFrame ==
  /\ feeding
  /\ feeding' = FALSE
  /\ Write
  /\ transport' = IF is_closing THEN transport ELSE "closing"
  /\ UNCHANGED <<streams, keep_alive_timer, fed, shutdown_requested>>

-----------------------------------------------------------------------------
(* The application's calls. *)

Running(s) == ~feeding /\ cycle[s].stage = "running"

(* Mutation of Delivered: message_event.clear() is forgotten. *)
DeliveredKeepsEvent(s) ==
  [cycle EXCEPT ![s].receiving = FALSE,
                ![s].body = FALSE, ![s].end_received = @ \/ ~cycle[s].more_body]

(* receive() returns an http.request event. *)
Delivered(s) ==
  [cycle EXCEPT ![s].message_event = FALSE, ![s].receiving = FALSE,
                ![s].body = FALSE, ![s].end_received = @ \/ ~cycle[s].more_body]

Receive(s) ==
  /\ RequestBodies
  /\ Running(s) /\ ~cycle[s].receiving
  /\ ~cycle[s].disconnected /\ ~cycle[s].response_complete
  /\ cycle' = IF cycle[s].message_event THEN Delivered(s)
              ELSE [cycle EXCEPT ![s].receiving = TRUE]
  /\ UNCHANGED <<opened, cycles, keep_alive_timer, mode,
                 transport, write_paused, total_requests>>

(* The wait in receive() ends, with http.disconnect or an http.request. *)
ReceiveWakes(s) ==
  /\ ~feeding /\ cycle[s].receiving /\ cycle[s].message_event
  /\ cycle' = IF cycle[s].disconnected \/ cycle[s].response_complete
              THEN [cycle EXCEPT ![s].message_event = FALSE, ![s].receiving = FALSE]
              ELSE Delivered(s)
  /\ UNCHANGED <<opened, cycles, keep_alive_timer, mode,
                 transport, write_paused, total_requests>>

(* The suspension at the top of send(). *)
SendWaits(s) ==
  /\ Running(s) /\ ~cycle[s].draining
  /\ write_paused /\ ~cycle[s].disconnected
  /\ cycle' = [cycle EXCEPT ![s].draining = TRUE]
  /\ UNCHANGED <<opened, cycles, keep_alive_timer, mode,
                 transport, write_paused, total_requests>>

(* drain() returns; a disconnect alone does not wake it. *)
Drained(s) ==
  /\ ~feeding /\ cycle[s].draining /\ ~write_paused
  /\ cycle' = [cycle EXCEPT ![s].draining = FALSE]
  /\ UNCHANGED <<opened, cycles, keep_alive_timer, mode,
                 transport, write_paused, total_requests>>

(* The application calls send and gets past its two guards. *)
Sends(s) == Running(s) /\ ~write_paused /\ ~cycle[s].draining /\ ~cycle[s].disconnected

(* send(http.response.early_hint), or a body or a trailers message that
   completes nothing. *)
SendPart(s) ==
  /\ Sends(s) /\ ~cycle[s].response_complete
  /\ Write
  /\ UNCHANGED <<streams, keep_alive_timer, mode, transport>>

SendStart(s) ==
  /\ Sends(s) /\ ~cycle[s].response_started
  /\ \E trailers \in TrailersExpected :
       cycle' = [cycle EXCEPT ![s].response_started = TRUE,
                              ![s].trailers_expected = trailers]
  /\ Write
  /\ UNCHANGED <<opened, cycles, keep_alive_timer, mode, transport, total_requests>>

(* The last body message of a response that announced trailers. *)
SendBodyBeforeTrailers(s) ==
  /\ Sends(s)
  /\ cycle[s].response_started /\ cycle[s].trailers_expected /\ ~cycle[s].body_complete
  /\ cycle' = [cycle EXCEPT ![s].body_complete = TRUE]
  /\ Write
  /\ UNCHANGED <<opened, cycles, keep_alive_timer, mode, transport, total_requests>>

(* Mutation of OnResponse: the callback is not replaced after its first call. *)
OnResponseEveryTime(s, cs) ==
  /\ cycle' = cs
  /\ total_requests' = total_requests + 1
  /\ cycles' = cycles \ {s}
  /\ OnStreamClosed(cycles \ {s})

(* self.on_response(stream_id), then the no-op in its place: cs is cycle as
   the caller has changed it. *)
OnResponse(s, cs) ==
  IF cs[s].on_response
  THEN /\ cycle' = [cs EXCEPT ![s].on_response = FALSE]
       /\ total_requests' = total_requests + 1
       /\ cycles' = cycles \ {s}
       /\ OnStreamClosed(cycles \ {s})
  ELSE /\ cycle' = cs
       /\ UNCHANGED <<cycles, keep_alive_timer, transport, total_requests>>

Answered(s, cs) ==
  [cs EXCEPT ![s].response_started = TRUE, ![s].body_complete = TRUE,
             ![s].response_complete = TRUE, ![s].message_event = TRUE]

(* The message that completes the response: the last body message, or the
   last trailers when trailers were announced. *)
SendLast(s) ==
  /\ Sends(s)
  /\ cycle[s].response_started /\ ~cycle[s].response_complete
  /\ cycle[s].body_complete = cycle[s].trailers_expected
  /\ OnResponse(s, Answered(s, cycle))
  /\ Write
  /\ UNCHANGED <<opened, mode>>

-----------------------------------------------------------------------------
(* The end of run_asgi. *)

Ended(s, cs) == [cs EXCEPT ![s].stage = "done", ![s].receiving = FALSE]

(* Mutation of Ends: the finally block of run_asgi is missing. *)
EndsWithoutResponse(s, cs) ==
  /\ cycle' = Ended(s, cs)
  /\ UNCHANGED <<cycles, keep_alive_timer, transport, total_requests>>

Ends(s, cs) == OnResponse(s, Ended(s, cs))

(* Mutation of Abort: the connection is closed with the stream. *)
AbortClosesConnection(s) ==
  /\ cycle' = Ended(s, cycle)
  /\ cycles' = cycles \ {s}
  /\ total_requests' = total_requests + 1
  /\ transport' = IF is_closing THEN transport ELSE "closing"
  /\ UNCHANGED keep_alive_timer
  /\ Write

(* abort_stream, then the finally block. *)
Abort(s) ==
  /\ Ends(s, [cycle EXCEPT ![s].disconnected = @ \/ ~is_closing])
  /\ IF is_closing THEN UNCHANGED write_paused ELSE Write

(* send_500_response from its first unsuspended send on. *)
Send500(s) ==
  \/ /\ cycle[s].disconnected
     /\ Ends(s, cycle)
     /\ WriteIfClosing
  \/ /\ ~cycle[s].disconnected
     /\ Write /\ write_paused'
     /\ cycle' = [cycle EXCEPT ![s].stage = "body_500", ![s].response_started = TRUE]
     /\ UNCHANGED <<cycles, keep_alive_timer, transport, total_requests>>
  \/ /\ ~cycle[s].disconnected
     /\ Write
     /\ Ends(s, Answered(s, cycle))

RespondWith500(s) ==
  IF write_paused /\ ~cycle[s].disconnected
  THEN /\ cycle' = [cycle EXCEPT ![s].stage = "start_500", ![s].receiving = FALSE]
       /\ UNCHANGED <<cycles, keep_alive_timer, transport, write_paused, total_requests>>
  ELSE Send500(s)

(* The application cannot end while it waits for its own send. *)
MayEnd(s) == Running(s) /\ ~cycle[s].draining

AppRaises(s) ==
  /\ MayEnd(s)
  /\ IF cycle[s].response_started THEN Abort(s) ELSE RespondWith500(s)
  /\ UNCHANGED <<opened, mode>>

AppReturns(s) ==
  /\ MayEnd(s)
  /\ IF cycle[s].disconnected \/ cycle[s].response_complete
     THEN Ends(s, cycle) /\ WriteIfClosing
     ELSE IF cycle[s].response_started THEN Abort(s) ELSE RespondWith500(s)
  /\ UNCHANGED <<opened, mode>>

(* The application returns something other than None. *)
AppReturnsValue(s) ==
  /\ MayEnd(s)
  /\ Abort(s)
  /\ UNCHANGED <<opened, mode>>

(* drain() returns to a suspended send_500_response. *)
Resume500(s) ==
  /\ ~feeding /\ ~write_paused
  /\ \/ cycle[s].stage = "start_500" /\ Send500(s)
     \/ /\ cycle[s].stage = "body_500"
        /\ IF cycle[s].disconnected
           THEN Ends(s, cycle) /\ WriteIfClosing
           ELSE Ends(s, Answered(s, cycle)) /\ Write
  /\ UNCHANGED <<opened, mode>>

-----------------------------------------------------------------------------
(* The transport and the server. *)

ResumeWriting ==
  /\ ~feeding /\ transport # "lost" /\ write_paused
  /\ write_paused' = FALSE
  /\ UNCHANGED <<streams, keep_alive_timer, mode, transport>>

(* eof_received returns None, so the transport closes itself. *)
EofReceived ==
  /\ ~feeding /\ transport = "open"
  /\ transport' = "closing"
  /\ UNCHANGED <<streams, keep_alive_timer, mode, write_paused>>

(* Mutation of ConnectionLost: flow.resume_writing() is forgotten. *)
LostWithoutResumingWriting ==
  /\ ~feeding /\ transport # "lost"
  /\ transport' = "lost"
  /\ cycle' = [s \in Streams |->
       IF s \in cycles
       THEN [cycle[s] EXCEPT !.disconnected = TRUE, !.message_event = TRUE]
       ELSE cycle[s]]
  /\ keep_alive_timer' = FALSE
  /\ UNCHANGED <<opened, cycles, mode, write_paused, total_requests>>

(* Every stream in the dictionary is told; those have no complete response. *)
ConnectionLost ==
  /\ ~feeding /\ transport # "lost"
  /\ transport' = "lost"
  /\ cycle' = [s \in Streams |->
       IF s \in cycles
       THEN [cycle[s] EXCEPT !.disconnected = @ \/ ~cycle[s].response_complete,
                             !.message_event = TRUE]
       ELSE cycle[s]]
  /\ write_paused' = FALSE
  /\ keep_alive_timer' = FALSE
  /\ UNCHANGED <<opened, cycles, mode, total_requests>>

(* timeout_keep_alive_handler *)
KeepAliveTimeout ==
  /\ ~feeding /\ keep_alive_timer
  /\ keep_alive_timer' = FALSE
  /\ transport' = IF is_closing THEN transport ELSE "closing"
  /\ WriteIfClosing
  /\ UNCHANGED <<streams, mode>>

(* shutdown(), called by Server.shutdown on every connection in its set. *)
Shutdown ==
  /\ ~feeding /\ transport # "lost" /\ ~shutdown_requested
  /\ shutdown_requested' = TRUE
  /\ transport' = IF cycles = {} /\ ~is_closing THEN "closing" ELSE transport
  /\ WriteIfClosing
  /\ UNCHANGED <<streams, keep_alive_timer, feeding, fed>>

-----------------------------------------------------------------------------
Frames ==
  \/ DataReceived \/ HandleRequest \/ HandleGoAway \/ DataConsumed \/ InvalidFrame
  \/ \E s \in Streams : HandleData(s) \/ HandleEndOfMessage(s) \/ HandleRstStream(s)

App(s) ==
  \/ Receive(s) \/ ReceiveWakes(s)
  \/ SendWaits(s) \/ Drained(s)
  \/ SendPart(s) \/ SendStart(s) \/ SendBodyBeforeTrailers(s) \/ SendLast(s)
  \/ AppRaises(s) \/ AppReturns(s) \/ AppReturnsValue(s) \/ Resume500(s)

Environment ==
  \/ ResumeWriting \/ EofReceived \/ ConnectionLost \/ KeepAliveTimeout \/ Shutdown

Next == Frames \/ (\E s \in Streams : App(s)) \/ Environment

Spec == Init /\ [][Next]_vars

(* A client that is behind with reading reads on, or the connection is lost. *)
ReadsOrLeaves == write_paused /\ (ResumeWriting \/ ConnectionLost)

(* data_received returns; a client reads what is written or goes away; a task
   that is ready again and again is run; an application ends when it can. *)
Fairness ==
  /\ WF_vars(DataConsumed)
  /\ SF_vars(ReadsOrLeaves)
  /\ \A s \in Streams :
       SF_vars(Drained(s)) /\ SF_vars(AppReturns(s)) /\ SF_vars(Resume500(s))

FairSpec == Spec /\ Fairness

-----------------------------------------------------------------------------
(* Safety. *)

(* Every variable has its type. *)
TypeOK ==
  /\ opened \in 0..MaxStreams
  /\ cycle \in [Streams -> Cycle]
  /\ cycles \subseteq Streams
  /\ keep_alive_timer \in BOOLEAN /\ feeding \in BOOLEAN /\ fed \in BOOLEAN
  /\ transport \in {"open", "closing", "lost"}
  /\ write_paused \in BOOLEAN /\ shutdown_requested \in BOOLEAN
  /\ total_requests \in 0..MaxStreams

Live(s) == cycle[s].stage \notin {"none", "done"}

(* Every stream is accounted for.  The dictionary holds exactly the streams
   whose task is running and that were neither answered nor reset (an entry
   that is never removed keeps the connection from ever being idle, and
   Server.shutdown waiting); and however a stream ends (answered, reset,
   aborted, lost), it is counted once, by the end of its task at the latest. *)
StreamsAccounted ==
  /\ \/ transport = "lost"
     \/ cycles = {s \in Streams : /\ Live(s) /\ ~cycle[s].disconnected
                                  /\ ~cycle[s].response_complete}
  /\ total_requests = Cardinality({s \in Streams :
       cycle[s].stage = "done" \/ cycle[s].response_complete})

(* A connection with no stream is on its way out: the keep-alive timer is
   pending or, when a shutdown or a GOAWAY asked for it, the transport is
   closing, by whatever removed the last stream.  (Before the first bytes of
   the client there is no timer.) *)
IdleOrClosing ==
  cycles = {} /\ transport = "open" =>
    /\ fed /\ ~feeding => keep_alive_timer
    /\ ~shutdown_requested

(* receive(): a waiting task is due to wake whenever it has something to learn
   (body bytes, the end of the body, a disconnect, the response's end); one
   that was told the end of the body is woken only by the latter two; and the
   loss of the connection is told to every stream in progress. *)
ReceiveContract ==
  \A s \in Streams :
    LET r == cycle[s]
        over == r.disconnected \/ r.response_complete
    IN  /\ r.receiving /\ (r.body \/ (~r.more_body /\ ~r.end_received) \/ over)
           => r.message_event
        /\ r.end_received => ~r.body /\ (r.message_event => over)
        /\ transport = "lost" /\ Live(s) => over

(* The end of one stream, whether answered, aborted or failed, closes the
   connection only when it is draining and no sibling is left. *)
EndSparesSiblings ==
  [][ transport = "open" /\ transport' = "closing" /\ total_requests' # total_requests
      => shutdown_requested /\ cycles' = {} ]_vars

-----------------------------------------------------------------------------
(* Liveness, under FairSpec. *)

(* The task of every stream ends, also one whose send waits in drain() when
   the client resets its stream or leaves: Server.shutdown waits for it. *)
StreamTasksEnd == \A s \in Streams : Live(s) ~> ~Live(s)

-----------------------------------------------------------------------------
(* What the documentation says and the code does not do. *)

(* docs/server-behavior.md, Timeouts: the keep-alive timeout applies between
   requests, so it is never pending while a stream is in progress. *)
TimerOnlyWhenIdle == keep_alive_timer /\ transport = "open" /\ ~feeding => cycles = {}
=============================================================================
