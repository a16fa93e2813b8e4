--------------------------- MODULE H11Connection ---------------------------
(***************************************************************************)
(* One HTTP/1.1 connection of uvicorn's h11 protocol                       *)
(* (uvicorn/protocols/http/h11_impl.py): the H11Protocol, the              *)
(* RequestResponseCycle of each request, the h11.Connection they share,    *)
(* the transport under them and the application above.                     *)
(*                                                                         *)
(* There is no queue here: h11 stops handing out events at the end of a    *)
(* request (PAUSED) until start_next_cycle, and keeps the bytes behind it  *)
(* ("buffered").  on_response_complete starts the next cycle and handles   *)
(* the buffered events before it returns, which is "feeding" set again.    *)
(*                                                                         *)
(* As in HttpToolsConnection an action runs from one suspension point to   *)
(* the next, the application calls receive and send in any order and from  *)
(* two tasks, and it may swallow what send raises.  A protocol switch that *)
(* is offered and declined (Upgrade: h2c) is a pause at the end of the     *)
(* request like any other; CONNECT is left out.                            *)
(***************************************************************************)
EXTENDS Integers

CONSTANTS
  MaxRequests,        \* bound: requests the client sends on the connection
  MaxBody,            \* bound: units of request body buffered in one cycle
  HIGH_WATER_LIMIT,   \* units of buffered body above which reading is paused
  Expects             \* whether a request may carry "Expect: 100-continue"

ASSUME ConstantsAssumption ==
  /\ MaxRequests \in Nat \ {0}
  /\ MaxBody \in Nat /\ HIGH_WATER_LIMIT \in Nat
  /\ Expects \subseteq BOOLEAN

VARIABLES
  cycle,             \* number of the newest cycle, 0 for None
  cycles,            \* the RequestResponseCycle objects, by arrival number
  conn,              \* the h11.Connection
  keep_alive_timer,  \* timeout_keep_alive_task is scheduled
  feeding,           \* inside handle_events
  transport,         \* the asyncio transport: open, closing or lost
  read_paused, write_paused,
  upgraded,          \* the transport belongs to a WebSocket protocol
  shut,              \* shutdown() was called: no, returned or raised
  total_requests     \* server_state.total_requests, this connection's share

requests == <<cycle, cycles>>
idle == <<keep_alive_timer, total_requests>>
flow == <<read_paused, write_paused>>
mode == <<upgraded, shut>>
vars == <<requests, conn, idle, feeding, transport, flow, mode>>

Requests == 1..MaxRequests

Stages == {"none", "running", "start_500", "body_500", "done"}

Cycle == [
  stage : Stages,
  receiving : BOOLEAN,               \* a task waits in receive()
  disconnected : BOOLEAN,
  keep_alive : BOOLEAN,
  waiting_for_100_continue : BOOLEAN,
  body : 0..MaxBody,
  more_body : BOOLEAN,
  message_event : BOOLEAN,
  response_started : BOOLEAN,
  response_complete : BOOLEAN,
  end_received : BOOLEAN]            \* history: told more_body = False

NewCycle(stage, expect) == [
  stage |-> stage, receiving |-> FALSE, disconnected |-> FALSE,
  keep_alive |-> TRUE, waiting_for_100_continue |-> expect,
  body |-> 0, more_body |-> TRUE, message_event |-> FALSE,
  response_started |-> FALSE, response_complete |-> FALSE,
  end_received |-> FALSE]

(* h11: the states of the two sides, whether the connection can be used for
   another request, and whether its buffer holds data behind a request. *)
Conn == [
  their : {"idle", "body", "done", "must_close", "error"},
  our : {"idle", "respond", "body", "done", "must_close", "closed", "error"},
  reuse : BOOLEAN,
  buffered : BOOLEAN]

Init ==
  /\ cycle = 0
  /\ cycles = [c \in Requests |-> NewCycle("none", FALSE)]
  /\ conn = [their |-> "idle", our |-> "idle", reuse |-> TRUE, buffered |-> FALSE]
  /\ keep_alive_timer = FALSE /\ total_requests = 0
  /\ feeding = FALSE /\ transport = "open"
  /\ read_paused = FALSE /\ write_paused = FALSE
  /\ upgraded = FALSE /\ shut = "no"

-----------------------------------------------------------------------------
(* h11's state machine. *)

(* The transitions one side's state triggers in the other's. *)
Fire(h) ==
  [h EXCEPT
     !.their = IF \/ h.their = "done" /\ (~h.reuse \/ h.our \in {"closed", "error"})
                  \/ h.their = "idle" /\ h.our = "closed"
               THEN "must_close" ELSE @,
     !.our = IF h.our = "done" /\ (~h.reuse \/ h.their = "error")
             THEN "must_close" ELSE @]

Ours(h, state) == Fire([h EXCEPT !.our = state])
Theirs(h, state) == Fire([h EXCEPT !.their = state])

(* A send in the wrong state raises LocalProtocolError. *)
Failed(h) == Ours(h, "error")

(* conn.send(ConnectionClosed()) *)
MayClose(h) == h.our \in {"idle", "done", "must_close", "closed"}
ClosedBy(h) == IF MayClose(h) THEN Ours(h, "closed") ELSE Failed(h)

(* start_next_cycle, at the end of both sides' messages. *)
NextCycle(h) == [h EXCEPT !.their = "idle", !.our = "idle", !.buffered = FALSE]

-----------------------------------------------------------------------------
is_closing == transport # "open"

(* transport.close() *)
Closed == IF transport = "open" THEN "closing" ELSE transport

(* transport.write() calls pause_writing before it returns when the buffer
   passes its high-water mark; after an upgrade, the WebSocket protocol's. *)
Write == write_paused' \in IF upgraded \/ transport = "lost"
                           THEN {write_paused} ELSE {write_paused, TRUE}

(* self.cycle is None or self.cycle.response_complete *)
NewestAnswered == IF cycle = 0 THEN TRUE ELSE cycles[cycle].response_complete

Running(c) == ~feeding /\ cycles[c].stage = "running"

(* The application calls send and gets past its two guards. *)
Sends(c) == Running(c) /\ ~write_paused /\ ~cycles[c].disconnected

-----------------------------------------------------------------------------
(* handle_events. *)

DataReceived ==
  /\ ~feeding /\ ~is_closing /\ ~upgraded /\ ~read_paused
  /\ feeding' = TRUE
  /\ keep_alive_timer' = FALSE
  /\ UNCHANGED <<requests, conn, total_requests, transport, flow, mode>>

(* Mutation of HandleRequest: the timer armed by the response before is left
   running when the request was already buffered. *)
RequestLeavesTimer(closes, expect) ==
  /\ feeding /\ conn.their = "idle" /\ cycle < MaxRequests
  /\ cycle' = cycle + 1
  /\ cycles' = [cycles EXCEPT ![cycle + 1] = NewCycle("running", expect)]
  /\ conn' = [conn EXCEPT !.their = "body", !.our = "respond", !.reuse = ~closes]
  /\ UNCHANGED <<idle, feeding, transport, flow, mode>>

(* A Request event; "closes" when it says connection: close or is HTTP/1.0. *)
HandleRequest(closes, expect) ==
  /\ feeding /\ conn.their = "idle" /\ cycle < MaxRequests
  /\ cycle' = cycle + 1
  /\ cycles' = [cycles EXCEPT ![cycle + 1] = NewCycle("running", expect)]
  /\ conn' = [conn EXCEPT !.their = "body", !.our = "respond", !.reuse = ~closes]
  /\ keep_alive_timer' = FALSE
  /\ UNCHANGED <<total_requests, feeding, transport, flow, mode>>

(* A Request event for a WebSocket upgrade: no cycle is made. *)
HandleWebsocketUpgrade ==
  /\ feeding /\ conn.their = "idle"
  /\ conn' = [conn EXCEPT !.their = "body", !.our = "respond"]
  /\ keep_alive_timer' = FALSE
  /\ feeding' = FALSE
  /\ upgraded' = TRUE
  /\ UNCHANGED <<requests, total_requests, transport, flow, shut>>

(* Mutation of BodyAfterChunk: the chunk is appended twice. *)
ChunkAppendedTwice == cycles[cycle].body + 2

BodyAfterChunk == cycles[cycle].body + 1

(* A Data event; ignored once the response is complete. *)
HandleData ==
  /\ feeding /\ conn.their = "body" /\ conn.our # "done"
  /\ cycles[cycle].body < MaxBody
  /\ cycles' = [cycles EXCEPT ![cycle].body = BodyAfterChunk, ![cycle].message_event = TRUE]
  /\ read_paused' = (read_paused \/ BodyAfterChunk > HIGH_WATER_LIMIT)
  /\ UNCHANGED <<cycle, conn, idle, feeding, transport, write_paused, mode>>

EndsMessage(c) ==
  [cycles EXCEPT ![c].more_body = FALSE, ![c].message_event = TRUE]

(* Mutation of HandleEndOfMessage: the next cycle is started whether or not
   the response has been sent. *)
EndOfMessageStartsNext ==
  /\ feeding /\ conn.their = "body"
  /\ conn' = NextCycle(conn)
  /\ cycles' = IF conn.our = "done" THEN cycles ELSE EndsMessage(cycle)
  /\ UNCHANGED <<cycle, idle, feeding, transport, flow, mode>>

(* An EndOfMessage event: the request's, or after the response has been sent
   the end of both messages; then the next events of the chunk are handled
   (transport.resume_reading finds the transport reading). *)
HandleEndOfMessage ==
  /\ feeding /\ conn.their = "body"
  /\ IF conn.our = "done"
     THEN conn' = NextCycle(conn) /\ UNCHANGED <<cycles, feeding>>
     ELSE /\ conn' = Theirs(conn, "done")
          /\ cycles' = EndsMessage(cycle)
          /\ feeding' = (conn'.their # "must_close")
  /\ UNCHANGED <<cycle, idle, transport, flow, mode>>

(* PAUSED: there is data behind the end of the request. *)
Paused ==
  /\ feeding /\ conn.their = "done"
  /\ feeding' = FALSE
  /\ conn' = [conn EXCEPT !.buffered = TRUE]
  /\ read_paused' = TRUE
  /\ UNCHANGED <<requests, idle, transport, write_paused, mode>>

(* NEED_DATA *)
DataConsumed ==
  /\ feeding /\ conn.their # "must_close"
  /\ ~(conn.their = "done" /\ conn.buffered)
  /\ feeding' = FALSE
  /\ UNCHANGED <<requests, conn, idle, transport, flow, mode>>

(* RemoteProtocolError, which data behind the last request of a connection
   also is.  The 400 response is refused when a response has been started:
   the exception leaves data_received and asyncio aborts the transport. *)
InvalidRequest ==
  /\ feeding /\ conn.their # "done"
  /\ feeding' = FALSE
  /\ transport' = Closed
  /\ LET h == Theirs(conn, "error")
     IN  IF h.our \in {"idle", "respond"}
         THEN conn' = [h EXCEPT !.our = "must_close", !.reuse = FALSE] /\ Write
         ELSE conn' = Failed(h) /\ UNCHANGED write_paused
  /\ UNCHANGED <<requests, idle, read_paused, mode>>

-----------------------------------------------------------------------------
(* receive(). *)

(* Mutation of Delivered: message_event.clear() is forgotten. *)
DeliveredKeepsEvent(c, cs) ==
  [cs EXCEPT ![c].receiving = FALSE, ![c].body = 0,
             ![c].end_received = @ \/ ~cs[c].more_body]

Delivered(c, cs) ==
  [cs EXCEPT ![c].message_event = FALSE, ![c].receiving = FALSE, ![c].body = 0,
             ![c].end_received = @ \/ ~cs[c].more_body]

(* Up to the wait, and through it when the event is already set. *)
Receive(c) ==
  /\ Running(c) /\ ~cycles[c].receiving
  /\ ~cycles[c].disconnected /\ ~cycles[c].response_complete
  /\ LET cs == [cycles EXCEPT ![c].waiting_for_100_continue = @ /\ is_closing]
     IN  /\ IF cs = cycles THEN UNCHANGED write_paused ELSE Write
         /\ cycles' = IF cs[c].message_event THEN Delivered(c, cs)
                      ELSE [cs EXCEPT ![c].receiving = TRUE]
  /\ read_paused' = FALSE
  /\ UNCHANGED <<cycle, conn, idle, feeding, transport, mode>>

ReceiveWakes(c) ==
  /\ ~feeding /\ cycles[c].receiving /\ cycles[c].message_event
  /\ cycles' = IF cycles[c].disconnected \/ cycles[c].response_complete
               THEN [cycles EXCEPT ![c].message_event = FALSE, ![c].receiving = FALSE]
               ELSE Delivered(c, cycles)
  /\ UNCHANGED <<cycle, conn, idle, feeding, transport, flow, mode>>

-----------------------------------------------------------------------------
(* send(). *)

(* conn.send raises into the application. *)
SendFails == conn' = Failed(conn) /\ UNCHANGED write_paused

(* http.response.start: the head goes out, h11.Response refuses it before the
   connection has seen it, or the connection refuses it after a 400. *)
SendStart(c) ==
  /\ Sends(c) /\ ~cycles[c].response_started
  /\ cycles' = [cycles EXCEPT ![c].response_started = TRUE,
                              ![c].waiting_for_100_continue = FALSE]
  /\ \/ /\ conn.our = "respond"
        /\ \E closes \in BOOLEAN :
             conn' = Ours([conn EXCEPT !.reuse = @ /\ ~closes], "body")
        /\ Write
     \/ UNCHANGED <<conn, write_paused>>
     \/ conn.our # "respond" /\ SendFails
  /\ UNCHANGED <<cycle, idle, feeding, transport, read_paused, mode>>

(* http.response.body with more_body, or any body with more bytes than the
   head announced. *)
SendBody(c) ==
  /\ Sends(c) /\ cycles[c].response_started /\ ~cycles[c].response_complete
  /\ \/ conn.our = "body" /\ Write /\ UNCHANGED conn
     \/ SendFails
  /\ UNCHANGED <<requests, idle, feeding, transport, read_paused, mode>>

(* Mutation of OnResponseComplete: the next cycle waits for more data. *)
ResponseCompleteStopsThere(h, closing) ==
  /\ total_requests' = total_requests + 1
  /\ conn' = h
  /\ IF closing THEN UNCHANGED <<keep_alive_timer, read_paused, feeding>>
     ELSE /\ keep_alive_timer' = TRUE
          /\ read_paused' = FALSE
          /\ UNCHANGED feeding

(* on_response_complete; "closing" is what transport.is_closing() says. *)
OnResponseComplete(h, closing) ==
  /\ total_requests' = total_requests + 1
  /\ IF closing THEN conn' = h /\ UNCHANGED <<keep_alive_timer, read_paused, feeding>>
     ELSE /\ keep_alive_timer' = TRUE
          /\ read_paused' = FALSE
          /\ IF h.our = "done" /\ h.their = "done"
             THEN conn' = NextCycle(h) /\ feeding' = h.buffered
             ELSE conn' = h /\ UNCHANGED feeding

Answered(c, cs) ==
  [cs EXCEPT ![c].response_complete = TRUE, ![c].message_event = TRUE]

(* The last body message, in full: cs and h are cycles and conn before the
   EndOfMessage is sent. *)
CompleteResponse(c, cs, h) ==
  LET ended == Ours(h, "done")
      closes == ended.our = "must_close" \/ ~cs[c].keep_alive
  IN  /\ cycles' = Answered(c, cs)
      /\ transport' = IF closes THEN Closed ELSE transport
      /\ OnResponseComplete(IF closes THEN ClosedBy(ended) ELSE ended,
                            closes \/ is_closing)

SendLastBody(c) ==
  /\ Sends(c) /\ cycles[c].response_started /\ ~cycles[c].response_complete
  /\ conn.our = "body"
  /\ CompleteResponse(c, cycles, conn)
  /\ Write
  /\ UNCHANGED <<cycle, mode>>

(* The last body message when the body is shorter than the head announced:
   the response counts as complete, on_response is not reached. *)
SendShortBody(c) ==
  /\ Sends(c) /\ cycles[c].response_started /\ ~cycles[c].response_complete
  /\ conn.our = "body"
  /\ cycles' = Answered(c, cycles)
  /\ conn' = Failed(conn)
  /\ Write
  /\ UNCHANGED <<cycle, idle, feeding, transport, read_paused, mode>>

-----------------------------------------------------------------------------
(* The end of run_asgi. *)

Ended(c, cs) == [cs EXCEPT ![c].stage = "done", ![c].receiving = FALSE]

Finishes(c) == cycles' = Ended(c, cycles)
               /\ UNCHANGED <<conn, idle, feeding, transport, flow>>

(* send_500_response from its first unsuspended send on; after a 400 has been
   sent the 500 is refused, and the exception ends the task. *)
Send500(c) ==
  LET cs == [cycles EXCEPT ![c].response_started = TRUE, ![c].receiving = FALSE,
                           ![c].waiting_for_100_continue = FALSE]
      h == Ours([conn EXCEPT !.reuse = FALSE], "body")
  IN  \/ cycles[c].disconnected /\ Finishes(c)
      \/ /\ ~cycles[c].disconnected /\ conn.our # "respond"
         /\ cycles' = Ended(c, cs)
         /\ SendFails
         /\ UNCHANGED <<idle, feeding, transport, read_paused>>
      \/ /\ ~cycles[c].disconnected /\ conn.our = "respond"
         /\ Write /\ write_paused'
         /\ cycles' = [cs EXCEPT ![c].stage = "body_500"]
         /\ conn' = h
         /\ UNCHANGED <<idle, feeding, transport, read_paused>>
      \/ /\ ~cycles[c].disconnected /\ conn.our = "respond"
         /\ Write
         /\ CompleteResponse(c, Ended(c, cs), h)

RespondWith500(c) ==
  IF write_paused /\ ~cycles[c].disconnected
  THEN /\ cycles' = [cycles EXCEPT ![c].stage = "start_500", ![c].receiving = FALSE]
       /\ UNCHANGED <<conn, idle, feeding, transport, flow>>
  ELSE Send500(c)

EndsAndCloses(c) ==
  /\ cycles' = Ended(c, cycles)
  /\ transport' = Closed
  /\ UNCHANGED <<conn, idle, feeding, flow>>

AppRaises(c) ==
  /\ Running(c)
  /\ IF cycles[c].response_started THEN EndsAndCloses(c) ELSE RespondWith500(c)
  /\ UNCHANGED <<cycle, mode>>

(* The application has returned with its response started: is it unfinished? *)
Incomplete(c) == ~cycles[c].response_complete /\ ~cycles[c].disconnected

AppReturns(c) ==
  /\ Running(c)
  /\ IF ~cycles[c].response_started /\ ~cycles[c].disconnected THEN RespondWith500(c)
     ELSE IF Incomplete(c) THEN EndsAndCloses(c) ELSE Finishes(c)
  /\ UNCHANGED <<cycle, mode>>

(* The application returns something other than None. *)
AppReturnsValue(c) ==
  /\ Running(c)
  /\ EndsAndCloses(c)
  /\ UNCHANGED <<cycle, mode>>

(* drain() returns to a suspended send_500_response. *)
Resume500(c) ==
  /\ ~feeding /\ ~write_paused
  /\ \/ cycles[c].stage = "start_500" /\ Send500(c)
     \/ /\ cycles[c].stage = "body_500"
        /\ IF cycles[c].disconnected THEN Finishes(c)
           ELSE IF conn.our = "body"
           THEN Write /\ CompleteResponse(c, Ended(c, cycles), conn)
           ELSE /\ cycles' = Ended(c, cycles)
                /\ SendFails
                /\ UNCHANGED <<idle, feeding, transport, read_paused>>
  /\ UNCHANGED <<cycle, mode>>

-----------------------------------------------------------------------------
(* The transport and the server. *)

ResumeWriting ==
  /\ ~feeding /\ ~upgraded /\ transport # "lost" /\ write_paused
  /\ write_paused' = FALSE
  /\ UNCHANGED <<requests, conn, idle, feeding, transport, read_paused, mode>>

(* eof_received returns None, so the transport closes itself. *)
EofReceived ==
  /\ ~feeding /\ ~upgraded /\ ~read_paused /\ transport = "open"
  /\ transport' = "closing"
  /\ UNCHANGED <<requests, conn, idle, feeding, flow, mode>>

(* exc: connection_lost was called with an exception. *)
ConnectionLost(exc) ==
  /\ ~feeding /\ ~upgraded /\ transport # "lost"
  /\ transport' = "lost"
  /\ cycles' = IF cycle = 0 THEN cycles
               ELSE [cycles EXCEPT ![cycle].disconnected = @ \/ ~NewestAnswered,
                                   ![cycle].message_event = TRUE]
  /\ conn' = ClosedBy(conn)
  /\ write_paused' = FALSE
  /\ keep_alive_timer' = (keep_alive_timer /\ exc)
  /\ UNCHANGED <<cycle, total_requests, feeding, read_paused, mode>>

(* timeout_keep_alive_handler; if h11 refuses, the transport stays open. *)
KeepAliveTimeout ==
  /\ ~feeding /\ keep_alive_timer
  /\ keep_alive_timer' = FALSE
  /\ IF is_closing THEN UNCHANGED <<conn, transport>>
     ELSE /\ conn' = ClosedBy(conn)
          /\ transport' = IF MayClose(conn) THEN "closing" ELSE transport
  /\ UNCHANGED <<requests, total_requests, feeding, flow, mode>>

(* shutdown(), called by Server.shutdown on every connection in its set. *)
Shutdown ==
  /\ ~feeding /\ ~upgraded /\ transport # "lost" /\ shut = "no"
  /\ IF NewestAnswered
     THEN /\ conn' = ClosedBy(conn)
          /\ transport' = IF MayClose(conn) THEN Closed ELSE transport
          /\ shut' = IF MayClose(conn) THEN "returned" ELSE "raised"
          /\ UNCHANGED cycles
     ELSE /\ cycles' = [cycles EXCEPT ![cycle].keep_alive = FALSE]
          /\ shut' = "returned"
          /\ UNCHANGED <<conn, transport>>
  /\ UNCHANGED <<cycle, idle, feeding, flow, upgraded>>

(* The WebSocket protocol that owns the transport closes or loses it. *)
WebSocketTransport ==
  /\ upgraded
  /\ \/ transport = "open" /\ transport' = "closing"
     \/ transport # "lost" /\ transport' = "lost"
  /\ UNCHANGED <<requests, conn, idle, feeding, flow, mode>>

-----------------------------------------------------------------------------
HandleEvents ==
  \/ DataReceived
  \/ \E closes \in BOOLEAN, expect \in Expects : HandleRequest(closes, expect)
  \/ HandleWebsocketUpgrade \/ HandleData \/ HandleEndOfMessage
  \/ Paused \/ DataConsumed \/ InvalidRequest

App(c) ==
  \/ Receive(c) \/ ReceiveWakes(c)
  \/ SendStart(c) \/ SendBody(c) \/ SendLastBody(c) \/ SendShortBody(c)
  \/ AppRaises(c) \/ AppReturns(c) \/ AppReturnsValue(c) \/ Resume500(c)

Environment ==
  \/ ResumeWriting \/ EofReceived \/ (\E exc \in BOOLEAN : ConnectionLost(exc))
  \/ KeepAliveTimeout \/ Shutdown \/ WebSocketTransport

Next == HandleEvents \/ (\E c \in Requests : App(c)) \/ Environment

Spec == Init /\ [][Next]_vars

-----------------------------------------------------------------------------
(* Every variable has its type. *)
TypeOK ==
  /\ cycle \in 0..MaxRequests
  /\ cycles \in [Requests -> Cycle]
  /\ conn \in Conn
  /\ keep_alive_timer \in BOOLEAN /\ total_requests \in Nat
  /\ feeding \in BOOLEAN /\ transport \in {"open", "closing", "lost"}
  /\ read_paused \in BOOLEAN /\ write_paused \in BOOLEAN
  /\ upgraded \in BOOLEAN /\ shut \in {"no", "returned", "raised"}

(* What takes the connection away from its client, a pending keep-alive timer
   or a WebSocket upgrade, comes between requests: never while a response is
   owed, however the requests were split over chunks. *)
OnlyBetweenRequests ==
  keep_alive_timer \/ upgraded =>
    \A c \in 1..cycle : cycles[c].response_complete

(* As long as h11 has not refused to send, a client is not left waiting on an
   open connection: reading is paused, or data is held back in h11, only while
   a started request is unanswered, and a task that is over has answered. *)
ClientNeverStuck ==
  transport = "open" /\ conn.our # "error" =>
    /\ read_paused \/ (conn.buffered /\ ~feeding) =>
         \E c \in 1..cycle : /\ cycles[c].stage # "done"
                             /\ ~cycles[c].response_complete
    /\ \A c \in 1..cycle :
         cycles[c].stage = "done" => cycles[c].response_complete

(* receive(): a waiting task is due to wake whenever it has something to learn
   (body bytes, the end of the body, a disconnect, the response's end), and
   one that was told the end of the body is woken only by the latter two. *)
ReceiveContract ==
  \A c \in 1..cycle :
    LET r == cycles[c]
        over == r.disconnected \/ r.response_complete
    IN  /\ r.receiving /\ (r.body > 0 \/ (~r.more_body /\ ~r.end_received) \/ over)
           => r.message_event
        /\ r.end_received => r.body = 0 /\ (r.message_event => over)

(* The connection implements HTTP pipelining: a request is handed to the
   application when all before it have been answered. *)
Abstract == INSTANCE Pipelining WITH
  arrived <- cycle, begun <- cycle,
  finished <- total_requests, open <- transport = "open"
ImplementsPipelining == Abstract!Spec
=============================================================================
