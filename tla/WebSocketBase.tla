---------------------------- MODULE WebSocketBase ----------------------------
(***************************************************************************)
(* What the two sans-IO WebSocket protocols of uvicorn have in common:     *)
(* WebSocketsSansIOProtocol (websockets_sansio_impl.py) and WSProtocol     *)
(* (wsproto_impl.py).  The state, the keepalive loop, flow control, the    *)
(* end of the application's task, the loss of the transport and shutdown() *)
(* are the same code in both; the modules WebSocketsSansIO and Wsproto     *)
(* EXTEND this one with the handlers that differ.                          *)
(*                                                                         *)
(* The protocol object is created by the HTTP protocol's upgrade, which    *)
(* feeds it the handshake request at once: the initial state is inside     *)
(* that first data_received.  "feeding" is TRUE while the frames of one    *)
(* chunk are handled; nothing else runs between them.  The client may send *)
(* frames before it has its answer, and sends none after its close frame.  *)
(*                                                                         *)
(* The application may receive and send from two tasks of its own, at any  *)
(* time and in any order.  A send that raises without changing anything    *)
(* (wrong message, ClientDisconnected) has no action; one that the library *)
(* refuses after flags or the queue have changed is "refused", and the     *)
(* application may catch the exception and go on.                          *)
(***************************************************************************)
EXTENDS Integers, Sequences

CONSTANTS
  MaxMessages,   \* bound: messages the client sends
  MaxQueue       \* bound: events queued when the application adds its own

ASSUME BoundsAssumption == MaxMessages \in Nat /\ MaxQueue \in Nat

VARIABLES
  queue,               \* the asyncio.Queue the application receives from
  handshake_complete, close_sent, disconnected,
  denial,              \* a denial response has been started
  conn,                \* state of the library's connection object
  transport,           \* the asyncio transport: open, closing or lost
  read_paused,
  writable,            \* the writable event is set
  close_timer,         \* close_timer is not None
  ping_timer, pong_timer,
  pending_ping,        \* pending_ping_payload is not None
  ping_timeout,        \* ping_timeout is configured
  feeding,             \* inside data_received
  task,                \* run_asgi: none, running or done
  sending,             \* a task of the application waits in send()
  shut,                \* shutdown() was called: no, returned or raised
  refused,             \* history: on an open transport, the library refused an
                       \* answer or a close that the protocol had noted already
  told,                \* history: the application received a disconnect
  heard                \* history: messages put into the queue

protocol == <<handshake_complete, close_sent, disconnected, denial>>
wire == <<conn, transport, writable>>
keepalive == <<ping_timer, pong_timer, pending_ping>>
timers == <<close_timer, keepalive, ping_timeout>>
reading == <<read_paused, feeding, heard>>
app == <<task, sending, told, refused>>
vars == <<queue, protocol, wire, timers, reading, app, shut>>

(* The library's state.  "closed": every further byte of the client is
   discarded and no frame can be sent. *)
ConnStates == {"connecting", "open", "local_closing", "rejecting", "closed"}

Events == {"connect", "receive", "disconnect"}

Init ==
  /\ queue = <<>>
  /\ handshake_complete = FALSE /\ close_sent = FALSE /\ disconnected = FALSE
  /\ denial = FALSE
  /\ conn = "connecting" /\ transport = "open"
  /\ read_paused = FALSE /\ writable = TRUE
  /\ close_timer = FALSE /\ ping_timer = FALSE /\ pong_timer = FALSE
  /\ pending_ping = FALSE /\ ping_timeout \in BOOLEAN
  /\ feeding = TRUE
  /\ task = "none" /\ sending = FALSE
  /\ shut = "no" /\ refused = FALSE /\ told = FALSE /\ heard = 0

-----------------------------------------------------------------------------
is_closing == transport # "open"

(* transport.close() *)
Closed == IF transport = "open" THEN "closing" ELSE transport

(* transport.write() calls pause_writing before it returns when the buffer
   passes its high-water mark. *)
Write == writable' \in IF transport = "lost" THEN {writable} ELSE {writable, FALSE}

Put(event) == queue' = Append(queue, event)

(* The application's call of send() is past its two guards. *)
Sends == ~feeding /\ task = "running" /\ writable /\ ~sending /\ ~disconnected

-----------------------------------------------------------------------------
(* Data from the client. *)

(* The handshake request: the task of the application is created. *)
HandleConnect ==
  /\ feeding /\ task = "none"
  /\ feeding' = FALSE
  /\ Put("connect")
  /\ task' = "running"
  /\ UNCHANGED <<protocol, wire, timers, read_paused, heard, sending, told, refused, shut>>

(* The library takes what the client sends in these states. *)
Reads == conn \in {"connecting", "open", "local_closing"}

DataReceived ==
  /\ ~feeding /\ ~is_closing /\ ~read_paused
  /\ task # "none" /\ Reads
  /\ feeding' = TRUE
  /\ UNCHANGED <<queue, protocol, wire, timers, read_paused, heard, app, shut>>

DataConsumed ==
  /\ feeding /\ task # "none"
  /\ feeding' = FALSE
  /\ UNCHANGED <<queue, protocol, wire, timers, read_paused, heard, app, shut>>

(* A frame of the chunk that is being handled reaches the protocol. *)
Frame == feeding /\ task # "none" /\ Reads

(* Mutation of HeardAfter: a message is queued by its last fragment and again
   as a whole. *)
HeardTwice == heard + 2

HeardAfter == heard + 1

(* A complete message: the first one in the queue pauses reading. *)
QueueMessage ==
  /\ heard < MaxMessages
  /\ heard' = HeardAfter
  /\ Put("receive")
  /\ read_paused' = TRUE
  /\ UNCHANGED <<protocol, wire, timers, feeding, app, shut>>

(* The library or the protocol writes the answer to a ping. *)
AnswerPing ==
  /\ Write
  /\ UNCHANGED <<queue, protocol, conn, transport, timers, reading, app, shut>>

(* Mutation of PongAnswers: the next ping is not scheduled. *)
PongEndsLoop ==
  /\ pending_ping' = FALSE
  /\ pong_timer' = FALSE
  /\ UNCHANGED ping_timer

(* handle_pong past its early return. *)
PongAnswers ==
  /\ pending_ping' = FALSE
  /\ pong_timer' = FALSE
  /\ ping_timer' = (ping_timer \/ pong_timer)

-----------------------------------------------------------------------------
(* Keepalive. *)

(* The ping_timer fires: send_keepalive_ping. *)
SendKeepalivePing ==
  /\ ~feeding /\ ping_timer
  /\ IF close_sent \/ is_closing
     THEN ping_timer' = FALSE /\ UNCHANGED <<writable, pong_timer, pending_ping>>
     ELSE /\ pending_ping' = TRUE
          /\ Write
          /\ pong_timer' = ping_timeout
          /\ ping_timer' = ~ping_timeout
  /\ UNCHANGED <<queue, protocol, conn, transport, close_timer, ping_timeout, reading,
                 app, shut>>

(* The pong_timer fires: keepalive_timeout. *)
KeepaliveTimeout ==
  /\ ~feeding /\ pong_timer
  /\ pong_timer' = FALSE /\ pending_ping' = FALSE
  /\ IF close_sent \/ is_closing
     THEN UNCHANGED <<close_sent, wire>>
     ELSE /\ close_sent' = TRUE
          /\ conn' = "local_closing"
          /\ transport' = "closing"
          /\ Write
  /\ UNCHANGED <<queue, handshake_complete, disconnected, denial, close_timer,
                 ping_timer, ping_timeout, reading, app, shut>>

-----------------------------------------------------------------------------
(* The application. *)

Receive ==
  /\ ~feeding /\ task = "running" /\ queue # <<>>
  /\ queue' = Tail(queue)
  /\ read_paused' = (read_paused /\ Tail(queue) # <<>>)
  /\ told' = (told \/ Head(queue) = "disconnect")
  /\ UNCHANGED <<protocol, wire, timers, feeding, heard, task, sending, refused, shut>>

(* The suspension at the top of send(). *)
SendWaits ==
  /\ ~feeding /\ task = "running" /\ ~sending /\ ~writable
  /\ sending' = TRUE
  /\ UNCHANGED <<queue, protocol, wire, timers, reading, task, told, refused, shut>>

SendWakes ==
  /\ ~feeding /\ sending /\ writable
  /\ sending' = FALSE
  /\ UNCHANGED <<queue, protocol, wire, timers, reading, task, told, refused, shut>>

(* send(websocket.accept) notes that the handshake is complete, then has the
   library write it; nothing happens on a closing transport. *)
MayAccept == Sends /\ ~handshake_complete /\ ~denial /\ ~is_closing

Accept ==
  /\ MayAccept
  /\ handshake_complete' = TRUE
  /\ conn' = "open"
  /\ ping_timer' = TRUE
  /\ Write
  /\ UNCHANGED <<queue, close_sent, disconnected, denial, transport, close_timer,
                 pong_timer, pending_ping, ping_timeout, reading, app, shut>>

(* The library refuses the application's subprotocol or headers: it goes on
   waiting for an answer, which the protocol believes given. *)
AcceptRefused ==
  /\ MayAccept
  /\ handshake_complete' = TRUE
  /\ refused' = TRUE
  /\ UNCHANGED <<queue, close_sent, disconnected, denial, wire, timers, reading, task,
                 sending, told, shut>>

(* send(websocket.send) *)
SendMessage ==
  /\ Sends /\ handshake_complete /\ ~close_sent /\ ~denial /\ conn = "open"
  /\ Write
  /\ UNCHANGED <<queue, protocol, conn, transport, timers, reading, app, shut>>

(* send_500_response, for a handshake nobody has answered. *)
Answer500 ==
  IF ~denial /\ ~handshake_complete /\ conn = "connecting"
  THEN conn' = "closed" /\ Write
  ELSE UNCHANGED <<conn, writable>>

(* The application returns or raises: an unanswered handshake gets a 500, and
   the transport is closed unless the peer's close reply is still awaited. *)
AppEnds ==
  /\ ~feeding /\ task = "running" /\ ~sending
  /\ task' = "done"
  /\ Answer500
  /\ transport' = IF close_timer THEN transport ELSE Closed
  /\ UNCHANGED <<queue, protocol, timers, reading, sending, told, refused, shut>>

-----------------------------------------------------------------------------
(* The transport and the server. *)

ResumeWriting ==
  /\ ~feeding /\ transport # "lost" /\ ~writable
  /\ writable' = TRUE
  /\ UNCHANGED <<queue, protocol, conn, transport, timers, reading, app, shut>>

(* eof_received returns None, so the transport closes itself. *)
EofReceived ==
  /\ ~feeding /\ transport = "open" /\ ~read_paused
  /\ transport' = "closing"
  /\ UNCHANGED <<queue, protocol, conn, writable, timers, reading, app, shut>>

(* The close_timer fires; the attribute keeps the spent handle. *)
CloseTimeout ==
  /\ ~feeding /\ close_timer /\ transport = "open"
  /\ transport' = "closing"
  /\ UNCHANGED <<queue, protocol, conn, writable, timers, reading, app, shut>>

(* Mutation of ConnectionLost: writable.set() is forgotten. *)
LostKeepsWaiting ==
  /\ ~feeding /\ transport # "lost"
  /\ transport' = "lost"
  /\ Put("disconnect")
  /\ handshake_complete' = TRUE /\ disconnected' = TRUE
  /\ close_timer' = FALSE
  /\ ping_timer' = FALSE /\ pong_timer' = FALSE /\ pending_ping' = FALSE
  /\ UNCHANGED <<close_sent, denial, conn, writable, ping_timeout, reading, app, shut>>

ConnectionLost ==
  /\ ~feeding /\ transport # "lost"
  /\ transport' = "lost"
  /\ Put("disconnect")
  /\ handshake_complete' = TRUE /\ disconnected' = TRUE
  /\ writable' = TRUE
  /\ close_timer' = FALSE
  /\ ping_timer' = FALSE /\ pong_timer' = FALSE /\ pending_ping' = FALSE
  /\ UNCHANGED <<close_sent, denial, conn, ping_timeout, reading, app, shut>>

(* shutdown(), called once by Server.shutdown on every connection in its set.
   The library refuses a close frame unless its connection is open: then the
   exception leaves shutdown() with the transport as it was.  It may refuse a
   second answer to the handshake too, on a transport that is closing already. *)
Shutdown ==
  /\ ~feeding /\ transport # "lost" /\ shut = "no"
  /\ ping_timer' = FALSE /\ pong_timer' = FALSE /\ pending_ping' = FALSE
  /\ \/ /\ close_sent
        /\ close_timer' = FALSE
        /\ transport' = Closed
        /\ shut' = "returned"
        /\ UNCHANGED <<queue, conn, writable>>
     \/ /\ ~close_sent /\ handshake_complete /\ conn = "open"
        /\ Put("disconnect")
        /\ conn' = "local_closing"
        /\ Write
        /\ transport' = Closed
        /\ shut' = "returned"
        /\ UNCHANGED close_timer
     \/ /\ ~close_sent /\ handshake_complete /\ conn # "open"
        /\ Put("disconnect")
        /\ shut' = "raised"
        /\ UNCHANGED <<wire, close_timer>>
     \/ /\ ~close_sent /\ ~handshake_complete
        /\ Answer500
        /\ transport' = Closed
        /\ shut' \in IF denial \/ conn = "connecting" THEN {"returned"}
                     ELSE {"returned", "raised"}
        /\ UNCHANGED <<queue, close_timer>>
  /\ UNCHANGED <<protocol, ping_timeout, reading, app>>

-----------------------------------------------------------------------------
(* The actions both protocols share. *)
Common ==
  \/ HandleConnect \/ DataReceived \/ DataConsumed
  \/ SendKeepalivePing \/ KeepaliveTimeout
  \/ Receive \/ SendWaits \/ SendWakes \/ Accept \/ AcceptRefused \/ SendMessage
  \/ AppEnds
  \/ ResumeWriting \/ EofReceived \/ CloseTimeout \/ ConnectionLost \/ Shutdown

(* What the event loop, the client and the application owe: callbacks, timers
   and ready tasks run; what is written to a closing transport is flushed or
   the connection is lost; an application that was told of the disconnect and
   can end, ends. *)
Fairness ==
  /\ WF_vars(HandleConnect) /\ WF_vars(DataConsumed)
  /\ SF_vars(CloseTimeout)
  /\ SF_vars(transport = "closing" /\ ConnectionLost)
  /\ SF_vars(Receive) /\ SF_vars(SendWakes)
  /\ SF_vars(told /\ AppEnds)

-----------------------------------------------------------------------------
(* Safety. *)

(* Every variable has its type. *)
TypeOK ==
  /\ queue \in Seq(Events)
  /\ handshake_complete \in BOOLEAN /\ close_sent \in BOOLEAN
  /\ disconnected \in BOOLEAN /\ denial \in BOOLEAN
  /\ conn \in ConnStates /\ transport \in {"open", "closing", "lost"}
  /\ read_paused \in BOOLEAN /\ writable \in BOOLEAN /\ close_timer \in BOOLEAN
  /\ ping_timer \in BOOLEAN /\ pong_timer \in BOOLEAN /\ pending_ping \in BOOLEAN
  /\ ping_timeout \in BOOLEAN /\ feeding \in BOOLEAN
  /\ task \in {"none", "running", "done"} /\ sending \in BOOLEAN
  /\ shut \in {"no", "returned", "raised"}
  /\ refused \in BOOLEAN /\ told \in BOOLEAN
  /\ heard \in 0..MaxMessages

(* Reading of an open connection stays paused only while the queue holds something
   the application can still receive, and never while the close_timer runs: the
   peer's close reply must be read.  A refused close may leave a disconnect there;
   otherwise it is a message, and the application is not past websocket.close. *)
PausedOnlyForMessages ==
  read_paused /\ transport = "open" =>
    /\ queue # <<>> /\ ~close_timer
    /\ refused \/ (~close_sent /\ \E i \in DOMAIN queue : queue[i] = "receive")

(* Messages come between connect and disconnect: none is queued behind a
   disconnect, or after the application has received one.  A close that the library
   refused is the exception: its disconnect is queued, and the client goes on. *)
NothingAfterDisconnect ==
  ~refused =>
    \A j \in DOMAIN queue :
      queue[j] = "receive" => ~told /\ \A i \in 1..(j - 1) : queue[i] # "disconnect"

(* The keepalive loop of an accepted open connection never stops before its close
   and never runs twice: a ping is due, or it was sent and its deadline is pending. *)
KeepaliveRuns ==
  conn = "open" /\ transport = "open" /\ ~close_sent =>
    IF ping_timeout THEN ping_timer # pong_timer /\ pong_timer = pending_ping
    ELSE ping_timer /\ ~pong_timer

(* A connection whose end has begun ends by itself: after a close frame, and
   after the application's end, the transport is closing or the close_timer
   bounds the wait for the peer's reply.  Where the library refused the close or
   the answer before it, no timer runs, and the end of the application is waited
   for. *)
NeverLeftOpen ==
  transport = "open" /\ (close_sent \/ task = "done") =>
    close_timer \/ (refused /\ task = "running")

(* Both protocols implement the lifecycle of WebSocketLifecycle, as the client sees
   it: by what the library has written, not by the protocol's flags. *)
Phase == IF transport # "open" \/ conn = "closed" THEN "closed"
         ELSE IF denial THEN "denying"
         ELSE IF conn = "open" THEN "accepted"
         ELSE IF conn = "local_closing" THEN "closing" ELSE "handshake"
Abstract == INSTANCE WebSocketLifecycle WITH phase <- Phase
ImplementsLifecycle == Abstract!Spec

-----------------------------------------------------------------------------
(* Liveness. *)

(* The task of the application ends once the connection is lost, also when one
   of its sends waits for the transport to be writable. *)
TaskEnds == transport = "lost" ~> task # "running"

-----------------------------------------------------------------------------
(* What the documentation says and the code does not do. *)

(* docs/server-behavior.md, Graceful Process Shutdown: the server ensures "that
   connections are properly finalized", so shutdown() closes the transport. *)
ShutdownFinalizes == shut # "no" => is_closing
=============================================================================
