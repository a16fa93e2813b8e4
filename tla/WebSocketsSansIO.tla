-------------------------- MODULE WebSocketsSansIO --------------------------
(***************************************************************************)
(* WebSocketsSansIOProtocol (websockets_sansio_impl.py) over the websockets *)
(* library's ServerProtocol, which echoes the client's close frame itself  *)
(* and discards everything that follows it.  It also takes frames in before *)
(* the handshake is answered.                                              *)
(*                                                                         *)
(* An application that goes on sending after its denial response, twice    *)
(* answers a handshake that shutdown() has refused, or tries a close again *)
(* that the library has refused, is cut off at MaxQueue events.            *)
(***************************************************************************)
EXTENDS WebSocketBase

(* handle_connect when the library refuses the handshake: no task is made. *)
HandshakeRefused ==
  /\ feeding /\ task = "none" /\ conn = "connecting"
  /\ feeding' = FALSE
  /\ handshake_complete' = TRUE /\ close_sent' = TRUE
  /\ conn' = "closed"
  /\ Write
  /\ transport' = "closing"
  /\ task' = "done"
  /\ UNCHANGED <<queue, disconnected, denial, timers, read_paused, heard, sending, told,
                 refused, shut>>

(* Mutation of HandleMessage: a message is queued after websocket.close. *)
MessageAfterClose == Frame /\ QueueMessage

(* send_receive_event_to_app: after websocket.close messages are dropped, which has
   no action. *)
HandleMessage == Frame /\ ~close_sent /\ QueueMessage

(* handle_ping; the library has the pong ready. *)
HandlePing == Frame /\ AnswerPing

(* handle_pong with the payload of the ping in flight. *)
HandlePong ==
  /\ Frame /\ pending_ping
  /\ PongAnswers
  /\ UNCHANGED <<queue, protocol, wire, close_timer, ping_timeout, reading, app, shut>>

(* Mutation of HandleClose: the peer's reply is left to the timer. *)
CloseReplyIgnored ==
  /\ Frame
  /\ conn' = "closed"
  /\ IF close_sent \/ is_closing
     THEN UNCHANGED <<queue, transport, writable, close_timer>>
     ELSE /\ Put("disconnect")
          /\ Write
          /\ UNCHANGED <<transport, close_timer>>
  /\ UNCHANGED <<protocol, keepalive, ping_timeout, reading, app, shut>>

(* The client's close frame: a reply to ours, or answered by the library. *)
HandleClose ==
  /\ Frame
  /\ conn' = "closed"
  /\ IF close_sent
     THEN /\ close_timer' = FALSE
          /\ transport' = IF close_timer THEN Closed ELSE transport
          /\ UNCHANGED <<queue, writable>>
     ELSE IF is_closing THEN UNCHANGED <<queue, transport, writable, close_timer>>
     ELSE /\ Put("disconnect")
          /\ Write
          /\ transport' = "closing"
          /\ UNCHANGED close_timer
  /\ UNCHANGED <<protocol, keepalive, ping_timeout, reading, app, shut>>

(* handle_parser_exception *)
ParserException(state) ==
  /\ conn' = state
  /\ Put("disconnect")
  /\ Write
  /\ close_sent' = TRUE
  /\ transport' = Closed

(* A protocol error, or a message over max_size: the library fails the
   connection while it reads the chunk, and no frame of it is handled. *)
InvalidData ==
  /\ ~feeding /\ ~is_closing /\ ~read_paused
  /\ conn \in {"open", "local_closing"}
  /\ ParserException("closed")
  /\ UNCHANGED <<handshake_complete, disconnected, denial, timers, reading, app, shut>>

(* A text message that is not UTF-8; dropped like others after a close. *)
InvalidText ==
  /\ Frame /\ ~close_sent /\ conn # "connecting"
  /\ ParserException("local_closing")
  /\ UNCHANGED <<handshake_complete, disconnected, denial, timers, reading, app, shut>>

(* Either of them before the handshake is answered: the library sends no close frame,
   so the handler fails on an assertion or on InvalidState, and the event loop
   aborts the transport. *)
InvalidEarly ==
  /\ ~is_closing /\ conn = "connecting" /\ task # "none"
  /\ \/ ~feeding /\ ~read_paused /\ conn' = "closed"
     \/ feeding /\ ~close_sent /\ UNCHANGED conn
  /\ transport' = "closing"
  /\ feeding' = FALSE
  /\ UNCHANGED <<queue, protocol, writable, timers, read_paused, heard, app, shut>>

-----------------------------------------------------------------------------
(* The application's answer to the handshake. *)

(* A final answer other than 101.  When shutdown() has answered first, the
   library may refuse the second answer after the disconnect is queued. *)
Answers(complete) ==
  /\ Put("disconnect")
  /\ \/ /\ conn' = "closed"
        /\ close_sent' = TRUE
        /\ handshake_complete' = complete
        /\ transport' = Closed
        /\ Write
     \/ /\ conn = "closed"
        /\ UNCHANGED <<handshake_complete, close_sent, wire>>

(* send(websocket.close) before the handshake: 403. *)
Reject ==
  /\ Sends /\ ~handshake_complete /\ ~denial /\ Len(queue) < MaxQueue
  /\ Answers(TRUE)
  /\ UNCHANGED <<disconnected, denial, timers, reading, app, shut>>

(* send(websocket.http.response.start) is kept until the body is complete. *)
DenialStart ==
  /\ Sends /\ ~handshake_complete /\ ~denial
  /\ denial' = TRUE
  /\ UNCHANGED <<queue, handshake_complete, close_sent, disconnected, wire, timers,
                 reading, app, shut>>

(* The last websocket.http.response.body; earlier ones are only buffered. *)
DenialLastBody ==
  /\ Sends /\ denial /\ Len(queue) < MaxQueue
  /\ Answers(handshake_complete)
  /\ UNCHANGED <<disconnected, denial, timers, reading, app, shut>>

(* send(websocket.close) once the handshake is complete queues the disconnect,
   then has the library write the close frame; on a closing transport nothing
   happens. *)
MayClose == Sends /\ handshake_complete /\ ~close_sent /\ ~denial /\ ~is_closing

(* Mutation of AppClose: reading stays paused although the close reply is to come. *)
AppCloseKeepsPaused ==
  /\ MayClose /\ conn = "open"
  /\ Put("disconnect")
  /\ conn' = "local_closing"
  /\ Write
  /\ close_sent' = TRUE
  /\ close_timer' = TRUE
  /\ UNCHANGED <<handshake_complete, disconnected, denial, transport, keepalive,
                 ping_timeout, reading, app, shut>>

AppClose ==
  /\ MayClose /\ conn = "open"
  /\ Put("disconnect")
  /\ conn' = "local_closing"
  /\ Write
  /\ close_sent' = TRUE
  /\ read_paused' = FALSE
  /\ close_timer' = TRUE
  /\ UNCHANGED <<handshake_complete, disconnected, denial, transport, keepalive,
                 ping_timeout, feeding, heard, app, shut>>

(* The library refuses a code or a reason it cannot send, and any close frame while
   it waits for the answer to the handshake: nothing is closed. *)
CloseRefused ==
  /\ MayClose /\ Len(queue) < MaxQueue
  /\ Put("disconnect")
  /\ refused' = TRUE
  /\ UNCHANGED <<protocol, wire, timers, reading, task, sending, told, shut>>

-----------------------------------------------------------------------------
(* What this protocol does in its own way. *)
Handlers ==
  \/ HandshakeRefused \/ HandleMessage \/ HandlePing \/ HandlePong \/ HandleClose
  \/ InvalidData \/ InvalidText \/ InvalidEarly
  \/ Reject \/ DenialStart \/ DenialLastBody \/ AppClose \/ CloseRefused

Next == Common \/ Handlers

Spec == Init /\ [][Next]_vars /\ Fairness
=============================================================================
