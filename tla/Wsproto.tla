------------------------------- MODULE Wsproto -------------------------------
(***************************************************************************)
(* WSProtocol (wsproto_impl.py) over the wsproto library, which leaves the *)
(* reply to the client's close frame to the protocol, reports a malformed  *)
(* frame as a close, and sends a denial response piece by piece: its       *)
(* handshake is complete, and its library "rejecting", from the head on.   *)
(* Frames that come before the handshake is answered wait in the library.  *)
(***************************************************************************)
EXTENDS WebSocketBase

(* data_received when the library refuses the handshake: no task is made, and
   the protocol's flags stay as they are. *)
HandshakeRefused ==
  /\ feeding /\ task = "none"
  /\ feeding' = FALSE
  /\ conn' = "closed"
  /\ Write
  /\ transport' = "closing"
  /\ UNCHANGED <<queue, protocol, timers, read_paused, heard, app, shut>>

Opened == Frame /\ conn # "connecting"

(* Messages, pings and pongs are skipped after close_sent. *)
HandleMessage == Opened /\ ~close_sent /\ QueueMessage

HandlePing == Opened /\ ~close_sent /\ AnswerPing

HandlePong ==
  /\ Opened /\ ~close_sent /\ pending_ping
  /\ PongAnswers
  /\ UNCHANGED <<queue, protocol, wire, close_timer, ping_timeout, reading, app, shut>>

(* handle_close with close_sent: the wait for the reply is over. *)
CloseReplied ==
  /\ close_timer' = FALSE
  /\ transport' = IF close_timer THEN Closed ELSE transport
  /\ UNCHANGED <<queue, writable>>

(* The client's close frame, a reply to ours or to be replied to. *)
HandleClose ==
  /\ Opened
  /\ conn' = "closed"
  /\ IF close_sent THEN CloseReplied
     ELSE /\ Write
          /\ Put("disconnect")
          /\ transport' = Closed
          /\ UNCHANGED close_timer
  /\ UNCHANGED <<protocol, keepalive, ping_timeout, reading, app, shut>>

(* A malformed frame comes as the last event of the chunk, a CloseConnection
   that leaves the library's state alone and is not replied to. *)
InvalidFrame ==
  /\ Opened
  /\ feeding' = FALSE
  /\ IF close_sent THEN CloseReplied
     ELSE /\ Put("disconnect")
          /\ transport' = Closed
          /\ UNCHANGED <<writable, close_timer>>
  /\ UNCHANGED <<protocol, conn, keepalive, ping_timeout, read_paused, heard, app,
                 shut>>

(* handle_message when the buffer passes ws_max_size. *)
MessageTooLarge ==
  /\ Opened /\ ~close_sent
  /\ close_sent' = TRUE
  /\ Put("disconnect")
  /\ conn' = "local_closing"
  /\ Write
  /\ transport' = Closed
  /\ UNCHANGED <<handshake_complete, disconnected, denial, timers, reading, app, shut>>

-----------------------------------------------------------------------------
(* The application.  In each of these the flags are set first; then the
   library may refuse, and the exception goes to the application. *)

(* send(websocket.close) before the handshake: 403. *)
Reject ==
  /\ Sends /\ ~handshake_complete
  /\ Put("disconnect")
  /\ handshake_complete' = TRUE /\ close_sent' = TRUE
  /\ IF conn = "connecting"
     THEN conn' = "closed" /\ Write /\ transport' = Closed
     ELSE UNCHANGED <<wire>>
  /\ UNCHANGED <<disconnected, denial, timers, reading, app, shut>>

(* send(websocket.http.response.start) writes the head at once. *)
DenialStart ==
  /\ Sends /\ ~handshake_complete /\ conn = "connecting"
  /\ handshake_complete' = TRUE /\ denial' = TRUE
  /\ conn' = "rejecting"
  /\ Write
  /\ UNCHANGED <<queue, close_sent, disconnected, transport, timers, reading, app,
                 shut>>

(* The library has no informational status to send, rejects bad headers, or has
   answered already: the denial has not started, yet the handshake counts as complete. *)
DenialRefused ==
  /\ Sends /\ ~handshake_complete
  /\ handshake_complete' = TRUE
  /\ refused' = (refused \/ ~is_closing)
  /\ UNCHANGED <<queue, close_sent, disconnected, denial, wire, timers, reading, task,
                 sending, told, shut>>

DenialBody ==
  /\ Sends /\ denial /\ conn = "rejecting"
  /\ Write
  /\ UNCHANGED <<queue, protocol, conn, transport, timers, reading, app, shut>>

DenialLastBody ==
  /\ Sends /\ denial /\ conn = "rejecting"
  /\ Write
  /\ conn' = "closed"
  /\ Put("disconnect")
  /\ close_sent' = TRUE
  /\ transport' = Closed
  /\ UNCHANGED <<handshake_complete, disconnected, denial, timers, reading, app, shut>>

(* send(websocket.close) once the handshake is complete. *)
MayClose == Sends /\ handshake_complete /\ ~close_sent /\ ~denial

(* Mutation of AppClose: the reply of the peer is awaited without a timer. *)
AppCloseUnbounded ==
  /\ MayClose /\ conn = "open"
  /\ close_sent' = TRUE
  /\ Put("disconnect")
  /\ conn' = "local_closing"
  /\ IF is_closing THEN UNCHANGED <<writable, read_paused>>
     ELSE Write /\ read_paused' = FALSE
  /\ UNCHANGED <<handshake_complete, disconnected, denial, transport, timers, feeding,
                 heard, app, shut>>

AppClose ==
  /\ MayClose /\ conn = "open"
  /\ close_sent' = TRUE
  /\ Put("disconnect")
  /\ conn' = "local_closing"
  /\ IF is_closing THEN UNCHANGED <<writable, close_timer, read_paused>>
     ELSE Write /\ read_paused' = FALSE /\ close_timer' = TRUE
  /\ UNCHANGED <<handshake_complete, disconnected, denial, transport, keepalive,
                 ping_timeout, feeding, heard, app, shut>>

(* The library refuses a code it cannot pack, and any close frame unless its
   connection is open: the close counts as sent, and no timer is set. *)
CloseRefused ==
  /\ MayClose
  /\ close_sent' = TRUE
  /\ Put("disconnect")
  /\ refused' = (refused \/ ~is_closing)
  /\ UNCHANGED <<handshake_complete, disconnected, denial, wire, timers, reading, task,
                 sending, told, shut>>

-----------------------------------------------------------------------------
(* What this protocol does in its own way. *)
Handlers ==
  \/ HandshakeRefused \/ HandleMessage \/ HandlePing \/ HandlePong \/ HandleClose
  \/ InvalidFrame \/ MessageTooLarge
  \/ Reject \/ DenialStart \/ DenialRefused \/ DenialBody \/ DenialLastBody
  \/ AppClose \/ CloseRefused

Next == Common \/ Handlers

Spec == Init /\ [][Next]_vars /\ Fairness
=============================================================================
