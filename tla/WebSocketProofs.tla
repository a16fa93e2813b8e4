--------------------------- MODULE WebSocketProofs ---------------------------
(***************************************************************************)
(* Proofs that both WebSocket protocols keep the safety properties of      *)
(* WebSocketBase and implement WebSocketLifecycle, for any bounds.         *)
(*                                                                         *)
(* IInv is inductive and implies them.  Its heart is OpenShape: on an open *)
(* transport the flags of the protocol determine the state of the library, *)
(* but for the answers and closes that the library refused, and a          *)
(* close_timer bounds what comes after a close frame.                      *)
(***************************************************************************)
EXTENDS MCWebSocket, TLAPS

(* The types, in the groups in which they are proved. *)
ProtocolTyped ==
  /\ handshake_complete \in BOOLEAN /\ close_sent \in BOOLEAN
  /\ disconnected \in BOOLEAN /\ denial \in BOOLEAN
WireTyped ==
  /\ conn \in ConnStates /\ transport \in {"open", "closing", "lost"}
  /\ writable \in BOOLEAN /\ read_paused \in BOOLEAN
TimersTyped ==
  /\ close_timer \in BOOLEAN /\ ping_timeout \in BOOLEAN
  /\ ping_timer \in BOOLEAN /\ pong_timer \in BOOLEAN /\ pending_ping \in BOOLEAN
AppTyped ==
  /\ feeding \in BOOLEAN
  /\ task \in {"none", "running", "done"} /\ sending \in BOOLEAN
  /\ shut \in {"no", "returned", "raised"}
  /\ refused \in BOOLEAN /\ told \in BOOLEAN
QueueTyped == queue \in Seq(Events) /\ heard \in 0..MaxMessages

Flags == ProtocolTyped /\ WireTyped /\ TimersTyped /\ AppTyped

(* On an open transport: before a close the library is where the flags say, unless
   it refused an answer that they count; a close marked as sent was written and has
   its close_timer, or was refused; and an application is over only if that timer is
   set.  In WSProtocol a denial that has started counts as a complete handshake. *)
OpenShape ==
  /\ close_timer => close_sent
  /\ library = "wsproto" /\ denial => handshake_complete
  /\ transport = "open" =>
       /\ ~close_sent =>
            \/ ~handshake_complete /\ conn = "connecting"
            \/ handshake_complete /\ denial /\ conn = "rejecting"
            \/ handshake_complete /\ ~denial /\ conn = "open"
            \/ handshake_complete /\ ~denial /\ conn = "connecting" /\ refused
       /\ close_sent =>
            /\ handshake_complete
            /\ IF close_timer THEN conn # "open" ELSE ~denial /\ refused
       /\ task = "done" => close_timer

(* The keepalive loop, and that it does not exist before the handshake is
   accepted. *)
KeepaliveShape ==
  /\ conn = "open" /\ transport = "open" /\ ~close_sent =>
       /\ ping_timeout => (ping_timer <=> ~pong_timer) /\ (pong_timer <=> pending_ping)
       /\ ~ping_timeout => ping_timer /\ ~pong_timer
  /\ ~handshake_complete => ~ping_timer /\ ~pong_timer /\ ~pending_ping

(* Frames are handled on an open transport unless a close was sent, by WSProtocol only
   once the handshake is complete, and nothing is answered or queued before there is
   a task. *)
FeedingShape ==
  /\ feeding /\ Reads /\ ~close_sent => transport = "open"
  /\ library = "wsproto" /\ read_paused => handshake_complete
  /\ task = "none" =>
       /\ conn \in {"connecting", "closed"}
       /\ transport = "open" => ~handshake_complete
       /\ feeding => queue = <<>>

(* The end of the connection has not begun, nor has the library refused anything. *)
Calm == transport = "open" /\ ~close_sent /\ ~refused /\ conn \in {"connecting", "open"}

Paused == read_paused /\ transport = "open"

(* The order of the queue: connect first, no disconnect while messages can still
   come, and while reading is paused a message in it, unless a close was refused. *)
QueueShape ==
  /\ \A i \in DOMAIN queue : queue[i] = "connect" => i = 1
  /\ Calm => ~told /\ \A i \in DOMAIN queue : queue[i] # "disconnect"
  /\ read_paused => queue # <<>>
  /\ Paused => ~close_timer /\
       (refused \/ (Calm /\ \E i \in DOMAIN queue : queue[i] = "receive"))
  /\ NothingAfterDisconnect

IInv ==
  /\ Flags /\ QueueTyped
  /\ OpenShape /\ KeepaliveShape /\ FeedingShape /\ QueueShape

(* What a step does to the queue: nothing, or it adds a disconnect, as the end of
   the connection begins or a close is refused. *)
Kept ==
  /\ UNCHANGED <<queue, told>>
  /\ Calm' => Calm
  /\ refused => refused'
  /\ read_paused' => read_paused
  /\ Paused' => ~close_timer' /\ Paused /\ (refused' \/ Calm')
Disconnects ==
  /\ queue' = Append(queue, "disconnect") /\ told' = told
  /\ refused => refused'
  /\ ~Calm' /\ (Paused' => ~close_timer' /\ refused')

(* The flags of the protocol keep their types in every handler. *)
LEMMA ProtocolTypedStep ==
  ASSUME Flags, MCNext
  PROVE  ProtocolTyped'
<1> USE DEF Flags, ProtocolTyped, WireTyped, TimersTyped, AppTyped, ConnStates,
            protocol, wire, timers, keepalive, reading, app, is_closing, Closed, Write,
            Sends, Reads, Frame, PongAnswers
<1>1. CASE Common
  <2> USE DEF Answer500
  <2>1. CASE HandleConnect BY <2>1 DEF HandleConnect
  <2>2. CASE DataReceived BY <2>2 DEF DataReceived
  <2>3. CASE DataConsumed BY <2>3 DEF DataConsumed
  <2>4. CASE SendKeepalivePing BY <2>4 DEF SendKeepalivePing
  <2>5. CASE KeepaliveTimeout BY <2>5 DEF KeepaliveTimeout
  <2>6. CASE Receive BY <2>6 DEF Receive
  <2>7. CASE SendWaits BY <2>7 DEF SendWaits
  <2>8. CASE SendWakes BY <2>8 DEF SendWakes
  <2>9. CASE Accept BY <2>9 DEF Accept, MayAccept
  <2>10. CASE AcceptRefused BY <2>10 DEF AcceptRefused, MayAccept
  <2>11. CASE SendMessage BY <2>11 DEF SendMessage
  <2>12. CASE AppEnds BY <2>12 DEF AppEnds
  <2>13. CASE ResumeWriting BY <2>13 DEF ResumeWriting
  <2>14. CASE EofReceived BY <2>14 DEF EofReceived
  <2>15. CASE CloseTimeout BY <2>15 DEF CloseTimeout
  <2>16. CASE ConnectionLost BY <2>16 DEF ConnectionLost
  <2>17. CASE Shutdown BY <2>17 DEF Shutdown
  <2>18. QED
    BY <1>1, <2>1, <2>2, <2>3, <2>4, <2>5, <2>6, <2>7, <2>8, <2>9, <2>10, <2>11, <2>12,
       <2>13, <2>14, <2>15, <2>16, <2>17 DEF Common
<1>2. CASE library = "websockets" /\ S!Handlers
  <2> USE DEF S!protocol, S!wire, S!timers, S!keepalive, S!reading, S!app, S!is_closing,
              S!Closed, S!Write, S!Sends, S!Reads, S!Frame, S!PongAnswers
  <2>1. CASE S!HandshakeRefused BY <2>1 DEF S!HandshakeRefused
  <2>2. CASE S!HandleMessage BY <2>2 DEF S!HandleMessage, S!QueueMessage
  <2>3. CASE S!HandlePing BY <2>3 DEF S!HandlePing, S!AnswerPing
  <2>4. CASE S!HandlePong BY <2>4 DEF S!HandlePong
  <2>5. CASE S!HandleClose BY <2>5 DEF S!HandleClose
  <2>6. CASE S!InvalidData BY <2>6 DEF S!InvalidData, S!ParserException
  <2>7. CASE S!InvalidText BY <2>7 DEF S!InvalidText, S!ParserException
  <2>8. CASE S!InvalidEarly BY <2>8 DEF S!InvalidEarly
  <2>9. CASE S!Reject BY <2>9 DEF S!Reject, S!Answers
  <2>10. CASE S!DenialStart BY <2>10 DEF S!DenialStart
  <2>11. CASE S!DenialLastBody BY <2>11 DEF S!DenialLastBody, S!Answers
  <2>12. CASE S!AppClose BY <2>12 DEF S!AppClose, S!MayClose
  <2>13. CASE S!CloseRefused BY <2>13 DEF S!CloseRefused, S!MayClose
  <2>14. QED
    BY <1>2, <2>1, <2>2, <2>3, <2>4, <2>5, <2>6, <2>7, <2>8, <2>9, <2>10, <2>11, <2>12,
       <2>13 DEF S!Handlers
<1>3. CASE library = "wsproto" /\ W!Handlers
  <2> USE DEF W!protocol, W!wire, W!timers, W!keepalive, W!reading, W!app, W!is_closing,
              W!Closed, W!Write, W!Sends, W!Reads, W!Frame, W!PongAnswers
  <2>1. CASE W!HandshakeRefused BY <2>1 DEF W!HandshakeRefused
  <2>2. CASE W!HandleMessage BY <2>2 DEF W!HandleMessage, W!Opened, W!QueueMessage
  <2>3. CASE W!HandlePing BY <2>3 DEF W!HandlePing, W!Opened, W!AnswerPing
  <2>4. CASE W!HandlePong BY <2>4 DEF W!HandlePong, W!Opened
  <2>5. CASE W!HandleClose BY <2>5 DEF W!HandleClose, W!Opened, W!CloseReplied
  <2>6. CASE W!InvalidFrame BY <2>6 DEF W!InvalidFrame, W!Opened, W!CloseReplied
  <2>7. CASE W!MessageTooLarge BY <2>7 DEF W!MessageTooLarge, W!Opened
  <2>8. CASE W!Reject BY <2>8 DEF W!Reject
  <2>9. CASE W!DenialStart BY <2>9 DEF W!DenialStart
  <2>10. CASE W!DenialRefused BY <2>10 DEF W!DenialRefused
  <2>11. CASE W!DenialBody BY <2>11 DEF W!DenialBody
  <2>12. CASE W!DenialLastBody BY <2>12 DEF W!DenialLastBody
  <2>13. CASE W!AppClose BY <2>13 DEF W!AppClose, W!MayClose
  <2>14. CASE W!CloseRefused BY <2>14 DEF W!CloseRefused, W!MayClose
  <2>15. QED
    BY <1>3, <2>1, <2>2, <2>3, <2>4, <2>5, <2>6, <2>7, <2>8, <2>9, <2>10, <2>11, <2>12,
       <2>13, <2>14 DEF W!Handlers
<1>4. QED BY <1>1, <1>2, <1>3 DEF MCNext

(* The states of the library and of the transport keep theirs. *)
LEMMA WireTypedStep ==
  ASSUME Flags, MCNext
  PROVE  WireTyped'
<1> USE DEF Flags, ProtocolTyped, WireTyped, TimersTyped, AppTyped, ConnStates,
            protocol, wire, timers, keepalive, reading, app, is_closing, Closed, Write,
            Sends, Reads, Frame, PongAnswers
<1>1. CASE Common
  <2> USE DEF Answer500
  <2>1. CASE HandleConnect BY <2>1 DEF HandleConnect
  <2>2. CASE DataReceived BY <2>2 DEF DataReceived
  <2>3. CASE DataConsumed BY <2>3 DEF DataConsumed
  <2>4. CASE SendKeepalivePing BY <2>4 DEF SendKeepalivePing
  <2>5. CASE KeepaliveTimeout BY <2>5 DEF KeepaliveTimeout
  <2>6. CASE Receive BY <2>6 DEF Receive
  <2>7. CASE SendWaits BY <2>7 DEF SendWaits
  <2>8. CASE SendWakes BY <2>8 DEF SendWakes
  <2>9. CASE Accept BY <2>9 DEF Accept, MayAccept
  <2>10. CASE AcceptRefused BY <2>10 DEF AcceptRefused, MayAccept
  <2>11. CASE SendMessage BY <2>11 DEF SendMessage
  <2>12. CASE AppEnds BY <2>12 DEF AppEnds
  <2>13. CASE ResumeWriting BY <2>13 DEF ResumeWriting
  <2>14. CASE EofReceived BY <2>14 DEF EofReceived
  <2>15. CASE CloseTimeout BY <2>15 DEF CloseTimeout
  <2>16. CASE ConnectionLost BY <2>16 DEF ConnectionLost
  <2>17. CASE Shutdown BY <2>17 DEF Shutdown
  <2>18. QED
    BY <1>1, <2>1, <2>2, <2>3, <2>4, <2>5, <2>6, <2>7, <2>8, <2>9, <2>10, <2>11, <2>12,
       <2>13, <2>14, <2>15, <2>16, <2>17 DEF Common
<1>2. CASE library = "websockets" /\ S!Handlers
  <2> USE DEF S!protocol, S!wire, S!timers, S!keepalive, S!reading, S!app, S!is_closing,
              S!Closed, S!Write, S!Sends, S!Reads, S!Frame, S!PongAnswers
  <2>1. CASE S!HandshakeRefused BY <2>1 DEF S!HandshakeRefused
  <2>2. CASE S!HandleMessage BY <2>2 DEF S!HandleMessage, S!QueueMessage
  <2>3. CASE S!HandlePing BY <2>3 DEF S!HandlePing, S!AnswerPing
  <2>4. CASE S!HandlePong BY <2>4 DEF S!HandlePong
  <2>5. CASE S!HandleClose BY <2>5 DEF S!HandleClose
  <2>6. CASE S!InvalidData BY <2>6 DEF S!InvalidData, S!ParserException
  <2>7. CASE S!InvalidText BY <2>7 DEF S!InvalidText, S!ParserException
  <2>8. CASE S!InvalidEarly BY <2>8 DEF S!InvalidEarly
  <2>9. CASE S!Reject BY <2>9 DEF S!Reject, S!Answers
  <2>10. CASE S!DenialStart BY <2>10 DEF S!DenialStart
  <2>11. CASE S!DenialLastBody BY <2>11 DEF S!DenialLastBody, S!Answers
  <2>12. CASE S!AppClose BY <2>12 DEF S!AppClose, S!MayClose
  <2>13. CASE S!CloseRefused BY <2>13 DEF S!CloseRefused, S!MayClose
  <2>14. QED
    BY <1>2, <2>1, <2>2, <2>3, <2>4, <2>5, <2>6, <2>7, <2>8, <2>9, <2>10, <2>11, <2>12,
       <2>13 DEF S!Handlers
<1>3. CASE library = "wsproto" /\ W!Handlers
  <2> USE DEF W!protocol, W!wire, W!timers, W!keepalive, W!reading, W!app, W!is_closing,
              W!Closed, W!Write, W!Sends, W!Reads, W!Frame, W!PongAnswers
  <2>1. CASE W!HandshakeRefused BY <2>1 DEF W!HandshakeRefused
  <2>2. CASE W!HandleMessage BY <2>2 DEF W!HandleMessage, W!Opened, W!QueueMessage
  <2>3. CASE W!HandlePing BY <2>3 DEF W!HandlePing, W!Opened, W!AnswerPing
  <2>4. CASE W!HandlePong BY <2>4 DEF W!HandlePong, W!Opened
  <2>5. CASE W!HandleClose BY <2>5 DEF W!HandleClose, W!Opened, W!CloseReplied
  <2>6. CASE W!InvalidFrame BY <2>6 DEF W!InvalidFrame, W!Opened, W!CloseReplied
  <2>7. CASE W!MessageTooLarge BY <2>7 DEF W!MessageTooLarge, W!Opened
  <2>8. CASE W!Reject BY <2>8 DEF W!Reject
  <2>9. CASE W!DenialStart BY <2>9 DEF W!DenialStart
  <2>10. CASE W!DenialRefused BY <2>10 DEF W!DenialRefused
  <2>11. CASE W!DenialBody BY <2>11 DEF W!DenialBody
  <2>12. CASE W!DenialLastBody BY <2>12 DEF W!DenialLastBody
  <2>13. CASE W!AppClose BY <2>13 DEF W!AppClose, W!MayClose
  <2>14. CASE W!CloseRefused BY <2>14 DEF W!CloseRefused, W!MayClose
  <2>15. QED
    BY <1>3, <2>1, <2>2, <2>3, <2>4, <2>5, <2>6, <2>7, <2>8, <2>9, <2>10, <2>11, <2>12,
       <2>13, <2>14 DEF W!Handlers
<1>4. QED BY <1>1, <1>2, <1>3 DEF MCNext

(* The timers keep theirs. *)
LEMMA TimersTypedStep ==
  ASSUME Flags, MCNext
  PROVE  TimersTyped'
<1> USE DEF Flags, ProtocolTyped, WireTyped, TimersTyped, AppTyped, ConnStates,
            protocol, wire, timers, keepalive, reading, app, is_closing, Closed, Write,
            Sends, Reads, Frame, PongAnswers
<1>1. CASE Common
  <2> USE DEF Answer500
  <2>1. CASE HandleConnect BY <2>1 DEF HandleConnect
  <2>2. CASE DataReceived BY <2>2 DEF DataReceived
  <2>3. CASE DataConsumed BY <2>3 DEF DataConsumed
  <2>4. CASE SendKeepalivePing BY <2>4 DEF SendKeepalivePing
  <2>5. CASE KeepaliveTimeout BY <2>5 DEF KeepaliveTimeout
  <2>6. CASE Receive BY <2>6 DEF Receive
  <2>7. CASE SendWaits BY <2>7 DEF SendWaits
  <2>8. CASE SendWakes BY <2>8 DEF SendWakes
  <2>9. CASE Accept BY <2>9 DEF Accept, MayAccept
  <2>10. CASE AcceptRefused BY <2>10 DEF AcceptRefused, MayAccept
  <2>11. CASE SendMessage BY <2>11 DEF SendMessage
  <2>12. CASE AppEnds BY <2>12 DEF AppEnds
  <2>13. CASE ResumeWriting BY <2>13 DEF ResumeWriting
  <2>14. CASE EofReceived BY <2>14 DEF EofReceived
  <2>15. CASE CloseTimeout BY <2>15 DEF CloseTimeout
  <2>16. CASE ConnectionLost BY <2>16 DEF ConnectionLost
  <2>17. CASE Shutdown BY <2>17 DEF Shutdown
  <2>18. QED
    BY <1>1, <2>1, <2>2, <2>3, <2>4, <2>5, <2>6, <2>7, <2>8, <2>9, <2>10, <2>11, <2>12,
       <2>13, <2>14, <2>15, <2>16, <2>17 DEF Common
<1>2. CASE library = "websockets" /\ S!Handlers
  <2> USE DEF S!protocol, S!wire, S!timers, S!keepalive, S!reading, S!app, S!is_closing,
              S!Closed, S!Write, S!Sends, S!Reads, S!Frame, S!PongAnswers
  <2>1. CASE S!HandshakeRefused BY <2>1 DEF S!HandshakeRefused
  <2>2. CASE S!HandleMessage BY <2>2 DEF S!HandleMessage, S!QueueMessage
  <2>3. CASE S!HandlePing BY <2>3 DEF S!HandlePing, S!AnswerPing
  <2>4. CASE S!HandlePong BY <2>4 DEF S!HandlePong
  <2>5. CASE S!HandleClose BY <2>5 DEF S!HandleClose
  <2>6. CASE S!InvalidData BY <2>6 DEF S!InvalidData, S!ParserException
  <2>7. CASE S!InvalidText BY <2>7 DEF S!InvalidText, S!ParserException
  <2>8. CASE S!InvalidEarly BY <2>8 DEF S!InvalidEarly
  <2>9. CASE S!Reject BY <2>9 DEF S!Reject, S!Answers
  <2>10. CASE S!DenialStart BY <2>10 DEF S!DenialStart
  <2>11. CASE S!DenialLastBody BY <2>11 DEF S!DenialLastBody, S!Answers
  <2>12. CASE S!AppClose BY <2>12 DEF S!AppClose, S!MayClose
  <2>13. CASE S!CloseRefused BY <2>13 DEF S!CloseRefused, S!MayClose
  <2>14. QED
    BY <1>2, <2>1, <2>2, <2>3, <2>4, <2>5, <2>6, <2>7, <2>8, <2>9, <2>10, <2>11, <2>12,
       <2>13 DEF S!Handlers
<1>3. CASE library = "wsproto" /\ W!Handlers
  <2> USE DEF W!protocol, W!wire, W!timers, W!keepalive, W!reading, W!app, W!is_closing,
              W!Closed, W!Write, W!Sends, W!Reads, W!Frame, W!PongAnswers
  <2>1. CASE W!HandshakeRefused BY <2>1 DEF W!HandshakeRefused
  <2>2. CASE W!HandleMessage BY <2>2 DEF W!HandleMessage, W!Opened, W!QueueMessage
  <2>3. CASE W!HandlePing BY <2>3 DEF W!HandlePing, W!Opened, W!AnswerPing
  <2>4. CASE W!HandlePong BY <2>4 DEF W!HandlePong, W!Opened
  <2>5. CASE W!HandleClose BY <2>5 DEF W!HandleClose, W!Opened, W!CloseReplied
  <2>6. CASE W!InvalidFrame BY <2>6 DEF W!InvalidFrame, W!Opened, W!CloseReplied
  <2>7. CASE W!MessageTooLarge BY <2>7 DEF W!MessageTooLarge, W!Opened
  <2>8. CASE W!Reject BY <2>8 DEF W!Reject
  <2>9. CASE W!DenialStart BY <2>9 DEF W!DenialStart
  <2>10. CASE W!DenialRefused BY <2>10 DEF W!DenialRefused
  <2>11. CASE W!DenialBody BY <2>11 DEF W!DenialBody
  <2>12. CASE W!DenialLastBody BY <2>12 DEF W!DenialLastBody
  <2>13. CASE W!AppClose BY <2>13 DEF W!AppClose, W!MayClose
  <2>14. CASE W!CloseRefused BY <2>14 DEF W!CloseRefused, W!MayClose
  <2>15. QED
    BY <1>3, <2>1, <2>2, <2>3, <2>4, <2>5, <2>6, <2>7, <2>8, <2>9, <2>10, <2>11, <2>12,
       <2>13, <2>14 DEF W!Handlers
<1>4. QED BY <1>1, <1>2, <1>3 DEF MCNext

(* The application's task and the history variables keep theirs. *)
LEMMA AppTypedStep ==
  ASSUME Flags, MCNext
  PROVE  AppTyped'
<1> USE DEF Flags, ProtocolTyped, WireTyped, TimersTyped, AppTyped, ConnStates,
            protocol, wire, timers, keepalive, reading, app, is_closing, Closed, Write,
            Sends, Reads, Frame, PongAnswers
<1>1. CASE Common
  <2> USE DEF Answer500
  <2>1. CASE HandleConnect BY <2>1 DEF HandleConnect
  <2>2. CASE DataReceived BY <2>2 DEF DataReceived
  <2>3. CASE DataConsumed BY <2>3 DEF DataConsumed
  <2>4. CASE SendKeepalivePing BY <2>4 DEF SendKeepalivePing
  <2>5. CASE KeepaliveTimeout BY <2>5 DEF KeepaliveTimeout
  <2>6. CASE Receive BY <2>6 DEF Receive
  <2>7. CASE SendWaits BY <2>7 DEF SendWaits
  <2>8. CASE SendWakes BY <2>8 DEF SendWakes
  <2>9. CASE Accept BY <2>9 DEF Accept, MayAccept
  <2>10. CASE AcceptRefused BY <2>10 DEF AcceptRefused, MayAccept
  <2>11. CASE SendMessage BY <2>11 DEF SendMessage
  <2>12. CASE AppEnds BY <2>12 DEF AppEnds
  <2>13. CASE ResumeWriting BY <2>13 DEF ResumeWriting
  <2>14. CASE EofReceived BY <2>14 DEF EofReceived
  <2>15. CASE CloseTimeout BY <2>15 DEF CloseTimeout
  <2>16. CASE ConnectionLost BY <2>16 DEF ConnectionLost
  <2>17. CASE Shutdown BY <2>17 DEF Shutdown
  <2>18. QED
    BY <1>1, <2>1, <2>2, <2>3, <2>4, <2>5, <2>6, <2>7, <2>8, <2>9, <2>10, <2>11, <2>12,
       <2>13, <2>14, <2>15, <2>16, <2>17 DEF Common
<1>2. CASE library = "websockets" /\ S!Handlers
  <2> USE DEF S!protocol, S!wire, S!timers, S!keepalive, S!reading, S!app, S!is_closing,
              S!Closed, S!Write, S!Sends, S!Reads, S!Frame, S!PongAnswers
  <2>1. CASE S!HandshakeRefused BY <2>1 DEF S!HandshakeRefused
  <2>2. CASE S!HandleMessage BY <2>2 DEF S!HandleMessage, S!QueueMessage
  <2>3. CASE S!HandlePing BY <2>3 DEF S!HandlePing, S!AnswerPing
  <2>4. CASE S!HandlePong BY <2>4 DEF S!HandlePong
  <2>5. CASE S!HandleClose BY <2>5 DEF S!HandleClose
  <2>6. CASE S!InvalidData BY <2>6 DEF S!InvalidData, S!ParserException
  <2>7. CASE S!InvalidText BY <2>7 DEF S!InvalidText, S!ParserException
  <2>8. CASE S!InvalidEarly BY <2>8 DEF S!InvalidEarly
  <2>9. CASE S!Reject BY <2>9 DEF S!Reject, S!Answers
  <2>10. CASE S!DenialStart BY <2>10 DEF S!DenialStart
  <2>11. CASE S!DenialLastBody BY <2>11 DEF S!DenialLastBody, S!Answers
  <2>12. CASE S!AppClose BY <2>12 DEF S!AppClose, S!MayClose
  <2>13. CASE S!CloseRefused BY <2>13 DEF S!CloseRefused, S!MayClose
  <2>14. QED
    BY <1>2, <2>1, <2>2, <2>3, <2>4, <2>5, <2>6, <2>7, <2>8, <2>9, <2>10, <2>11, <2>12,
       <2>13 DEF S!Handlers
<1>3. CASE library = "wsproto" /\ W!Handlers
  <2> USE DEF W!protocol, W!wire, W!timers, W!keepalive, W!reading, W!app, W!is_closing,
              W!Closed, W!Write, W!Sends, W!Reads, W!Frame, W!PongAnswers
  <2>1. CASE W!HandshakeRefused BY <2>1 DEF W!HandshakeRefused
  <2>2. CASE W!HandleMessage BY <2>2 DEF W!HandleMessage, W!Opened, W!QueueMessage
  <2>3. CASE W!HandlePing BY <2>3 DEF W!HandlePing, W!Opened, W!AnswerPing
  <2>4. CASE W!HandlePong BY <2>4 DEF W!HandlePong, W!Opened
  <2>5. CASE W!HandleClose BY <2>5 DEF W!HandleClose, W!Opened, W!CloseReplied
  <2>6. CASE W!InvalidFrame BY <2>6 DEF W!InvalidFrame, W!Opened, W!CloseReplied
  <2>7. CASE W!MessageTooLarge BY <2>7 DEF W!MessageTooLarge, W!Opened
  <2>8. CASE W!Reject BY <2>8 DEF W!Reject
  <2>9. CASE W!DenialStart BY <2>9 DEF W!DenialStart
  <2>10. CASE W!DenialRefused BY <2>10 DEF W!DenialRefused
  <2>11. CASE W!DenialBody BY <2>11 DEF W!DenialBody
  <2>12. CASE W!DenialLastBody BY <2>12 DEF W!DenialLastBody
  <2>13. CASE W!AppClose BY <2>13 DEF W!AppClose, W!MayClose
  <2>14. CASE W!CloseRefused BY <2>14 DEF W!CloseRefused, W!MayClose
  <2>15. QED
    BY <1>3, <2>1, <2>2, <2>3, <2>4, <2>5, <2>6, <2>7, <2>8, <2>9, <2>10, <2>11, <2>12,
       <2>13, <2>14 DEF W!Handlers
<1>4. QED BY <1>1, <1>2, <1>3 DEF MCNext

(* On an open transport every handler leaves the library where the protocol's
   flags say, or notes a refusal, and no close is written without its timer. *)
LEMMA OpenShapeStep ==
  ASSUME Flags, OpenShape, KeepaliveShape, MCNext
  PROVE  OpenShape'
<1>0. UNCHANGED library BY DEF MCNext
<1> USE <1>0 DEF Flags, ProtocolTyped, WireTyped, TimersTyped, AppTyped, OpenShape,
            ConnStates, protocol, wire, timers, keepalive, reading, app, is_closing,
            Closed, Write, Sends, Reads, Frame, PongAnswers
<1>1. CASE Common
  <2> USE DEF Answer500
  <2>1. CASE HandleConnect BY <2>1 DEF HandleConnect
  <2>2. CASE DataReceived BY <2>2 DEF DataReceived
  <2>3. CASE DataConsumed BY <2>3 DEF DataConsumed
  <2>4. CASE SendKeepalivePing BY <2>4 DEF SendKeepalivePing
  <2>5. CASE KeepaliveTimeout BY <2>5 DEF KeepaliveTimeout
  <2>6. CASE Receive BY <2>6 DEF Receive
  <2>7. CASE SendWaits BY <2>7 DEF SendWaits
  <2>8. CASE SendWakes BY <2>8 DEF SendWakes
  <2>9. CASE Accept BY <2>9 DEF Accept, MayAccept
  <2>10. CASE AcceptRefused BY <2>10 DEF AcceptRefused, MayAccept
  <2>11. CASE SendMessage BY <2>11 DEF SendMessage
  <2>12. CASE AppEnds BY <2>12 DEF AppEnds
  <2>13. CASE ResumeWriting BY <2>13 DEF ResumeWriting
  <2>14. CASE EofReceived BY <2>14 DEF EofReceived
  <2>15. CASE CloseTimeout BY <2>15 DEF CloseTimeout
  <2>16. CASE ConnectionLost BY <2>16 DEF ConnectionLost
  <2>17. CASE Shutdown
    <3>1. UNCHANGED protocol /\ UNCHANGED <<task, refused>> BY <2>17 DEF Shutdown
    <3>2. close_timer' => close_timer BY <2>17 DEF Shutdown
    <3>3. transport' # "open" \/ UNCHANGED <<conn, transport, close_timer>>
      BY <2>17 DEF Shutdown
    <3>4. UNCHANGED library BY DEF MCNext
    <3>5. QED BY <3>1, <3>2, <3>3, <3>4
  <2>18. QED
    BY <1>1, <2>1, <2>2, <2>3, <2>4, <2>5, <2>6, <2>7, <2>8, <2>9, <2>10, <2>11, <2>12,
       <2>13, <2>14, <2>15, <2>16, <2>17 DEF Common
<1>2. CASE library = "websockets" /\ S!Handlers
  <2> USE DEF S!protocol, S!wire, S!timers, S!keepalive, S!reading, S!app, S!is_closing,
              S!Closed, S!Write, S!Sends, S!Reads, S!Frame, S!PongAnswers
  <2>1. CASE S!HandshakeRefused BY <1>2, <2>1 DEF S!HandshakeRefused
  <2>2. CASE S!HandleMessage BY <1>2, <2>2 DEF S!HandleMessage, S!QueueMessage
  <2>3. CASE S!HandlePing BY <1>2, <2>3 DEF S!HandlePing, S!AnswerPing
  <2>4. CASE S!HandlePong BY <1>2, <2>4 DEF S!HandlePong
  <2>5. CASE S!HandleClose BY <1>2, <2>5 DEF S!HandleClose
  <2>6. CASE S!InvalidData BY <1>2, <2>6 DEF S!InvalidData, S!ParserException
  <2>7. CASE S!InvalidText BY <1>2, <2>7 DEF S!InvalidText, S!ParserException
  <2>8. CASE S!InvalidEarly BY <1>2, <2>8 DEF S!InvalidEarly
  <2>9. CASE S!Reject
    <3>1. \/ UNCHANGED <<handshake_complete, close_sent, conn, transport>>
          \/ transport' # "open" /\ (close_sent => close_sent')
               /\ (~handshake_complete' => ~handshake_complete)
      BY <2>9 DEF S!Reject, S!Answers
    <3>2. UNCHANGED <<denial, task, timers, refused, library>>
      BY <2>9 DEF S!Reject, MCNext
    <3>3. QED BY <1>2, <3>1, <3>2
  <2>10. CASE S!DenialStart BY <1>2, <2>10 DEF S!DenialStart
  <2>11. CASE S!DenialLastBody
    <3>1. \/ UNCHANGED <<handshake_complete, close_sent, conn, transport>>
          \/ transport' # "open" /\ (close_sent => close_sent')
               /\ (~handshake_complete' => ~handshake_complete)
      BY <2>11 DEF S!DenialLastBody, S!Answers
    <3>2. UNCHANGED <<denial, task, timers, refused, library>>
      BY <2>11 DEF S!DenialLastBody, MCNext
    <3>3. QED BY <1>2, <3>1, <3>2
  <2>12. CASE S!AppClose BY <1>2, <2>12 DEF S!AppClose, S!MayClose
  <2>13. CASE S!CloseRefused BY <1>2, <2>13 DEF S!CloseRefused, S!MayClose
  <2>14. QED
    BY <1>2, <2>1, <2>2, <2>3, <2>4, <2>5, <2>6, <2>7, <2>8, <2>9, <2>10, <2>11, <2>12,
       <2>13 DEF S!Handlers
<1>3. CASE library = "wsproto" /\ W!Handlers
  <2> USE DEF W!protocol, W!wire, W!timers, W!keepalive, W!reading, W!app, W!is_closing,
              W!Closed, W!Write, W!Sends, W!Reads, W!Frame, W!PongAnswers
  <2>1. CASE W!HandshakeRefused BY <1>3, <2>1 DEF W!HandshakeRefused
  <2>2. CASE W!HandleMessage BY <1>3, <2>2 DEF W!HandleMessage, W!Opened, W!QueueMessage
  <2>3. CASE W!HandlePing BY <1>3, <2>3 DEF W!HandlePing, W!Opened, W!AnswerPing
  <2>4. CASE W!HandlePong BY <1>3, <2>4 DEF W!HandlePong, W!Opened
  <2>5. CASE W!HandleClose BY <1>3, <2>5 DEF W!HandleClose, W!Opened, W!CloseReplied
  <2>6. CASE W!InvalidFrame BY <1>3, <2>6 DEF W!InvalidFrame, W!Opened, W!CloseReplied
  <2>7. CASE W!MessageTooLarge BY <1>3, <2>7 DEF W!MessageTooLarge, W!Opened
  <2>8. CASE W!Reject BY <1>3, <2>8 DEF W!Reject
  <2>9. CASE W!DenialStart BY <1>3, <2>9 DEF W!DenialStart
  <2>10. CASE W!DenialRefused BY <1>3, <2>10 DEF W!DenialRefused
  <2>11. CASE W!DenialBody BY <1>3, <2>11 DEF W!DenialBody
  <2>12. CASE W!DenialLastBody BY <1>3, <2>12 DEF W!DenialLastBody
  <2>13. CASE W!AppClose BY <1>3, <2>13 DEF W!AppClose, W!MayClose
  <2>14. CASE W!CloseRefused BY <1>3, <2>14 DEF W!CloseRefused, W!MayClose
  <2>15. QED
    BY <1>3, <2>1, <2>2, <2>3, <2>4, <2>5, <2>6, <2>7, <2>8, <2>9, <2>10, <2>11, <2>12,
       <2>13, <2>14 DEF W!Handlers
<1>4. QED BY <1>1, <1>2, <1>3 DEF MCNext

(* No handler stops the keepalive loop of an open connection or starts it twice. *)
LEMMA KeepaliveShapeStep ==
  ASSUME Flags, OpenShape, KeepaliveShape, MCNext
  PROVE  KeepaliveShape'
<1> USE DEF Flags, ProtocolTyped, WireTyped, TimersTyped, AppTyped, OpenShape,
            KeepaliveShape, ConnStates, protocol, wire, timers, keepalive, reading, app,
            is_closing, Closed, Write, Sends, Reads, Frame, PongAnswers
<1>1. CASE Common
  <2> USE DEF Answer500
  <2>1. CASE HandleConnect BY <2>1 DEF HandleConnect
  <2>2. CASE DataReceived BY <2>2 DEF DataReceived
  <2>3. CASE DataConsumed BY <2>3 DEF DataConsumed
  <2>4. CASE SendKeepalivePing BY <2>4 DEF SendKeepalivePing
  <2>5. CASE KeepaliveTimeout BY <2>5 DEF KeepaliveTimeout
  <2>6. CASE Receive BY <2>6 DEF Receive
  <2>7. CASE SendWaits BY <2>7 DEF SendWaits
  <2>8. CASE SendWakes BY <2>8 DEF SendWakes
  <2>9. CASE Accept BY <2>9 DEF Accept, MayAccept
  <2>10. CASE AcceptRefused BY <2>10 DEF AcceptRefused, MayAccept
  <2>11. CASE SendMessage BY <2>11 DEF SendMessage
  <2>12. CASE AppEnds BY <2>12 DEF AppEnds
  <2>13. CASE ResumeWriting BY <2>13 DEF ResumeWriting
  <2>14. CASE EofReceived BY <2>14 DEF EofReceived
  <2>15. CASE CloseTimeout BY <2>15 DEF CloseTimeout
  <2>16. CASE ConnectionLost BY <2>16 DEF ConnectionLost
  <2>17. CASE Shutdown
    <3>1. UNCHANGED protocol BY <2>17 DEF Shutdown
    <3>2. ~ping_timer' /\ ~pong_timer' /\ ~pending_ping' BY <2>17 DEF Shutdown
    <3>3. transport' # "open" \/ conn' # "open" \/ close_sent
      <4>1. CASE ~close_sent /\ handshake_complete /\ conn = "open"
        BY <2>17, <4>1 DEF Shutdown
      <4>2. CASE ~close_sent /\ handshake_complete /\ conn # "open"
        BY <2>17, <4>2 DEF Shutdown
      <4>3. CASE ~close_sent /\ ~handshake_complete BY <2>17, <4>3 DEF Shutdown
      <4>4. QED BY <4>1, <4>2, <4>3
    <3>4. QED BY <3>1, <3>2, <3>3
  <2>18. QED
    BY <1>1, <2>1, <2>2, <2>3, <2>4, <2>5, <2>6, <2>7, <2>8, <2>9, <2>10, <2>11, <2>12,
       <2>13, <2>14, <2>15, <2>16, <2>17 DEF Common
<1>2. CASE library = "websockets" /\ S!Handlers
  <2> USE DEF S!protocol, S!wire, S!timers, S!keepalive, S!reading, S!app, S!is_closing,
              S!Closed, S!Write, S!Sends, S!Reads, S!Frame, S!PongAnswers
  <2>1. CASE S!HandshakeRefused BY <2>1 DEF S!HandshakeRefused
  <2>2. CASE S!HandleMessage BY <2>2 DEF S!HandleMessage, S!QueueMessage
  <2>3. CASE S!HandlePing BY <2>3 DEF S!HandlePing, S!AnswerPing
  <2>4. CASE S!HandlePong BY <2>4 DEF S!HandlePong
  <2>5. CASE S!HandleClose BY <2>5 DEF S!HandleClose
  <2>6. CASE S!InvalidData BY <2>6 DEF S!InvalidData, S!ParserException
  <2>7. CASE S!InvalidText BY <2>7 DEF S!InvalidText, S!ParserException
  <2>8. CASE S!InvalidEarly BY <2>8 DEF S!InvalidEarly
  <2>9. CASE S!Reject
    <3>1. \/ UNCHANGED <<handshake_complete, close_sent, conn, transport>>
          \/ transport' # "open" /\ (close_sent => close_sent')
               /\ (~handshake_complete' => ~handshake_complete)
      BY <2>9 DEF S!Reject, S!Answers
    <3>2. UNCHANGED <<denial, task, timers, refused, library>>
      BY <2>9 DEF S!Reject, MCNext
    <3>3. QED BY <1>2, <3>1, <3>2
  <2>10. CASE S!DenialStart BY <2>10 DEF S!DenialStart
  <2>11. CASE S!DenialLastBody
    <3>1. \/ UNCHANGED <<handshake_complete, close_sent, conn, transport>>
          \/ transport' # "open" /\ (close_sent => close_sent')
               /\ (~handshake_complete' => ~handshake_complete)
      BY <2>11 DEF S!DenialLastBody, S!Answers
    <3>2. UNCHANGED <<denial, task, timers, refused, library>>
      BY <2>11 DEF S!DenialLastBody, MCNext
    <3>3. QED BY <1>2, <3>1, <3>2
  <2>12. CASE S!AppClose BY <2>12 DEF S!AppClose, S!MayClose
  <2>13. CASE S!CloseRefused BY <2>13 DEF S!CloseRefused, S!MayClose
  <2>14. QED
    BY <1>2, <2>1, <2>2, <2>3, <2>4, <2>5, <2>6, <2>7, <2>8, <2>9, <2>10, <2>11, <2>12,
       <2>13 DEF S!Handlers
<1>3. CASE library = "wsproto" /\ W!Handlers
  <2> USE DEF W!protocol, W!wire, W!timers, W!keepalive, W!reading, W!app, W!is_closing,
              W!Closed, W!Write, W!Sends, W!Reads, W!Frame, W!PongAnswers
  <2>1. CASE W!HandshakeRefused BY <2>1 DEF W!HandshakeRefused
  <2>2. CASE W!HandleMessage BY <2>2 DEF W!HandleMessage, W!Opened, W!QueueMessage
  <2>3. CASE W!HandlePing BY <2>3 DEF W!HandlePing, W!Opened, W!AnswerPing
  <2>4. CASE W!HandlePong BY <2>4 DEF W!HandlePong, W!Opened
  <2>5. CASE W!HandleClose BY <2>5 DEF W!HandleClose, W!Opened, W!CloseReplied
  <2>6. CASE W!InvalidFrame BY <2>6 DEF W!InvalidFrame, W!Opened, W!CloseReplied
  <2>7. CASE W!MessageTooLarge BY <2>7 DEF W!MessageTooLarge, W!Opened
  <2>8. CASE W!Reject BY <2>8 DEF W!Reject
  <2>9. CASE W!DenialStart BY <2>9 DEF W!DenialStart
  <2>10. CASE W!DenialRefused BY <2>10 DEF W!DenialRefused
  <2>11. CASE W!DenialBody BY <2>11 DEF W!DenialBody
  <2>12. CASE W!DenialLastBody BY <2>12 DEF W!DenialLastBody
  <2>13. CASE W!AppClose BY <2>13 DEF W!AppClose, W!MayClose
  <2>14. CASE W!CloseRefused BY <2>14 DEF W!CloseRefused, W!MayClose
  <2>15. QED
    BY <1>3, <2>1, <2>2, <2>3, <2>4, <2>5, <2>6, <2>7, <2>8, <2>9, <2>10, <2>11, <2>12,
       <2>13, <2>14 DEF W!Handlers
<1>4. QED BY <1>1, <1>2, <1>3 DEF MCNext

(* No frame is handled that could reach the queue after the end began. *)
LEMMA FeedingShapeStep ==
  ASSUME Flags, OpenShape, KeepaliveShape, FeedingShape, MCNext
  PROVE  FeedingShape'
<1>0. UNCHANGED library BY DEF MCNext
<1> USE <1>0 DEF Flags, ProtocolTyped, WireTyped, TimersTyped, AppTyped, OpenShape,
            KeepaliveShape, FeedingShape, ConnStates, Put, protocol, wire, timers,
            keepalive, reading, app, is_closing, Closed, Write, Sends, Reads, Frame,
            PongAnswers
<1>1. CASE Common
  <2> USE DEF Answer500
  <2>1. CASE HandleConnect BY <2>1 DEF HandleConnect
  <2>2. CASE DataReceived BY <2>2 DEF DataReceived
  <2>3. CASE DataConsumed BY <2>3 DEF DataConsumed
  <2>4. CASE SendKeepalivePing BY <2>4 DEF SendKeepalivePing
  <2>5. CASE KeepaliveTimeout
    <3>1. CASE close_sent \/ is_closing BY <2>5, <3>1 DEF KeepaliveTimeout
    <3>2. CASE ~(close_sent \/ is_closing)
      <4>1. /\ ~feeding' /\ close_sent'
            /\ UNCHANGED <<task, handshake_complete, read_paused>>
        BY <2>5, <3>2 DEF KeepaliveTimeout
      <4>2. ~feeding /\ pong_timer BY <2>5 DEF KeepaliveTimeout
      <4>3. task # "none" BY <3>2, <4>2
      <4>4. QED BY <4>1, <4>3
    <3>3. QED BY <3>1, <3>2
  <2>6. CASE Receive BY <2>6 DEF Receive
  <2>7. CASE SendWaits BY <2>7 DEF SendWaits
  <2>8. CASE SendWakes BY <2>8 DEF SendWakes
  <2>9. CASE Accept BY <2>9 DEF Accept, MayAccept
  <2>10. CASE AcceptRefused BY <2>10 DEF AcceptRefused, MayAccept
  <2>11. CASE SendMessage BY <2>11 DEF SendMessage
  <2>12. CASE AppEnds BY <2>12 DEF AppEnds
  <2>13. CASE ResumeWriting BY <2>13 DEF ResumeWriting
  <2>14. CASE EofReceived BY <2>14 DEF EofReceived
  <2>15. CASE CloseTimeout BY <2>15 DEF CloseTimeout
  <2>16. CASE ConnectionLost BY <2>16 DEF ConnectionLost
  <2>17. CASE Shutdown BY <2>17 DEF Shutdown
  <2>18. QED
    BY <1>1, <2>1, <2>2, <2>3, <2>4, <2>5, <2>6, <2>7, <2>8, <2>9, <2>10, <2>11, <2>12,
       <2>13, <2>14, <2>15, <2>16, <2>17 DEF Common
<1>2. CASE library = "websockets" /\ S!Handlers
  <2> USE DEF S!Put, S!protocol, S!wire, S!timers, S!keepalive, S!reading, S!app,
              S!is_closing, S!Closed, S!Write, S!Sends, S!Reads, S!Frame, S!PongAnswers
  <2>1. CASE S!HandshakeRefused BY <1>2, <2>1 DEF S!HandshakeRefused
  <2>2. CASE S!HandleMessage BY <1>2, <2>2 DEF S!HandleMessage, S!QueueMessage
  <2>3. CASE S!HandlePing BY <1>2, <2>3 DEF S!HandlePing, S!AnswerPing
  <2>4. CASE S!HandlePong BY <1>2, <2>4 DEF S!HandlePong
  <2>5. CASE S!HandleClose BY <1>2, <2>5 DEF S!HandleClose
  <2>6. CASE S!InvalidData BY <1>2, <2>6 DEF S!InvalidData, S!ParserException
  <2>7. CASE S!InvalidText BY <1>2, <2>7 DEF S!InvalidText, S!ParserException
  <2>8. CASE S!InvalidEarly BY <1>2, <2>8 DEF S!InvalidEarly
  <2>9. CASE S!Reject BY <1>2, <2>9 DEF S!Reject, S!Answers
  <2>10. CASE S!DenialStart BY <1>2, <2>10 DEF S!DenialStart
  <2>11. CASE S!DenialLastBody BY <1>2, <2>11 DEF S!DenialLastBody, S!Answers
  <2>12. CASE S!AppClose BY <1>2, <2>12 DEF S!AppClose, S!MayClose
  <2>13. CASE S!CloseRefused BY <1>2, <2>13 DEF S!CloseRefused, S!MayClose
  <2>14. QED
    BY <1>2, <2>1, <2>2, <2>3, <2>4, <2>5, <2>6, <2>7, <2>8, <2>9, <2>10, <2>11, <2>12,
       <2>13 DEF S!Handlers
<1>3. CASE library = "wsproto" /\ W!Handlers
  <2> USE DEF W!Put, W!protocol, W!wire, W!timers, W!keepalive, W!reading, W!app,
              W!is_closing, W!Closed, W!Write, W!Sends, W!Reads, W!Frame, W!PongAnswers
  <2>1. CASE W!HandshakeRefused BY <1>3, <2>1 DEF W!HandshakeRefused
  <2>2. CASE W!HandleMessage BY <1>3, <2>2 DEF W!HandleMessage, W!Opened, W!QueueMessage
  <2>3. CASE W!HandlePing BY <1>3, <2>3 DEF W!HandlePing, W!Opened, W!AnswerPing
  <2>4. CASE W!HandlePong BY <1>3, <2>4 DEF W!HandlePong, W!Opened
  <2>5. CASE W!HandleClose BY <1>3, <2>5 DEF W!HandleClose, W!Opened, W!CloseReplied
  <2>6. CASE W!InvalidFrame BY <1>3, <2>6 DEF W!InvalidFrame, W!Opened, W!CloseReplied
  <2>7. CASE W!MessageTooLarge BY <1>3, <2>7 DEF W!MessageTooLarge, W!Opened
  <2>8. CASE W!Reject BY <1>3, <2>8 DEF W!Reject
  <2>9. CASE W!DenialStart BY <1>3, <2>9 DEF W!DenialStart
  <2>10. CASE W!DenialRefused BY <1>3, <2>10 DEF W!DenialRefused
  <2>11. CASE W!DenialBody BY <1>3, <2>11 DEF W!DenialBody
  <2>12. CASE W!DenialLastBody BY <1>3, <2>12 DEF W!DenialLastBody
  <2>13. CASE W!AppClose BY <1>3, <2>13 DEF W!AppClose, W!MayClose
  <2>14. CASE W!CloseRefused BY <1>3, <2>14 DEF W!CloseRefused, W!MayClose
  <2>15. QED
    BY <1>3, <2>1, <2>2, <2>3, <2>4, <2>5, <2>6, <2>7, <2>8, <2>9, <2>10, <2>11, <2>12,
       <2>13, <2>14 DEF W!Handlers
<1>4. QED BY <1>1, <1>2, <1>3 DEF MCNext

(* The queue holds events, and no more messages are heard than the bound. *)
LEMMA QueueTypedStep ==
  ASSUME Flags, QueueTyped, MCNext
  PROVE  QueueTyped'
<1> USE DEF QueueTyped, Events, Put, protocol, wire, timers, keepalive, reading, app,
            is_closing, Closed, Write, Sends, Reads, Frame, PongAnswers
<1>1. CASE Common
  <2> USE DEF Answer500
  <2>1. CASE HandleConnect BY <2>1 DEF HandleConnect
  <2>2. CASE DataReceived BY <2>2 DEF DataReceived
  <2>3. CASE DataConsumed BY <2>3 DEF DataConsumed
  <2>4. CASE SendKeepalivePing BY <2>4 DEF SendKeepalivePing
  <2>5. CASE KeepaliveTimeout BY <2>5 DEF KeepaliveTimeout
  <2>6. CASE Receive BY <2>6 DEF Receive
  <2>7. CASE SendWaits BY <2>7 DEF SendWaits
  <2>8. CASE SendWakes BY <2>8 DEF SendWakes
  <2>9. CASE Accept BY <2>9 DEF Accept, MayAccept
  <2>10. CASE AcceptRefused BY <2>10 DEF AcceptRefused, MayAccept
  <2>11. CASE SendMessage BY <2>11 DEF SendMessage
  <2>12. CASE AppEnds BY <2>12 DEF AppEnds
  <2>13. CASE ResumeWriting BY <2>13 DEF ResumeWriting
  <2>14. CASE EofReceived BY <2>14 DEF EofReceived
  <2>15. CASE CloseTimeout BY <2>15 DEF CloseTimeout
  <2>16. CASE ConnectionLost BY <2>16 DEF ConnectionLost
  <2>17. CASE Shutdown
    <3>1. UNCHANGED heard BY <2>17 DEF Shutdown
    <3>2. UNCHANGED queue \/ queue' = Append(queue, "disconnect")
      BY <2>17 DEF Shutdown
    <3>3. QED BY <3>1, <3>2
  <2>18. QED
    BY <1>1, <2>1, <2>2, <2>3, <2>4, <2>5, <2>6, <2>7, <2>8, <2>9, <2>10, <2>11, <2>12,
       <2>13, <2>14, <2>15, <2>16, <2>17 DEF Common
<1>2. CASE library = "websockets" /\ S!Handlers
  <2> USE DEF S!Put, S!protocol, S!wire, S!timers, S!keepalive, S!reading, S!app,
              S!is_closing, S!Closed, S!Write, S!Sends, S!Reads, S!Frame, S!PongAnswers
  <2>1. CASE S!HandshakeRefused BY <2>1 DEF S!HandshakeRefused
  <2>2. CASE S!HandleMessage
    <3>1. queue' = Append(queue, "receive") BY <2>2 DEF S!HandleMessage, S!QueueMessage
    <3>2. heard < MaxMessages /\ heard' = heard + 1
      BY <2>2 DEF S!HandleMessage, S!QueueMessage, S!HeardAfter
    <3>3. QED BY <3>1, <3>2, BoundsAssumption
  <2>3. CASE S!HandlePing BY <2>3 DEF S!HandlePing, S!AnswerPing
  <2>4. CASE S!HandlePong BY <2>4 DEF S!HandlePong
  <2>5. CASE S!HandleClose
    <3>1. UNCHANGED heard BY <2>5 DEF S!HandleClose
    <3>2. UNCHANGED queue \/ queue' = Append(queue, "disconnect")
      BY <2>5 DEF S!HandleClose
    <3>3. QED BY <3>1, <3>2
  <2>6. CASE S!InvalidData BY <2>6 DEF S!InvalidData, S!ParserException
  <2>7. CASE S!InvalidText BY <2>7 DEF S!InvalidText, S!ParserException
  <2>8. CASE S!InvalidEarly BY <2>8 DEF S!InvalidEarly
  <2>9. CASE S!Reject
    <3>1. UNCHANGED heard BY <2>9 DEF S!Reject, S!Answers
    <3>2. UNCHANGED queue \/ queue' = Append(queue, "disconnect")
      BY <2>9 DEF S!Reject, S!Answers
    <3>3. QED BY <3>1, <3>2
  <2>10. CASE S!DenialStart BY <2>10 DEF S!DenialStart
  <2>11. CASE S!DenialLastBody
    <3>1. UNCHANGED heard BY <2>11 DEF S!DenialLastBody, S!Answers
    <3>2. UNCHANGED queue \/ queue' = Append(queue, "disconnect")
      BY <2>11 DEF S!DenialLastBody, S!Answers
    <3>3. QED BY <3>1, <3>2
  <2>12. CASE S!AppClose BY <2>12 DEF S!AppClose, S!MayClose
  <2>13. CASE S!CloseRefused BY <2>13 DEF S!CloseRefused, S!MayClose
  <2>14. QED
    BY <1>2, <2>1, <2>2, <2>3, <2>4, <2>5, <2>6, <2>7, <2>8, <2>9, <2>10, <2>11, <2>12,
       <2>13 DEF S!Handlers
<1>3. CASE library = "wsproto" /\ W!Handlers
  <2> USE DEF W!Put, W!protocol, W!wire, W!timers, W!keepalive, W!reading, W!app,
              W!is_closing, W!Closed, W!Write, W!Sends, W!Reads, W!Frame, W!PongAnswers
  <2>1. CASE W!HandshakeRefused BY <2>1 DEF W!HandshakeRefused
  <2>2. CASE W!HandleMessage
    <3>1. queue' = Append(queue, "receive") BY <2>2 DEF W!HandleMessage, W!QueueMessage
    <3>2. heard < MaxMessages /\ heard' = heard + 1
      BY <2>2 DEF W!HandleMessage, W!QueueMessage, W!HeardAfter
    <3>3. QED BY <3>1, <3>2, BoundsAssumption
  <2>3. CASE W!HandlePing BY <2>3 DEF W!HandlePing, W!Opened, W!AnswerPing
  <2>4. CASE W!HandlePong BY <2>4 DEF W!HandlePong, W!Opened
  <2>5. CASE W!HandleClose
    <3>1. UNCHANGED heard BY <2>5 DEF W!HandleClose, W!Opened, W!CloseReplied
    <3>2. UNCHANGED queue \/ queue' = Append(queue, "disconnect")
      BY <2>5 DEF W!HandleClose, W!Opened, W!CloseReplied
    <3>3. QED BY <3>1, <3>2
  <2>6. CASE W!InvalidFrame
    <3>1. UNCHANGED heard BY <2>6 DEF W!InvalidFrame, W!Opened, W!CloseReplied
    <3>2. UNCHANGED queue \/ queue' = Append(queue, "disconnect")
      BY <2>6 DEF W!InvalidFrame, W!Opened, W!CloseReplied
    <3>3. QED BY <3>1, <3>2
  <2>7. CASE W!MessageTooLarge BY <2>7 DEF W!MessageTooLarge, W!Opened
  <2>8. CASE W!Reject BY <2>8 DEF W!Reject
  <2>9. CASE W!DenialStart BY <2>9 DEF W!DenialStart
  <2>10. CASE W!DenialRefused BY <2>10 DEF W!DenialRefused
  <2>11. CASE W!DenialBody BY <2>11 DEF W!DenialBody
  <2>12. CASE W!DenialLastBody BY <2>12 DEF W!DenialLastBody
  <2>13. CASE W!AppClose BY <2>13 DEF W!AppClose, W!MayClose
  <2>14. CASE W!CloseRefused BY <2>14 DEF W!CloseRefused, W!MayClose
  <2>15. QED
    BY <1>3, <2>1, <2>2, <2>3, <2>4, <2>5, <2>6, <2>7, <2>8, <2>9, <2>10, <2>11, <2>12,
       <2>13, <2>14 DEF W!Handlers
<1>4. QED BY <1>1, <1>2, <1>3 DEF MCNext

(* But for the handlers that queue a connect or a message or take an event, a
   step keeps the queue or adds a disconnect. *)
LEMMA QueueEffect ==
  ASSUME Flags, OpenShape, KeepaliveShape, FeedingShape, QueueShape, MCNext,
         ~HandleConnect, ~S!HandleMessage, ~W!HandleMessage, ~Receive
  PROVE  Kept \/ Disconnects
<1> USE DEF Flags, ProtocolTyped, WireTyped, TimersTyped, AppTyped, OpenShape,
            FeedingShape, QueueShape, ConnStates, Kept, Disconnects, Calm, Paused, Put,
            protocol, wire, timers, keepalive, reading, app, is_closing, Closed, Write,
            Sends, Reads, Frame, PongAnswers
<1>1. CASE Common
  <2> USE DEF Answer500
  <2>1. CASE HandleConnect BY <2>1 DEF HandleConnect
  <2>2. CASE DataReceived BY <2>2 DEF DataReceived
  <2>3. CASE DataConsumed BY <2>3 DEF DataConsumed
  <2>4. CASE SendKeepalivePing BY <2>4 DEF SendKeepalivePing
  <2>5. CASE KeepaliveTimeout BY <2>5 DEF KeepaliveTimeout
  <2>6. CASE Receive BY <2>6 DEF Receive
  <2>7. CASE SendWaits BY <2>7 DEF SendWaits
  <2>8. CASE SendWakes BY <2>8 DEF SendWakes
  <2>9. CASE Accept BY <2>9 DEF Accept, MayAccept
  <2>10. CASE AcceptRefused BY <2>10 DEF AcceptRefused, MayAccept
  <2>11. CASE SendMessage BY <2>11 DEF SendMessage
  <2>12. CASE AppEnds BY <2>12 DEF AppEnds
  <2>13. CASE ResumeWriting BY <2>13 DEF ResumeWriting
  <2>14. CASE EofReceived BY <2>14 DEF EofReceived
  <2>15. CASE CloseTimeout BY <2>15 DEF CloseTimeout
  <2>16. CASE ConnectionLost BY <2>16 DEF ConnectionLost
  <2>17. CASE Shutdown BY <2>17 DEF Shutdown
  <2>18. QED
    BY <1>1, <2>1, <2>2, <2>3, <2>4, <2>5, <2>6, <2>7, <2>8, <2>9, <2>10, <2>11, <2>12,
       <2>13, <2>14, <2>15, <2>16, <2>17 DEF Common
<1>2. CASE library = "websockets" /\ S!Handlers
  <2> USE DEF S!Put, S!protocol, S!wire, S!timers, S!keepalive, S!reading, S!app,
              S!is_closing, S!Closed, S!Write, S!Sends, S!Reads, S!Frame, S!PongAnswers
  <2>1. CASE S!HandshakeRefused BY <1>2, <2>1 DEF S!HandshakeRefused
  <2>2. CASE S!HandleMessage BY <1>2, <2>2 DEF S!HandleMessage, S!QueueMessage
  <2>3. CASE S!HandlePing BY <1>2, <2>3 DEF S!HandlePing, S!AnswerPing
  <2>4. CASE S!HandlePong BY <1>2, <2>4 DEF S!HandlePong
  <2>5. CASE S!HandleClose BY <1>2, <2>5 DEF S!HandleClose
  <2>6. CASE S!InvalidData BY <1>2, <2>6 DEF S!InvalidData, S!ParserException
  <2>7. CASE S!InvalidText BY <1>2, <2>7 DEF S!InvalidText, S!ParserException
  <2>8. CASE S!InvalidEarly BY <1>2, <2>8 DEF S!InvalidEarly
  <2>9. CASE S!Reject BY <1>2, <2>9 DEF S!Reject, S!Answers
  <2>10. CASE S!DenialStart BY <1>2, <2>10 DEF S!DenialStart
  <2>11. CASE S!DenialLastBody BY <1>2, <2>11 DEF S!DenialLastBody, S!Answers
  <2>12. CASE S!AppClose BY <1>2, <2>12 DEF S!AppClose, S!MayClose
  <2>13. CASE S!CloseRefused BY <1>2, <2>13 DEF S!CloseRefused, S!MayClose
  <2>14. QED
    BY <1>2, <2>1, <2>2, <2>3, <2>4, <2>5, <2>6, <2>7, <2>8, <2>9, <2>10, <2>11, <2>12,
       <2>13 DEF S!Handlers
<1>3. CASE library = "wsproto" /\ W!Handlers
  <2> USE DEF W!Put, W!protocol, W!wire, W!timers, W!keepalive, W!reading, W!app,
              W!is_closing, W!Closed, W!Write, W!Sends, W!Reads, W!Frame, W!PongAnswers
  <2>1. CASE W!HandshakeRefused BY <1>3, <2>1 DEF W!HandshakeRefused
  <2>2. CASE W!HandleMessage BY <1>3, <2>2 DEF W!HandleMessage, W!Opened, W!QueueMessage
  <2>3. CASE W!HandlePing BY <1>3, <2>3 DEF W!HandlePing, W!Opened, W!AnswerPing
  <2>4. CASE W!HandlePong BY <1>3, <2>4 DEF W!HandlePong, W!Opened
  <2>5. CASE W!HandleClose BY <1>3, <2>5 DEF W!HandleClose, W!Opened, W!CloseReplied
  <2>6. CASE W!InvalidFrame BY <1>3, <2>6 DEF W!InvalidFrame, W!Opened, W!CloseReplied
  <2>7. CASE W!MessageTooLarge BY <1>3, <2>7 DEF W!MessageTooLarge, W!Opened
  <2>8. CASE W!Reject BY <1>3, <2>8 DEF W!Reject
  <2>9. CASE W!DenialStart BY <1>3, <2>9 DEF W!DenialStart
  <2>10. CASE W!DenialRefused BY <1>3, <2>10 DEF W!DenialRefused
  <2>11. CASE W!DenialBody BY <1>3, <2>11 DEF W!DenialBody
  <2>12. CASE W!DenialLastBody BY <1>3, <2>12 DEF W!DenialLastBody
  <2>13. CASE W!AppClose BY <1>3, <2>13 DEF W!AppClose, W!MayClose
  <2>14. CASE W!CloseRefused BY <1>3, <2>14 DEF W!CloseRefused, W!MayClose
  <2>15. QED
    BY <1>3, <2>1, <2>2, <2>3, <2>4, <2>5, <2>6, <2>7, <2>8, <2>9, <2>10, <2>11, <2>12,
       <2>13, <2>14 DEF W!Handlers
<1>4. QED BY <1>1, <1>2, <1>3 DEF MCNext

(* Every handler is a step of WebSocketLifecycle or leaves its phase and the
   messages heard alone. *)
LEMMA LifecycleStep ==
  ASSUME Flags, OpenShape, KeepaliveShape, FeedingShape, MCNext
  PROVE  [Abstract!Next]_(Abstract!vars)
<1> USE DEF Flags, ProtocolTyped, WireTyped, TimersTyped, AppTyped, OpenShape,
            KeepaliveShape, FeedingShape, ConnStates, HeardAfter, S!HeardAfter,
            W!HeardAfter, Phase, Abstract!Next, Abstract!vars, Abstract!Answer,
            Abstract!Hear, Abstract!StartClosing, Abstract!Close, protocol, wire,
            timers, keepalive, reading, app, is_closing, Closed, Write, Sends, Reads,
            Frame, PongAnswers
<1>1. CASE Common
  <2> USE DEF Answer500
  <2>1. CASE HandleConnect BY <2>1 DEF HandleConnect
  <2>2. CASE DataReceived BY <2>2 DEF DataReceived
  <2>3. CASE DataConsumed BY <2>3 DEF DataConsumed
  <2>4. CASE SendKeepalivePing BY <2>4 DEF SendKeepalivePing
  <2>5. CASE KeepaliveTimeout BY <2>5 DEF KeepaliveTimeout
  <2>6. CASE Receive BY <2>6 DEF Receive
  <2>7. CASE SendWaits BY <2>7 DEF SendWaits
  <2>8. CASE SendWakes BY <2>8 DEF SendWakes
  <2>9. CASE Accept BY <2>9 DEF Accept, MayAccept
  <2>10. CASE AcceptRefused BY <2>10 DEF AcceptRefused, MayAccept
  <2>11. CASE SendMessage BY <2>11 DEF SendMessage
  <2>12. CASE AppEnds BY <2>12 DEF AppEnds
  <2>13. CASE ResumeWriting BY <2>13 DEF ResumeWriting
  <2>14. CASE EofReceived BY <2>14 DEF EofReceived
  <2>15. CASE CloseTimeout BY <2>15 DEF CloseTimeout
  <2>16. CASE ConnectionLost BY <2>16 DEF ConnectionLost
  <2>17. CASE Shutdown BY <2>17 DEF Shutdown
  <2>18. QED
    BY <1>1, <2>1, <2>2, <2>3, <2>4, <2>5, <2>6, <2>7, <2>8, <2>9, <2>10, <2>11, <2>12,
       <2>13, <2>14, <2>15, <2>16, <2>17 DEF Common
<1>2. CASE library = "websockets" /\ S!Handlers
  <2> USE DEF S!protocol, S!wire, S!timers, S!keepalive, S!reading, S!app, S!is_closing,
              S!Closed, S!Write, S!Sends, S!Reads, S!Frame, S!PongAnswers
  <2>1. CASE S!HandshakeRefused BY <2>1 DEF S!HandshakeRefused
  <2>2. CASE S!HandleMessage BY <2>2 DEF S!HandleMessage, S!QueueMessage
  <2>3. CASE S!HandlePing BY <2>3 DEF S!HandlePing, S!AnswerPing
  <2>4. CASE S!HandlePong BY <2>4 DEF S!HandlePong
  <2>5. CASE S!HandleClose BY <2>5 DEF S!HandleClose
  <2>6. CASE S!InvalidData BY <2>6 DEF S!InvalidData, S!ParserException
  <2>7. CASE S!InvalidText BY <2>7 DEF S!InvalidText, S!ParserException
  <2>8. CASE S!InvalidEarly BY <2>8 DEF S!InvalidEarly
  <2>9. CASE S!Reject BY <2>9 DEF S!Reject, S!Answers
  <2>10. CASE S!DenialStart BY <2>10 DEF S!DenialStart
  <2>11. CASE S!DenialLastBody BY <2>11 DEF S!DenialLastBody, S!Answers
  <2>12. CASE S!AppClose BY <2>12 DEF S!AppClose, S!MayClose
  <2>13. CASE S!CloseRefused BY <2>13 DEF S!CloseRefused, S!MayClose
  <2>14. QED
    BY <1>2, <2>1, <2>2, <2>3, <2>4, <2>5, <2>6, <2>7, <2>8, <2>9, <2>10, <2>11, <2>12,
       <2>13 DEF S!Handlers
<1>3. CASE library = "wsproto" /\ W!Handlers
  <2> USE DEF W!protocol, W!wire, W!timers, W!keepalive, W!reading, W!app, W!is_closing,
              W!Closed, W!Write, W!Sends, W!Reads, W!Frame, W!PongAnswers
  <2>1. CASE W!HandshakeRefused BY <2>1 DEF W!HandshakeRefused
  <2>2. CASE W!HandleMessage BY <2>2 DEF W!HandleMessage, W!Opened, W!QueueMessage
  <2>3. CASE W!HandlePing BY <2>3 DEF W!HandlePing, W!Opened, W!AnswerPing
  <2>4. CASE W!HandlePong BY <2>4 DEF W!HandlePong, W!Opened
  <2>5. CASE W!HandleClose BY <2>5 DEF W!HandleClose, W!Opened, W!CloseReplied
  <2>6. CASE W!InvalidFrame BY <2>6 DEF W!InvalidFrame, W!Opened, W!CloseReplied
  <2>7. CASE W!MessageTooLarge BY <2>7 DEF W!MessageTooLarge, W!Opened
  <2>8. CASE W!Reject BY <2>8 DEF W!Reject
  <2>9. CASE W!DenialStart BY <2>9 DEF W!DenialStart
  <2>10. CASE W!DenialRefused BY <2>10 DEF W!DenialRefused
  <2>11. CASE W!DenialBody BY <2>11 DEF W!DenialBody
  <2>12. CASE W!DenialLastBody BY <2>12 DEF W!DenialLastBody
  <2>13. CASE W!AppClose BY <2>13 DEF W!AppClose, W!MayClose
  <2>14. CASE W!CloseRefused BY <2>14 DEF W!CloseRefused, W!MayClose
  <2>15. QED
    BY <1>3, <2>1, <2>2, <2>3, <2>4, <2>5, <2>6, <2>7, <2>8, <2>9, <2>10, <2>11, <2>12,
       <2>13, <2>14 DEF W!Handlers
<1>4. QED BY <1>1, <1>2, <1>3 DEF MCNext

(* A step that keeps the queue keeps its order. *)
LEMMA KeptShape ==
  ASSUME QueueShape, Kept
  PROVE  QueueShape'
<1>1. UNCHANGED <<queue, told>> BY DEF Kept
<1>2. NothingAfterDisconnect' BY <1>1 DEF QueueShape, NothingAfterDisconnect, Kept
<1>3. QED BY <1>1, <1>2 DEF QueueShape, Kept

(* Nor is the order disturbed by a disconnect at the end of the queue. *)
LEMMA DisconnectsShape ==
  ASSUME QueueTyped, QueueShape, Disconnects
  PROVE  QueueShape'
<1> DEFINE n == Len(queue)
<1>1. queue \in Seq(Events) /\ n \in Nat BY DEF QueueTyped
<1>2. /\ DOMAIN queue = 1..n /\ DOMAIN queue' = 1..(n + 1)
      /\ \A i \in 1..n : queue'[i] = queue[i]
      /\ queue'[n + 1] = "disconnect"
  BY <1>1 DEF Disconnects, Events
<1>3. \A i \in DOMAIN queue' : queue'[i] = "connect" => i = 1
  BY <1>1, <1>2 DEF QueueShape
<1>4. NothingAfterDisconnect'
  <2>1. told' = told /\ (~refused' => ~refused) BY DEF Disconnects
  <2>2. SUFFICES ASSUME ~refused', NEW j \in 1..(n + 1), queue'[j] = "receive"
                 PROVE  ~told /\ \A i \in 1..(j - 1) : queue'[i] # "disconnect"
    BY <1>2, <2>1 DEF NothingAfterDisconnect
  <2>3. j \in 1..n /\ queue[j] = "receive" BY <1>1, <1>2, <2>2
  <2>4. ~told /\ \A i \in 1..(j - 1) : queue[i] # "disconnect"
    BY <1>2, <2>1, <2>2, <2>3 DEF QueueShape, NothingAfterDisconnect
  <2>5. QED BY <1>1, <1>2, <2>3, <2>4
<1>5. queue' # <<>> BY <1>1 DEF Disconnects
<1>6. QED BY <1>3, <1>4, <1>5 DEF QueueShape, Disconnects

(* The connect event is the first one queued, and the only one at that moment. *)
LEMMA HandleConnectShape ==
  ASSUME FeedingShape, QueueShape, HandleConnect
  PROVE  QueueShape'
<1>1. queue' = <<"connect">> BY DEF HandleConnect, FeedingShape, Put
<1>2. (Calm' => Calm) /\ UNCHANGED <<told, read_paused>>
  BY DEF HandleConnect, Calm, protocol, wire
<1>3. DOMAIN queue' = {1} /\ queue'[1] = "connect" BY <1>1
<1>4. ~read_paused BY DEF QueueShape, FeedingShape, HandleConnect
<1>5. NothingAfterDisconnect' BY <1>3 DEF NothingAfterDisconnect
<1>6. QED BY <1>2, <1>3, <1>4, <1>5 DEF QueueShape, Paused

(* A message is queued only while the end of the connection has not begun: no
   disconnect is before it, unless a close was refused. *)
LEMMA HandleMessageShape ==
  ASSUME Flags, QueueTyped, OpenShape, FeedingShape, QueueShape,
         S!HandleMessage \/ W!HandleMessage
  PROVE  QueueShape'
<1> DEFINE n == Len(queue)
<1>1. queue \in Seq(Events) /\ n \in Nat BY DEF QueueTyped
<1>2. /\ queue' = Append(queue, "receive")
      /\ UNCHANGED <<protocol, wire, timers, feeding, app>>
  BY DEF S!HandleMessage, S!QueueMessage, S!Put, S!protocol, S!wire, S!timers, S!keepalive,
         S!app, W!HandleMessage, W!QueueMessage, W!Put, W!protocol, W!wire, W!timers,
         W!keepalive, W!app, protocol, wire, timers, keepalive, app
<1>3. /\ DOMAIN queue = 1..n /\ DOMAIN queue' = 1..(n + 1)
      /\ \A i \in 1..n : queue'[i] = queue[i]
      /\ queue'[n + 1] = "receive"
  BY <1>1, <1>2 DEF Events
<1>4. feeding /\ Reads /\ ~close_sent
  BY DEF S!HandleMessage, S!Frame, S!Reads, W!HandleMessage, W!Opened, W!Frame, W!Reads,
         Reads
<1>5. transport = "open" /\ (refused \/ Calm) /\ ~close_timer
  BY <1>4 DEF FeedingShape, OpenShape, Calm, Reads
<1>6. /\ transport' = "open" /\ (Calm' <=> Calm) /\ told' = told /\ refused' = refused
      /\ ~close_timer'
  BY <1>2, <1>5 DEF Calm, protocol, wire, timers, app
<1>7. Calm => ~told /\ \A i \in 1..n : queue[i] # "disconnect"
  BY <1>3 DEF QueueShape
<1>8. Calm => \A i \in 1..(n + 1) : queue'[i] # "disconnect" BY <1>1, <1>3, <1>7
<1>9. \A i \in DOMAIN queue' : queue'[i] = "connect" => i = 1
  BY <1>1, <1>3 DEF QueueShape
<1>10. NothingAfterDisconnect'
  BY <1>1, <1>3, <1>5, <1>6, <1>7, <1>8 DEF NothingAfterDisconnect
<1>11. \E i \in DOMAIN queue' : queue'[i] = "receive" BY <1>1, <1>3
<1>12. queue' # <<>> BY <1>1, <1>2
<1>13. QED BY <1>3, <1>5, <1>6, <1>7, <1>8, <1>9, <1>10, <1>11, <1>12 DEF QueueShape

(* Taking the first event keeps the order of the others; what remains while reading is
   paused is messages, as nothing else follows a connect. *)
LEMMA ReceiveShape ==
  ASSUME QueueTyped, QueueShape, Receive
  PROVE  QueueShape'
<1> DEFINE n == Len(queue)
<1>1. queue \in Seq(Events) /\ queue # <<>> BY DEF QueueTyped, Receive
<1>2. n \in Nat \ {0} BY <1>1
<1>3. queue' = Tail(queue) BY DEF Receive
<1>4. /\ DOMAIN queue = 1..n /\ DOMAIN queue' = 1..(n - 1)
      /\ \A i \in 1..(n - 1) : queue'[i] = queue[i + 1]
      /\ Head(queue) = queue[1]
  BY <1>1, <1>2, <1>3
<1>5. \A i \in 1..(n - 1) : i + 1 \in 1..n /\ i + 1 # 1 BY <1>2
<1>6. UNCHANGED <<protocol, wire, timers, refused>> BY DEF Receive
<1>7. (Calm' <=> Calm) /\ close_timer' = close_timer
  BY <1>6 DEF protocol, wire, timers, Calm
<1>8. \A i \in DOMAIN queue' : queue'[i] # "connect"
  BY <1>4, <1>5 DEF QueueShape
<1>9. ASSUME Calm
      PROVE  ~told' /\ \A i \in DOMAIN queue' : queue'[i] # "disconnect"
  <2>1. ~told /\ \A i \in 1..n : queue[i] # "disconnect" BY <1>4, <1>9 DEF QueueShape
  <2>2. 1 \in 1..n BY <1>2
  <2>3. ~told' BY <1>4, <2>1, <2>2 DEF Receive
  <2>4. QED BY <1>4, <1>5, <2>1, <2>3
<1>10. read_paused' => read_paused /\ queue' # <<>> BY <1>3 DEF Receive
<1>11. ASSUME Paused'
       PROVE  ~close_timer /\
                (refused \/ (Calm /\ \E i \in DOMAIN queue' : queue'[i] = "receive"))
  <2>1. Paused /\ queue' # <<>> BY <1>6, <1>10, <1>11 DEF Paused, wire
  <2>2. ~close_timer /\ (refused \/ Calm) BY <2>1 DEF QueueShape
  <2>3. n - 1 >= 1 BY <1>1, <1>2, <1>3, <2>1
  <2>4. 1 \in DOMAIN queue' /\ queue'[1] \in Events
    BY <1>1, <1>2, <1>4, <1>5, <2>3
  <2>5. Calm => queue'[1] = "receive" BY <1>8, <1>9, <2>4 DEF Events
  <2>6. QED BY <2>2, <2>4, <2>5
<1>12. NothingAfterDisconnect'
  <2>1. SUFFICES ASSUME ~refused, NEW j \in 1..(n - 1), queue'[j] = "receive"
                 PROVE  ~told' /\ \A i \in 1..(j - 1) : queue'[i] # "disconnect"
    BY <1>4, <1>6 DEF NothingAfterDisconnect
  <2>2. j + 1 \in 1..n /\ queue[j + 1] = "receive" BY <1>4, <1>5, <2>1
  <2>3. ~told /\ \A i \in 1..j : queue[i] # "disconnect"
    BY <1>4, <2>1, <2>2 DEF QueueShape, NothingAfterDisconnect
  <2>4. ~told'
    <3>1. 1 \in 1..j BY <2>1
    <3>2. Head(queue) # "disconnect" BY <1>4, <2>3, <3>1
    <3>3. QED BY <2>3, <3>2 DEF Receive
  <2>5. \A i \in 1..(j - 1) : i + 1 \in 1..j /\ i \in 1..(n - 1) BY <1>2, <2>1
  <2>6. QED BY <1>4, <2>3, <2>4, <2>5
<1>13. refused' = refused BY <1>6
<1>14. QED BY <1>7, <1>8, <1>9, <1>10, <1>11, <1>12, <1>13 DEF QueueShape

(* Every step keeps the order of the queue. *)
LEMMA QueueShapeStep ==
  ASSUME Flags, QueueTyped, OpenShape, KeepaliveShape, FeedingShape, QueueShape, MCNext
  PROVE  QueueShape'
<1>1. CASE HandleConnect BY <1>1, HandleConnectShape
<1>2. CASE S!HandleMessage \/ W!HandleMessage BY <1>2, HandleMessageShape
<1>3. CASE Receive BY <1>3, ReceiveShape
<1>4. CASE ~HandleConnect /\ ~S!HandleMessage /\ ~W!HandleMessage /\ ~Receive
  BY <1>4, QueueEffect, KeptShape, DisconnectsShape
<1>5. QED BY <1>1, <1>2, <1>3, <1>4

-----------------------------------------------------------------------------
(* The invariant holds where the connection begins, in the data_received of
   the upgrade request. *)
LEMMA InitInv == MCInit => IInv
<1> SUFFICES ASSUME MCInit PROVE IInv
  OBVIOUS
<1>1. Flags
  BY DEF MCInit, Init, Flags, ProtocolTyped, WireTyped, TimersTyped, AppTyped, ConnStates
<1>2. QueueTyped BY BoundsAssumption DEF MCInit, Init, QueueTyped, Events
<1>3. OpenShape /\ KeepaliveShape /\ FeedingShape
  BY DEF MCInit, Init, OpenShape, KeepaliveShape, FeedingShape
<1>4. QueueShape BY DEF MCInit, Init, QueueShape, NothingAfterDisconnect, Paused
<1>5. QED BY <1>1, <1>2, <1>3, <1>4 DEF IInv

(* Every handler of either protocol keeps it. *)
LEMMA StepInv == IInv /\ [MCNext]_<<vars, library>> => IInv'
<1> SUFFICES ASSUME IInv, [MCNext]_<<vars, library>> PROVE IInv'
  OBVIOUS
<1>1. CASE MCNext
  <2>1. Flags'
    BY <1>1, ProtocolTypedStep, WireTypedStep, TimersTypedStep, AppTypedStep
    DEF IInv, Flags
  <2>2. QueueTyped' BY <1>1, QueueTypedStep DEF IInv
  <2>3. OpenShape' /\ KeepaliveShape' /\ FeedingShape'
    BY <1>1, OpenShapeStep, KeepaliveShapeStep, FeedingShapeStep DEF IInv
  <2>4. QueueShape' BY <1>1, QueueShapeStep DEF IInv
  <2>5. QED BY <2>1, <2>2, <2>3, <2>4 DEF IInv
<1>2. CASE UNCHANGED <<vars, library>>
  <2>1. UNCHANGED <<queue, protocol, wire, timers, reading, app, shut, library>>
    BY <1>2 DEF vars
  <2> USE <2>1 DEF protocol, wire, keepalive, timers, reading, app
  <2>2. Flags' BY DEF IInv, Flags, ProtocolTyped, WireTyped, TimersTyped, AppTyped
  <2>3. QueueTyped' BY DEF IInv, QueueTyped
  <2>4. OpenShape' /\ KeepaliveShape' /\ FeedingShape'
    BY DEF IInv, OpenShape, KeepaliveShape, FeedingShape, Reads
  <2>5. QueueShape'
    BY DEF IInv, QueueShape, NothingAfterDisconnect, Calm, Paused
  <2>6. QED BY <2>2, <2>3, <2>4, <2>5 DEF IInv
<1>3. QED BY <1>1, <1>2

(* IInv is an invariant of a connection over either library. *)
THEOREM Invariance == MCSpec => []IInv
<1>1. QED BY InitInv, StepInv, PTL DEF MCSpec

(* What the invariant says of the checked properties. *)
LEMMA IInvImplies ==
  ASSUME IInv
  PROVE  /\ TypeOK /\ PausedOnlyForMessages /\ NothingAfterDisconnect
         /\ KeepaliveRuns /\ NeverLeftOpen
<1>1. TypeOK
  BY DEF IInv, Flags, ProtocolTyped, WireTyped, TimersTyped, AppTyped, QueueTyped, TypeOK
<1>2. PausedOnlyForMessages BY DEF IInv, QueueShape, Paused, Calm, PausedOnlyForMessages
<1>3. NothingAfterDisconnect BY DEF IInv, QueueShape
<1>4. KeepaliveRuns
  BY DEF IInv, Flags, TimersTyped, KeepaliveShape, KeepaliveRuns
<1>5. NeverLeftOpen
  BY DEF IInv, Flags, AppTyped, OpenShape, FeedingShape, NeverLeftOpen
<1>6. QED BY <1>1, <1>2, <1>3, <1>4, <1>5

(* Every variable of the connection keeps its type. *)
THEOREM TypeCorrect == MCSpec => []TypeOK
<1>1. QED BY Invariance, IInvImplies, PTL

(* Reading of an open connection is paused only while the queue holds something for
   the application, and never while the peer's reply to a close is awaited; unless the
   library has refused a close, what it holds is a message. *)
THEOREM ReadingResumes == MCSpec => []PausedOnlyForMessages
<1>1. QED BY Invariance, IInvImplies, PTL

(* No message is queued behind a disconnect or after the application received one,
   whichever of the many ways the connection ended, unless the library refused the
   close that queued the disconnect. *)
THEOREM DisconnectIsLast == MCSpec => []NothingAfterDisconnect
<1>1. QED BY Invariance, IInvImplies, PTL

(* The keepalive loop of an accepted open connection neither stops nor runs
   twice, whatever pongs, writes and receives come between its timers. *)
THEOREM KeepaliveNeverStops == MCSpec => []KeepaliveRuns
<1>1. QED BY Invariance, IInvImplies, PTL

(* An open connection whose close is marked as sent, or whose application is over,
   has a close_timer, or the library refused its close and its application still runs:
   it never waits for its peer alone. *)
THEOREM ClosingIsBounded == MCSpec => []NeverLeftOpen
<1>1. QED BY Invariance, IInvImplies, PTL

(* Over either library the connection implements the lifecycle, refused answers and
   closes included: the client gets at most one answer, messages are taken in only
   before a close frame is sent, and neither it nor a closed transport is taken back. *)
THEOREM Refinement == MCSpec => ImplementsLifecycle
<1>1. MCInit => Abstract!Init
  BY DEF MCInit, Init, Phase, Abstract!Init
<1>2. IInv /\ [MCNext]_<<vars, library>> => [Abstract!Next]_(Abstract!vars)
  <2> SUFFICES ASSUME IInv, [MCNext]_<<vars, library>>
               PROVE  [Abstract!Next]_(Abstract!vars)
    OBVIOUS
  <2>1. CASE MCNext BY <2>1, LifecycleStep DEF IInv
  <2>2. CASE UNCHANGED <<vars, library>>
    BY <2>2 DEF vars, protocol, wire, reading, Phase, Abstract!vars
  <2>3. QED BY <2>1, <2>2
<1>3. QED BY <1>1, <1>2, Invariance, PTL DEF MCSpec, ImplementsLifecycle, Abstract!Spec
=============================================================================
