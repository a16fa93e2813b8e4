------------------------------- MODULE H2Proofs -------------------------------
(***************************************************************************)
(* Proofs about H2Connection, for any number of streams: the invariants    *)
(* that its run checks, and that the end of one stream spares the others.  *)
(* The connection's dictionary, its counter, receive()'s event and the     *)
(* on_response callback are each followed through every step; IInv puts    *)
(* them together.                                                          *)
(***************************************************************************)
EXTENDS H2Connection, FiniteSetTheorems, TLAPS

(* The two suspensions of send_500_response: before its head, after its head. *)
HeadWaits(s) ==
  /\ cycle' = [cycle EXCEPT ![s].stage = "start_500", ![s].receiving = FALSE]
  /\ UNCHANGED <<cycles, keep_alive_timer, transport, total_requests>>
BodyWaits(s) ==
  /\ cycle' = [cycle EXCEPT ![s].stage = "body_500", ![s].response_started = TRUE]
  /\ UNCHANGED <<cycles, keep_alive_timer, transport, total_requests>>

(* What the four ends of a task come to: the stream is closed, with its response
   answered, aborted or given up, or the 500 response waits to be written. *)
EndOfTask(s) ==
  /\ ~feeding /\ Live(s) /\ UNCHANGED <<opened, mode>>
  /\ \/ Ends(s, cycle) /\ (cycle[s].disconnected \/ cycle[s].response_complete)
     \/ Ends(s, [cycle EXCEPT ![s].disconnected = @ \/ ~is_closing])
     \/ ~cycle[s].disconnected /\ Ends(s, Answered(s, cycle))
     \/ BodyWaits(s)
     \/ HeadWaits(s)
  /\ write_paused' \in BOOLEAN

(* The steps of the connection, with the ends of tasks reduced to EndOfTask. *)
Step ==
  \/ Frames \/ Environment
  \/ \E s \in Streams :
       \/ Receive(s) \/ ReceiveWakes(s) \/ SendWaits(s) \/ Drained(s)
       \/ SendPart(s) \/ SendStart(s) \/ SendBodyBeforeTrailers(s) \/ SendLast(s)
       \/ EndOfTask(s)

(* The types of all but the cycles. *)
ConnectionTyped ==
  /\ opened \in 0..MaxStreams /\ cycles \subseteq Streams
  /\ keep_alive_timer \in BOOLEAN /\ feeding \in BOOLEAN /\ fed \in BOOLEAN
  /\ transport \in {"open", "closing", "lost"}
  /\ write_paused \in BOOLEAN /\ shutdown_requested \in BOOLEAN
CyclesTyped == cycle \in [Streams -> Cycle]

(* A stream is over when its task is or its response is complete; on_response was
   called exactly then. *)
Over(s) == cycle[s].stage = "done" \/ cycle[s].response_complete
CallbackShape == \A s \in Streams : cycle[s].on_response <=> ~Over(s)

(* Streams are opened in order, and there is nothing of those not opened yet. *)
OpenedShape ==
  /\ cycles \subseteq 1..opened
  /\ \A s \in Streams : cycle[s].stage = "none" <=> s > opened
  /\ \A s \in Streams : s > opened => ~cycle[s].response_complete

(* Chunks are handled before the transport is lost. *)
FeedingShape == feeding => transport # "lost"

(* The two halves of StreamsAccounted. *)
InProgress ==
  {s \in Streams : Live(s) /\ ~cycle[s].disconnected /\ ~cycle[s].response_complete}
Dictionary == transport = "lost" \/ cycles = InProgress
OverSet == {s \in Streams : Over(s)}
Counted == total_requests = Cardinality(OverSet)

(* A step counts a stream if and only if it is over by that step. *)
CountsOne ==
  \/ OverSet' = OverSet /\ total_requests' = total_requests
  \/ \E s \in Streams \ OverSet :
       OverSet' = OverSet \cup {s} /\ total_requests' = total_requests + 1

(* What receive() must find of one stream, whether or not a task waits in it. *)
Awake(r) ==
  /\ r.body \/ (~r.more_body /\ ~r.end_received) =>
       r.message_event \/ r.disconnected \/ r.response_complete
  /\ r.receiving /\ (r.disconnected \/ r.response_complete) => r.message_event
  /\ r.end_received => /\ ~r.body /\ ~r.more_body
                       /\ r.message_event => r.disconnected \/ r.response_complete
Awaken == \A s \in Streams : Awake(cycle[s])
Told == transport = "lost" => \A s \in Streams :
          Live(s) => cycle[s].disconnected \/ cycle[s].response_complete

IInv ==
  /\ ConnectionTyped /\ CyclesTyped
  /\ CallbackShape /\ OpenedShape /\ FeedingShape
  /\ Dictionary /\ Counted
  /\ Awaken /\ Told /\ IdleOrClosing

-----------------------------------------------------------------------------
(* What each step keeps. *)

(* Every step keeps the types of the connection's own variables. *)
LEMMA ConnectionTypedStep ==
  ASSUME ConnectionTyped, Step
  PROVE  ConnectionTyped'
<1> USE DEF ConnectionTyped, Streams, streams, mode, is_closing, Write,
        WriteIfClosing, OnStreamClosed
<1>1. CASE DataReceived BY <1>1, ConstantsAssumption DEF DataReceived
<1>2. CASE HandleRequest BY <1>2, ConstantsAssumption DEF HandleRequest, NewCycle
<1>3. CASE HandleGoAway BY <1>3, ConstantsAssumption DEF HandleGoAway
<1>4. CASE DataConsumed BY <1>4, ConstantsAssumption DEF DataConsumed
<1>5. CASE InvalidFrame BY <1>5, ConstantsAssumption DEF InvalidFrame
<1>6. ASSUME NEW s \in Streams, HandleData(s) PROVE ConnectionTyped'
  BY <1>6, ConstantsAssumption DEF HandleData
<1>7. ASSUME NEW s \in Streams, HandleEndOfMessage(s) PROVE ConnectionTyped'
  BY <1>7, ConstantsAssumption DEF HandleEndOfMessage
<1>8. ASSUME NEW s \in Streams, HandleRstStream(s) PROVE ConnectionTyped'
  BY <1>8, ConstantsAssumption DEF HandleRstStream
<1>9. ASSUME NEW s \in Streams, Receive(s) PROVE ConnectionTyped'
  BY <1>9, ConstantsAssumption DEF Receive, Running, Delivered
<1>10. ASSUME NEW s \in Streams, ReceiveWakes(s) PROVE ConnectionTyped'
  BY <1>10, ConstantsAssumption DEF ReceiveWakes, Delivered
<1>11. ASSUME NEW s \in Streams, SendWaits(s) PROVE ConnectionTyped'
  BY <1>11, ConstantsAssumption DEF SendWaits, Running
<1>12. ASSUME NEW s \in Streams, Drained(s) PROVE ConnectionTyped'
  BY <1>12, ConstantsAssumption DEF Drained
<1>13. ASSUME NEW s \in Streams, SendPart(s) PROVE ConnectionTyped'
  BY <1>13, ConstantsAssumption DEF SendPart, Sends, Running
<1>14. ASSUME NEW s \in Streams, SendStart(s) PROVE ConnectionTyped'
  BY <1>14, ConstantsAssumption DEF SendStart, Sends, Running
<1>15. ASSUME NEW s \in Streams, SendBodyBeforeTrailers(s) PROVE ConnectionTyped'
  BY <1>15, ConstantsAssumption DEF SendBodyBeforeTrailers, Sends, Running
<1>16. ASSUME NEW s \in Streams, SendLast(s) PROVE ConnectionTyped'
  BY <1>16, ConstantsAssumption DEF SendLast, Sends, Running, OnResponse, Answered
<1>17. ASSUME NEW s \in Streams, EndOfTask(s) PROVE ConnectionTyped'
  BY <1>17, ConstantsAssumption
  DEF EndOfTask, HeadWaits, BodyWaits, Ends, Ended, OnResponse, Answered
<1>18. CASE ResumeWriting BY <1>18, ConstantsAssumption DEF ResumeWriting
<1>19. CASE EofReceived BY <1>19, ConstantsAssumption DEF EofReceived
<1>20. CASE ConnectionLost BY <1>20, ConstantsAssumption DEF ConnectionLost
<1>21. CASE KeepAliveTimeout BY <1>21, ConstantsAssumption DEF KeepAliveTimeout
<1>22. CASE Shutdown BY <1>22, ConstantsAssumption DEF Shutdown
<1>23. QED
  BY <1>1, <1>2, <1>3, <1>4, <1>5, <1>6, <1>7, <1>8, <1>9, <1>10, <1>11, <1>12, <1>13,
     <1>14, <1>15, <1>16, <1>17, <1>18, <1>19, <1>20, <1>21, <1>22
  DEF Step, Frames, Environment

(* The end of a task leaves every cycle a cycle. *)
LEMMA EndedType ==
  ASSUME NEW s \in Streams, NEW cs \in [Streams -> Cycle]
  PROVE  Ended(s, cs) \in [Streams -> Cycle]
<1> DEFINE r == [cs[s] EXCEPT !.stage = "done", !.receiving = FALSE]
<1>1. r \in Cycle BY ZenonT(60) DEF Cycle, Stages
<1>2. Ended(s, cs) = [cs EXCEPT ![s] = r] BY DEF Ended
<1> HIDE DEF r
<1>3. QED BY <1>1, <1>2

(* The message that completes the response leaves every cycle a cycle. *)
LEMMA AnsweredType ==
  ASSUME NEW s \in Streams, NEW cs \in [Streams -> Cycle]
  PROVE  Answered(s, cs) \in [Streams -> Cycle]
<1> DEFINE r == [cs[s] EXCEPT !.response_started = TRUE, !.body_complete = TRUE,
                              !.response_complete = TRUE, !.message_event = TRUE]
<1>1. r \in Cycle BY ZenonT(60) DEF Cycle
<1>2. Answered(s, cs) = [cs EXCEPT ![s] = r] BY DEF Answered
<1> HIDE DEF r
<1>3. QED BY <1>1, <1>2

(* on_response, called or already replaced, leaves every cycle a cycle. *)
LEMMA OnResponseType ==
  ASSUME NEW s \in Streams, NEW cs \in [Streams -> Cycle], OnResponse(s, cs)
  PROVE  CyclesTyped'
<1> DEFINE r == [cs[s] EXCEPT !.on_response = FALSE]
<1>1. r \in Cycle BY ZenonT(60) DEF Cycle
<1>2. cycle' = [cs EXCEPT ![s] = r] \/ cycle' = cs BY DEF OnResponse
<1> HIDE DEF r
<1>3. QED BY <1>1, <1>2 DEF CyclesTyped

(* on_response changes neither the stage of a task nor whether its response is
   complete. *)
LEMMA OnResponseKeeps ==
  ASSUME NEW s \in Streams, NEW cs \in [Streams -> Cycle], OnResponse(s, cs)
  PROVE  \A t \in Streams : /\ cycle'[t].stage = cs[t].stage
                            /\ cycle'[t].response_complete = cs[t].response_complete
<1> SUFFICES ASSUME NEW t \in Streams
             PROVE  /\ cycle'[t].stage = cs[t].stage
                    /\ cycle'[t].response_complete = cs[t].response_complete
  OBVIOUS
<1> DEFINE r == [cs[s] EXCEPT !.on_response = FALSE]
<1>1. r.stage = cs[s].stage /\ r.response_complete = cs[s].response_complete
  BY DEF Cycle
<1>2. cycle' = [cs EXCEPT ![s] = r] \/ cycle' = cs BY DEF OnResponse
<1> HIDE DEF r
<1>3. QED BY <1>1, <1>2

(* An http.request event leaves every cycle a cycle. *)
LEMMA DeliveredType ==
  ASSUME CyclesTyped, NEW s \in Streams
  PROVE  Delivered(s) \in [Streams -> Cycle]
<1> USE DEF CyclesTyped
<1> DEFINE last == cycle[s].end_received \/ ~cycle[s].more_body
           r == [cycle[s] EXCEPT !.message_event = FALSE, !.receiving = FALSE,
                                 !.body = FALSE, !.end_received = last]
<1>1. last \in BOOLEAN OBVIOUS
<1> HIDE DEF last
<1>2. r \in Cycle BY ZenonT(60), <1>1 DEF Cycle
<1>3. Delivered(s) = [cycle EXCEPT ![s] = r] BY DEF Delivered, last
<1> HIDE DEF r
<1>4. QED BY <1>2, <1>3

(* Every step keeps every stream's RequestResponseCycle a cycle. *)
LEMMA CyclesTypedStep ==
  ASSUME ConnectionTyped, CyclesTyped, Step
  PROVE  CyclesTyped'
<1> USE DEF ConnectionTyped, CyclesTyped, Streams, Cycle, Stages, streams, mode,
        is_closing, Write, WriteIfClosing, OnStreamClosed
<1>1. CASE DataReceived BY <1>1 DEF DataReceived
<1>2. CASE HandleRequest BY <1>2 DEF HandleRequest, NewCycle
<1>3. CASE HandleGoAway BY <1>3 DEF HandleGoAway
<1>4. CASE DataConsumed BY <1>4 DEF DataConsumed
<1>5. CASE InvalidFrame BY <1>5 DEF InvalidFrame
<1>6. ASSUME NEW s \in Streams, HandleData(s) PROVE CyclesTyped'
  <2> DEFINE r == [cycle[s] EXCEPT !.body = TRUE, !.message_event = TRUE]
  <2>1. r \in Cycle BY ZenonT(60) DEF Cycle
  <2>2. cycle' = [cycle EXCEPT ![s] = r] BY <1>6 DEF HandleData
  <2>3. QED BY <2>1, <2>2
<1>7. ASSUME NEW s \in Streams, HandleEndOfMessage(s) PROVE CyclesTyped'
  <2> DEFINE r == [cycle[s] EXCEPT !.more_body = FALSE, !.message_event = TRUE]
  <2>1. r \in Cycle BY ZenonT(60) DEF Cycle
  <2>2. cycle' = [cycle EXCEPT ![s] = r] BY <1>7 DEF HandleEndOfMessage
  <2>3. QED BY <2>1, <2>2
<1>8. ASSUME NEW s \in Streams, HandleRstStream(s) PROVE CyclesTyped'
  <2> DEFINE r == [cycle[s] EXCEPT !.disconnected = TRUE, !.message_event = TRUE]
  <2>1. r \in Cycle BY ZenonT(60) DEF Cycle
  <2>2. cycle' = [cycle EXCEPT ![s] = r] BY <1>8 DEF HandleRstStream
  <2>3. QED BY <2>1, <2>2
<1>9. ASSUME NEW s \in Streams, Receive(s) PROVE CyclesTyped'
  <2> DEFINE r == [cycle[s] EXCEPT !.receiving = TRUE]
  <2>1. r \in Cycle BY ZenonT(60) DEF Cycle
  <2>2. cycle' = Delivered(s) \/ cycle' = [cycle EXCEPT ![s] = r] BY <1>9 DEF Receive
  <2> HIDE DEF r
  <2>3. QED BY <2>1, <2>2, DeliveredType
<1>10. ASSUME NEW s \in Streams, ReceiveWakes(s) PROVE CyclesTyped'
  <2> DEFINE r == [cycle[s] EXCEPT !.message_event = FALSE, !.receiving = FALSE]
  <2>1. r \in Cycle BY ZenonT(60) DEF Cycle
  <2>2. cycle' = Delivered(s) \/ cycle' = [cycle EXCEPT ![s] = r] BY <1>10 DEF ReceiveWakes
  <2> HIDE DEF r
  <2>3. QED BY <2>1, <2>2, DeliveredType
<1>11. ASSUME NEW s \in Streams, SendWaits(s) PROVE CyclesTyped'
  <2> DEFINE r == [cycle[s] EXCEPT !.draining = TRUE]
  <2>1. r \in Cycle BY ZenonT(60) DEF Cycle
  <2>2. cycle' = [cycle EXCEPT ![s] = r] BY <1>11 DEF SendWaits
  <2>3. QED BY <2>1, <2>2
<1>12. ASSUME NEW s \in Streams, Drained(s) PROVE CyclesTyped'
  <2> DEFINE r == [cycle[s] EXCEPT !.draining = FALSE]
  <2>1. r \in Cycle BY ZenonT(60) DEF Cycle
  <2>2. cycle' = [cycle EXCEPT ![s] = r] BY <1>12 DEF Drained
  <2>3. QED BY <2>1, <2>2
<1>13. ASSUME NEW s \in Streams, SendPart(s) PROVE CyclesTyped'
  BY <1>13 DEF SendPart, Sends, Running
<1>14. ASSUME NEW s \in Streams, SendStart(s) PROVE CyclesTyped'
  <2>1. PICK trailers \in TrailersExpected :
          cycle' = [cycle EXCEPT ![s].response_started = TRUE,
                                 ![s].trailers_expected = trailers]
    BY <1>14 DEF SendStart
  <2>2. trailers \in BOOLEAN BY ConstantsAssumption
  <2> DEFINE r == [cycle[s] EXCEPT !.response_started = TRUE,
                                   !.trailers_expected = trailers]
  <2>3. r \in Cycle BY ZenonT(60), <2>2 DEF Cycle
  <2>4. cycle' = [cycle EXCEPT ![s] = r] BY <2>1
  <2>5. QED BY <2>3, <2>4
<1>15. ASSUME NEW s \in Streams, SendBodyBeforeTrailers(s) PROVE CyclesTyped'
  <2> DEFINE r == [cycle[s] EXCEPT !.body_complete = TRUE]
  <2>1. r \in Cycle BY ZenonT(60) DEF Cycle
  <2>2. cycle' = [cycle EXCEPT ![s] = r] BY <1>15 DEF SendBodyBeforeTrailers
  <2>3. QED BY <2>1, <2>2
<1>16. ASSUME NEW s \in Streams, SendLast(s) PROVE CyclesTyped'
  <2>1. OnResponse(s, Answered(s, cycle)) BY <1>16 DEF SendLast
  <2>2. QED BY <2>1, AnsweredType, OnResponseType
<1>17. ASSUME NEW s \in Streams, EndOfTask(s) PROVE CyclesTyped'
  <2>1. CASE Ends(s, cycle)
    BY <2>1, EndedType, OnResponseType DEF Ends
  <2>2. CASE Ends(s, [cycle EXCEPT ![s].disconnected = @ \/ ~is_closing])
    <3> DEFINE last == cycle[s].disconnected \/ ~is_closing
               r == [cycle[s] EXCEPT !.disconnected = last]
               cs == [cycle EXCEPT ![s] = r]
    <3>1. last \in BOOLEAN OBVIOUS
    <3> HIDE DEF last
    <3>2. r \in Cycle BY ZenonT(60), <3>1 DEF Cycle
    <3>3. cs = [cycle EXCEPT ![s].disconnected = @ \/ ~is_closing] BY DEF last
    <3> HIDE DEF r
    <3>4. cs \in [Streams -> Cycle] BY <3>2
    <3> HIDE DEF cs
    <3>5. Ends(s, cs) BY <2>2, <3>3
    <3>6. QED BY <3>4, <3>5, EndedType, OnResponseType DEF Ends
  <2>3. CASE Ends(s, Answered(s, cycle))
    BY <2>3, AnsweredType, EndedType, OnResponseType DEF Ends
  <2>4. CASE BodyWaits(s)
    <3> DEFINE r == [cycle[s] EXCEPT !.stage = "body_500", !.response_started = TRUE]
    <3>1. r \in Cycle BY ZenonT(60) DEF Cycle
    <3>2. cycle' = [cycle EXCEPT ![s] = r] BY <2>4 DEF BodyWaits
    <3>3. QED BY <3>1, <3>2
  <2>5. CASE HeadWaits(s)
    <3> DEFINE r == [cycle[s] EXCEPT !.stage = "start_500", !.receiving = FALSE]
    <3>1. r \in Cycle BY ZenonT(60) DEF Cycle
    <3>2. cycle' = [cycle EXCEPT ![s] = r] BY <2>5 DEF HeadWaits
    <3>3. QED BY <3>1, <3>2
  <2>6. QED BY <1>17, <2>1, <2>2, <2>3, <2>4, <2>5 DEF EndOfTask
<1>18. CASE ResumeWriting BY <1>18 DEF ResumeWriting
<1>19. CASE EofReceived BY <1>19 DEF EofReceived
<1>20. CASE ConnectionLost
  <2>1. ASSUME NEW s \in Streams PROVE cycle'[s] \in Cycle
    <3> DEFINE last == cycle[s].disconnected \/ ~cycle[s].response_complete
               r == [cycle[s] EXCEPT !.disconnected = last, !.message_event = TRUE]
    <3>1. last \in BOOLEAN OBVIOUS
    <3> HIDE DEF last
    <3>2. r \in Cycle BY ZenonT(60), <3>1 DEF Cycle
    <3>3. cycle'[s] = r \/ cycle'[s] = cycle[s] BY <1>20 DEF ConnectionLost, last
    <3>4. QED BY <3>2, <3>3
  <2>2. DOMAIN cycle' = Streams /\ cycle' = [t \in Streams |-> cycle'[t]]
    BY <1>20 DEF ConnectionLost
  <2>3. QED BY <2>1, <2>2
<1>21. CASE KeepAliveTimeout BY <1>21 DEF KeepAliveTimeout
<1>22. CASE Shutdown BY <1>22 DEF Shutdown
<1>23. QED
  BY <1>1, <1>2, <1>3, <1>4, <1>5, <1>6, <1>7, <1>8, <1>9, <1>10, <1>11, <1>12, <1>13,
     <1>14, <1>15, <1>16, <1>17, <1>18, <1>19, <1>20, <1>21, <1>22
  DEF Step, Frames, Environment

(* Every step keeps on_response in step with the cycle: it is still to be
   called exactly as long as neither the response nor the task is complete. *)
LEMMA CallbackStep ==
  ASSUME CyclesTyped, CallbackShape, Step
  PROVE  CallbackShape'
<1> USE DEF CyclesTyped, CallbackShape, Over, Live, Cycle, streams, mode, is_closing,
        Write, WriteIfClosing, OnStreamClosed
<1>1. CASE DataReceived BY <1>1 DEF DataReceived
<1>2. CASE HandleRequest BY <1>2 DEF HandleRequest, NewCycle
<1>3. CASE HandleGoAway BY <1>3 DEF HandleGoAway
<1>4. CASE DataConsumed BY <1>4 DEF DataConsumed
<1>5. CASE InvalidFrame BY <1>5 DEF InvalidFrame
<1>6. ASSUME NEW s \in Streams, HandleData(s) PROVE CallbackShape'
  BY <1>6 DEF HandleData
<1>7. ASSUME NEW s \in Streams, HandleEndOfMessage(s) PROVE CallbackShape'
  BY <1>7 DEF HandleEndOfMessage
<1>8. ASSUME NEW s \in Streams, HandleRstStream(s) PROVE CallbackShape'
  BY <1>8 DEF HandleRstStream
<1>9. ASSUME NEW s \in Streams, Receive(s) PROVE CallbackShape'
  BY <1>9 DEF Receive, Running, Delivered
<1>10. ASSUME NEW s \in Streams, ReceiveWakes(s) PROVE CallbackShape'
  BY <1>10 DEF ReceiveWakes, Delivered
<1>11. ASSUME NEW s \in Streams, SendWaits(s) PROVE CallbackShape'
  BY <1>11 DEF SendWaits, Running
<1>12. ASSUME NEW s \in Streams, Drained(s) PROVE CallbackShape' BY <1>12 DEF Drained
<1>13. ASSUME NEW s \in Streams, SendPart(s) PROVE CallbackShape'
  BY <1>13 DEF SendPart, Sends, Running
<1>14. ASSUME NEW s \in Streams, SendStart(s) PROVE CallbackShape'
  BY <1>14 DEF SendStart, Sends, Running
<1>15. ASSUME NEW s \in Streams, SendBodyBeforeTrailers(s) PROVE CallbackShape'
  BY <1>15 DEF SendBodyBeforeTrailers, Sends, Running
<1>16. ASSUME NEW s \in Streams, SendLast(s) PROVE CallbackShape'
  BY <1>16 DEF SendLast, Sends, Running, OnResponse, Answered
<1>17. ASSUME NEW s \in Streams, EndOfTask(s) PROVE CallbackShape'
  <2> USE DEF Ends, Ended, OnResponse, Answered, HeadWaits, BodyWaits
  <2>1. CASE Ends(s, cycle) BY <1>17, <2>1 DEF EndOfTask
  <2>2. CASE Ends(s, [cycle EXCEPT ![s].disconnected = @ \/ ~is_closing])
    BY <1>17, <2>2 DEF EndOfTask
  <2>3. CASE Ends(s, Answered(s, cycle)) BY <1>17, <2>3 DEF EndOfTask
  <2>4. CASE BodyWaits(s)
    BY <1>17, <2>4 DEF EndOfTask
  <2>5. CASE HeadWaits(s)
    BY <1>17, <2>5 DEF EndOfTask
  <2>6. QED BY <1>17, <2>1, <2>2, <2>3, <2>4, <2>5 DEF EndOfTask
<1>18. CASE ResumeWriting BY <1>18 DEF ResumeWriting
<1>19. CASE EofReceived BY <1>19 DEF EofReceived
<1>20. CASE ConnectionLost BY <1>20 DEF ConnectionLost
<1>21. CASE KeepAliveTimeout BY <1>21 DEF KeepAliveTimeout
<1>22. CASE Shutdown BY <1>22 DEF Shutdown
<1>23. QED
  BY <1>1, <1>2, <1>3, <1>4, <1>5, <1>6, <1>7, <1>8, <1>9, <1>10, <1>11, <1>12, <1>13,
     <1>14, <1>15, <1>16, <1>17, <1>18, <1>19, <1>20, <1>21, <1>22
  DEF Step, Frames, Environment

(* Every step keeps the streams opened in order, with nothing known of a stream
   before its request. *)
LEMMA OpenedStep ==
  ASSUME ConnectionTyped, CyclesTyped, OpenedShape, Step
  PROVE  OpenedShape'
<1> USE DEF ConnectionTyped, CyclesTyped, OpenedShape, Cycle, Streams, Live, streams,
        mode, is_closing, Write, WriteIfClosing, OnStreamClosed
<1>1. CASE DataReceived BY <1>1 DEF DataReceived
<1>2. CASE HandleRequest BY <1>2 DEF HandleRequest, NewCycle
<1>3. CASE HandleGoAway BY <1>3 DEF HandleGoAway
<1>4. CASE DataConsumed BY <1>4 DEF DataConsumed
<1>5. CASE InvalidFrame BY <1>5 DEF InvalidFrame
<1>6. ASSUME NEW s \in Streams, HandleData(s) PROVE OpenedShape' BY <1>6 DEF HandleData
<1>7. ASSUME NEW s \in Streams, HandleEndOfMessage(s) PROVE OpenedShape'
  BY <1>7 DEF HandleEndOfMessage
<1>8. ASSUME NEW s \in Streams, HandleRstStream(s) PROVE OpenedShape'
  BY <1>8 DEF HandleRstStream
<1>9. ASSUME NEW s \in Streams, Receive(s) PROVE OpenedShape'
  BY <1>9 DEF Receive, Running, Delivered
<1>10. ASSUME NEW s \in Streams, ReceiveWakes(s) PROVE OpenedShape'
  BY <1>10 DEF ReceiveWakes, Delivered
<1>11. ASSUME NEW s \in Streams, SendWaits(s) PROVE OpenedShape'
  BY <1>11 DEF SendWaits, Running
<1>12. ASSUME NEW s \in Streams, Drained(s) PROVE OpenedShape' BY <1>12 DEF Drained
<1>13. ASSUME NEW s \in Streams, SendPart(s) PROVE OpenedShape'
  BY <1>13 DEF SendPart, Sends, Running
<1>14. ASSUME NEW s \in Streams, SendStart(s) PROVE OpenedShape'
  BY <1>14 DEF SendStart, Sends, Running
<1>15. ASSUME NEW s \in Streams, SendBodyBeforeTrailers(s) PROVE OpenedShape'
  BY <1>15 DEF SendBodyBeforeTrailers, Sends, Running
<1>16. ASSUME NEW s \in Streams, SendLast(s) PROVE OpenedShape'
  BY <1>16 DEF SendLast, Sends, Running, OnResponse, Answered
<1>17. ASSUME NEW s \in Streams, EndOfTask(s) PROVE OpenedShape'
  <2> USE DEF Ends, Ended, OnResponse, Answered, HeadWaits, BodyWaits
  <2>1. CASE Ends(s, cycle)
    <3>1. opened' = opened /\ cycle[s].stage # "none" BY <1>17 DEF EndOfTask
    <3>2. cycles' \subseteq cycles BY <2>1
    <3> DEFINE cs == Ended(s, cycle)
    <3>3. cs \in [Streams -> Cycle] /\ OnResponse(s, cs) BY <2>1, EndedType
    <3>4. \A t \in Streams : /\ cs[t].stage = IF t = s THEN "done" ELSE cycle[t].stage
                            /\ cs[t].response_complete = cycle[t].response_complete
      OBVIOUS
    <3> HIDE DEF cs, OnResponse
    <3>5. QED BY <3>1, <3>2, <3>3, <3>4, OnResponseKeeps
  <2>2. CASE Ends(s, [cycle EXCEPT ![s].disconnected = @ \/ ~is_closing])
    BY <1>17, <2>2 DEF EndOfTask
  <2>3. CASE Ends(s, Answered(s, cycle)) BY <1>17, <2>3 DEF EndOfTask
  <2>4. CASE BodyWaits(s)
    BY <1>17, <2>4 DEF EndOfTask
  <2>5. CASE HeadWaits(s)
    BY <1>17, <2>5 DEF EndOfTask
  <2>6. QED BY <1>17, <2>1, <2>2, <2>3, <2>4, <2>5 DEF EndOfTask
<1>18. CASE ResumeWriting BY <1>18 DEF ResumeWriting
<1>19. CASE EofReceived BY <1>19 DEF EofReceived
<1>20. CASE ConnectionLost BY <1>20 DEF ConnectionLost
<1>21. CASE KeepAliveTimeout BY <1>21 DEF KeepAliveTimeout
<1>22. CASE Shutdown BY <1>22 DEF Shutdown
<1>23. QED
  BY <1>1, <1>2, <1>3, <1>4, <1>5, <1>6, <1>7, <1>8, <1>9, <1>10, <1>11, <1>12, <1>13,
     <1>14, <1>15, <1>16, <1>17, <1>18, <1>19, <1>20, <1>21, <1>22
  DEF Step, Frames, Environment

(* The transport is not lost while data_received works through a chunk. *)
LEMMA FeedingStep ==
  ASSUME FeedingShape, Step
  PROVE  FeedingShape'
<1> USE DEF FeedingShape, streams, mode, is_closing, Write, WriteIfClosing,
        OnStreamClosed
<1>1. CASE DataReceived BY <1>1 DEF DataReceived
<1>2. CASE HandleRequest BY <1>2 DEF HandleRequest, NewCycle
<1>3. CASE HandleGoAway BY <1>3 DEF HandleGoAway
<1>4. CASE DataConsumed BY <1>4 DEF DataConsumed
<1>5. CASE InvalidFrame BY <1>5 DEF InvalidFrame
<1>6. ASSUME NEW s \in Streams, HandleData(s) PROVE FeedingShape' BY <1>6 DEF HandleData
<1>7. ASSUME NEW s \in Streams, HandleEndOfMessage(s) PROVE FeedingShape'
  BY <1>7 DEF HandleEndOfMessage
<1>8. ASSUME NEW s \in Streams, HandleRstStream(s) PROVE FeedingShape'
  BY <1>8 DEF HandleRstStream
<1>9. ASSUME NEW s \in Streams, Receive(s) PROVE FeedingShape'
  BY <1>9 DEF Receive, Running, Delivered
<1>10. ASSUME NEW s \in Streams, ReceiveWakes(s) PROVE FeedingShape'
  BY <1>10 DEF ReceiveWakes, Delivered
<1>11. ASSUME NEW s \in Streams, SendWaits(s) PROVE FeedingShape'
  BY <1>11 DEF SendWaits, Running
<1>12. ASSUME NEW s \in Streams, Drained(s) PROVE FeedingShape' BY <1>12 DEF Drained
<1>13. ASSUME NEW s \in Streams, SendPart(s) PROVE FeedingShape'
  BY <1>13 DEF SendPart, Sends, Running
<1>14. ASSUME NEW s \in Streams, SendStart(s) PROVE FeedingShape'
  BY <1>14 DEF SendStart, Sends, Running
<1>15. ASSUME NEW s \in Streams, SendBodyBeforeTrailers(s) PROVE FeedingShape'
  BY <1>15 DEF SendBodyBeforeTrailers, Sends, Running
<1>16. ASSUME NEW s \in Streams, SendLast(s) PROVE FeedingShape'
  BY <1>16 DEF SendLast, Sends, Running, OnResponse, Answered
<1>17. ASSUME NEW s \in Streams, EndOfTask(s) PROVE FeedingShape'
  BY <1>17 DEF EndOfTask, HeadWaits, BodyWaits, Ends, Ended, OnResponse, Answered
<1>18. CASE ResumeWriting BY <1>18 DEF ResumeWriting
<1>19. CASE EofReceived BY <1>19 DEF EofReceived
<1>20. CASE ConnectionLost BY <1>20 DEF ConnectionLost
<1>21. CASE KeepAliveTimeout BY <1>21 DEF KeepAliveTimeout
<1>22. CASE Shutdown BY <1>22 DEF Shutdown
<1>23. QED
  BY <1>1, <1>2, <1>3, <1>4, <1>5, <1>6, <1>7, <1>8, <1>9, <1>10, <1>11, <1>12, <1>13,
     <1>14, <1>15, <1>16, <1>17, <1>18, <1>19, <1>20, <1>21, <1>22
  DEF Step, Frames, Environment

(* Every step leaves in the dictionary exactly the streams in progress: whatever
   answers, resets or gives up a stream takes it out, and nothing else does. *)
LEMMA DictionaryStep ==
  ASSUME ConnectionTyped, CyclesTyped, CallbackShape, OpenedShape, FeedingShape,
         Dictionary, Step
  PROVE  Dictionary'
<1> USE DEF CyclesTyped, CallbackShape, OpenedShape, FeedingShape, Dictionary,
        InProgress, Over, Live, Cycle, streams, mode, is_closing, Write,
        WriteIfClosing, OnStreamClosed
<1>1. CASE DataReceived BY <1>1 DEF DataReceived
<1>2. CASE HandleRequest
  <2>1. transport # "lost" /\ UNCHANGED transport BY <1>2 DEF HandleRequest
  <2>2. opened + 1 \in Streams
    BY <1>2, ConstantsAssumption DEF HandleRequest, ConnectionTyped, Streams
  <2>3. cycle' = [cycle EXCEPT ![opened + 1] = NewCycle("running")]
    BY <1>2 DEF HandleRequest
  <2>4. cycle[opened + 1].stage = "none" BY <2>2 DEF ConnectionTyped, Streams
  <2>5. InProgress' = InProgress \cup {opened + 1}
    <3>1. \A t \in Streams \ {opened + 1} : cycle'[t] = cycle[t] BY <2>3
    <3>2. cycle'[opened + 1] = NewCycle("running") BY <2>2, <2>3
    <3>3. opened + 1 \in InProgress' BY <2>2, <3>2 DEF NewCycle
    <3>4. QED BY <2>2, <3>1, <3>3
  <2>6. QED BY <1>2, <2>1, <2>5 DEF HandleRequest
<1>3. CASE HandleGoAway BY <1>3 DEF HandleGoAway
<1>4. CASE DataConsumed BY <1>4 DEF DataConsumed
<1>5. CASE InvalidFrame BY <1>5 DEF InvalidFrame
<1>6. ASSUME NEW s \in Streams, HandleData(s) PROVE Dictionary' BY <1>6 DEF HandleData
<1>7. ASSUME NEW s \in Streams, HandleEndOfMessage(s) PROVE Dictionary'
  BY <1>7 DEF HandleEndOfMessage
<1>8. ASSUME NEW s \in Streams, HandleRstStream(s) PROVE Dictionary'
  BY <1>8 DEF HandleRstStream
<1>9. ASSUME NEW s \in Streams, Receive(s) PROVE Dictionary'
  BY <1>9 DEF Receive, Running, Delivered
<1>10. ASSUME NEW s \in Streams, ReceiveWakes(s) PROVE Dictionary'
  BY <1>10 DEF ReceiveWakes, Delivered
<1>11. ASSUME NEW s \in Streams, SendWaits(s) PROVE Dictionary'
  BY <1>11 DEF SendWaits, Running
<1>12. ASSUME NEW s \in Streams, Drained(s) PROVE Dictionary' BY <1>12 DEF Drained
<1>13. ASSUME NEW s \in Streams, SendPart(s) PROVE Dictionary'
  BY <1>13 DEF SendPart, Sends, Running
<1>14. ASSUME NEW s \in Streams, SendStart(s) PROVE Dictionary'
  BY <1>14 DEF SendStart, Sends, Running
<1>15. ASSUME NEW s \in Streams, SendBodyBeforeTrailers(s) PROVE Dictionary'
  BY <1>15 DEF SendBodyBeforeTrailers, Sends, Running
<1>16. ASSUME NEW s \in Streams, SendLast(s) PROVE Dictionary'
  BY <1>16 DEF SendLast, Sends, Running, OnResponse, Answered
<1>17. ASSUME NEW s \in Streams, EndOfTask(s) PROVE Dictionary'
  BY <1>17 DEF EndOfTask, HeadWaits, BodyWaits, Ends, Ended, OnResponse, Answered
<1>18. CASE ResumeWriting BY <1>18 DEF ResumeWriting
<1>19. CASE EofReceived BY <1>19 DEF EofReceived
<1>20. CASE ConnectionLost BY <1>20 DEF ConnectionLost
<1>21. CASE KeepAliveTimeout BY <1>21 DEF KeepAliveTimeout
<1>22. CASE Shutdown BY <1>22 DEF Shutdown
<1>23. QED
  BY <1>1, <1>2, <1>3, <1>4, <1>5, <1>6, <1>7, <1>8, <1>9, <1>10, <1>11, <1>12, <1>13,
     <1>14, <1>15, <1>16, <1>17, <1>18, <1>19, <1>20, <1>21, <1>22
  DEF Step, Frames, Environment

(* Every step that leaves receive() something to learn sets message_event. *)
LEMMA AwakenStep ==
  ASSUME CyclesTyped, Awaken, Step
  PROVE  Awaken'
<1> USE DEF CyclesTyped, Awaken, Awake, Cycle, streams, mode, is_closing, Write,
        WriteIfClosing, OnStreamClosed
<1>1. CASE DataReceived BY <1>1 DEF DataReceived
<1>2. CASE HandleRequest BY <1>2 DEF HandleRequest, NewCycle
<1>3. CASE HandleGoAway BY <1>3 DEF HandleGoAway
<1>4. CASE DataConsumed BY <1>4 DEF DataConsumed
<1>5. CASE InvalidFrame BY <1>5 DEF InvalidFrame
<1>6. ASSUME NEW s \in Streams, HandleData(s) PROVE Awaken' BY <1>6 DEF HandleData
<1>7. ASSUME NEW s \in Streams, HandleEndOfMessage(s) PROVE Awaken'
  BY <1>7 DEF HandleEndOfMessage
<1>8. ASSUME NEW s \in Streams, HandleRstStream(s) PROVE Awaken'
  BY <1>8 DEF HandleRstStream
<1>9. ASSUME NEW s \in Streams, Receive(s) PROVE Awaken'
  BY <1>9 DEF Receive, Running, Delivered
<1>10. ASSUME NEW s \in Streams, ReceiveWakes(s) PROVE Awaken'
  BY <1>10 DEF ReceiveWakes, Delivered
<1>11. ASSUME NEW s \in Streams, SendWaits(s) PROVE Awaken'
  BY <1>11 DEF SendWaits, Running
<1>12. ASSUME NEW s \in Streams, Drained(s) PROVE Awaken' BY <1>12 DEF Drained
<1>13. ASSUME NEW s \in Streams, SendPart(s) PROVE Awaken'
  BY <1>13 DEF SendPart, Sends, Running
<1>14. ASSUME NEW s \in Streams, SendStart(s) PROVE Awaken'
  BY <1>14 DEF SendStart, Sends, Running
<1>15. ASSUME NEW s \in Streams, SendBodyBeforeTrailers(s) PROVE Awaken'
  BY <1>15 DEF SendBodyBeforeTrailers, Sends, Running
<1>16. ASSUME NEW s \in Streams, SendLast(s) PROVE Awaken'
  BY <1>16 DEF SendLast, Sends, Running, OnResponse, Answered
<1>17. ASSUME NEW s \in Streams, EndOfTask(s) PROVE Awaken'
  BY <1>17 DEF EndOfTask, HeadWaits, BodyWaits, Ends, Ended, OnResponse, Answered
<1>18. CASE ResumeWriting BY <1>18 DEF ResumeWriting
<1>19. CASE EofReceived BY <1>19 DEF EofReceived
<1>20. CASE ConnectionLost BY <1>20 DEF ConnectionLost
<1>21. CASE KeepAliveTimeout BY <1>21 DEF KeepAliveTimeout
<1>22. CASE Shutdown BY <1>22 DEF Shutdown
<1>23. QED
  BY <1>1, <1>2, <1>3, <1>4, <1>5, <1>6, <1>7, <1>8, <1>9, <1>10, <1>11, <1>12, <1>13,
     <1>14, <1>15, <1>16, <1>17, <1>18, <1>19, <1>20, <1>21, <1>22
  DEF Step, Frames, Environment

(* The loss of the connection is told to every stream in progress, because the
   dictionary is complete when it is lost, and no step takes that back. *)
LEMMA ToldStep ==
  ASSUME CyclesTyped, FeedingShape, OpenedShape, Dictionary, Told, Step
  PROVE  Told'
<1> USE DEF CyclesTyped, FeedingShape, OpenedShape, Dictionary, InProgress, Told,
        Live, Cycle, streams, mode, is_closing, Write, WriteIfClosing, OnStreamClosed
<1>1. CASE DataReceived BY <1>1 DEF DataReceived
<1>2. CASE HandleRequest BY <1>2 DEF HandleRequest, NewCycle
<1>3. CASE HandleGoAway BY <1>3 DEF HandleGoAway
<1>4. CASE DataConsumed BY <1>4 DEF DataConsumed
<1>5. CASE InvalidFrame BY <1>5 DEF InvalidFrame
<1>6. ASSUME NEW s \in Streams, HandleData(s) PROVE Told' BY <1>6 DEF HandleData
<1>7. ASSUME NEW s \in Streams, HandleEndOfMessage(s) PROVE Told'
  BY <1>7 DEF HandleEndOfMessage
<1>8. ASSUME NEW s \in Streams, HandleRstStream(s) PROVE Told'
  BY <1>8 DEF HandleRstStream
<1>9. ASSUME NEW s \in Streams, Receive(s) PROVE Told'
  BY <1>9 DEF Receive, Running, Delivered
<1>10. ASSUME NEW s \in Streams, ReceiveWakes(s) PROVE Told'
  BY <1>10 DEF ReceiveWakes, Delivered
<1>11. ASSUME NEW s \in Streams, SendWaits(s) PROVE Told'
  BY <1>11 DEF SendWaits, Running
<1>12. ASSUME NEW s \in Streams, Drained(s) PROVE Told' BY <1>12 DEF Drained
<1>13. ASSUME NEW s \in Streams, SendPart(s) PROVE Told'
  BY <1>13 DEF SendPart, Sends, Running
<1>14. ASSUME NEW s \in Streams, SendStart(s) PROVE Told'
  BY <1>14 DEF SendStart, Sends, Running
<1>15. ASSUME NEW s \in Streams, SendBodyBeforeTrailers(s) PROVE Told'
  BY <1>15 DEF SendBodyBeforeTrailers, Sends, Running
<1>16. ASSUME NEW s \in Streams, SendLast(s) PROVE Told'
  BY <1>16 DEF SendLast, Sends, Running, OnResponse, Answered
<1>17. ASSUME NEW s \in Streams, EndOfTask(s) PROVE Told'
  BY <1>17 DEF EndOfTask, HeadWaits, BodyWaits, Ends, Ended, OnResponse, Answered
<1>18. CASE ResumeWriting BY <1>18 DEF ResumeWriting
<1>19. CASE EofReceived BY <1>19 DEF EofReceived
<1>20. CASE ConnectionLost
  <2>1. SUFFICES ASSUME NEW s \in Streams, Live(s)'
                 PROVE  cycle'[s].disconnected \/ cycle'[s].response_complete
    OBVIOUS
  <2>2. cycles = InProgress BY <1>20 DEF ConnectionLost
  <2>3. CASE s \in cycles
    <3>1. /\ cycle'[s].disconnected
             = (cycle[s].disconnected \/ ~cycle[s].response_complete)
          /\ cycle'[s].response_complete = cycle[s].response_complete
      BY <1>20, <2>3 DEF ConnectionLost
    <3>2. QED BY <3>1
  <2>4. CASE s \notin cycles
    <3>1. cycle'[s] = cycle[s] BY <1>20, <2>4 DEF ConnectionLost
    <3>2. QED BY <2>1, <2>2, <2>4, <3>1
  <2>5. QED BY <2>3, <2>4
<1>21. CASE KeepAliveTimeout BY <1>21 DEF KeepAliveTimeout
<1>22. CASE Shutdown BY <1>22 DEF Shutdown
<1>23. QED
  BY <1>1, <1>2, <1>3, <1>4, <1>5, <1>6, <1>7, <1>8, <1>9, <1>10, <1>11, <1>12, <1>13,
     <1>14, <1>15, <1>16, <1>17, <1>18, <1>19, <1>20, <1>21, <1>22
  DEF Step, Frames, Environment

(* Whatever removes the last stream arms the timer or closes the connection. *)
LEMMA IdleStep ==
  ASSUME ConnectionTyped, IdleOrClosing, Step
  PROVE  IdleOrClosing'
<1> USE DEF ConnectionTyped, IdleOrClosing, streams, mode, is_closing, Write,
        WriteIfClosing, OnStreamClosed
<1>1. CASE DataReceived BY <1>1 DEF DataReceived
<1>2. CASE HandleRequest BY <1>2 DEF HandleRequest, NewCycle
<1>3. CASE HandleGoAway BY <1>3 DEF HandleGoAway
<1>4. CASE DataConsumed BY <1>4 DEF DataConsumed
<1>5. CASE InvalidFrame BY <1>5 DEF InvalidFrame
<1>6. ASSUME NEW s \in Streams, HandleData(s) PROVE IdleOrClosing'
  BY <1>6 DEF HandleData
<1>7. ASSUME NEW s \in Streams, HandleEndOfMessage(s) PROVE IdleOrClosing'
  BY <1>7 DEF HandleEndOfMessage
<1>8. ASSUME NEW s \in Streams, HandleRstStream(s) PROVE IdleOrClosing'
  BY <1>8 DEF HandleRstStream
<1>9. ASSUME NEW s \in Streams, Receive(s) PROVE IdleOrClosing'
  BY <1>9 DEF Receive, Running, Delivered
<1>10. ASSUME NEW s \in Streams, ReceiveWakes(s) PROVE IdleOrClosing'
  BY <1>10 DEF ReceiveWakes, Delivered
<1>11. ASSUME NEW s \in Streams, SendWaits(s) PROVE IdleOrClosing'
  BY <1>11 DEF SendWaits, Running
<1>12. ASSUME NEW s \in Streams, Drained(s) PROVE IdleOrClosing' BY <1>12 DEF Drained
<1>13. ASSUME NEW s \in Streams, SendPart(s) PROVE IdleOrClosing'
  BY <1>13 DEF SendPart, Sends, Running
<1>14. ASSUME NEW s \in Streams, SendStart(s) PROVE IdleOrClosing'
  BY <1>14 DEF SendStart, Sends, Running
<1>15. ASSUME NEW s \in Streams, SendBodyBeforeTrailers(s) PROVE IdleOrClosing'
  BY <1>15 DEF SendBodyBeforeTrailers, Sends, Running
<1>16. ASSUME NEW s \in Streams, SendLast(s) PROVE IdleOrClosing'
  BY <1>16 DEF SendLast, Sends, Running, OnResponse, Answered
<1>17. ASSUME NEW s \in Streams, EndOfTask(s) PROVE IdleOrClosing'
  BY <1>17 DEF EndOfTask, HeadWaits, BodyWaits, Ends, Ended, OnResponse, Answered
<1>18. CASE ResumeWriting BY <1>18 DEF ResumeWriting
<1>19. CASE EofReceived BY <1>19 DEF EofReceived
<1>20. CASE ConnectionLost BY <1>20 DEF ConnectionLost
<1>21. CASE KeepAliveTimeout BY <1>21 DEF KeepAliveTimeout
<1>22. CASE Shutdown BY <1>22 DEF Shutdown
<1>23. QED
  BY <1>1, <1>2, <1>3, <1>4, <1>5, <1>6, <1>7, <1>8, <1>9, <1>10, <1>11, <1>12, <1>13,
     <1>14, <1>15, <1>16, <1>17, <1>18, <1>19, <1>20, <1>21, <1>22
  DEF Step, Frames, Environment

(* on_response counts its stream, which was not over, or does nothing. *)
LEMMA OnResponseCounts ==
  ASSUME CyclesTyped, CallbackShape, NEW s \in Streams, NEW cs \in [Streams -> Cycle],
         \A t \in Streams \ {s} : cs[t] = cycle[t],
         cs[s].on_response = cycle[s].on_response,
         cs[s].stage = "done" \/ cs[s].response_complete,
         OnResponse(s, cs)
  PROVE  CountsOne
<1> USE DEF CyclesTyped, CallbackShape, Over
<1>1. \A t \in Streams \ {s} : cycle'[t] = cycle[t] BY DEF OnResponse
<1>2. cycle'[s].stage = cs[s].stage /\ cycle'[s].response_complete = cs[s].response_complete
  BY OnResponseKeeps
<1>3. OverSet' = OverSet \cup {s} BY <1>1, <1>2 DEF OverSet
<1>4. CASE cycle[s].on_response
  <2>1. s \notin OverSet BY <1>4 DEF OverSet
  <2>2. total_requests' = total_requests + 1 BY <1>4 DEF OnResponse
  <2>3. QED BY <1>3, <2>1, <2>2 DEF CountsOne
<1>5. CASE ~cycle[s].on_response
  <2>1. s \in OverSet BY <1>5 DEF OverSet
  <2>2. total_requests' = total_requests BY <1>5 DEF OnResponse
  <2>3. QED BY <1>3, <2>1, <2>2 DEF CountsOne
<1>6. QED BY <1>4, <1>5

(* A step that completes a response or ends a task counts its stream unless it
   had been counted before, and no other step counts. *)
LEMMA CountsOneStep ==
  ASSUME ConnectionTyped, CyclesTyped, CallbackShape, OpenedShape, Step
  PROVE  CountsOne
<1> USE DEF CyclesTyped, OpenedShape, CountsOne, OverSet, Over, Live, Cycle, Streams,
        streams, mode, is_closing, Write, WriteIfClosing, OnStreamClosed
<1>1. CASE DataReceived BY <1>1 DEF DataReceived
<1>2. CASE HandleRequest
  <2>1. PICK n \in Streams : n = opened + 1
    BY <1>2, ConstantsAssumption DEF HandleRequest, ConnectionTyped, Streams
  <2>2. cycle' = [cycle EXCEPT ![n] = NewCycle("running")] BY <1>2, <2>1 DEF HandleRequest
  <2>3. ~Over(n) BY <2>1 DEF ConnectionTyped, Streams
  <2>4. ~Over(n)' BY <2>1, <2>2 DEF NewCycle
  <2>5. \A t \in Streams \ {n} : Over(t)' <=> Over(t) BY <2>2
  <2>6. OverSet' = OverSet BY <2>3, <2>4, <2>5
  <2>7. QED BY <1>2, <2>6 DEF HandleRequest
<1>3. CASE HandleGoAway BY <1>3 DEF HandleGoAway
<1>4. CASE DataConsumed BY <1>4 DEF DataConsumed
<1>5. CASE InvalidFrame BY <1>5 DEF InvalidFrame
<1>6. ASSUME NEW s \in Streams, HandleData(s) PROVE CountsOne BY <1>6 DEF HandleData
<1>7. ASSUME NEW s \in Streams, HandleEndOfMessage(s) PROVE CountsOne
  BY <1>7 DEF HandleEndOfMessage
<1>8. ASSUME NEW s \in Streams, HandleRstStream(s) PROVE CountsOne
  BY <1>8 DEF HandleRstStream
<1>9. ASSUME NEW s \in Streams, Receive(s) PROVE CountsOne
  BY <1>9 DEF Receive, Running, Delivered
<1>10. ASSUME NEW s \in Streams, ReceiveWakes(s) PROVE CountsOne
  BY <1>10 DEF ReceiveWakes, Delivered
<1>11. ASSUME NEW s \in Streams, SendWaits(s) PROVE CountsOne
  BY <1>11 DEF SendWaits, Running
<1>12. ASSUME NEW s \in Streams, Drained(s) PROVE CountsOne BY <1>12 DEF Drained
<1>13. ASSUME NEW s \in Streams, SendPart(s) PROVE CountsOne
  BY <1>13 DEF SendPart, Sends, Running
<1>14. ASSUME NEW s \in Streams, SendStart(s) PROVE CountsOne
  BY <1>14 DEF SendStart, Sends, Running
<1>15. ASSUME NEW s \in Streams, SendBodyBeforeTrailers(s) PROVE CountsOne
  BY <1>15 DEF SendBodyBeforeTrailers, Sends, Running
<1>16. ASSUME NEW s \in Streams, SendLast(s) PROVE CountsOne
  <2> DEFINE cs == Answered(s, cycle)
  <2>1. OnResponse(s, cs) BY <1>16 DEF SendLast
  <2>2. /\ \A t \in Streams \ {s} : cs[t] = cycle[t]
        /\ cs[s].on_response = cycle[s].on_response
        /\ cs[s].response_complete
    BY DEF Answered
  <2>3. cs \in [Streams -> Cycle] BY AnsweredType DEF CyclesTyped
  <2> HIDE DEF cs
  <2>4. QED BY <2>1, <2>2, <2>3, OnResponseCounts
<1>17. ASSUME NEW s \in Streams, EndOfTask(s) PROVE CountsOne
  <2>1. ASSUME NEW cs \in [Streams -> Cycle], Ends(s, cs),
               \A t \in Streams \ {s} : cs[t] = cycle[t],
               cs[s].on_response = cycle[s].on_response
        PROVE  CountsOne
    <3> DEFINE ds == Ended(s, cs)
    <3>1. OnResponse(s, ds) BY <2>1 DEF Ends
    <3>2. /\ \A t \in Streams \ {s} : ds[t] = cycle[t]
          /\ ds[s].on_response = cycle[s].on_response
          /\ ds[s].stage = "done"
      BY <2>1 DEF Ended
    <3>3. ds \in [Streams -> Cycle] BY EndedType
    <3> HIDE DEF ds
    <3>4. QED BY <3>1, <3>2, <3>3, OnResponseCounts
  <2>2. CASE Ends(s, cycle) BY <2>1, <2>2 DEF CyclesTyped
  <2>3. CASE Ends(s, [cycle EXCEPT ![s].disconnected = @ \/ ~is_closing])
    <3> DEFINE last == cycle[s].disconnected \/ ~is_closing
               r == [cycle[s] EXCEPT !.disconnected = last]
               cs == [cycle EXCEPT ![s] = r]
    <3>1. last \in BOOLEAN BY DEF CyclesTyped, Cycle
    <3> HIDE DEF last
    <3>2. r \in Cycle /\ r.on_response = cycle[s].on_response
      BY ZenonT(60), <3>1 DEF Cycle, CyclesTyped
    <3>3. cs = [cycle EXCEPT ![s].disconnected = @ \/ ~is_closing] BY DEF last
    <3> HIDE DEF r
    <3>4. /\ cs \in [Streams -> Cycle] /\ \A t \in Streams \ {s} : cs[t] = cycle[t]
          /\ cs[s].on_response = cycle[s].on_response
      BY <3>2 DEF CyclesTyped
    <3> HIDE DEF cs
    <3>5. Ends(s, cs) BY <2>3, <3>3
    <3>6. QED BY <2>1, <3>4, <3>5
  <2>4. CASE Ends(s, Answered(s, cycle))
    <3> DEFINE cs == Answered(s, cycle)
    <3>1. /\ \A t \in Streams \ {s} : cs[t] = cycle[t]
          /\ cs[s].on_response = cycle[s].on_response
      BY DEF Answered
    <3>2. cs \in [Streams -> Cycle] BY AnsweredType DEF CyclesTyped
    <3> HIDE DEF cs
    <3>3. Ends(s, cs) BY <2>4 DEF cs
    <3>4. QED BY <2>1, <3>1, <3>2, <3>3
  <2>5. CASE BodyWaits(s)
    <3>1. \A t \in Streams : Over(t)' <=> Over(t) BY <1>17, <2>5 DEF EndOfTask, BodyWaits
    <3>2. QED BY <2>5, <3>1 DEF BodyWaits
  <2>6. CASE HeadWaits(s)
    <3>1. \A t \in Streams : Over(t)' <=> Over(t) BY <1>17, <2>6 DEF EndOfTask, HeadWaits
    <3>2. QED BY <2>6, <3>1 DEF HeadWaits
  <2>7. QED BY <1>17, <2>2, <2>3, <2>4, <2>5, <2>6 DEF EndOfTask
<1>18. CASE ResumeWriting BY <1>18 DEF ResumeWriting
<1>19. CASE EofReceived BY <1>19 DEF EofReceived
<1>20. CASE ConnectionLost BY <1>20 DEF ConnectionLost
<1>21. CASE KeepAliveTimeout BY <1>21 DEF KeepAliveTimeout
<1>22. CASE Shutdown BY <1>22 DEF Shutdown
<1>23. QED
  BY <1>1, <1>2, <1>3, <1>4, <1>5, <1>6, <1>7, <1>8, <1>9, <1>10, <1>11, <1>12, <1>13,
     <1>14, <1>15, <1>16, <1>17, <1>18, <1>19, <1>20, <1>21, <1>22
  DEF Step, Frames, Environment

-----------------------------------------------------------------------------
(* The ends of tasks. *)

(* An abort is the end of a task. *)
LEMMA AbortEndsTask ==
  ASSUME ConnectionTyped, NEW s \in Streams, ~feeding, Live(s), Abort(s),
         UNCHANGED <<opened, mode>>
  PROVE  EndOfTask(s)
<1>1. write_paused' \in BOOLEAN BY DEF Abort, Write, ConnectionTyped
<1>2. Ends(s, [cycle EXCEPT ![s].disconnected = @ \/ ~is_closing]) BY DEF Abort
<1>3. QED BY <1>1, <1>2 DEF EndOfTask

(* Every outcome of send_500_response ends the task or leaves it waiting for the
   second of its two sends. *)
LEMMA Send500EndsTask ==
  ASSUME ConnectionTyped, CyclesTyped, NEW s \in Streams, ~feeding, Live(s), Send500(s),
         UNCHANGED <<opened, mode>>
  PROVE  EndOfTask(s)
<1>1. write_paused' \in BOOLEAN
  BY DEF Send500, Write, WriteIfClosing, ConnectionTyped
<1>2. CASE cycle[s].disconnected /\ Ends(s, cycle) BY <1>1, <1>2 DEF EndOfTask
<1>3. CASE BodyWaits(s)
  BY <1>1, <1>3 DEF EndOfTask
<1>4. CASE ~cycle[s].disconnected /\ Ends(s, Answered(s, cycle))
  BY <1>1, <1>4 DEF EndOfTask
<1>5. QED BY <1>2, <1>3, <1>4 DEF Send500, BodyWaits

(* So is the 500 response that waits for its first send. *)
LEMMA RespondWith500EndsTask ==
  ASSUME ConnectionTyped, CyclesTyped, NEW s \in Streams, ~feeding, Live(s),
         RespondWith500(s), UNCHANGED <<opened, mode>>
  PROVE  EndOfTask(s)
<1>1. CASE write_paused /\ ~cycle[s].disconnected
  <2>1. /\ cycle' = [cycle EXCEPT ![s].stage = "start_500", ![s].receiving = FALSE]
        /\ UNCHANGED <<cycles, keep_alive_timer, transport, write_paused, total_requests>>
    BY <1>1 DEF RespondWith500
  <2>2. QED BY <2>1 DEF EndOfTask, HeadWaits, ConnectionTyped
<1>2. CASE ~(write_paused /\ ~cycle[s].disconnected)
  BY <1>2, Send500EndsTask DEF RespondWith500
<1>3. QED BY <1>1, <1>2

(* Every step of the connection is one of the steps above. *)
LEMMA NextIsStep ==
  ASSUME ConnectionTyped, CyclesTyped, Next
  PROVE  Step
<1>1. CASE Frames BY <1>1 DEF Step
<1>2. CASE Environment BY <1>2 DEF Step
<1>3. ASSUME NEW s \in Streams, App(s) PROVE Step
  <2>1. ASSUME MayEnd(s) PROVE ~feeding /\ Live(s)
    BY <2>1 DEF MayEnd, Running, Live
  <2>2. CASE AppRaises(s)
    <3>1. MayEnd(s) /\ UNCHANGED <<opened, mode>> /\ (Abort(s) \/ RespondWith500(s))
      BY <2>2 DEF AppRaises
    <3>2. EndOfTask(s) BY <2>1, <3>1, AbortEndsTask, RespondWith500EndsTask
    <3>3. QED BY <3>2 DEF Step
  <2>3. CASE AppReturns(s)
    <3>1. MayEnd(s) /\ UNCHANGED <<opened, mode>> BY <2>3 DEF AppReturns
    <3>2. CASE cycle[s].disconnected \/ cycle[s].response_complete
      <4>1. Ends(s, cycle) /\ WriteIfClosing BY <2>3, <3>2 DEF AppReturns
      <4>2. write_paused' \in BOOLEAN
        BY <4>1 DEF WriteIfClosing, Write, ConnectionTyped
      <4>3. EndOfTask(s) BY <2>1, <3>1, <3>2, <4>1, <4>2 DEF EndOfTask
      <4>4. QED BY <4>3 DEF Step
    <3>3. CASE ~(cycle[s].disconnected \/ cycle[s].response_complete)
      <4>1. Abort(s) \/ RespondWith500(s) BY <2>3, <3>3 DEF AppReturns
      <4>2. EndOfTask(s) BY <2>1, <3>1, <4>1, AbortEndsTask, RespondWith500EndsTask
      <4>3. QED BY <4>2 DEF Step
    <3>4. QED BY <3>2, <3>3
  <2>4. CASE AppReturnsValue(s)
    <3>1. EndOfTask(s) BY <2>1, <2>4, AbortEndsTask DEF AppReturnsValue
    <3>2. QED BY <3>1 DEF Step
  <2>5. CASE Resume500(s)
    <3>1. ~feeding /\ Live(s) /\ UNCHANGED <<opened, mode>>
      BY <2>5 DEF Resume500, Live
    <3>2. CASE Send500(s)
      <4>1. EndOfTask(s) BY <3>1, <3>2, Send500EndsTask
      <4>2. QED BY <4>1 DEF Step
    <3>3. CASE cycle[s].disconnected /\ Ends(s, cycle) /\ WriteIfClosing
      <4>1. write_paused' \in BOOLEAN
        BY <3>3 DEF WriteIfClosing, Write, ConnectionTyped
      <4>2. EndOfTask(s) BY <3>1, <3>3, <4>1 DEF EndOfTask
      <4>3. QED BY <4>2 DEF Step
    <3>4. CASE ~cycle[s].disconnected /\ Ends(s, Answered(s, cycle)) /\ Write
      <4>1. write_paused' \in BOOLEAN BY <3>4 DEF Write, ConnectionTyped
      <4>2. EndOfTask(s) BY <3>1, <3>4, <4>1 DEF EndOfTask
      <4>3. QED BY <4>2 DEF Step
    <3>5. QED BY <2>5, <3>2, <3>3, <3>4 DEF Resume500
  <2>6. QED BY <1>3, <2>2, <2>3, <2>4, <2>5 DEF App, Step
<1>4. QED BY <1>1, <1>2, <1>3 DEF Next

-----------------------------------------------------------------------------
(* The invariants. *)

(* The connection starts with no stream and nothing to account for. *)
LEMMA InitInv ==
  ASSUME Init
  PROVE  IInv
<1> USE DEF Init
<1>1. ConnectionTyped
  <2>1. opened \in 0..MaxStreams /\ cycles \subseteq Streams BY ConstantsAssumption
  <2>2. QED BY <2>1, Zenon DEF ConnectionTyped
<1>2. CyclesTyped
  <2>1. NewCycle("none") \in Cycle BY ZenonT(60) DEF NewCycle, Cycle, Stages
  <2>2. QED BY <2>1 DEF CyclesTyped
<1>3. ASSUME NEW s \in Streams PROVE cycle[s] = NewCycle("none") OBVIOUS
<1>4. CallbackShape BY <1>3 DEF CallbackShape, Over, NewCycle
<1>5. OpenedShape BY <1>3 DEF OpenedShape, NewCycle, Streams
<1>6. InProgress = {} BY <1>3 DEF InProgress, Live, NewCycle
<1>7. Dictionary BY <1>6 DEF Dictionary
<1>8. OverSet = {} BY <1>3 DEF OverSet, Over, NewCycle
<1>9. Counted BY <1>8, FS_EmptySet DEF Counted
<1>10. Awaken BY <1>3 DEF Awaken, Awake, NewCycle
<1>11. FeedingShape /\ Told /\ IdleOrClosing BY DEF FeedingShape, Told, IdleOrClosing
<1>12. QED BY <1>1, <1>2, <1>4, <1>5, <1>7, <1>9, <1>10, <1>11 DEF IInv

(* The streams that are over are finitely many, and no more than MaxStreams. *)
LEMMA OverSetFinite ==
  /\ IsFiniteSet(OverSet)
  /\ Cardinality(OverSet) \in 0..MaxStreams
<1>1. IsFiniteSet(Streams) /\ Cardinality(Streams) = MaxStreams
  BY FS_Interval, ConstantsAssumption DEF Streams
<1>2. OverSet \in SUBSET Streams BY DEF OverSet
<1>3. IsFiniteSet(OverSet) /\ Cardinality(OverSet) <= MaxStreams BY <1>1, <1>2, FS_Subset
<1>4. QED BY <1>3, FS_CardinalityType, ConstantsAssumption

(* total_requests counts every stream that is over, once. *)
LEMMA CountedStep ==
  ASSUME ConnectionTyped, CyclesTyped, CallbackShape, OpenedShape, Counted, Step
  PROVE  Counted'
<1>1. CASE OverSet' = OverSet /\ total_requests' = total_requests BY <1>1 DEF Counted
<1>2. ASSUME NEW s \in Streams \ OverSet,
             OverSet' = OverSet \cup {s}, total_requests' = total_requests + 1
      PROVE  Counted'
  <2>1. Cardinality(OverSet \cup {s}) = Cardinality(OverSet) + 1
    BY OverSetFinite, FS_AddElement
  <2>2. QED BY <1>2, <2>1 DEF Counted
<1>3. QED BY <1>1, <1>2, CountsOneStep DEF CountsOne

(* The invariant is inductive: each of its parts is kept by every step, and by
   the steps that change nothing. *)
LEMMA StepInv ==
  ASSUME IInv, [Next]_vars
  PROVE  IInv'
<1>1. CASE Next
  <2>1. Step BY <1>1, NextIsStep DEF IInv
  <2>2. ConnectionTyped' /\ CyclesTyped'
    BY <2>1, ConnectionTypedStep, CyclesTypedStep DEF IInv
  <2>3. CallbackShape' /\ OpenedShape' /\ FeedingShape'
    BY <2>1, CallbackStep, OpenedStep, FeedingStep DEF IInv
  <2>4. Dictionary' /\ Counted' BY <2>1, DictionaryStep, CountedStep DEF IInv
  <2>5. Awaken' /\ Told' /\ IdleOrClosing'
    BY <2>1, AwakenStep, ToldStep, IdleStep DEF IInv
  <2>6. QED BY <2>2, <2>3, <2>4, <2>5 DEF IInv
<1>2. CASE UNCHANGED vars
  <2> USE <1>2 DEF IInv, vars, streams, mode
  <2>2. ConnectionTyped' /\ CyclesTyped' BY DEF ConnectionTyped, CyclesTyped
  <2>3. CallbackShape' /\ OpenedShape' BY DEF CallbackShape, Over, OpenedShape
  <2>4. FeedingShape' /\ IdleOrClosing' BY DEF FeedingShape, IdleOrClosing
  <2>5. Dictionary' BY DEF Dictionary, InProgress, Live
  <2>6. Counted' BY DEF Counted, OverSet, Over
  <2>7. Awaken' BY DEF Awaken, Awake
  <2>8. Told' BY DEF Told, Live
  <2>9. QED BY <2>2, <2>3, <2>4, <2>5, <2>6, <2>7, <2>8
<1>3. QED BY <1>1, <1>2

(* IInv holds in every state of every behaviour of the connection. *)
THEOREM Invariance == Spec => []IInv
<1>1. Init => IInv BY InitInv
<1>2. IInv /\ [Next]_vars => IInv' BY StepInv
<1>3. QED BY <1>1, <1>2, PTL DEF Spec

(* Every variable keeps its type; the counter because it counts streams. *)
THEOREM TypeCorrect == Spec => []TypeOK
<1>1. IInv => TypeOK
  BY OverSetFinite DEF IInv, ConnectionTyped, CyclesTyped, Counted, TypeOK
<1>2. QED BY <1>1, Invariance, PTL

(* The dictionary holds exactly the streams in progress, and every stream is
   counted once, by the end of its task at the latest. *)
THEOREM Accounted == Spec => []StreamsAccounted
<1>1. IInv => StreamsAccounted
  BY DEF IInv, Dictionary, InProgress, Counted, OverSet, Over, StreamsAccounted
<1>2. QED BY <1>1, Invariance, PTL

(* A connection with no stream has its keep-alive timer or is closing. *)
THEOREM IdleCloses == Spec => []IdleOrClosing
<1>1. IInv => IdleOrClosing BY DEF IInv
<1>2. QED BY <1>1, Invariance, PTL

(* A task in receive() is due to wake whenever there is something to learn, and
   the loss of the connection is told to every stream in progress. *)
THEOREM Receives == Spec => []ReceiveContract
<1>1. ASSUME IInv PROVE ReceiveContract
  <2> SUFFICES ASSUME NEW s \in Streams
               PROVE  LET r == cycle[s]
                          over == r.disconnected \/ r.response_complete
                      IN  /\ r.receiving /\ (r.body \/ (~r.more_body /\ ~r.end_received) \/ over)
                             => r.message_event
                          /\ r.end_received => ~r.body /\ (r.message_event => over)
                          /\ transport = "lost" /\ Live(s) => over
    BY DEF ReceiveContract
  <2>1. Awake(cycle[s]) BY <1>1 DEF IInv, Awaken
  <2>2. transport = "lost" /\ Live(s) =>
          cycle[s].disconnected \/ cycle[s].response_complete
    BY <1>1 DEF IInv, Told
  <2>3. cycle[s] \in Cycle BY <1>1 DEF IInv, CyclesTyped
  <2>4. QED BY <2>1, <2>2, <2>3 DEF Awake, Cycle
<1>2. QED BY <1>1, Invariance, PTL

(* The end of one stream closes the connection only when it is draining and no
   sibling is left: of all that counts a stream only on_stream_closed closes. *)
THEOREM SparesSiblings == Spec => EndSparesSiblings
<1> DEFINE Spares == transport = "open" /\ transport' = "closing"
                     /\ total_requests' # total_requests
                     => shutdown_requested /\ cycles' = {}
<1>1. ASSUME IInv, Next PROVE Spares
  <2> USE DEF streams, mode, OnStreamClosed, is_closing
  <2>1. Step BY <1>1, NextIsStep DEF IInv
  <2>2. CASE Frames
    BY <2>2 DEF Frames, DataReceived, HandleRequest, HandleData, HandleEndOfMessage,
       HandleRstStream, HandleGoAway, DataConsumed, InvalidFrame
  <2>3. CASE Environment
    BY <2>3 DEF Environment, ResumeWriting, EofReceived, ConnectionLost,
       KeepAliveTimeout, Shutdown
  <2>4. ASSUME NEW s \in Streams, NEW cs, OnResponse(s, cs) PROVE Spares
    BY <2>4 DEF OnResponse
  <2>5. ASSUME NEW s \in Streams,
               \/ Receive(s) \/ ReceiveWakes(s) \/ SendWaits(s) \/ Drained(s)
               \/ SendPart(s) \/ SendStart(s) \/ SendBodyBeforeTrailers(s)
        PROVE  Spares
    BY <2>5 DEF Receive, ReceiveWakes, SendWaits, Drained, SendPart, SendStart,
       SendBodyBeforeTrailers
  <2>6. ASSUME NEW s \in Streams, SendLast(s) PROVE Spares
    BY <2>4, <2>6 DEF SendLast
  <2>7. ASSUME NEW s \in Streams, EndOfTask(s) PROVE Spares
    <3>1. UNCHANGED total_requests \/ \E cs : OnResponse(s, cs)
      BY <2>7 DEF EndOfTask, HeadWaits, BodyWaits, Ends
    <3>2. QED BY <2>4, <3>1
  <2>8. QED BY <2>1, <2>2, <2>3, <2>5, <2>6, <2>7 DEF Step
<1>2. IInv /\ [Next]_vars => [Spares]_vars BY <1>1
<1>3. QED BY <1>2, Invariance, PTL DEF Spec, EndSparesSiblings
=============================================================================
