--------------------- MODULE HttpToolsConnectionProofs ---------------------
(***************************************************************************)
(* Proofs about HttpToolsConnection, for any number of pipelined requests, *)
(* any body sizes and any high-water mark.                                 *)
(***************************************************************************)
EXTENDS HttpToolsConnection, TLAPS

begun == cycle - Len(pipeline)

(* The pipeline holds exactly the newest cycles, oldest first. *)
PipelineShape ==
  /\ Len(pipeline) <= cycle
  /\ \A i \in 1..Len(pipeline) : pipeline[i] = begun + i

(* Which cycles are created, queued and started, and that only a started
   cycle has a response. *)
StageShape ==
  \A c \in Requests :
    /\ cycles[c].stage = "none" <=> c > cycle
    /\ cycles[c].stage = "queued" <=> begun < c /\ c <= cycle
    /\ Answered(c) => cycles[c].response_started
    /\ cycles[c].response_started => c <= begun
    /\ cycles[c].stage = "start_500" => ~cycles[c].response_started
    /\ cycles[c].stage = "body_500" => cycles[c].response_started /\ ~Answered(c)

(* Every cycle before the newest started one is answered, and that one is not
   while others wait for it on an open connection. *)
Progress ==
  /\ \A c \in Requests : c < begun => Answered(c)
  /\ transport = "open" /\ pipeline # <<>> => begun \in Requests /\ ~Answered(begun)

ParserShape ==
  /\ feeding => transport = "open" /\ ~keep_alive_timer /\ ~upgraded
  /\ parser = "message" => cycle \in Requests
  /\ parser = "head" => cycle < MaxRequests

TimerShape ==
  keep_alive_timer => pipeline = <<>> /\ (cycle \in Requests => Answered(cycle))

(* The responses counted are those of the started cycles. *)
Counting ==
  total_requests = IF begun \in Requests /\ ~Answered(begun) THEN begun - 1 ELSE begun

IInv ==
  /\ TypeOK
  /\ PipelineShape
  /\ StageShape
  /\ Progress
  /\ ParserShape
  /\ TimerShape
  /\ Counting

-----------------------------------------------------------------------------
(* Type correctness. *)

Cycles == [Requests -> Cycle]

(* The bounds are naturals. *)
LEMMA Bounds == MaxBody \in Nat /\ MaxRequests \in Nat
BY ConstantsAssumption

(* A new cycle is a record of type Cycle. *)
LEMMA NewCycleType ==
  ASSUME NEW stage \in Stages, NEW keep_alive \in BOOLEAN, NEW expect \in BOOLEAN
  PROVE  NewCycle(stage, keep_alive, expect) \in Cycle
BY SMTT(60), Bounds DEF NewCycle, Cycle

(* Delivering an event keeps cycles well typed. *)
LEMMA DeliveredType ==
  ASSUME NEW cs \in Cycles, NEW c \in Requests
  PROVE  Delivered(c, cs) \in Cycles
<1> DEFINE last == cs[c].end_received \/ ~cs[c].more_body
           r == [cs[c] EXCEPT !.message_event = FALSE, !.receiving = FALSE,
                              !.body = 0, !.end_received = last]
<1>1. last \in BOOLEAN BY SMTT(60) DEF Cycles, Cycle
<1>2. 0 \in 0..MaxBody BY Bounds
<1>3. cs[c] \in Cycle BY DEF Cycles
<1> HIDE DEF last
<1>4. r \in Cycle BY ZenonT(60), <1>1, <1>2, <1>3 DEF Cycle
<1>5. Delivered(c, cs) = [cs EXCEPT ![c] = r] BY DEF Delivered, last, Cycles
<1>6. QED BY <1>4, <1>5 DEF Cycles

(* Ending a cycle keeps cycles well typed. *)
LEMMA EndedType ==
  ASSUME NEW cs \in Cycles, NEW c \in Requests
  PROVE  Ended(c, cs) \in Cycles
<1> DEFINE r == [cs[c] EXCEPT !.stage = "done", !.receiving = FALSE]
<1>1. cs[c] \in Cycle BY DEF Cycles
<1>2. r \in Cycle BY ZenonT(60), <1>1 DEF Cycle, Stages
<1>3. Ended(c, cs) = [cs EXCEPT ![c] = r] BY DEF Ended, Cycles
<1> HIDE DEF r
<1>4. QED BY <1>2, <1>3 DEF Cycles

(* The initial state is well typed. *)
LEMMA InitType == ASSUME Init PROVE TypeOK
<1>1. NewCycle("none", TRUE, FALSE) \in Cycle BY NewCycleType DEF Stages
<1>2. cycles \in [Requests -> Cycle] BY <1>1 DEF Init
<1>3. cycle \in 0..MaxRequests BY Bounds DEF Init
<1>4. pipeline \in Seq(Requests) /\ total_requests \in Nat BY DEF Init
<1>5. QED BY <1>2, <1>3, <1>4 DEF Init, TypeOK

(* The parser callbacks keep every type; a callback for a message needs its cycle. *)
LEMMA ParseType == ASSUME TypeOK, ParserShape, Parse PROVE TypeOK'
<1> USE DEF TypeOK, requests, flow, mode
<1>1. CASE DataReceived BY <1>1 DEF DataReceived
<1>2. CASE OnMessageBegin BY <1>2 DEF OnMessageBegin
<1>3. ASSUME NEW keep_alive \in KeepAlives, NEW expect \in Expects,
             OnHeadersComplete(keep_alive, expect)
      PROVE  TypeOK'
  <2>1. keep_alive \in BOOLEAN /\ expect \in BOOLEAN BY ConstantsAssumption
  <2>2. cycle + 1 \in Requests /\ cycle + 1 \in 0..MaxRequests
    BY <1>3, Bounds DEF OnHeadersComplete, ParserShape, Requests
  <2>3. /\ NewCycle("running", keep_alive, expect) \in Cycle
        /\ NewCycle("queued", keep_alive, expect) \in Cycle
    BY <2>1, NewCycleType DEF Stages
  <2>4. cycles' \in [Requests -> Cycle] BY <1>3, <2>2, <2>3 DEF OnHeadersComplete
  <2>5. pipeline' \in Seq(Requests) BY <1>3, <2>2 DEF OnHeadersComplete
  <2>6. read_paused' \in BOOLEAN BY <1>3 DEF OnHeadersComplete
  <2>7. QED BY <1>3, <2>2, <2>4, <2>5, <2>6 DEF OnHeadersComplete
<1>4. CASE OnBody
  <2>1. cycle \in Requests BY <1>4 DEF OnBody, ParserShape
  <2>2. BodyAfterChunk \in 0..MaxBody
    <3>1. cycles[cycle].body \in 0..MaxBody BY SMTT(60), <2>1 DEF Cycle
    <3>2. QED BY <1>4, <3>1, Bounds DEF OnBody, BodyAfterChunk
  <2> DEFINE r == [cycles[cycle] EXCEPT !.body = BodyAfterChunk, !.message_event = TRUE]
  <2>3. r \in Cycle /\ cycles' = [cycles EXCEPT ![cycle] = r]
    BY ZenonT(60), <1>4, <2>1, <2>2 DEF OnBody, Cycle
  <2>4. read_paused' \in BOOLEAN BY <1>4 DEF OnBody
  <2>5. QED BY <1>4, <2>3, <2>4 DEF OnBody
<1>5. CASE OnMessageComplete
  <2>1. cycle \in Requests BY <1>5 DEF OnMessageComplete, ParserShape
  <2> DEFINE r == [cycles[cycle] EXCEPT !.more_body = FALSE, !.message_event = TRUE]
  <2>2. r \in Cycle BY ZenonT(60), <2>1 DEF Cycle
  <2>3. cycles' = cycles \/ cycles' = [cycles EXCEPT ![cycle] = r]
    BY <1>5 DEF OnMessageComplete
  <2>4. QED BY <1>5, <2>1, <2>2, <2>3 DEF OnMessageComplete
<1>6. CASE DataConsumed BY <1>6 DEF DataConsumed
<1>7. CASE InvalidRequest BY <1>7 DEF InvalidRequest, Closed, Write
<1>8. CASE HandleWebsocketUpgrade BY <1>8 DEF HandleWebsocketUpgrade
<1>9. QED BY <1>1, <1>2, <1>3, <1>4, <1>5, <1>6, <1>7, <1>8 DEF Parse

(* Completing a response keeps every type it touches. *)
LEMMA CompleteResponseType ==
  ASSUME TypeOK, NEW c \in Requests, NEW cs \in Cycles,
         CompleteResponse(c, cs), UNCHANGED <<cycle, mode>>, write_paused' \in BOOLEAN
  PROVE  TypeOK'
<1> DEFINE answered == [cs EXCEPT ![c].response_complete = TRUE, ![c].message_event = TRUE]
<1>1. answered \in Cycles BY ZenonT(60) DEF Cycles, Cycle
<1>2. total_requests' \in Nat BY DEF TypeOK, CompleteResponse
<1>3. transport' \in {"open", "closing", "lost"} BY DEF TypeOK, CompleteResponse, Closed
<1> HIDE DEF answered
<1>4. CASE OnResponseComplete(answered)
  <2>1. CASE pipeline = <<>>
    BY <1>1, <1>2, <1>3, <1>4, <2>1 DEF OnResponseComplete, TypeOK, Cycles, mode
  <2>2. CASE pipeline # <<>>
    <3>1. Head(pipeline) \in Requests /\ Tail(pipeline) \in Seq(Requests)
      BY <2>2 DEF TypeOK
    <3> DEFINE r == [answered[Head(pipeline)] EXCEPT !.stage = "running"]
    <3>2. r \in Cycle BY ZenonT(60), <1>1, <3>1 DEF Cycles, Cycle, Stages
    <3>3. cycles' = [answered EXCEPT ![Head(pipeline)] = r]
      BY <1>4, <2>2 DEF OnResponseComplete
    <3>4. cycles' \in [Requests -> Cycle] BY <1>1, <3>1, <3>2, <3>3 DEF Cycles
    <3>5. pipeline' \in Seq(Requests) /\ read_paused' \in BOOLEAN
          /\ keep_alive_timer' \in BOOLEAN
      BY <1>4, <2>2, <3>1 DEF OnResponseComplete
    <3>6. QED BY <1>2, <1>3, <3>4, <3>5 DEF TypeOK, mode
  <2>3. QED BY <2>1, <2>2
<1>5. CASE cycles' = answered /\ UNCHANGED <<pipeline, keep_alive_timer, read_paused>>
  BY <1>1, <1>2, <1>3, <1>5 DEF TypeOK, Cycles, mode
<1>6. QED BY <1>4, <1>5 DEF CompleteResponse, answered

(* So does send_500_response, in each of its three outcomes. *)
LEMMA Send500Type ==
  ASSUME TypeOK, NEW c \in Requests, Send500(c), UNCHANGED <<cycle, mode>>
  PROVE  TypeOK'
<1> DEFINE r == [cycles[c] EXCEPT !.response_started = TRUE,
                                  !.waiting_for_100_continue = FALSE,
                                  !.keep_alive = FALSE, !.receiving = FALSE]
           head == [cycles EXCEPT ![c] = r]
<1>1. cycles \in Cycles BY DEF TypeOK, Cycles
<1>2. r \in Cycle /\ head \in Cycles BY ZenonT(60), <1>1 DEF Cycles, Cycle
<1>3. [head EXCEPT ![c].stage = "body_500"] \in Cycles
  BY ZenonT(60), <1>2 DEF Cycles, Cycle, Stages
<1>4. Ended(c, cycles) \in Cycles /\ Ended(c, head) \in Cycles BY <1>1, <1>2, EndedType
<1>5. \/ /\ cycles' = Ended(c, cycles)
         /\ UNCHANGED <<pipeline, keep_alive_timer, total_requests, flow, transport>>
      \/ /\ Write
         /\ cycles' = [head EXCEPT ![c].stage = "body_500"]
         /\ UNCHANGED <<pipeline, keep_alive_timer, total_requests, read_paused, transport>>
      \/ Write /\ CompleteResponse(c, Ended(c, head))
  BY DEF Send500
<1> HIDE DEF head, r
<1>6. Write => write_paused' \in BOOLEAN BY DEF Write, TypeOK
<1>7. CASE Write /\ CompleteResponse(c, Ended(c, head))
  BY <1>4, <1>6, <1>7, CompleteResponseType
<1>8. QED BY <1>3, <1>4, <1>5, <1>6, <1>7 DEF TypeOK, Cycles, flow, mode

(* And so does the choice between sending it and waiting in drain(). *)
LEMMA RespondWith500Type ==
  ASSUME TypeOK, NEW c \in Requests, RespondWith500(c), UNCHANGED <<cycle, mode>>
  PROVE  TypeOK'
<1>1. CASE CanSend(c) BY <1>1, Send500Type DEF RespondWith500
<1>2. CASE ~CanSend(c)
  <2> DEFINE r == [cycles[c] EXCEPT !.stage = "start_500", !.receiving = FALSE]
  <2>1. r \in Cycle BY ZenonT(60) DEF TypeOK, Cycle, Stages
  <2>2. cycles' = [cycles EXCEPT ![c] = r] BY <1>2 DEF RespondWith500
  <2>3. QED BY <1>2, <2>1, <2>2 DEF RespondWith500, TypeOK, flow, mode
<1>3. QED BY <1>1, <1>2

(* The application and the end of its task keep every type. *)
LEMMA AppType ==
  ASSUME TypeOK, NEW c \in Requests, App(c)
  PROVE  TypeOK'
<1> USE DEF requests, flow, mode
<1>1. cycles \in Cycles /\ cycles[c] \in Cycle BY DEF TypeOK, Cycles
<1>2. Write => write_paused' \in BOOLEAN BY DEF Write, TypeOK
<1>3. Ended(c, cycles) \in Cycles BY <1>1, EndedType
<1>4. Closed \in {"open", "closing", "lost"} BY DEF Closed, TypeOK
<1>5. CASE Receive(c)
  <2> DEFINE waits == cycles[c].waiting_for_100_continue /\ is_closing
             r == [cycles[c] EXCEPT !.waiting_for_100_continue = waits]
             cs == [cycles EXCEPT ![c] = r]
  <2>1. waits \in BOOLEAN BY SMTT(60), <1>1 DEF Cycle
  <2>2. cycles' = IF cs[c].message_event THEN Delivered(c, cs)
                  ELSE [cs EXCEPT ![c].receiving = TRUE]
    BY <1>5 DEF Receive
  <2> HIDE DEF waits
  <2>3. r \in Cycle BY SMTT(60), <1>1, <2>1 DEF Cycle
  <2>4. cs \in Cycles BY <1>1, <2>3 DEF Cycles
  <2> HIDE DEF cs, r
  <2>5. [cs EXCEPT ![c].receiving = TRUE] \in Cycles BY ZenonT(60), <2>4 DEF Cycles, Cycle
  <2>6. cycles' \in Cycles BY <2>2, <2>4, <2>5, DeliveredType
  <2>7. write_paused' \in BOOLEAN BY <1>2, <1>5 DEF Receive, TypeOK
  <2>8. QED BY <1>5, <2>6, <2>7 DEF Receive, TypeOK, Cycles
<1>6. CASE ReceiveWakes(c)
  <2>1. [cycles EXCEPT ![c].message_event = FALSE, ![c].receiving = FALSE] \in Cycles
    BY ZenonT(60), <1>1 DEF Cycles, Cycle
  <2>2. cycles' \in Cycles BY <1>1, <1>6, <2>1, DeliveredType DEF ReceiveWakes
  <2>3. QED BY <1>6, <2>2 DEF ReceiveWakes, TypeOK, Cycles
<1>7. CASE SendStart(c) \/ SendInvalidStart(c)
  <2>1. PICK closes \in BOOLEAN :
          cycles' = [cycles EXCEPT ![c].response_started = TRUE,
                                   ![c].waiting_for_100_continue = FALSE,
                                   ![c].keep_alive = @ /\ ~closes]
    BY <1>7 DEF SendStart, SendInvalidStart
  <2> DEFINE stays == cycles[c].keep_alive /\ ~closes
             r == [cycles[c] EXCEPT !.response_started = TRUE,
                     !.waiting_for_100_continue = FALSE, !.keep_alive = stays]
  <2>2. stays \in BOOLEAN BY SMTT(60), <1>1 DEF Cycle
  <2>3. cycles' = [cycles EXCEPT ![c] = r] BY <2>1
  <2> HIDE DEF stays
  <2>4. r \in Cycle BY ZenonT(60), <1>1, <2>2 DEF Cycle
  <2>5. cycles' \in Cycles BY <1>1, <2>3, <2>4 DEF Cycles
  <2>6. write_paused' \in BOOLEAN
    BY <1>2, <1>7 DEF SendStart, SendInvalidStart, TypeOK
  <2>7. QED BY <1>7, <2>5, <2>6 DEF SendStart, SendInvalidStart, TypeOK, Cycles
<1>8. CASE SendBody(c) BY <1>2, <1>8 DEF SendBody, TypeOK
<1>9. CASE SendLastBody(c)
  BY <1>1, <1>2, <1>9, CompleteResponseType DEF SendLastBody
<1>10. CASE AppRaises(c)
  <2>1. CASE cycles[c].response_started
    BY <1>3, <1>4, <1>10, <2>1 DEF AppRaises, TypeOK, Cycles
  <2>2. CASE ~cycles[c].response_started
    BY <1>10, <2>2, RespondWith500Type DEF AppRaises
  <2>3. QED BY <2>1, <2>2
<1>11. CASE AppReturns(c)
  <2>1. CASE ~cycles[c].response_started /\ ~cycles[c].disconnected
    BY <1>11, <2>1, RespondWith500Type DEF AppReturns
  <2>2. CASE ~(~cycles[c].response_started /\ ~cycles[c].disconnected)
    BY <1>3, <1>4, <1>11, <2>2 DEF AppReturns, TypeOK, Cycles
  <2>3. QED BY <2>1, <2>2
<1>12. CASE AppReturnsValue(c)
  BY <1>3, <1>4, <1>12 DEF AppReturnsValue, TypeOK, Cycles
<1>13. CASE Resume500(c)
  <2>1. CASE Send500(c) BY <1>13, <2>1, Send500Type DEF Resume500
  <2>2. CASE /\ cycles' = Ended(c, cycles)
             /\ UNCHANGED <<pipeline, keep_alive_timer, total_requests, flow, transport>>
    BY <1>3, <1>13, <2>2 DEF Resume500, TypeOK, Cycles
  <2>3. CASE Write /\ CompleteResponse(c, Ended(c, cycles))
    BY <1>2, <1>3, <1>13, <2>3, CompleteResponseType DEF Resume500
  <2>4. QED BY <1>13, <2>1, <2>2, <2>3 DEF Resume500
<1>14. QED
  BY <1>5, <1>6, <1>7, <1>8, <1>9, <1>10, <1>11, <1>12, <1>13 DEF App

(* The transport, the timer and the server keep every type. *)
LEMMA EnvironmentType == ASSUME TypeOK, Environment PROVE TypeOK'
<1> USE DEF TypeOK, requests, flow, mode
<1>1. CASE ResumeWriting BY <1>1 DEF ResumeWriting
<1>2. CASE EofReceived BY <1>2 DEF EofReceived
<1>3. ASSUME NEW exc \in BOOLEAN, ConnectionLost(exc) PROVE TypeOK'
  <2> DEFINE lost == cycles[cycle].disconnected \/ ~cycles[cycle].response_complete
             r == [cycles[cycle] EXCEPT !.disconnected = lost, !.message_event = TRUE]
  <2>1. ASSUME cycle # 0 PROVE cycles' \in [Requests -> Cycle]
    <3>1. cycle \in Requests BY <2>1, Bounds DEF Requests
    <3>2. lost \in BOOLEAN BY SMTT(60), <3>1 DEF Cycle
    <3>3. cycles' = [cycles EXCEPT ![cycle] = r] BY <1>3, <2>1 DEF ConnectionLost
    <3> HIDE DEF lost
    <3>4. r \in Cycle BY ZenonT(60), <3>1, <3>2 DEF Cycle
    <3>5. QED BY <3>1, <3>3, <3>4
  <2>2. cycles' \in [Requests -> Cycle] BY <1>3, <2>1 DEF ConnectionLost
  <2>3. QED BY <1>3, <2>2 DEF ConnectionLost
<1>4. CASE KeepAliveTimeout BY <1>4 DEF KeepAliveTimeout, Closed
<1>5. CASE Shutdown
  <2> DEFINE r == [cycles[cycle] EXCEPT !.keep_alive = FALSE]
  <2>1. ASSUME ~NewestAnswered PROVE cycles' \in [Requests -> Cycle]
    <3>1. cycle \in Requests BY <2>1, Bounds DEF NewestAnswered, Requests
    <3>2. r \in Cycle BY ZenonT(60), <3>1 DEF Cycle
    <3>3. cycles' = [cycles EXCEPT ![cycle] = r] BY <1>5, <2>1 DEF Shutdown
    <3>4. QED BY <3>1, <3>2, <3>3
  <2>2. cycles' \in [Requests -> Cycle] BY <1>5, <2>1 DEF Shutdown
  <2>3. transport' \in {"open", "closing", "lost"} BY <1>5 DEF Shutdown, Closed
  <2>4. QED BY <1>5, <2>2, <2>3 DEF Shutdown
<1>6. CASE WebSocketTransport BY <1>6 DEF WebSocketTransport
<1>7. QED BY <1>1, <1>2, <1>3, <1>4, <1>5, <1>6 DEF Environment

-----------------------------------------------------------------------------
(* The rest of the inductive invariant.  Two kinds of step: those that answer
   nothing, and those that go through CompleteResponse. *)

(* cs differs from cycles at most in the fields the invariant does not speak of,
   in how far a started cycle has come, and in a response being started. *)
AnswersNothing(cs) ==
  \A d \in Requests :
    /\ cs[d].response_complete <=> cycles[d].response_complete
    /\ cs[d].stage = "none" <=> cycles[d].stage = "none"
    /\ cs[d].stage = "queued" <=> cycles[d].stage = "queued"
    /\ cycles[d].response_started => cs[d].response_started
    /\ cs[d].response_started => cycles[d].response_started \/ Started(d)
    /\ cs[d].stage = "start_500" => ~cs[d].response_started
    /\ cs[d].stage = "body_500" => cs[d].response_started /\ ~cs[d].response_complete

Shape == PipelineShape /\ StageShape /\ Progress /\ TimerShape /\ Counting

(* A started cycle is one that has arrived and has left the pipeline. *)
LEMMA StartedRange ==
  ASSUME TypeOK, PipelineShape, StageShape, NEW c \in Requests
  PROVE  Started(c) <=> c <= begun
<1>1. cycle \in Int /\ begun \in Int /\ begun <= cycle /\ c \in Int
  BY Bounds DEF TypeOK, begun, PipelineShape, Requests
<1>2. QED BY <1>1 DEF StageShape, Started

(* A step that answers nothing and starts nothing keeps the shape. *)
LEMMA AnswersNothingShape ==
  ASSUME IInv, AnswersNothing(cycles'), UNCHANGED <<cycle, pipeline, total_requests>>,
         transport' = "open" => transport = "open",
         keep_alive_timer' => keep_alive_timer
  PROVE  Shape'
<1>1. begun' = begun BY DEF begun
<1>2. PipelineShape' BY <1>1 DEF IInv, PipelineShape
<1>3. \A c \in Requests : Answered(c)' <=> Answered(c) BY DEF AnswersNothing, Answered
<1>4. StageShape'
  <2>1. \A c \in Requests : Started(c) <=> c <= begun BY StartedRange DEF IInv
  <2>2. QED BY <1>1, <1>3, <2>1 DEF AnswersNothing, StageShape, IInv, Answered
<1>5. Progress' BY <1>1, <1>3 DEF Progress, IInv
<1>6. TimerShape' BY <1>3 DEF TimerShape, IInv
<1>7. Counting' BY <1>1, <1>3 DEF Counting, IInv
<1>8. QED BY <1>2, <1>4, <1>5, <1>6, <1>7 DEF Shape

(* The only unanswered cycle that was started is the newest started one. *)
LEMMA UnansweredIsNewest ==
  ASSUME IInv, NEW c \in Requests, Started(c), ~Answered(c)
  PROVE  c = begun
<1>1. c <= begun BY StartedRange DEF IInv
<1>2. ~(c < begun) BY DEF IInv, Progress
<1>3. c \in Int /\ begun \in Int BY Bounds DEF IInv, TypeOK, begun, Requests
<1>4. QED BY <1>1, <1>2, <1>3

(* Completing the response of the started, unanswered cycle keeps the shape: the
   heart of the argument, where the head of the pipeline is started. *)
LEMMA CompleteResponseShape ==
  ASSUME IInv, TypeOK', NEW c \in Requests, NEW cs \in Cycles, AnswersNothing(cs),
         Started(c), ~Answered(c), cs[c].response_started, cs[c].stage # "body_500",
         CompleteResponse(c, cs), cycle' = cycle
  PROVE  Shape'
<1> DEFINE answered == [cs EXCEPT ![c].response_complete = TRUE, ![c].message_event = TRUE]
<1>1. c = begun BY UnansweredIsNewest
<1>2. /\ begun \in Requests /\ begun \in Int /\ cycle \in Int /\ Len(pipeline) \in Nat
      /\ begun + Len(pipeline) = cycle /\ pipeline \in Seq(Requests)
  BY <1>1, Bounds DEF IInv, TypeOK, begun, Requests
<1>3. \A d \in Requests :
        /\ answered[d].stage = cs[d].stage
        /\ answered[d].response_started <=> cs[d].response_started
        /\ answered[d].response_complete <=> (d = c \/ cycles[d].response_complete)
  BY SMTT(60) DEF Cycles, Cycle, AnswersNothing
<1>4. total_requests' = begun
  BY <1>1, <1>2 DEF CompleteResponse, IInv, Counting
<1>5. \A d \in Requests : Started(d) <=> d <= begun BY StartedRange DEF IInv
<1> HIDE DEF answered
<1>6. ASSUME cycles' = answered, UNCHANGED pipeline,
             transport' # "open" \/ pipeline = <<>>,
             keep_alive_timer' => pipeline = <<>>
      PROVE  Shape'
  <2>1. begun' = begun BY <1>6 DEF begun
  <2>2. \A d \in Requests : Answered(d)' <=> (d = c \/ Answered(d))
    BY <1>3, <1>6 DEF Answered
  <2>3. PipelineShape' BY <1>6, <2>1 DEF IInv, PipelineShape
  <2>4. StageShape'
    BY <1>1, <1>3, <1>5, <1>6, <2>1, <2>2 DEF StageShape, IInv, AnswersNothing, Answered
  <2>5. Progress' BY <1>6, <2>1, <2>2 DEF Progress, IInv
  <2>6. TimerShape'
    <3>1. pipeline = <<>> => begun = cycle BY <1>2
    <3>2. QED BY <1>1, <1>6, <2>2, <3>1 DEF TimerShape
  <2>7. Counting' BY <1>1, <1>2, <1>4, <2>1, <2>2 DEF Counting
  <2>8. QED BY <2>3, <2>4, <2>5, <2>6, <2>7 DEF Shape
<1>7. ASSUME pipeline # <<>>, OnResponseComplete(answered) PROVE Shape'
  <2>0. PICK next \in Requests : next = Head(pipeline)
    <3>1. Head(pipeline) \in Requests BY <1>2, <1>7
    <3>2. QED BY <3>1
  <2>1. next = begun + 1 /\ next \in Requests /\ Len(pipeline) > 0
    <3>1. next = pipeline[1] BY <1>2, <1>7, <2>0
    <3>2. 1 \in 1..Len(pipeline) BY <1>2, <1>7
    <3>3. QED BY <1>2, <3>1, <3>2 DEF IInv, PipelineShape
  <2>2. pipeline' = Tail(pipeline) /\ cycles' = [answered EXCEPT ![next].stage = "running"]
    BY <1>7, <2>0 DEF OnResponseComplete
  <2>3. Len(pipeline') = Len(pipeline) - 1 /\ begun' = begun + 1
    BY <1>2, <2>1, <2>2 DEF begun
  <2>4. \A i \in 1..Len(pipeline') : pipeline'[i] = pipeline[i + 1]
    BY <1>2, <2>1, <2>2
  <2>5. PipelineShape'
    <3>1. \A i \in 1..Len(pipeline') : pipeline[i + 1] = begun + (i + 1)
      BY <1>2, <2>3 DEF IInv, PipelineShape
    <3>2. \A i \in 1..Len(pipeline') : pipeline'[i] = begun' + i
      BY <1>2, <2>3, <2>4, <3>1
    <3>3. Len(pipeline') <= cycle' BY <1>2, <2>3 DEF IInv, PipelineShape
    <3>4. QED BY <3>2, <3>3 DEF PipelineShape
  <2>6. \A d \in Requests :
          /\ cycles'[d].stage = IF d = next THEN "running" ELSE cs[d].stage
          /\ cycles'[d].response_started <=> cs[d].response_started
          /\ cycles'[d].response_complete <=> (d = c \/ cycles[d].response_complete)
    <3>1. answered \in [Requests -> Cycle] BY ZenonT(60) DEF answered, Cycles, Cycle
    <3>2. QED BY SMTT(60), <1>3, <2>1, <2>2, <3>1 DEF Cycle
  <2>7. \A d \in Requests : Answered(d)' <=> (d = c \/ Answered(d))
    BY <2>6 DEF Answered
  <2>8. cycles[next].stage = "queued" /\ ~Answered(next)
    <3>1. begun < next /\ next <= cycle BY <1>2, <2>1
    <3>2. QED BY <2>1, <3>1, <1>2 DEF IInv, StageShape
  <2>9. StageShape'
    <3> SUFFICES ASSUME NEW d \in Requests
                 PROVE /\ cycles'[d].stage = "none" <=> d > cycle'
                       /\ cycles'[d].stage = "queued" <=> begun' < d /\ d <= cycle'
                       /\ Answered(d)' => cycles'[d].response_started
                       /\ cycles'[d].response_started => d <= begun'
                       /\ cycles'[d].stage = "start_500" => ~cycles'[d].response_started
                       /\ cycles'[d].stage = "body_500" =>
                            cycles'[d].response_started /\ ~Answered(d)'
      BY DEF StageShape
    <3>1. d \in Int BY DEF Requests
    <3>2. /\ cycles[d].stage = "none" <=> d > cycle
          /\ cycles[d].stage = "queued" <=> begun < d /\ d <= cycle
          /\ Answered(d) => cycles[d].response_started
          /\ cycles[d].response_started => d <= begun
      BY DEF IInv, StageShape
    <3>3. Started(d) <=> d <= begun BY <1>5
    <3>4. /\ cs[d].response_complete <=> cycles[d].response_complete
          /\ cs[d].stage = "none" <=> cycles[d].stage = "none"
          /\ cs[d].stage = "queued" <=> cycles[d].stage = "queued"
          /\ cycles[d].response_started => cs[d].response_started
          /\ cs[d].response_started => cycles[d].response_started \/ Started(d)
          /\ cs[d].stage = "start_500" => ~cs[d].response_started
          /\ cs[d].stage = "body_500" => cs[d].response_started /\ ~cs[d].response_complete
      BY DEF AnswersNothing
    <3>5. Answered(d)' <=> (d = c \/ Answered(d)) BY <2>7
    <3>6. CASE d = next
      BY <1>1, <1>2, <2>1, <2>3, <2>6, <2>8, <3>1, <3>2, <3>3, <3>4, <3>5, <3>6
    <3>7. CASE d # next
      BY <1>1, <1>2, <2>1, <2>3, <2>6, <3>1, <3>2, <3>3, <3>4, <3>5, <3>7
         DEF Answered
    <3>8. QED BY <3>6, <3>7
  <2>10. Progress'
    <3>1. \A d \in Requests : d < begun' => Answered(d)'
      BY <1>1, <1>2, <2>3, <2>7 DEF IInv, Progress, Requests
    <3>2. begun' = next /\ ~Answered(next)'
      BY <1>1, <1>2, <2>1, <2>3, <2>7, <2>8
    <3>3. QED BY <2>1, <3>1, <3>2 DEF Progress
  <2>11. TimerShape' BY <1>7 DEF OnResponseComplete, TimerShape
  <2>12. Counting'
    BY <1>1, <1>2, <1>4, <2>1, <2>3, <2>7, <2>8 DEF Counting
  <2>13. QED BY <2>5, <2>9, <2>10, <2>11, <2>12 DEF Shape
<1>8. CASE is_closing \/ ~cs[c].keep_alive
  <2>1. transport' # "open"
    BY <1>8 DEF CompleteResponse, is_closing, Closed
  <2>2. cycles' = answered /\ UNCHANGED <<pipeline, keep_alive_timer>>
    BY <1>8 DEF CompleteResponse, answered
  <2>3. keep_alive_timer' => pipeline = <<>> BY <2>2 DEF IInv, TimerShape
  <2>4. QED BY <1>6, <2>1, <2>2, <2>3
<1>9. CASE ~(is_closing \/ ~cs[c].keep_alive)
  <2>1. OnResponseComplete(answered) BY <1>9 DEF CompleteResponse, answered
  <2>2. CASE pipeline = <<>> BY <1>6, <2>1, <2>2 DEF OnResponseComplete
  <2>3. CASE pipeline # <<>> BY <1>7, <2>1, <2>3
  <2>4. QED BY <2>2, <2>3
<1>10. QED BY <1>8, <1>9

(* The inductive invariant holds initially. *)
LEMMA InitInv == ASSUME Init PROVE IInv
<1>1. TypeOK BY InitType
<1>2. /\ cycle = 0 /\ Len(pipeline) = 0 /\ begun = 0 /\ pipeline = <<>>
      /\ \A c \in Requests : /\ cycles[c].stage = "none"
                              /\ ~cycles[c].response_started /\ ~Answered(c)
      /\ \A c \in Requests : c > 0
  <2>1. \A c \in Requests : cycles[c] = NewCycle("none", TRUE, FALSE) BY DEF Init
  <2>2. \A c \in Requests : /\ cycles[c].stage = "none"
                            /\ ~cycles[c].response_started /\ ~Answered(c)
    BY <2>1 DEF NewCycle, Answered
  <2>3. cycle = 0 /\ Len(pipeline) = 0 /\ begun = 0 /\ pipeline = <<>>
    <3>1. cycle = 0 BY DEF Init
    <3>2. pipeline = <<>> BY DEF Init
    <3>3. Len(pipeline) = 0 BY <3>2
    <3>4. begun = 0 BY <3>1, <3>3 DEF begun
    <3>5. QED BY <3>1, <3>2, <3>3, <3>4
  <2>4. QED BY <2>2, <2>3, Bounds DEF Requests
<1>3. PipelineShape BY <1>2 DEF PipelineShape
<1>4. StageShape BY <1>2 DEF StageShape, Requests
<1>5. Progress BY <1>2 DEF Progress, Requests
<1>6. ParserShape BY DEF ParserShape, Init
<1>7. TimerShape BY DEF TimerShape, Init
<1>8. Counting BY <1>2 DEF Counting, Requests, Init
<1>9. QED BY <1>1, <1>3, <1>4, <1>5, <1>6, <1>7, <1>8 DEF IInv

(* The three ways a step can leave cycles: unchanged, changed in one cycle in
   fields the invariant does not speak of, or ended. *)
LEMMA SameAnswersNothing ==
  ASSUME IInv, NEW cs,
         \A d \in Requests : /\ cs[d].stage = cycles[d].stage
                             /\ cs[d].response_started <=> cycles[d].response_started
                             /\ cs[d].response_complete <=> cycles[d].response_complete
  PROVE  AnswersNothing(cs)
BY DEF IInv, StageShape, AnswersNothing, Answered

(* Ending an answered or abandoned cycle answers nothing. *)
LEMMA EndedAnswersNothing ==
  ASSUME IInv, NEW c \in Requests, Started(c), NEW cs \in Cycles, AnswersNothing(cs)
  PROVE  AnswersNothing(Ended(c, cs))
BY SMTT(60) DEF AnswersNothing, Ended, Started, Cycles, Cycle

(* send_500_response keeps the shape. *)
LEMMA Send500Shape ==
  ASSUME IInv, TypeOK', NEW c \in Requests, Started(c), ~cycles[c].response_started,
         Send500(c), UNCHANGED <<cycle, mode>>
  PROVE  Shape'
<1> DEFINE r == [cycles[c] EXCEPT !.response_started = TRUE,
                                  !.waiting_for_100_continue = FALSE,
                                  !.keep_alive = FALSE, !.receiving = FALSE]
           head == [cycles EXCEPT ![c] = r]
           alone == [head EXCEPT ![c].stage = "body_500"]
<1>1. cycles \in Cycles BY DEF IInv, TypeOK, Cycles
<1>2. ~Answered(c) BY DEF IInv, StageShape
<1>3. r \in Cycle /\ head \in Cycles BY ZenonT(60), <1>1 DEF Cycles, Cycle
<1>4. AnswersNothing(cycles) BY SameAnswersNothing
<1>5. \A d \in Requests :
        /\ head[d].stage = cycles[d].stage
        /\ head[d].response_started <=> (d = c \/ cycles[d].response_started)
        /\ head[d].response_complete <=> cycles[d].response_complete
  BY SMTT(60), <1>1 DEF Cycles, Cycle
<1>6. \A d \in Requests :
        /\ alone[d].stage = IF d = c THEN "body_500" ELSE cycles[d].stage
        /\ alone[d].response_started <=> (d = c \/ cycles[d].response_started)
        /\ alone[d].response_complete <=> cycles[d].response_complete
  BY SMTT(60), <1>1 DEF Cycles, Cycle
<1>7. Ended(c, head) \in Cycles BY <1>3, EndedType
<1>8. \/ /\ cycles' = Ended(c, cycles)
         /\ UNCHANGED <<pipeline, keep_alive_timer, total_requests, transport>>
      \/ /\ cycles' = alone
         /\ UNCHANGED <<pipeline, keep_alive_timer, total_requests, transport>>
      \/ CompleteResponse(c, Ended(c, head))
  BY DEF Send500
<1> HIDE DEF r, head, alone
<1>9. CASE cycles' = Ended(c, cycles)
           /\ UNCHANGED <<pipeline, keep_alive_timer, total_requests, transport>>
  <2>1. AnswersNothing(cycles') BY <1>1, <1>4, <1>9, EndedAnswersNothing
  <2>2. QED BY <1>9, <2>1, AnswersNothingShape
<1>10. CASE cycles' = alone
            /\ UNCHANGED <<pipeline, keep_alive_timer, total_requests, transport>>
  <2>1. AnswersNothing(alone)
    BY <1>2, <1>4, <1>6 DEF AnswersNothing, Started, Answered
  <2>2. QED BY <1>10, <2>1, AnswersNothingShape
<1>11. CASE CompleteResponse(c, Ended(c, head))
  <2>1. \A d \in Requests :
          /\ Ended(c, head)[d].stage = IF d = c THEN "done" ELSE head[d].stage
          /\ Ended(c, head)[d].response_started <=> head[d].response_started
          /\ Ended(c, head)[d].response_complete <=> head[d].response_complete
    BY SMTT(60), <1>3 DEF Ended, Cycles, Cycle
  <2>2. AnswersNothing(Ended(c, head))
    BY <1>4, <1>5, <2>1 DEF AnswersNothing, Started
  <2>3. Ended(c, head)[c].response_started /\ Ended(c, head)[c].stage # "body_500"
    BY <1>5, <2>1
  <2>4. QED BY <1>2, <1>7, <1>11, <2>2, <2>3, CompleteResponseShape
<1>12. QED BY <1>8, <1>9, <1>10, <1>11

(* As it does when it first has to wait in drain(). *)
LEMMA RespondWith500Shape ==
  ASSUME IInv, TypeOK', NEW c \in Requests, Started(c), ~cycles[c].response_started,
         RespondWith500(c), UNCHANGED <<cycle, mode>>
  PROVE  Shape'
<1>1. CASE CanSend(c) BY <1>1, Send500Shape DEF RespondWith500
<1>2. CASE ~CanSend(c)
  <2>1. \A d \in Requests :
          /\ cycles'[d].stage = IF d = c THEN "start_500" ELSE cycles[d].stage
          /\ cycles'[d].response_started <=> cycles[d].response_started
          /\ cycles'[d].response_complete <=> cycles[d].response_complete
    BY SMTT(60), <1>2 DEF RespondWith500, IInv, TypeOK, Cycle
  <2>2. AnswersNothing(cycles) BY SameAnswersNothing
  <2>3. AnswersNothing(cycles') BY <2>1, <2>2 DEF AnswersNothing, Started
  <2>4. QED BY <1>2, <2>3, AnswersNothingShape DEF RespondWith500
<1>3. QED BY <1>1, <1>2

(* The application and the end of its task keep the shape. *)
LEMMA AppShape ==
  ASSUME IInv, TypeOK', NEW c \in Requests, App(c)
  PROVE  Shape'
<1>1. cycles \in Cycles BY DEF IInv, TypeOK, Cycles
<1>2. AnswersNothing(cycles) BY SameAnswersNothing
<1>3. Running(c) => Started(c) BY DEF Running, Started
<1>4. Started(c) => AnswersNothing(Ended(c, cycles)) BY <1>1, <1>2, EndedAnswersNothing
<1>5. \A d \in Requests, cs \in Cycles :
        /\ Delivered(c, cs)[d].stage = cs[d].stage
        /\ Delivered(c, cs)[d].response_started <=> cs[d].response_started
        /\ Delivered(c, cs)[d].response_complete <=> cs[d].response_complete
  BY SMTT(60) DEF Delivered, Cycles, Cycle
<1>6. CASE Receive(c)
  <2> DEFINE waits == cycles[c].waiting_for_100_continue /\ is_closing
             cs == [cycles EXCEPT ![c].waiting_for_100_continue = waits]
  <2>1. waits \in BOOLEAN BY SMTT(60), <1>1 DEF Cycles, Cycle
  <2>2. cycles' = IF cs[c].message_event THEN Delivered(c, cs)
                  ELSE [cs EXCEPT ![c].receiving = TRUE]
    BY <1>6 DEF Receive
  <2> HIDE DEF waits
  <2>3. cs \in Cycles BY SMTT(60), <1>1, <2>1 DEF Cycles, Cycle
  <2>4. \A d \in Requests :
          /\ cs[d].stage = cycles[d].stage
          /\ cs[d].response_started <=> cycles[d].response_started
          /\ cs[d].response_complete <=> cycles[d].response_complete
    BY SMTT(60), <1>1 DEF Cycles, Cycle
  <2> HIDE DEF cs
  <2>5. \A d \in Requests :
          /\ cycles'[d].stage = cs[d].stage
          /\ cycles'[d].response_started <=> cs[d].response_started
          /\ cycles'[d].response_complete <=> cs[d].response_complete
    <3>1. CASE cs[c].message_event BY <1>5, <2>2, <2>3, <3>1
    <3>2. CASE ~cs[c].message_event BY SMTT(60), <2>2, <2>3, <3>2 DEF Cycles, Cycle
    <3>3. QED BY <3>1, <3>2
  <2>6. AnswersNothing(cycles') BY <2>4, <2>5, SameAnswersNothing
  <2>7. QED BY <1>6, <2>6, AnswersNothingShape DEF Receive
<1>7. CASE ReceiveWakes(c)
  <2>1. \A d \in Requests :
          /\ cycles'[d].stage = cycles[d].stage
          /\ cycles'[d].response_started <=> cycles[d].response_started
          /\ cycles'[d].response_complete <=> cycles[d].response_complete
    <3>1. CASE cycles[c].disconnected \/ cycles[c].response_complete
      BY SMTT(60), <1>1, <1>7, <3>1 DEF ReceiveWakes, Cycles, Cycle
    <3>2. CASE ~(cycles[c].disconnected \/ cycles[c].response_complete)
      BY <1>1, <1>5, <1>7, <3>2 DEF ReceiveWakes
    <3>3. QED BY <3>1, <3>2
  <2>2. AnswersNothing(cycles') BY <2>1, SameAnswersNothing
  <2>3. QED BY <1>7, <2>2, AnswersNothingShape DEF ReceiveWakes
<1>8. CASE SendStart(c) \/ SendInvalidStart(c)
  <2>1. PICK closes \in BOOLEAN :
          cycles' = [cycles EXCEPT ![c].response_started = TRUE,
                                   ![c].waiting_for_100_continue = FALSE,
                                   ![c].keep_alive = @ /\ ~closes]
    BY <1>8 DEF SendStart, SendInvalidStart
  <2>2. \A d \in Requests :
          /\ cycles'[d].stage = cycles[d].stage
          /\ cycles'[d].response_started <=> (d = c \/ cycles[d].response_started)
          /\ cycles'[d].response_complete <=> cycles[d].response_complete
    BY SMTT(60), <1>1, <2>1 DEF Cycles, Cycle
  <2>3. cycles[c].stage = "running"
    BY <1>8 DEF SendStart, SendInvalidStart, Sends, Running
  <2>4. AnswersNothing(cycles') BY <1>2, <2>2, <2>3 DEF AnswersNothing, Started
  <2>5. QED BY <1>8, <2>4, AnswersNothingShape DEF SendStart, SendInvalidStart
<1>9. CASE SendBody(c)
  BY <1>2, <1>9, AnswersNothingShape DEF SendBody, requests
<1>10. CASE SendLastBody(c)
  <2>1. Started(c) /\ ~Answered(c) /\ cycles[c].response_started
        /\ cycles[c].stage # "body_500"
    BY <1>3, <1>10 DEF SendLastBody, Sends, Running, Answered
  <2>2. QED BY <1>1, <1>2, <1>10, <2>1, CompleteResponseShape DEF SendLastBody
<1>11. CASE AppRaises(c)
  <2>1. CASE cycles[c].response_started
    <3>1. transport' = "open" => transport = "open"
      BY <1>11, <2>1 DEF AppRaises, Closed
    <3>2. QED BY <1>3, <1>4, <1>11, <2>1, <3>1, AnswersNothingShape DEF AppRaises
  <2>2. CASE ~cycles[c].response_started
    BY <1>3, <1>11, <2>2, RespondWith500Shape DEF AppRaises
  <2>3. QED BY <2>1, <2>2
<1>12. CASE AppReturns(c)
  <2>1. CASE ~cycles[c].response_started /\ ~cycles[c].disconnected
    BY <1>3, <1>12, <2>1, RespondWith500Shape DEF AppReturns
  <2>2. CASE ~(~cycles[c].response_started /\ ~cycles[c].disconnected)
    <3>1. transport' = "open" => transport = "open"
      BY <1>12, <2>2 DEF AppReturns, Closed
    <3>2. QED BY <1>3, <1>4, <1>12, <2>2, <3>1, AnswersNothingShape DEF AppReturns
  <2>3. QED BY <2>1, <2>2
<1>13. CASE AppReturnsValue(c)
  <2>1. transport' = "open" => transport = "open"
    BY <1>13 DEF AppReturnsValue, Closed
  <2>2. QED BY <1>3, <1>4, <1>13, <2>1, AnswersNothingShape DEF AppReturnsValue
<1>14. CASE Resume500(c)
  <2>1. Started(c) BY <1>14 DEF Resume500, Started
  <2>2. CASE cycles[c].stage = "start_500" /\ Send500(c)
    <3>1. ~cycles[c].response_started BY <2>2 DEF IInv, StageShape
    <3>2. QED BY <1>14, <2>1, <2>2, <3>1, Send500Shape DEF Resume500
  <2>3. CASE /\ cycles' = Ended(c, cycles)
             /\ UNCHANGED <<pipeline, keep_alive_timer, total_requests, flow, transport>>
    BY <1>4, <1>14, <2>1, <2>3, AnswersNothingShape DEF Resume500
  <2>4. CASE cycles[c].stage = "body_500" /\ CompleteResponse(c, Ended(c, cycles))
    <3>1. ~Answered(c) BY <2>4 DEF IInv, StageShape
    <3>2. Ended(c, cycles) \in Cycles BY <1>1, EndedType
    <3>3. /\ Ended(c, cycles)[c].stage # "body_500"
          /\ Ended(c, cycles)[c].response_started <=> cycles[c].response_started
      BY SMTT(60), <1>1 DEF Ended, Cycles, Cycle
    <3>4. QED
      BY <1>4, <1>14, <2>1, <2>4, <3>1, <3>2, <3>3, CompleteResponseShape
         DEF Resume500, IInv, StageShape
  <2>5. QED BY <1>14, <2>2, <2>3, <2>4 DEF Resume500
<1>15. QED
  BY <1>6, <1>7, <1>8, <1>9, <1>10, <1>11, <1>12, <1>13, <1>14 DEF App

(* The parser callbacks keep the shape: a new cycle goes to the application or to
   the end of the pipeline. *)
LEMMA ParseShape ==
  ASSUME IInv, TypeOK', Parse
  PROVE  Shape' /\ ParserShape'
<1> USE DEF requests, flow, mode
<1>1. cycles \in Cycles /\ cycle \in Int BY Bounds DEF IInv, TypeOK, Cycles
<1>2. AnswersNothing(cycles) BY SameAnswersNothing
<1>3. CASE DataReceived
  <2>1. Shape' BY <1>2, <1>3, AnswersNothingShape DEF DataReceived
  <2>2. ParserShape' BY <1>3 DEF DataReceived, ParserShape, IInv, is_closing
  <2>3. QED BY <2>1, <2>2
<1>4. CASE OnMessageBegin
  <2>1. Shape' BY <1>2, <1>4, AnswersNothingShape DEF OnMessageBegin
  <2>2. ParserShape' BY <1>4 DEF OnMessageBegin, ParserShape, IInv
  <2>3. QED BY <2>1, <2>2
<1>5. ASSUME NEW keep_alive \in KeepAlives, NEW expect \in Expects,
             OnHeadersComplete(keep_alive, expect)
      PROVE  Shape' /\ ParserShape'
  <2>1. PICK new \in Requests : new = cycle + 1
    <3>1. cycle + 1 \in Requests
      BY <1>5, Bounds DEF OnHeadersComplete, IInv, ParserShape, TypeOK, Requests
    <3>2. QED BY <3>1
  <2>2. /\ feeding /\ transport = "open" /\ ~keep_alive_timer /\ cycle' = cycle + 1
        /\ UNCHANGED <<keep_alive_timer, total_requests, feeding, transport, upgraded>>
        /\ parser' = "message" /\ ~upgraded
    BY <1>5 DEF OnHeadersComplete, IInv, ParserShape
  <2>3. ParserShape' BY <2>1, <2>2 DEF ParserShape
  <2>4. TimerShape' BY <2>2 DEF TimerShape
  <2>5. \A d \in Requests : Started(d) <=> d <= begun BY StartedRange DEF IInv
  <2>6. \A d \in Requests : d \in Int BY DEF Requests
  <2>7. pipeline \in Seq(Requests) /\ Len(pipeline) \in Nat /\ begun \in Int
        /\ begun = cycle - Len(pipeline)
    BY <1>1 DEF IInv, TypeOK, begun
  <2>8. ~Answered(new) /\ ~cycles[new].response_started
    <3>1. ~(new <= begun) BY <1>1, <2>1, <2>7 DEF IInv, PipelineShape
    <3>2. QED BY Zenon, <3>1 DEF IInv, StageShape
  <2>9. ASSUME NEW stage \in {"running", "queued"},
               cycles' = [cycles EXCEPT ![cycle + 1] = NewCycle(stage, keep_alive, expect)]
        PROVE  \A d \in Requests :
                 /\ cycles'[d].stage = IF d = new THEN stage ELSE cycles[d].stage
                 /\ cycles'[d].response_started <=> cycles[d].response_started
                 /\ Answered(d)' <=> Answered(d)
    <3> DEFINE r == NewCycle(stage, keep_alive, expect)
    <3>1. r.stage = stage /\ ~r.response_started /\ ~r.response_complete BY DEF NewCycle
    <3>2. cycles' = [cycles EXCEPT ![new] = r] BY <2>1, <2>9
    <3> HIDE DEF r
    <3>3. QED BY <1>1, <2>8, <3>1, <3>2 DEF Cycles, Answered
  <2>10. CASE NewestAnswered
    <3>1. pipeline = <<>> /\ Len(pipeline) = 0 /\ begun = cycle
      <4>1. CASE cycle = 0 BY <2>7, <4>1 DEF IInv, PipelineShape
      <4>2. CASE cycle # 0
        <5>1. cycle \in Requests /\ Answered(cycle)
          BY <2>10, <4>2, Bounds DEF NewestAnswered, Answered, IInv, TypeOK, Requests
        <5>2. ~(begun < cycle) BY <1>1, <5>1, <2>7 DEF IInv, StageShape
        <5>3. Len(pipeline) = 0 BY <1>1, <2>7, <5>2
        <5>4. QED BY <1>1, <2>7, <5>3
      <4>3. QED BY <4>1, <4>2
    <3>2. cycles' = [cycles EXCEPT ![cycle + 1] = NewCycle("running", keep_alive, expect)]
          /\ pipeline' = pipeline
      BY <1>5, <2>10 DEF OnHeadersComplete
    <3>3. begun' = begun + 1 /\ begun' = new BY <1>1, <2>1, <2>2, <2>7, <3>1, <3>2 DEF begun
    <3>4. \A d \in Requests :
            /\ cycles'[d].stage = IF d = new THEN "running" ELSE cycles[d].stage
            /\ cycles'[d].response_started <=> cycles[d].response_started
            /\ Answered(d)' <=> Answered(d)
      BY <2>9, <3>2
    <3>5. PipelineShape'
      <4>1. Len(pipeline') = 0 BY <3>1, <3>2
      <4>2. Len(pipeline') <= cycle' BY <1>1, <2>2, <3>1, <3>2 DEF IInv, PipelineShape
      <4>3. \A i \in 1..Len(pipeline') : pipeline'[i] = begun' + i BY <4>1
      <4>4. QED BY <4>2, <4>3 DEF PipelineShape
    <3>6. StageShape'
      BY <1>1, <2>1, <2>2, <2>6, <2>8, <3>1, <3>3, <3>4 DEF StageShape, IInv
    <3>7. \A d \in Requests : d <= cycle => Answered(d)
      <4> SUFFICES ASSUME NEW d \in Requests, d <= cycle PROVE Answered(d)
        OBVIOUS
      <4>1. CASE d = cycle
        BY <1>1, <2>6, <2>10, <4>1 DEF NewestAnswered, Answered, Requests
      <4>2. CASE d # cycle BY <1>1, <2>6, <3>1, <4>2 DEF IInv, Progress
      <4>3. QED BY <4>1, <4>2
    <3>8. Progress' BY <1>1, <2>1, <2>6, <3>1, <3>2, <3>3, <3>4, <3>7 DEF Progress
    <3>9. Counting'
      <4>1. total_requests = begun BY <1>1, <3>1, <3>7 DEF IInv, Counting
      <4>2. begun' \in Requests /\ ~Answered(begun)' BY <2>1, <2>8, <3>3, <3>4
      <4>3. QED BY <2>2, <2>7, <3>3, <4>1, <4>2 DEF Counting
    <3>10. QED BY <2>3, <2>4, <3>5, <3>6, <3>8, <3>9 DEF Shape
  <2>11. CASE ~NewestAnswered
    <3>1. cycle \in Requests /\ ~Answered(cycle)
      BY <2>11, Bounds DEF NewestAnswered, Answered, IInv, TypeOK, Requests
    <3>2. cycles' = [cycles EXCEPT ![cycle + 1] = NewCycle("queued", keep_alive, expect)]
          /\ pipeline' = Append(pipeline, new)
      BY <1>5, <2>1, <2>11 DEF OnHeadersComplete
    <3>3. Len(pipeline') = Len(pipeline) + 1 /\ pipeline' # <<>>
          /\ \A i \in 1..Len(pipeline') :
               pipeline'[i] = IF i = Len(pipeline) + 1 THEN new ELSE pipeline[i]
      BY <2>7, <3>2
    <3>4. begun' = begun BY <1>1, <2>2, <2>7, <3>3 DEF begun
    <3>5. \A d \in Requests :
            /\ cycles'[d].stage = IF d = new THEN "queued" ELSE cycles[d].stage
            /\ cycles'[d].response_started <=> cycles[d].response_started
            /\ Answered(d)' <=> Answered(d)
      BY <2>9, <3>2
    <3>6. PipelineShape'
      <4>1. \A i \in 1..Len(pipeline') : pipeline'[i] = begun' + i
        BY <1>1, <2>1, <2>7, <3>3, <3>4 DEF IInv, PipelineShape
      <4>2. Len(pipeline') <= cycle' BY <1>1, <2>2, <2>7, <3>3 DEF IInv, PipelineShape
      <4>3. QED BY <4>1, <4>2 DEF PipelineShape
    <3>7. StageShape'
      BY <1>1, <2>1, <2>2, <2>6, <2>7, <2>8, <3>4, <3>5 DEF StageShape, IInv
    <3>8. begun \in Requests /\ ~Answered(begun)
      <4>1. CASE pipeline = <<>> BY <1>1, <2>7, <3>1, <4>1
      <4>2. CASE pipeline # <<>> BY <2>2, <4>2 DEF IInv, Progress
      <4>3. QED BY <4>1, <4>2
    <3>9. \A d \in Requests : d = begun => ~Answered(d)' BY <3>5, <3>8
    <3>10. begun' \in Requests /\ ~Answered(begun)' BY <3>4, <3>8, <3>9
    <3>11. Progress' BY <3>4, <3>5, <3>10 DEF Progress, IInv
    <3>12. Counting' BY <2>2, <3>4, <3>8, <3>10 DEF Counting, IInv
    <3>13. QED BY <2>3, <2>4, <3>6, <3>7, <3>11, <3>12 DEF Shape
  <2>12. QED BY <2>10, <2>11
<1>6. CASE OnBody \/ OnMessageComplete
  <2>1. cycle \in Requests BY <1>6 DEF OnBody, OnMessageComplete, IInv, ParserShape
  <2>2. \A d \in Requests :
          /\ cycles'[d].stage = cycles[d].stage
          /\ cycles'[d].response_started <=> cycles[d].response_started
          /\ cycles'[d].response_complete <=> cycles[d].response_complete
    BY SMTT(60), <1>1, <1>6, <2>1 DEF OnBody, OnMessageComplete, Cycles, Cycle
  <2>3. AnswersNothing(cycles') BY <2>2, SameAnswersNothing
  <2>4. Shape' BY <1>6, <2>3, AnswersNothingShape DEF OnBody, OnMessageComplete
  <2>5. ParserShape' BY <1>6 DEF OnBody, OnMessageComplete, ParserShape, IInv
  <2>6. QED BY <2>4, <2>5
<1>7. CASE DataConsumed
  <2>1. Shape' BY <1>2, <1>7, AnswersNothingShape DEF DataConsumed
  <2>2. ParserShape' BY <1>7 DEF DataConsumed, ParserShape, IInv
  <2>3. QED BY <2>1, <2>2
<1>8. CASE InvalidRequest
  <2>1. Shape' BY <1>2, <1>8, AnswersNothingShape DEF InvalidRequest, Closed
  <2>2. ParserShape' BY <1>8 DEF InvalidRequest, ParserShape, IInv
  <2>3. QED BY <2>1, <2>2
<1>9. CASE HandleWebsocketUpgrade
  <2>1. Shape' BY <1>2, <1>9, AnswersNothingShape DEF HandleWebsocketUpgrade
  <2>2. ParserShape' BY <1>9 DEF HandleWebsocketUpgrade, ParserShape, IInv
  <2>3. QED BY <2>1, <2>2
<1>10. QED BY <1>3, <1>4, <1>5, <1>6, <1>7, <1>8, <1>9 DEF Parse

(* The transport, the timer and the server keep the shape. *)
LEMMA EnvironmentShape ==
  ASSUME IInv, TypeOK', Environment
  PROVE  Shape' /\ ParserShape'
<1> USE DEF requests, flow, mode
<1>1. cycles \in Cycles BY DEF IInv, TypeOK, Cycles
<1>2. AnswersNothing(cycles) BY SameAnswersNothing
<1>3. ASSUME ~feeding, UNCHANGED <<cycle, pipeline, total_requests, feeding, parser, upgraded>>,
             AnswersNothing(cycles'), transport' = "open" => transport = "open",
             keep_alive_timer' => keep_alive_timer
      PROVE  Shape' /\ ParserShape'
  <2>1. Shape' BY <1>3, AnswersNothingShape
  <2>2. ParserShape' BY <1>3 DEF ParserShape, IInv
  <2>3. QED BY <2>1, <2>2
<1>4. CASE ResumeWriting BY <1>2, <1>3, <1>4 DEF ResumeWriting
<1>5. CASE EofReceived BY <1>2, <1>3, <1>5 DEF EofReceived
<1>6. ASSUME NEW exc \in BOOLEAN, ConnectionLost(exc)
      PROVE  Shape' /\ ParserShape'
  <2>1. \A d \in Requests :
          /\ cycles'[d].stage = cycles[d].stage
          /\ cycles'[d].response_started <=> cycles[d].response_started
          /\ cycles'[d].response_complete <=> cycles[d].response_complete
    <3>1. CASE cycle = 0 BY <1>6, <3>1 DEF ConnectionLost
    <3>2. CASE cycle # 0
      BY SMTT(60), <1>1, <1>6, <3>2 DEF ConnectionLost, Cycles, Cycle
    <3>3. QED BY <3>1, <3>2
  <2>2. AnswersNothing(cycles') BY <2>1, SameAnswersNothing
  <2>3. QED BY <1>3, <1>6, <2>2 DEF ConnectionLost
<1>7. CASE KeepAliveTimeout BY <1>2, <1>3, <1>7 DEF KeepAliveTimeout, Closed
<1>8. CASE Shutdown
  <2>1. \A d \in Requests :
          /\ cycles'[d].stage = cycles[d].stage
          /\ cycles'[d].response_started <=> cycles[d].response_started
          /\ cycles'[d].response_complete <=> cycles[d].response_complete
    BY SMTT(60), <1>1, <1>8 DEF Shutdown, Cycles, Cycle
  <2>2. AnswersNothing(cycles') BY <2>1, SameAnswersNothing
  <2>3. transport' = "open" => transport = "open" BY <1>8 DEF Shutdown, Closed
  <2>4. QED BY <1>3, <1>8, <2>2, <2>3 DEF Shutdown
<1>9. CASE WebSocketTransport
  <2>1. ~feeding BY <1>9 DEF WebSocketTransport, ParserShape, IInv
  <2>2. QED BY <1>2, <1>3, <1>9, <2>1 DEF WebSocketTransport
<1>10. QED BY <1>4, <1>5, <1>6, <1>7, <1>8, <1>9 DEF Environment

(* The application does not move the parser. *)
LEMMA AppParserShape ==
  ASSUME IInv, NEW c \in Requests, App(c)
  PROVE  ParserShape'
<1>1. ~feeding /\ UNCHANGED <<cycle, feeding, parser>>
  BY DEF App, Receive, ReceiveWakes, SendStart, SendInvalidStart, SendBody, SendLastBody,
         AppRaises, AppReturns, AppReturnsValue, Resume500, Running, Sends, mode, requests
<1>2. QED BY <1>1 DEF IInv, ParserShape

-----------------------------------------------------------------------------
(* The theorems. *)

(* Every step keeps the inductive invariant. *)
LEMMA StepInv == ASSUME IInv, [Next]_vars PROVE IInv'
<1>1. CASE UNCHANGED vars
  BY <1>1 DEF vars, requests, flow, mode, IInv, TypeOK, PipelineShape, StageShape,
              Progress, ParserShape, TimerShape, Counting, begun, Answered
<1>2. CASE Parse BY <1>2, ParseType, ParseShape DEF IInv, Shape
<1>3. ASSUME NEW c \in Requests, App(c) PROVE IInv'
  BY <1>3, AppType, AppShape, AppParserShape DEF IInv, Shape
<1>4. CASE Environment BY <1>4, EnvironmentType, EnvironmentShape DEF IInv, Shape
<1>5. QED BY <1>1, <1>2, <1>3, <1>4 DEF Next

(* The inductive invariant IInv holds in every reachable state: the pipeline holds the
   cycles that arrived last, in order, and all the others were started in order, each
   after the one before it was answered. *)
THEOREM Invariance == Spec => []IInv
<1>1. Init => IInv BY InitInv
<1>2. IInv /\ [Next]_vars => IInv' BY StepInv
<1>3. QED BY <1>1, <1>2, PTL DEF Spec

(* Every variable keeps its type: cycles are records of the protocol's fields and
   no buffer or counter leaves its range. *)
THEOREM TypeCorrect == Spec => []TypeOK
<1>1. IInv => TypeOK BY DEF IInv
<1>2. QED BY <1>1, Invariance, PTL

(* Pipelined requests reach the application one at a time, in order, each after
   the response before it is complete. *)
THEOREM InOrder == Spec => []ProcessedInOrder
<1>1. IInv => ProcessedInOrder
  <2> SUFFICES ASSUME IInv, NEW c \in Requests, NEW d \in Requests, c < d, Started(d)
               PROVE  Answered(c)
    BY DEF ProcessedInOrder
  <2>1. d <= begun BY StartedRange DEF IInv
  <2>2. c \in Int /\ d \in Int /\ begun \in Int
    BY Bounds DEF Requests, IInv, TypeOK, begun
  <2>3. c < begun BY <2>1, <2>2
  <2>4. QED BY <2>3 DEF IInv, Progress
<1>2. QED BY <1>1, Invariance, PTL

(* The keep-alive timer never closes a connection that owes a response. *)
THEOREM TimerIdle == Spec => []TimerOnlyWhenIdle
<1>1. IInv => TimerOnlyWhenIdle
  <2> SUFFICES ASSUME IInv, keep_alive_timer, NEW c \in 1..cycle
               PROVE  pipeline = <<>> /\ Answered(c)
    <3>1. IInv /\ keep_alive_timer => pipeline = <<>> BY DEF IInv, TimerShape
    <3>2. QED BY <3>1 DEF TimerOnlyWhenIdle
  <2>1. pipeline = <<>> BY DEF IInv, TimerShape
  <2>2. cycle \in Int /\ c \in Requests /\ cycle \in Requests
    BY Bounds DEF IInv, TypeOK, Requests
  <2>3. Len(pipeline) = 0 BY <2>1
  <2>4. begun = cycle BY <2>2, <2>3 DEF begun
  <2>5. CASE c = cycle BY <2>1, <2>2, <2>5 DEF IInv, TimerShape
  <2>6. CASE c # cycle
    <3>1. c < begun BY <2>2, <2>4, <2>6 DEF Requests
    <3>2. QED BY <2>1, <2>2, <3>1 DEF IInv, Progress
  <2>7. QED BY <2>1, <2>5, <2>6
<1>2. QED BY <1>1, Invariance, PTL

-----------------------------------------------------------------------------
(* HttpToolsConnection implements Pipelining. *)

(* A step that counts nothing is a stutter or the abstract Close. *)
LEMMA UncountedRefines ==
  ASSUME UNCHANGED <<cycle, pipeline, total_requests>>,
         transport' = "open" => transport = "open"
  PROVE  [Abstract!Next]_(Abstract!vars)
BY DEF Abstract!Next, Abstract!Close, Abstract!vars

(* Completing a response is FinishAndContinue or FinishAndClose. *)
LEMMA CompleteResponseRefines ==
  ASSUME IInv, NEW c \in Requests, Started(c), ~Answered(c), NEW cs,
         CompleteResponse(c, cs), cycle' = cycle
  PROVE  [Abstract!Next]_(Abstract!vars)
<1>1. c = begun BY UnansweredIsNewest
<1>2. /\ cycle \in Int /\ Len(pipeline) \in Nat /\ total_requests \in Int
      /\ begun = cycle - Len(pipeline) /\ pipeline \in Seq(Requests)
  BY Bounds DEF IInv, TypeOK, begun
<1>3. total_requests = begun - 1 /\ total_requests' = begun
  BY <1>1, <1>2 DEF IInv, Counting, CompleteResponse
<1>4. CASE is_closing \/ ~cs[c].keep_alive
  <2>1. transport' # "open" /\ UNCHANGED pipeline
    BY <1>4 DEF CompleteResponse, is_closing, Closed
  <2>2. Abstract!FinishAndClose BY <1>2, <1>3, <2>1 DEF Abstract!FinishAndClose
  <2>3. QED BY <2>2 DEF Abstract!Next
<1>5. CASE ~(is_closing \/ ~cs[c].keep_alive)
  <2>1. transport = "open" /\ transport' = transport
    BY <1>5 DEF CompleteResponse, is_closing
  <2>2. pipeline' = IF pipeline = <<>> THEN pipeline ELSE Tail(pipeline)
    BY <1>5 DEF CompleteResponse, OnResponseComplete
  <2>3. cycle - Len(pipeline') = IF begun < cycle THEN begun + 1 ELSE begun
    <3>1. CASE pipeline = <<>>
      <4>1. Len(pipeline) = 0 /\ pipeline' = pipeline BY <2>2, <3>1
      <4>2. QED BY <1>2, <4>1
    <3>2. CASE pipeline # <<>>
      <4>1. Len(pipeline) > 0 /\ Len(pipeline') = Len(pipeline) - 1 BY <1>2, <2>2, <3>2
      <4>2. QED BY <1>2, <4>1
    <3>3. QED BY <3>1, <3>2
  <2>4. Abstract!FinishAndContinue
    BY <1>2, <1>3, <2>1, <2>3 DEF Abstract!FinishAndContinue
  <2>5. QED BY <2>4 DEF Abstract!Next
<1>6. QED BY <1>4, <1>5

(* send_500_response completes one response or counts nothing. *)
LEMMA Send500Refines ==
  ASSUME IInv, NEW c \in Requests, Started(c), ~Answered(c), Send500(c), cycle' = cycle
  PROVE  [Abstract!Next]_(Abstract!vars)
<1>1. \/ UNCHANGED <<pipeline, total_requests, transport>>
      \/ \E cs : CompleteResponse(c, cs)
  BY DEF Send500
<1>2. QED BY <1>1, UncountedRefines, CompleteResponseRefines

(* As it does when it first has to wait in drain(). *)
LEMMA RespondWith500Refines ==
  ASSUME IInv, NEW c \in Requests, Started(c), ~cycles[c].response_started,
         RespondWith500(c), cycle' = cycle
  PROVE  [Abstract!Next]_(Abstract!vars)
<1>1. ~Answered(c) BY DEF IInv, StageShape
<1>2. CASE CanSend(c) BY <1>1, <1>2, Send500Refines DEF RespondWith500
<1>3. CASE ~CanSend(c) BY <1>3, UncountedRefines DEF RespondWith500
<1>4. QED BY <1>2, <1>3

(* The application steps refine the abstract steps. *)
LEMMA AppRefines ==
  ASSUME IInv, NEW c \in Requests, App(c)
  PROVE  [Abstract!Next]_(Abstract!vars)
<1>1. Running(c) => Started(c) BY DEF Running, Started
<1>2. CASE Receive(c) \/ ReceiveWakes(c) \/ SendStart(c) \/ SendInvalidStart(c)
           \/ SendBody(c)
  BY <1>2, UncountedRefines
     DEF Receive, ReceiveWakes, SendStart, SendInvalidStart, SendBody, requests
<1>3. CASE SendLastBody(c)
  <2>1. Started(c) /\ ~Answered(c)
    BY <1>1, <1>3 DEF SendLastBody, Sends, Answered
  <2>2. QED BY <1>3, <2>1, CompleteResponseRefines DEF SendLastBody
<1>4. CASE AppRaises(c)
  <2>1. CASE cycles[c].response_started
    BY <1>4, <2>1, UncountedRefines DEF AppRaises, Closed
  <2>2. CASE ~cycles[c].response_started
    BY <1>1, <1>4, <2>2, RespondWith500Refines DEF AppRaises
  <2>3. QED BY <2>1, <2>2
<1>5. CASE AppReturns(c)
  <2>1. CASE ~cycles[c].response_started /\ ~cycles[c].disconnected
    BY <1>1, <1>5, <2>1, RespondWith500Refines DEF AppReturns
  <2>2. CASE ~(~cycles[c].response_started /\ ~cycles[c].disconnected)
    BY <1>5, <2>2, UncountedRefines DEF AppReturns, Closed
  <2>3. QED BY <2>1, <2>2
<1>6. CASE AppReturnsValue(c) BY <1>6, UncountedRefines DEF AppReturnsValue, Closed
<1>7. CASE Resume500(c)
  <2>1. Started(c) BY <1>7 DEF Resume500, Started
  <2>2. ~Answered(c) BY <1>7 DEF Resume500, IInv, StageShape
  <2>3. CASE Send500(c) BY <1>7, <2>1, <2>2, <2>3, Send500Refines DEF Resume500
  <2>4. CASE UNCHANGED <<pipeline, keep_alive_timer, total_requests, flow, transport>>
    BY <1>7, <2>4, UncountedRefines DEF Resume500
  <2>5. CASE CompleteResponse(c, Ended(c, cycles))
    BY <1>7, <2>1, <2>2, <2>5, CompleteResponseRefines DEF Resume500
  <2>6. QED BY <1>7, <2>3, <2>4, <2>5 DEF Resume500
<1>8. QED BY <1>2, <1>3, <1>4, <1>5, <1>6, <1>7 DEF App

(* A request head is Arrive; the other parser callbacks count nothing. *)
LEMMA ParseRefines ==
  ASSUME IInv, Parse
  PROVE  [Abstract!Next]_(Abstract!vars)
<1>1. CASE DataReceived \/ OnMessageBegin \/ OnBody \/ OnMessageComplete \/ DataConsumed
           \/ InvalidRequest \/ HandleWebsocketUpgrade
  BY <1>1, UncountedRefines
     DEF DataReceived, OnMessageBegin, OnBody, OnMessageComplete, DataConsumed,
         InvalidRequest, HandleWebsocketUpgrade, Closed, requests, mode
<1>2. ASSUME NEW keep_alive \in KeepAlives, NEW expect \in Expects,
             OnHeadersComplete(keep_alive, expect)
      PROVE  Abstract!Arrive
  <2>1. /\ cycle \in Int /\ Len(pipeline) \in Nat /\ total_requests \in Int
        /\ begun = cycle - Len(pipeline) /\ pipeline \in Seq(Requests) /\ cycle >= 0
    BY Bounds DEF IInv, TypeOK, begun
  <2>2. /\ cycle' = cycle + 1 /\ transport = "open"
        /\ UNCHANGED <<total_requests, transport>>
    BY <1>2 DEF OnHeadersComplete, IInv, ParserShape
  <2>3. CASE NewestAnswered
    <3>1. UNCHANGED pipeline BY <1>2, <2>3 DEF OnHeadersComplete
    <3>2. begun = cycle /\ total_requests = cycle
      <4>1. CASE cycle = 0
        <5>1. begun = 0 BY <2>1, <4>1 DEF IInv, PipelineShape
        <5>2. 0 \notin Requests BY DEF Requests
        <5>3. QED BY <4>1, <5>1, <5>2 DEF IInv, Counting
      <4>2. CASE cycle # 0
        <5>1. cycle \in Requests /\ Answered(cycle)
          BY <2>3, <4>2, Bounds DEF NewestAnswered, Answered, IInv, TypeOK, Requests
        <5>2. ~(begun < cycle) BY <2>1, <5>1 DEF IInv, StageShape
        <5>3. begun = cycle BY <2>1, <5>2
        <5>4. QED BY <5>1, <5>3 DEF IInv, Counting
      <4>3. QED BY <4>1, <4>2
    <3>3. QED BY <2>1, <2>2, <3>1, <3>2 DEF Abstract!Arrive
  <2>4. CASE ~NewestAnswered
    <3>1. Len(pipeline') = Len(pipeline) + 1
      <4>1. cycle + 1 \in Requests
        BY <1>2, <2>1, Bounds DEF OnHeadersComplete, IInv, ParserShape, Requests
      <4>2. QED BY <1>2, <2>1, <2>4, <4>1 DEF OnHeadersComplete
    <3>2. total_requests # cycle
      <4>1. cycle \in Requests /\ ~Answered(cycle)
        BY <2>4, Bounds DEF NewestAnswered, Answered, IInv, TypeOK, Requests
      <4>2. CASE begun = cycle BY <2>1, <4>1, <4>2 DEF IInv, Counting
      <4>3. CASE begun # cycle
        <5>1. begun < cycle BY <2>1, <4>3
        <5>2. total_requests <= begun BY <2>1 DEF IInv, Counting
        <5>3. QED BY <2>1, <5>1, <5>2
      <4>4. QED BY <4>2, <4>3
    <3>3. QED BY <2>1, <2>2, <3>1, <3>2 DEF Abstract!Arrive
  <2>5. QED BY <2>3, <2>4
<1>3. QED BY <1>1, <1>2 DEF Parse, Abstract!Next

(* The protocol with its callbacks, timers and flow control moves its counts of
   requests seen, started and answered exactly as the abstract connection does. *)
THEOREM Refinement == Spec => ImplementsPipelining
<1>1. Init => Abstract!Init
  <2> SUFFICES ASSUME Init PROVE Abstract!Init
    OBVIOUS
  <2>1. cycle = 0 /\ total_requests = 0 /\ transport = "open" BY DEF Init
  <2>2. pipeline = <<>> BY DEF Init
  <2>3. Len(pipeline) = 0 BY <2>2
  <2>4. cycle - Len(pipeline) = 0 BY <2>1, <2>3
  <2>5. QED BY <2>1, <2>4 DEF Abstract!Init
<1>2. IInv /\ [Next]_vars => [Abstract!Next]_(Abstract!vars)
  <2> SUFFICES ASSUME IInv, [Next]_vars PROVE [Abstract!Next]_(Abstract!vars)
    OBVIOUS
  <2>1. CASE UNCHANGED vars BY <2>1, UncountedRefines DEF vars, requests
  <2>2. CASE Parse BY <2>2, ParseRefines
  <2>3. ASSUME NEW c \in Requests, App(c) PROVE [Abstract!Next]_(Abstract!vars)
    BY <2>3, AppRefines
  <2>4. CASE Environment
    BY <2>4, UncountedRefines
       DEF Environment, ResumeWriting, EofReceived, ConnectionLost, KeepAliveTimeout,
           Shutdown, WebSocketTransport, Closed, requests
  <2>5. QED BY <2>1, <2>2, <2>3, <2>4 DEF Next
<1>3. QED BY <1>1, <1>2, Invariance, PTL DEF Spec, ImplementsPipelining, Abstract!Spec

(* So the requests of a connection are processed one at a time, in the order they
   arrived, and on an open connection none waits while nothing is in progress. *)
THEOREM Promised == Spec => [](Abstract!OneAtATime /\ Abstract!WorkConserving)
BY Refinement, Abstract!Promises, PTL DEF ImplementsPipelining
=============================================================================
