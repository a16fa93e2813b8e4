----------------------- MODULE HttpToolsReceiveProofs -----------------------
(***************************************************************************)
(* Proofs about what the tasks of a connection wait for: events of receive, *)
(* paused reading, and the end of an unfinished response.  The invariant of *)
(* HttpToolsConnectionProofs, which says which cycles are started, is      *)
(* extended by what holds of each cycle on its own.                        *)
(***************************************************************************)
EXTENDS HttpToolsConnectionProofs

(* A cycle r over a transport t.  What there is to be received has set the event;
   once the end of the body was received, only the end of the cycle sets it. *)
Awake(r, t) ==
  /\ r.disconnected => t = "lost"
  /\ ~r.disconnected /\ ~r.response_complete
     /\ (r.body > 0 \/ (~r.more_body /\ ~r.end_received)) => r.message_event
  /\ r.receiving /\ (r.disconnected \/ r.response_complete) => r.message_event
  /\ r.end_received =>
       /\ ~r.more_body /\ r.body = 0
       /\ r.message_event => r.disconnected \/ r.response_complete

(* A task that is over has answered, or the connection is not open. *)
Finished(r, t) == r.stage = "done" /\ t = "open" => r.response_complete

Good(cs, t) == \A d \in Requests : Awake(cs[d], t) /\ Finished(cs[d], t)

(* The parser is still to deliver the end of an unanswered request. *)
EndToCome == parser = "message" /\ ~Answered(cycle) => cycles[cycle].more_body

(* The response that will resume paused reading is the last one begun. *)
Pausing == read_paused /\ transport = "open" => begun \in Requests /\ ~Answered(begun)

RInv == IInv /\ Good(cycles, transport) /\ EndToCome /\ Pausing

-----------------------------------------------------------------------------
(* Closing or losing the transport keeps every cycle good. *)
LEMMA GoodCloses ==
  ASSUME NEW cs, NEW t, NEW u, Good(cs, t), u = "open" => t = "open", t = "lost" => u = "lost"
  PROVE  Good(cs, u)
BY DEF Good, Awake, Finished

(* A change to one cycle concerns that cycle alone. *)
LEMMA GoodOne ==
  ASSUME NEW cs \in Cycles, NEW t, NEW c \in Requests, NEW r, Awake(r, t), Finished(r, t),
         \A d \in Requests \ {c} : Awake(cs[d], t) /\ Finished(cs[d], t)
  PROVE  Good([cs EXCEPT ![c] = r], t)
BY DEF Good, Cycles

(* What App and Environment steps keep of every cycle: how much of the request has
   arrived, and an answer. *)
Keeps(cs) ==
  \A d \in Requests :
    /\ cs[d].more_body <=> cycles[d].more_body
    /\ cycles[d].response_complete => cs[d].response_complete

(* Steps that answer nothing, and pause nothing, keep Pausing. *)
LEMMA PausingKept ==
  ASSUME Pausing, UNCHANGED <<cycle, pipeline>>, read_paused' => read_paused,
         transport' = "open" => transport = "open",
         \A d \in Requests : cycles'[d].response_complete <=> cycles[d].response_complete
  PROVE  Pausing'
<1>1. begun' = begun BY DEF begun
<1>2. QED BY <1>1 DEF Pausing, Answered

(* Completing a response, from cycles cs whose cycle c may just have ended. *)
LEMMA CompleteResponseGood ==
  ASSUME TypeOK, NEW c \in Requests, NEW cs \in Cycles, Keeps(cs),
         \A d \in Requests : Awake(cs[d], transport),
         \A d \in Requests \ {c} : Finished(cs[d], transport),
         CompleteResponse(c, cs)
  PROVE  Good(cycles', transport') /\ Keeps(cycles') /\ Pausing'
<1> DEFINE r == [cs[c] EXCEPT !.response_complete = TRUE, !.message_event = TRUE]
           answered == [cs EXCEPT ![c] = r]
<1>1. cs[c] \in Cycle /\ r \in Cycle /\ answered \in Cycles
  BY ZenonT(60) DEF Cycles, Cycle
<1>2. Awake(r, transport) /\ Finished(r, transport)
  BY <1>1 DEF Awake, Finished, Cycle
<1>3. Good(answered, transport) BY <1>2, GoodOne
<1>4. Keeps(answered)
  <2>1. r.more_body = cs[c].more_body /\ r.response_complete BY <1>1 DEF Cycle
  <2> HIDE DEF r
  <2>2. QED BY <2>1 DEF Keeps, Cycles
<1>5. /\ transport' = "open" => transport = "open"
      /\ transport = "lost" => transport' = "lost"
  BY DEF CompleteResponse, Closed
<1>6. answered = [cs EXCEPT ![c].response_complete = TRUE, ![c].message_event = TRUE]
  BY DEF Cycles
<1> HIDE DEF answered, r
<1>7. CASE OnResponseComplete(answered)
  <2>1. ~read_paused' BY <1>7 DEF OnResponseComplete
  <2>2. CASE pipeline = <<>>
    BY <1>3, <1>4, <1>5, <1>7, <2>1, <2>2, GoodCloses DEF OnResponseComplete, Pausing
  <2>3. CASE pipeline # <<>>
    <3> DEFINE h == Head(pipeline)
               s == [answered[h] EXCEPT !.stage = "running"]
    <3>1. h \in Requests BY <2>3 DEF TypeOK
    <3>2. answered[h] \in Cycle BY <1>1, <3>1 DEF Cycles
    <3>3. cycles' = [answered EXCEPT ![h] = s] BY <1>7, <2>3 DEF OnResponseComplete
    <3> HIDE DEF h
    <3>4. Awake(answered[h], transport) BY <1>3, <3>1 DEF Good
    <3>5. Awake(s, transport) /\ Finished(s, transport)
      BY <3>2, <3>4 DEF Awake, Finished, Cycle
    <3>6. s.more_body = answered[h].more_body
          /\ s.response_complete = answered[h].response_complete
      BY <3>2 DEF Cycle
    <3> HIDE DEF s
    <3>7. Good(cycles', transport) BY <1>1, <1>3, <3>1, <3>3, <3>5, GoodOne DEF Good
    <3>8. Keeps(cycles') BY <1>1, <1>4, <3>1, <3>3, <3>6 DEF Keeps, Cycles
    <3>9. QED BY <1>5, <2>1, <3>7, <3>8, GoodCloses DEF Pausing
  <2>4. QED BY <2>2, <2>3
<1>8. CASE cycles' = answered /\ transport' # "open"
  BY <1>3, <1>4, <1>5, <1>8, GoodCloses DEF Pausing
<1>9. QED BY <1>6, <1>7, <1>8 DEF CompleteResponse, Closed, is_closing

(* What an App step establishes. *)
AppKeeps == Good(cycles', transport') /\ Keeps(cycles') /\ Pausing'

(* A step that changes one cycle, without an answer, and pauses nothing. *)
LEMMA OneCycle ==
  ASSUME RInv, NEW c \in Requests, NEW r \in Cycle, cycles' = [cycles EXCEPT ![c] = r],
         r.more_body <=> cycles[c].more_body,
         r.response_complete <=> cycles[c].response_complete,
         Awake(r, transport'), Finished(r, transport'),
         UNCHANGED <<cycle, pipeline>>, read_paused' => read_paused,
         transport' = "open" => transport = "open",
         transport = "lost" => transport' = "lost"
  PROVE  AppKeeps
<1>1. cycles \in Cycles BY DEF RInv, IInv, TypeOK, Cycles
<1>2. Good(cycles, transport') BY GoodCloses DEF RInv
<1>3. Good(cycles', transport') BY <1>1, <1>2, GoodOne DEF Good
<1>4. \A d \in Requests : /\ cycles'[d].more_body <=> cycles[d].more_body
                          /\ cycles'[d].response_complete <=> cycles[d].response_complete
  BY <1>1 DEF Cycles
<1>5. Pausing' BY <1>4, PausingKept DEF RInv
<1>6. QED BY <1>3, <1>4, <1>5 DEF AppKeeps, Keeps

(* The end of a task whose connection is over, or that has answered. *)
LEMMA EndedKeeps ==
  ASSUME RInv, NEW c \in Requests, cycles' = Ended(c, cycles),
         transport' = "open" => cycles[c].response_complete,
         UNCHANGED <<cycle, pipeline>>, read_paused' => read_paused,
         transport' = "open" => transport = "open",
         transport = "lost" => transport' = "lost"
  PROVE  AppKeeps
<1> DEFINE r == [cycles[c] EXCEPT !.stage = "done", !.receiving = FALSE]
<1>1. cycles \in Cycles /\ cycles[c] \in Cycle BY DEF RInv, IInv, TypeOK, Cycles
<1>2. cycles' = [cycles EXCEPT ![c] = r] BY <1>1 DEF Ended, Cycles
<1>3. r \in Cycle BY <1>1 DEF Cycle, Stages
<1>4. Awake(cycles[c], transport') BY GoodCloses DEF RInv, Good
<1>5. /\ r.more_body <=> cycles[c].more_body
      /\ r.response_complete <=> cycles[c].response_complete
  BY <1>1 DEF Cycle
<1>6. Awake(r, transport') /\ Finished(r, transport')
  BY <1>1, <1>4 DEF Awake, Finished, Cycle
<1> HIDE DEF r
<1>7. QED BY <1>2, <1>3, <1>5, <1>6, OneCycle

(* send_500_response *)
LEMMA Send500Keeps ==
  ASSUME RInv, NEW c \in Requests, Send500(c), UNCHANGED <<cycle, mode>>
  PROVE  AppKeeps
<1> DEFINE r == [cycles[c] EXCEPT !.response_started = TRUE,
                                  !.waiting_for_100_continue = FALSE,
                                  !.keep_alive = FALSE, !.receiving = FALSE]
           head == [cycles EXCEPT ![c] = r]
           s == [r EXCEPT !.stage = "body_500"]
           e == [r EXCEPT !.stage = "done"]
<1>1. TypeOK /\ cycles \in Cycles /\ cycles[c] \in Cycle
  BY DEF RInv, IInv, TypeOK, Cycles
<1>2. r \in Cycle /\ head \in Cycles BY <1>1 DEF Cycles, Cycle
<1>3. Awake(cycles[c], transport) BY DEF RInv, Good
<1>4. CASE cycles' = Ended(c, cycles) /\ cycles[c].disconnected
           /\ UNCHANGED <<pipeline, keep_alive_timer, total_requests, flow, transport>>
  <2>1. transport' # "open" BY <1>3, <1>4 DEF Awake
  <2>2. QED BY <1>4, <2>1, EndedKeeps DEF flow
<1>5. CASE cycles' = [head EXCEPT ![c].stage = "body_500"]
           /\ UNCHANGED <<pipeline, keep_alive_timer, total_requests, read_paused, transport>>
  <2>1. cycles' = [cycles EXCEPT ![c] = s] BY <1>1, <1>2, <1>5 DEF Cycles
  <2>2. s \in Cycle BY <1>2 DEF Cycle, Stages
  <2>3. /\ s.more_body <=> cycles[c].more_body
        /\ s.response_complete <=> cycles[c].response_complete
    BY <1>1 DEF Cycle
  <2>4. Awake(s, transport) /\ Finished(s, transport)
    BY <1>1, <1>3 DEF Awake, Finished, Cycle
  <2> HIDE DEF s
  <2>5. QED BY <1>5, <2>1, <2>2, <2>3, <2>4, OneCycle
<1>6. CASE CompleteResponse(c, Ended(c, head))
  <2> DEFINE cs == [cycles EXCEPT ![c] = e]
  <2>1. Ended(c, head) = cs BY <1>1, <1>2 DEF Ended, Cycles, Cycle
  <2>2. e \in Cycle /\ cs \in Cycles BY <1>1, <1>2 DEF Cycles, Cycle, Stages
  <2>3. /\ e.more_body <=> cycles[c].more_body
        /\ e.response_complete <=> cycles[c].response_complete
    BY <1>1 DEF Cycle
  <2>4. Awake(e, transport) BY <1>1, <1>3 DEF Awake, Cycle
  <2> HIDE DEF e
  <2>5. Keeps(cs) BY <1>1, <2>3 DEF Keeps, Cycles
  <2>6. \A d \in Requests : Awake(cs[d], transport)
    BY <1>1, <2>4 DEF RInv, Good, Cycles
  <2>7. \A d \in Requests \ {c} : Finished(cs[d], transport)
    BY <1>1 DEF RInv, Good, Cycles
  <2> HIDE DEF cs
  <2>8. QED BY <1>1, <1>6, <2>1, <2>2, <2>5, <2>6, <2>7, CompleteResponseGood DEF AppKeeps
<1>7. \/ /\ cycles[c].disconnected
         /\ cycles' = Ended(c, cycles)
         /\ UNCHANGED <<pipeline, keep_alive_timer, total_requests, flow, transport>>
      \/ /\ cycles' = [head EXCEPT ![c].stage = "body_500"]
         /\ UNCHANGED <<pipeline, keep_alive_timer, total_requests, read_paused, transport>>
      \/ CompleteResponse(c, Ended(c, head))
  BY DEF Send500
<1> HIDE DEF head, r
<1>8. QED BY <1>4, <1>5, <1>6, <1>7

(* The choice between sending it and waiting in drain(). *)
LEMMA RespondWith500Keeps ==
  ASSUME RInv, NEW c \in Requests, RespondWith500(c), UNCHANGED <<cycle, mode>>
  PROVE  AppKeeps
<1>1. CASE CanSend(c) BY <1>1, Send500Keeps DEF RespondWith500
<1>2. CASE ~CanSend(c)
  <2> DEFINE r == [cycles[c] EXCEPT !.stage = "start_500", !.receiving = FALSE]
  <2>1. cycles[c] \in Cycle BY DEF RInv, IInv, TypeOK
  <2>2. r \in Cycle BY <2>1 DEF Cycle, Stages
  <2>3. cycles' = [cycles EXCEPT ![c] = r] BY <1>2 DEF RespondWith500
  <2>4. Awake(cycles[c], transport) BY DEF RInv, Good
  <2>5. /\ r.more_body <=> cycles[c].more_body
        /\ r.response_complete <=> cycles[c].response_complete
        /\ Awake(r, transport) /\ Finished(r, transport)
    BY <2>1, <2>4 DEF Cycle, Awake, Finished
  <2> HIDE DEF r
  <2>6. UNCHANGED <<cycle, pipeline, transport, read_paused>>
    BY <1>2 DEF RespondWith500, flow
  <2>7. QED BY <2>2, <2>3, <2>5, <2>6, OneCycle
<1>3. QED BY <1>1, <1>2

(* receive() delivers an http.request event of a cycle that is not over. *)
LEMMA DeliveredAwake ==
  ASSUME NEW q \in Cycle, NEW t, Awake(q, t), ~q.disconnected, ~q.response_complete,
         NEW last \in BOOLEAN, last <=> q.end_received \/ ~q.more_body
  PROVE  Awake([q EXCEPT !.message_event = FALSE, !.receiving = FALSE,
                         !.body = 0, !.end_received = last], t)
<1> DEFINE r == [q EXCEPT !.message_event = FALSE, !.receiving = FALSE,
                          !.body = 0, !.end_received = last]
<1>1. /\ ~r.disconnected /\ ~r.response_complete /\ ~r.receiving /\ ~r.message_event
      /\ r.body = 0 /\ (r.more_body <=> q.more_body) /\ (r.end_received <=> last)
  BY DEF Cycle
<1> HIDE DEF r
<1>2. ~(0 > 0) OBVIOUS
<1>3. Awake(r, t) BY <1>1, <1>2 DEF Awake
<1>4. QED BY <1>3 DEF r

(* receive() *)
LEMMA ReceiveKeeps ==
  ASSUME RInv, NEW c \in Requests, Receive(c)
  PROVE  AppKeeps
<1> DEFINE waits == cycles[c].waiting_for_100_continue /\ is_closing
           q == [cycles[c] EXCEPT !.waiting_for_100_continue = waits]
           cs == [cycles EXCEPT ![c] = q]
           last == q.end_received \/ ~q.more_body
           r == [q EXCEPT !.message_event = FALSE, !.receiving = FALSE,
                          !.body = 0, !.end_received = last]
           s == [q EXCEPT !.receiving = TRUE]
<1>1. cycles \in Cycles /\ cycles[c] \in Cycle /\ Awake(cycles[c], transport)
      /\ Finished(cycles[c], transport)
  BY DEF RInv, IInv, TypeOK, Cycles, Good
<1>2. waits \in BOOLEAN BY <1>1 DEF Cycle
<1>3. cycles' = IF cs[c].message_event THEN Delivered(c, cs)
                ELSE [cs EXCEPT ![c].receiving = TRUE]
  BY DEF Receive
<1>4. /\ ~cycles[c].disconnected /\ ~cycles[c].response_complete
      /\ cycles[c].stage = "running"
      /\ UNCHANGED <<cycle, pipeline, transport>> /\ ~read_paused'
  BY DEF Receive, Running
<1> HIDE DEF waits
<1>5. /\ q \in Cycle /\ cs \in Cycles /\ Awake(q, transport)
      /\ ~q.disconnected /\ ~q.response_complete /\ q.stage = "running"
      /\ q.more_body <=> cycles[c].more_body
  BY <1>1, <1>2, <1>4 DEF Cycle, Cycles, Awake
<1>6. CASE cs[c].message_event
  <2>1. last \in BOOLEAN BY <1>5 DEF Cycle
  <2>2. cycles' = [cycles EXCEPT ![c] = r]
    BY <1>1, <1>3, <1>6 DEF Delivered, Cycles
  <2> HIDE DEF q, last
  <2>3. r \in Cycle
    <3>1. 0 \in 0..MaxBody BY Bounds
    <3>2. QED BY <1>5, <2>1, <3>1 DEF Cycle
  <2>4. /\ r.more_body <=> cycles[c].more_body
        /\ r.response_complete <=> cycles[c].response_complete
        /\ Finished(r, transport)
    BY <1>4, <1>5 DEF Cycle, Finished
  <2>5. Awake(r, transport)
    <3>1. last <=> q.end_received \/ ~q.more_body BY DEF last
    <3>2. QED BY <1>5, <2>1, <3>1, DeliveredAwake
  <2> HIDE DEF r
  <2>6. QED BY <1>4, <2>2, <2>3, <2>4, <2>5, OneCycle
<1>7. CASE ~cs[c].message_event
  <2>1. cycles' = [cycles EXCEPT ![c] = s] BY <1>1, <1>3, <1>7 DEF Cycles
  <2>2. ~q.message_event BY <1>1, <1>7 DEF Cycles
  <2> HIDE DEF q
  <2>3. /\ s \in Cycle
        /\ s.more_body <=> cycles[c].more_body
        /\ s.response_complete <=> cycles[c].response_complete
        /\ Finished(s, transport)
    BY <1>4, <1>5 DEF Cycle, Finished
  <2>4. Awake(s, transport) BY <1>5, <2>2 DEF Cycle, Awake
  <2> HIDE DEF s
  <2>5. QED BY <1>4, <2>1, <2>3, <2>4, OneCycle
<1>8. QED BY <1>6, <1>7

(* The wait in receive() ends. *)
LEMMA ReceiveWakesKeeps ==
  ASSUME RInv, NEW c \in Requests, ReceiveWakes(c)
  PROVE  AppKeeps
<1> DEFINE last == cycles[c].end_received \/ ~cycles[c].more_body
           r == [cycles[c] EXCEPT !.message_event = FALSE, !.receiving = FALSE,
                                  !.body = 0, !.end_received = last]
           s == [cycles[c] EXCEPT !.message_event = FALSE, !.receiving = FALSE]
<1>1. cycles \in Cycles /\ cycles[c] \in Cycle /\ Awake(cycles[c], transport)
      /\ Finished(cycles[c], transport)
  BY DEF RInv, IInv, TypeOK, Cycles, Good
<1>2. UNCHANGED <<cycle, pipeline, transport, read_paused>> BY DEF ReceiveWakes, flow
<1>3. CASE cycles[c].disconnected \/ cycles[c].response_complete
  <2>1. cycles' = [cycles EXCEPT ![c] = s] BY <1>1, <1>3 DEF ReceiveWakes, Cycles
  <2>2. /\ s \in Cycle
        /\ s.more_body <=> cycles[c].more_body
        /\ s.response_complete <=> cycles[c].response_complete
        /\ Finished(s, transport)
    BY <1>1 DEF Cycle, Finished
  <2>3. Awake(s, transport) BY <1>1, <1>3 DEF Cycle, Awake
  <2> HIDE DEF s
  <2>4. QED BY <1>2, <2>1, <2>2, <2>3, OneCycle
<1>4. CASE ~cycles[c].disconnected /\ ~cycles[c].response_complete
  <2>1. cycles' = [cycles EXCEPT ![c] = r]
    BY <1>1, <1>4 DEF ReceiveWakes, Delivered, Cycles
  <2>2. last \in BOOLEAN BY <1>1 DEF Cycle
  <2>3. last <=> cycles[c].end_received \/ ~cycles[c].more_body BY DEF last
  <2> HIDE DEF last
  <2>4. 0 \in 0..MaxBody BY Bounds
  <2>5. /\ r \in Cycle
        /\ r.more_body <=> cycles[c].more_body
        /\ r.response_complete <=> cycles[c].response_complete
        /\ Finished(r, transport)
    BY <1>1, <2>2, <2>4 DEF Cycle, Finished
  <2>6. Awake(r, transport) BY <1>1, <1>4, <2>2, <2>3, DeliveredAwake
  <2> HIDE DEF r
  <2>7. QED BY <1>2, <2>1, <2>5, <2>6, OneCycle
<1>5. QED BY <1>3, <1>4

(* A response is started, whether or not its headers are legal. *)
LEMMA StartKeeps ==
  ASSUME RInv, NEW c \in Requests, SendStart(c) \/ SendInvalidStart(c)
  PROVE  AppKeeps
<1>1. PICK closes \in BOOLEAN :
        cycles' = [cycles EXCEPT ![c].response_started = TRUE,
                                 ![c].waiting_for_100_continue = FALSE,
                                 ![c].keep_alive = @ /\ ~closes]
  BY DEF SendStart, SendInvalidStart
<1> DEFINE stays == cycles[c].keep_alive /\ ~closes
           r == [cycles[c] EXCEPT !.response_started = TRUE,
                   !.waiting_for_100_continue = FALSE, !.keep_alive = stays]
<1>2. cycles[c] \in Cycle /\ Awake(cycles[c], transport) /\ Finished(cycles[c], transport)
  BY DEF RInv, IInv, TypeOK, Good
<1>3. stays \in BOOLEAN BY <1>2 DEF Cycle
<1>4. cycles' = [cycles EXCEPT ![c] = r] BY <1>1
<1>5. UNCHANGED <<cycle, pipeline, transport, read_paused>>
  BY DEF SendStart, SendInvalidStart, flow
<1> HIDE DEF stays
<1>6. /\ r \in Cycle
      /\ r.more_body <=> cycles[c].more_body
      /\ r.response_complete <=> cycles[c].response_complete
  BY <1>2, <1>3 DEF Cycle
<1>7. Awake(r, transport) /\ Finished(r, transport)
  BY <1>2, <1>3 DEF Cycle, Awake, Finished
<1> HIDE DEF r
<1>8. QED BY <1>4, <1>5, <1>6, <1>7, OneCycle

(* A step of run_asgi that ends its task and closes an unfinished response. *)
LEMMA AppEndsKeeps ==
  ASSUME RInv, NEW c \in Requests, AppRaises(c) \/ AppReturns(c) \/ AppReturnsValue(c)
  PROVE  AppKeeps
<1>1. Awake(cycles[c], transport) BY DEF RInv, Good
<1>2. CASE RespondWith500(c) /\ UNCHANGED <<cycle, mode>> BY <1>2, RespondWith500Keeps
<1>3. CASE /\ cycles' = Ended(c, cycles)
           /\ transport' = Closed \/ (LeavesOpen(c) /\ transport' = transport)
           /\ UNCHANGED <<cycle, pipeline, read_paused>>
  <2>1. transport' = "open" => cycles[c].response_complete
    BY <1>1, <1>3 DEF Closed, LeavesOpen, Awake
  <2>2. /\ transport' = "open" => transport = "open"
        /\ transport = "lost" => transport' = "lost"
    BY <1>3 DEF Closed
  <2>3. QED BY <1>3, <2>1, <2>2, EndedKeeps
<1>4. QED BY <1>2, <1>3 DEF AppRaises, AppReturns, AppReturnsValue, flow

(* The last body is sent, or drain() returns to send_500_response. *)
LEMMA CompletesKeeps ==
  ASSUME RInv, NEW c \in Requests, SendLastBody(c) \/ Resume500(c)
  PROVE  AppKeeps
<1>1. /\ TypeOK /\ cycles \in Cycles /\ cycles[c] \in Cycle
      /\ Good(cycles, transport) /\ Keeps(cycles)
      /\ Awake(cycles[c], transport)
  BY DEF RInv, IInv, TypeOK, Cycles, Keeps, Good
<1>2. CASE SendLastBody(c)
  BY <1>1, <1>2, CompleteResponseGood DEF SendLastBody, Good, AppKeeps
<1>3. CASE Resume500(c)
  <2>1. CASE Send500(c) BY <1>3, <2>1, Send500Keeps DEF Resume500
  <2>2. CASE /\ cycles[c].disconnected
             /\ cycles' = Ended(c, cycles)
             /\ UNCHANGED <<pipeline, keep_alive_timer, total_requests, flow, transport>>
    <3>1. transport' # "open" BY <1>1, <2>2 DEF Awake
    <3>2. UNCHANGED <<cycle, pipeline, read_paused, transport>>
      BY <1>3, <2>2 DEF Resume500, flow
    <3>3. QED BY <2>2, <3>1, <3>2, EndedKeeps
  <2>3. CASE CompleteResponse(c, Ended(c, cycles))
    <3> DEFINE e == [cycles[c] EXCEPT !.stage = "done", !.receiving = FALSE]
               cs == [cycles EXCEPT ![c] = e]
    <3>1. Ended(c, cycles) = cs BY <1>1 DEF Ended, Cycles
    <3>2. /\ e \in Cycle
          /\ e.more_body <=> cycles[c].more_body
          /\ e.response_complete <=> cycles[c].response_complete
      BY <1>1 DEF Cycle, Stages
    <3>3. Awake(e, transport) BY <1>1 DEF Awake, Cycle
    <3> HIDE DEF e
    <3>4. cs \in Cycles /\ Keeps(cs) BY <1>1, <3>2 DEF Keeps, Cycles
    <3>5. \A d \in Requests : Awake(cs[d], transport) BY <1>1, <3>3 DEF Good, Cycles
    <3>6. \A d \in Requests \ {c} : Finished(cs[d], transport) BY <1>1 DEF Good, Cycles
    <3> HIDE DEF cs
    <3>7. QED BY <1>1, <2>3, <3>1, <3>4, <3>5, <3>6, CompleteResponseGood DEF AppKeeps
  <2>4. QED BY <1>3, <2>1, <2>2, <2>3 DEF Resume500
<1>4. QED BY <1>2, <1>3

(* Part of a body is sent. *)
LEMMA SendBodyKeeps ==
  ASSUME RInv, NEW c \in Requests, SendBody(c)
  PROVE  AppKeeps
<1>1. UNCHANGED <<cycle, cycles, pipeline, read_paused, transport>>
  BY DEF SendBody, requests
<1>2. Good(cycles', transport') BY <1>1 DEF RInv
<1>3. Pausing' BY <1>1, PausingKept DEF RInv
<1>4. QED BY <1>1, <1>2, <1>3 DEF AppKeeps, Keeps

(* While the parser stands still, what AppKeeps says of the cycles is enough. *)
LEMMA KeptEnd ==
  ASSUME RInv, AppKeeps, UNCHANGED <<cycle, parser>>
  PROVE  EndToCome'
<1>1. parser = "message" => cycle \in Requests BY DEF RInv, IInv, ParserShape
<1>2. QED BY <1>1 DEF EndToCome, AppKeeps, Keeps, Answered, RInv

(* Every step of an application. *)
LEMMA AppStep ==
  ASSUME RInv, NEW c \in Requests, App(c)
  PROVE  Good(cycles', transport') /\ EndToCome' /\ Pausing'
<1>1. AppKeeps
  BY ReceiveKeeps, ReceiveWakesKeeps, StartKeeps, SendBodyKeeps, AppEndsKeeps,
     CompletesKeeps DEF App
<1>2. UNCHANGED <<cycle, parser>>
  BY DEF App, Receive, ReceiveWakes, SendStart, SendInvalidStart, SendBody, SendLastBody,
         AppRaises, AppReturns, AppReturnsValue, Resume500, mode, requests
<1>3. QED BY <1>1, <1>2, KeptEnd DEF AppKeeps

-----------------------------------------------------------------------------
(* The parser and the environment. *)

(* A step that changes no cycle and at most closes the transport. *)
LEMMA SameCycles ==
  ASSUME RInv, UNCHANGED <<cycle, cycles, pipeline, read_paused>>,
         parser' = "message" => parser = "message",
         transport' = "open" => transport = "open",
         transport = "lost" => transport' = "lost"
  PROVE  Good(cycles', transport') /\ EndToCome' /\ Pausing'
<1>1. Good(cycles', transport') BY GoodCloses DEF RInv
<1>2. EndToCome' BY DEF RInv, EndToCome, Answered
<1>3. Pausing' BY PausingKept DEF RInv
<1>4. QED BY <1>1, <1>2, <1>3

(* With no cycle queued, the newest one is the last one begun. *)
LEMMA NewestOrQueued ==
  ASSUME IInv, pipeline = <<>>
  PROVE  begun = cycle
BY DEF IInv, TypeOK, begun

(* A request head: the new cycle has nothing to be told yet; reading is paused
   exactly when it is queued behind an unanswered one. *)
LEMMA HeadersStep ==
  ASSUME RInv, IInv', NEW keep_alive \in KeepAlives, NEW expect \in Expects,
         OnHeadersComplete(keep_alive, expect)
  PROVE  Good(cycles', transport') /\ EndToCome' /\ Pausing'
<1>1. PICK new \in Requests : new = cycle + 1
  <2>1. cycle + 1 \in Requests
    BY Bounds DEF OnHeadersComplete, RInv, IInv, ParserShape, TypeOK, Requests
  <2>2. QED BY <2>1
<1>2. /\ cycles \in Cycles /\ Good(cycles, transport)
      /\ cycle' = new /\ transport' = transport /\ transport = "open"
  BY <1>1 DEF OnHeadersComplete, RInv, IInv, TypeOK, Cycles, ParserShape
<1>3. PICK stage \in {"running", "queued"} :
        cycles' = [cycles EXCEPT ![cycle + 1] = NewCycle(stage, keep_alive, expect)]
  BY DEF OnHeadersComplete
<1> DEFINE r == NewCycle(stage, keep_alive, expect)
<1>4. /\ ~r.receiving /\ ~r.disconnected /\ r.body = 0 /\ r.more_body = TRUE
      /\ ~r.end_received /\ r.stage # "done"
  BY DEF NewCycle
<1>5. cycles' = [cycles EXCEPT ![new] = r] BY <1>1, <1>3
<1> HIDE DEF r
<1>6. Awake(r, transport) /\ Finished(r, transport)
  <2>1. ~(0 > 0) OBVIOUS
  <2>2. QED BY <1>4, <2>1 DEF Awake, Finished
<1>7. Good(cycles', transport') BY <1>1, <1>2, <1>5, <1>6, GoodOne DEF Good
<1>8. EndToCome'
  <2>1. cycles'[cycle'].more_body BY <1>1, <1>2, <1>4, <1>5 DEF Cycles
  <2>2. QED BY <2>1 DEF EndToCome
<1>9. Pausing'
  <2>1. CASE NewestAnswered
    <3>1. UNCHANGED <<pipeline, read_paused>> BY <2>1 DEF OnHeadersComplete
    <3>2. ~read_paused \/ pipeline # <<>>
      <4> SUFFICES ASSUME read_paused, pipeline = <<>> PROVE FALSE
        OBVIOUS
      <4>1. cycle \in Requests /\ ~Answered(cycle)
        BY <1>2, NewestOrQueued DEF RInv, Pausing
      <4>2. cycle # 0 BY <4>1 DEF Requests
      <4>3. QED BY <2>1, <4>1, <4>2 DEF NewestAnswered, Answered
    <3>3. QED BY <3>1, <3>2 DEF Pausing, IInv, Progress
  <2>2. CASE ~NewestAnswered
    <3>1. pipeline' = Append(pipeline, cycle + 1) BY <2>2 DEF OnHeadersComplete
    <3>2. pipeline' # <<>> BY <1>1, <3>1 DEF RInv, IInv, TypeOK
    <3>3. QED BY <3>2 DEF Pausing, IInv, Progress
  <2>3. QED BY <2>1, <2>2
<1>10. QED BY <1>7, <1>8, <1>9

(* A chunk of body: only an unanswered request whose end is still to come gets one,
   and a pause it causes is that of a connection with a response in progress. *)
LEMMA BodyStep ==
  ASSUME RInv, OnBody
  PROVE  Good(cycles', transport') /\ EndToCome' /\ Pausing'
<1>1. /\ cycle \in Requests /\ cycles \in Cycles /\ cycles[cycle] \in Cycle
      /\ transport = "open" /\ ~cycles[cycle].response_complete
      /\ parser = "message"
  BY DEF OnBody, RInv, IInv, ParserShape, TypeOK, Cycles
<1>2. UNCHANGED <<cycle, pipeline, parser, transport>> BY DEF OnBody, mode
<1>3. cycles[cycle].more_body BY <1>1 DEF RInv, EndToCome, Answered
<1>4. Awake(cycles[cycle], transport) /\ Finished(cycles[cycle], transport)
  BY <1>1 DEF RInv, Good
<1> DEFINE r == [cycles[cycle] EXCEPT !.body = BodyAfterChunk, !.message_event = TRUE]
<1>5. cycles' = [cycles EXCEPT ![cycle] = r] BY <1>1 DEF OnBody, Cycles
<1>6. /\ r.message_event /\ r.more_body
      /\ r.disconnected <=> cycles[cycle].disconnected
      /\ r.response_complete <=> cycles[cycle].response_complete
      /\ r.end_received <=> cycles[cycle].end_received
      /\ r.stage = cycles[cycle].stage
  BY <1>1, <1>3 DEF Cycle
<1> HIDE DEF r
<1>7. ~cycles[cycle].end_received BY <1>3, <1>4 DEF Awake
<1>8. Awake(r, transport) /\ Finished(r, transport)
  BY <1>4, <1>6, <1>7 DEF Awake, Finished
<1>9. Good(cycles', transport') BY <1>1, <1>2, <1>5, <1>8, GoodOne DEF RInv, Good
<1>10. EndToCome' BY <1>1, <1>2, <1>5, <1>6 DEF EndToCome, Cycles
<1>11. begun \in Requests /\ ~Answered(begun)
  <2>1. CASE pipeline = <<>> BY <1>1, <2>1, NewestOrQueued DEF RInv, Answered
  <2>2. CASE pipeline # <<>> BY <1>1, <2>2 DEF RInv, IInv, Progress
  <2>3. QED BY <2>1, <2>2
<1>12. begun' = begun BY <1>2 DEF begun
<1>13. cycles'[begun].response_complete <=> cycles[begun].response_complete
  BY <1>1, <1>5, <1>6, <1>11 DEF Cycles
<1>14. Pausing' BY <1>11, <1>12, <1>13 DEF Pausing, Answered
<1>15. QED BY <1>9, <1>10, <1>14

(* The end of a message sets the event of its cycle unless that is answered. *)
LEMMA MessageCompleteStep ==
  ASSUME RInv, OnMessageComplete
  PROVE  Good(cycles', transport') /\ EndToCome' /\ Pausing'
<1>1. /\ cycle \in Requests /\ cycles \in Cycles /\ cycles[cycle] \in Cycle
      /\ parser = "message"
  BY DEF OnMessageComplete, RInv, IInv, ParserShape, TypeOK, Cycles
<1>2. UNCHANGED <<cycle, pipeline, read_paused, transport>> /\ parser' = "between"
  BY DEF OnMessageComplete, flow
<1>3. CASE cycles[cycle].response_complete
  BY <1>2, <1>3, SameCycles DEF OnMessageComplete
<1>4. CASE ~cycles[cycle].response_complete
  <2>1. Awake(cycles[cycle], transport) /\ Finished(cycles[cycle], transport)
        /\ cycles[cycle].more_body
    BY <1>1, <1>4 DEF RInv, Good, EndToCome, Answered
  <2> DEFINE r == [cycles[cycle] EXCEPT !.more_body = FALSE, !.message_event = TRUE]
  <2>2. cycles' = [cycles EXCEPT ![cycle] = r] BY <1>1, <1>4 DEF OnMessageComplete, Cycles
  <2>3. /\ r.message_event
        /\ r.disconnected <=> cycles[cycle].disconnected
        /\ r.response_complete <=> cycles[cycle].response_complete
        /\ r.end_received <=> cycles[cycle].end_received
        /\ r.stage = cycles[cycle].stage
    BY <1>1 DEF Cycle
  <2> HIDE DEF r
  <2>4. Awake(r, transport) /\ Finished(r, transport)
    BY <2>1, <2>3 DEF Awake, Finished
  <2>5. Good(cycles', transport') BY <1>1, <1>2, <2>2, <2>4, GoodOne DEF RInv, Good
  <2>6. \A d \in Requests : cycles'[d].response_complete <=> cycles[d].response_complete
    BY <1>1, <2>2, <2>3 DEF Cycles
  <2>7. Pausing' BY <1>2, <2>6, PausingKept DEF RInv
  <2>8. EndToCome' BY <1>2 DEF EndToCome
  <2>9. QED BY <2>5, <2>7, <2>8
<1>5. QED BY <1>3, <1>4

(* Every parser callback. *)
LEMMA ParseStep ==
  ASSUME RInv, IInv', Parse
  PROVE  Good(cycles', transport') /\ EndToCome' /\ Pausing'
<1>1. CASE DataReceived \/ OnMessageBegin \/ DataConsumed \/ InvalidRequest
           \/ HandleWebsocketUpgrade
  BY <1>1, SameCycles
     DEF DataReceived, OnMessageBegin, DataConsumed, InvalidRequest,
         HandleWebsocketUpgrade, Closed, requests, flow
<1>2. QED BY <1>1, HeadersStep, BodyStep, MessageCompleteStep DEF Parse

(* connection_lost tells the newest cycle, which then has its event set. *)
LEMMA LostStep ==
  ASSUME RInv, NEW exc \in BOOLEAN, ConnectionLost(exc)
  PROVE  Good(cycles', transport') /\ EndToCome' /\ Pausing'
<1>1. UNCHANGED <<cycle, pipeline, parser, read_paused>> /\ transport' = "lost"
  BY DEF ConnectionLost, mode
<1>2. CASE cycle = 0 BY <1>1, <1>2, SameCycles DEF ConnectionLost
<1>3. CASE cycle # 0
  <2>1. cycle \in Requests /\ cycles \in Cycles /\ cycles[cycle] \in Cycle
    BY <1>3, Bounds DEF RInv, IInv, TypeOK, Requests, Cycles
  <2>2. Good(cycles, "lost") BY GoodCloses DEF RInv
  <2> DEFINE told == cycles[cycle].disconnected \/ ~cycles[cycle].response_complete
             r == [cycles[cycle] EXCEPT !.disconnected = told, !.message_event = TRUE]
  <2>3. told \in BOOLEAN BY <2>1 DEF Cycle
  <2>4. cycles' = [cycles EXCEPT ![cycle] = r] BY <1>3, <2>1 DEF ConnectionLost
  <2>5. told \/ cycles[cycle].response_complete OBVIOUS
  <2> HIDE DEF told
  <2>6. /\ r.message_event
        /\ r.disconnected <=> told
        /\ r.response_complete <=> cycles[cycle].response_complete
        /\ r.end_received <=> cycles[cycle].end_received
        /\ r.more_body <=> cycles[cycle].more_body
        /\ r.body = cycles[cycle].body
    BY <2>1, <2>3 DEF Cycle
  <2> HIDE DEF r
  <2>7. Awake(r, "lost") /\ Finished(r, "lost")
    BY <2>1, <2>2, <2>5, <2>6 DEF Good, Awake, Finished
  <2>8. Good(cycles', transport') BY <1>1, <2>1, <2>2, <2>4, <2>7, GoodOne DEF Good
  <2>9. EndToCome' BY <1>1, <2>1, <2>4, <2>6 DEF RInv, EndToCome, Answered, Cycles
  <2>10. QED BY <1>1, <2>8, <2>9 DEF Pausing
<1>4. QED BY <1>2, <1>3

(* shutdown() closes an idle connection; a busy one only loses its keep_alive. *)
LEMMA ShutdownStep ==
  ASSUME RInv, Shutdown
  PROVE  Good(cycles', transport') /\ EndToCome' /\ Pausing'
<1>1. UNCHANGED <<cycle, pipeline, parser, read_paused>> BY DEF Shutdown, flow
<1>2. CASE NewestAnswered BY <1>1, <1>2, SameCycles DEF Shutdown, Closed
<1>3. CASE ~NewestAnswered
  <2>1. cycle \in Requests /\ cycles[cycle] \in Cycle
        /\ Awake(cycles[cycle], transport) /\ Finished(cycles[cycle], transport)
    BY <1>3, Bounds DEF NewestAnswered, RInv, IInv, TypeOK, Requests, Good
  <2> DEFINE r == [cycles[cycle] EXCEPT !.keep_alive = FALSE]
  <2>2. cycles' = [cycles EXCEPT ![cycle] = r] /\ transport' = transport
    BY <1>3 DEF Shutdown
  <2>3. /\ r \in Cycle
        /\ r.more_body <=> cycles[cycle].more_body
        /\ r.response_complete <=> cycles[cycle].response_complete
    BY <2>1 DEF Cycle
  <2>4. Awake(r, transport) /\ Finished(r, transport)
    BY <2>1 DEF Cycle, Awake, Finished
  <2> HIDE DEF r
  <2>5. AppKeeps BY <1>1, <2>1, <2>2, <2>3, <2>4, OneCycle
  <2>6. QED BY <1>1, <2>5, KeptEnd DEF AppKeeps
<1>4. QED BY <1>2, <1>3

(* The transport, the timer and the server. *)
LEMMA EnvironmentStep ==
  ASSUME RInv, Environment
  PROVE  Good(cycles', transport') /\ EndToCome' /\ Pausing'
<1>1. CASE ResumeWriting \/ EofReceived \/ KeepAliveTimeout \/ WebSocketTransport
  BY <1>1, SameCycles
     DEF ResumeWriting, EofReceived, KeepAliveTimeout, WebSocketTransport, Closed,
         requests, flow, mode
<1>2. QED BY <1>1, LostStep, ShutdownStep DEF Environment

-----------------------------------------------------------------------------
(* The theorems. *)

(* The initial state satisfies the invariant. *)
LEMMA InitReceive == ASSUME Init PROVE RInv
<1>1. IInv BY InitInv
<1>2. ASSUME NEW d \in Requests
      PROVE  Awake(cycles[d], transport) /\ Finished(cycles[d], transport)
  <2>1. cycles[d] = NewCycle("none", TRUE, FALSE) BY DEF Init
  <2>2. ~(0 > 0) OBVIOUS
  <2>3. QED BY <2>1, <2>2 DEF Awake, Finished, NewCycle
<1>3. EndToCome /\ Pausing BY DEF Init, EndToCome, Pausing
<1>4. QED BY <1>1, <1>2, <1>3 DEF RInv, Good

(* Every step keeps it. *)
LEMMA StepReceive == ASSUME RInv, [Next]_vars PROVE RInv'
<1>1. IInv' BY StepInv DEF RInv
<1>2. CASE UNCHANGED vars
  <2>1. UNCHANGED <<cycle, cycles, pipeline, read_paused, parser, transport>>
    BY <1>2 DEF vars, requests, flow, mode
  <2>2. QED BY <1>1, <2>1, SameCycles DEF RInv
<1>3. CASE Parse BY <1>1, <1>3, ParseStep DEF RInv
<1>4. ASSUME NEW c \in Requests, App(c) PROVE RInv'
  BY <1>1, <1>4, AppStep DEF RInv
<1>5. CASE Environment BY <1>1, <1>5, EnvironmentStep DEF RInv
<1>6. QED BY <1>2, <1>3, <1>4, <1>5 DEF Next

(* In every reachable state each cycle's event is set when it has something to tell,
   and paused reading has an unanswered response that will resume it. *)
THEOREM ReceiveInvariance == Spec => []RInv
<1>1. Init => RInv BY InitReceive
<1>2. RInv /\ [Next]_vars => RInv' BY StepReceive
<1>3. QED BY <1>1, <1>2, PTL DEF Spec

(* A task waiting in receive() is due to wake whenever it has something to learn,
   in whatever order chunks, disconnects and the response came. *)
THEOREM ReceiveWakesUp == Spec => []NoLostWakeup
<1>1. RInv => NoLostWakeup BY DEF RInv, Good, Awake, NoLostWakeup
<1>2. QED BY <1>1, ReceiveInvariance, PTL

(* After the end of the body receive returns nothing but http.disconnect. *)
THEOREM EndIsFinal == Spec => []EndOfBodyIsFinal
<1>1. RInv => EndOfBodyIsFinal BY DEF RInv, Good, Awake, EndOfBodyIsFinal, Answered
<1>2. QED BY <1>1, ReceiveInvariance, PTL

(* A request whose task is over was answered, or its connection is not open. *)
THEOREM NeverAbandoned == Spec => []NoAbandonedResponse
<1>1. RInv => NoAbandonedResponse
  BY DEF RInv, Good, Finished, NoAbandonedResponse, Answered
<1>2. QED BY <1>1, ReceiveInvariance, PTL

(* Paused reading on an open connection waits for a response that a running task
   still owes. *)
THEOREM ReadingResumes == Spec => []NoReadDeadlock
<1>1. RInv => NoReadDeadlock
  <2> SUFFICES ASSUME RInv, read_paused, transport = "open"
               PROVE  \E c \in Requests :
                        Started(c) /\ cycles[c].stage # "done" /\ ~Answered(c)
    BY DEF NoReadDeadlock
  <2>1. begun \in Requests /\ ~Answered(begun) BY DEF RInv, Pausing
  <2>2. cycles[begun].stage # "done" BY <2>1 DEF RInv, Good, Finished, Answered
  <2>3. Started(begun)
    <3>1. begun \in Int /\ begun <= cycle /\ ~(begun > cycle) /\ ~(begun < begun)
      BY Bounds DEF RInv, IInv, TypeOK, PipelineShape, begun
    <3>2. QED BY <2>1, <3>1 DEF RInv, IInv, StageShape, Started
  <2>4. QED BY <2>1, <2>2, <2>3
<1>2. QED BY <1>1, ReceiveInvariance, PTL
=============================================================================
