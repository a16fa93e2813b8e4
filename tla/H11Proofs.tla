------------------------------ MODULE H11Proofs ------------------------------
(***************************************************************************)
(* Proofs about H11Connection, for any number of requests, any body sizes  *)
(* and any high-water mark: its invariants, and that it implements         *)
(* Pipelining.                                                             *)
(*                                                                         *)
(* The argument is about what h11's two states, which uvicorn shares with  *)
(* it and never stores, say of the newest cycle: ConnShape and Progress.   *)
(***************************************************************************)
EXTENDS H11Connection, TLAPS

InProgress == cycle \in Requests /\ ~cycles[cycle].response_complete

(* The types, in three parts. *)
FlagsTyped ==
  /\ cycle \in 0..MaxRequests
  /\ keep_alive_timer \in BOOLEAN /\ total_requests \in Nat
  /\ feeding \in BOOLEAN /\ transport \in {"open", "closing", "lost"}
  /\ read_paused \in BOOLEAN /\ write_paused \in BOOLEAN
  /\ upgraded \in BOOLEAN /\ shut \in {"no", "returned", "raised"}
CyclesTyped == cycles \in [Requests -> Cycle]
ConnTyped == conn \in Conn

(* Which cycles there are, that all before the newest are answered, and how far
   the response of a cycle is in each stage of its task. *)
StageShape ==
  \A c \in Requests :
    LET r == cycles[c]
    IN  /\ r.stage = "none" <=> c > cycle
        /\ r.stage = "none" => ~r.response_started
        /\ c < cycle => r.response_complete
        /\ r.response_complete => r.response_started
        /\ r.stage = "start_500" => ~r.response_started
        /\ r.stage = "body_500" => r.response_started /\ ~r.response_complete
        /\ r.disconnected => transport = "lost"

(* h11's two states: both idle or neither; on an open connection neither side has
   been closed, and one that has sent its response waits for the request's end. *)
ConnShape ==
  /\ conn.their = "idle" <=> conn.our = "idle"
  /\ transport = "open" => /\ conn.our \notin {"must_close", "closed"}
                           /\ conn.their # "error"
                           /\ conn.our = "done" => conn.their = "body"
  /\ conn.their = "must_close" => ~conn.reuse \/ conn.our \in {"closed", "error"}
  /\ conn.buffered => conn.their \notin {"idle", "body"}

(* Events are handled on open connections only, and none after an upgrade. *)
ModeShape ==
  /\ feeding => transport = "open" /\ ~upgraded
  /\ upgraded => /\ conn.their = "body" /\ conn.our = "respond"
                 /\ ~keep_alive_timer /\ ~read_paused /\ ~InProgress

(* What h11's states say of the newest cycle. *)
Progress ==
  /\ conn.our = "body" => InProgress /\ cycles[cycle].response_started
  /\ conn.our = "respond" => InProgress \/ upgraded
  /\ conn.our \in {"idle", "done"} \/ keep_alive_timer => ~InProgress
  /\ conn.their = "body" => upgraded \/ (cycle \in Requests /\ cycles[cycle].more_body)

(* The responses counted: all but the one in progress, unless h11 has refused. *)
Counting ==
  /\ InProgress => total_requests = cycle - 1
  /\ conn.our \in {"idle", "done"} => total_requests = cycle

(* Who is to resume reading, and that a task that is over has answered. *)
Attended ==
  transport = "open" /\ conn.our # "error" =>
    /\ read_paused => InProgress
    /\ \A c \in Requests : cycles[c].stage = "done" => cycles[c].response_complete

(* What receive() must find of one cycle, whether or not a task waits in it. *)
Awake(r) ==
  LET over == r.disconnected \/ r.response_complete
  IN  /\ r.body > 0 \/ (~r.more_body /\ ~r.end_received) => r.message_event \/ over
      /\ r.receiving /\ over => r.message_event
      /\ r.end_received => /\ r.body = 0 /\ ~r.more_body
                           /\ r.message_event => over
Awaken == \A c \in Requests : Awake(cycles[c])

IInv ==
  /\ FlagsTyped /\ CyclesTyped /\ ConnTyped
  /\ StageShape /\ ConnShape /\ ModeShape /\ Progress /\ Counting
  /\ Attended /\ Awaken

-----------------------------------------------------------------------------
(* h11's machine. *)

(* What a transition of our side, to "body" or beyond, makes of the connection. *)
LEMMA OursFacts ==
  ASSUME NEW h \in Conn, NEW state \in {"body", "done", "closed", "error"}
  PROVE  /\ Ours(h, state) \in Conn
         /\ Ours(h, state).reuse = h.reuse /\ Ours(h, state).buffered = h.buffered
         /\ Ours(h, state).our =
              IF state = "done" /\ (~h.reuse \/ h.their = "error")
              THEN "must_close" ELSE state
         /\ Ours(h, state).their =
              IF \/ h.their = "done" /\ (~h.reuse \/ state \in {"closed", "error"})
                 \/ h.their = "idle" /\ state = "closed"
              THEN "must_close" ELSE h.their
<1> DEFINE g == [h EXCEPT !.our = state]
           their == IF \/ h.their = "done" /\ (~h.reuse \/ state \in {"closed", "error"})
                       \/ h.their = "idle" /\ state = "closed"
                    THEN "must_close" ELSE h.their
           our == IF state = "done" /\ (~h.reuse \/ h.their = "error")
                  THEN "must_close" ELSE state
<1>1. g.their = h.their /\ g.our = state /\ g.reuse = h.reuse /\ g.buffered = h.buffered
  BY DEF Conn
<1>2. Ours(h, state) = [g EXCEPT !.their = their, !.our = our]
  BY <1>1, Zenon DEF Ours, Fire
<1>3. our \in {"done", "must_close", "closed", "error", "body"} OBVIOUS
<1>4. their \in {"idle", "body", "done", "must_close", "error"} BY DEF Conn
<1>5. g \in Conn BY ZenonT(60) DEF Conn
<1> HIDE DEF g, our, their
<1>6. [g EXCEPT !.their = their, !.our = our] \in Conn
  BY <1>3, <1>4, <1>5, ZenonT(60) DEF Conn
<1>7. QED BY <1>1, <1>2, <1>5, <1>6 DEF Conn, our, their

(* What the end of the request, or an error in it, makes of the connection. *)
LEMMA TheirsFacts ==
  ASSUME NEW h \in Conn, NEW state \in {"done", "error"}
  PROVE  /\ Theirs(h, state) \in Conn
         /\ Theirs(h, state).reuse = h.reuse /\ Theirs(h, state).buffered = h.buffered
         /\ Theirs(h, state).our =
              IF h.our = "done" /\ (~h.reuse \/ state = "error")
              THEN "must_close" ELSE h.our
         /\ Theirs(h, state).their =
              IF state = "done" /\ (~h.reuse \/ h.our \in {"closed", "error"})
              THEN "must_close" ELSE state
<1> DEFINE g == [h EXCEPT !.their = state]
           their == IF state = "done" /\ (~h.reuse \/ h.our \in {"closed", "error"})
                    THEN "must_close" ELSE state
           our == IF h.our = "done" /\ (~h.reuse \/ state = "error")
                  THEN "must_close" ELSE h.our
<1>1. g.their = state /\ g.our = h.our /\ g.reuse = h.reuse /\ g.buffered = h.buffered
  BY DEF Conn
<1>2. Theirs(h, state) = [g EXCEPT !.their = their, !.our = our]
  BY <1>1, Zenon DEF Theirs, Fire
<1>3. our \in {"idle", "respond", "body", "done", "must_close", "closed", "error"}
  BY DEF Conn
<1>4. their \in {"idle", "body", "done", "must_close", "error"} BY DEF Conn
<1>5. g \in Conn BY ZenonT(60) DEF Conn
<1> HIDE DEF g, our, their
<1>6. [g EXCEPT !.their = their, !.our = our] \in Conn
  BY <1>3, <1>4, <1>5, ZenonT(60) DEF Conn
<1>7. QED BY <1>1, <1>2, <1>5, <1>6 DEF Conn, our, their

(* A refused send and a close leave h11's connection in the error state or closed. *)
LEMMA ClosedFacts ==
  ASSUME NEW h \in Conn
  PROVE  /\ Failed(h) \in Conn /\ Failed(h).our = "error"
         /\ Failed(h).their = IF h.their = "done" THEN "must_close" ELSE h.their
         /\ Failed(h).buffered = h.buffered
         /\ ClosedBy(h) \in Conn
         /\ ClosedBy(h).our = IF MayClose(h) THEN "closed" ELSE "error"
         /\ ClosedBy(h).their =
              IF h.their = "done" \/ (MayClose(h) /\ h.their = "idle")
              THEN "must_close" ELSE h.their
         /\ ClosedBy(h).buffered = h.buffered
BY OursFacts DEF Failed, ClosedBy

(* The connection that is used for another request, or no longer. *)
LEMMA ReuseFacts ==
  ASSUME NEW h \in Conn, NEW b \in BOOLEAN, NEW g, g = [h EXCEPT !.reuse = b]
  PROVE  /\ g \in Conn /\ g.reuse = b
         /\ g.their = h.their /\ g.our = h.our /\ g.buffered = h.buffered
<1>1. g \in Conn BY ZenonT(60) DEF Conn
<1>2. QED BY <1>1 DEF Conn

(* start_next_cycle leaves both sides idle. *)
LEMMA NextCycleFacts ==
  ASSUME NEW h \in Conn
  PROVE  /\ NextCycle(h) \in Conn
         /\ NextCycle(h).their = "idle" /\ NextCycle(h).our = "idle"
         /\ ~NextCycle(h).buffered
<1>1. NextCycle(h) \in Conn BY ZenonT(60) DEF NextCycle, Conn
<1>2. QED BY <1>1 DEF NextCycle, Conn

-----------------------------------------------------------------------------
(* The steps, with those of a task reduced to what they mean for the connection. *)

(* A step of the task of cycle c: it leaves alone the other cycles, and what the
   parser and receive() know of its own. *)
TaskStep(c) ==
  LET r == cycles[c]
      s == cycles'[c]
  IN  /\ ~feeding /\ r.stage \notin {"none", "done"} /\ s.stage # "none"
      /\ cycles' \in [Requests -> Cycle]
      /\ \A d \in Requests \ {c} : cycles'[d] = cycles[d]
      /\ s.disconnected = r.disconnected /\ s.body = r.body
      /\ s.more_body = r.more_body /\ s.end_received = r.end_received
      /\ s.receiving \in {r.receiving, FALSE}
      /\ write_paused' \in BOOLEAN
      /\ UNCHANGED <<cycle, mode>>

SameResponse(c) ==
  /\ cycles'[c].response_complete = cycles[c].response_complete
  /\ cycles'[c].message_event = cycles[c].message_event

(* The task is over, with nothing left to say; or it closes the transport. *)
TaskOver(c) ==
  /\ TaskStep(c) /\ SameResponse(c) /\ cycles'[c].stage = "done"
  /\ cycles'[c].response_started = cycles[c].response_started
  /\ cycles[c].disconnected \/ cycles[c].response_complete
  /\ UNCHANGED <<conn, idle, feeding, transport, read_paused>>

TaskCloses(c) ==
  /\ TaskStep(c) /\ SameResponse(c) /\ cycles'[c].stage = "done"
  /\ cycles'[c].response_started = cycles[c].response_started
  /\ transport' = Closed
  /\ UNCHANGED <<conn, idle, feeding, read_paused>>

(* h11 refuses the 500, and the exception ends the task. *)
TaskRefused(c) ==
  /\ TaskStep(c) /\ SameResponse(c) /\ cycles'[c].stage = "done"
  /\ cycles'[c].response_started \in {cycles[c].response_started, TRUE}
  /\ ~cycles[c].response_complete
  /\ conn' = Failed(conn)
  /\ UNCHANGED <<idle, feeding, transport, read_paused>>

(* The 500 waits for drain() before its head, or before its body. *)
HeadWaits(c) ==
  /\ TaskStep(c) /\ SameResponse(c) /\ cycles'[c].stage = "start_500"
  /\ ~cycles[c].response_started /\ ~cycles'[c].response_started
  /\ UNCHANGED <<conn, idle, feeding, transport, read_paused>>

BodyWaits(c) ==
  /\ TaskStep(c) /\ SameResponse(c) /\ cycles'[c].stage = "body_500"
  /\ ~cycles[c].response_started /\ cycles'[c].response_started
  /\ ~cycles[c].response_complete
  /\ conn.our = "respond"
  /\ conn' = Ours([conn EXCEPT !.reuse = FALSE], "body")
  /\ UNCHANGED <<idle, feeding, transport, read_paused>>

(* on_response_complete leaves the connection of h11, h before, closing; or starts
   the next cycle; or waits for the end of the request that has been answered. *)
LastAnswer(h) ==
  /\ transport' = Closed /\ transport' # "open"
  /\ conn' \in Conn /\ conn'.our \in {"done", "closed"}
  /\ conn'.their \in {h.their, "must_close"} /\ conn'.buffered = h.buffered
  /\ conn'.their = "must_close" => ~conn'.reuse \/ conn'.our = "closed"
  /\ UNCHANGED <<keep_alive_timer, read_paused, feeding>>

NextStarts ==
  /\ transport = "open" /\ transport' = "open"
  /\ conn' \in Conn /\ conn'.our = "idle" /\ conn'.their = "idle" /\ ~conn'.buffered
  /\ keep_alive_timer' = TRUE /\ read_paused' = FALSE /\ feeding' \in BOOLEAN

RequestUnfinished(h) ==
  /\ transport = "open" /\ transport' = "open"
  /\ conn' \in Conn /\ conn'.our = "done" /\ conn'.buffered = h.buffered
  /\ h.their = "body" /\ conn'.their = "body"
  /\ keep_alive_timer' = TRUE /\ read_paused' = FALSE /\ UNCHANGED feeding

AnswersBy(h) == LastAnswer(h) \/ NextStarts \/ RequestUnfinished(h)

Answers(c) ==
  /\ TaskStep(c) /\ cycles'[c].stage \in {"running", "done"}
  /\ ~cycles[c].response_complete
  /\ cycles'[c].response_started /\ cycles'[c].response_complete
  /\ cycles'[c].message_event
  /\ total_requests' = total_requests + 1
  /\ AnswersBy(conn)

TaskSteps(c) ==
  \/ TaskOver(c) \/ TaskCloses(c) \/ TaskRefused(c)
  \/ HeadWaits(c) \/ BodyWaits(c) \/ Answers(c)

Step ==
  \/ HandleEvents
  \/ \E c \in Requests :
        \/ Receive(c) \/ ReceiveWakes(c)
        \/ SendStart(c) \/ SendBody(c) \/ SendShortBody(c)
        \/ TaskSteps(c)
  \/ Environment
  \/ UNCHANGED vars

-----------------------------------------------------------------------------
(* What the operators on cycles do. *)

(* A new cycle is a cycle. *)
LEMMA NewCycleType ==
  ASSUME NEW stage \in Stages, NEW expect \in BOOLEAN
  PROVE  NewCycle(stage, expect) \in Cycle
BY ConstantsAssumption DEF NewCycle, Cycle

(* Replacing one cycle leaves the others alone. *)
LEMMA Replaced ==
  ASSUME NEW cs \in [Requests -> Cycle], NEW c \in Requests, NEW r \in Cycle,
         NEW ds, ds = [cs EXCEPT ![c] = r]
  PROVE  /\ ds \in [Requests -> Cycle] /\ ds[c] = r
         /\ \A d \in Requests \ {c} : ds[d] = cs[d]
OBVIOUS

(* The end of a task changes only its stage and receiving. *)
LEMMA EndedFacts ==
  ASSUME NEW cs \in [Requests -> Cycle], NEW c \in Requests
  PROVE  /\ Ended(c, cs) \in [Requests -> Cycle]
         /\ \A d \in Requests \ {c} : Ended(c, cs)[d] = cs[d]
         /\ LET r == cs[c]
                s == Ended(c, cs)[c]
            IN  /\ s.stage = "done" /\ s.receiving = FALSE
                /\ s.disconnected = r.disconnected /\ s.body = r.body
                /\ s.more_body = r.more_body /\ s.end_received = r.end_received
                /\ s.response_started = r.response_started
                /\ s.response_complete = r.response_complete
                /\ s.message_event = r.message_event
<1> DEFINE r == [cs[c] EXCEPT !.stage = "done", !.receiving = FALSE]
<1>1. r \in Cycle BY ZenonT(60) DEF Cycle, Stages
<1>2. Ended(c, cs) = [cs EXCEPT ![c] = r] BY DEF Ended
<1>3. /\ r.stage = "done" /\ r.receiving = FALSE
      /\ r.disconnected = cs[c].disconnected /\ r.body = cs[c].body
      /\ r.more_body = cs[c].more_body /\ r.end_received = cs[c].end_received
      /\ r.response_started = cs[c].response_started
      /\ r.response_complete = cs[c].response_complete
      /\ r.message_event = cs[c].message_event
  BY DEF Cycle
<1> HIDE DEF r
<1>4. QED BY <1>1, <1>2, <1>3, Replaced

(* The last body message sets response_complete and message_event. *)
LEMMA AnsweredFacts ==
  ASSUME NEW cs \in [Requests -> Cycle], NEW c \in Requests
  PROVE  /\ Answered(c, cs) \in [Requests -> Cycle]
         /\ \A d \in Requests \ {c} : Answered(c, cs)[d] = cs[d]
         /\ LET r == cs[c]
                s == Answered(c, cs)[c]
            IN  /\ s.response_complete /\ s.message_event
                /\ s.stage = r.stage /\ s.receiving = r.receiving
                /\ s.disconnected = r.disconnected /\ s.body = r.body
                /\ s.more_body = r.more_body /\ s.end_received = r.end_received
                /\ s.response_started = r.response_started
<1> DEFINE r == [cs[c] EXCEPT !.response_complete = TRUE, !.message_event = TRUE]
<1>1. r \in Cycle BY ZenonT(60) DEF Cycle
<1>2. Answered(c, cs) = [cs EXCEPT ![c] = r] BY DEF Answered
<1>3. /\ r.response_complete /\ r.message_event
      /\ r.stage = cs[c].stage /\ r.receiving = cs[c].receiving
      /\ r.disconnected = cs[c].disconnected /\ r.body = cs[c].body
      /\ r.more_body = cs[c].more_body /\ r.end_received = cs[c].end_received
      /\ r.response_started = cs[c].response_started
  BY DEF Cycle
<1> HIDE DEF r
<1>4. QED BY <1>1, <1>2, <1>3, Replaced

(* The cycle c once the head of its 500 is sent, and once its task is moved on. *)
Head500(c) ==
  [cycles EXCEPT ![c].response_started = TRUE, ![c].receiving = FALSE,
                 ![c].waiting_for_100_continue = FALSE]
Moved(c, cs, stage) == [cs EXCEPT ![c].stage = stage]

(* The head of the 500 sets response_started. *)
LEMMA Head500Facts ==
  ASSUME cycles \in [Requests -> Cycle], NEW c \in Requests
  PROVE  /\ Head500(c) \in [Requests -> Cycle]
         /\ \A d \in Requests \ {c} : Head500(c)[d] = cycles[d]
         /\ LET r == cycles[c]
                s == Head500(c)[c]
            IN  /\ s.response_started = TRUE /\ s.receiving = FALSE
                /\ s.stage = r.stage
                /\ s.disconnected = r.disconnected /\ s.body = r.body
                /\ s.more_body = r.more_body /\ s.end_received = r.end_received
                /\ s.response_complete = r.response_complete
                /\ s.message_event = r.message_event
<1> DEFINE r == [cycles[c] EXCEPT !.response_started = TRUE, !.receiving = FALSE,
                              !.waiting_for_100_continue = FALSE]
<1>1. r \in Cycle BY ZenonT(60) DEF Cycle
<1>2. Head500(c) = [cycles EXCEPT ![c] = r] BY DEF Head500
<1>3. /\ r.response_started = TRUE /\ r.receiving = FALSE
      /\ r.stage = cycles[c].stage
      /\ r.disconnected = cycles[c].disconnected /\ r.body = cycles[c].body
      /\ r.more_body = cycles[c].more_body /\ r.end_received = cycles[c].end_received
      /\ r.response_complete = cycles[c].response_complete
      /\ r.message_event = cycles[c].message_event
  BY DEF Cycle
<1> HIDE DEF r
<1>4. /\ Head500(c) \in [Requests -> Cycle] /\ Head500(c)[c] = r
      /\ \A d \in Requests \ {c} : Head500(c)[d] = cycles[d]
  BY <1>1, <1>2
<1>5. QED BY <1>3, <1>4

(* A task is moved on to another stage. *)
LEMMA StageFacts ==
  ASSUME NEW cs \in [Requests -> Cycle], NEW c \in Requests, NEW stage \in Stages
  PROVE  /\ Moved(c, cs, stage) \in [Requests -> Cycle]
         /\ \A d \in Requests \ {c} : Moved(c, cs, stage)[d] = cs[d]
         /\ LET r == cs[c]
                s == Moved(c, cs, stage)[c]
            IN  /\ s.stage = stage
                /\ s.disconnected = r.disconnected /\ s.body = r.body
                /\ s.more_body = r.more_body /\ s.end_received = r.end_received
                /\ s.receiving = r.receiving
                /\ s.response_started = r.response_started
                /\ s.response_complete = r.response_complete
                /\ s.message_event = r.message_event
<1> DEFINE r == [cs[c] EXCEPT !.stage = stage]
<1>1. r \in Cycle BY ZenonT(60) DEF Cycle
<1>2. Moved(c, cs, stage) = [cs EXCEPT ![c] = r] BY DEF Moved
<1>3. /\ r.stage = stage
      /\ r.disconnected = cs[c].disconnected /\ r.body = cs[c].body
      /\ r.more_body = cs[c].more_body /\ r.end_received = cs[c].end_received
      /\ r.receiving = cs[c].receiving
      /\ r.response_started = cs[c].response_started
      /\ r.response_complete = cs[c].response_complete
      /\ r.message_event = cs[c].message_event
  BY DEF Cycle
<1> HIDE DEF r
<1>4. QED BY <1>1, <1>2, <1>3, Replaced

(* A cycle whose task exists and whose response is not complete is the newest. *)
LEMMA Newest ==
  ASSUME FlagsTyped, CyclesTyped, StageShape, NEW c \in Requests,
         cycles[c].stage # "none", ~cycles[c].response_complete
  PROVE  c = cycle /\ InProgress
BY ConstantsAssumption DEF FlagsTyped, StageShape, Requests, InProgress

(* The end of a response, in each of its three outcomes. *)
LEMMA CompleteFacts ==
  ASSUME FlagsTyped, NEW c \in Requests, NEW cs \in [Requests -> Cycle],
         NEW h \in Conn, h.our = "body", h.their # "idle",
         h.their = "must_close" => ~h.reuse, CompleteResponse(c, cs, h)
  PROVE  /\ cycles' = Answered(c, cs)
         /\ total_requests' = total_requests + 1
         /\ LastAnswer(h) \/ (h.reuse /\ (NextStarts \/ RequestUnfinished(h)))
<1> DEFINE ended == Ours(h, "done")
           closes == ended.our = "must_close" \/ ~cs[c].keep_alive
           closed == ClosedBy(ended)
<1>1. /\ ended \in Conn /\ ended.reuse = h.reuse /\ ended.buffered = h.buffered
      /\ ended.our = IF ~h.reuse \/ h.their = "error" THEN "must_close" ELSE "done"
      /\ ended.their = IF h.their = "done" /\ ~h.reuse THEN "must_close" ELSE h.their
  BY OursFacts
<1>2. /\ closed \in Conn /\ closed.our = "closed" /\ closed.buffered = h.buffered
      /\ closed.their \in {h.their, "must_close"}
  BY <1>1, ClosedFacts DEF MayClose
<1>3. /\ NextCycle(ended) \in Conn /\ ~NextCycle(ended).buffered
      /\ NextCycle(ended).their = "idle" /\ NextCycle(ended).our = "idle"
  BY <1>1, NextCycleFacts
<1>4. /\ cycles' = Answered(c, cs)
      /\ transport' = IF closes THEN Closed ELSE transport
      /\ OnResponseComplete(IF closes THEN closed ELSE ended, closes \/ is_closing)
  BY DEF CompleteResponse
<1>5. h.their \in {"body", "done", "must_close", "error"} BY DEF Conn
<1>6. ended.buffered \in BOOLEAN BY <1>1 DEF Conn
<1> HIDE DEF ended, closed, closes
<1>7. CASE closes
  BY <1>2, <1>4, <1>7 DEF OnResponseComplete, LastAnswer, Closed, FlagsTyped
<1>8. CASE ~closes /\ is_closing
  <2>1. h.reuse /\ h.their # "error" BY <1>1, <1>8 DEF closes
  <2>2. QED
    BY <1>1, <1>4, <1>8, <2>1
    DEF OnResponseComplete, LastAnswer, Closed, FlagsTyped, is_closing
<1>9. CASE ~closes /\ ~is_closing
  <2>1. h.reuse /\ h.their # "error" BY <1>1, <1>9 DEF closes
  <2>2. QED
    BY <1>1, <1>3, <1>4, <1>5, <1>6, <1>9, <2>1
    DEF OnResponseComplete, NextStarts, RequestUnfinished, FlagsTyped, is_closing
<1>10. QED
  <2>1. total_requests' = total_requests + 1 BY <1>4 DEF OnResponseComplete
  <2>2. QED BY <1>4, <1>7, <1>8, <1>9, <2>1

-----------------------------------------------------------------------------
(* Every step of the specification is a Step. *)

Typed == FlagsTyped /\ CyclesTyped /\ ConnTyped

(* send_500_response waits, is refused, or answers. *)
LEMMA Send500IsStep ==
  ASSUME Typed, StageShape, ConnShape, Progress,
         NEW c \in Requests, ~feeding, cycles[c].stage \in {"running", "start_500"},
         ~cycles[c].response_started, Send500(c), UNCHANGED <<cycle, mode>>
  PROVE  TaskSteps(c)
<1> USE DEF Typed, CyclesTyped, ConnTyped
<1>1. ~cycles[c].response_complete BY DEF StageShape
<1>2. c = cycle /\ InProgress BY <1>1, Newest
<1>3. conn.our # "idle" /\ conn.their # "idle" BY <1>2 DEF Progress, ConnShape
<1> DEFINE cs == Head500(c)
           g == [conn EXCEPT !.reuse = FALSE]
           h == Ours(g, "body")
<1>4. /\ cs \in [Requests -> Cycle]
      /\ \A d \in Requests \ {c} : cs[d] = cycles[d]
      /\ cs[c].response_started = TRUE /\ cs[c].receiving = FALSE
      /\ cs[c].stage = cycles[c].stage
      /\ cs[c].disconnected = cycles[c].disconnected /\ cs[c].body = cycles[c].body
      /\ cs[c].more_body = cycles[c].more_body
      /\ cs[c].end_received = cycles[c].end_received
      /\ cs[c].response_complete = cycles[c].response_complete
      /\ cs[c].message_event = cycles[c].message_event
  BY Head500Facts
<1>5. /\ h \in Conn /\ h.our = "body" /\ ~h.reuse /\ h.buffered = conn.buffered
      /\ h.their = IF conn.their = "done" THEN "must_close" ELSE conn.their
  <2>1. /\ g \in Conn /\ g.reuse = FALSE /\ g.their = conn.their
        /\ g.buffered = conn.buffered
    BY ReuseFacts
  <2> HIDE DEF g
  <2>2. QED BY <2>1, OursFacts
<1> HIDE DEF cs, h
<1>7. CASE cycles[c].disconnected /\ Finishes(c)
  BY <1>7, EndedFacts
  DEF TaskSteps, TaskOver, TaskStep, SameResponse, Finishes, FlagsTyped, idle, flow, mode
<1>8. CASE /\ cycles' = Ended(c, cs) /\ SendFails
           /\ UNCHANGED <<idle, feeding, transport, read_paused>>
  <2> DEFINE es == Ended(c, cs)
  <2>1. /\ es \in [Requests -> Cycle]
        /\ \A d \in Requests \ {c} : es[d] = cs[d]
        /\ es[c].stage = "done" /\ es[c].receiving = FALSE
        /\ es[c].disconnected = cs[c].disconnected /\ es[c].body = cs[c].body
        /\ es[c].more_body = cs[c].more_body
        /\ es[c].end_received = cs[c].end_received
        /\ es[c].response_started = cs[c].response_started
        /\ es[c].response_complete = cs[c].response_complete
        /\ es[c].message_event = cs[c].message_event
    BY <1>4, EndedFacts
  <2>2. cycles' = es BY <1>8
  <2> HIDE DEF es
  <2>3. write_paused' \in BOOLEAN BY <1>8 DEF SendFails, FlagsTyped
  <2>4. TaskStep(c) BY <1>4, <2>1, <2>2, <2>3 DEF TaskStep, mode
  <2>5. QED
    BY <1>1, <1>4, <1>8, <2>1, <2>2, <2>4
    DEF TaskSteps, TaskRefused, SameResponse, SendFails
<1> USE DEF Stages
<1>9. CASE /\ conn.our = "respond" /\ write_paused'
           /\ Write /\ cycles' = [cs EXCEPT ![c].stage = "body_500"] /\ conn' = h
           /\ UNCHANGED <<idle, feeding, transport, read_paused>>
  <2>1. write_paused' \in BOOLEAN BY <1>9 DEF Write, FlagsTyped
  <2> DEFINE ms == Moved(c, cs, "body_500")
  <2>2. cycles' = ms BY <1>9 DEF Moved
  <2>3. "body_500" \in Stages OBVIOUS
  <2> HIDE DEF Stages
  <2>4. /\ cycles' \in [Requests -> Cycle]
        /\ \A d \in Requests \ {c} : cycles'[d] = cs[d]
        /\ cycles'[c].stage = "body_500"
        /\ cycles'[c].disconnected = cs[c].disconnected /\ cycles'[c].body = cs[c].body
        /\ cycles'[c].more_body = cs[c].more_body
        /\ cycles'[c].end_received = cs[c].end_received
        /\ cycles'[c].receiving = cs[c].receiving
        /\ cycles'[c].response_started = cs[c].response_started
        /\ cycles'[c].response_complete = cs[c].response_complete
        /\ cycles'[c].message_event = cs[c].message_event
    BY <1>4, <2>2, <2>3, StageFacts
  <2>5. TaskStep(c)
    BY <1>4, <2>1, <2>4 DEF TaskStep, mode
  <2>6. QED
    BY <1>1, <1>4, <1>9, <2>4, <2>5 DEF TaskSteps, BodyWaits, SameResponse, h
<1>10. CASE Write /\ CompleteResponse(c, Ended(c, cs), h)
  <2>1. write_paused' \in BOOLEAN BY <1>10 DEF Write, FlagsTyped
  <2> DEFINE es == Ended(c, cs)
  <2>2. /\ es \in [Requests -> Cycle]
        /\ \A d \in Requests \ {c} : es[d] = cs[d]
        /\ es[c].stage = "done" /\ es[c].receiving = FALSE
        /\ es[c].disconnected = cs[c].disconnected /\ es[c].body = cs[c].body
        /\ es[c].more_body = cs[c].more_body
        /\ es[c].end_received = cs[c].end_received
        /\ es[c].response_started = cs[c].response_started
    BY <1>4, EndedFacts
  <2> HIDE DEF es
  <2>3. /\ cycles' = Answered(c, es)
        /\ total_requests' = total_requests + 1
        /\ LastAnswer(h)
    BY <1>3, <1>5, <1>10, <2>2, CompleteFacts DEF es
  <2>4. /\ cycles' \in [Requests -> Cycle]
        /\ \A d \in Requests \ {c} : cycles'[d] = es[d]
        /\ cycles'[c].response_complete /\ cycles'[c].message_event
        /\ cycles'[c].stage = "done" /\ cycles'[c].receiving = FALSE
        /\ cycles'[c].disconnected = es[c].disconnected /\ cycles'[c].body = es[c].body
        /\ cycles'[c].more_body = es[c].more_body
        /\ cycles'[c].end_received = es[c].end_received
        /\ cycles'[c].response_started = es[c].response_started
    BY <2>2, <2>3, AnsweredFacts
  <2>5. TaskStep(c) BY <1>4, <2>1, <2>2, <2>4 DEF TaskStep, mode
  <2>6. LastAnswer(conn) BY <1>5, <2>3 DEF LastAnswer
  <2>7. QED
    BY <1>1, <1>4, <2>2, <2>3, <2>4, <2>5, <2>6 DEF TaskSteps, Answers, AnswersBy
<1>11. QED BY <1>7, <1>8, <1>9, <1>10 DEF Send500, cs, h, Head500

(* send_500_response waits for drain() first when writing is paused. *)
LEMMA RespondWith500IsStep ==
  ASSUME Typed, StageShape, ConnShape, Progress,
         NEW c \in Requests, Running(c), ~cycles[c].response_started,
         RespondWith500(c), UNCHANGED <<cycle, mode>>
  PROVE  TaskSteps(c)
<1> USE DEF Typed, CyclesTyped, ConnTyped
<1>1. CASE Send500(c) BY <1>1, Send500IsStep DEF Running
<1>2. CASE ~Send500(c)
  <2> DEFINE r == [cycles[c] EXCEPT !.stage = "start_500", !.receiving = FALSE]
  <2>1. r \in Cycle BY ZenonT(60) DEF Cycle, Stages
  <2>2. /\ cycles' = [cycles EXCEPT ![c] = r]
        /\ UNCHANGED <<conn, idle, feeding, transport, flow>>
    BY <1>2 DEF RespondWith500
  <2>3. /\ r.stage = "start_500" /\ r.receiving = FALSE
        /\ r.disconnected = cycles[c].disconnected /\ r.body = cycles[c].body
        /\ r.more_body = cycles[c].more_body /\ r.end_received = cycles[c].end_received
        /\ r.response_started = cycles[c].response_started
        /\ r.response_complete = cycles[c].response_complete
        /\ r.message_event = cycles[c].message_event
    BY DEF Cycle
  <2> HIDE DEF r
  <2>4. /\ cycles' \in [Requests -> Cycle] /\ cycles'[c] = r
        /\ \A d \in Requests \ {c} : cycles'[d] = cycles[d]
    BY <2>1, <2>2
  <2>5. TaskStep(c)
    BY <2>2, <2>3, <2>4 DEF TaskStep, Running, FlagsTyped, flow, mode
  <2>6. QED
    BY <2>2, <2>3, <2>4, <2>5 DEF TaskSteps, HeadWaits, SameResponse, idle, flow
<1>3. QED BY <1>1, <1>2

(* A task that ends without a response of uvicorn's own ends, or closes. *)
LEMMA EndIsStep ==
  ASSUME Typed, NEW c \in Requests, ~feeding,
         cycles[c].stage \notin {"none", "done"}, UNCHANGED <<cycle, mode>>,
         \/ EndsAndCloses(c)
         \/ Finishes(c) /\ (cycles[c].disconnected \/ cycles[c].response_complete)
  PROVE  TaskSteps(c)
<1> USE DEF Typed, CyclesTyped
<1>1. CASE EndsAndCloses(c)
  BY <1>1, EndedFacts
  DEF TaskSteps, TaskCloses, TaskStep, SameResponse, EndsAndCloses, FlagsTyped, flow, mode
<1>2. CASE Finishes(c) /\ (cycles[c].disconnected \/ cycles[c].response_complete)
  BY <1>2, EndedFacts
  DEF TaskSteps, TaskOver, TaskStep, SameResponse, Finishes, FlagsTyped, idle, flow, mode
<1>3. QED BY <1>1, <1>2

(* drain() has returned to send_500_response. *)
LEMMA Resume500IsStep ==
  ASSUME Typed, StageShape, ConnShape, Progress, NEW c \in Requests, Resume500(c)
  PROVE  TaskSteps(c)
<1> USE DEF Typed, CyclesTyped, ConnTyped
<1>1. ~feeding /\ UNCHANGED <<cycle, mode>> BY DEF Resume500
<1>2. CASE cycles[c].stage = "start_500" /\ Send500(c)
  BY <1>1, <1>2, Send500IsStep DEF StageShape
<1>3. CASE cycles[c].stage = "body_500"
  <2>1. ~cycles[c].response_complete /\ cycles[c].response_started
    BY <1>3 DEF StageShape
  <2>2. CASE cycles[c].disconnected
    <3>1. Finishes(c) BY <1>3, <2>2 DEF Resume500
    <3>2. QED BY <1>1, <1>3, <2>2, <3>1, EndIsStep
  <2>3. CASE ~cycles[c].disconnected /\ conn.our = "body"
    <3>1. Write /\ CompleteResponse(c, Ended(c, cycles), conn)
      BY <1>3, <2>3 DEF Resume500
    <3>2. write_paused' \in BOOLEAN BY <3>1 DEF Write, FlagsTyped
    <3> DEFINE es == Ended(c, cycles)
    <3>3. /\ es \in [Requests -> Cycle]
          /\ \A d \in Requests \ {c} : es[d] = cycles[d]
          /\ es[c].stage = "done" /\ es[c].receiving = FALSE
          /\ es[c].disconnected = cycles[c].disconnected /\ es[c].body = cycles[c].body
          /\ es[c].more_body = cycles[c].more_body
          /\ es[c].end_received = cycles[c].end_received
          /\ es[c].response_started = cycles[c].response_started
      BY EndedFacts
    <3> HIDE DEF es
    <3>4. /\ cycles' = Answered(c, es)
          /\ total_requests' = total_requests + 1
          /\ AnswersBy(conn)
      BY <2>3, <3>1, <3>3, CompleteFacts DEF es, ConnShape, AnswersBy
    <3>5. /\ cycles' \in [Requests -> Cycle]
          /\ \A d \in Requests \ {c} : cycles'[d] = es[d]
          /\ cycles'[c].response_complete /\ cycles'[c].message_event
          /\ cycles'[c].stage = "done" /\ cycles'[c].receiving = FALSE
          /\ cycles'[c].disconnected = es[c].disconnected /\ cycles'[c].body = es[c].body
          /\ cycles'[c].more_body = es[c].more_body
          /\ cycles'[c].end_received = es[c].end_received
          /\ cycles'[c].response_started = es[c].response_started
      BY <3>3, <3>4, AnsweredFacts
    <3>6. TaskStep(c) BY <1>1, <1>3, <3>2, <3>3, <3>5 DEF TaskStep, mode
    <3>7. QED BY <2>1, <3>3, <3>4, <3>5, <3>6 DEF TaskSteps, Answers
  <2>4. CASE ~cycles[c].disconnected /\ conn.our # "body"
    <3>1. /\ cycles' = Ended(c, cycles) /\ SendFails
          /\ UNCHANGED <<idle, feeding, transport, read_paused>>
      BY <1>3, <2>4 DEF Resume500
    <3>2. QED
      BY <1>1, <1>3, <2>1, <3>1, EndedFacts
      DEF TaskSteps, TaskRefused, TaskStep, SameResponse, SendFails, FlagsTyped, mode
  <2>5. QED BY <2>2, <2>3, <2>4
<1>4. QED BY <1>2, <1>3 DEF Resume500

(* The last body message answers. *)
LEMMA SendLastBodyIsStep ==
  ASSUME Typed, StageShape, ConnShape, NEW c \in Requests, SendLastBody(c)
  PROVE  TaskSteps(c)
<1> USE DEF Typed, CyclesTyped, ConnTyped
<1>1. /\ ~feeding /\ cycles[c].stage = "running" /\ cycles[c].response_started
      /\ ~cycles[c].response_complete /\ conn.our = "body"
      /\ CompleteResponse(c, cycles, conn) /\ Write /\ UNCHANGED <<cycle, mode>>
  BY DEF SendLastBody, Sends, Running
<1>2. write_paused' \in BOOLEAN BY <1>1 DEF Write, FlagsTyped
<1>3. /\ cycles' = Answered(c, cycles)
      /\ total_requests' = total_requests + 1
      /\ AnswersBy(conn)
  BY <1>1, CompleteFacts DEF ConnShape, AnswersBy
<1>4. /\ cycles' \in [Requests -> Cycle]
      /\ \A d \in Requests \ {c} : cycles'[d] = cycles[d]
      /\ cycles'[c].response_complete /\ cycles'[c].message_event
      /\ cycles'[c].stage = "running" /\ cycles'[c].receiving = cycles[c].receiving
      /\ cycles'[c].disconnected = cycles[c].disconnected
      /\ cycles'[c].body = cycles[c].body
      /\ cycles'[c].more_body = cycles[c].more_body
      /\ cycles'[c].end_received = cycles[c].end_received
      /\ cycles'[c].response_started = cycles[c].response_started
  BY <1>1, <1>3, AnsweredFacts
<1>5. TaskStep(c) BY <1>1, <1>2, <1>4 DEF TaskStep, mode
<1>6. QED BY <1>1, <1>3, <1>4, <1>5 DEF TaskSteps, Answers

(* Every step of the specification is one of the steps above. *)
LEMMA NextIsStep ==
  ASSUME Typed, StageShape, ConnShape, Progress, [Next]_vars
  PROVE  Step
<1>1. ASSUME NEW c \in Requests, AppRaises(c) PROVE TaskSteps(c)
  <2>1. Running(c) /\ UNCHANGED <<cycle, mode>> BY <1>1 DEF AppRaises
  <2>2. CASE cycles[c].response_started
    BY <1>1, <2>1, <2>2, EndIsStep DEF AppRaises, Running
  <2>3. CASE ~cycles[c].response_started
    BY <1>1, <2>1, <2>3, RespondWith500IsStep DEF AppRaises
  <2>4. QED BY <2>2, <2>3
<1>2. ASSUME NEW c \in Requests, AppReturns(c) PROVE TaskSteps(c)
  <2>1. Running(c) /\ UNCHANGED <<cycle, mode>> BY <1>2 DEF AppReturns
  <2>2. CASE ~cycles[c].response_started /\ ~cycles[c].disconnected
    BY <1>2, <2>1, <2>2, RespondWith500IsStep DEF AppReturns
  <2>3. CASE ~(~cycles[c].response_started /\ ~cycles[c].disconnected)
    BY <1>2, <2>1, <2>3, EndIsStep DEF AppReturns, Running, Incomplete
  <2>4. QED BY <2>2, <2>3
<1>3. ASSUME NEW c \in Requests, AppReturnsValue(c) PROVE TaskSteps(c)
  BY <1>3, EndIsStep DEF AppReturnsValue, Running
<1>4. ASSUME NEW c \in Requests, App(c) PROVE Step
  BY <1>1, <1>2, <1>3, <1>4, Resume500IsStep, SendLastBodyIsStep DEF App, Step
<1>5. QED BY <1>4 DEF Next, Step

-----------------------------------------------------------------------------
(* The invariant is inductive. *)

(* Every step keeps the types of the variables other than conn and cycles. *)
LEMMA FlagsTypedStep ==
  ASSUME FlagsTyped, Step
  PROVE  FlagsTyped'
<1> USE DEF requests, idle, flow, mode, FlagsTyped, Write, Closed, is_closing
<1>1. CASE DataReceived BY <1>1, ConstantsAssumption DEF DataReceived
<1>2. ASSUME NEW closes \in BOOLEAN, NEW expect \in Expects, HandleRequest(closes, expect)
      PROVE  FlagsTyped'
  <2>1. /\ cycle < MaxRequests /\ cycle' = cycle + 1 /\ keep_alive_timer' = FALSE
        /\ UNCHANGED <<total_requests, feeding, transport, flow, mode>>
    BY <1>2, Zenon DEF HandleRequest
  <2>2. cycle' \in 0..MaxRequests BY <2>1, ConstantsAssumption
  <2>3. QED BY <2>1, <2>2
<1>3. CASE HandleWebsocketUpgrade
  BY <1>3, ConstantsAssumption DEF HandleWebsocketUpgrade
<1>4. CASE HandleData BY <1>4, ConstantsAssumption DEF HandleData
<1>5. CASE HandleEndOfMessage BY <1>5, ConstantsAssumption DEF HandleEndOfMessage
<1>6. CASE Paused BY <1>6, ConstantsAssumption DEF Paused
<1>7. CASE DataConsumed BY <1>7, ConstantsAssumption DEF DataConsumed
<1>8. CASE InvalidRequest BY <1>8, ConstantsAssumption DEF InvalidRequest, Write, Closed
<1>9. ASSUME NEW c \in Requests, Receive(c) PROVE FlagsTyped'
  BY <1>9, ConstantsAssumption DEF Receive, Running, Write
<1>10. ASSUME NEW c \in Requests, ReceiveWakes(c) PROVE FlagsTyped'
  BY <1>10, ConstantsAssumption DEF ReceiveWakes
<1>11. ASSUME NEW c \in Requests, SendStart(c) PROVE FlagsTyped'
  BY <1>11, ConstantsAssumption DEF SendStart, Sends, Running, SendFails
<1>12. ASSUME NEW c \in Requests, SendBody(c) PROVE FlagsTyped'
  BY <1>12, ConstantsAssumption DEF SendBody, Sends, Running, SendFails
<1>13. ASSUME NEW c \in Requests, SendShortBody(c) PROVE FlagsTyped'
  BY <1>13, ConstantsAssumption DEF SendShortBody, Sends, Running
<1>14. ASSUME NEW c \in Requests, TaskOver(c) PROVE FlagsTyped'
  BY <1>14, ConstantsAssumption DEF TaskOver, TaskStep, SameResponse
<1>15. ASSUME NEW c \in Requests, TaskCloses(c) PROVE FlagsTyped'
  BY <1>15, ConstantsAssumption DEF TaskCloses, TaskStep, SameResponse
<1>16. ASSUME NEW c \in Requests, TaskRefused(c) PROVE FlagsTyped'
  BY <1>16, ConstantsAssumption DEF TaskRefused, TaskStep, SameResponse
<1>17. ASSUME NEW c \in Requests, HeadWaits(c) PROVE FlagsTyped'
  BY <1>17, ConstantsAssumption DEF HeadWaits, TaskStep, SameResponse
<1>18. ASSUME NEW c \in Requests, BodyWaits(c) PROVE FlagsTyped'
  BY <1>18, ConstantsAssumption DEF BodyWaits, TaskStep, SameResponse
<1>19. ASSUME NEW c \in Requests, Answers(c) PROVE FlagsTyped'
  <2>1. total_requests' \in Nat BY <1>19 DEF Answers
  <2>2. UNCHANGED <<cycle, mode>> /\ write_paused' \in BOOLEAN
    BY <1>19 DEF Answers, TaskStep
  <2>3. CASE LastAnswer(conn) BY <2>1, <2>2, <2>3 DEF LastAnswer
  <2>4. CASE NextStarts BY <2>1, <2>2, <2>4 DEF NextStarts
  <2>5. CASE RequestUnfinished(conn) BY <2>1, <2>2, <2>5 DEF RequestUnfinished
  <2>6. QED BY <1>19, <2>3, <2>4, <2>5 DEF Answers, AnswersBy
<1>20. CASE ResumeWriting BY <1>20, ConstantsAssumption DEF ResumeWriting
<1>21. CASE EofReceived BY <1>21, ConstantsAssumption DEF EofReceived
<1>22. ASSUME NEW exc \in BOOLEAN, ConnectionLost(exc) PROVE FlagsTyped'
  BY <1>22, ConstantsAssumption DEF ConnectionLost
<1>23. CASE KeepAliveTimeout BY <1>23, ConstantsAssumption DEF KeepAliveTimeout
<1>24. CASE Shutdown BY <1>24, ConstantsAssumption DEF Shutdown
<1>25. CASE WebSocketTransport BY <1>25, ConstantsAssumption DEF WebSocketTransport
<1>26. CASE UNCHANGED vars BY <1>26, ConstantsAssumption DEF vars
<1>27. QED
  BY <1>1, <1>2, <1>3, <1>4, <1>5, <1>6, <1>7, <1>8, <1>9, <1>10, <1>11, <1>12, <1>13,
     <1>14, <1>15, <1>16, <1>17, <1>18, <1>19, <1>20, <1>21, <1>22, <1>23, <1>24,
     <1>25, <1>26
  DEF Step, HandleEvents, TaskSteps, Environment

(* An http.request event leaves every cycle a cycle. *)
LEMMA DeliveredType ==
  ASSUME NEW cs \in [Requests -> Cycle], NEW c \in Requests
  PROVE  Delivered(c, cs) \in [Requests -> Cycle]
<1> DEFINE last == cs[c].end_received \/ ~cs[c].more_body
           r == [cs[c] EXCEPT !.message_event = FALSE, !.receiving = FALSE,
                              !.body = 0, !.end_received = last]
<1>1. last \in BOOLEAN OBVIOUS
<1>2. 0 \in 0..MaxBody BY ConstantsAssumption
<1> HIDE DEF last
<1>3. r \in Cycle BY ZenonT(60), <1>1, <1>2 DEF Cycle
<1>4. Delivered(c, cs) = [cs EXCEPT ![c] = r] BY DEF Delivered, last
<1> HIDE DEF r
<1>5. QED BY <1>3, <1>4

(* Every step keeps every RequestResponseCycle a cycle. *)
LEMMA CyclesTypedStep ==
  ASSUME FlagsTyped, CyclesTyped, ModeShape, Progress, Step
  PROVE  CyclesTyped'
<1> USE DEF requests, idle, flow, mode, FlagsTyped, CyclesTyped
<1>1. CASE DataReceived BY <1>1 DEF DataReceived
<1>2. ASSUME NEW closes \in BOOLEAN, NEW expect \in Expects, HandleRequest(closes, expect)
      PROVE  CyclesTyped'
  <2>1. NewCycle("running", expect) \in Cycle
    BY NewCycleType, ConstantsAssumption DEF Stages
  <2>2. /\ cycle + 1 \in Requests
        /\ cycles' = [cycles EXCEPT ![cycle + 1] = NewCycle("running", expect)]
    BY <1>2, ConstantsAssumption DEF HandleRequest, Requests
  <2> HIDE DEF NewCycle
  <2>3. QED BY <2>1, <2>2
<1>3. CASE HandleWebsocketUpgrade BY <1>3 DEF HandleWebsocketUpgrade
<1>4. CASE HandleData
  <2>1. cycle \in Requests BY <1>4 DEF HandleData, ModeShape, Progress
  <2> DEFINE r == [cycles[cycle] EXCEPT !.body = BodyAfterChunk, !.message_event = TRUE]
  <2>2. BodyAfterChunk \in 0..MaxBody
    BY <1>4, <2>1, ConstantsAssumption DEF HandleData, BodyAfterChunk, Cycle
  <2>3. r \in Cycle BY ZenonT(60), <2>1, <2>2 DEF Cycle
  <2>4. cycles' = [cycles EXCEPT ![cycle] = r] BY <1>4 DEF HandleData
  <2> HIDE DEF r
  <2>5. QED BY <2>1, <2>3, <2>4
<1>5. CASE HandleEndOfMessage
  <2>1. cycle \in Requests BY <1>5 DEF HandleEndOfMessage, ModeShape, Progress
  <2> DEFINE r == [cycles[cycle] EXCEPT !.more_body = FALSE, !.message_event = TRUE]
  <2>2. r \in Cycle BY ZenonT(60), <2>1 DEF Cycle
  <2>3. cycles' = cycles \/ cycles' = [cycles EXCEPT ![cycle] = r]
    BY <1>5 DEF HandleEndOfMessage, EndsMessage
  <2> HIDE DEF r
  <2>4. QED BY <2>1, <2>2, <2>3
<1>6. CASE Paused BY <1>6 DEF Paused
<1>7. CASE DataConsumed BY <1>7 DEF DataConsumed
<1>8. CASE InvalidRequest BY <1>8 DEF InvalidRequest, Write, Closed
<1>9. ASSUME NEW c \in Requests, Receive(c) PROVE CyclesTyped'
  <2> DEFINE waits == cycles[c].waiting_for_100_continue /\ is_closing
             w == [cycles[c] EXCEPT !.waiting_for_100_continue = waits]
             cs == [cycles EXCEPT ![c] = w]
             r == [w EXCEPT !.receiving = TRUE]
  <2>1. waits \in BOOLEAN OBVIOUS
  <2> HIDE DEF waits
  <2>2. w \in Cycle BY <2>1, ZenonT(60) DEF Cycle
  <2>3. r \in Cycle BY <2>2, ZenonT(60) DEF Cycle
  <2>4. cs = [cycles EXCEPT ![c].waiting_for_100_continue = @ /\ is_closing] BY DEF waits
  <2>5. cs \in [Requests -> Cycle] BY <2>2
  <2>6. cs[c] = w OBVIOUS
  <2> HIDE DEF w
  <2>7. [cs EXCEPT ![c].receiving = TRUE] = [cs EXCEPT ![c] = r] BY <2>6
  <2> HIDE DEF cs, r
  <2>8. cycles' = Delivered(c, cs) \/ cycles' = [cs EXCEPT ![c] = r]
    BY <1>9, <2>4, <2>7 DEF Receive
  <2>9. QED BY <2>3, <2>5, <2>8, DeliveredType
<1>10. ASSUME NEW c \in Requests, ReceiveWakes(c) PROVE CyclesTyped'
  <2> DEFINE r == [cycles[c] EXCEPT !.message_event = FALSE, !.receiving = FALSE]
  <2>1. r \in Cycle BY ZenonT(60) DEF Cycle
  <2>2. cycles' = Delivered(c, cycles) \/ cycles' = [cycles EXCEPT ![c] = r]
    BY <1>10 DEF ReceiveWakes
  <2> HIDE DEF r
  <2>3. QED BY <2>1, <2>2, DeliveredType
<1>11. ASSUME NEW c \in Requests, SendStart(c) PROVE CyclesTyped'
  <2> DEFINE r == [cycles[c] EXCEPT !.response_started = TRUE,
                                   !.waiting_for_100_continue = FALSE]
  <2>1. r \in Cycle BY ZenonT(60) DEF Cycle
  <2>2. cycles' = [cycles EXCEPT ![c] = r] BY <1>11 DEF SendStart
  <2>3. QED BY <2>1, <2>2
<1>12. ASSUME NEW c \in Requests, SendBody(c) PROVE CyclesTyped'
  BY <1>12 DEF SendBody, Sends, Running, SendFails
<1>13. ASSUME NEW c \in Requests, SendShortBody(c) PROVE CyclesTyped'
  BY <1>13, AnsweredFacts DEF SendShortBody
<1>14. ASSUME NEW c \in Requests, TaskOver(c) PROVE CyclesTyped'
  BY <1>14 DEF TaskOver, TaskStep, SameResponse
<1>15. ASSUME NEW c \in Requests, TaskCloses(c) PROVE CyclesTyped'
  BY <1>15 DEF TaskCloses, TaskStep, SameResponse
<1>16. ASSUME NEW c \in Requests, TaskRefused(c) PROVE CyclesTyped'
  BY <1>16 DEF TaskRefused, TaskStep, SameResponse
<1>17. ASSUME NEW c \in Requests, HeadWaits(c) PROVE CyclesTyped'
  BY <1>17 DEF HeadWaits, TaskStep, SameResponse
<1>18. ASSUME NEW c \in Requests, BodyWaits(c) PROVE CyclesTyped'
  BY <1>18 DEF BodyWaits, TaskStep, SameResponse
<1>19. ASSUME NEW c \in Requests, Answers(c) PROVE CyclesTyped'
  BY <1>19 DEF Answers, TaskStep, AnswersBy, LastAnswer, NextStarts, RequestUnfinished
<1>20. CASE ResumeWriting BY <1>20 DEF ResumeWriting
<1>21. CASE EofReceived BY <1>21 DEF EofReceived
<1>22. ASSUME NEW exc \in BOOLEAN, ConnectionLost(exc) PROVE CyclesTyped'
  <2>1. CASE cycle = 0 BY <1>22, <2>1 DEF ConnectionLost
  <2>2. CASE cycle # 0
    <3> DEFINE over == cycles[cycle].disconnected \/ ~NewestAnswered
               r == [cycles[cycle] EXCEPT !.disconnected = over, !.message_event = TRUE]
    <3>1. over \in BOOLEAN OBVIOUS
    <3>2. cycle \in Requests BY <2>2, ConstantsAssumption DEF Requests
    <3>3. cycles' = [cycles EXCEPT ![cycle] = r] BY <1>22, <2>2 DEF ConnectionLost
    <3> HIDE DEF over
    <3>4. r \in Cycle BY ZenonT(60), <3>1, <3>2 DEF Cycle
    <3> HIDE DEF r
    <3>5. QED BY <3>2, <3>3, <3>4
  <2>3. QED BY <2>1, <2>2
<1>23. CASE KeepAliveTimeout BY <1>23 DEF KeepAliveTimeout
<1>24. CASE Shutdown
  <2>1. CASE NewestAnswered BY <1>24, <2>1 DEF Shutdown
  <2>2. CASE ~NewestAnswered
    <3> DEFINE r == [cycles[cycle] EXCEPT !.keep_alive = FALSE]
    <3>1. cycle \in Requests BY <2>2, ConstantsAssumption DEF Requests, NewestAnswered
    <3>2. cycles' = [cycles EXCEPT ![cycle] = r] BY <1>24, <2>2 DEF Shutdown
    <3>3. r \in Cycle BY ZenonT(60), <3>1 DEF Cycle
    <3> HIDE DEF r
    <3>4. QED BY <3>1, <3>2, <3>3
  <2>3. QED BY <2>1, <2>2
<1>25. CASE WebSocketTransport BY <1>25 DEF WebSocketTransport
<1>26. CASE UNCHANGED vars BY <1>26 DEF vars
<1>27. QED
  BY <1>1, <1>2, <1>3, <1>4, <1>5, <1>6, <1>7, <1>8, <1>9, <1>10, <1>11, <1>12, <1>13,
     <1>14, <1>15, <1>16, <1>17, <1>18, <1>19, <1>20, <1>21, <1>22, <1>23, <1>24,
     <1>25, <1>26
  DEF Step, HandleEvents, TaskSteps, Environment

(* Every step keeps h11's connection in one of its states. *)
LEMMA ConnTypedStep ==
  ASSUME ConnTyped, Step
  PROVE  ConnTyped'
<1> USE DEF requests, idle, flow, mode, ConnTyped
<1>1. CASE DataReceived BY <1>1 DEF DataReceived
<1>2. ASSUME NEW closes \in BOOLEAN, NEW expect \in Expects, HandleRequest(closes, expect)
      PROVE  ConnTyped'
  <2>1. conn' = [conn EXCEPT !.their = "body", !.our = "respond", !.reuse = ~closes]
    BY <1>2 DEF HandleRequest
  <2> DEFINE reuse == ~closes
  <2>2. reuse \in BOOLEAN OBVIOUS
  <2> HIDE DEF reuse
  <2>3. [conn EXCEPT !.their = "body", !.our = "respond", !.reuse = reuse] \in Conn
    BY <2>2, ZenonT(60) DEF Conn
  <2>4. QED BY <2>1, <2>3 DEF reuse
<1>3. CASE HandleWebsocketUpgrade
  <2>1. conn' = [conn EXCEPT !.their = "body", !.our = "respond"]
    BY <1>3 DEF HandleWebsocketUpgrade
  <2>2. QED BY <2>1, ZenonT(60) DEF Conn
<1>4. CASE HandleData BY <1>4 DEF HandleData
<1>5. CASE HandleEndOfMessage
  BY <1>5, NextCycleFacts, TheirsFacts DEF HandleEndOfMessage
<1>6. CASE Paused
  <2>1. conn' = [conn EXCEPT !.buffered = TRUE] BY <1>6 DEF Paused
  <2>2. QED BY <2>1, ZenonT(60) DEF Conn
<1>7. CASE DataConsumed BY <1>7 DEF DataConsumed
<1>8. CASE InvalidRequest
  <2> DEFINE h == Theirs(conn, "error")
  <2>1. h \in Conn BY TheirsFacts
  <2> HIDE DEF h
  <2>2. [h EXCEPT !.our = "must_close", !.reuse = FALSE] \in Conn
    BY <2>1, ZenonT(60) DEF Conn
  <2>3. conn' = [h EXCEPT !.our = "must_close", !.reuse = FALSE] \/ conn' = Failed(h)
    BY <1>8 DEF InvalidRequest, h
  <2>4. QED BY <2>1, <2>2, <2>3, ClosedFacts
<1>9. ASSUME NEW c \in Requests, Receive(c) PROVE ConnTyped'
  BY <1>9 DEF Receive, Running, Write
<1>10. ASSUME NEW c \in Requests, ReceiveWakes(c) PROVE ConnTyped'
  BY <1>10 DEF ReceiveWakes
<1>11. ASSUME NEW c \in Requests, SendStart(c) PROVE ConnTyped'
  <2>1. CASE conn' = conn BY <2>1
  <2>2. CASE conn' = Failed(conn) BY <2>2, ClosedFacts
  <2>3. ASSUME NEW closes \in BOOLEAN,
               conn' = Ours([conn EXCEPT !.reuse = @ /\ ~closes], "body")
        PROVE  ConnTyped'
    <3> DEFINE reuse == conn.reuse /\ ~closes
               h == [conn EXCEPT !.reuse = reuse]
    <3>1. conn' = Ours(h, "body") BY <2>3
    <3>2. reuse \in BOOLEAN OBVIOUS
    <3> HIDE DEF reuse
    <3>3. h \in Conn BY <3>2, ReuseFacts
    <3> HIDE DEF h
    <3>4. QED BY <3>1, <3>3, OursFacts
  <2>4. QED BY <1>11, <2>1, <2>2, <2>3 DEF SendStart, SendFails
<1>12. ASSUME NEW c \in Requests, SendBody(c) PROVE ConnTyped'
  BY <1>12, ClosedFacts DEF SendBody, SendFails
<1>13. ASSUME NEW c \in Requests, SendShortBody(c) PROVE ConnTyped'
  BY <1>13, ClosedFacts DEF SendShortBody
<1>14. ASSUME NEW c \in Requests, TaskOver(c) PROVE ConnTyped'
  BY <1>14 DEF TaskOver, TaskStep, SameResponse
<1>15. ASSUME NEW c \in Requests, TaskCloses(c) PROVE ConnTyped'
  BY <1>15 DEF TaskCloses, TaskStep, SameResponse
<1>16. ASSUME NEW c \in Requests, TaskRefused(c) PROVE ConnTyped'
  BY <1>16, ClosedFacts DEF TaskRefused
<1>17. ASSUME NEW c \in Requests, HeadWaits(c) PROVE ConnTyped'
  BY <1>17 DEF HeadWaits, TaskStep, SameResponse
<1>18. ASSUME NEW c \in Requests, BodyWaits(c) PROVE ConnTyped'
  <2>1. [conn EXCEPT !.reuse = FALSE] \in Conn BY ReuseFacts
  <2>2. QED BY <1>18, <2>1, OursFacts DEF BodyWaits
<1>19. ASSUME NEW c \in Requests, Answers(c) PROVE ConnTyped'
  BY <1>19 DEF Answers, TaskStep, AnswersBy, LastAnswer, NextStarts, RequestUnfinished
<1>20. CASE ResumeWriting BY <1>20 DEF ResumeWriting
<1>21. CASE EofReceived BY <1>21 DEF EofReceived
<1>22. ASSUME NEW exc \in BOOLEAN, ConnectionLost(exc) PROVE ConnTyped'
  BY <1>22, ClosedFacts DEF ConnectionLost
<1>23. CASE KeepAliveTimeout
  BY <1>23, ClosedFacts DEF KeepAliveTimeout
<1>24. CASE Shutdown
  BY <1>24, ClosedFacts DEF Shutdown
<1>25. CASE WebSocketTransport BY <1>25 DEF WebSocketTransport
<1>26. CASE UNCHANGED vars BY <1>26 DEF vars
<1>27. QED
  BY <1>1, <1>2, <1>3, <1>4, <1>5, <1>6, <1>7, <1>8, <1>9, <1>10, <1>11, <1>12, <1>13,
     <1>14, <1>15, <1>16, <1>17, <1>18, <1>19, <1>20, <1>21, <1>22, <1>23, <1>24,
     <1>25, <1>26
  DEF Step, HandleEvents, TaskSteps, Environment

(* Every step keeps the cycles in order, with one in progress at most, and each
   as far as its task is. *)
LEMMA StageStep ==
  ASSUME Typed, StageShape, ConnShape, ModeShape, Progress, Step
  PROVE  StageShape'
<1> USE DEF requests, idle, flow, mode, Typed, FlagsTyped, CyclesTyped, ConnTyped,
        StageShape, Cycle, Requests
<1>1. CASE DataReceived BY <1>1 DEF DataReceived
<1>2. ASSUME NEW closes \in BOOLEAN, NEW expect \in Expects, HandleRequest(closes, expect)
      PROVE  StageShape'
  <2>1. /\ conn.their = "idle" /\ cycle < MaxRequests /\ cycle' = cycle + 1
        /\ cycles' = [cycles EXCEPT ![cycle + 1] = NewCycle("running", expect)]
        /\ transport' = transport /\ feeding' = feeding /\ feeding
    BY <1>2, Zenon DEF HandleRequest
  <2>2. ~InProgress BY <2>1 DEF ConnShape, Progress
  <2>3. cycle + 1 \in Requests /\ cycle \in Nat BY <2>1, ConstantsAssumption
  <2>4. /\ \A d \in Requests \ {cycle + 1} : cycles'[d] = cycles[d]
        /\ cycles'[cycle + 1] = NewCycle("running", expect)
    BY <2>1, <2>3
  <2>5. SUFFICES ASSUME NEW c \in Requests
                 PROVE  LET r == cycles'[c]
                        IN  /\ r.stage = "none" <=> c > cycle'
                            /\ r.stage = "none" => ~r.response_started
                            /\ c < cycle' => r.response_complete
                            /\ r.response_complete => r.response_started
                            /\ r.stage = "start_500" => ~r.response_started
                            /\ r.stage = "body_500" =>
                                 r.response_started /\ ~r.response_complete
                            /\ r.disconnected => transport' = "lost"
    OBVIOUS
  <2>6. CASE c = cycle + 1 BY <2>1, <2>3, <2>4, <2>6 DEF NewCycle
  <2>7. CASE c # cycle + 1
    <3>1. c < cycle' => cycles[c].response_complete
      BY <2>1, <2>2, <2>3, <2>7 DEF InProgress
    <3>2. QED BY <2>1, <2>3, <2>4, <2>7, <3>1
  <2>8. QED BY <2>6, <2>7
<1>3. CASE HandleWebsocketUpgrade BY <1>3 DEF HandleWebsocketUpgrade
<1>4. CASE HandleData BY <1>4 DEF HandleData
<1>5. CASE HandleEndOfMessage
  <2>1. cycles' = cycles \/ cycles' = EndsMessage(cycle) BY <1>5 DEF HandleEndOfMessage
  <2>2. cycle' = cycle /\ transport' = transport BY <1>5 DEF HandleEndOfMessage
  <2>3. cycle \in Requests BY <1>5 DEF HandleEndOfMessage, ModeShape, Progress
  <2>4. CASE cycles' = cycles BY <2>2, <2>4
  <2>5. CASE cycles' = EndsMessage(cycle) BY <2>2, <2>3, <2>5 DEF EndsMessage
  <2>6. QED BY <2>1, <2>4, <2>5
<1>6. CASE Paused BY <1>6 DEF Paused
<1>7. CASE DataConsumed BY <1>7 DEF DataConsumed
<1>8. CASE InvalidRequest BY <1>8 DEF InvalidRequest, Write, Closed
<1>9. ASSUME NEW c \in Requests, Receive(c) PROVE StageShape'
  BY <1>9 DEF Receive, Running, Write, Delivered
<1>10. ASSUME NEW c \in Requests, ReceiveWakes(c) PROVE StageShape'
  BY <1>10 DEF ReceiveWakes, Delivered
<1>11. ASSUME NEW c \in Requests, SendStart(c) PROVE StageShape'
  BY <1>11 DEF SendStart, Sends, Running, SendFails
<1>12. ASSUME NEW c \in Requests, SendBody(c) PROVE StageShape'
  BY <1>12 DEF SendBody, Sends, Running, SendFails
<1>13. ASSUME NEW c \in Requests, SendShortBody(c) PROVE StageShape'
  BY <1>13 DEF SendShortBody, Sends, Running, Answered
<1>14. ASSUME NEW c \in Requests, TaskOver(c) PROVE StageShape'
  BY <1>14 DEF TaskOver, TaskStep, SameResponse
<1>15. ASSUME NEW c \in Requests, TaskCloses(c) PROVE StageShape'
  <2>1. transport = "lost" => transport' = "lost" BY <1>15 DEF TaskCloses, Closed
  <2>2. QED BY <1>15, <2>1 DEF TaskCloses, TaskStep, SameResponse
<1>16. ASSUME NEW c \in Requests, TaskRefused(c) PROVE StageShape'
  BY <1>16 DEF TaskRefused, TaskStep, SameResponse
<1>17. ASSUME NEW c \in Requests, HeadWaits(c) PROVE StageShape'
  BY <1>17 DEF HeadWaits, TaskStep, SameResponse
<1>18. ASSUME NEW c \in Requests, BodyWaits(c) PROVE StageShape'
  BY <1>18 DEF BodyWaits, TaskStep, SameResponse
<1>19. ASSUME NEW c \in Requests, Answers(c) PROVE StageShape'
  <2>1. transport = "lost" => transport' = "lost"
    BY <1>19 DEF Answers, AnswersBy, LastAnswer, NextStarts, RequestUnfinished, Closed
  <2>2. TaskStep(c) /\ cycles'[c].stage \in {"running", "done"}
        /\ cycles'[c].response_started /\ cycles'[c].response_complete
        /\ ~cycles[c].response_complete
    BY <1>19 DEF Answers
  <2>3. QED BY <2>1, <2>2 DEF TaskStep
<1>20. CASE ResumeWriting BY <1>20 DEF ResumeWriting
<1>21. CASE EofReceived BY <1>21 DEF EofReceived
<1>22. ASSUME NEW exc \in BOOLEAN, ConnectionLost(exc) PROVE StageShape'
  BY <1>22 DEF ConnectionLost, NewestAnswered
<1>23. CASE KeepAliveTimeout
  <2>1. transport = "lost" => transport' = "lost"
    BY <1>23 DEF KeepAliveTimeout, is_closing
  <2>2. QED BY <1>23, <2>1 DEF KeepAliveTimeout
<1>24. CASE Shutdown BY <1>24 DEF Shutdown, NewestAnswered
<1>25. CASE WebSocketTransport BY <1>25 DEF WebSocketTransport
<1>26. CASE UNCHANGED vars BY <1>26 DEF vars
<1>27. QED
  BY <1>1, <1>2, <1>3, <1>4, <1>5, <1>6, <1>7, <1>8, <1>9, <1>10, <1>11, <1>12, <1>13,
     <1>14, <1>15, <1>16, <1>17, <1>18, <1>19, <1>20, <1>21, <1>22, <1>23, <1>24,
     <1>25, <1>26
  DEF Step, HandleEvents, TaskSteps, Environment

(* What the head of a response makes of the connection. *)
LEMMA SendStartConn ==
  ASSUME ConnTyped, NEW c \in Requests, SendStart(c)
  PROVE  \/ conn' = conn
         \/ conn' = Failed(conn)
         \/ /\ conn.our = "respond" /\ conn'.our = "body"
            /\ conn'.buffered = conn.buffered
            /\ conn'.their = IF conn.their = "done" /\ ~conn'.reuse
                              THEN "must_close" ELSE conn.their
            /\ conn'.reuse => conn.reuse
<1> USE DEF ConnTyped
<1>1. ASSUME NEW closes \in BOOLEAN, conn.our = "respond",
             conn' = Ours([conn EXCEPT !.reuse = @ /\ ~closes], "body")
      PROVE  /\ conn'.our = "body" /\ conn'.buffered = conn.buffered
             /\ conn'.their = IF conn.their = "done" /\ ~conn'.reuse
                               THEN "must_close" ELSE conn.their
             /\ conn'.reuse => conn.reuse
  <2> DEFINE reuse == conn.reuse /\ ~closes
             h == [conn EXCEPT !.reuse = reuse]
  <2>1. conn' = Ours(h, "body") BY <1>1
  <2>2. reuse \in BOOLEAN /\ (reuse => conn.reuse) OBVIOUS
  <2> HIDE DEF reuse
  <2>3. /\ h \in Conn /\ h.reuse = reuse /\ h.their = conn.their
        /\ h.buffered = conn.buffered
    BY <2>2, ReuseFacts
  <2> HIDE DEF h
  <2>4. QED BY <2>1, <2>2, <2>3, OursFacts
<1>2. QED BY <1>1 DEF SendStart, SendFails

(* What the head of a 500 that waits for drain() makes of it. *)
LEMMA BodyWaitsConn ==
  ASSUME ConnTyped, NEW c \in Requests, BodyWaits(c)
  PROVE  /\ conn.our = "respond" /\ conn'.our = "body" /\ ~conn'.reuse
         /\ conn'.buffered = conn.buffered
         /\ conn'.their = IF conn.their = "done" THEN "must_close" ELSE conn.their
<1> USE DEF ConnTyped
<1> DEFINE h == [conn EXCEPT !.reuse = FALSE]
<1>1. /\ h \in Conn /\ h.reuse = FALSE /\ h.their = conn.their
      /\ h.buffered = conn.buffered
  BY ReuseFacts
<1>2. conn.our = "respond" /\ conn' = Ours(h, "body") BY DEF BodyWaits
<1> HIDE DEF h
<1>3. QED BY <1>1, <1>2, OursFacts

(* What a request h11 refuses makes of it: no side is idle any more. *)
LEMMA InvalidRequestConn ==
  ASSUME ConnTyped, InvalidRequest
  PROVE  /\ conn'.their = "error" /\ conn'.our \in {"must_close", "error"}
         /\ conn'.buffered = conn.buffered
<1> USE DEF ConnTyped
<1> DEFINE h == Theirs(conn, "error")
<1>1. h \in Conn /\ h.their = "error" /\ h.buffered = conn.buffered BY TheirsFacts
<1>2. \/ conn' = [h EXCEPT !.our = "must_close", !.reuse = FALSE]
      \/ conn' = Failed(h)
  BY DEF InvalidRequest
<1> HIDE DEF h
<1>3. CASE conn' = [h EXCEPT !.our = "must_close", !.reuse = FALSE]
  BY <1>1, <1>3 DEF Conn
<1>4. CASE conn' = Failed(h) BY <1>1, <1>4, ClosedFacts
<1>5. QED BY <1>2, <1>3, <1>4

(* Every step keeps h11's two states in one of the combinations that occur. *)
LEMMA ConnStep ==
  ASSUME Typed, StageShape, ConnShape, ModeShape, Progress, Step
  PROVE  ConnShape'
<1> USE DEF requests, idle, flow, mode, Typed, FlagsTyped, CyclesTyped, ConnTyped,
        ConnShape, Conn
<1>1. CASE DataReceived BY <1>1 DEF DataReceived
<1>2. ASSUME NEW closes \in BOOLEAN, NEW expect \in Expects, HandleRequest(closes, expect)
      PROVE  ConnShape'
  BY <1>2 DEF HandleRequest
<1>3. CASE HandleWebsocketUpgrade BY <1>3 DEF HandleWebsocketUpgrade
<1>4. CASE HandleData BY <1>4 DEF HandleData
<1>5. CASE HandleEndOfMessage
  <2>1. conn.their = "body" /\ UNCHANGED transport BY <1>5 DEF HandleEndOfMessage
  <2>2. CASE conn' = NextCycle(conn) BY <2>2, NextCycleFacts
  <2>3. CASE conn.our # "done" /\ conn' = Theirs(conn, "done")
    BY <2>1, <2>3, TheirsFacts
  <2>4. QED BY <1>5, <2>2, <2>3 DEF HandleEndOfMessage
<1>6. CASE Paused BY <1>6 DEF Paused
<1>7. CASE DataConsumed BY <1>7 DEF DataConsumed
<1>8. CASE InvalidRequest
  BY <1>8, InvalidRequestConn DEF InvalidRequest, Closed
<1>9. ASSUME NEW c \in Requests, Receive(c) PROVE ConnShape'
  BY <1>9 DEF Receive, Running, Write
<1>10. ASSUME NEW c \in Requests, ReceiveWakes(c) PROVE ConnShape'
  BY <1>10 DEF ReceiveWakes
<1>11. ASSUME NEW c \in Requests, SendStart(c) PROVE ConnShape'
  <2>1. cycles[c].stage # "none" /\ ~cycles[c].response_complete
    BY <1>11 DEF SendStart, Sends, Running, StageShape
  <2>2. InProgress BY <2>1, Newest
  <2>3. conn.our # "idle" BY <2>2 DEF Progress
  <2>4. UNCHANGED transport BY <1>11 DEF SendStart
  <2>5. QED BY <1>11, <2>3, <2>4, SendStartConn, ClosedFacts
<1>12. ASSUME NEW c \in Requests, SendBody(c) PROVE ConnShape'
  <2>1. cycles[c].stage # "none" /\ ~cycles[c].response_complete
    BY <1>12 DEF SendBody, Sends, Running
  <2>2. InProgress BY <2>1, Newest
  <2>3. conn.our # "idle" BY <2>2 DEF Progress
  <2>4. UNCHANGED transport BY <1>12 DEF SendBody
  <2>5. QED BY <1>12, <2>3, <2>4, ClosedFacts DEF SendBody, SendFails
<1>13. ASSUME NEW c \in Requests, SendShortBody(c) PROVE ConnShape'
  BY <1>13, ClosedFacts DEF SendShortBody, Sends, Running
<1>14. ASSUME NEW c \in Requests, TaskOver(c) PROVE ConnShape'
  BY <1>14 DEF TaskOver, TaskStep, SameResponse
<1>15. ASSUME NEW c \in Requests, TaskCloses(c) PROVE ConnShape'
  BY <1>15 DEF TaskCloses, Closed
<1>16. ASSUME NEW c \in Requests, TaskRefused(c) PROVE ConnShape'
  <2>1. cycles[c].stage # "none" /\ ~cycles[c].response_complete
    BY <1>16 DEF TaskRefused, TaskStep
  <2>2. InProgress BY <2>1, Newest
  <2>3. conn.our # "idle" BY <2>2 DEF Progress
  <2>4. QED BY <1>16, <2>3, ClosedFacts DEF TaskRefused
<1>17. ASSUME NEW c \in Requests, HeadWaits(c) PROVE ConnShape'
  BY <1>17 DEF HeadWaits, TaskStep, SameResponse
<1>18. ASSUME NEW c \in Requests, BodyWaits(c) PROVE ConnShape'
  BY <1>18, BodyWaitsConn DEF BodyWaits, TaskStep, SameResponse
<1>19. ASSUME NEW c \in Requests, Answers(c) PROVE ConnShape'
  <2>1. cycles[c].stage # "none" /\ ~cycles[c].response_complete
    BY <1>19 DEF Answers, TaskStep
  <2>2. InProgress BY <2>1, Newest
  <2>3. conn.our # "idle" BY <2>2 DEF Progress
  <2>4. CASE LastAnswer(conn) BY <2>3, <2>4 DEF LastAnswer
  <2>5. CASE NextStarts BY <2>5 DEF NextStarts
  <2>6. CASE RequestUnfinished(conn) BY <2>6 DEF RequestUnfinished
  <2>7. QED BY <1>19, <2>4, <2>5, <2>6 DEF Answers, AnswersBy
<1>20. CASE ResumeWriting BY <1>20 DEF ResumeWriting
<1>21. CASE EofReceived BY <1>21 DEF EofReceived
<1>22. ASSUME NEW exc \in BOOLEAN, ConnectionLost(exc) PROVE ConnShape'
  BY <1>22, ClosedFacts DEF ConnectionLost, MayClose
<1>23. CASE KeepAliveTimeout
  BY <1>23, ClosedFacts DEF KeepAliveTimeout, MayClose, is_closing
<1>24. CASE Shutdown
  BY <1>24, ClosedFacts DEF Shutdown, MayClose, Closed
<1>25. CASE WebSocketTransport BY <1>25 DEF WebSocketTransport
<1>26. CASE UNCHANGED vars BY <1>26 DEF vars
<1>27. QED
  BY <1>1, <1>2, <1>3, <1>4, <1>5, <1>6, <1>7, <1>8, <1>9, <1>10, <1>11, <1>12, <1>13,
     <1>14, <1>15, <1>16, <1>17, <1>18, <1>19, <1>20, <1>21, <1>22, <1>23, <1>24,
     <1>25, <1>26
  DEF Step, HandleEvents, TaskSteps, Environment

(* Every step keeps events for open connections, and an upgrade for idle ones. *)
LEMMA ModeStep ==
  ASSUME Typed, StageShape, ConnShape, ModeShape, Progress, Attended, Step
  PROVE  ModeShape'
<1> USE DEF requests, idle, flow, mode, Typed, FlagsTyped, CyclesTyped, ConnTyped,
        ModeShape, InProgress, Requests, Conn, Cycle
<1>1. CASE DataReceived
  BY <1>1 DEF DataReceived, is_closing
<1>2. ASSUME NEW closes \in BOOLEAN, NEW expect \in Expects, HandleRequest(closes, expect)
      PROVE  ModeShape'
  BY <1>2 DEF HandleRequest, NewCycle
<1>3. CASE HandleWebsocketUpgrade
  <2>1. /\ feeding /\ conn.their = "idle"
        /\ conn' = [conn EXCEPT !.their = "body", !.our = "respond"]
        /\ feeding' = FALSE /\ keep_alive_timer' = FALSE
        /\ UNCHANGED <<requests, flow>>
    BY <1>3 DEF HandleWebsocketUpgrade
  <2>2. ~InProgress BY <2>1 DEF ConnShape, Progress
  <2>3. ~read_paused BY <2>1, <2>2 DEF ConnShape, Attended
  <2>4. QED BY <2>1, <2>2, <2>3
<1>4. CASE HandleData BY <1>4 DEF HandleData
<1>5. CASE HandleEndOfMessage
  BY <1>5, NextCycleFacts, TheirsFacts DEF HandleEndOfMessage
<1>6. CASE Paused BY <1>6 DEF Paused
<1>7. CASE DataConsumed BY <1>7 DEF DataConsumed
<1>8. CASE InvalidRequest
  BY <1>8, InvalidRequestConn DEF InvalidRequest, Closed
<1>9. ASSUME NEW c \in Requests, Receive(c) PROVE ModeShape'
  BY <1>9 DEF Receive, Running, Write, Delivered
<1>10. ASSUME NEW c \in Requests, ReceiveWakes(c) PROVE ModeShape'
  BY <1>10 DEF ReceiveWakes, Delivered
<1>11. ASSUME NEW c \in Requests, SendStart(c) PROVE ModeShape'
  <2>1. cycles[c].stage # "none" /\ ~cycles[c].response_complete
    BY <1>11 DEF SendStart, Sends, Running, StageShape
  <2>2. InProgress BY <2>1, Newest
  <2>3. ~upgraded BY <2>2 DEF ModeShape
  <2>4. UNCHANGED <<feeding, transport, upgraded>> BY <1>11 DEF SendStart
  <2>5. QED BY <2>3, <2>4
<1>12. ASSUME NEW c \in Requests, SendBody(c) PROVE ModeShape'
  <2>1. cycles[c].stage # "none" /\ ~cycles[c].response_complete
    BY <1>12 DEF SendBody, Sends, Running
  <2>2. InProgress BY <2>1, Newest
  <2>3. ~upgraded BY <2>2 DEF ModeShape
  <2>4. UNCHANGED <<feeding, transport, upgraded>> BY <1>12 DEF SendBody
  <2>5. QED BY <2>3, <2>4
<1>13. ASSUME NEW c \in Requests, SendShortBody(c) PROVE ModeShape'
  BY <1>13, ClosedFacts DEF SendShortBody, Sends, Running
<1>14. ASSUME NEW c \in Requests, TaskOver(c) PROVE ModeShape'
  BY <1>14 DEF TaskOver, TaskStep, SameResponse
<1>15. ASSUME NEW c \in Requests, TaskCloses(c) PROVE ModeShape'
  BY <1>15 DEF TaskCloses, TaskStep, SameResponse
<1>16. ASSUME NEW c \in Requests, TaskRefused(c) PROVE ModeShape'
  <2>1. cycles[c].stage # "none" /\ ~cycles[c].response_complete
    BY <1>16 DEF TaskRefused, TaskStep
  <2>2. InProgress BY <2>1, Newest
  <2>3. ~upgraded BY <2>2 DEF ModeShape
  <2>4. UNCHANGED <<feeding, transport, upgraded>> BY <1>16 DEF TaskRefused, TaskStep
  <2>5. QED BY <2>3, <2>4
<1>17. ASSUME NEW c \in Requests, HeadWaits(c) PROVE ModeShape'
  BY <1>17 DEF HeadWaits, TaskStep, SameResponse
<1>18. ASSUME NEW c \in Requests, BodyWaits(c) PROVE ModeShape'
  <2>1. cycles[c].stage # "none" /\ ~cycles[c].response_complete
    BY <1>18 DEF BodyWaits, TaskStep
  <2>2. InProgress BY <2>1, Newest
  <2>3. ~upgraded BY <2>2 DEF ModeShape
  <2>4. UNCHANGED <<feeding, transport, upgraded>> BY <1>18 DEF BodyWaits, TaskStep
  <2>5. QED BY <2>3, <2>4
<1>19. ASSUME NEW c \in Requests, Answers(c) PROVE ModeShape'
  <2>1. cycles[c].stage # "none" /\ ~cycles[c].response_complete
    BY <1>19 DEF Answers, TaskStep
  <2>2. InProgress BY <2>1, Newest
  <2>3. ~upgraded' /\ ~feeding
    BY <1>19, <2>2 DEF Answers, TaskStep, ModeShape
  <2>4. feeding' => transport' = "open"
    BY <1>19, <2>3 DEF Answers, AnswersBy, LastAnswer, NextStarts, RequestUnfinished
  <2>5. QED BY <2>3, <2>4
<1>20. CASE ResumeWriting BY <1>20 DEF ResumeWriting
<1>21. CASE EofReceived BY <1>21 DEF EofReceived
<1>22. ASSUME NEW exc \in BOOLEAN, ConnectionLost(exc) PROVE ModeShape'
  BY <1>22, ClosedFacts DEF ConnectionLost, MayClose
<1>23. CASE KeepAliveTimeout
  BY <1>23, ClosedFacts DEF KeepAliveTimeout, MayClose, is_closing
<1>24. CASE Shutdown
  BY <1>24, ClosedFacts DEF Shutdown, MayClose, Closed
<1>25. CASE WebSocketTransport BY <1>25 DEF WebSocketTransport
<1>26. CASE UNCHANGED vars BY <1>26 DEF vars
<1>27. QED
  BY <1>1, <1>2, <1>3, <1>4, <1>5, <1>6, <1>7, <1>8, <1>9, <1>10, <1>11, <1>12, <1>13,
     <1>14, <1>15, <1>16, <1>17, <1>18, <1>19, <1>20, <1>21, <1>22, <1>23, <1>24,
     <1>25, <1>26
  DEF Step, HandleEvents, TaskSteps, Environment

(* Every step keeps h11's states telling of the newest cycle what they do. *)
LEMMA ProgressStep ==
  ASSUME Typed, StageShape, ConnShape, ModeShape, Progress, Attended, Step
  PROVE  Progress'
<1> USE DEF requests, idle, flow, mode, Typed, FlagsTyped, CyclesTyped, ConnTyped,
        Progress, InProgress, Requests, Conn, Cycle
<1>1. CASE DataReceived BY <1>1 DEF DataReceived
<1>2. ASSUME NEW closes \in BOOLEAN, NEW expect \in Expects, HandleRequest(closes, expect)
      PROVE  Progress'
  <2>1. /\ conn.their = "idle" /\ cycle < MaxRequests /\ cycle' = cycle + 1
        /\ cycles' = [cycles EXCEPT ![cycle + 1] = NewCycle("running", expect)]
        /\ transport' = transport /\ feeding' = feeding /\ feeding
    BY <1>2, Zenon DEF HandleRequest
  <2>2. ~InProgress BY <2>1 DEF ConnShape, Progress
  <2>3. cycle + 1 \in Requests /\ cycle \in Nat BY <2>1, ConstantsAssumption
  <2>4. /\ \A d \in Requests \ {cycle + 1} : cycles'[d] = cycles[d]
        /\ cycles'[cycle + 1] = NewCycle("running", expect)
    BY <2>1, <2>3
  <2>5. conn'.our = "respond" /\ conn'.their = "body" /\ keep_alive_timer' = FALSE
    BY <1>2 DEF HandleRequest, Conn
  <2>6. InProgress' BY <2>1, <2>3, <2>4 DEF NewCycle
  <2>7. cycles'[cycle'].more_body BY <2>1, <2>4 DEF NewCycle
  <2>8. cycle' \in Requests BY <2>1, <2>3
  <2>9. QED BY <2>5, <2>6, <2>7, <2>8
<1>3. CASE HandleWebsocketUpgrade BY <1>3 DEF HandleWebsocketUpgrade
<1>4. CASE HandleData BY <1>4 DEF HandleData
<1>5. CASE HandleEndOfMessage
  <2>1. ~upgraded /\ cycle \in Requests /\ conn.their = "body"
    BY <1>5 DEF HandleEndOfMessage, ModeShape
  <2>2. UNCHANGED <<cycle, keep_alive_timer>> BY <1>5 DEF HandleEndOfMessage
  <2>3. CASE conn.our = "done"
    <3>1. conn' = NextCycle(conn) /\ cycles' = cycles
      BY <1>5, <2>3 DEF HandleEndOfMessage
    <3>2. conn'.our = "idle" /\ conn'.their = "idle" BY <3>1, NextCycleFacts
    <3>3. QED BY <2>2, <2>3, <3>1, <3>2
  <2>4. CASE conn.our # "done"
    <3>1. conn' = Theirs(conn, "done") /\ cycles' = EndsMessage(cycle)
      BY <1>5, <2>4 DEF HandleEndOfMessage
    <3>2. conn'.our = conn.our /\ conn'.their # "body" BY <2>4, <3>1, TheirsFacts
    <3>3. /\ cycles'[cycle].response_complete = cycles[cycle].response_complete
          /\ cycles'[cycle].response_started = cycles[cycle].response_started
      BY <2>1, <3>1 DEF EndsMessage
    <3>4. upgraded' = upgraded BY <1>5 DEF HandleEndOfMessage
    <3>5. QED BY <2>2, <3>2, <3>3, <3>4
  <2>5. QED BY <2>3, <2>4
<1>6. CASE Paused BY <1>6 DEF Paused
<1>7. CASE DataConsumed BY <1>7 DEF DataConsumed
<1>8. CASE InvalidRequest
  BY <1>8, InvalidRequestConn DEF InvalidRequest, Closed
<1>9. ASSUME NEW c \in Requests, Receive(c) PROVE Progress'
  BY <1>9 DEF Receive, Running, Write, Delivered
<1>10. ASSUME NEW c \in Requests, ReceiveWakes(c) PROVE Progress'
  BY <1>10 DEF ReceiveWakes, Delivered
<1>11. ASSUME NEW c \in Requests, SendStart(c) PROVE Progress'
  <2>1. cycles[c].stage # "none" /\ ~cycles[c].response_complete
    BY <1>11 DEF SendStart, Sends, Running, StageShape
  <2>2. InProgress BY <2>1, Newest
  <2>3. /\ c = cycle /\ cycle' = cycle /\ upgraded' = upgraded
        /\ keep_alive_timer' = keep_alive_timer
        /\ cycles'[c].response_complete = cycles[c].response_complete
        /\ cycles'[c].response_started
        /\ cycles'[c].more_body = cycles[c].more_body
    BY <1>11, <2>1, Newest DEF SendStart
  <2>4. conn'.their = "body" => conn.their = "body" BY <1>11, SendStartConn, ClosedFacts
  <2>5. conn'.our \in {"body", "error", conn.our} BY <1>11, SendStartConn, ClosedFacts
  <2>6. QED BY <2>2, <2>3, <2>4, <2>5
<1>12. ASSUME NEW c \in Requests, SendBody(c) PROVE Progress'
  BY <1>12, ClosedFacts DEF SendBody, SendFails, Sends, Running
<1>13. ASSUME NEW c \in Requests, SendShortBody(c) PROVE Progress'
  <2>1. cycles[c].stage # "none" /\ ~cycles[c].response_complete
    BY <1>13 DEF SendShortBody, Sends, Running
  <2>2. InProgress BY <2>1, Newest
  <2>3. /\ c = cycle /\ cycle' = cycle /\ upgraded' = upgraded
        /\ keep_alive_timer' = keep_alive_timer
    BY <1>13, <2>1, Newest DEF SendShortBody
  <2>4. cycles'[c].response_complete /\ cycles'[c].more_body = cycles[c].more_body
    BY <1>13, AnsweredFacts DEF SendShortBody
  <2>5. conn'.our = "error" /\ (conn'.their = "body" => conn.their = "body")
    BY <1>13, ClosedFacts DEF SendShortBody
  <2>6. QED BY <2>2, <2>3, <2>4, <2>5
<1>14. ASSUME NEW c \in Requests, TaskOver(c) PROVE Progress'
  BY <1>14 DEF TaskOver, TaskStep, SameResponse
<1>15. ASSUME NEW c \in Requests, TaskCloses(c) PROVE Progress'
  BY <1>15 DEF TaskCloses, TaskStep, SameResponse
<1>16. ASSUME NEW c \in Requests, TaskRefused(c) PROVE Progress'
  BY <1>16, ClosedFacts DEF TaskRefused, TaskStep, SameResponse
<1>17. ASSUME NEW c \in Requests, HeadWaits(c) PROVE Progress'
  BY <1>17 DEF HeadWaits, TaskStep, SameResponse
<1>18. ASSUME NEW c \in Requests, BodyWaits(c) PROVE Progress'
  <2>1. cycles[c].stage # "none" /\ ~cycles[c].response_complete
    BY <1>18 DEF BodyWaits, TaskStep
  <2>2. InProgress BY <2>1, Newest
  <2>3. /\ c = cycle /\ cycle' = cycle /\ upgraded' = upgraded
        /\ keep_alive_timer' = keep_alive_timer
        /\ cycles'[c].response_complete = cycles[c].response_complete
        /\ cycles'[c].response_started
        /\ cycles'[c].more_body = cycles[c].more_body
    BY <1>18, <2>1, Newest DEF BodyWaits, TaskStep, SameResponse
  <2>4. conn'.their = "body" => conn.their = "body" BY <1>18, BodyWaitsConn
  <2>5. conn'.our = "body" BY <1>18, BodyWaitsConn
  <2>6. QED BY <2>2, <2>3, <2>4, <2>5
<1>19. ASSUME NEW c \in Requests, Answers(c) PROVE Progress'
  <2>1. cycles[c].stage # "none" /\ ~cycles[c].response_complete
    BY <1>19 DEF Answers, TaskStep
  <2>2. InProgress BY <2>1, Newest
  <2>3. /\ c = cycle /\ cycle' = cycle /\ upgraded' = upgraded
        /\ cycles'[c].response_complete /\ cycles'[c].more_body = cycles[c].more_body
    BY <1>19, <2>1, Newest DEF Answers, TaskStep
  <2>4. /\ conn'.our \notin {"body", "respond"}
        /\ conn'.their = "body" => conn.their = "body"
    BY <1>19 DEF Answers, AnswersBy, LastAnswer, NextStarts, RequestUnfinished
  <2>5. QED BY <2>2, <2>3, <2>4
<1>20. CASE ResumeWriting BY <1>20 DEF ResumeWriting
<1>21. CASE EofReceived BY <1>21 DEF EofReceived
<1>22. ASSUME NEW exc \in BOOLEAN, ConnectionLost(exc) PROVE Progress'
  BY <1>22, ClosedFacts DEF ConnectionLost, MayClose
<1>23. CASE KeepAliveTimeout
  BY <1>23, ClosedFacts DEF KeepAliveTimeout, MayClose, is_closing
<1>24. CASE Shutdown
  <2>1. CASE NewestAnswered
    <3>1. /\ conn' = ClosedBy(conn)
          /\ UNCHANGED <<cycle, cycles, keep_alive_timer, upgraded>>
      BY <1>24, <2>1 DEF Shutdown
    <3>2. QED BY <3>1, ClosedFacts
  <2>2. CASE ~NewestAnswered
    <3>1. /\ cycles' = [cycles EXCEPT ![cycle].keep_alive = FALSE]
          /\ UNCHANGED <<cycle, conn, keep_alive_timer, upgraded>>
      BY <1>24, <2>2 DEF Shutdown
    <3>2. QED BY <3>1
  <2>3. QED BY <2>1, <2>2
<1>25. CASE WebSocketTransport BY <1>25 DEF WebSocketTransport
<1>26. CASE UNCHANGED vars BY <1>26 DEF vars
<1>27. QED
  BY <1>1, <1>2, <1>3, <1>4, <1>5, <1>6, <1>7, <1>8, <1>9, <1>10, <1>11, <1>12, <1>13,
     <1>14, <1>15, <1>16, <1>17, <1>18, <1>19, <1>20, <1>21, <1>22, <1>23, <1>24,
     <1>25, <1>26
  DEF Step, HandleEvents, TaskSteps, Environment

(* Every step keeps the count of the responses: the one that ends a cycle counts it. *)
LEMMA CountingStep ==
  ASSUME Typed, StageShape, ConnShape, ModeShape, Progress, Counting, Step
  PROVE  Counting'
<1> USE DEF requests, idle, flow, mode, Typed, FlagsTyped, CyclesTyped, ConnTyped,
        Counting, InProgress, Requests, Conn, Cycle
<1>1. CASE DataReceived BY <1>1 DEF DataReceived
<1>2. ASSUME NEW closes \in BOOLEAN, NEW expect \in Expects, HandleRequest(closes, expect)
      PROVE  Counting'
  <2>1. /\ conn.their = "idle" /\ cycle < MaxRequests /\ cycle' = cycle + 1
        /\ cycles' = [cycles EXCEPT ![cycle + 1] = NewCycle("running", expect)]
        /\ transport' = transport /\ feeding' = feeding /\ feeding
    BY <1>2, Zenon DEF HandleRequest
  <2>2. ~InProgress BY <2>1 DEF ConnShape, Progress
  <2>3. cycle + 1 \in Requests /\ cycle \in Nat BY <2>1, ConstantsAssumption
  <2>4. /\ \A d \in Requests \ {cycle + 1} : cycles'[d] = cycles[d]
        /\ cycles'[cycle + 1] = NewCycle("running", expect)
    BY <2>1, <2>3
  <2>5. conn'.our = "respond" BY <1>2 DEF HandleRequest, Conn
  <2>6. total_requests' = cycle BY <1>2 DEF HandleRequest, ConnShape
  <2>7. QED BY <2>1, <2>3, <2>5, <2>6
<1>3. CASE HandleWebsocketUpgrade BY <1>3 DEF HandleWebsocketUpgrade
<1>4. CASE HandleData BY <1>4 DEF HandleData
<1>5. CASE HandleEndOfMessage
  <2>1. cycle \in Requests BY <1>5 DEF HandleEndOfMessage, ModeShape, Progress
  <2>2. UNCHANGED <<cycle, total_requests>> BY <1>5 DEF HandleEndOfMessage
  <2>3. CASE conn.our = "done"
    <3>1. cycles' = cycles BY <1>5, <2>3 DEF HandleEndOfMessage
    <3>2. QED BY <2>2, <2>3, <3>1 DEF Progress
  <2>4. CASE conn.our # "done"
    <3>1. conn' = Theirs(conn, "done") /\ cycles' = EndsMessage(cycle)
      BY <1>5, <2>4 DEF HandleEndOfMessage
    <3>2. conn'.our = conn.our BY <2>4, <3>1, TheirsFacts
    <3>3. cycles'[cycle].response_complete = cycles[cycle].response_complete
      BY <2>1, <3>1 DEF EndsMessage
    <3>4. QED BY <2>2, <3>2, <3>3
  <2>5. QED BY <2>3, <2>4
<1>6. CASE Paused BY <1>6 DEF Paused
<1>7. CASE DataConsumed BY <1>7 DEF DataConsumed
<1>8. CASE InvalidRequest
  BY <1>8, InvalidRequestConn DEF InvalidRequest, Closed
<1>9. ASSUME NEW c \in Requests, Receive(c) PROVE Counting'
  BY <1>9 DEF Receive, Running, Write, Delivered
<1>10. ASSUME NEW c \in Requests, ReceiveWakes(c) PROVE Counting'
  BY <1>10 DEF ReceiveWakes, Delivered
<1>11. ASSUME NEW c \in Requests, SendStart(c) PROVE Counting'
  <2>1. cycles[c].stage # "none" /\ ~cycles[c].response_complete
    BY <1>11 DEF SendStart, Sends, Running, StageShape
  <2>2. InProgress BY <2>1, Newest
  <2>3. /\ c = cycle /\ UNCHANGED <<cycle, total_requests>>
        /\ cycles'[c].response_complete = cycles[c].response_complete
    BY <1>11, <2>1, Newest DEF SendStart
  <2>4. conn'.our \in {"body", "error", conn.our}
    BY <1>11, SendStartConn, ClosedFacts DEF SendStart
  <2>5. QED BY <2>2, <2>3, <2>4
<1>12. ASSUME NEW c \in Requests, SendBody(c) PROVE Counting'
  BY <1>12, ClosedFacts DEF SendBody, SendFails, Sends, Running
<1>13. ASSUME NEW c \in Requests, SendShortBody(c) PROVE Counting'
  <2>1. cycles[c].stage # "none" /\ ~cycles[c].response_complete
    BY <1>13 DEF SendShortBody, Sends, Running
  <2>2. InProgress BY <2>1, Newest
  <2>3. c = cycle /\ UNCHANGED <<cycle, total_requests>>
    BY <1>13, <2>1, Newest DEF SendShortBody
  <2>4. cycles'[c].response_complete BY <1>13, AnsweredFacts DEF SendShortBody
  <2>5. conn'.our = "error" BY <1>13, ClosedFacts DEF SendShortBody
  <2>6. QED BY <2>2, <2>3, <2>4, <2>5
<1>14. ASSUME NEW c \in Requests, TaskOver(c) PROVE Counting'
  BY <1>14 DEF TaskOver, TaskStep, SameResponse
<1>15. ASSUME NEW c \in Requests, TaskCloses(c) PROVE Counting'
  BY <1>15 DEF TaskCloses, TaskStep, SameResponse
<1>16. ASSUME NEW c \in Requests, TaskRefused(c) PROVE Counting'
  <2>1. cycles[c].stage # "none" /\ ~cycles[c].response_complete
    BY <1>16 DEF TaskRefused, TaskStep
  <2>2. InProgress BY <2>1, Newest
  <2>3. /\ c = cycle /\ UNCHANGED <<cycle, total_requests>>
        /\ cycles'[c].response_complete = cycles[c].response_complete
    BY <1>16, <2>1, Newest DEF TaskRefused, TaskStep, SameResponse
  <2>4. conn'.our \in {"body", "error", conn.our}
    BY <1>16, ClosedFacts DEF TaskRefused
  <2>5. QED BY <2>2, <2>3, <2>4
<1>17. ASSUME NEW c \in Requests, HeadWaits(c) PROVE Counting'
  BY <1>17 DEF HeadWaits, TaskStep, SameResponse
<1>18. ASSUME NEW c \in Requests, BodyWaits(c) PROVE Counting'
  <2>1. cycles[c].stage # "none" /\ ~cycles[c].response_complete
    BY <1>18 DEF BodyWaits, TaskStep
  <2>2. InProgress BY <2>1, Newest
  <2>3. /\ c = cycle /\ UNCHANGED <<cycle, total_requests>>
        /\ cycles'[c].response_complete = cycles[c].response_complete
    BY <1>18, <2>1, Newest DEF BodyWaits, TaskStep, SameResponse
  <2>4. conn'.our \in {"body", "error", conn.our}
    BY <1>18, BodyWaitsConn DEF BodyWaits
  <2>5. QED BY <2>2, <2>3, <2>4
<1>19. ASSUME NEW c \in Requests, Answers(c) PROVE Counting'
  <2>1. cycles[c].stage # "none" /\ ~cycles[c].response_complete
    BY <1>19 DEF Answers, TaskStep
  <2>2. InProgress BY <2>1, Newest
  <2>3. /\ c = cycle /\ cycle' = cycle /\ total_requests' = total_requests + 1
        /\ cycles'[c].response_complete
    BY <1>19, <2>1, Newest DEF Answers, TaskStep
  <2>4. QED BY <2>2, <2>3
<1>20. CASE ResumeWriting BY <1>20 DEF ResumeWriting
<1>21. CASE EofReceived BY <1>21 DEF EofReceived
<1>22. ASSUME NEW exc \in BOOLEAN, ConnectionLost(exc) PROVE Counting'
  BY <1>22, ClosedFacts DEF ConnectionLost, MayClose
<1>23. CASE KeepAliveTimeout
  BY <1>23, ClosedFacts DEF KeepAliveTimeout, MayClose, is_closing
<1>24. CASE Shutdown
  <2>1. CASE NewestAnswered
    <3>1. conn' = ClosedBy(conn) /\ UNCHANGED <<cycle, cycles, idle, flow>>
      BY <1>24, <2>1 DEF Shutdown
    <3>2. conn'.our = IF MayClose(conn) THEN "closed" ELSE "error" BY <3>1, ClosedFacts
    <3>3. transport' = IF MayClose(conn) THEN Closed ELSE transport
      BY <1>24, <2>1 DEF Shutdown
    <3>4. QED BY <3>1, <3>2, <3>3 DEF MayClose, Closed
  <2>2. CASE ~NewestAnswered
    <3>1. /\ cycles' = [cycles EXCEPT ![cycle].keep_alive = FALSE]
          /\ UNCHANGED <<cycle, conn, transport, idle, flow>>
      BY <1>24, <2>2 DEF Shutdown
    <3>2. QED BY <3>1
  <2>3. QED BY <2>1, <2>2
<1>25. CASE WebSocketTransport BY <1>25 DEF WebSocketTransport
<1>26. CASE UNCHANGED vars BY <1>26 DEF vars
<1>27. QED
  BY <1>1, <1>2, <1>3, <1>4, <1>5, <1>6, <1>7, <1>8, <1>9, <1>10, <1>11, <1>12, <1>13,
     <1>14, <1>15, <1>16, <1>17, <1>18, <1>19, <1>20, <1>21, <1>22, <1>23, <1>24,
     <1>25, <1>26
  DEF Step, HandleEvents, TaskSteps, Environment

(* Every step leaves somebody to resume reading, and answers before it ends a task. *)
LEMMA AttendedStep ==
  ASSUME Typed, StageShape, ConnShape, ModeShape, Progress, Attended, Step
  PROVE  Attended'
<1> USE DEF requests, idle, flow, mode, Typed, FlagsTyped, CyclesTyped, ConnTyped,
        Attended, InProgress, Requests, Conn, Cycle
<1>1. CASE DataReceived BY <1>1 DEF DataReceived
<1>2. ASSUME NEW closes \in BOOLEAN, NEW expect \in Expects, HandleRequest(closes, expect)
      PROVE  Attended'
  <2>1. /\ conn.their = "idle" /\ cycle < MaxRequests /\ cycle' = cycle + 1
        /\ cycles' = [cycles EXCEPT ![cycle + 1] = NewCycle("running", expect)]
        /\ transport' = transport /\ feeding' = feeding /\ feeding
    BY <1>2, Zenon DEF HandleRequest
  <2>2. ~InProgress BY <2>1 DEF ConnShape, Progress
  <2>3. cycle + 1 \in Requests /\ cycle \in Nat BY <2>1, ConstantsAssumption
  <2>4. /\ \A d \in Requests \ {cycle + 1} : cycles'[d] = cycles[d]
        /\ cycles'[cycle + 1] = NewCycle("running", expect)
    BY <2>1, <2>3
  <2>5. InProgress' BY <2>1, <2>3, <2>4 DEF NewCycle
  <2>6. conn.our # "error" BY <2>1 DEF ConnShape
  <2>7. \A c \in Requests : cycles'[c].stage = "done" => cycles'[c].response_complete
    BY <2>1, <2>3, <2>4, <2>6 DEF NewCycle, ModeShape
  <2>8. QED BY <2>5, <2>7
<1>3. CASE HandleWebsocketUpgrade
  <2>1. conn.our = "idle" BY <1>3 DEF HandleWebsocketUpgrade, ConnShape
  <2>2. UNCHANGED <<cycle, cycles, transport, read_paused>>
    BY <1>3 DEF HandleWebsocketUpgrade
  <2>3. QED BY <2>1, <2>2
<1>4. CASE HandleData
  <2>1. feeding /\ transport = "open" /\ ~upgraded BY <1>4 DEF HandleData, ModeShape
  <2>2. conn.our # "error" => InProgress
    BY <1>4, <2>1 DEF HandleData, ConnShape, Progress
  <2>3. cycle \in Requests BY <1>4, <2>1 DEF HandleData, Progress
  <2>4. /\ cycles' = [cycles EXCEPT ![cycle].body = BodyAfterChunk,
                                    ![cycle].message_event = TRUE]
        /\ UNCHANGED <<cycle, conn>>
    BY <1>4 DEF HandleData
  <2>5. \A c \in Requests : /\ cycles'[c].stage = cycles[c].stage
                            /\ cycles'[c].response_complete = cycles[c].response_complete
    BY <2>3, <2>4
  <2>6. QED BY <2>1, <2>2, <2>3, <2>4, <2>5
<1>5. CASE HandleEndOfMessage
  <2>1. cycle \in Requests BY <1>5 DEF HandleEndOfMessage, ModeShape, Progress
  <2>2. UNCHANGED <<cycle, transport, read_paused>> BY <1>5 DEF HandleEndOfMessage
  <2>3. CASE conn.our = "done"
    <3>1. cycles' = cycles BY <1>5, <2>3 DEF HandleEndOfMessage
    <3>2. QED BY <2>2, <2>3, <3>1
  <2>4. CASE conn.our # "done"
    <3>1. conn' = Theirs(conn, "done") /\ cycles' = EndsMessage(cycle)
      BY <1>5, <2>4 DEF HandleEndOfMessage
    <3>2. conn'.our = conn.our BY <2>4, <3>1, TheirsFacts
    <3>3. \A c \in Requests :
            /\ cycles'[c].stage = cycles[c].stage
            /\ cycles'[c].response_complete = cycles[c].response_complete
      BY <2>1, <3>1 DEF EndsMessage
    <3>4. QED BY <2>2, <3>2, <3>3
  <2>5. QED BY <2>3, <2>4
<1>6. CASE Paused
  <2>1. feeding /\ transport = "open" /\ ~upgraded BY <1>6 DEF Paused, ModeShape
  <2>2. conn.our # "error" => InProgress
    BY <1>6, <2>1 DEF Paused, ConnShape, Progress
  <2>3. conn'.our = conn.our BY <1>6 DEF Paused
  <2>4. QED BY <1>6, <2>1, <2>2, <2>3 DEF Paused
<1>7. CASE DataConsumed BY <1>7 DEF DataConsumed
<1>8. CASE InvalidRequest
  BY <1>8, InvalidRequestConn DEF InvalidRequest, Closed
<1>9. ASSUME NEW c \in Requests, Receive(c) PROVE Attended'
  BY <1>9 DEF Receive, Running, Write, Delivered
<1>10. ASSUME NEW c \in Requests, ReceiveWakes(c) PROVE Attended'
  BY <1>10 DEF ReceiveWakes, Delivered
<1>11. ASSUME NEW c \in Requests, SendStart(c) PROVE Attended'
  BY <1>11, SendStartConn, ClosedFacts DEF SendStart, Sends, Running
<1>12. ASSUME NEW c \in Requests, SendBody(c) PROVE Attended'
  BY <1>12, ClosedFacts DEF SendBody, SendFails, Sends, Running
<1>13. ASSUME NEW c \in Requests, SendShortBody(c) PROVE Attended'
  BY <1>13, ClosedFacts DEF SendShortBody, Sends, Running
<1>14. ASSUME NEW c \in Requests, TaskOver(c) PROVE Attended'
  <2>1. cycles[c].response_complete \/ transport = "lost" BY <1>14 DEF TaskOver, StageShape
  <2>2. QED BY <1>14, <2>1 DEF TaskOver, TaskStep, SameResponse
<1>15. ASSUME NEW c \in Requests, TaskCloses(c) PROVE Attended'
  BY <1>15 DEF TaskCloses, Closed
<1>16. ASSUME NEW c \in Requests, TaskRefused(c) PROVE Attended'
  BY <1>16, ClosedFacts DEF TaskRefused, TaskStep, SameResponse
<1>17. ASSUME NEW c \in Requests, HeadWaits(c) PROVE Attended'
  BY <1>17 DEF HeadWaits, TaskStep, SameResponse
<1>18. ASSUME NEW c \in Requests, BodyWaits(c) PROVE Attended'
  BY <1>18, BodyWaitsConn DEF BodyWaits, TaskStep, SameResponse
<1>19. ASSUME NEW c \in Requests, Answers(c) PROVE Attended'
  <2>1. cycles[c].stage # "none" /\ ~cycles[c].response_complete
    BY <1>19 DEF Answers, TaskStep
  <2>2. InProgress BY <2>1, Newest
  <2>3. CASE transport' # "open" BY <2>3
  <2>4. CASE transport' = "open"
    <3>1. ~read_paused' /\ transport = "open"
      BY <1>19, <2>4 DEF Answers, AnswersBy, LastAnswer, NextStarts, RequestUnfinished
    <3>2. /\ \A d \in Requests \ {c} : cycles'[d] = cycles[d]
          /\ cycles'[c].response_complete
      BY <1>19 DEF Answers, TaskStep
    <3>3. \A d \in Requests \ {c} :
            cycles[d].response_complete \/ cycles[d].stage = "none"
      BY <2>1, <2>2, Newest
    <3>4. QED BY <3>1, <3>2, <3>3
  <2>5. QED BY <2>3, <2>4
<1>20. CASE ResumeWriting BY <1>20 DEF ResumeWriting
<1>21. CASE EofReceived BY <1>21 DEF EofReceived
<1>22. ASSUME NEW exc \in BOOLEAN, ConnectionLost(exc) PROVE Attended'
  BY <1>22, ClosedFacts DEF ConnectionLost, MayClose
<1>23. CASE KeepAliveTimeout
  BY <1>23, ClosedFacts DEF KeepAliveTimeout, MayClose, is_closing
<1>24. CASE Shutdown
  <2>1. CASE NewestAnswered
    <3>1. conn' = ClosedBy(conn) /\ UNCHANGED <<cycle, cycles, idle, flow>>
      BY <1>24, <2>1 DEF Shutdown
    <3>2. conn'.our = IF MayClose(conn) THEN "closed" ELSE "error" BY <3>1, ClosedFacts
    <3>3. transport' = IF MayClose(conn) THEN Closed ELSE transport
      BY <1>24, <2>1 DEF Shutdown
    <3>4. QED BY <3>1, <3>2, <3>3 DEF MayClose, Closed
  <2>2. CASE ~NewestAnswered
    <3>1. /\ cycles' = [cycles EXCEPT ![cycle].keep_alive = FALSE]
          /\ UNCHANGED <<cycle, conn, transport, idle, flow>>
      BY <1>24, <2>2 DEF Shutdown
    <3>2. QED BY <3>1
  <2>3. QED BY <2>1, <2>2
<1>25. CASE WebSocketTransport BY <1>25 DEF WebSocketTransport
<1>26. CASE UNCHANGED vars BY <1>26 DEF vars
<1>27. QED
  BY <1>1, <1>2, <1>3, <1>4, <1>5, <1>6, <1>7, <1>8, <1>9, <1>10, <1>11, <1>12, <1>13,
     <1>14, <1>15, <1>16, <1>17, <1>18, <1>19, <1>20, <1>21, <1>22, <1>23, <1>24,
     <1>25, <1>26
  DEF Step, HandleEvents, TaskSteps, Environment

(* Every step that leaves receive() something to learn sets message_event. *)
LEMMA AwakenStep ==
  ASSUME Typed, StageShape, ModeShape, Progress, Awaken, Step
  PROVE  Awaken'
<1> USE DEF requests, idle, flow, mode, Typed, FlagsTyped, CyclesTyped, ConnTyped,
        Awaken, Awake, Cycle
<1>1. CASE DataReceived BY <1>1 DEF DataReceived
<1>2. ASSUME NEW closes \in BOOLEAN, NEW expect \in Expects, HandleRequest(closes, expect)
      PROVE  Awaken'
  <2>1. cycles' = [cycles EXCEPT ![cycle + 1] = NewCycle("running", expect)]
    BY <1>2 DEF HandleRequest
  <2>2. cycle + 1 \in Requests BY <1>2, ConstantsAssumption DEF HandleRequest, Requests
  <2>3. /\ \A d \in Requests \ {cycle + 1} : cycles'[d] = cycles[d]
        /\ cycles'[cycle + 1] = NewCycle("running", expect)
    BY <2>1, <2>2
  <2>4. Awake(cycles'[cycle + 1]) BY <2>3 DEF NewCycle
  <2>5. QED BY <2>3, <2>4
<1>3. CASE HandleWebsocketUpgrade BY <1>3 DEF HandleWebsocketUpgrade
<1>4. CASE HandleData
  <2>1. cycle \in Requests /\ (conn.their = "body" => cycles[cycle].more_body)
    BY <1>4 DEF HandleData, ModeShape, Progress
  <2>2. /\ cycles' = [cycles EXCEPT ![cycle].body = BodyAfterChunk,
                                    ![cycle].message_event = TRUE]
        /\ cycles[cycle].more_body
    BY <1>4, <2>1 DEF HandleData
  <2>3. /\ \A d \in Requests \ {cycle} : cycles'[d] = cycles[d]
        /\ cycles'[cycle].message_event /\ cycles'[cycle].more_body
        /\ cycles'[cycle].end_received = cycles[cycle].end_received
    BY <2>1, <2>2
  <2>4. ~cycles[cycle].end_received BY <2>1, <2>2
  <2>5. Awake(cycles'[cycle]) BY <2>3, <2>4
  <2>6. QED BY <2>1, <2>3, <2>5
<1>5. CASE HandleEndOfMessage
  <2>1. cycle \in Requests /\ (conn.their = "body" => cycles[cycle].more_body)
    BY <1>5 DEF HandleEndOfMessage, ModeShape, Progress
  <2>2. CASE cycles' = EndsMessage(cycle)
    <3>1. ~cycles[cycle].end_received BY <1>5, <2>1 DEF HandleEndOfMessage
    <3>2. /\ \A d \in Requests \ {cycle} : cycles'[d] = cycles[d]
          /\ cycles'[cycle].message_event
          /\ cycles'[cycle].end_received = cycles[cycle].end_received
      BY <2>1, <2>2 DEF EndsMessage
    <3>3. Awake(cycles'[cycle]) BY <3>1, <3>2
    <3>4. QED BY <2>1, <3>2, <3>3
  <2>3. QED BY <1>5, <2>2 DEF HandleEndOfMessage
<1>6. CASE Paused BY <1>6 DEF Paused
<1>7. CASE DataConsumed BY <1>7 DEF DataConsumed
<1>8. CASE InvalidRequest BY <1>8 DEF InvalidRequest, Write, Closed
<1>9. ASSUME NEW c \in Requests, Receive(c) PROVE Awaken'
  BY <1>9 DEF Receive, Running, Write, Delivered
<1>10. ASSUME NEW c \in Requests, ReceiveWakes(c) PROVE Awaken'
  BY <1>10 DEF ReceiveWakes, Delivered
<1>11. ASSUME NEW c \in Requests, SendStart(c) PROVE Awaken'
  BY <1>11 DEF SendStart, Sends, Running, SendFails
<1>12. ASSUME NEW c \in Requests, SendBody(c) PROVE Awaken'
  BY <1>12 DEF SendBody, Sends, Running, SendFails
<1>13. ASSUME NEW c \in Requests, SendShortBody(c) PROVE Awaken'
  BY <1>13 DEF SendShortBody, Sends, Running, Answered
<1>14. ASSUME NEW c \in Requests, TaskOver(c) PROVE Awaken'
  BY <1>14 DEF TaskOver, TaskStep, SameResponse
<1>15. ASSUME NEW c \in Requests, TaskCloses(c) PROVE Awaken'
  BY <1>15 DEF TaskCloses, TaskStep, SameResponse
<1>16. ASSUME NEW c \in Requests, TaskRefused(c) PROVE Awaken'
  BY <1>16 DEF TaskRefused, TaskStep, SameResponse
<1>17. ASSUME NEW c \in Requests, HeadWaits(c) PROVE Awaken'
  <2>1. /\ \A d \in Requests \ {c} : cycles'[d] = cycles[d]
        /\ cycles'[c].disconnected = cycles[c].disconnected
        /\ cycles'[c].response_complete = cycles[c].response_complete
        /\ cycles'[c].body = cycles[c].body
        /\ cycles'[c].more_body = cycles[c].more_body
        /\ cycles'[c].end_received = cycles[c].end_received
        /\ cycles'[c].message_event = cycles[c].message_event
        /\ cycles'[c].receiving \in {cycles[c].receiving, FALSE}
    BY <1>17 DEF HeadWaits, TaskStep, SameResponse
  <2>2. Awake(cycles[c]) OBVIOUS
  <2>3. Awake(cycles'[c]) BY <2>1, <2>2
  <2>4. QED BY <2>1, <2>3
<1>18. ASSUME NEW c \in Requests, BodyWaits(c) PROVE Awaken'
  <2>1. /\ \A d \in Requests \ {c} : cycles'[d] = cycles[d]
        /\ cycles'[c].disconnected = cycles[c].disconnected
        /\ cycles'[c].response_complete = cycles[c].response_complete
        /\ cycles'[c].body = cycles[c].body
        /\ cycles'[c].more_body = cycles[c].more_body
        /\ cycles'[c].end_received = cycles[c].end_received
        /\ cycles'[c].message_event = cycles[c].message_event
        /\ cycles'[c].receiving \in {cycles[c].receiving, FALSE}
    BY <1>18 DEF BodyWaits, TaskStep, SameResponse
  <2>2. Awake(cycles[c]) OBVIOUS
  <2>3. Awake(cycles'[c]) BY <2>1, <2>2
  <2>4. QED BY <2>1, <2>3
<1>19. ASSUME NEW c \in Requests, Answers(c) PROVE Awaken'
  BY <1>19 DEF Answers, TaskStep, AnswersBy, LastAnswer, NextStarts, RequestUnfinished
<1>20. CASE ResumeWriting BY <1>20 DEF ResumeWriting
<1>21. CASE EofReceived BY <1>21 DEF EofReceived
<1>22. ASSUME NEW exc \in BOOLEAN, ConnectionLost(exc) PROVE Awaken'
  BY <1>22 DEF ConnectionLost, NewestAnswered
<1>23. CASE KeepAliveTimeout BY <1>23 DEF KeepAliveTimeout
<1>24. CASE Shutdown BY <1>24 DEF Shutdown, NewestAnswered
<1>25. CASE WebSocketTransport BY <1>25 DEF WebSocketTransport
<1>26. CASE UNCHANGED vars BY <1>26 DEF vars
<1>27. QED
  BY <1>1, <1>2, <1>3, <1>4, <1>5, <1>6, <1>7, <1>8, <1>9, <1>10, <1>11, <1>12, <1>13,
     <1>14, <1>15, <1>16, <1>17, <1>18, <1>19, <1>20, <1>21, <1>22, <1>23, <1>24,
     <1>25, <1>26
  DEF Step, HandleEvents, TaskSteps, Environment

-----------------------------------------------------------------------------
(* The theorems. *)

(* The connection as it is made: between requests, with nothing received. *)
LEMMA InitInv == ASSUME Init PROVE IInv
<1> USE ConstantsAssumption DEF Requests
<1> DEFINE r == NewCycle("none", FALSE)
<1>1. r \in Cycle BY NewCycleType DEF Stages
<1>2. cycle = 0 /\ cycles = [c \in Requests |-> r] BY DEF Init
<1>3. /\ r.stage = "none" /\ r.receiving = FALSE /\ r.disconnected = FALSE
      /\ r.response_started = FALSE /\ r.response_complete = FALSE /\ r.body = 0
      /\ r.more_body = TRUE /\ r.message_event = FALSE /\ r.end_received = FALSE
  BY DEF NewCycle
<1> HIDE DEF r
<1>4. \A c \in Requests : cycles[c] = r BY <1>2
<1>5. FlagsTyped
  <2>1. 0 \in 0..MaxRequests /\ 0 \in Nat OBVIOUS
  <2>2. QED BY <2>1, Zenon DEF Init, FlagsTyped
<1>6. CyclesTyped BY <1>1, <1>2 DEF CyclesTyped
<1>7. /\ conn = [their |-> "idle", our |-> "idle", reuse |-> TRUE, buffered |-> FALSE]
      /\ ~keep_alive_timer /\ total_requests = 0 /\ ~feeding /\ ~read_paused
      /\ ~upgraded
  BY DEF Init
<1>8. ConnTyped BY <1>7 DEF ConnTyped, Conn
<1>9. /\ conn.their = "idle" /\ conn.our = "idle" /\ ~conn.buffered BY <1>7
<1>10. ~InProgress BY <1>2 DEF InProgress
<1>11. StageShape BY <1>2, <1>3, <1>4 DEF StageShape
<1>12. ConnShape /\ ModeShape /\ Progress /\ Counting
  BY <1>2, <1>7, <1>9, <1>10 DEF ConnShape, ModeShape, Progress, Counting
<1>13. Attended /\ Awaken BY <1>3, <1>4, <1>7 DEF Attended, Awaken, Awake
<1>14. QED BY <1>5, <1>6, <1>8, <1>11, <1>12, <1>13 DEF IInv

(* IInv is inductive: each part is kept with the help of the others. *)
LEMMA StepInv ==
  ASSUME IInv, [Next]_vars
  PROVE  Step /\ IInv'
<1> USE DEF IInv, Typed
<1>1. Step BY NextIsStep
<1>2. QED
  BY <1>1, FlagsTypedStep, CyclesTypedStep, ConnTypedStep, StageStep, ConnStep,
     ModeStep, ProgressStep, CountingStep, AttendedStep, AwakenStep

(* The inductive invariant holds of every connection: what h11's states, its buffer
   and the flags of uvicorn say of each other, between any two suspension points. *)
THEOREM Invariance == Spec => []IInv
<1>1. Init => IInv BY InitInv
<1>2. IInv /\ [Next]_vars => IInv' BY StepInv
<1>3. QED BY <1>1, <1>2, PTL DEF Spec

(* Every variable of the connection keeps its type. *)
THEOREM TypeCorrect == Spec => []TypeOK
<1>1. IInv => TypeOK
  BY DEF IInv, TypeOK, FlagsTyped, CyclesTyped, ConnTyped
<1>2. QED BY <1>1, Invariance, PTL

(* A keep-alive timer runs and a WebSocket upgrade happens only when every request
   handed to the application has been answered: the timer is armed by the response
   and cancelled by the next event, buffered or not. *)
THEOREM BetweenRequests == Spec => []OnlyBetweenRequests
<1>1. IInv => OnlyBetweenRequests
  <2> SUFFICES ASSUME IInv, keep_alive_timer \/ upgraded, NEW c \in 1..cycle
               PROVE  cycles[c].response_complete
    BY DEF OnlyBetweenRequests
  <2>1. c \in Requests /\ c \in Nat /\ cycle \in Nat
    BY ConstantsAssumption DEF IInv, FlagsTyped, Requests
  <2>2. ~InProgress BY DEF IInv, ModeShape, Progress
  <2>3. CASE c = cycle BY <2>1, <2>2, <2>3 DEF InProgress
  <2>4. CASE c < cycle BY <2>1, <2>4 DEF IInv, StageShape
  <2>5. QED BY <2>1, <2>3, <2>4
<1>2. QED BY <1>1, Invariance, PTL

(* No client waits for ever on an open connection: whatever holds its data back, the
   response in progress will let go when it is complete, and no task ends before. *)
THEOREM NeverStuck == Spec => []ClientNeverStuck
<1>1. IInv => ClientNeverStuck
  <2> SUFFICES ASSUME IInv, transport = "open", conn.our # "error"
               PROVE  /\ read_paused \/ (conn.buffered /\ ~feeding) =>
                           \E c \in 1..cycle : /\ cycles[c].stage # "done"
                                               /\ ~cycles[c].response_complete
                      /\ \A c \in 1..cycle :
                           cycles[c].stage = "done" => cycles[c].response_complete
    BY DEF ClientNeverStuck
  <2>1. cycle \in Nat /\ 1..cycle \subseteq Requests
    BY ConstantsAssumption DEF IInv, FlagsTyped, Requests
  <2>2. \A c \in 1..cycle : cycles[c].stage = "done" => cycles[c].response_complete
    BY <2>1 DEF IInv, Attended
  <2>3. InProgress => \E c \in 1..cycle : /\ cycles[c].stage # "done"
                                          /\ ~cycles[c].response_complete
    <3>1. SUFFICES ASSUME InProgress
                   PROVE  /\ cycle \in 1..cycle /\ cycles[cycle].stage # "done"
                          /\ ~cycles[cycle].response_complete
      OBVIOUS
    <3>2. cycle \in 1..cycle BY <2>1, <3>1, ConstantsAssumption DEF InProgress, Requests
    <3>3. QED BY <2>2, <3>1, <3>2 DEF InProgress
  <2>4. read_paused => InProgress BY DEF IInv, Attended
  <2>5. conn.buffered => InProgress
    <3>1. SUFFICES ASSUME conn.buffered PROVE InProgress OBVIOUS
    <3>2. conn.their \notin {"idle", "body"} BY <3>1 DEF IInv, ConnShape
    <3>3. conn.our \in {"respond", "body"}
      BY <3>2 DEF IInv, ConnShape, ConnTyped, Conn
    <3>4. ~upgraded BY <3>2 DEF IInv, ModeShape
    <3>5. QED BY <3>3, <3>4 DEF IInv, Progress
  <2>6. QED BY <2>2, <2>3, <2>4, <2>5
<1>2. QED BY <1>1, Invariance, PTL

(* A task that waits in receive() is due to wake whenever it has something to learn,
   and one that has been told the end of the body is woken by the end only. *)
THEOREM Receives == Spec => []ReceiveContract
<1>1. IInv => ReceiveContract
  <2> SUFFICES ASSUME IInv, NEW c \in 1..cycle
               PROVE  LET r == cycles[c]
                          over == r.disconnected \/ r.response_complete
                      IN  /\ r.receiving /\ (r.body > 0
                               \/ (~r.more_body /\ ~r.end_received) \/ over)
                             => r.message_event
                          /\ r.end_received => r.body = 0 /\ (r.message_event => over)
    BY DEF ReceiveContract
  <2>1. c \in Requests BY ConstantsAssumption DEF IInv, FlagsTyped, Requests
  <2>2. Awake(cycles[c]) BY <2>1 DEF IInv, Awaken
  <2>3. QED BY <2>2 DEF Awake
<1>2. QED BY <1>1, Invariance, PTL

(* The h11 connection implements HTTP pipelining: h11 withholds the next request
   until its predecessor has been answered, and its own counts of requests seen and
   answered move as those of the abstract connection do. *)
THEOREM Refinement == Spec => ImplementsPipelining
<1>1. Init => Abstract!Init BY DEF Init, Abstract!Init
<1>2. ASSUME IInv, [Next]_vars PROVE [Abstract!Next]_(Abstract!vars)
  <2>1. Step BY <1>2, StepInv
  <2>2. ASSUME UNCHANGED <<cycle, total_requests>>,
               transport' = transport \/ transport' # "open"
        PROVE  [Abstract!Next]_(Abstract!vars)
    <3>1. CASE transport = "open" /\ transport' # "open"
      BY <2>2, <3>1 DEF Abstract!Next, Abstract!Close
    <3>2. CASE (transport' = "open") = (transport = "open")
      BY <2>2, <3>2 DEF Abstract!vars
    <3>3. QED BY <2>2, <3>1, <3>2
  <2>3. ASSUME NEW closes \in BOOLEAN, NEW expect \in Expects,
               HandleRequest(closes, expect)
        PROVE  [Abstract!Next]_(Abstract!vars)
    <3>1. /\ feeding /\ conn.their = "idle" /\ cycle' = cycle + 1
          /\ UNCHANGED <<total_requests, transport>>
      BY <2>3 DEF HandleRequest
    <3>2. total_requests = cycle BY <1>2, <3>1 DEF IInv, ConnShape, Counting
    <3>3. transport = "open" BY <1>2, <3>1 DEF IInv, ModeShape
    <3>4. QED BY <3>1, <3>2, <3>3 DEF Abstract!Next, Abstract!Arrive
  <2>4. ASSUME NEW c \in Requests, Answers(c)
        PROVE  [Abstract!Next]_(Abstract!vars)
    <3>1. /\ cycle' = cycle /\ total_requests' = total_requests + 1
          /\ cycles[c].stage # "none" /\ ~cycles[c].response_complete
      BY <2>4 DEF Answers, TaskStep
    <3>2. total_requests = cycle - 1 /\ cycle \in Nat
      BY <1>2, <3>1, Newest DEF IInv, Counting, FlagsTyped
    <3>3. CASE transport' # "open"
      BY <3>1, <3>2, <3>3 DEF Abstract!Next, Abstract!FinishAndClose
    <3>4. CASE transport = "open" /\ transport' = "open"
      BY <3>1, <3>2, <3>4 DEF Abstract!Next, Abstract!FinishAndContinue
    <3>5. transport' # "open" \/ transport = "open"
      BY <2>4 DEF Answers, AnswersBy, LastAnswer, NextStarts, RequestUnfinished
    <3>6. QED BY <3>3, <3>4, <3>5
  <2>5. ASSUME NEW c \in Requests,
               \/ Receive(c) \/ ReceiveWakes(c)
               \/ SendStart(c) \/ SendBody(c) \/ SendShortBody(c)
               \/ TaskOver(c) \/ TaskCloses(c) \/ TaskRefused(c)
               \/ HeadWaits(c) \/ BodyWaits(c)
        PROVE  [Abstract!Next]_(Abstract!vars)
    <3>1. UNCHANGED <<cycle, total_requests>>
      BY <2>5
      DEF Receive, ReceiveWakes, SendStart, SendBody, SendShortBody, TaskOver,
          TaskCloses, TaskRefused, HeadWaits, BodyWaits, TaskStep, requests, idle
    <3>2. transport' = transport \/ transport' = Closed
      BY <2>5
      DEF Receive, ReceiveWakes, SendStart, SendBody, SendShortBody, TaskOver,
          TaskCloses, TaskRefused, HeadWaits, BodyWaits
    <3>3. QED BY <2>2, <3>1, <3>2 DEF Closed
  <2>6. CASE Environment
    <3>1. UNCHANGED <<cycle, total_requests>>
      BY <2>6
      DEF Environment, ResumeWriting, EofReceived, ConnectionLost, KeepAliveTimeout,
          Shutdown, WebSocketTransport, requests, idle
    <3>2. transport' = transport \/ transport' # "open"
      BY <2>6
      DEF Environment, ResumeWriting, EofReceived, ConnectionLost, KeepAliveTimeout,
          Shutdown, WebSocketTransport, Closed
    <3>3. QED BY <2>2, <3>1, <3>2
  <2>7. CASE \/ DataReceived \/ HandleWebsocketUpgrade \/ HandleData
             \/ HandleEndOfMessage \/ Paused \/ DataConsumed \/ InvalidRequest
    <3>1. UNCHANGED <<cycle, total_requests>>
      BY <2>7
      DEF DataReceived, HandleWebsocketUpgrade, HandleData, HandleEndOfMessage, Paused,
          DataConsumed, InvalidRequest, requests, idle
    <3>2. transport' = transport \/ transport' = Closed
      BY <2>7
      DEF DataReceived, HandleWebsocketUpgrade, HandleData, HandleEndOfMessage, Paused,
          DataConsumed, InvalidRequest
    <3>3. QED BY <2>2, <3>1, <3>2 DEF Closed
  <2>8. CASE UNCHANGED vars BY <2>2, <2>8 DEF vars, requests, idle
  <2>9. QED
    BY <2>1, <2>3, <2>4, <2>5, <2>6, <2>7, <2>8 DEF Step, HandleEvents, TaskSteps
<1>3. QED BY <1>1, <1>2, Invariance, PTL DEF Spec, ImplementsPipelining, Abstract!Spec

(* So the requests of a connection are processed one at a time, in the order they
   arrived, and on an open connection none waits while nothing is in progress. *)
THEOREM Promised == Spec => [](Abstract!OneAtATime /\ Abstract!WorkConserving)
BY Refinement, Abstract!Promises, PTL DEF ImplementsPipelining
=============================================================================
