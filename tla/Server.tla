------------------------------- MODULE Server -------------------------------
(***************************************************************************)
(* The life of one server process (uvicorn/server.py): application startup, *)
(* binding, the main loop, the signal handler, and the graceful shutdown   *)
(* that drains connections and request tasks before the application is     *)
(* told to shut down.  The coroutine Server._serve is a program counter,   *)
(* phase, that advances only where it awaits; the signal handler, the      *)
(* connections and the lifespan task (module Lifespan) run in between.     *)
(*                                                                         *)
(* A connection speaks HTTP/1.1 or has been upgraded to WebSocket, and is  *)
(* abstracted to what the server tells apart:                              *)
(*   absent        not accepted                                            *)
(*   accepted      the loop has a transport, connection_made has not run   *)
(*                 (a TLS handshake, or just the loop's next iteration)    *)
(*   fresh         in server_state.connections, no request yet, no timer   *)
(*   idle          its last response is complete, the keep-alive timer runs *)
(*   busy          the task of a request runs, later requests are queued   *)
(*   websocket     upgraded, the task of its application runs              *)
(*   closing       its transport is closing, or waits for a close frame    *)
(*                 under the close timer; connection_lost has not run      *)
(*   closing_busy  the same, while the task of a request runs              *)
(*   lost_busy     connection_lost has run, the task of a request runs     *)
(*   lost          connection_lost has run                                 *)
(* Tasks whose response is complete, or whose WebSocket is closing, are    *)
(* counted in background.                                                  *)
(***************************************************************************)
EXTENDS Lifespan

CONSTANTS
  Conns,             \* the connections clients may open
  LimitMaxRequests,  \* limit_max_requests, jitter included
  MaxRequests,       \* bound: requests that arrive on each connection
  GracefulTimeout,   \* timeout_graceful_shutdown is set
  WaitClosedWaits    \* asyncio's Server.wait_closed waits for the connections

ASSUME ServerAssumption ==
  /\ LimitMaxRequests \in Nat \ {0} /\ MaxRequests \in [Conns -> Nat]
  /\ GracefulTimeout \in BOOLEAN /\ WaitClosedWaits \in BOOLEAN

VARIABLES
  phase,           \* where Server._serve is suspended
  should_exit, force_exit,
  started, listening,
  total_requests,  \* server_state.total_requests: responses completed
  conn,            \* each connection's state, as above
  arrived,         \* requests read on each connection
  answered,        \* how many of them have their complete response
  told,            \* the request whose cycle lost its keep_alive to a sweep, or 0
  background,      \* tasks of each connection that outlive their response
  swept,           \* history: connections on which shutdown() has returned
  timed_out,       \* history: the graceful timeout expired
  raised           \* history: an exception left _serve

control == <<phase, should_exit, force_exit, started, listening>>
clients == <<total_requests, conn, arrived, answered, told, background>>
history == <<swept, timed_out, raised>>
vars == <<control, clients, history, lifespanVars>>

Phases == {"load", "startup", "bind", "main", "sleep", "wait_connections", "wait_tasks",
           "wait_closed", "lifespan_shutdown", "bind_failed", "exited"}
ConnStates == {"absent", "accepted", "fresh", "idle", "busy", "websocket", "closing",
               "closing_busy", "lost_busy", "lost"}

Init ==
  /\ LifespanInit
  /\ phase = "load"
  /\ should_exit = FALSE /\ force_exit = FALSE
  /\ started = FALSE /\ listening = FALSE
  /\ total_requests = 0
  /\ conn = [c \in Conns |-> "absent"]
  /\ arrived = [c \in Conns |-> 0]
  /\ answered = [c \in Conns |-> 0]
  /\ told = [c \in Conns |-> 0]
  /\ background = [c \in Conns |-> 0]
  /\ swept = {} /\ timed_out = FALSE /\ raised = FALSE

Answering == {"busy", "closing_busy", "lost_busy"}

(* server_state.connections, server_state.tasks (is it empty), and what
   asyncio's server object counts as attached. *)
connections ==
  {c \in Conns : conn[c] \in {"fresh", "idle", "busy", "websocket", "closing", "closing_busy"}}
NoTasks == \A c \in Conns : conn[c] \notin Answering \union {"websocket"} /\ background[c] = 0
attached == {c \in Conns : conn[c] \notin {"absent", "lost_busy", "lost"}}

-----------------------------------------------------------------------------
(* Startup. *)

BeginStartup ==
  /\ phase = "load"
  /\ StartupBegins
  /\ phase' = "startup"
  /\ UNCHANGED <<should_exit, force_exit, started, listening, clients, history>>

(* lifespan.startup() returns: a refused startup is sys.exit(STARTUP_FAILURE). *)
StartupDone ==
  /\ phase = "startup" /\ StartupReturns
  /\ phase' = IF StartupRefused THEN "exited" ELSE "bind"
  /\ UNCHANGED <<should_exit, force_exit, started, listening, clients, history, lifespanVars>>

(* create_server, suspended after its socket has begun to listen. *)
Listen ==
  /\ phase = "bind" /\ ~listening
  /\ listening' = TRUE
  /\ UNCHANGED <<phase, should_exit, force_exit, started, clients, history, lifespanVars>>

(* connection.shutdown() returns on each member of S: it closes the transport, or,
   when a response is owed, makes the newest request's response the last. *)
Sweep(S) ==
  /\ conn' = [c \in Conns |-> IF c \in S /\ conn[c] \in {"fresh", "idle", "websocket"}
                             THEN "closing" ELSE conn[c]]
  /\ told' = [c \in Conns |-> IF c \in S /\ conn[c] \in {"busy", "closing_busy"}
                             THEN arrived[c] ELSE told[c]]
  /\ background' = [c \in Conns |-> background[c] +
                      IF c \in S /\ conn[c] = "websocket" THEN 1 ELSE 0]
  /\ swept' = S

(* connection.shutdown() raises if its library refuses to close: a WebSocket whose
   handshake was refused or denied, a request whose refused response the application
   has swallowed, or a connection already closing. *)
MayRefuse(c) == conn[c] \in {"busy", "websocket", "closing"}

(* shutdown() up to its first await: the sweep over server_state.connections, in any
   order, ends with the first exception, which leaves _serve. *)
BeginShutdown ==
  /\ listening' = FALSE
  /\ \/ /\ Sweep(connections)
        /\ phase' = "sleep"
        /\ UNCHANGED raised
     \/ \E c \in connections, S \in SUBSET connections :
          /\ MayRefuse(c) /\ c \notin S
          /\ Sweep(S)
          /\ phase' = "exited"
          /\ raised' = TRUE

(* create_server returns.  A signal that came during startup skips the main loop. *)
Bind ==
  /\ phase = "bind" /\ listening
  /\ started' = TRUE
  /\ IF should_exit
     THEN BeginShutdown
     ELSE phase' = "main" /\ UNCHANGED <<listening, conn, told, background, swept, raised>>
  /\ UNCHANGED <<should_exit, force_exit, total_requests, arrived, answered, timed_out,
                 lifespanVars>>

(* Mutation of LifespanShutdown: an exiting server does not tell the application. *)
ExitsWithoutLifespan(waiting) ==
  phase' = "exited" /\ UNCHANGED lifespanVars

(* await lifespan.shutdown(): it returns at once or waits for shutdown_event. *)
LifespanShutdown(waiting) ==
  IF ShutdownSkipped
  THEN phase' = "exited" /\ UNCHANGED lifespanVars
  ELSE phase' = waiting /\ ShutdownBegins

(* create_server raises OSError for a host and port: the application, already
   started, is told. *)
BindFails ==
  /\ phase = "bind" /\ ~listening
  /\ LifespanShutdown("bind_failed")
  /\ UNCHANGED <<should_exit, force_exit, started, listening, clients, history>>

(* Given sockets, a file descriptor or a path, the OSError leaves startup(): it may
   come of the second of two sockets, or of os.chmod on a path that listens. *)
BindRaises ==
  /\ phase = "bind"
  /\ phase' = "exited"
  /\ listening' = FALSE
  /\ raised' = TRUE
  /\ UNCHANGED <<should_exit, force_exit, started, clients, swept, timed_out, lifespanVars>>

-----------------------------------------------------------------------------
(* The main loop and the shutdown. *)

(* on_tick() returns True at a tick of the main loop. *)
TickSaysExit == should_exit \/ total_requests >= LimitMaxRequests

MainLoopExits ==
  /\ phase = "main" /\ TickSaysExit
  /\ BeginShutdown
  /\ UNCHANGED <<should_exit, force_exit, started, total_requests, arrived, answered,
                 timed_out, lifespanVars>>

Waits == {"wait_connections", "wait_tasks", "wait_closed"}

(* Mutation of Waiting: the second loop is skipped. *)
WaitingNotForTasks ==
  IF phase \in {"sleep", "wait_connections"} /\ ~force_exit /\ connections # {}
  THEN "wait_connections"
  ELSE IF WaitClosedWaits /\ attached # {} THEN "wait_closed"
  ELSE "done"

(* Where _wait_tasks_to_complete suspends next, resumed in this phase.  The loops
   test force_exit, wait_closed() does not. *)
Waiting ==
  IF phase \in {"sleep", "wait_connections"} /\ ~force_exit /\ connections # {}
  THEN "wait_connections"
  ELSE IF phase # "wait_closed" /\ ~force_exit /\ ~NoTasks THEN "wait_tasks"
  ELSE IF WaitClosedWaits /\ attached # {} THEN "wait_closed"
  ELSE "done"

(* The end of shutdown(), waited for or timed out. *)
FinishShutdown ==
  IF force_exit
  THEN phase' = "exited" /\ UNCHANGED lifespanVars
  ELSE LifespanShutdown("lifespan_shutdown")

Proceed ==
  /\ phase \in {"sleep"} \union Waits
  /\ Waiting # phase
  /\ IF Waiting = "done"
     THEN FinishShutdown
     ELSE phase' = Waiting /\ UNCHANGED lifespanVars
  /\ UNCHANGED <<should_exit, force_exit, started, listening, clients, history>>

(* asyncio.timeout expires: every task is cancelled, none is waited for, so that
   each may end from now on but need not have when the application is told. *)
TimedOut ==
  /\ GracefulTimeout /\ phase \in Waits
  /\ timed_out' = TRUE
  /\ FinishShutdown
  /\ UNCHANGED <<should_exit, force_exit, started, listening, clients, swept, raised>>

(* lifespan.shutdown() returns; force_exit is not looked at here. *)
LifespanShutdownReturns ==
  /\ phase \in {"lifespan_shutdown", "bind_failed"} /\ shutdown_event
  /\ phase' = "exited"
  /\ UNCHANGED <<should_exit, force_exit, started, listening, clients, history, lifespanVars>>

(* The signal handler, between any two steps of the loop. *)
HandleExit(sigint) ==
  /\ phase # "exited"
  /\ IF should_exit /\ sigint
     THEN force_exit' = TRUE /\ UNCHANGED should_exit
     ELSE should_exit' = TRUE /\ UNCHANGED force_exit
  /\ UNCHANGED <<phase, started, listening, clients, history, lifespanVars>>

-----------------------------------------------------------------------------
(* The connections, as the server sees them. *)

Serving == phase # "exited"
Elsewhere == <<control, history, lifespanVars>>

Accept(c) ==
  /\ listening /\ conn[c] = "absent"
  /\ conn' = [conn EXCEPT ![c] = "accepted"]
  /\ UNCHANGED <<total_requests, arrived, answered, told, background, Elsewhere>>

ConnectionMade(c) ==
  /\ Serving /\ conn[c] = "accepted"
  /\ conn' = [conn EXCEPT ![c] = "fresh"]
  /\ UNCHANGED <<total_requests, arrived, answered, told, background, Elsewhere>>

(* A request is read; pipelined behind another it is queued. *)
Request(c) ==
  /\ Serving /\ conn[c] \in {"fresh", "idle", "busy"}
  /\ arrived[c] < MaxRequests[c]
  /\ arrived' = [arrived EXCEPT ![c] = @ + 1]
  /\ conn' = [conn EXCEPT ![c] = "busy"]
  /\ UNCHANGED <<total_requests, answered, told, background, Elsewhere>>

(* The handshake request of a WebSocket: its application's task is started. *)
Upgrade(c) ==
  /\ Serving /\ conn[c] \in {"fresh", "idle"}
  /\ conn' = [conn EXCEPT ![c] = "websocket"]
  /\ UNCHANGED <<total_requests, arrived, answered, told, background, Elsewhere>>

(* Mutation of AfterResponse: requests queued behind the sweep are still answered. *)
ClosesOnlyWhenDrained(c) ==
  IF answered[c] + 1 < arrived[c] THEN {"closing", "busy"}
  ELSE IF told[c] # 0 THEN {"closing"} ELSE {"closing", "idle"}

(* The response to request answered[c] + 1 is complete.  It leaves the connection
   open only if that request's keep_alive holds; then the next one is started. *)
AfterResponse(c) ==
  IF told[c] = answered[c] + 1 THEN {"closing"}
  ELSE {"closing", IF answered[c] + 1 < arrived[c] THEN "busy" ELSE "idle"}

(* on_response_complete: the task may have work left after its response. *)
ResponseComplete(c) ==
  /\ Serving
  /\ \/ /\ conn[c] = "busy"
        /\ \E s \in AfterResponse(c) : conn' = [conn EXCEPT ![c] = s]
     \/ /\ conn[c] = "closing_busy"
        /\ conn' = [conn EXCEPT ![c] = "closing"]
     \/ /\ conn[c] = "lost_busy"
        (* connection_lost disconnects the newest cycle only. *)
        /\ answered[c] + 1 < arrived[c]
        /\ conn' = [conn EXCEPT ![c] = "lost"]
  /\ total_requests' = total_requests + 1
  /\ answered' = [answered EXCEPT ![c] = @ + 1]
  /\ background' = [background EXCEPT ![c] = @ + 1]
  /\ UNCHANGED <<arrived, told, Elsewhere>>

(* The task ends with its response unfinished, which does not count, or with its
   WebSocket open: the connection is closed. *)
TaskAbandons(c) ==
  /\ Serving /\ conn[c] \in Answering \union {"websocket"}
  /\ conn' = [conn EXCEPT ![c] = IF @ = "lost_busy" THEN "lost" ELSE "closing"]
  /\ UNCHANGED <<total_requests, arrived, answered, told, background, Elsewhere>>

(* Mutation of TaskEnds: the task is discarded twice. *)
TaskEndsTwice(c) ==
  /\ Serving /\ background[c] > 0
  /\ background' = [background EXCEPT ![c] = @ - 2]
  /\ UNCHANGED <<total_requests, conn, arrived, answered, told, Elsewhere>>

TaskEnds(c) ==
  /\ Serving /\ background[c] > 0
  /\ background' = [background EXCEPT ![c] = @ - 1]
  /\ UNCHANGED <<total_requests, conn, arrived, answered, told, Elsewhere>>

(* The task of a WebSocket goes on when its connection is closed under it. *)
LeavesTask(c) ==
  background' = [background EXCEPT ![c] = @ + IF conn[c] = "websocket" THEN 1 ELSE 0]

(* The transport is closed for another reason: the keep-alive timer, an invalid
   request, the client's end of file, a WebSocket that closes. *)
TransportCloses(c) ==
  /\ Serving /\ conn[c] \in {"fresh", "idle", "busy", "websocket"}
  /\ conn' = [conn EXCEPT ![c] = IF @ = "busy" THEN "closing_busy" ELSE "closing"]
  /\ LeavesTask(c)
  /\ UNCHANGED <<total_requests, arrived, answered, told, Elsewhere>>

(* connection_lost: the client left, or a closed transport has drained.  The task
   of a request in flight goes on. *)
ConnectionLost(c) ==
  /\ Serving /\ c \in attached
  /\ conn' = [conn EXCEPT ![c] = IF @ \in Answering THEN "lost_busy" ELSE "lost"]
  /\ LeavesTask(c)
  /\ UNCHANGED <<total_requests, arrived, answered, told, Elsewhere>>

Application ==
  /\ Serving /\ LifespanApp
  /\ UNCHANGED <<control, clients, history>>

(* The process is gone. *)
Exited == phase = "exited" /\ UNCHANGED vars

Next ==
  \/ BeginStartup \/ StartupDone \/ Listen \/ Bind \/ BindFails \/ BindRaises
  \/ MainLoopExits \/ Proceed \/ TimedOut \/ LifespanShutdownReturns
  \/ \E sigint \in BOOLEAN : HandleExit(sigint)
  \/ \E c \in Conns :
       \/ Accept(c) \/ ConnectionMade(c) \/ Request(c) \/ Upgrade(c) \/ ResponseComplete(c)
       \/ TaskAbandons(c) \/ TaskEnds(c) \/ TransportCloses(c) \/ ConnectionLost(c)
  \/ Application
  \/ Exited

Spec == Init /\ [][Next]_vars

(* A lifespan application that answers each of its two events, by a message or by
   ending; nothing is asked of it otherwise. *)
AnswersStartup ==
  /\ Application
  /\ ~startup_event /\ startup_event'

AnswersShutdown ==
  /\ Application
  /\ shutdown_sent /\ ~shutdown_event /\ shutdown_event'

(* The event loop resumes a coroutine whose await is over, the timeout expires and
   the lifespan application answers.  Clients and request tasks owe nothing. *)
Fairness ==
  /\ WF_vars(BeginStartup) /\ WF_vars(StartupDone)
  /\ WF_vars(Listen \/ Bind \/ BindFails \/ BindRaises)
  /\ WF_vars(MainLoopExits) /\ WF_vars(Proceed) /\ WF_vars(TimedOut)
  /\ WF_vars(LifespanShutdownReturns)
  /\ WF_vars(AnswersStartup) /\ WF_vars(AnswersShutdown)

FairSpec == Spec /\ Fairness

-----------------------------------------------------------------------------
(* The type invariant. *)
TypeOK ==
  /\ LifespanTypeOK
  /\ phase \in Phases
  /\ should_exit \in BOOLEAN /\ force_exit \in BOOLEAN
  /\ started \in BOOLEAN /\ listening \in BOOLEAN
  /\ total_requests \in Nat
  /\ conn \in [Conns -> ConnStates]
  /\ \A c \in Conns :
       /\ arrived[c] \in 0..MaxRequests[c]
       /\ answered[c] \in 0..arrived[c] /\ told[c] \in 0..arrived[c]
  /\ background \in [Conns -> Nat]
  /\ swept \subseteq Conns
  /\ timed_out \in BOOLEAN /\ raised \in BOOLEAN

(* A connection that Server.shutdown asked to stop answers the requests it had read
   by then, queued ones included, and is closed with the last of them: it never
   takes up a request that came later, and never waits for one. *)
SweptConnectionsDrain ==
  \A c \in swept :
    \/ conn[c] \in {"closing", "lost"}
    \/ conn[c] \in Answering /\ answered[c] < told[c]

(* Unless it is forced or times out, the application is told to shut down only when
   every connection asked to stop is gone and no task of such a connection runs. *)
SweptConnectionsFinish ==
  shutdown_sent /\ ~force_exit /\ ~timed_out =>
    \A c \in swept : conn[c] = "lost" /\ background[c] = 0

(* An application that answered its startup with lifespan.startup.failed, whatever it
   did after that, is never given a socket. *)
FailedStartupNeverServes == startup_failed => ~started /\ ~listening

(* A server whose application started tells it to shut down before it exits, also
   when a signal comes before the socket is bound or a host and port cannot be bound,
   unless its lifespan task has crashed, the exit was forced, or an exception left
   _serve: an OSError of the other ways to bind, or a connection.shutdown() that
   raises in the sweep. *)
LifespanIsTold ==
  phase = "exited" =>
    \/ shutdown_sent
    \/ lifespan = "off" \/ error_occurred \/ startup_failed
    \/ force_exit \/ raised

(* With a graceful timeout, a server that got a signal or reached its request limit
   exits, whatever its clients and its request tasks do. *)
ExitsWhenAsked ==
  (should_exit \/ total_requests >= LimitMaxRequests) ~> (phase = "exited")
=============================================================================
