----------------------------- MODULE ServerProofs -----------------------------
(***************************************************************************)
(* Proofs about Server, with its Lifespan: for any set of connections, any *)
(* number of pipelined requests, any request limit, with or without a      *)
(* graceful timeout, every safety property that the run of Server checks   *)
(* is an invariant.                                                        *)
(***************************************************************************)
EXTENDS Server, TLAPS

(* The types of the server's own variables and of the connections' variables; how
   the counters of one connection are related is in Owing. *)
ControlTyped ==
  /\ phase \in Phases
  /\ should_exit \in BOOLEAN /\ force_exit \in BOOLEAN
  /\ started \in BOOLEAN /\ listening \in BOOLEAN
  /\ timed_out \in BOOLEAN /\ raised \in BOOLEAN
ClientsTyped ==
  /\ total_requests \in Nat
  /\ conn \in [Conns -> ConnStates]
  /\ arrived \in [Conns -> Nat]
  /\ answered \in [Conns -> Nat] /\ told \in [Conns -> Nat]
  /\ background \in [Conns -> Nat]
  /\ swept \subseteq Conns

(* The task of a request runs only while a request read is unanswered, and a sweep
   tells a request that was read. *)
Owing ==
  \A c \in Conns :
    /\ arrived[c] <= MaxRequests[c]
    /\ answered[c] <= arrived[c] /\ told[c] <= arrived[c]
    /\ conn[c] \in Answering => answered[c] < arrived[c]

(* The lifespan task exists only if there is a lifespan protocol, and once the
   server is past its startup it was answered, and not with a failure. *)
StartupShape ==
  /\ lifespan = "off" => main = "none" /\ ~startup_failed
  /\ listening \/ started \/ phase \notin {"load", "startup", "exited"} =>
       ~startup_failed /\ (lifespan = "off" \/ startup_event)

(* How far the shutdown has come: nothing is swept or sent before it begins, and
   each of the loops leaves its condition behind, unless the exit is forced. *)
ShutdownShape ==
  /\ phase \in {"load", "startup", "bind", "main"} => swept = {} /\ ~shutdown_sent
  /\ phase \in {"lifespan_shutdown", "bind_failed"} => shutdown_sent
  /\ phase = "wait_tasks" /\ ~force_exit =>
       \A c \in swept : conn[c] \in {"lost_busy", "lost"}
  /\ phase = "wait_closed" /\ ~force_exit =>
       \A c \in swept : conn[c] = "lost" /\ background[c] = 0

IInv ==
  /\ LifespanTypeOK /\ ControlTyped /\ ClientsTyped /\ Owing
  /\ StartupShape /\ ShutdownShape
  /\ SweptConnectionsDrain /\ SweptConnectionsFinish /\ LifespanIsTold

-----------------------------------------------------------------------------
(* The steps of connections. *)

OfConnection(c) ==
  \/ Accept(c) \/ ConnectionMade(c) \/ Request(c) \/ Upgrade(c) \/ ResponseComplete(c)
  \/ TaskAbandons(c) \/ TaskEnds(c) \/ TransportCloses(c) \/ ConnectionLost(c)

(* They leave the server's coroutine, its flags and the lifespan protocol alone. *)
LEMMA ConnectionsApart ==
  ASSUME NEW c \in Conns, OfConnection(c)
  PROVE  UNCHANGED Elsewhere
BY DEF OfConnection, Accept, ConnectionMade, Request, Upgrade, ResponseComplete,
       TaskAbandons, TaskEnds, TransportCloses, ConnectionLost, Elsewhere

-----------------------------------------------------------------------------
(* Types. *)

(* Every step keeps the types of the lifespan protocol's variables. *)
LEMMA LifespanTypedStep ==
  ASSUME LifespanTypeOK, Next
  PROVE  LifespanTypeOK'
<1> USE DEF LifespanTypeOK, lifespanVars
<1>1. CASE BeginStartup BY <1>1 DEF BeginStartup, StartupBegins
<1>2. CASE StartupDone BY <1>2 DEF StartupDone, StartupRefused, StartupReturns
<1>3. CASE Listen BY <1>3 DEF Listen
<1>4. CASE Bind BY <1>4 DEF Bind, BeginShutdown, Sweep
<1>5. CASE BindFails
  <2>1. UNCHANGED lifespanVars \/ ShutdownBegins
    BY <1>5 DEF BindFails, LifespanShutdown
  <2>2. CASE UNCHANGED lifespanVars BY <2>2
  <2>3. CASE ShutdownBegins BY <2>3 DEF ShutdownBegins
  <2>4. QED BY <2>1, <2>2, <2>3
<1>6. CASE BindRaises BY <1>6 DEF BindRaises
<1>7. CASE MainLoopExits BY <1>7 DEF MainLoopExits, BeginShutdown, Sweep
<1>8. CASE Proceed
  <2>1. UNCHANGED lifespanVars \/ ShutdownBegins
    BY <1>8 DEF Proceed, FinishShutdown, LifespanShutdown
  <2>2. CASE UNCHANGED lifespanVars BY <2>2
  <2>3. CASE ShutdownBegins BY <2>3 DEF ShutdownBegins
  <2>4. QED BY <2>1, <2>2, <2>3
<1>9. CASE TimedOut
  <2>1. UNCHANGED lifespanVars \/ ShutdownBegins
    BY <1>9 DEF TimedOut, FinishShutdown, LifespanShutdown
  <2>2. CASE UNCHANGED lifespanVars BY <2>2
  <2>3. CASE ShutdownBegins BY <2>3 DEF ShutdownBegins
  <2>4. QED BY <2>1, <2>2, <2>3
<1>10. CASE LifespanShutdownReturns BY <1>10 DEF LifespanShutdownReturns
<1>11. ASSUME NEW sigint \in BOOLEAN, HandleExit(sigint) PROVE LifespanTypeOK'
  BY <1>11 DEF HandleExit
<1>12. ASSUME NEW c \in Conns, OfConnection(c) PROVE LifespanTypeOK'
  BY <1>12, ConnectionsApart DEF Elsewhere
<1>13. CASE Application
  <2>1. CASE LifespanReceive BY <2>1 DEF LifespanReceive
  <2>2. ASSUME NEW failed \in BOOLEAN, SendStartup(failed) PROVE LifespanTypeOK'
    BY <2>2 DEF SendStartup
  <2>3. ASSUME NEW failed \in BOOLEAN, SendShutdown(failed) PROVE LifespanTypeOK'
    BY <2>3 DEF SendShutdown
  <2>4. ASSUME NEW raises \in BOOLEAN, LifespanEnds(raises) PROVE LifespanTypeOK'
    BY <2>4 DEF LifespanEnds
  <2>5. QED BY <1>13, <2>1, <2>2, <2>3, <2>4 DEF Application, LifespanApp
<1>14. CASE Exited BY <1>14 DEF Exited, vars
<1>15. QED BY <1>1, <1>2, <1>3, <1>4, <1>5, <1>6, <1>7, <1>8, <1>9, <1>10, 
          <1>11, <1>12, <1>13, <1>14 DEF Next, OfConnection

(* Every step keeps the types of the server's control variables. *)
LEMMA ControlTypedStep ==
  ASSUME ControlTyped, Next
  PROVE  ControlTyped'
<1> USE DEF ControlTyped, Phases, control, clients, history, lifespanVars
<1>1. CASE BeginStartup BY <1>1 DEF BeginStartup, StartupBegins
<1>2. CASE StartupDone BY <1>2 DEF StartupDone, StartupRefused, StartupReturns
<1>3. CASE Listen BY <1>3 DEF Listen
<1>4. CASE Bind BY <1>4 DEF Bind, BeginShutdown, Sweep
<1>5. CASE BindFails BY <1>5 DEF BindFails, LifespanShutdown, ShutdownBegins
<1>6. CASE BindRaises BY <1>6 DEF BindRaises
<1>7. CASE MainLoopExits BY <1>7 DEF MainLoopExits, BeginShutdown, Sweep
<1>8. CASE Proceed
  BY <1>8
  DEF Proceed, FinishShutdown, LifespanShutdown, ShutdownBegins, Waiting, NoTasks
<1>9. CASE TimedOut
  BY <1>9
  DEF TimedOut, FinishShutdown, LifespanShutdown, ShutdownBegins
<1>10. CASE LifespanShutdownReturns BY <1>10 DEF LifespanShutdownReturns
<1>11. ASSUME NEW sigint \in BOOLEAN, HandleExit(sigint) PROVE ControlTyped'
  BY <1>11 DEF HandleExit
<1>12. ASSUME NEW c \in Conns, OfConnection(c) PROVE ControlTyped'
  BY <1>12, ConnectionsApart DEF Elsewhere
<1>13. CASE Application
  BY <1>13
  DEF Application, LifespanApp, LifespanReceive, SendStartup, SendShutdown,
      LifespanEnds, MaySendStartup, MaySendShutdown
<1>14. CASE Exited BY <1>14 DEF Exited, vars
<1>15. QED BY <1>1, <1>2, <1>3, <1>4, <1>5, <1>6, <1>7, <1>8, <1>9, <1>10, 
          <1>11, <1>12, <1>13, <1>14 DEF Next, OfConnection

(* Every step keeps the types of the connections' variables. *)
LEMMA ClientsTypedStep ==
  ASSUME ClientsTyped, Next
  PROVE  ClientsTyped'
<1> USE DEF ClientsTyped, ConnStates, Answering, connections, AfterResponse, control, clients,
        history, lifespanVars
<1>1. CASE BeginStartup BY <1>1, ServerAssumption DEF BeginStartup, StartupBegins
<1>2. CASE StartupDone
  BY <1>2, ServerAssumption
  DEF StartupDone, StartupRefused, StartupReturns
<1>3. CASE Listen BY <1>3, ServerAssumption DEF Listen
<1>4. CASE Bind
  <2>1. CASE should_exit
    <3>1. PICK S \in SUBSET connections : Sweep(S)
      BY <1>4, <2>1 DEF Bind, BeginShutdown
    <3>2. QED BY <1>4, <3>1, ServerAssumption DEF Bind, Sweep
  <2>2. CASE ~should_exit BY <1>4, <2>2, ServerAssumption DEF Bind
  <2>3. QED BY <2>1, <2>2
<1>5. CASE BindFails
  BY <1>5, ServerAssumption
  DEF BindFails, LifespanShutdown, ShutdownBegins
<1>6. CASE BindRaises BY <1>6, ServerAssumption DEF BindRaises
<1>7. CASE MainLoopExits
  BY <1>7, ServerAssumption
  DEF MainLoopExits, BeginShutdown, Sweep
<1>8. CASE Proceed
  BY <1>8, ServerAssumption
  DEF Proceed, FinishShutdown, LifespanShutdown, ShutdownBegins, Waiting, NoTasks
<1>9. CASE TimedOut
  BY <1>9, ServerAssumption
  DEF TimedOut, FinishShutdown, LifespanShutdown, ShutdownBegins
<1>10. CASE LifespanShutdownReturns
  BY <1>10, ServerAssumption
  DEF LifespanShutdownReturns
<1>11. ASSUME NEW sigint \in BOOLEAN, HandleExit(sigint) PROVE ClientsTyped'
  BY <1>11, ServerAssumption DEF HandleExit
<1>12. ASSUME NEW c \in Conns, Accept(c) PROVE ClientsTyped'
  BY <1>12, ServerAssumption DEF Accept, Elsewhere
<1>13. ASSUME NEW c \in Conns, ConnectionMade(c) PROVE ClientsTyped'
  BY <1>13, ServerAssumption DEF ConnectionMade, Elsewhere
<1>14. ASSUME NEW c \in Conns, Request(c) PROVE ClientsTyped'
  BY <1>14, ServerAssumption DEF Request, Elsewhere
<1>15. ASSUME NEW c \in Conns, Upgrade(c) PROVE ClientsTyped'
  BY <1>15, ServerAssumption DEF Upgrade, Elsewhere
<1>16. ASSUME NEW c \in Conns, ResponseComplete(c) PROVE ClientsTyped'
  BY <1>16, ServerAssumption DEF ResponseComplete, Elsewhere
<1>17. ASSUME NEW c \in Conns, TaskAbandons(c) PROVE ClientsTyped'
  BY <1>17, ServerAssumption DEF TaskAbandons, Elsewhere
<1>18. ASSUME NEW c \in Conns, TaskEnds(c) PROVE ClientsTyped'
  BY <1>18, ServerAssumption DEF TaskEnds, Elsewhere
<1>19. ASSUME NEW c \in Conns, TransportCloses(c) PROVE ClientsTyped'
  BY <1>19, ServerAssumption DEF TransportCloses, Elsewhere, LeavesTask
<1>20. ASSUME NEW c \in Conns, ConnectionLost(c) PROVE ClientsTyped'
  BY <1>20, ServerAssumption DEF ConnectionLost, Elsewhere, LeavesTask
<1>21. CASE Application
  BY <1>21, ServerAssumption
  DEF Application, LifespanApp, LifespanReceive, SendStartup, SendShutdown,
      LifespanEnds, MaySendStartup, MaySendShutdown
<1>22. CASE Exited BY <1>22, ServerAssumption DEF Exited, vars
<1>23. QED BY <1>1, <1>2, <1>3, <1>4, <1>5, <1>6, <1>7, <1>8, <1>9, <1>10, 
          <1>11, <1>12, <1>13, <1>14, <1>15, <1>16, <1>17, <1>18, <1>19, <1>20, 
          <1>21, <1>22 DEF Next

(* A task is started only for a request read, and answers it once. *)
LEMMA OwingStep ==
  ASSUME ClientsTyped, Owing, Next
  PROVE  Owing'
<1> USE DEF ClientsTyped, ConnStates, Answering, Owing, connections, AfterResponse, control,
        clients, history, lifespanVars
<1>1. CASE BeginStartup BY <1>1, ServerAssumption DEF BeginStartup, StartupBegins
<1>2. CASE StartupDone
  BY <1>2, ServerAssumption
  DEF StartupDone, StartupRefused, StartupReturns
<1>3. CASE Listen BY <1>3, ServerAssumption DEF Listen
<1>4. CASE Bind
  <2>1. CASE should_exit
    <3>1. PICK S \in SUBSET connections : Sweep(S)
      BY <1>4, <2>1 DEF Bind, BeginShutdown
    <3>2. QED BY <1>4, <3>1, ServerAssumption DEF Bind, Sweep
  <2>2. CASE ~should_exit BY <1>4, <2>2, ServerAssumption DEF Bind
  <2>3. QED BY <2>1, <2>2
<1>5. CASE BindFails
  BY <1>5, ServerAssumption
  DEF BindFails, LifespanShutdown, ShutdownBegins
<1>6. CASE BindRaises BY <1>6, ServerAssumption DEF BindRaises
<1>7. CASE MainLoopExits
  BY <1>7, ServerAssumption
  DEF MainLoopExits, BeginShutdown, Sweep
<1>8. CASE Proceed
  BY <1>8, ServerAssumption
  DEF Proceed, FinishShutdown, LifespanShutdown, ShutdownBegins, Waiting, NoTasks
<1>9. CASE TimedOut
  BY <1>9, ServerAssumption
  DEF TimedOut, FinishShutdown, LifespanShutdown, ShutdownBegins
<1>10. CASE LifespanShutdownReturns
  BY <1>10, ServerAssumption
  DEF LifespanShutdownReturns
<1>11. ASSUME NEW sigint \in BOOLEAN, HandleExit(sigint) PROVE Owing'
  BY <1>11, ServerAssumption DEF HandleExit
<1>12. ASSUME NEW c \in Conns, Accept(c) PROVE Owing'
  BY <1>12, ServerAssumption DEF Accept, Elsewhere
<1>13. ASSUME NEW c \in Conns, ConnectionMade(c) PROVE Owing'
  BY <1>13, ServerAssumption DEF ConnectionMade, Elsewhere
<1>14. ASSUME NEW c \in Conns, Request(c) PROVE Owing'
  <2>1. ASSUME NEW d \in Conns, d # c
        PROVE  arrived'[d] = arrived[d] /\ conn'[d] = conn[d]
    BY <1>14, <2>1 DEF Request
  <2>2. arrived'[c] = arrived[c] + 1 /\ arrived[c] < MaxRequests[c]
    BY <1>14 DEF Request
  <2>3. UNCHANGED <<answered, told>>
    BY <1>14 DEF Request
  <2>4. MaxRequests[c] \in Nat /\ arrived[c] \in Nat /\ answered[c] \in Nat /\ told[c] \in Nat
    BY ServerAssumption
  <2>5. QED BY <2>1, <2>2, <2>3, <2>4
<1>15. ASSUME NEW c \in Conns, Upgrade(c) PROVE Owing'
  BY <1>15, ServerAssumption DEF Upgrade, Elsewhere
<1>16. ASSUME NEW c \in Conns, ResponseComplete(c) PROVE Owing'
  BY <1>16, ServerAssumption DEF ResponseComplete, Elsewhere
<1>17. ASSUME NEW c \in Conns, TaskAbandons(c) PROVE Owing'
  BY <1>17, ServerAssumption DEF TaskAbandons, Elsewhere
<1>18. ASSUME NEW c \in Conns, TaskEnds(c) PROVE Owing'
  BY <1>18, ServerAssumption DEF TaskEnds, Elsewhere
<1>19. ASSUME NEW c \in Conns, TransportCloses(c) PROVE Owing'
  BY <1>19, ServerAssumption DEF TransportCloses, Elsewhere, LeavesTask
<1>20. ASSUME NEW c \in Conns, ConnectionLost(c) PROVE Owing'
  BY <1>20, ServerAssumption DEF ConnectionLost, Elsewhere, LeavesTask
<1>21. CASE Application
  BY <1>21, ServerAssumption
  DEF Application, LifespanApp, LifespanReceive, SendStartup, SendShutdown,
      LifespanEnds, MaySendStartup, MaySendShutdown
<1>22. CASE Exited BY <1>22, ServerAssumption DEF Exited, vars
<1>23. QED BY <1>1, <1>2, <1>3, <1>4, <1>5, <1>6, <1>7, <1>8, <1>9, <1>10, 
          <1>11, <1>12, <1>13, <1>14, <1>15, <1>16, <1>17, <1>18, <1>19, <1>20, 
          <1>21, <1>22 DEF Next

-----------------------------------------------------------------------------
(* Startup and shutdown. *)

(* After its startup the application has answered, and not with a failure. *)
LEMMA StartupShapeStep ==
  ASSUME ControlTyped, LifespanTypeOK, StartupShape, Next
  PROVE  StartupShape'
<1> USE DEF StartupShape, ControlTyped, LifespanTypeOK, Phases, Waits, control, clients,
        history, lifespanVars
<1>1. CASE BeginStartup BY <1>1 DEF BeginStartup, StartupBegins
<1>2. CASE StartupDone BY <1>2 DEF StartupDone, StartupRefused, StartupReturns
<1>3. CASE Listen BY <1>3 DEF Listen
<1>4. CASE Bind BY <1>4 DEF Bind, BeginShutdown, Sweep
<1>5. CASE BindFails BY <1>5 DEF BindFails, LifespanShutdown, ShutdownBegins
<1>6. CASE BindRaises BY <1>6 DEF BindRaises
<1>7. CASE MainLoopExits BY <1>7 DEF MainLoopExits, BeginShutdown, Sweep
<1>8. CASE Proceed
  BY <1>8
  DEF Proceed, FinishShutdown, LifespanShutdown, ShutdownBegins, Waiting, NoTasks
<1>9. CASE TimedOut
  BY <1>9
  DEF TimedOut, FinishShutdown, LifespanShutdown, ShutdownBegins
<1>10. CASE LifespanShutdownReturns BY <1>10 DEF LifespanShutdownReturns
<1>11. ASSUME NEW sigint \in BOOLEAN, HandleExit(sigint) PROVE StartupShape'
  BY <1>11 DEF HandleExit
<1>12. ASSUME NEW c \in Conns, OfConnection(c) PROVE StartupShape'
  BY <1>12, ConnectionsApart DEF Elsewhere
<1>13. CASE Application
  BY <1>13
  DEF Application, LifespanApp, LifespanReceive, SendStartup, SendShutdown,
      LifespanEnds, MaySendStartup, MaySendShutdown
<1>14. CASE Exited BY <1>14 DEF Exited, vars
<1>15. QED BY <1>1, <1>2, <1>3, <1>4, <1>5, <1>6, <1>7, <1>8, <1>9, <1>10, 
          <1>11, <1>12, <1>13, <1>14 DEF Next, OfConnection

(* A sweep leaves each connection it reaches closing, or before the request it told. *)
LEMMA SweepDrains ==
  ASSUME ClientsTyped, Owing, UNCHANGED answered, BeginShutdown
  PROVE  SweptConnectionsDrain'
<1>1. PICK S \in SUBSET connections : Sweep(S)
  BY DEF BeginShutdown
<1> SUFFICES ASSUME NEW c \in S
             PROVE  \/ conn'[c] = "closing"
                    \/ conn'[c] \in Answering /\ answered[c] < told'[c]
  BY <1>1 DEF Sweep, SweptConnectionsDrain, connections
<1>2. c \in Conns /\ conn[c] \in {"fresh", "idle", "busy", "websocket", "closing", "closing_busy"}
  BY DEF connections
<1>3. CASE conn[c] \in {"busy", "closing_busy"}
  BY <1>1, <1>2, <1>3 DEF Sweep, Owing, Answering
<1>4. CASE conn[c] \notin {"busy", "closing_busy"}
  BY <1>1, <1>2, <1>4 DEF Sweep
<1>5. QED BY <1>3, <1>4

(* A connection that was asked to stop answers what it owed then and no more. *)
LEMMA DrainStep ==
  ASSUME ClientsTyped, Owing, SweptConnectionsDrain, Next
  PROVE  SweptConnectionsDrain'
<1>0. (Bind /\ should_exit) \/ MainLoopExits => SweptConnectionsDrain'
  BY SweepDrains DEF Bind, MainLoopExits
<1> USE DEF ClientsTyped, ConnStates, Owing, Answering, SweptConnectionsDrain, connections,
        AfterResponse, control, clients, history, lifespanVars
<1>1. CASE BeginStartup BY <1>1 DEF BeginStartup, StartupBegins
<1>2. CASE StartupDone BY <1>2 DEF StartupDone, StartupRefused, StartupReturns
<1>3. CASE Listen BY <1>3 DEF Listen
<1>4. CASE Bind
  <2>1. CASE should_exit BY <1>4, <2>1, <1>0
  <2>2. CASE ~should_exit BY <1>4, <2>2 DEF Bind
  <2>3. QED BY <2>1, <2>2
<1>5. CASE BindFails BY <1>5 DEF BindFails, LifespanShutdown, ShutdownBegins
<1>6. CASE BindRaises BY <1>6 DEF BindRaises
<1>7. CASE MainLoopExits BY <1>7, <1>0
<1>8. CASE Proceed
  BY <1>8
  DEF Proceed, FinishShutdown, LifespanShutdown, ShutdownBegins, Waiting, NoTasks
<1>9. CASE TimedOut
  BY <1>9
  DEF TimedOut, FinishShutdown, LifespanShutdown, ShutdownBegins
<1>10. CASE LifespanShutdownReturns BY <1>10 DEF LifespanShutdownReturns
<1>11. ASSUME NEW sigint \in BOOLEAN, HandleExit(sigint) PROVE SweptConnectionsDrain'
  BY <1>11 DEF HandleExit
<1>12. ASSUME NEW c \in Conns, Accept(c) PROVE SweptConnectionsDrain'
  BY <1>12 DEF Accept, Elsewhere
<1>13. ASSUME NEW c \in Conns, ConnectionMade(c) PROVE SweptConnectionsDrain'
  BY <1>13 DEF ConnectionMade, Elsewhere
<1>14. ASSUME NEW c \in Conns, Request(c) PROVE SweptConnectionsDrain'
  BY <1>14 DEF Request, Elsewhere
<1>15. ASSUME NEW c \in Conns, Upgrade(c) PROVE SweptConnectionsDrain'
  BY <1>15 DEF Upgrade, Elsewhere
<1>16. ASSUME NEW c \in Conns, ResponseComplete(c) PROVE SweptConnectionsDrain'
  BY <1>16 DEF ResponseComplete, Elsewhere
<1>17. ASSUME NEW c \in Conns, TaskAbandons(c) PROVE SweptConnectionsDrain'
  BY <1>17 DEF TaskAbandons, Elsewhere
<1>18. ASSUME NEW c \in Conns, TaskEnds(c) PROVE SweptConnectionsDrain'
  BY <1>18 DEF TaskEnds, Elsewhere
<1>19. ASSUME NEW c \in Conns, TransportCloses(c) PROVE SweptConnectionsDrain'
  BY <1>19 DEF TransportCloses, Elsewhere, LeavesTask
<1>20. ASSUME NEW c \in Conns, ConnectionLost(c) PROVE SweptConnectionsDrain'
  BY <1>20 DEF ConnectionLost, Elsewhere, LeavesTask
<1>21. CASE Application
  BY <1>21
  DEF Application, LifespanApp, LifespanReceive, SendStartup, SendShutdown,
      LifespanEnds, MaySendStartup, MaySendShutdown
<1>22. CASE Exited BY <1>22 DEF Exited, vars
<1>23. QED BY <1>1, <1>2, <1>3, <1>4, <1>5, <1>6, <1>7, <1>8, <1>9, <1>10, 
          <1>11, <1>12, <1>13, <1>14, <1>15, <1>16, <1>17, <1>18, <1>19, <1>20, 
          <1>21, <1>22 DEF Next

(* The loops of the shutdown leave their conditions behind. *)
LEMMA ShutdownShapeStep ==
  ASSUME ControlTyped, ClientsTyped, SweptConnectionsDrain, ShutdownShape, Next
  PROVE  ShutdownShape'
<1> USE DEF ControlTyped, ClientsTyped, ConnStates, Answering, SweptConnectionsDrain,
        ShutdownShape, connections, attached, Waits, Phases, control, clients, history,
        lifespanVars
<1>1. CASE BeginStartup BY <1>1 DEF BeginStartup, StartupBegins
<1>2. CASE StartupDone BY <1>2 DEF StartupDone, StartupRefused, StartupReturns
<1>3. CASE Listen BY <1>3 DEF Listen
<1>4. CASE Bind BY <1>4 DEF Bind, BeginShutdown, Sweep
<1>5. CASE BindFails BY <1>5 DEF BindFails, LifespanShutdown, ShutdownBegins
<1>6. CASE BindRaises BY <1>6 DEF BindRaises
<1>7. CASE MainLoopExits BY <1>7 DEF MainLoopExits, BeginShutdown, Sweep
<1>8. CASE Proceed
  BY <1>8
  DEF Proceed, FinishShutdown, LifespanShutdown, ShutdownBegins, Waiting, NoTasks
<1>9. CASE TimedOut
  BY <1>9
  DEF TimedOut, FinishShutdown, LifespanShutdown, ShutdownBegins
<1>10. CASE LifespanShutdownReturns BY <1>10 DEF LifespanShutdownReturns
<1>11. ASSUME NEW sigint \in BOOLEAN, HandleExit(sigint) PROVE ShutdownShape'
  BY <1>11 DEF HandleExit
<1>12. ASSUME NEW c \in Conns, Accept(c) PROVE ShutdownShape'
  BY <1>12 DEF Accept, Elsewhere
<1>13. ASSUME NEW c \in Conns, ConnectionMade(c) PROVE ShutdownShape'
  BY <1>13 DEF ConnectionMade, Elsewhere
<1>14. ASSUME NEW c \in Conns, Request(c) PROVE ShutdownShape'
  BY <1>14 DEF Request, Elsewhere
<1>15. ASSUME NEW c \in Conns, Upgrade(c) PROVE ShutdownShape'
  BY <1>15 DEF Upgrade, Elsewhere
<1>16. ASSUME NEW c \in Conns, ResponseComplete(c) PROVE ShutdownShape'
  BY <1>16 DEF ResponseComplete, Elsewhere
<1>17. ASSUME NEW c \in Conns, TaskAbandons(c) PROVE ShutdownShape'
  BY <1>17 DEF TaskAbandons, Elsewhere
<1>18. ASSUME NEW c \in Conns, TaskEnds(c) PROVE ShutdownShape'
  BY <1>18 DEF TaskEnds, Elsewhere
<1>19. ASSUME NEW c \in Conns, TransportCloses(c) PROVE ShutdownShape'
  BY <1>19 DEF TransportCloses, Elsewhere, LeavesTask
<1>20. ASSUME NEW c \in Conns, ConnectionLost(c) PROVE ShutdownShape'
  BY <1>20 DEF ConnectionLost, Elsewhere, LeavesTask
<1>21. CASE Application
  BY <1>21
  DEF Application, LifespanApp, LifespanReceive, SendStartup, SendShutdown,
      LifespanEnds, MaySendStartup, MaySendShutdown
<1>22. CASE Exited BY <1>22 DEF Exited, vars
<1>23. QED BY <1>1, <1>2, <1>3, <1>4, <1>5, <1>6, <1>7, <1>8, <1>9, <1>10, 
          <1>11, <1>12, <1>13, <1>14, <1>15, <1>16, <1>17, <1>18, <1>19, <1>20, 
          <1>21, <1>22 DEF Next

(* The application is told when the connections asked to stop are gone. *)
LEMMA FinishStep ==
  ASSUME ControlTyped, ClientsTyped, SweptConnectionsDrain, ShutdownShape,
         SweptConnectionsFinish, Next
  PROVE  SweptConnectionsFinish'
<1> USE DEF ControlTyped, ClientsTyped, ConnStates, Answering, SweptConnectionsDrain,
        ShutdownShape, SweptConnectionsFinish, connections, attached, Waits, Phases,
        control, clients, history, lifespanVars
<1>1. CASE BeginStartup BY <1>1 DEF BeginStartup, StartupBegins
<1>2. CASE StartupDone BY <1>2 DEF StartupDone, StartupRefused, StartupReturns
<1>3. CASE Listen BY <1>3 DEF Listen
<1>4. CASE Bind BY <1>4 DEF Bind, BeginShutdown, Sweep
<1>5. CASE BindFails BY <1>5 DEF BindFails, LifespanShutdown, ShutdownBegins
<1>6. CASE BindRaises BY <1>6 DEF BindRaises
<1>7. CASE MainLoopExits BY <1>7 DEF MainLoopExits, BeginShutdown, Sweep
<1>8. CASE Proceed
  BY <1>8
  DEF Proceed, FinishShutdown, LifespanShutdown, ShutdownBegins, Waiting, NoTasks
<1>9. CASE TimedOut
  BY <1>9
  DEF TimedOut, FinishShutdown, LifespanShutdown, ShutdownBegins
<1>10. CASE LifespanShutdownReturns BY <1>10 DEF LifespanShutdownReturns
<1>11. ASSUME NEW sigint \in BOOLEAN, HandleExit(sigint) PROVE SweptConnectionsFinish'
  BY <1>11 DEF HandleExit
<1>12. ASSUME NEW c \in Conns, Accept(c) PROVE SweptConnectionsFinish'
  BY <1>12 DEF Accept, Elsewhere
<1>13. ASSUME NEW c \in Conns, ConnectionMade(c) PROVE SweptConnectionsFinish'
  BY <1>13 DEF ConnectionMade, Elsewhere
<1>14. ASSUME NEW c \in Conns, Request(c) PROVE SweptConnectionsFinish'
  BY <1>14 DEF Request, Elsewhere
<1>15. ASSUME NEW c \in Conns, Upgrade(c) PROVE SweptConnectionsFinish'
  BY <1>15 DEF Upgrade, Elsewhere
<1>16. ASSUME NEW c \in Conns, ResponseComplete(c) PROVE SweptConnectionsFinish'
  BY <1>16 DEF ResponseComplete, Elsewhere
<1>17. ASSUME NEW c \in Conns, TaskAbandons(c) PROVE SweptConnectionsFinish'
  BY <1>17 DEF TaskAbandons, Elsewhere
<1>18. ASSUME NEW c \in Conns, TaskEnds(c) PROVE SweptConnectionsFinish'
  BY <1>18 DEF TaskEnds, Elsewhere
<1>19. ASSUME NEW c \in Conns, TransportCloses(c) PROVE SweptConnectionsFinish'
  BY <1>19 DEF TransportCloses, Elsewhere, LeavesTask
<1>20. ASSUME NEW c \in Conns, ConnectionLost(c) PROVE SweptConnectionsFinish'
  BY <1>20 DEF ConnectionLost, Elsewhere, LeavesTask
<1>21. CASE Application
  BY <1>21
  DEF Application, LifespanApp, LifespanReceive, SendStartup, SendShutdown,
      LifespanEnds, MaySendStartup, MaySendShutdown
<1>22. CASE Exited BY <1>22 DEF Exited, vars
<1>23. QED BY <1>1, <1>2, <1>3, <1>4, <1>5, <1>6, <1>7, <1>8, <1>9, <1>10, 
          <1>11, <1>12, <1>13, <1>14, <1>15, <1>16, <1>17, <1>18, <1>19, <1>20, 
          <1>21, <1>22 DEF Next

(* A server exits after it told the application, or need not tell it. *)
LEMMA ToldStep ==
  ASSUME ControlTyped, ShutdownShape, LifespanIsTold, Next
  PROVE  LifespanIsTold'
<1> USE DEF ControlTyped, ShutdownShape, LifespanIsTold, Phases, Waits, ShutdownSkipped, Serving,
        control, clients, history, lifespanVars
<1>1. CASE BeginStartup BY <1>1 DEF BeginStartup, StartupBegins
<1>2. CASE StartupDone BY <1>2 DEF StartupDone, StartupRefused, StartupReturns
<1>3. CASE Listen BY <1>3 DEF Listen
<1>4. CASE Bind BY <1>4 DEF Bind, BeginShutdown, Sweep
<1>5. CASE BindFails BY <1>5 DEF BindFails, LifespanShutdown, ShutdownBegins
<1>6. CASE BindRaises BY <1>6 DEF BindRaises
<1>7. CASE MainLoopExits BY <1>7 DEF MainLoopExits, BeginShutdown, Sweep
<1>8. CASE Proceed
  BY <1>8
  DEF Proceed, FinishShutdown, LifespanShutdown, ShutdownBegins, Waiting, NoTasks
<1>9. CASE TimedOut
  BY <1>9
  DEF TimedOut, FinishShutdown, LifespanShutdown, ShutdownBegins
<1>10. CASE LifespanShutdownReturns BY <1>10 DEF LifespanShutdownReturns
<1>11. ASSUME NEW sigint \in BOOLEAN, HandleExit(sigint) PROVE LifespanIsTold'
  BY <1>11 DEF HandleExit
<1>12. ASSUME NEW c \in Conns, OfConnection(c) PROVE LifespanIsTold'
  BY <1>12, ConnectionsApart DEF Elsewhere
<1>13. CASE Application
  BY <1>13
  DEF Application, LifespanApp, LifespanReceive, SendStartup, SendShutdown,
      LifespanEnds, MaySendStartup, MaySendShutdown
<1>14. CASE Exited BY <1>14 DEF Exited, vars
<1>15. QED BY <1>1, <1>2, <1>3, <1>4, <1>5, <1>6, <1>7, <1>8, <1>9, <1>10, 
          <1>11, <1>12, <1>13, <1>14 DEF Next, OfConnection

-----------------------------------------------------------------------------
(* The invariant. *)

(* It holds before the server has done anything. *)
LEMMA InitInv == Init => IInv
<1> SUFFICES ASSUME Init PROVE IInv
  OBVIOUS
<1>1. LifespanTypeOK
  <2>1. receive_queue \in Seq({"startup", "shutdown"}) BY DEF Init, LifespanInit
  <2>2. QED BY <2>1 DEF Init, LifespanInit, LifespanTypeOK
<1>2. ControlTyped BY DEF Init, ControlTyped, Phases
<1>3. ClientsTyped /\ Owing
  BY ServerAssumption DEF Init, ClientsTyped, ConnStates, Owing, Answering
<1>4. StartupShape /\ ShutdownShape
  BY DEF Init, LifespanInit, StartupShape, ShutdownShape
<1>5. SweptConnectionsDrain /\ SweptConnectionsFinish /\ LifespanIsTold
  BY DEF Init, SweptConnectionsDrain, SweptConnectionsFinish, LifespanIsTold
<1>6. QED BY <1>1, <1>2, <1>3, <1>4, <1>5 DEF IInv

(* Every step of the server, its connections and its application keeps it. *)
LEMMA StepInv == IInv /\ [Next]_vars => IInv'
<1> SUFFICES ASSUME IInv, [Next]_vars PROVE IInv'
  OBVIOUS
<1>1. CASE Next
  <2>1. LifespanTypeOK' /\ ControlTyped' /\ ClientsTyped' /\ Owing'
    BY <1>1, LifespanTypedStep, ControlTypedStep, ClientsTypedStep, OwingStep DEF IInv
  <2>2. StartupShape' /\ ShutdownShape'
    BY <1>1, StartupShapeStep, ShutdownShapeStep DEF IInv
  <2>3. SweptConnectionsDrain' /\ SweptConnectionsFinish' /\ LifespanIsTold'
    BY <1>1, DrainStep, FinishStep, ToldStep DEF IInv
  <2>4. QED BY <2>1, <2>2, <2>3 DEF IInv
<1>2. CASE UNCHANGED vars
  <2> USE <1>2 DEF vars, control, clients, history, lifespanVars
  <2>1. LifespanTypeOK' /\ ControlTyped' /\ ClientsTyped' /\ Owing'
    BY DEF IInv, LifespanTypeOK, ControlTyped, ClientsTyped, Owing
  <2>2. StartupShape' /\ ShutdownShape' BY DEF IInv, StartupShape, ShutdownShape
  <2>3. SweptConnectionsDrain' /\ SweptConnectionsFinish' /\ LifespanIsTold'
    BY DEF IInv, SweptConnectionsDrain, SweptConnectionsFinish, LifespanIsTold
  <2>4. QED BY <2>1, <2>2, <2>3 DEF IInv
<1>3. QED BY <1>1, <1>2

(* IInv is an invariant of the server. *)
THEOREM Invariance == Spec => []IInv
<1>1. QED BY InitInv, StepInv, PTL DEF Spec

(* What the invariant says of the types: a connection answers no more requests than
   it has read. *)
LEMMA Typed == IInv => TypeOK
<1> SUFFICES ASSUME IInv PROVE TypeOK
  OBVIOUS
<1>1. ASSUME NEW c \in Conns
      PROVE  /\ arrived[c] \in 0..MaxRequests[c]
             /\ answered[c] \in 0..arrived[c] /\ told[c] \in 0..arrived[c]
  BY ServerAssumption DEF IInv, ClientsTyped, Owing
<1>2. QED BY <1>1 DEF IInv, ControlTyped, ClientsTyped, TypeOK

(* What it says of a failed startup: a socket is opened only past it. *)
LEMMA Started == IInv => FailedStartupNeverServes
BY DEF IInv, StartupShape, FailedStartupNeverServes

(* Every variable keeps its type, and no connection answers more requests than it has
   read. *)
THEOREM TypeCorrect == Spec => []TypeOK
<1>1. QED BY Invariance, Typed, PTL

(* A connection that Server.shutdown asked to stop answers the requests it had read by
   then, and is closed with the last of them. *)
THEOREM Drains == Spec => []SweptConnectionsDrain
<1>1. IInv => SweptConnectionsDrain BY DEF IInv
<1>2. QED BY <1>1, Invariance, PTL

(* When the application is told to shut down, unforced and in time, these
   connections are lost and their tasks are over. *)
THEOREM Finishes == Spec => []SweptConnectionsFinish
<1>1. IInv => SweptConnectionsFinish BY DEF IInv
<1>2. QED BY <1>1, Invariance, PTL

(* No socket is opened after lifespan.startup.failed. *)
THEOREM NeverServes == Spec => []FailedStartupNeverServes
<1>1. QED BY Invariance, Started, PTL

(* A server that has exited told its application, unless the exit was forced, an
   exception left the server, or there was nothing to tell it. *)
THEOREM TellsLifespan == Spec => []LifespanIsTold
<1>1. IInv => LifespanIsTold BY DEF IInv
<1>2. QED BY <1>1, Invariance, PTL
=============================================================================
