------------------------------ MODULE Lifespan ------------------------------
(***************************************************************************)
(* The lifespan protocol between the server and the application            *)
(* (uvicorn/lifespan/on.py, off.py).  The application's lifespan coroutine *)
(* runs in a task of its own (LifespanOn.main); the server talks to it     *)
(* through receive_queue and waits for it on two events.  The application  *)
(* is free: it may receive and send in any order, return or raise anywhere.*)
(* A send that fails an assertion of LifespanOn.send raises in the         *)
(* application and changes nothing, so only sends that pass are actions.   *)
(***************************************************************************)
EXTENDS Naturals, Sequences

VARIABLES
  lifespan,         \* config.lifespan: "auto", "on" or "off"
  main,             \* LifespanOn.main: not created, running or done
  receive_queue,    \* lifespan events the application has not received
  startup_event, shutdown_event,
  startup_failed, shutdown_failed,
  error_occurred,
  shutdown_sent     \* history: the lifespan.shutdown event was put in the queue

lifespanVars == <<lifespan, main, receive_queue, startup_event, shutdown_event,
                  startup_failed, shutdown_failed, error_occurred, shutdown_sent>>

LifespanInit ==
  /\ lifespan \in {"auto", "on", "off"}
  /\ main = "none"
  /\ receive_queue = <<>>
  /\ startup_event = FALSE /\ shutdown_event = FALSE
  /\ startup_failed = FALSE /\ shutdown_failed = FALSE
  /\ error_occurred = FALSE
  /\ shutdown_sent = FALSE

-----------------------------------------------------------------------------
(* The server's side. *)

(* startup() up to its wait; LifespanOff.startup does nothing. *)
StartupBegins ==
  IF lifespan = "off"
  THEN UNCHANGED lifespanVars
  ELSE /\ main' = "running"
       /\ receive_queue' = Append(receive_queue, "startup")
       /\ UNCHANGED <<lifespan, startup_event, shutdown_event, startup_failed,
                      shutdown_failed, error_occurred, shutdown_sent>>

StartupReturns == lifespan = "off" \/ startup_event

(* Mutation of StartupRefused: a crash of the lifespan task is the only failure. *)
StartupRefusedByCrash == error_occurred /\ lifespan = "on"

(* self.should_exit, as startup() leaves it. *)
StartupRefused == startup_failed \/ (error_occurred /\ lifespan = "on")

(* shutdown() sends nothing to an application whose lifespan task has raised. *)
ShutdownSkipped == lifespan = "off" \/ error_occurred

(* shutdown() up to its wait, when it is not skipped. *)
ShutdownBegins ==
  /\ receive_queue' = Append(receive_queue, "shutdown")
  /\ shutdown_sent' = TRUE
  /\ UNCHANGED <<lifespan, main, startup_event, shutdown_event, startup_failed,
                 shutdown_failed, error_occurred>>

-----------------------------------------------------------------------------
(* The application's side. *)

LifespanReceive ==
  /\ main = "running" /\ receive_queue # <<>>
  /\ receive_queue' = Tail(receive_queue)
  /\ UNCHANGED <<lifespan, main, startup_event, shutdown_event, startup_failed,
                 shutdown_failed, error_occurred, shutdown_sent>>

(* Mutation of MaySendStartup: the state transition is not asserted. *)
MaySendAnytime == main = "running"

MaySendStartup == main = "running" /\ ~startup_event /\ ~shutdown_event
MaySendShutdown == main = "running" /\ startup_event /\ ~shutdown_event

SendStartup(failed) ==
  /\ MaySendStartup
  /\ startup_event' = TRUE
  /\ startup_failed' = (startup_failed \/ failed)
  /\ UNCHANGED <<lifespan, main, receive_queue, shutdown_event,
                 shutdown_failed, error_occurred, shutdown_sent>>

SendShutdown(failed) ==
  /\ MaySendShutdown
  /\ shutdown_event' = TRUE
  /\ shutdown_failed' = failed
  /\ UNCHANGED <<lifespan, main, receive_queue, startup_event, startup_failed,
                 error_occurred, shutdown_sent>>

(* Mutation of LifespanEnds: startup_event.set() is missing from "finally". *)
EndsWithoutStartupEvent(raises) ==
  /\ main = "running"
  /\ main' = "done"
  /\ error_occurred' = raises
  /\ shutdown_event' = TRUE
  /\ UNCHANGED <<lifespan, receive_queue, startup_event, startup_failed,
                 shutdown_failed, shutdown_sent>>

(* The application returns or raises: main() sets both events whatever
   happened, so that the server is never left waiting. *)
LifespanEnds(raises) ==
  /\ main = "running"
  /\ main' = "done"
  /\ error_occurred' = raises
  /\ startup_event' = TRUE /\ shutdown_event' = TRUE
  /\ UNCHANGED <<lifespan, receive_queue, startup_failed, shutdown_failed, shutdown_sent>>

LifespanApp ==
  \/ LifespanReceive
  \/ \E failed \in BOOLEAN : SendStartup(failed) \/ SendShutdown(failed)
  \/ \E raises \in BOOLEAN : LifespanEnds(raises)

LifespanTypeOK ==
  /\ lifespan \in {"auto", "on", "off"}
  /\ main \in {"none", "running", "done"}
  /\ receive_queue \in Seq({"startup", "shutdown"})
  /\ startup_event \in BOOLEAN /\ shutdown_event \in BOOLEAN
  /\ startup_failed \in BOOLEAN /\ shutdown_failed \in BOOLEAN
  /\ error_occurred \in BOOLEAN /\ shutdown_sent \in BOOLEAN
=============================================================================
