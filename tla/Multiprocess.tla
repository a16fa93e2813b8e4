---------------------------- MODULE Multiprocess ----------------------------
(***************************************************************************)
(* The supervisor of several workers (uvicorn/supervisors/multiprocess.py): *)
(* one thread that waits half a second, handles the signals queued so far, *)
(* and health-checks every worker, until it is told to stop.  SIGHUP       *)
(* replaces the workers one at a time, each by one that is already         *)
(* serving; SIGTTIN and SIGTTOU add and remove one.                        *)
(*                                                                         *)
(* Workers and supervisor share a pipe: the supervisor writes a ping, a    *)
(* thread of the worker answers each ping with whether its server has      *)
(* started.  The supervisor stops waiting after a while and reads whatever *)
(* answer is first in the pipe the next time, so an answer may be old.     *)
(*                                                                         *)
(* A process id is free again once no variable of the supervisor holds it. *)
(***************************************************************************)
EXTENDS Naturals, Sequences, FiniteSets

CONSTANTS
  Workers,     \* config.workers
  MaxProcs,    \* processes at a time, enough for every slot and one replacement
  MaxSignals,  \* bound: signals received
  MaxFaults,   \* bound: workers that crash, hang, or answer a healthcheck late
  MaxPings     \* bound: pings sent by one wait_until_ready before its deadline

ASSUME MultiprocessAssumption ==
  /\ Workers \in Nat \ {0}
  /\ MaxProcs \in Nat /\ MaxProcs > Workers + MaxSignals
  /\ MaxSignals \in Nat /\ MaxFaults \in Nat /\ MaxPings \in Nat \ {0}

Procs == 1..MaxProcs

Signals == {"TERM", "HUP", "TTIN", "TTOU"}  \* SIGINT and SIGBREAK act as SIGTERM

VARIABLES
  pc,            \* where the supervisor's thread is
  processes,     \* the list of workers, by process id
  processes_num,
  should_exit,
  signal_queue,
  todo,          \* signals left of the snapshot handle_signals iterates over
  idx,           \* the slot a loop is at, from 1; 1 outside the loops
  replacement,   \* restart_all's new_process, handle_ttou's popped process, or nothing
  attempts,      \* pings sent by this wait_until_ready
  proc,          \* the processes, and both directions of their pipes
  received,      \* signals received so far, for the bound
  faults         \* faults so far, for the bound

supervisor == <<pc, processes, processes_num, should_exit, todo, idx, replacement, attempts>>
vars == <<supervisor, signal_queue, proc, received, faults>>

Pcs == {"wait", "signals", "restart", "ready", "ready_poll", "restart_join", "ttou_join",
        "check", "check_poll", "join_all", "stopped"}
None == {}

(* failed: exited with STARTUP_FAILURE.  hung: alive, answers nothing and does not
   react to SIGTERM. *)
Process == [state : {"starting", "serving", "dead", "failed"}, hung : BOOLEAN,
            terminated : BOOLEAN, pings : Nat, pongs : Seq(BOOLEAN)]

Started == [state |-> "starting", hung |-> FALSE, terminated |-> FALSE,
            pings |-> 0, pongs |-> <<>>]
Gone == [Started EXCEPT !.state = "dead"]

Alive(p) == proc[p].state \in {"starting", "serving"}

InSlots == {processes[i] : i \in DOMAIN processes}
Held == InSlots \union replacement
Free == CHOOSE p \in Procs \ Held : \A q \in Procs \ Held : p <= q

(* The record of a dead process the supervisor lets go of is as it was at first. *)
Release(ids) == [p \in Procs |-> IF p \in ids THEN Gone ELSE proc[p]]

(* process.kill(), then join(): SIGKILL is never refused, an exit code stays. *)
Killed(r) == IF r.state = "failed" THEN r ELSE Gone

(* process.terminate() only flags the worker: it ends at a moment of its own. *)
Terminated(r) == [r EXCEPT !.terminated = r.state \in {"starting", "serving"}]

Init ==
  /\ pc = "wait"
  /\ processes = [i \in 1..Workers |-> i]
  /\ proc = [p \in Procs |-> IF p \in 1..Workers THEN Started ELSE Gone]
  /\ processes_num = Workers
  /\ should_exit = FALSE
  /\ signal_queue = <<>> /\ todo = 0
  /\ idx = 1 /\ replacement = None /\ attempts = 0
  /\ received = 0 /\ faults = 0

-----------------------------------------------------------------------------
(* run() and handle_signals() *)

(* should_exit.wait(0.5) returns FALSE: a snapshot of the queue is taken. *)
WakeUp ==
  /\ pc = "wait" /\ ~should_exit
  /\ pc' = "signals" /\ todo' = Len(signal_queue)
  /\ UNCHANGED <<processes, processes_num, should_exit, idx, replacement, attempts,
                 signal_queue, proc, received, faults>>

(* Mutation of Dequeue: the queue is cleared after its snapshot is taken. *)
DequeueAll == signal_queue' = SubSeq(signal_queue, 2, todo)

(* signal_queue.remove(sig) of a signal of the snapshot, which is the first. *)
Dequeue == signal_queue' = Tail(signal_queue)

Handle(sig) ==
  /\ pc = "signals" /\ todo > 0 /\ Head(signal_queue) = sig
  /\ Dequeue
  /\ todo' = todo - 1
  /\ UNCHANGED <<attempts, received, faults>>

HandleTerm ==
  /\ Handle("TERM")
  /\ should_exit' = TRUE
  /\ UNCHANGED <<pc, processes, processes_num, idx, replacement, proc>>

HandleHup ==
  /\ Handle("HUP")
  /\ pc' = "restart"
  /\ UNCHANGED <<processes, processes_num, should_exit, idx, replacement, proc>>

HandleTtin ==
  /\ Handle("TTIN")
  /\ processes_num' = processes_num + 1
  /\ processes' = Append(processes, Free)
  /\ proc' = [proc EXCEPT ![Free] = Started]
  /\ UNCHANGED <<pc, should_exit, idx, replacement>>

(* Mutation of OneLeft: off by one. *)
NoneLeft == processes_num < 1

OneLeft == processes_num <= 1

HandleTtou ==
  /\ Handle("TTOU")
  /\ IF OneLeft
     THEN UNCHANGED <<pc, processes, processes_num, replacement, proc>>
     ELSE LET last == processes[Len(processes)]
          IN  /\ processes_num' = processes_num - 1
              /\ processes' = SubSeq(processes, 1, Len(processes) - 1)
              /\ proc' = [proc EXCEPT ![last] = Terminated(@)]
              /\ replacement' = {last}
              /\ pc' = "ttou_join"
  /\ UNCHANGED <<should_exit, idx>>

TtouJoined ==
  /\ pc = "ttou_join" /\ \A p \in replacement : ~Alive(p)
  /\ replacement' = None /\ pc' = "signals"
  /\ proc' = Release(replacement)
  /\ UNCHANGED <<processes, processes_num, should_exit, todo, idx, attempts,
                 signal_queue, received, faults>>

(* keep_subprocess_alive() begins, or returns at once. *)
SignalsHandled ==
  /\ pc = "signals" /\ todo = 0
  /\ pc' = IF should_exit THEN "wait" ELSE "check"
  /\ UNCHANGED <<processes, processes_num, should_exit, todo, idx, replacement, attempts,
                 signal_queue, proc, received, faults>>

-----------------------------------------------------------------------------
(* restart_all() and wait_until_ready() *)

RestartNext ==
  /\ pc = "restart"
  /\ IF idx > Len(processes) \/ should_exit
     THEN pc' = "signals" /\ idx' = 1 /\ UNCHANGED <<replacement, proc>>
     ELSE /\ replacement' = {Free}
          /\ proc' = [proc EXCEPT ![Free] = Started]
          /\ pc' = "ready"
          /\ UNCHANGED idx
  /\ UNCHANGED <<processes, processes_num, should_exit, todo, attempts,
                 signal_queue, received, faults>>

(* Mutation of Abandon: the replacement that was not ready is left running. *)
AbandonAlive(p) == UNCHANGED proc

(* new_process.kill() and join() *)
Abandon(p) == proc' = [proc EXCEPT ![p] = Killed(@)]

(* wait_until_ready() returns FALSE: shutdown, a dead worker, or the deadline,
   which a wait of MaxPings pings has certainly reached. *)
NotReady ==
  /\ pc = "ready"
  /\ \E p \in replacement : Abandon(p)
  /\ replacement' = None /\ attempts' = 0 /\ idx' = 1
  /\ pc' = "signals"
  /\ UNCHANGED <<processes, processes_num, should_exit, todo, signal_queue, received, faults>>

(* is_ready(timeout=1) sends its ping. *)
AskReady ==
  /\ pc = "ready" /\ ~should_exit /\ attempts < MaxPings
  /\ \E p \in replacement :
       Alive(p) /\ proc' = [proc EXCEPT ![p].pings = @ + 1]
  /\ attempts' = attempts + 1
  /\ pc' = "ready_poll"
  /\ UNCHANGED <<processes, processes_num, should_exit, todo, idx, replacement,
                 signal_queue, received, faults>>

(* Mutation of SaysReady: ping() instead of is_ready(). *)
SaysAnything(pong) == TRUE

(* _healthcheck(timeout) is True *)
SaysReady(pong) == pong

(* The first answer in the pipe is read; if it says the replacement serves, the old
   worker is retired. *)
ReadyAnswer ==
  /\ pc = "ready_poll"
  /\ \E p \in replacement :
       /\ proc[p].pongs # <<>>
       /\ LET read == [proc EXCEPT ![p].pongs = Tail(@)]
              old  == processes[idx]
          IN  IF SaysReady(Head(proc[p].pongs))
              THEN /\ proc' = [read EXCEPT ![old] = Terminated(@)]
                   /\ attempts' = 0
                   /\ pc' = "restart_join"
              ELSE proc' = read /\ pc' = "ready" /\ UNCHANGED attempts
  /\ UNCHANGED <<processes, processes_num, should_exit, todo, idx, replacement,
                 signal_queue, received, faults>>

ReadyNoAnswer ==
  /\ pc = "ready_poll"
  /\ \A p \in replacement : proc[p].pongs = <<>>
  /\ pc' = "ready"
  /\ UNCHANGED <<processes, processes_num, should_exit, todo, idx, replacement, attempts,
                 signal_queue, proc, received, faults>>

(* old_process.join() returns, however long the worker takes. *)
OldJoined ==
  /\ pc = "restart_join" /\ ~Alive(processes[idx])
  /\ \E p \in replacement : processes' = [processes EXCEPT ![idx] = p]
  /\ proc' = Release({processes[idx]})
  /\ replacement' = None
  /\ idx' = idx + 1 /\ pc' = "restart"
  /\ UNCHANGED <<processes_num, should_exit, todo, attempts, signal_queue, received, faults>>

-----------------------------------------------------------------------------
(* keep_subprocess_alive() *)

(* A worker that is not alive, or did not answer, is killed and replaced; one that
   failed to start stops the supervisor instead. *)
Replace ==
  LET p == processes[idx]
      q == Free
  IN  IF proc[p].state = "failed"
      THEN should_exit' = TRUE /\ pc' = "wait" /\ idx' = 1 /\ UNCHANGED <<processes, proc>>
      ELSE /\ proc' = [proc EXCEPT ![p] = Killed(@), ![q] = Started]
           /\ processes' = [processes EXCEPT ![idx] = q]
           /\ idx' = idx + 1
           /\ pc' = "check"
           /\ UNCHANGED should_exit

(* Mutation of Healthcheck: a worker whose process runs is taken to be alive. *)
ProcessIsAlive == idx' = idx + 1 /\ pc' = "check" /\ UNCHANGED proc

(* ping() of a worker whose process runs; the answer is read next. *)
Healthcheck ==
  /\ proc' = [proc EXCEPT ![processes[idx]].pings = @ + 1]
  /\ pc' = "check_poll"
  /\ UNCHANGED idx

CheckNext ==
  /\ pc = "check"
  /\ IF idx > Len(processes)
     THEN pc' = "wait" /\ idx' = 1 /\ UNCHANGED <<processes, should_exit, proc>>
     ELSE IF Alive(processes[idx])
     THEN Healthcheck /\ UNCHANGED <<processes, should_exit>>
     ELSE Replace
  /\ UNCHANGED <<processes_num, todo, replacement, attempts, signal_queue, received, faults>>

CheckAnswer ==
  /\ pc = "check_poll" /\ proc[processes[idx]].pongs # <<>>
  /\ proc' = [proc EXCEPT ![processes[idx]].pongs = Tail(@)]
  /\ idx' = idx + 1 /\ pc' = "check"
  /\ UNCHANGED <<processes, processes_num, should_exit, todo, replacement, attempts,
                 signal_queue, received, faults>>

(* poll(timeout) expires: the worker is hung, gone, or just late. *)
CheckNoAnswer ==
  LET r == proc[processes[idx]]
      late == Alive(processes[idx]) /\ ~r.hung
  IN  /\ pc = "check_poll" /\ r.pongs = <<>>
      /\ late => faults < MaxFaults
      /\ faults' = IF late THEN faults + 1 ELSE faults
      /\ Replace
      /\ UNCHANGED <<processes_num, todo, replacement, attempts, signal_queue, received>>

-----------------------------------------------------------------------------
(* The end of run() *)

TerminateAll ==
  /\ pc = "wait" /\ should_exit
  /\ proc' = [p \in Procs |-> IF p \in InSlots THEN Terminated(proc[p]) ELSE proc[p]]
  /\ pc' = "join_all"
  /\ UNCHANGED <<processes, processes_num, should_exit, todo, idx, replacement, attempts,
                 signal_queue, received, faults>>

AllJoined ==
  /\ pc = "join_all" /\ \A p \in InSlots : ~Alive(p)
  /\ pc' = "stopped"
  /\ UNCHANGED <<processes, processes_num, should_exit, todo, idx, replacement, attempts,
                 signal_queue, proc, received, faults>>

Supervisor ==
  \/ WakeUp \/ HandleTerm \/ HandleHup \/ HandleTtin \/ HandleTtou \/ TtouJoined
  \/ SignalsHandled
  \/ RestartNext \/ NotReady \/ AskReady \/ ReadyAnswer \/ ReadyNoAnswer \/ OldJoined
  \/ CheckNext \/ CheckAnswer \/ CheckNoAnswer
  \/ TerminateAll \/ AllJoined

-----------------------------------------------------------------------------
(* The signals and the workers *)

SignalReceived(sig) ==
  /\ pc # "stopped" /\ received < MaxSignals
  /\ signal_queue' = Append(signal_queue, sig)
  /\ received' = received + 1
  /\ UNCHANGED <<supervisor, proc, faults>>

(* The worker's server finishes its startup, or exits with STARTUP_FAILURE. *)
StartupEnds(p, state) ==
  /\ proc[p].state = "starting" /\ ~proc[p].hung
  /\ proc' = [proc EXCEPT ![p].state = state]
  /\ UNCHANGED <<supervisor, signal_queue, received, faults>>

(* pong(), in a thread of the worker *)
Pong(p) ==
  /\ Alive(p) /\ ~proc[p].hung /\ proc[p].pings > 0
  /\ proc' = [proc EXCEPT ![p].pings = @ - 1,
                          ![p].pongs = Append(@, proc[p].state = "serving")]
  /\ UNCHANGED <<supervisor, signal_queue, received, faults>>

TerminatedExits(p) ==
  /\ Alive(p) /\ proc[p].terminated /\ ~proc[p].hung
  /\ proc' = [proc EXCEPT ![p].state = "dead", ![p].pings = 0]
  /\ UNCHANGED <<supervisor, signal_queue, received, faults>>

Fault(p, new) ==
  /\ Alive(p) /\ proc[p] # new /\ faults < MaxFaults
  /\ faults' = faults + 1
  /\ proc' = [proc EXCEPT ![p] = new]
  /\ UNCHANGED <<supervisor, signal_queue, received>>

Crash(p) == Fault(p, [proc[p] EXCEPT !.state = "dead", !.pings = 0])
Hang(p) == Fault(p, [proc[p] EXCEPT !.hung = TRUE])

(* The supervisor waits, without a bound, for a hung worker it has told to end. *)
JoiningHung ==
  /\ pc \in {"restart_join", "ttou_join", "join_all"}
  /\ \E p \in Held : Alive(p) /\ proc[p].hung /\ proc[p].terminated

(* The two ways in which nothing is left to happen. *)
Stopped == (pc = "stopped" \/ JoiningHung) /\ UNCHANGED vars

Next ==
  \/ Supervisor
  \/ \E sig \in Signals : SignalReceived(sig)
  \/ \E p \in Procs :
       \/ \E state \in {"serving", "failed"} : StartupEnds(p, state)
       \/ Pong(p) \/ TerminatedExits(p) \/ Crash(p) \/ Hang(p)
  \/ Stopped

Spec == Init /\ [][Next]_vars

(* The supervisor's thread runs; a worker that is not hung answers its pings, and
   exits once it is told to (a worker whose clients or tasks never end and that has
   no graceful timeout counts as hung here). *)
Fairness ==
  /\ WF_vars(Supervisor)
  /\ \A p \in Procs : WF_vars(Pong(p)) /\ WF_vars(TerminatedExits(p))

FairSpec == Spec /\ Fairness

-----------------------------------------------------------------------------
(* The type invariant; processes_num is the number of workers, never zero. *)
TypeOK ==
  /\ pc \in Pcs
  /\ processes \in Seq(Procs) /\ Cardinality(InSlots) = Len(processes)
  /\ processes_num = Len(processes) /\ processes_num > 0
  /\ should_exit \in BOOLEAN
  /\ signal_queue \in Seq(Signals) /\ todo \in 0..Len(signal_queue)
  /\ idx \in 1..Len(processes) + 1
  /\ replacement \in {None} \union {{p} : p \in Procs \ InSlots}
  /\ attempts \in 0..MaxPings
  /\ proc \in [Procs -> Process]
  /\ received \in 0..MaxSignals /\ faults \in 0..MaxFaults

(* No worker runs that the supervisor has lost: a live process is in the list, or is
   the replacement being brought up or the worker being retired.  A stopped
   supervisor leaves none behind. *)
NoOrphans ==
  /\ \A p \in Procs \ Held : ~Alive(p)
  /\ pc = "stopped" => \A p \in Procs : ~Alive(p)

(* SIGHUP drops no capacity: while the supervisor is not stopping, a worker in the
   list is told to end only when its replacement has finished its startup, however
   late the answers in the pipe are. *)
RetiredOnlyWhenReplaced ==
  ~should_exit =>
    \A i \in DOMAIN processes :
      proc[processes[i]].terminated =>
        /\ pc = "restart_join" /\ idx = i
        /\ \A p \in replacement : proc[p].state # "starting"

(* A hung worker is found out by the healthchecks, whatever old answers are in its
   pipe: it is killed, unless the supervisor stops or waits for such a worker. *)
HungIsReplaced ==
  LET HungWorker == \E p \in InSlots : Alive(p) /\ proc[p].hung
  IN  HungWorker ~> (~HungWorker \/ should_exit \/ JoiningHung)

(* SIGTERM stops the supervisor, whenever it comes, a rolling restart included. *)
TermStops ==
  (\E i \in DOMAIN signal_queue : signal_queue[i] = "TERM") ~>
     (pc = "stopped" \/ JoiningHung)
=============================================================================
