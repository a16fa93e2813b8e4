--------------------------- MODULE MultiprocessProofs ---------------------------
(***************************************************************************)
(* Proofs about Multiprocess, for any number of workers, signals, faults   *)
(* and pings: its types (with the list of workers free of duplicates and   *)
(* never longer than the processes allow), that no worker is lost, and     *)
(* that SIGHUP retires no worker before its replacement has started.       *)
(***************************************************************************)
EXTENDS Multiprocess, FiniteSetTheorems, SequenceTheorems, WellFoundedInduction, TLAPS

(* A list without duplicates, and what is in it. *)
Distinct(s) == \A i, j \in 1..Len(s) : s[i] = s[j] => i = j
Elements(s) == {s[i] : i \in DOMAIN s}

(* The list of workers: no process is in it twice, and it grows by no more than
   one for each signal received and handled. *)
ListShape ==
  /\ processes \in Seq(Procs)
  /\ Distinct(processes)
  /\ processes_num = Len(processes) /\ processes_num > 0
  /\ Len(processes) + Len(signal_queue) <= Workers + received

(* The types of the supervisor's other variables, and of the bounds. *)
SupervisorTyped ==
  /\ pc \in Pcs /\ should_exit \in BOOLEAN
  /\ signal_queue \in Seq(Signals) /\ todo \in 0..Len(signal_queue)
  /\ attempts \in 0..MaxPings
  /\ received \in 0..MaxSignals /\ faults \in 0..MaxFaults

(* Where a loop over the list is, and that it looks at a slot the list has. *)
IndexShape ==
  /\ idx \in 1..Len(processes) + 1
  /\ pc \in {"ready", "ready_poll", "restart_join", "check_poll"} =>
       idx <= Len(processes)
  /\ pc \notin {"restart", "ready", "ready_poll", "restart_join", "check", "check_poll"} =>
       idx = 1

(* The one process the supervisor holds outside the list, exactly while it brings
   a replacement up or waits for a popped worker. *)
Holding == pc \in {"ready", "ready_poll", "restart_join", "ttou_join"}
ReplacementShape ==
  /\ ~Holding => replacement = None
  /\ Holding => \E p \in Procs \ InSlots : replacement = {p}

ProcsTyped == proc \in [Procs -> Process]

(* An answer in the pipe that says "started" is true from then on: a process that
   sent one is not starting, and a new process inherits no answers. *)
Truthful(r) == \A i \in 1..Len(r.pongs) : r.pongs[i] => r.state # "starting"
AnswersTrue == \A p \in Procs : Truthful(proc[p])

(* Nobody tells a replacement to end. *)
ReplacementKept ==
  pc \in {"ready", "ready_poll", "restart_join"} =>
    \A p \in replacement : ~proc[p].terminated

IInv ==
  /\ ListShape /\ SupervisorTyped /\ IndexShape /\ ReplacementShape
  /\ ProcsTyped /\ AnswersTrue /\ ReplacementKept
  /\ NoOrphans /\ RetiredOnlyWhenReplaced

-----------------------------------------------------------------------------
(* The list. *)

(* A list without duplicates has as many elements as places. *)
LEMMA DistinctCount ==
  ASSUME NEW S, NEW s \in Seq(S), Distinct(s)
  PROVE  IsFiniteSet(Elements(s)) /\ Cardinality(Elements(s)) = Len(s)
<1>1. Len(s) \in Nat /\ DOMAIN s = 1..Len(s) /\ s \in [1..Len(s) -> S]
  BY LenProperties
<1>2. s \in Surjection(1..Len(s), Elements(s))
  <2>1. s \in [1..Len(s) -> Elements(s)] BY <1>1 DEF Elements
  <2>2. \A x \in Elements(s) : \E i \in 1..Len(s) : s[i] = x BY <1>1 DEF Elements
  <2>3. QED BY <2>1, <2>2 DEF Surjection
<1>3. s \in Injection(1..Len(s), Elements(s))
  <2>1. s \in [1..Len(s) -> Elements(s)] BY <1>2 DEF Surjection
  <2>2. IsInjective(s) BY <1>1 DEF IsInjective, Distinct
  <2>3. QED BY <2>1, <2>2 DEF Injection
<1>4. IsFiniteSet(1..Len(s)) /\ Cardinality(1..Len(s)) = Len(s) BY <1>1, FS_Interval
<1>5. QED BY <1>2, <1>3, <1>4, FS_Surjection

(* While the supervisor holds no replacement there is a process id left: the list
   is shorter than the processes are many. *)
LEMMA FreeExists ==
  ASSUME ListShape, SupervisorTyped, replacement = None
  PROVE  Free \in Procs \ InSlots
<1>1. /\ IsFiniteSet(InSlots) /\ Cardinality(InSlots) = Len(processes)
      /\ Len(processes) \in Nat /\ Len(signal_queue) \in Nat
  BY DistinctCount, LenProperties DEF ListShape, SupervisorTyped, InSlots, Elements
<1>2. Len(processes) < MaxProcs
  BY <1>1, MultiprocessAssumption DEF ListShape, SupervisorTyped
<1>3. IsFiniteSet(Procs) /\ Cardinality(Procs) = MaxProcs
  BY FS_Interval, MultiprocessAssumption DEF Procs
<1>4. Procs \ InSlots # {}
  <2>1. SUFFICES ASSUME Procs \subseteq InSlots PROVE FALSE OBVIOUS
  <2>2. Cardinality(Procs) <= Cardinality(InSlots) BY <1>1, <2>1, FS_Subset
  <2>3. QED BY <1>1, <1>2, <1>3, <2>2, MultiprocessAssumption
<1> DEFINE Less == {ss \in Nat \X Nat : ss[1] < ss[2]}
<1>5. \E p \in Procs \ InSlots : \A q \in Procs \ InSlots : <<q, p>> \notin Less
  <2>1. IsWellFoundedOn(Less, Nat) BY NatLessThanWellFounded, Zenon DEF OpToRel
  <2>2. Procs \ InSlots \subseteq Nat BY MultiprocessAssumption DEF Procs
  <2> HIDE DEF Less
  <2>3. QED BY <1>4, <2>1, <2>2, WFMin
<1>6. \E p \in Procs \ InSlots : \A q \in Procs \ InSlots : p <= q
  <2>1. PICK p \in Procs \ InSlots :
          \A q \in Procs \ InSlots : <<q, p>> \notin Less
    BY <1>5
  <2>2. Procs \subseteq Nat BY MultiprocessAssumption DEF Procs
  <2>3. ASSUME NEW q \in Procs \ InSlots PROVE p <= q
    <3>1. p \in Nat /\ q \in Nat /\ <<q, p>> \notin Less BY <2>1, <2>2
    <3>2. <<q, p>>[1] = q /\ <<q, p>>[2] = p OBVIOUS
    <3>3. ~(q < p) BY <3>1, <3>2, Zenon
    <3>4. QED BY <3>1, <3>3
  <2>4. QED BY <2>3
<1>7. Held = InSlots BY DEF Held, None
<1>8. QED BY <1>6, <1>7 DEF Free

-----------------------------------------------------------------------------
(* The processes. *)

(* What one step makes of the record of one process, and of its pipe. *)
Evolves(r, t) ==
  \/ t \in {r, Started, Gone, Killed(r), Terminated(r)}
  \/ t = [r EXCEPT !.pings = r.pings + 1]
  \/ r.pongs # <<>> /\ t = [r EXCEPT !.pongs = Tail(r.pongs)]
  \/ \E state \in {"serving", "failed"} :
       r.state = "starting" /\ t = [r EXCEPT !.state = state]
  \/ r.pings > 0 /\ t = [r EXCEPT !.pings = r.pings - 1,
                                  !.pongs = Append(r.pongs, r.state = "serving")]
  \/ t = [r EXCEPT !.state = "dead", !.pings = 0]
  \/ t = [r EXCEPT !.hung = TRUE]

(* The records the supervisor starts, kills and terminates are processes. *)
LEMMA RecordTypes ==
  /\ Started \in Process /\ Gone \in Process
  /\ \A r \in Process : Killed(r) \in Process /\ Terminated(r) \in Process
<1>1. <<>> \in Seq(BOOLEAN) OBVIOUS
<1>2. 0 \in Nat OBVIOUS
<1>3. Started \in Process BY <1>1, <1>2, ZenonT(60) DEF Started, Process
<1>4. Gone \in Process BY <1>3, ZenonT(60) DEF Gone, Process
<1>5. ASSUME NEW r \in Process PROVE Terminated(r) \in Process
  <2> DEFINE flag == r.state \in {"starting", "serving"}
  <2>1. flag \in BOOLEAN OBVIOUS
  <2> HIDE DEF flag
  <2>2. [r EXCEPT !.terminated = flag] \in Process BY <2>1, ZenonT(60) DEF Process
  <2>3. QED BY <2>2 DEF Terminated, flag
<1>6. QED BY <1>3, <1>4, <1>5 DEF Killed

(* What those records say. *)
LEMMA RecordFacts ==
  /\ Started.state = "starting" /\ ~Started.terminated /\ Started.pongs = <<>>
  /\ Gone.state = "dead" /\ ~Gone.terminated /\ Gone.pongs = <<>>
  /\ \A r \in Process :
       /\ Killed(r).state \notin {"starting", "serving"}
       /\ Killed(r) = r \/ Killed(r).pongs = <<>>
       /\ Terminated(r).state = r.state /\ Terminated(r).pongs = r.pongs
<1>1. Started.state = "starting" /\ ~Started.terminated /\ Started.pongs = <<>>
  BY DEF Started
<1>2. Gone.state = "dead" /\ ~Gone.terminated /\ Gone.pongs = <<>>
  BY DEF Gone, Started
<1>3. ASSUME NEW r \in Process
      PROVE  /\ Killed(r).state \notin {"starting", "serving"}
             /\ Killed(r) = r \/ Killed(r).pongs = <<>>
             /\ Terminated(r).state = r.state /\ Terminated(r).pongs = r.pongs
  <2>1. Killed(r).state \notin {"starting", "serving"} BY <1>2 DEF Killed
  <2>2. Killed(r) = r \/ Killed(r).pongs = <<>> BY <1>2 DEF Killed
  <2>3. Terminated(r).state = r.state /\ Terminated(r).pongs = r.pongs
    BY DEF Terminated, Process
  <2>4. QED BY <2>1, <2>2, <2>3
<1>4. QED BY <1>1, <1>2, <1>3

(* A record evolves into a record. *)
LEMMA EvolvesType ==
  ASSUME NEW r \in Process, NEW t, Evolves(r, t)
  PROVE  t \in Process
<1>1. CASE t \in {r, Started, Gone, Killed(r), Terminated(r)} BY <1>1, RecordTypes
<1>2. CASE t = [r EXCEPT !.pings = r.pings + 1]
  <2>1. r.pings + 1 \in Nat BY DEF Process
  <2>2. QED BY <1>2, <2>1, ZenonT(60) DEF Process
<1>3. CASE r.pongs # <<>> /\ t = [r EXCEPT !.pongs = Tail(r.pongs)]
  <2>1. Tail(r.pongs) \in Seq(BOOLEAN) BY <1>3 DEF Process
  <2>2. QED BY <1>3, <2>1, ZenonT(60) DEF Process
<1>4. ASSUME NEW state \in {"serving", "failed"}, t = [r EXCEPT !.state = state]
      PROVE  t \in Process
  <2>1. state \in {"starting", "serving", "dead", "failed"} OBVIOUS
  <2>2. QED BY <1>4, <2>1, ZenonT(60) DEF Process
<1>5. CASE r.pings > 0 /\ t = [r EXCEPT !.pings = r.pings - 1,
                                       !.pongs = Append(r.pongs, r.state = "serving")]
  <2> DEFINE pong == r.state = "serving"
             after == Append(r.pongs, pong)
             left == r.pings - 1
  <2>1. pong \in BOOLEAN OBVIOUS
  <2> HIDE DEF pong
  <2>2. after \in Seq(BOOLEAN) BY <2>1 DEF Process
  <2>3. left \in Nat BY <1>5 DEF Process
  <2>4. t = [r EXCEPT !.pings = left, !.pongs = after] BY <1>5 DEF pong
  <2> HIDE DEF after, left
  <2>5. QED BY <2>2, <2>3, <2>4, ZenonT(60) DEF Process
<1>6. CASE t = [r EXCEPT !.state = "dead", !.pings = 0]
  <2>1. 0 \in Nat OBVIOUS
  <2>2. QED BY <1>6, <2>1, ZenonT(60) DEF Process
<1>7. CASE t = [r EXCEPT !.hung = TRUE] BY <1>7, ZenonT(60) DEF Process
<1>8. QED BY <1>1, <1>2, <1>3, <1>4, <1>5, <1>6, <1>7 DEF Evolves

(* A record whose answers are true evolves into one. *)
LEMMA EvolvesTruthful ==
  ASSUME NEW r \in Process, NEW t, Evolves(r, t), Truthful(r)
  PROVE  Truthful(t)
<1> USE DEF Truthful
<1>1. CASE t \in {r, Started, Gone, Killed(r), Terminated(r)} BY <1>1, RecordFacts
<1>2. CASE t = [r EXCEPT !.pings = r.pings + 1] BY <1>2 DEF Process
<1>3. CASE r.pongs # <<>> /\ t = [r EXCEPT !.pongs = Tail(r.pongs)]
  <2>1. t.state = r.state /\ t.pongs = Tail(r.pongs) BY <1>3 DEF Process
  <2>2. r.pongs \in Seq(BOOLEAN) BY DEF Process
  <2>3. /\ Len(t.pongs) = Len(r.pongs) - 1
        /\ \A i \in 1..Len(t.pongs) : t.pongs[i] = r.pongs[i + 1]
    BY <1>3, <2>1, <2>2
  <2>4. \A i \in 1..Len(t.pongs) : i + 1 \in 1..Len(r.pongs) BY <2>2, <2>3
  <2>5. QED BY <2>1, <2>3, <2>4
<1>4. ASSUME NEW state \in {"serving", "failed"}, t = [r EXCEPT !.state = state]
      PROVE  Truthful(t)
  BY <1>4 DEF Process
<1>5. CASE r.pings > 0 /\ t = [r EXCEPT !.pings = r.pings - 1,
                                       !.pongs = Append(r.pongs, r.state = "serving")]
  <2> DEFINE pong == r.state = "serving"
  <2>1. t.state = r.state /\ t.pongs = Append(r.pongs, pong)
    BY <1>5 DEF Process
  <2>2. pong \in BOOLEAN /\ (pong => t.state # "starting") BY <2>1
  <2> HIDE DEF pong
  <2>3. r.pongs \in Seq(BOOLEAN) BY DEF Process
  <2>4. /\ Len(t.pongs) = Len(r.pongs) + 1
        /\ \A i \in 1..Len(r.pongs) : t.pongs[i] = r.pongs[i]
        /\ t.pongs[Len(r.pongs) + 1] = pong
    BY <2>1, <2>2, <2>3, AppendProperties
  <2>5. ASSUME NEW i \in 1..Len(t.pongs), t.pongs[i] PROVE t.state # "starting"
    <3>1. CASE i \in 1..Len(r.pongs) BY <2>1, <2>4, <2>5, <3>1
    <3>2. CASE i = Len(r.pongs) + 1 BY <2>2, <2>4, <2>5, <3>2
    <3>3. QED BY <2>3, <2>4, <3>1, <3>2
  <2>6. QED BY <2>5
<1>6. CASE t = [r EXCEPT !.state = "dead", !.pings = 0] BY <1>6 DEF Process
<1>7. CASE t = [r EXCEPT !.hung = TRUE] BY <1>7 DEF Process
<1>8. QED BY <1>1, <1>2, <1>3, <1>4, <1>5, <1>6, <1>7 DEF Evolves

-----------------------------------------------------------------------------
(* The steps that change the list, by what they make of it. *)

(* The list with q at its end, with q in the slot the loop is at, without its last
   element q. *)
Grown(q) ==
  /\ processes' \in Seq(Procs) /\ Distinct(processes')
  /\ Len(processes') = Len(processes) + 1 /\ InSlots' = InSlots \cup {q}
  /\ \A j \in 1..Len(processes') :
       processes'[j] = IF j = Len(processes) + 1 THEN q ELSE processes[j]
Swapped(q) ==
  /\ processes' \in Seq(Procs) /\ Distinct(processes')
  /\ Len(processes') = Len(processes)
  /\ InSlots' = (InSlots \ {processes[idx]}) \cup {q}
  /\ \A j \in 1..Len(processes) :
       processes'[j] = IF j = idx THEN q ELSE processes[j]
Shrunk(q) ==
  /\ processes' \in Seq(Procs) /\ Distinct(processes')
  /\ Len(processes') = Len(processes) - 1 /\ InSlots' = InSlots \ {q}
  /\ \A j \in 1..Len(processes') : processes'[j] = processes[j]

(* SIGTTIN starts a worker. *)
Grow(q) ==
  /\ Handle("TTIN") /\ q \notin InSlots /\ Grown(q)
  /\ processes_num' = processes_num + 1
  /\ proc' = [proc EXCEPT ![q] = Started]
  /\ UNCHANGED <<pc, should_exit, idx, replacement>>

(* SIGTTOU pops one, or leaves the last alone. *)
Shrink(q) ==
  /\ Handle("TTOU") /\ q \in InSlots /\ Shrunk(q)
  /\ processes_num > 1 /\ processes_num' = processes_num - 1
  /\ proc' = [proc EXCEPT ![q] = Terminated(proc[q])]
  /\ replacement' = {q} /\ pc' = "ttou_join"
  /\ UNCHANGED <<should_exit, idx>>
KeepLast ==
  /\ Handle("TTOU")
  /\ UNCHANGED <<pc, processes, processes_num, replacement, proc, should_exit, idx>>

(* restart_all starts a replacement, or is through with the list. *)
BringUp(q) ==
  /\ pc = "restart" /\ idx <= Len(processes) /\ q \notin InSlots
  /\ replacement' = {q} /\ pc' = "ready"
  /\ proc' = [proc EXCEPT ![q] = Started]
  /\ UNCHANGED <<processes, processes_num, should_exit, todo, idx, attempts,
                 signal_queue, received, faults>>
RestartEnds ==
  /\ pc = "restart" /\ pc' = "signals" /\ idx' = 1
  /\ UNCHANGED <<processes, processes_num, should_exit, todo, replacement, proc,
                 attempts, signal_queue, received, faults>>

(* The replacement takes the slot of the worker that was joined. *)
PutIn(q) ==
  /\ pc = "restart_join" /\ ~Alive(processes[idx])
  /\ replacement = {q} /\ Swapped(q)
  /\ proc' = Release({processes[idx]})
  /\ replacement' = None /\ idx' = idx + 1 /\ pc' = "restart"
  /\ UNCHANGED <<processes_num, should_exit, todo, attempts, signal_queue, received,
                 faults>>

(* keep_subprocess_alive is through, pings a worker, or replaces it, or stops. *)
Checking ==
  /\ pc \in {"check", "check_poll"}
  /\ faults' \in faults..MaxFaults
  /\ UNCHANGED <<processes_num, todo, replacement, attempts, signal_queue, received>>
CheckEnds ==
  /\ Checking /\ pc' = "wait" /\ idx' = 1 /\ should_exit' \in {should_exit, TRUE}
  /\ UNCHANGED <<processes, proc>>
Ask ==
  /\ Checking /\ idx <= Len(processes)
  /\ Healthcheck /\ UNCHANGED <<processes, should_exit>>
Swap(q) ==
  /\ Checking /\ idx <= Len(processes) /\ q \notin InSlots /\ Swapped(q)
  /\ proc' = [proc EXCEPT ![processes[idx]] = Killed(proc[processes[idx]]),
                          ![q] = Started]
  /\ idx' = idx + 1 /\ pc' = "check" /\ UNCHANGED should_exit

(* The steps of the supervisor and its workers in these terms. *)
Step ==
  \/ WakeUp \/ HandleTerm \/ HandleHup \/ KeepLast \/ TtouJoined \/ SignalsHandled
  \/ RestartEnds \/ NotReady \/ AskReady \/ ReadyAnswer \/ ReadyNoAnswer
  \/ CheckEnds \/ Ask \/ CheckAnswer
  \/ TerminateAll \/ AllJoined
  \/ \E sig \in Signals : SignalReceived(sig)
  \/ \E p \in Procs :
       \/ Grow(p) \/ Shrink(p) \/ BringUp(p) \/ PutIn(p) \/ Swap(p)
       \/ \E state \in {"serving", "failed"} : StartupEnds(p, state)
       \/ Pong(p) \/ TerminatedExits(p) \/ Crash(p) \/ Hang(p)
  \/ UNCHANGED vars

(* A slot of the list holds a process. *)
LEMMA SlotsHold ==
  ASSUME ListShape
  PROVE  /\ Len(processes) \in Nat /\ DOMAIN processes = 1..Len(processes)
         /\ \A i \in 1..Len(processes) : processes[i] \in InSlots
         /\ InSlots \subseteq Procs /\ InSlots = Elements(processes)
<1>1. /\ Len(processes) \in Nat /\ DOMAIN processes = 1..Len(processes)
      /\ \A i \in 1..Len(processes) : processes[i] \in Procs
  BY LenProperties DEF ListShape
<1>2. QED BY <1>1 DEF InSlots, Elements

(* Putting a new process in the slot of another keeps the list distinct. *)
LEMMA SwappedList ==
  ASSUME ListShape, NEW q \in Procs, q \notin InSlots, idx \in 1..Len(processes),
         processes' = [processes EXCEPT ![idx] = q]
  PROVE  Swapped(q)
<1>1. /\ processes' \in Seq(Procs) /\ Len(processes') = Len(processes)
      /\ \A j \in 1..Len(processes) :
           processes'[j] = IF j = idx THEN q ELSE processes[j]
  BY ExceptSeq DEF ListShape
<1>2. /\ DOMAIN processes = 1..Len(processes) /\ DOMAIN processes' = 1..Len(processes)
      /\ \A i, j \in 1..Len(processes) : processes[i] = processes[j] => i = j
  BY <1>1, LenProperties DEF ListShape, Distinct
<1>3. Distinct(processes') BY <1>1, <1>2 DEF Distinct, InSlots
<1>4. InSlots' = (InSlots \ {processes[idx]}) \cup {q}
  <2>1. InSlots' \subseteq (InSlots \ {processes[idx]}) \cup {q}
    BY <1>1, <1>2 DEF InSlots
  <2>2. ASSUME NEW x \in InSlots, x # processes[idx] PROVE x \in InSlots'
    BY <1>1, <1>2, <2>2 DEF InSlots
  <2>3. q \in InSlots' BY <1>1, <1>2 DEF InSlots
  <2>4. QED BY <2>1, <2>2, <2>3
<1>5. QED BY <1>1, <1>3, <1>4 DEF Swapped

(* So does adding a new process at the end. *)
LEMMA GrownList ==
  ASSUME ListShape, NEW q \in Procs, q \notin InSlots, processes' = Append(processes, q)
  PROVE  Grown(q)
<1>1. /\ processes' \in Seq(Procs) /\ Len(processes') = Len(processes) + 1
      /\ \A j \in 1..Len(processes) : processes'[j] = processes[j]
      /\ processes'[Len(processes) + 1] = q
  BY AppendProperties DEF ListShape
<1>2. /\ DOMAIN processes = 1..Len(processes) /\ Len(processes) \in Nat
      /\ DOMAIN processes' = 1..(Len(processes) + 1)
      /\ \A i, j \in 1..Len(processes) : processes[i] = processes[j] => i = j
  BY <1>1, LenProperties DEF ListShape, Distinct
<1>3. \A j \in 1..Len(processes') :
        processes'[j] = IF j = Len(processes) + 1 THEN q ELSE processes[j]
  BY <1>1, <1>2
<1>4. Distinct(processes') BY <1>1, <1>2 DEF Distinct, InSlots
<1>5. InSlots' = InSlots \cup {q}
  <2>1. InSlots' \subseteq InSlots \cup {q} BY <1>1, <1>2, <1>3 DEF InSlots
  <2>2. ASSUME NEW x \in InSlots PROVE x \in InSlots'
    BY <1>1, <1>2, <2>2 DEF InSlots
  <2>3. q \in InSlots' BY <1>1, <1>2 DEF InSlots
  <2>4. QED BY <2>1, <2>2, <2>3
<1>6. QED BY <1>1, <1>3, <1>4, <1>5 DEF Grown

(* And popping the last one. *)
LEMMA ShrunkList ==
  ASSUME ListShape, processes' = SubSeq(processes, 1, Len(processes) - 1)
  PROVE  Shrunk(processes[Len(processes)])
<1>1. /\ Len(processes) \in Nat /\ Len(processes) > 0
      /\ DOMAIN processes = 1..Len(processes)
      /\ \A j \in 1..Len(processes) : processes[j] \in Procs
      /\ \A i, j \in 1..Len(processes) : processes[i] = processes[j] => i = j
  BY LenProperties DEF ListShape, Distinct
<1>2. /\ processes' \in Seq(Procs) /\ Len(processes') = Len(processes) - 1
      /\ \A j \in 1..Len(processes') : processes'[j] = processes[j]
  BY <1>1, SubSeqProperties
<1>3. DOMAIN processes' = 1..(Len(processes) - 1) BY <1>2, LenProperties
<1>4. Distinct(processes') BY <1>1, <1>2 DEF Distinct
<1>5. InSlots' = InSlots \ {processes[Len(processes)]}
  <2>1. InSlots' \subseteq InSlots \ {processes[Len(processes)]}
    BY <1>1, <1>2, <1>3 DEF InSlots
  <2>2. ASSUME NEW x \in InSlots, x # processes[Len(processes)] PROVE x \in InSlots'
    <3>1. PICK j \in 1..Len(processes) : x = processes[j] BY <1>1 DEF InSlots
    <3>2. j \in 1..(Len(processes) - 1) BY <1>1, <2>2, <3>1
    <3>3. processes'[j] = x BY <1>2, <3>1, <3>2
    <3>4. QED BY <1>3, <3>2, <3>3 DEF InSlots
  <2>3. QED BY <2>1, <2>2
<1>6. QED BY <1>2, <1>4, <1>5 DEF Shrunk

(* Every step of the specification is one of the steps above. *)
LEMMA NextIsStep ==
  ASSUME ListShape, SupervisorTyped, IndexShape, ReplacementShape, Next
  PROVE  Step
<1>2. replacement = None => Free \in Procs \ InSlots BY FreeExists
<1>3. CASE HandleTtin
  <2>1. Free \in Procs \ InSlots
    BY <1>2, <1>3 DEF HandleTtin, Handle, ReplacementShape, Holding
  <2>2. processes' = Append(processes, Free) BY <1>3 DEF HandleTtin
  <2>3. Grown(Free) BY <2>1, <2>2, GrownList
  <2>4. Grow(Free) BY <1>3, <2>1, <2>3 DEF HandleTtin, Grow
  <2>5. QED BY <2>1, <2>4 DEF Step
<1>4. CASE HandleTtou
  <2>1. CASE OneLeft
    <3>1. KeepLast BY <1>4, <2>1 DEF HandleTtou, KeepLast
    <3>2. QED BY <3>1 DEF Step
  <2>2. CASE ~OneLeft
    <3> DEFINE last == processes[Len(processes)]
    <3>1. last \in InSlots /\ last \in Procs /\ Len(processes) > 1 /\ processes_num > 1
      BY <2>2, SlotsHold DEF OneLeft, ListShape
    <3>2. processes' = SubSeq(processes, 1, Len(processes) - 1)
      BY <1>4, <2>2 DEF HandleTtou
    <3>3. Shrunk(last) BY <3>2, ShrunkList
    <3>4. Shrink(last) BY <1>4, <2>2, <3>1, <3>3 DEF HandleTtou, Shrink
    <3>5. QED BY <3>1, <3>4 DEF Step
  <2>3. QED BY <2>1, <2>2
<1>5. CASE RestartNext
  <2>1. CASE idx > Len(processes) \/ should_exit
    <3>1. RestartEnds BY <1>5, <2>1 DEF RestartNext, RestartEnds
    <3>2. QED BY <3>1 DEF Step
  <2>2. CASE ~(idx > Len(processes) \/ should_exit)
    <3>1. Free \in Procs \ InSlots
      BY <1>2, <1>5 DEF RestartNext, ReplacementShape, Holding
    <3>2. idx <= Len(processes) BY <2>2, SlotsHold DEF IndexShape
    <3>3. BringUp(Free) BY <1>5, <2>2, <3>1, <3>2 DEF RestartNext, BringUp
    <3>4. QED BY <3>1, <3>3 DEF Step
  <2>3. QED BY <2>1, <2>2
<1>6. CASE OldJoined
  <2>1. PICK q \in Procs \ InSlots : replacement = {q}
    BY <1>6 DEF OldJoined, ReplacementShape, Holding
  <2>2. processes' = [processes EXCEPT ![idx] = q] BY <1>6, <2>1 DEF OldJoined
  <2>3. idx \in 1..Len(processes) BY <1>6, SlotsHold DEF OldJoined, IndexShape
  <2>4. Swapped(q) BY <2>1, <2>2, <2>3, SwappedList
  <2>5. PutIn(q) BY <1>6, <2>1, <2>4 DEF OldJoined, PutIn
  <2>6. QED BY <2>1, <2>5 DEF Step
<1>7. ASSUME Replace, Checking, idx \in 1..Len(processes) PROVE Step
  <2>1. Free \in Procs \ InSlots BY <1>2, <1>7 DEF Checking, ReplacementShape, Holding
  <2>2. CASE proc[processes[idx]].state = "failed"
    <3>1. CheckEnds BY <1>7, <2>2 DEF Replace, CheckEnds
    <3>2. QED BY <3>1 DEF Step
  <2>3. CASE proc[processes[idx]].state # "failed"
    <3>1. processes' = [processes EXCEPT ![idx] = Free] BY <1>7, <2>3 DEF Replace
    <3>2. Swapped(Free) BY <1>7, <2>1, <3>1, SwappedList
    <3>3. processes[idx] # Free BY <1>7, <2>1, SlotsHold
    <3>4. Swap(Free) BY <1>7, <2>1, <2>3, <3>2, <3>3, SlotsHold DEF Replace, Swap
    <3>5. QED BY <2>1, <3>4 DEF Step
  <2>4. QED BY <2>2, <2>3
<1>8. CASE CheckNext
  <2>1. Checking BY <1>8 DEF CheckNext, Checking, SupervisorTyped
  <2>2. CASE idx > Len(processes)
    <3>1. CheckEnds BY <1>8, <2>1, <2>2 DEF CheckNext, CheckEnds
    <3>2. QED BY <3>1 DEF Step
  <2>3. CASE ~(idx > Len(processes))
    <3>1. idx \in 1..Len(processes) BY <2>3, SlotsHold DEF IndexShape
    <3>2. CASE Alive(processes[idx])
      <4>1. Ask BY <1>8, <2>1, <2>3, <3>1, <3>2, SlotsHold DEF CheckNext, Ask
      <4>2. QED BY <4>1 DEF Step
    <3>3. CASE ~Alive(processes[idx])
      BY <1>7, <1>8, <2>1, <2>3, <3>1, <3>3 DEF CheckNext
    <3>4. QED BY <3>2, <3>3
  <2>4. QED BY <2>2, <2>3
<1>9. CASE CheckNoAnswer
  <2>1. Checking
    BY <1>9, MultiprocessAssumption DEF CheckNoAnswer, Checking, SupervisorTyped
  <2>2. idx \in 1..Len(processes) BY <1>9, SlotsHold DEF CheckNoAnswer, IndexShape
  <2>3. QED BY <1>7, <1>9, <2>1, <2>2 DEF CheckNoAnswer
<1>10. CASE Stopped BY <1>10 DEF Stopped, Step
<1>11. QED BY <1>3, <1>4, <1>5, <1>6, <1>8, <1>9, <1>10 DEF Next, Supervisor, Step

-----------------------------------------------------------------------------
(* What every step keeps. *)

(* What is in the list depends on the list alone. *)
LEMMA SlotsKept ==
  ASSUME processes' = processes
  PROVE  InSlots' = InSlots
BY DEF InSlots

(* Every step keeps the list one of distinct processes, of the announced length,
   never empty, and within the signals handled. *)
LEMMA ListStep ==
  ASSUME ListShape, SupervisorTyped, Step
  PROVE  ListShape'
<1> USE DEF supervisor, ListShape, SupervisorTyped
<1>1. CASE WakeUp BY <1>1, SlotsHold, MultiprocessAssumption DEF WakeUp
<1>2. CASE HandleTerm
  BY <1>2, SlotsHold, MultiprocessAssumption DEF HandleTerm, Handle, Dequeue
<1>3. CASE HandleHup
  BY <1>3, SlotsHold, MultiprocessAssumption DEF HandleHup, Handle, Dequeue
<1>4. CASE KeepLast
  BY <1>4, SlotsHold, MultiprocessAssumption DEF KeepLast, Handle, Dequeue
<1>5. CASE TtouJoined BY <1>5, SlotsHold, MultiprocessAssumption DEF TtouJoined, Release
<1>6. CASE SignalsHandled BY <1>6, SlotsHold, MultiprocessAssumption DEF SignalsHandled
<1>7. CASE RestartEnds BY <1>7, SlotsHold, MultiprocessAssumption DEF RestartEnds
<1>8. CASE NotReady BY <1>8, SlotsHold, MultiprocessAssumption DEF NotReady, Abandon
<1>9. CASE AskReady BY <1>9, SlotsHold, MultiprocessAssumption DEF AskReady
<1>10. CASE ReadyAnswer
  BY <1>10, SlotsHold, MultiprocessAssumption DEF ReadyAnswer, SaysReady
<1>11. CASE ReadyNoAnswer BY <1>11, SlotsHold, MultiprocessAssumption DEF ReadyNoAnswer
<1>12. CASE CheckEnds
  BY <1>12, SlotsHold, MultiprocessAssumption DEF CheckEnds, Checking
<1>13. CASE Ask
  BY <1>13, SlotsHold, MultiprocessAssumption DEF Ask, Checking, Healthcheck
<1>14. CASE CheckAnswer BY <1>14, SlotsHold, MultiprocessAssumption DEF CheckAnswer
<1>15. CASE TerminateAll BY <1>15, SlotsHold, MultiprocessAssumption DEF TerminateAll
<1>16. CASE AllJoined BY <1>16, SlotsHold, MultiprocessAssumption DEF AllJoined
<1>17. ASSUME NEW sig \in Signals, SignalReceived(sig) PROVE ListShape'
  BY <1>17, SlotsHold, MultiprocessAssumption DEF SignalReceived
<1>18. ASSUME NEW p \in Procs, Grow(p) PROVE ListShape'
  <2>1. /\ processes' \in Seq(Procs) /\ Distinct(processes')
        /\ Len(processes') = Len(processes) + 1 /\ Len(processes) \in Nat
        /\ processes_num' = processes_num + 1 /\ received' = received
    BY <1>18, SlotsHold DEF Grow, Grown, Handle
  <2>2. Len(signal_queue) \in Nat /\ Len(signal_queue') = Len(signal_queue) - 1
    BY <1>18 DEF Grow, Handle, Dequeue
  <2>3. QED BY <2>1, <2>2, MultiprocessAssumption
<1>19. ASSUME NEW p \in Procs, Shrink(p) PROVE ListShape'
  BY <1>19, SlotsHold, MultiprocessAssumption DEF Shrink, Shrunk, Handle, Dequeue
<1>20. ASSUME NEW p \in Procs, BringUp(p) PROVE ListShape'
  BY <1>20, SlotsHold, MultiprocessAssumption DEF BringUp
<1>21. ASSUME NEW p \in Procs, PutIn(p) PROVE ListShape'
  BY <1>21, SlotsHold, MultiprocessAssumption DEF PutIn, Swapped, Release
<1>22. ASSUME NEW p \in Procs, Swap(p) PROVE ListShape'
  BY <1>22, SlotsHold, MultiprocessAssumption DEF Swap, Checking, Swapped
<1>23. ASSUME NEW p \in Procs, NEW state \in {"serving", "failed"}, StartupEnds(p, state)
      PROVE  ListShape'
  BY <1>23, SlotsHold, MultiprocessAssumption DEF StartupEnds
<1>24. ASSUME NEW p \in Procs, Pong(p) PROVE ListShape'
  BY <1>24, SlotsHold, MultiprocessAssumption DEF Pong
<1>25. ASSUME NEW p \in Procs, TerminatedExits(p) PROVE ListShape'
  BY <1>25, SlotsHold, MultiprocessAssumption DEF TerminatedExits
<1>26. ASSUME NEW p \in Procs, Crash(p) PROVE ListShape'
  BY <1>26, SlotsHold, MultiprocessAssumption DEF Crash, Fault
<1>27. ASSUME NEW p \in Procs, Hang(p) PROVE ListShape'
  BY <1>27, SlotsHold, MultiprocessAssumption DEF Hang, Fault
<1>28. CASE UNCHANGED vars
  BY <1>28, SlotsHold, MultiprocessAssumption DEF vars
<1>29. QED
  BY <1>1, <1>2, <1>3, <1>4, <1>5, <1>6, <1>7, <1>8, <1>9, <1>10, <1>11, <1>12, <1>13,
     <1>14, <1>15, <1>16, <1>17, <1>18, <1>19, <1>20, <1>21, <1>22, <1>23, <1>24,
     <1>25, <1>26, <1>27, <1>28
  DEF Step

(* Every step keeps the types of the supervisor's other variables. *)
LEMMA SupervisorTypedStep ==
  ASSUME ListShape, SupervisorTyped, Step
  PROVE  SupervisorTyped'
<1> USE DEF supervisor, SupervisorTyped, Pcs
<1>1. CASE WakeUp BY <1>1, MultiprocessAssumption DEF WakeUp
<1>2. CASE HandleTerm BY <1>2, MultiprocessAssumption DEF HandleTerm, Handle, Dequeue
<1>3. CASE HandleHup BY <1>3, MultiprocessAssumption DEF HandleHup, Handle, Dequeue
<1>4. CASE KeepLast BY <1>4, MultiprocessAssumption DEF KeepLast, Handle, Dequeue
<1>5. CASE TtouJoined BY <1>5, MultiprocessAssumption DEF TtouJoined, Release
<1>6. CASE SignalsHandled BY <1>6, MultiprocessAssumption DEF SignalsHandled
<1>7. CASE RestartEnds BY <1>7, MultiprocessAssumption DEF RestartEnds
<1>8. CASE NotReady BY <1>8, MultiprocessAssumption DEF NotReady, Abandon
<1>9. CASE AskReady BY <1>9, MultiprocessAssumption DEF AskReady
<1>10. CASE ReadyAnswer
  <2>1. /\ pc' \in {"restart_join", "ready"} /\ attempts' \in {0, attempts}
        /\ UNCHANGED <<should_exit, todo, signal_queue, received, faults>>
    BY <1>10 DEF ReadyAnswer
  <2>2. QED BY <2>1, MultiprocessAssumption
<1>11. CASE ReadyNoAnswer BY <1>11, MultiprocessAssumption DEF ReadyNoAnswer
<1>12. CASE CheckEnds
  <2>1. should_exit' \in BOOLEAN BY <1>12 DEF CheckEnds
  <2>2. /\ pc' = "wait" /\ faults' \in faults..MaxFaults
        /\ UNCHANGED <<todo, attempts, signal_queue, received>>
    BY <1>12 DEF CheckEnds, Checking
  <2>3. faults' \in 0..MaxFaults BY <2>2, MultiprocessAssumption
  <2>4. QED BY <2>1, <2>2, <2>3
<1>13. CASE Ask BY <1>13, MultiprocessAssumption DEF Ask, Checking, Healthcheck
<1>14. CASE CheckAnswer BY <1>14, MultiprocessAssumption DEF CheckAnswer
<1>15. CASE TerminateAll BY <1>15, MultiprocessAssumption DEF TerminateAll
<1>16. CASE AllJoined BY <1>16, MultiprocessAssumption DEF AllJoined
<1>17. ASSUME NEW sig \in Signals, SignalReceived(sig) PROVE SupervisorTyped'
  BY <1>17, MultiprocessAssumption DEF SignalReceived
<1>18. ASSUME NEW p \in Procs, Grow(p) PROVE SupervisorTyped'
  BY <1>18, MultiprocessAssumption DEF Grow, Grown, Handle, Dequeue
<1>19. ASSUME NEW p \in Procs, Shrink(p) PROVE SupervisorTyped'
  BY <1>19, MultiprocessAssumption DEF Shrink, Shrunk, Handle, Dequeue
<1>20. ASSUME NEW p \in Procs, BringUp(p) PROVE SupervisorTyped'
  BY <1>20, MultiprocessAssumption DEF BringUp
<1>21. ASSUME NEW p \in Procs, PutIn(p) PROVE SupervisorTyped'
  BY <1>21, MultiprocessAssumption DEF PutIn, Swapped, Release
<1>22. ASSUME NEW p \in Procs, Swap(p) PROVE SupervisorTyped'
  BY <1>22, MultiprocessAssumption DEF Swap, Checking, Swapped
<1>23. ASSUME NEW p \in Procs, NEW state \in {"serving", "failed"}, StartupEnds(p, state)
      PROVE  SupervisorTyped'
  BY <1>23, MultiprocessAssumption DEF StartupEnds
<1>24. ASSUME NEW p \in Procs, Pong(p) PROVE SupervisorTyped'
  BY <1>24, MultiprocessAssumption DEF Pong
<1>25. ASSUME NEW p \in Procs, TerminatedExits(p) PROVE SupervisorTyped'
  BY <1>25, MultiprocessAssumption DEF TerminatedExits
<1>26. ASSUME NEW p \in Procs, Crash(p) PROVE SupervisorTyped'
  BY <1>26, MultiprocessAssumption DEF Crash, Fault
<1>27. ASSUME NEW p \in Procs, Hang(p) PROVE SupervisorTyped'
  BY <1>27, MultiprocessAssumption DEF Hang, Fault
<1>28. CASE UNCHANGED vars BY <1>28, MultiprocessAssumption DEF vars
<1>29. QED
  BY <1>1, <1>2, <1>3, <1>4, <1>5, <1>6, <1>7, <1>8, <1>9, <1>10, <1>11, <1>12, <1>13,
     <1>14, <1>15, <1>16, <1>17, <1>18, <1>19, <1>20, <1>21, <1>22, <1>23, <1>24,
     <1>25, <1>26, <1>27, <1>28
  DEF Step

(* No loop leaves the list, although it is changed under it. *)
LEMMA IndexStep ==
  ASSUME ListShape, SupervisorTyped, IndexShape, Step
  PROVE  IndexShape'
<1> USE DEF supervisor, IndexShape
<1>1. CASE WakeUp BY <1>1, SlotsHold, SlotsKept DEF WakeUp
<1>2. CASE HandleTerm BY <1>2, SlotsHold, SlotsKept DEF HandleTerm, Handle, Dequeue
<1>3. CASE HandleHup BY <1>3, SlotsHold, SlotsKept DEF HandleHup, Handle, Dequeue
<1>4. CASE KeepLast BY <1>4, SlotsHold, SlotsKept DEF KeepLast, Handle, Dequeue
<1>5. CASE TtouJoined BY <1>5, SlotsHold, SlotsKept DEF TtouJoined, Release
<1>6. CASE SignalsHandled BY <1>6, SlotsHold, SlotsKept DEF SignalsHandled
<1>7. CASE RestartEnds BY <1>7, SlotsHold, SlotsKept DEF RestartEnds
<1>8. CASE NotReady BY <1>8, SlotsHold, SlotsKept DEF NotReady, Abandon
<1>9. CASE AskReady BY <1>9, SlotsHold, SlotsKept DEF AskReady
<1>10. CASE ReadyAnswer BY <1>10, SlotsHold, SlotsKept DEF ReadyAnswer, SaysReady
<1>11. CASE ReadyNoAnswer BY <1>11, SlotsHold, SlotsKept DEF ReadyNoAnswer
<1>12. CASE CheckEnds BY <1>12, SlotsHold, SlotsKept DEF CheckEnds, Checking
<1>13. CASE Ask BY <1>13, SlotsHold, SlotsKept DEF Ask, Checking, Healthcheck
<1>14. CASE CheckAnswer BY <1>14, SlotsHold, SlotsKept DEF CheckAnswer
<1>15. CASE TerminateAll BY <1>15, SlotsHold, SlotsKept DEF TerminateAll
<1>16. CASE AllJoined BY <1>16, SlotsHold, SlotsKept DEF AllJoined
<1>17. ASSUME NEW sig \in Signals, SignalReceived(sig) PROVE IndexShape'
  BY <1>17, SlotsHold, SlotsKept DEF SignalReceived
<1>18. ASSUME NEW p \in Procs, Grow(p) PROVE IndexShape'
  BY <1>18, SlotsHold, SlotsKept DEF Grow, Grown, Handle, Dequeue
<1>19. ASSUME NEW p \in Procs, Shrink(p) PROVE IndexShape'
  BY <1>19, SlotsHold, SlotsKept DEF Shrink, Shrunk, Handle, Dequeue
<1>20. ASSUME NEW p \in Procs, BringUp(p) PROVE IndexShape'
  BY <1>20, SlotsHold, SlotsKept DEF BringUp
<1>21. ASSUME NEW p \in Procs, PutIn(p) PROVE IndexShape'
  BY <1>21, SlotsHold, SlotsKept DEF PutIn, Swapped, Release
<1>22. ASSUME NEW p \in Procs, Swap(p) PROVE IndexShape'
  BY <1>22, SlotsHold, SlotsKept DEF Swap, Checking, Swapped
<1>23. ASSUME NEW p \in Procs, NEW state \in {"serving", "failed"}, StartupEnds(p, state)
      PROVE  IndexShape'
  BY <1>23, SlotsHold, SlotsKept DEF StartupEnds
<1>24. ASSUME NEW p \in Procs, Pong(p) PROVE IndexShape'
  BY <1>24, SlotsHold, SlotsKept DEF Pong
<1>25. ASSUME NEW p \in Procs, TerminatedExits(p) PROVE IndexShape'
  BY <1>25, SlotsHold, SlotsKept DEF TerminatedExits
<1>26. ASSUME NEW p \in Procs, Crash(p) PROVE IndexShape'
  BY <1>26, SlotsHold, SlotsKept DEF Crash, Fault
<1>27. ASSUME NEW p \in Procs, Hang(p) PROVE IndexShape'
  BY <1>27, SlotsHold, SlotsKept DEF Hang, Fault
<1>28. CASE UNCHANGED vars BY <1>28, SlotsHold, SlotsKept DEF vars
<1>29. QED
  BY <1>1, <1>2, <1>3, <1>4, <1>5, <1>6, <1>7, <1>8, <1>9, <1>10, <1>11, <1>12, <1>13,
     <1>14, <1>15, <1>16, <1>17, <1>18, <1>19, <1>20, <1>21, <1>22, <1>23, <1>24,
     <1>25, <1>26, <1>27, <1>28
  DEF Step

(* The supervisor holds at most one process outside the list, and none when it
   looks for a free one. *)
LEMMA ReplacementStep ==
  ASSUME ListShape, SupervisorTyped, IndexShape, ReplacementShape, Step
  PROVE  ReplacementShape'
<1> USE DEF supervisor, ReplacementShape, Holding, None
<1>1. CASE WakeUp BY <1>1, SlotsHold, SlotsKept DEF WakeUp
<1>2. CASE HandleTerm BY <1>2, SlotsHold, SlotsKept DEF HandleTerm, Handle, Dequeue
<1>3. CASE HandleHup BY <1>3, SlotsHold, SlotsKept DEF HandleHup, Handle, Dequeue
<1>4. CASE KeepLast BY <1>4, SlotsHold, SlotsKept DEF KeepLast, Handle, Dequeue
<1>5. CASE TtouJoined BY <1>5, SlotsHold, SlotsKept DEF TtouJoined, Release
<1>6. CASE SignalsHandled BY <1>6, SlotsHold, SlotsKept DEF SignalsHandled
<1>7. CASE RestartEnds BY <1>7, SlotsHold, SlotsKept DEF RestartEnds
<1>8. CASE NotReady BY <1>8, SlotsHold, SlotsKept DEF NotReady, Abandon
<1>9. CASE AskReady BY <1>9, SlotsHold, SlotsKept DEF AskReady
<1>10. CASE ReadyAnswer BY <1>10, SlotsHold, SlotsKept DEF ReadyAnswer, SaysReady
<1>11. CASE ReadyNoAnswer BY <1>11, SlotsHold, SlotsKept DEF ReadyNoAnswer
<1>12. CASE CheckEnds BY <1>12, SlotsHold, SlotsKept DEF CheckEnds, Checking
<1>13. CASE Ask BY <1>13, SlotsHold, SlotsKept DEF Ask, Checking, Healthcheck
<1>14. CASE CheckAnswer BY <1>14, SlotsHold, SlotsKept DEF CheckAnswer
<1>15. CASE TerminateAll BY <1>15, SlotsHold, SlotsKept DEF TerminateAll
<1>16. CASE AllJoined BY <1>16, SlotsHold, SlotsKept DEF AllJoined
<1>17. ASSUME NEW sig \in Signals, SignalReceived(sig) PROVE ReplacementShape'
  BY <1>17, SlotsHold, SlotsKept DEF SignalReceived
<1>18. ASSUME NEW p \in Procs, Grow(p) PROVE ReplacementShape'
  BY <1>18, SlotsHold, SlotsKept DEF Grow, Grown, Handle, Dequeue
<1>19. ASSUME NEW p \in Procs, Shrink(p) PROVE ReplacementShape'
  BY <1>19, SlotsHold, SlotsKept DEF Shrink, Shrunk, Handle, Dequeue
<1>20. ASSUME NEW p \in Procs, BringUp(p) PROVE ReplacementShape'
  BY <1>20, SlotsHold, SlotsKept DEF BringUp
<1>21. ASSUME NEW p \in Procs, PutIn(p) PROVE ReplacementShape'
  BY <1>21, SlotsHold, SlotsKept DEF PutIn, Swapped, Release
<1>22. ASSUME NEW p \in Procs, Swap(p) PROVE ReplacementShape'
  BY <1>22, SlotsHold, SlotsKept DEF Swap, Checking, Swapped
<1>23. ASSUME NEW p \in Procs, NEW state \in {"serving", "failed"}, StartupEnds(p, state)
      PROVE  ReplacementShape'
  BY <1>23, SlotsHold, SlotsKept DEF StartupEnds
<1>24. ASSUME NEW p \in Procs, Pong(p) PROVE ReplacementShape'
  BY <1>24, SlotsHold, SlotsKept DEF Pong
<1>25. ASSUME NEW p \in Procs, TerminatedExits(p) PROVE ReplacementShape'
  BY <1>25, SlotsHold, SlotsKept DEF TerminatedExits
<1>26. ASSUME NEW p \in Procs, Crash(p) PROVE ReplacementShape'
  BY <1>26, SlotsHold, SlotsKept DEF Crash, Fault
<1>27. ASSUME NEW p \in Procs, Hang(p) PROVE ReplacementShape'
  BY <1>27, SlotsHold, SlotsKept DEF Hang, Fault
<1>28. CASE UNCHANGED vars BY <1>28, SlotsHold, SlotsKept DEF vars
<1>29. QED
  BY <1>1, <1>2, <1>3, <1>4, <1>5, <1>6, <1>7, <1>8, <1>9, <1>10, <1>11, <1>12, <1>13,
     <1>14, <1>15, <1>16, <1>17, <1>18, <1>19, <1>20, <1>21, <1>22, <1>23, <1>24,
     <1>25, <1>26, <1>27, <1>28
  DEF Step

(* Every record evolves. *)
AllEvolve == /\ proc' = [p \in Procs |-> proc'[p]]
             /\ \A p \in Procs : Evolves(proc[p], proc'[p])

(* Every step makes of each process's record what Evolves allows. *)
LEMMA EvolvesStep ==
  ASSUME ListShape, SupervisorTyped,
         IndexShape, ReplacementShape, ProcsTyped, Step
  PROVE  AllEvolve
<1> USE DEF supervisor, ProcsTyped, AllEvolve, Evolves, IndexShape, ReplacementShape,
        Holding
<1>1. CASE WakeUp BY <1>1, SlotsHold DEF WakeUp
<1>2. CASE HandleTerm BY <1>2, SlotsHold DEF HandleTerm, Handle, Dequeue
<1>3. CASE HandleHup BY <1>3, SlotsHold DEF HandleHup, Handle, Dequeue
<1>4. CASE KeepLast BY <1>4, SlotsHold DEF KeepLast, Handle, Dequeue
<1>5. CASE TtouJoined BY <1>5, SlotsHold DEF TtouJoined, Release
<1>6. CASE SignalsHandled BY <1>6, SlotsHold DEF SignalsHandled
<1>7. CASE RestartEnds BY <1>7, SlotsHold DEF RestartEnds
<1>8. CASE NotReady BY <1>8, SlotsHold DEF NotReady, Abandon
<1>9. CASE AskReady BY <1>9, SlotsHold DEF AskReady
<1>10. CASE ReadyAnswer
  <2>1. PICK q \in Procs \ InSlots : replacement = {q} BY <1>10 DEF ReadyAnswer
  <2>2. processes[idx] \in InSlots /\ processes[idx] \in Procs /\ processes[idx] # q
    BY <1>10, <2>1, SlotsHold DEF ReadyAnswer
  <2> DEFINE read == [proc EXCEPT ![q].pongs = Tail(@)]
  <2>3. proc[q].pongs # <<>> BY <1>10, <2>1 DEF ReadyAnswer
  <2>4. proc' = read \/ proc' = [read EXCEPT ![processes[idx]] = Terminated(@)]
    BY <1>10, <2>1 DEF ReadyAnswer
  <2>5. \A p \in Procs \ {q} : read[p] = proc[p] OBVIOUS
  <2>6. read[q] = [proc[q] EXCEPT !.pongs = Tail(proc[q].pongs)] OBVIOUS
  <2>7. read = [p \in Procs |-> read[p]] OBVIOUS
  <2> HIDE DEF read
  <2>8. proc' = [p \in Procs |-> proc'[p]] BY <2>4, <2>7
  <2>9. /\ \A p \in Procs \ {q, processes[idx]} : proc'[p] = proc[p]
        /\ proc'[q] = [proc[q] EXCEPT !.pongs = Tail(proc[q].pongs)]
        /\ proc'[processes[idx]] \in
             {proc[processes[idx]], Terminated(proc[processes[idx]])}
    BY <2>2, <2>4, <2>5, <2>6, <2>7
  <2>10. QED BY <2>3, <2>8, <2>9
<1>11. CASE ReadyNoAnswer BY <1>11, SlotsHold DEF ReadyNoAnswer
<1>12. CASE CheckEnds BY <1>12, SlotsHold DEF CheckEnds, Checking
<1>13. CASE Ask BY <1>13, SlotsHold DEF Ask, Checking, Healthcheck
<1>14. CASE CheckAnswer BY <1>14, SlotsHold DEF CheckAnswer
<1>15. CASE TerminateAll BY <1>15, SlotsHold DEF TerminateAll
<1>16. CASE AllJoined BY <1>16, SlotsHold DEF AllJoined
<1>17. ASSUME NEW sig \in Signals, SignalReceived(sig) PROVE AllEvolve
  BY <1>17, SlotsHold DEF SignalReceived
<1>18. ASSUME NEW p \in Procs, Grow(p) PROVE AllEvolve
  BY <1>18, SlotsHold DEF Grow, Grown, Handle, Dequeue
<1>19. ASSUME NEW p \in Procs, Shrink(p) PROVE AllEvolve
  BY <1>19, SlotsHold DEF Shrink, Shrunk, Handle, Dequeue
<1>20. ASSUME NEW p \in Procs, BringUp(p) PROVE AllEvolve
  BY <1>20, SlotsHold DEF BringUp
<1>21. ASSUME NEW p \in Procs, PutIn(p) PROVE AllEvolve
  BY <1>21, SlotsHold DEF PutIn, Swapped, Release
<1>22. ASSUME NEW p \in Procs, Swap(p) PROVE AllEvolve
  BY <1>22, SlotsHold DEF Swap, Checking, Swapped
<1>23. ASSUME NEW p \in Procs, NEW state \in {"serving", "failed"}, StartupEnds(p, state)
      PROVE  AllEvolve
  BY <1>23, SlotsHold DEF StartupEnds
<1>24. ASSUME NEW p \in Procs, Pong(p) PROVE AllEvolve BY <1>24, SlotsHold DEF Pong
<1>25. ASSUME NEW p \in Procs, TerminatedExits(p) PROVE AllEvolve
  BY <1>25, SlotsHold DEF TerminatedExits
<1>26. ASSUME NEW p \in Procs, Crash(p) PROVE AllEvolve
  BY <1>26, SlotsHold DEF Crash, Fault
<1>27. ASSUME NEW p \in Procs, Hang(p) PROVE AllEvolve
  BY <1>27, SlotsHold DEF Hang, Fault
<1>28. CASE UNCHANGED vars BY <1>28, SlotsHold DEF vars
<1>29. QED
  BY <1>1, <1>2, <1>3, <1>4, <1>5, <1>6, <1>7, <1>8, <1>9, <1>10, <1>11, <1>12, <1>13,
     <1>14, <1>15, <1>16, <1>17, <1>18, <1>19, <1>20, <1>21, <1>22, <1>23, <1>24,
     <1>25, <1>26, <1>27, <1>28
  DEF Step

(* A replacement is never told to end: only workers of the list and the popped one
   are. *)
LEMMA ReplacementKeptStep ==
  ASSUME ListShape, SupervisorTyped,
         IndexShape, ReplacementShape, ProcsTyped, ReplacementKept, Step
  PROVE  ReplacementKept'
<1> USE DEF supervisor, ReplacementShape, ReplacementKept, Holding, IndexShape,
        ProcsTyped
<1>1. CASE WakeUp BY <1>1, SlotsHold, RecordFacts DEF WakeUp
<1>2. CASE HandleTerm BY <1>2, SlotsHold, RecordFacts DEF HandleTerm, Handle, Dequeue
<1>3. CASE HandleHup BY <1>3, SlotsHold, RecordFacts DEF HandleHup, Handle, Dequeue
<1>4. CASE KeepLast BY <1>4, SlotsHold, RecordFacts DEF KeepLast, Handle, Dequeue
<1>5. CASE TtouJoined BY <1>5, SlotsHold, RecordFacts DEF TtouJoined, Release
<1>6. CASE SignalsHandled BY <1>6, SlotsHold, RecordFacts DEF SignalsHandled
<1>7. CASE RestartEnds BY <1>7, SlotsHold, RecordFacts DEF RestartEnds
<1>8. CASE NotReady BY <1>8, SlotsHold, RecordFacts DEF NotReady, Abandon
<1>9. CASE AskReady BY <1>9, SlotsHold, RecordFacts DEF AskReady
<1>10. CASE ReadyAnswer
  <2>1. PICK q \in Procs \ InSlots : replacement = {q} BY <1>10 DEF ReadyAnswer
  <2>2. processes[idx] \in InSlots /\ processes[idx] \in Procs /\ processes[idx] # q
    BY <1>10, <2>1, SlotsHold DEF ReadyAnswer
  <2>3. proc'[q].terminated = proc[q].terminated BY <1>10, <2>1, <2>2 DEF ReadyAnswer, Process
  <2>4. replacement' = replacement BY <1>10 DEF ReadyAnswer
  <2>5. QED BY <1>10, <2>1, <2>3, <2>4 DEF ReadyAnswer
<1>11. CASE ReadyNoAnswer BY <1>11, SlotsHold, RecordFacts DEF ReadyNoAnswer
<1>12. CASE CheckEnds BY <1>12, SlotsHold, RecordFacts DEF CheckEnds, Checking
<1>13. CASE Ask BY <1>13, SlotsHold, RecordFacts DEF Ask, Checking, Healthcheck
<1>14. CASE CheckAnswer BY <1>14, SlotsHold, RecordFacts DEF CheckAnswer
<1>15. CASE TerminateAll BY <1>15, SlotsHold, RecordFacts DEF TerminateAll
<1>16. CASE AllJoined BY <1>16, SlotsHold, RecordFacts DEF AllJoined
<1>17. ASSUME NEW sig \in Signals, SignalReceived(sig) PROVE ReplacementKept'
  BY <1>17, SlotsHold, RecordFacts DEF SignalReceived
<1>18. ASSUME NEW p \in Procs, Grow(p) PROVE ReplacementKept'
  BY <1>18, SlotsHold, RecordFacts DEF Grow, Grown, Handle, Dequeue
<1>19. ASSUME NEW p \in Procs, Shrink(p) PROVE ReplacementKept'
  BY <1>19, SlotsHold, RecordFacts DEF Shrink, Shrunk, Handle, Dequeue
<1>20. ASSUME NEW p \in Procs, BringUp(p) PROVE ReplacementKept'
  BY <1>20, SlotsHold, RecordFacts DEF BringUp
<1>21. ASSUME NEW p \in Procs, PutIn(p) PROVE ReplacementKept'
  BY <1>21, SlotsHold, RecordFacts DEF PutIn, Swapped, Release
<1>22. ASSUME NEW p \in Procs, Swap(p) PROVE ReplacementKept'
  BY <1>22, SlotsHold, RecordFacts DEF Swap, Checking, Swapped
<1>23. ASSUME NEW p \in Procs, NEW state \in {"serving", "failed"}, StartupEnds(p, state)
      PROVE  ReplacementKept'
  BY <1>23, SlotsHold, RecordFacts DEF StartupEnds
<1>24. ASSUME NEW p \in Procs, Pong(p) PROVE ReplacementKept'
  BY <1>24, SlotsHold, RecordFacts DEF Pong
<1>25. ASSUME NEW p \in Procs, TerminatedExits(p) PROVE ReplacementKept'
  BY <1>25, SlotsHold, RecordFacts DEF TerminatedExits
<1>26. ASSUME NEW p \in Procs, Crash(p) PROVE ReplacementKept'
  BY <1>26, SlotsHold, RecordFacts DEF Crash, Fault
<1>27. ASSUME NEW p \in Procs, Hang(p) PROVE ReplacementKept'
  BY <1>27, SlotsHold, RecordFacts DEF Hang, Fault
<1>28. CASE UNCHANGED vars BY <1>28, SlotsHold, RecordFacts DEF vars
<1>29. QED
  BY <1>1, <1>2, <1>3, <1>4, <1>5, <1>6, <1>7, <1>8, <1>9, <1>10, <1>11, <1>12, <1>13,
     <1>14, <1>15, <1>16, <1>17, <1>18, <1>19, <1>20, <1>21, <1>22, <1>23, <1>24,
     <1>25, <1>26, <1>27, <1>28
  DEF Step

(* The records stay records, and their answers true. *)
LEMMA ProcsStep ==
  ASSUME ListShape, SupervisorTyped, IndexShape, ReplacementShape, ProcsTyped,
         AnswersTrue, Step
  PROVE  ProcsTyped' /\ AnswersTrue'
<1>1. AllEvolve BY EvolvesStep
<1>2. ASSUME NEW p \in Procs PROVE proc'[p] \in Process /\ Truthful(proc'[p])
  BY <1>1, EvolvesType, EvolvesTruthful DEF AllEvolve, ProcsTyped, AnswersTrue
<1>3. QED BY <1>1, <1>2 DEF AllEvolve, ProcsTyped, AnswersTrue

(* No step loses a live process: one that leaves the list or is no longer held has
   ended or was killed. *)
LEMMA OrphansStep ==
  ASSUME ListShape, SupervisorTyped,
         IndexShape, ReplacementShape, ProcsTyped, NoOrphans, Step
  PROVE  NoOrphans'
<1> USE DEF supervisor, NoOrphans, ProcsTyped, IndexShape, ReplacementShape, Holding,
        Alive, Held, None
<1>1. CASE WakeUp BY <1>1, SlotsHold, SlotsKept, RecordFacts DEF WakeUp
<1>2. CASE HandleTerm
  BY <1>2, SlotsHold, SlotsKept, RecordFacts DEF HandleTerm, Handle, Dequeue
<1>3. CASE HandleHup
  BY <1>3, SlotsHold, SlotsKept, RecordFacts DEF HandleHup, Handle, Dequeue
<1>4. CASE KeepLast
  BY <1>4, SlotsHold, SlotsKept, RecordFacts DEF KeepLast, Handle, Dequeue
<1>5. CASE TtouJoined BY <1>5, SlotsHold, SlotsKept, RecordFacts DEF TtouJoined, Release
<1>6. CASE SignalsHandled BY <1>6, SlotsHold, SlotsKept, RecordFacts DEF SignalsHandled
<1>7. CASE RestartEnds BY <1>7, SlotsHold, SlotsKept, RecordFacts DEF RestartEnds
<1>8. CASE NotReady BY <1>8, SlotsHold, SlotsKept, RecordFacts DEF NotReady, Abandon
<1>9. CASE AskReady BY <1>9, SlotsHold, SlotsKept, RecordFacts DEF AskReady
<1>10. CASE ReadyAnswer
  <2>1. PICK q \in Procs \ InSlots : replacement = {q} BY <1>10 DEF ReadyAnswer
  <2>2. processes[idx] \in InSlots /\ processes[idx] \in Procs /\ processes[idx] # q
    BY <1>10, <2>1, SlotsHold DEF ReadyAnswer
  <2>3. \A p \in Procs : proc'[p].state = proc[p].state
    <3>1. ASSUME NEW p \in Procs \ {q, processes[idx]} PROVE proc'[p] = proc[p]
      BY <1>10, <2>1, <2>2 DEF ReadyAnswer
    <3>2. proc'[q].state = proc[q].state BY <1>10, <2>1, <2>2 DEF ReadyAnswer, Process
    <3>3. \/ proc'[processes[idx]] = proc[processes[idx]]
          \/ proc'[processes[idx]] = Terminated(proc[processes[idx]])
      BY <1>10, <2>1, <2>2 DEF ReadyAnswer
    <3>4. QED BY <3>1, <3>2, <3>3, RecordFacts
  <2>4. Held' = Held /\ pc' # "stopped" BY <1>10, SlotsKept DEF ReadyAnswer
  <2>5. QED BY <2>3, <2>4
<1>11. CASE ReadyNoAnswer BY <1>11, SlotsHold, SlotsKept, RecordFacts DEF ReadyNoAnswer
<1>12. CASE CheckEnds
  BY <1>12, SlotsHold, SlotsKept, RecordFacts DEF CheckEnds, Checking
<1>13. CASE Ask
  BY <1>13, SlotsHold, SlotsKept, RecordFacts DEF Ask, Checking, Healthcheck
<1>14. CASE CheckAnswer BY <1>14, SlotsHold, SlotsKept, RecordFacts DEF CheckAnswer
<1>15. CASE TerminateAll BY <1>15, SlotsHold, SlotsKept, RecordFacts DEF TerminateAll
<1>16. CASE AllJoined BY <1>16, SlotsHold, SlotsKept, RecordFacts DEF AllJoined
<1>17. ASSUME NEW sig \in Signals, SignalReceived(sig) PROVE NoOrphans'
  BY <1>17, SlotsHold, SlotsKept, RecordFacts DEF SignalReceived
<1>18. ASSUME NEW p \in Procs, Grow(p) PROVE NoOrphans'
  BY <1>18, SlotsHold, SlotsKept, RecordFacts DEF Grow, Grown, Handle, Dequeue
<1>19. ASSUME NEW p \in Procs, Shrink(p) PROVE NoOrphans'
  BY <1>19, SlotsHold, SlotsKept, RecordFacts DEF Shrink, Shrunk, Handle, Dequeue
<1>20. ASSUME NEW p \in Procs, BringUp(p) PROVE NoOrphans'
  BY <1>20, SlotsHold, SlotsKept, RecordFacts DEF BringUp
<1>21. ASSUME NEW p \in Procs, PutIn(p) PROVE NoOrphans'
  BY <1>21, SlotsHold, SlotsKept, RecordFacts DEF PutIn, Swapped, Release
<1>22. ASSUME NEW p \in Procs, Swap(p) PROVE NoOrphans'
  BY <1>22, SlotsHold, SlotsKept, RecordFacts DEF Swap, Checking, Swapped
<1>23. ASSUME NEW p \in Procs, NEW state \in {"serving", "failed"}, StartupEnds(p, state)
      PROVE  NoOrphans'
  BY <1>23, SlotsHold, SlotsKept, RecordFacts DEF StartupEnds
<1>24. ASSUME NEW p \in Procs, Pong(p) PROVE NoOrphans'
  BY <1>24, SlotsHold, SlotsKept, RecordFacts DEF Pong
<1>25. ASSUME NEW p \in Procs, TerminatedExits(p) PROVE NoOrphans'
  BY <1>25, SlotsHold, SlotsKept, RecordFacts DEF TerminatedExits
<1>26. ASSUME NEW p \in Procs, Crash(p) PROVE NoOrphans'
  BY <1>26, SlotsHold, SlotsKept, RecordFacts DEF Crash, Fault
<1>27. ASSUME NEW p \in Procs, Hang(p) PROVE NoOrphans'
  BY <1>27, SlotsHold, SlotsKept, RecordFacts DEF Hang, Fault
<1>28. CASE UNCHANGED vars
  BY <1>28, SlotsHold, SlotsKept, RecordFacts DEF vars
<1>29. QED
  BY <1>1, <1>2, <1>3, <1>4, <1>5, <1>6, <1>7, <1>8, <1>9, <1>10, <1>11, <1>12, <1>13,
     <1>14, <1>15, <1>16, <1>17, <1>18, <1>19, <1>20, <1>21, <1>22, <1>23, <1>24,
     <1>25, <1>26, <1>27, <1>28
  DEF Step

(* A worker is told to end only in restart_all, once an answer says that its
   replacement has started, and the replacement is in its slot before the next. *)
LEMMA RetiredStep ==
  ASSUME ListShape, SupervisorTyped,
         IndexShape, ReplacementShape, ProcsTyped, AnswersTrue,
         ReplacementKept, RetiredOnlyWhenReplaced, Step
  PROVE  RetiredOnlyWhenReplaced'
<1> USE DEF supervisor, RetiredOnlyWhenReplaced, ProcsTyped, IndexShape,
        ReplacementShape, Holding, AnswersTrue, Truthful, ReplacementKept
<1>1. CASE WakeUp BY <1>1, SlotsHold, SlotsKept, RecordFacts DEF WakeUp
<1>2. CASE HandleTerm
  BY <1>2, SlotsHold, SlotsKept, RecordFacts DEF HandleTerm, Handle, Dequeue
<1>3. CASE HandleHup
  BY <1>3, SlotsHold, SlotsKept, RecordFacts DEF HandleHup, Handle, Dequeue
<1>4. CASE KeepLast
  BY <1>4, SlotsHold, SlotsKept, RecordFacts DEF KeepLast, Handle, Dequeue
<1>5. CASE TtouJoined BY <1>5, SlotsHold, SlotsKept, RecordFacts DEF TtouJoined, Release
<1>6. CASE SignalsHandled BY <1>6, SlotsHold, SlotsKept, RecordFacts DEF SignalsHandled
<1>7. CASE RestartEnds BY <1>7, SlotsHold, SlotsKept, RecordFacts DEF RestartEnds
<1>8. CASE NotReady BY <1>8, SlotsHold, SlotsKept, RecordFacts DEF NotReady, Abandon
<1>9. CASE AskReady BY <1>9, SlotsHold, SlotsKept, RecordFacts DEF AskReady
<1>10. CASE ReadyAnswer
  <2>1. PICK q \in Procs \ InSlots : replacement = {q} BY <1>10 DEF ReadyAnswer
  <2>2. processes[idx] \in InSlots /\ processes[idx] \in Procs /\ processes[idx] # q
    BY <1>10, <2>1, SlotsHold DEF ReadyAnswer
  <2>3. CASE SaysReady(Head(proc[q].pongs))
    <3>1. /\ pc' = "restart_join" /\ idx' = idx
          /\ UNCHANGED <<processes, should_exit, replacement>>
      BY <1>10, <2>1, <2>3 DEF ReadyAnswer
    <3>2. proc[q].state # "starting"
      <4>1. proc[q].pongs # <<>> BY <1>10, <2>1 DEF ReadyAnswer
      <4>2. proc[q].pongs \in Seq(BOOLEAN) BY DEF Process
      <4>3. 1 \in 1..Len(proc[q].pongs) /\ Head(proc[q].pongs) = proc[q].pongs[1]
        BY <4>1, <4>2
      <4>4. proc[q].pongs[1] BY <2>3, <4>3, Zenon DEF SaysReady
      <4>5. QED BY <4>3, <4>4
    <3>3. proc'[q].state = proc[q].state BY <1>10, <2>1, <2>2 DEF ReadyAnswer, Process
    <3>4. \A p \in Procs \ {q, processes[idx]} : proc'[p] = proc[p]
      BY <1>10, <2>1, <2>2 DEF ReadyAnswer
    <3>5. SUFFICES ASSUME ~should_exit, NEW i \in DOMAIN processes,
                          proc'[processes[i]].terminated
                   PROVE  i = idx
      BY <2>1, <3>1, <3>2, <3>3
    <3>6. processes[i] \in InSlots /\ ~proc[processes[i]].terminated
      BY <1>10, <3>5, SlotsHold DEF ReadyAnswer
    <3>7. processes[i] = processes[idx] BY <2>1, <3>4, <3>5, <3>6, SlotsHold
    <3>8. idx \in 1..Len(processes) BY <1>10, SlotsHold DEF ReadyAnswer
    <3>9. QED BY <3>5, <3>7, <3>8, SlotsHold DEF ListShape, Distinct
  <2>4. CASE ~SaysReady(Head(proc[q].pongs))
    <3>1. /\ pc' = "ready" /\ UNCHANGED <<processes, should_exit>>
          /\ proc' = [proc EXCEPT ![q].pongs = Tail(@)]
      BY <1>10, <2>1, <2>4 DEF ReadyAnswer
    <3>2. \A p \in Procs : proc'[p].terminated = proc[p].terminated
      BY <3>1 DEF Process
    <3>3. QED BY <1>10, <3>1, <3>2, SlotsHold DEF ReadyAnswer
  <2>5. QED BY <2>3, <2>4
<1>11. CASE ReadyNoAnswer BY <1>11, SlotsHold, SlotsKept, RecordFacts DEF ReadyNoAnswer
<1>12. CASE CheckEnds
  <2>1. ~should_exit' => ~should_exit BY <1>12 DEF CheckEnds
  <2>2. pc # "restart_join" /\ UNCHANGED <<processes, proc>>
    BY <1>12 DEF CheckEnds, Checking
  <2>3. QED BY <2>1, <2>2
<1>13. CASE Ask
  BY <1>13, SlotsHold, SlotsKept, RecordFacts DEF Ask, Checking, Healthcheck
<1>14. CASE CheckAnswer BY <1>14, SlotsHold, SlotsKept, RecordFacts DEF CheckAnswer
<1>15. CASE TerminateAll BY <1>15, SlotsHold, SlotsKept, RecordFacts DEF TerminateAll
<1>16. CASE AllJoined BY <1>16, SlotsHold, SlotsKept, RecordFacts DEF AllJoined
<1>17. ASSUME NEW sig \in Signals, SignalReceived(sig) PROVE RetiredOnlyWhenReplaced'
  BY <1>17, SlotsHold, SlotsKept, RecordFacts DEF SignalReceived
<1>18. ASSUME NEW p \in Procs, Grow(p) PROVE RetiredOnlyWhenReplaced'
  BY <1>18, SlotsHold, SlotsKept, RecordFacts DEF Grow, Grown, Handle, Dequeue
<1>19. ASSUME NEW p \in Procs, Shrink(p) PROVE RetiredOnlyWhenReplaced'
  <2>1. DOMAIN processes' = 1..Len(processes')
    BY <1>19, LenProperties DEF Shrink, Shrunk
  <2>2. SUFFICES ASSUME ~should_exit, NEW i \in 1..Len(processes')
                 PROVE  ~proc'[processes'[i]].terminated
    BY <1>19, <2>1 DEF Shrink, Shrunk
  <2>3. processes'[i] = processes[i] /\ i \in 1..Len(processes)
    BY <1>19, SlotsHold DEF Shrink, Shrunk
  <2>4. processes[i] # p
    <3>1. processes'[i] \in InSlots' BY <2>1 DEF InSlots
    <3>2. QED BY <1>19, <2>3, <3>1 DEF Shrink, Shrunk
  <2>5. proc'[processes[i]] = proc[processes[i]] BY <1>19, <2>3, <2>4, SlotsHold DEF Shrink
  <2>6. QED BY <1>19, <2>2, <2>3, <2>5, SlotsHold DEF Shrink, Handle
<1>20. ASSUME NEW p \in Procs, BringUp(p) PROVE RetiredOnlyWhenReplaced'
  BY <1>20, SlotsHold, SlotsKept, RecordFacts DEF BringUp
<1>21. ASSUME NEW p \in Procs, PutIn(p) PROVE RetiredOnlyWhenReplaced'
  <2>1. DOMAIN processes' = 1..Len(processes')
    BY <1>21, LenProperties DEF PutIn, Swapped
  <2>2. SUFFICES ASSUME ~should_exit, NEW i \in 1..Len(processes')
                 PROVE  ~proc'[processes'[i]].terminated
    BY <1>21, <2>1 DEF PutIn, Swapped
  <2>3. i \in 1..Len(processes) BY <1>21 DEF PutIn, Swapped
  <2>4. CASE i = idx
    <3>1. processes'[i] = p /\ proc'[p] \in {proc[p], Gone}
      BY <1>21, <2>3, <2>4 DEF PutIn, Swapped, Release
    <3>2. ~proc[p].terminated BY <1>21 DEF PutIn
    <3>3. QED BY <3>1, <3>2, RecordFacts
  <2>5. CASE i # idx
    <3>1. processes'[i] = processes[i] BY <1>21, <2>3, <2>5 DEF PutIn, Swapped
    <3>2. ~proc[processes[i]].terminated BY <1>21, <2>2, <2>3, <2>5, SlotsHold DEF PutIn
    <3>3. proc'[processes[i]] \in {proc[processes[i]], Gone}
      BY <1>21, <2>3, SlotsHold DEF PutIn, Release
    <3>4. QED BY <3>1, <3>2, <3>3, RecordFacts
  <2>6. QED BY <2>4, <2>5
<1>22. ASSUME NEW p \in Procs, Swap(p) PROVE RetiredOnlyWhenReplaced'
  <2>1. DOMAIN processes' = 1..Len(processes')
    BY <1>22, LenProperties DEF Swap, Swapped
  <2>2. SUFFICES ASSUME ~should_exit, NEW i \in 1..Len(processes')
                 PROVE  ~proc'[processes'[i]].terminated
    BY <1>22, <2>1 DEF Swap, Swapped
  <2>3. i \in 1..Len(processes) BY <1>22 DEF Swap, Swapped
  <2>4. CASE i = idx
    <3>1. processes'[i] = p /\ proc'[p] = Started
      BY <1>22, <2>3, <2>4 DEF Swap, Swapped
    <3>2. QED BY <3>1, RecordFacts
  <2>5. CASE i # idx
    <3>1. processes'[i] = processes[i] BY <1>22, <2>3, <2>5 DEF Swap, Swapped
    <3>2. idx \in 1..Len(processes) BY <1>22, SlotsHold DEF Swap
    <3>3. processes[i] # processes[idx] BY <2>3, <2>5, <3>2 DEF ListShape, Distinct
    <3>4. processes[i] # p BY <1>22, <2>3, SlotsHold DEF Swap
    <3>5. proc'[processes[i]] = proc[processes[i]]
      BY <1>22, <2>3, <3>3, <3>4, SlotsHold DEF Swap
    <3>6. ~proc[processes[i]].terminated
      BY <1>22, <2>2, <2>3, SlotsHold DEF Swap, Checking
    <3>7. QED BY <3>1, <3>5, <3>6
  <2>6. QED BY <2>4, <2>5
<1>23. ASSUME NEW p \in Procs, NEW state \in {"serving", "failed"}, StartupEnds(p, state)
      PROVE  RetiredOnlyWhenReplaced'
  BY <1>23, SlotsHold, SlotsKept, RecordFacts DEF StartupEnds
<1>24. ASSUME NEW p \in Procs, Pong(p) PROVE RetiredOnlyWhenReplaced'
  BY <1>24, SlotsHold, SlotsKept, RecordFacts DEF Pong
<1>25. ASSUME NEW p \in Procs, TerminatedExits(p) PROVE RetiredOnlyWhenReplaced'
  BY <1>25, SlotsHold, SlotsKept, RecordFacts DEF TerminatedExits
<1>26. ASSUME NEW p \in Procs, Crash(p) PROVE RetiredOnlyWhenReplaced'
  BY <1>26, SlotsHold, SlotsKept, RecordFacts DEF Crash, Fault
<1>27. ASSUME NEW p \in Procs, Hang(p) PROVE RetiredOnlyWhenReplaced'
  BY <1>27, SlotsHold, SlotsKept, RecordFacts DEF Hang, Fault
<1>28. CASE UNCHANGED vars
  BY <1>28, SlotsHold, SlotsKept, RecordFacts DEF vars
<1>29. QED
  BY <1>1, <1>2, <1>3, <1>4, <1>5, <1>6, <1>7, <1>8, <1>9, <1>10, <1>11, <1>12, <1>13,
     <1>14, <1>15, <1>16, <1>17, <1>18, <1>19, <1>20, <1>21, <1>22, <1>23, <1>24,
     <1>25, <1>26, <1>27, <1>28
  DEF Step

-----------------------------------------------------------------------------
(* The invariants. *)

(* The supervisor starts with its workers and nothing else. *)
LEMMA InitInv ==
  ASSUME Init
  PROVE  IInv
<1> USE DEF Init
<1>1. /\ processes \in Seq(Procs) /\ Len(processes) = Workers
      /\ \A i \in 1..Workers : processes[i] = i
      /\ DOMAIN processes = 1..Workers
  BY MultiprocessAssumption DEF Procs
<1>2. signal_queue \in Seq(Signals) /\ Len(signal_queue) = 0 BY EmptySeq
<1>3. ListShape BY <1>1, <1>2, MultiprocessAssumption DEF ListShape, Distinct
<1>4. SupervisorTyped
  <2>1. /\ signal_queue \in Seq(Signals) /\ todo \in 0..Len(signal_queue)
        /\ attempts \in 0..MaxPings
        /\ received \in 0..MaxSignals /\ faults \in 0..MaxFaults
    BY <1>2, MultiprocessAssumption
  <2>2. pc \in Pcs /\ should_exit \in BOOLEAN BY DEF Pcs
  <2>3. QED BY <2>1, <2>2 DEF SupervisorTyped
<1>5. IndexShape BY <1>1, MultiprocessAssumption DEF IndexShape
<1>6. ReplacementShape BY DEF ReplacementShape, Holding
<1>7. InSlots = 1..Workers BY <1>1 DEF InSlots
<1>8. \A p \in Procs : proc[p] = IF p \in 1..Workers THEN Started ELSE Gone OBVIOUS
<1>9. ProcsTyped BY RecordTypes DEF ProcsTyped
<1>10. AnswersTrue BY <1>8, RecordFacts DEF AnswersTrue, Truthful
<1>11. ReplacementKept BY DEF ReplacementKept
<1>12. NoOrphans BY <1>7, <1>8, RecordFacts DEF NoOrphans, Alive, Held, None
<1>13. RetiredOnlyWhenReplaced
  BY <1>1, <1>8, <1>9, RecordFacts, MultiprocessAssumption
  DEF RetiredOnlyWhenReplaced, Procs
<1>14. QED BY <1>3, <1>4, <1>5, <1>6, <1>9, <1>10, <1>11, <1>12, <1>13 DEF IInv

(* The invariant is inductive: each of its parts is kept by every step. *)
LEMMA StepInv ==
  ASSUME IInv, [Next]_vars
  PROVE  IInv'
<1>1. Step
  <2>1. CASE Next BY <2>1, NextIsStep DEF IInv
  <2>2. CASE UNCHANGED vars BY <2>2 DEF Step
  <2>3. QED BY <2>1, <2>2
<1>2. ListShape' /\ SupervisorTyped' BY <1>1, ListStep, SupervisorTypedStep DEF IInv
<1>3. IndexShape' /\ ReplacementShape' BY <1>1, IndexStep, ReplacementStep DEF IInv
<1>4. ProcsTyped' /\ AnswersTrue' BY <1>1, ProcsStep DEF IInv
<1>5. ReplacementKept' BY <1>1, ReplacementKeptStep DEF IInv
<1>6. NoOrphans' /\ RetiredOnlyWhenReplaced' BY <1>1, OrphansStep, RetiredStep DEF IInv
<1>7. QED BY <1>2, <1>3, <1>4, <1>5, <1>6 DEF IInv

(* IInv holds in every state of every behaviour of the supervisor. *)
THEOREM Invariance == Spec => []IInv
<1>1. Init => IInv BY InitInv
<1>2. IInv /\ [Next]_vars => IInv' BY StepInv
<1>3. QED BY <1>1, <1>2, PTL DEF Spec

(* Every variable keeps its type; no process is in the list twice, and there are
   always as many workers as announced, at least one. *)
THEOREM TypeCorrect == Spec => []TypeOK
<1>1. ASSUME IInv PROVE TypeOK
  <2> USE <1>1 DEF IInv
  <2>1. Cardinality(InSlots) = Len(processes)
    BY DistinctCount DEF ListShape, InSlots, Elements
  <2>2. replacement \in {None} \union {{p} : p \in Procs \ InSlots}
    BY DEF ReplacementShape
  <2>3. QED BY <2>1, <2>2
    DEF ListShape, SupervisorTyped, IndexShape, ProcsTyped, TypeOK
<1>2. QED BY <1>1, Invariance, PTL

(* No worker runs that the supervisor has lost, and none when it has stopped. *)
THEOREM LeavesNoOrphans == Spec => []NoOrphans
<1>1. IInv => NoOrphans BY DEF IInv
<1>2. QED BY <1>1, Invariance, PTL

(* While the supervisor is not stopping, a worker is told to end only when its
   replacement has finished its startup. *)
THEOREM RestartKeepsCapacity == Spec => []RetiredOnlyWhenReplaced
<1>1. IInv => RetiredOnlyWhenReplaced BY DEF IInv
<1>2. QED BY <1>1, Invariance, PTL
====
