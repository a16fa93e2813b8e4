----------------------------- MODULE Pipelining -----------------------------
(***************************************************************************)
(* What one HTTP/1.1 connection promises about the requests a client       *)
(* pipelines on it (docs/server-behavior.md, "HTTP Pipelining"): they are  *)
(* processed one at a time, in the order they arrived, the next one starts *)
(* the moment its predecessor is answered, and once the connection is      *)
(* closing no further request is started.                                  *)
(*                                                                         *)
(* The abstraction counts requests; a protocol implements it when its own  *)
(* counters of requests seen, started and answered move as these do.       *)
(***************************************************************************)
EXTENDS Naturals, TLAPS

VARIABLES
  arrived,   \* requests whose head has been parsed
  begun,     \* requests handed to the application, in arrival order
  finished,  \* requests whose response is complete
  open       \* FALSE once the transport is closing

vars == <<arrived, begun, finished, open>>

Init == arrived = 0 /\ begun = 0 /\ finished = 0 /\ open = TRUE

(* A request arrives: it starts at once iff everything before it is answered. *)
Arrive ==
  /\ open
  /\ arrived' = arrived + 1
  /\ begun' = IF finished = arrived THEN begun + 1 ELSE begun
  /\ UNCHANGED <<finished, open>>

(* The request in progress is answered and the connection stays: the next
   request waiting, if there is one, starts in the same step. *)
FinishAndContinue ==
  /\ open /\ finished < begun
  /\ finished' = finished + 1
  /\ begun' = IF begun < arrived THEN begun + 1 ELSE begun
  /\ UNCHANGED <<arrived, open>>

(* The request in progress is answered on a connection that is closing, or
   whose last response this was: nothing waiting is started. *)
FinishAndClose ==
  /\ finished < begun
  /\ finished' = finished + 1
  /\ open' = FALSE
  /\ UNCHANGED <<arrived, begun>>

Close == open /\ open' = FALSE /\ UNCHANGED <<arrived, begun, finished>>

Next == Arrive \/ FinishAndContinue \/ FinishAndClose \/ Close

Spec == Init /\ [][Next]_vars

TypeOK == /\ arrived \in Nat /\ begun \in Nat /\ finished \in Nat
          /\ open \in BOOLEAN

(* At most one request is in progress. *)
OneAtATime == begun \in {finished, finished + 1}

(* While the connection is open, no request waits unless one is in progress. *)
WorkConserving == open /\ finished < arrived => begun = finished + 1

-----------------------------------------------------------------------------
(* What makes both inductive: requests are answered only once begun, and begun
   only once arrived. *)
Accounted == begun <= arrived /\ OneAtATime /\ WorkConserving /\ TypeOK

(* A request that arrives is begun exactly when none is in progress, and one that
   is answered hands its place to the first one waiting. *)
LEMMA WhileOpen ==
  ASSUME Accounted, Arrive \/ FinishAndContinue
  PROVE  Accounted'
<1> USE DEF Accounted, OneAtATime, WorkConserving, TypeOK
<1>arrives. ASSUME Arrive PROVE Accounted' BY <1>arrives DEF Arrive
<1>answered. ASSUME FinishAndContinue PROVE Accounted'
  <2>1. arrived' = arrived /\ finished' = begun
    BY <1>answered DEF FinishAndContinue
  <2>2. begun' \in {begun, begun + 1} /\ (begun' = begun => begun = arrived)
    BY <1>answered DEF FinishAndContinue
  <2>3. open' = open /\ begun' <= arrived BY <1>answered DEF FinishAndContinue
  <2>4. QED BY <2>1, <2>2, <2>3
<1> QED BY <1>arrives, <1>answered

(* On a connection that closes nothing more is begun, so that the request in
   progress is the last one and those behind it are owed nothing. *)
LEMMA OnceClosing ==
  ASSUME Accounted, FinishAndClose \/ Close
  PROVE  Accounted'
<1>shut. open' \in BOOLEAN /\ ~open' BY DEF FinishAndClose, Close
<1>begun. arrived' = arrived /\ begun' = begun BY DEF FinishAndClose, Close
<1>answered. finished' \in Nat /\ begun \in {finished', finished' + 1}
  BY DEF FinishAndClose, Close, Accounted, OneAtATime, TypeOK
<1> QED
  BY <1>shut, <1>begun, <1>answered DEF Accounted, OneAtATime, WorkConserving, TypeOK

(* At every moment at most one request of the connection is in progress, and while
   the connection is open a request waits only behind one that is (docs/
   server-behavior.md, "HTTP Pipelining"). *)
THEOREM Promises == Spec => [](OneAtATime /\ WorkConserving)
<1>start. Init => Accounted
  BY DEF Init, Accounted, OneAtATime, WorkConserving, TypeOK
<1>idle. Accounted /\ UNCHANGED vars => Accounted'
  BY DEF vars, Accounted, OneAtATime, WorkConserving, TypeOK
<1>keep. Accounted /\ [Next]_vars => Accounted'
  BY <1>idle, WhileOpen, OnceClosing DEF Next
<1>promise. Accounted => OneAtATime /\ WorkConserving BY DEF Accounted
<1> QED BY <1>start, <1>keep, <1>promise, PTL DEF Spec
=============================================================================
