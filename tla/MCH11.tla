------------------------------- MODULE MCH11 -------------------------------
(* Model-checking instances of H11Connection: one connection, a few pipelined
   requests, bodies of a few units. *)
EXTENDS H11Connection

AnyFlag == BOOLEAN
=============================================================================
