-------------------------------- MODULE MCH2 --------------------------------
(* Model-checking instances of H2Connection: one connection, two streams. *)
EXTENDS H2Connection
=============================================================================
