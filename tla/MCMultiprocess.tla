--------------------------- MODULE MCMultiprocess ---------------------------
(* The instance of Multiprocess that TLC checks. *)
EXTENDS Multiprocess
=============================================================================
