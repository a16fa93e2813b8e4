---------------------------- MODULE MCHttpTools ----------------------------
(* Model-checking instances of HttpToolsConnection: one connection, a few
   pipelined requests, bodies of a few units. *)
EXTENDS HttpToolsConnection

AnyFlag == BOOLEAN
OnlyTrue == {TRUE}
OnlyFalse == {FALSE}
=============================================================================
