------------------------------ MODULE MCServer ------------------------------
(* The instance of Server that TLC checks: requests arrive on the first connection;
   the second is one of a WebSocket, or that waits, or that comes late. *)
EXTENDS Server
CONSTANTS c1, c2
TwoConns == {c1, c2}
TwoOnFirst == [c \in TwoConns |-> IF c = c1 THEN 2 ELSE 0]
=============================================================================
