------------------------- MODULE WebSocketLifecycle -------------------------
(***************************************************************************)
(* What a WebSocket connection of uvicorn promises its client, whichever   *)
(* library is under it: the opening handshake is answered at most once, by *)
(* an acceptance or by a denial; messages are taken in before and while    *)
(* the connection is accepted, never once a close frame was sent; and a    *)
(* close frame or a closed transport is never taken back.                  *)
(***************************************************************************)
EXTENDS Naturals

VARIABLES
  phase,   \* handshake, accepted, denying, closing (a close frame was sent), closed
  heard    \* messages of the client put into the application's queue

vars == <<phase, heard>>

Init == phase = "handshake" /\ heard = 0

Answer == phase = "handshake" /\ phase' \in {"accepted", "denying"} /\ UNCHANGED heard

Hear ==
  /\ phase \in {"handshake", "denying", "accepted"}
  /\ heard' = heard + 1
  /\ UNCHANGED phase

StartClosing == phase = "accepted" /\ phase' = "closing" /\ UNCHANGED heard

Close == phase # "closed" /\ phase' = "closed" /\ UNCHANGED heard

Next == Answer \/ Hear \/ StartClosing \/ Close

Spec == Init /\ [][Next]_vars
=============================================================================
