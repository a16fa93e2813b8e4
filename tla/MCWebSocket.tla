---------------------------- MODULE MCWebSocket ----------------------------
(* One WebSocket connection over either library: the specifications of
   WebSocketsSansIO and Wsproto side by side, so that every property of
   WebSocketBase is checked of both. *)
EXTENDS WebSocketBase

VARIABLE library   \* which protocol class the server was configured with

S == INSTANCE WebSocketsSansIO
W == INSTANCE Wsproto

MCInit == Init /\ library \in {"websockets", "wsproto"}

MCNext ==
  /\ \/ Common
     \/ library = "websockets" /\ S!Handlers
     \/ library = "wsproto" /\ W!Handlers
  /\ UNCHANGED library

MCSpec == MCInit /\ [][MCNext]_<<vars, library>> /\ Fairness
=============================================================================
