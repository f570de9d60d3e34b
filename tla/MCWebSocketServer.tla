-------------------------- MODULE MCWebSocketServer --------------------------
(* Instances of WebSocketServer for TLC. *)
EXTENDS WebSocketServer
=============================================================================
