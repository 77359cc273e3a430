------------------------------ MODULE MCClient ------------------------------
(* Instances of WebSocket, and of the Client in it, for TLC. *)
EXTENDS WebSocket, TLC

=============================================================================
