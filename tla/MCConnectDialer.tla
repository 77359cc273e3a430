-------------------------- MODULE MCConnectDialer --------------------------
(* Instances of ConnectDialer for TLC. *)
EXTENDS ConnectDialer, TLC

=============================================================================
