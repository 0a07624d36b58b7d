---------------------------- MODULE MCReconnect ----------------------------
(* Instance of Reconnect for TLC, with the delays of the code.             *)
EXTENDS Reconnect
=============================================================================
