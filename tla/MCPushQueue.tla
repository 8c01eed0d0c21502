---------------------------- MODULE MCPushQueue ----------------------------
(* Small instances of PushQueue for TLC. *)
EXTENDS PushQueue
=============================================================================
