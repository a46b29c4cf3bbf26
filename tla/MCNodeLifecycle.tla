--------------------------- MODULE MCNodeLifecycle ---------------------------
(* Instances of NodeLifecycle for TLC. *)
EXTENDS NodeLifecycle

NoCommands == {}
=============================================================================
