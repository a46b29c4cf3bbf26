-------------------------- MODULE MCProcessRuntime --------------------------
(* Instances of ProcessRuntime for TLC: two supervisors, so that one can be  *)
(* dropped, stopped or orphaned while another serves the same node.          *)
EXTENDS ProcessRuntime
=============================================================================
