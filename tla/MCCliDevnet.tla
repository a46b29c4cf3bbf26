----------------------------- MODULE MCCliDevnet -----------------------------
(* Instances of CliDevnet for TLC: see MCCliDevnet.cfg.                      *)
EXTENDS CliDevnet
=============================================================================
