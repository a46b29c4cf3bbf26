---------------------------- MODULE MCWorkQueue ----------------------------
(* Instances of WorkQueue for TLC: more workers than keys, so that some sleep. *)
EXTENDS WorkQueue
=============================================================================
