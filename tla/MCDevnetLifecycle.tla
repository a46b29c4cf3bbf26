------------------------- MODULE MCDevnetLifecycle -------------------------
(* DevnetLifecycle on a small instance: the workers are interchangeable.     *)
EXTENDS DevnetLifecycle, TLC
=============================================================================
