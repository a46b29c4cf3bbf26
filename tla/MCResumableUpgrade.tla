------------------------- MODULE MCResumableUpgrade -------------------------
(* ResumableUpgrade on a small instance.                                     *)
EXTENDS ResumableUpgrade
=============================================================================
