--------------------------- MODULE MCProvisionLogs ---------------------------
(* ProvisionLogs on a small instance.                                        *)
EXTENDS ProvisionLogs
=============================================================================
