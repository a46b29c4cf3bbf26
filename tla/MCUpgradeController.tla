------------------------ MODULE MCUpgradeController ------------------------
(* UpgradeController on a small instance.                                    *)
EXTENDS UpgradeController
=============================================================================
