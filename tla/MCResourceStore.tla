--------------------------- MODULE MCResourceStore ---------------------------
(* Instances of ResourceStore for TLC: clients whose copies go stale by each   *)
(* other's updates.                                                            *)
EXTENDS ResourceStore
=============================================================================
