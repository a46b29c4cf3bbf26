--------------------------- MODULE AtomicResource ---------------------------
(***************************************************************************)
(* What the resource store promises its callers about one resource:        *)
(* creating it, deleting it and editing it are atomic, and an edit once    *)
(* acknowledged stays in the resource until the resource is deleted.       *)
(***************************************************************************)
CONSTANT Edits

VARIABLES exists, edits

vars == <<exists, edits>>

Init == exists = FALSE /\ edits = {}

Create == ~exists /\ exists' = TRUE /\ edits' = {}

Apply(e) ==
  /\ exists
  /\ e \notin edits
  /\ edits' = edits \cup {e}
  /\ UNCHANGED exists

Delete == exists /\ exists' = FALSE /\ edits' = {}

Next == Create \/ Delete \/ \E e \in Edits : Apply(e)

Spec == Init /\ [][Next]_vars
=============================================================================
