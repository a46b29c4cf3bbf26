--------------------------- MODULE ResourceStore ---------------------------
(***************************************************************************)
(* One resource in the daemon's store (internal/daemon/store): a devnet, a *)
(* node or an upgrade, whose updates compare generations, or a             *)
(* transaction, whose updates do not.  Every store call is one bbolt       *)
(* transaction and so one step.  The controllers and the API services are  *)
(* its clients: each reads the resource, changes its own copy and writes   *)
(* the copy back, with steps of the others in between.                     *)
(*                                                                         *)
(* The content of a resource is the set of edits made to it.               *)
(***************************************************************************)
EXTENDS Integers

CONSTANTS
  Clients,          \* goroutines that use the resource
  Edits,            \* edits; each is made once, which bounds the updates
  Keepers,          \* clients that only log a failed write and go on with their copy
                    \* (the progress callback of the devnet controller)
  NoRec,            \* no resource, no copy
  Checked,          \* updates compare generations (all but transactions)
  MaxIncarnations   \* bound: how often the resource is created

ASSUME KeepersAssumption == Keepers \subseteq Clients
ASSUME CheckedAssumption == Checked \in BOOLEAN
ASSUME MaxIncarnationsAssumption == MaxIncarnations \in Nat

VARIABLES
  rec,       \* the stored resource, or NoRec
  copy,      \* each client's copy, or NoRec
  used,      \* edits made so far
  acked,     \* edits acknowledged to a client since the last Create
  born,      \* how often the resource was created
  ahead      \* history: clients whose copy was changed by a commit that failed

vars == <<rec, copy, used, acked, born, ahead>>

\* inc says which creation the resource or the copy comes from, which the code
\* does not record.
Recs == [gen : Nat, inc : Nat, edits : SUBSET Edits]

ASSUME NoRecAssumption == NoRec \notin Recs

TypeOK ==
  /\ rec \in Recs \cup {NoRec}
  /\ copy \in [Clients -> Recs \cup {NoRec}]
  /\ used \subseteq Edits
  /\ acked \subseteq used
  /\ born \in Nat
  /\ ahead \subseteq Keepers

Init ==
  /\ rec = NoRec
  /\ copy = [c \in Clients |-> NoRec]
  /\ used = {} /\ acked = {}
  /\ born = 0 /\ ahead = {}

-----------------------------------------------------------------------------
\* Faulty variants, used only to show that the properties notice them.
AcceptsUnchecked(c) == copy[c] # NoRec /\ rec # NoRec

NextGenStuck(c) == copy[c].gen

\* CreateX stores the caller's object, with generation 1 where generations count.
Create(c) ==
  /\ rec = NoRec
  /\ born < MaxIncarnations
  /\ born' = born + 1
  /\ rec' = [gen |-> IF Checked THEN 1 ELSE 0, inc |-> born + 1, edits |-> {}]
  /\ copy' = [copy EXCEPT ![c] = rec']
  /\ acked' = {} /\ ahead' = ahead \ {c}
  /\ UNCHANGED used

Get(c) ==
  /\ rec # NoRec
  /\ copy' = [copy EXCEPT ![c] = rec] /\ ahead' = ahead \ {c}
  /\ UNCHANGED <<rec, used, acked, born>>

\* The check at the head of UpdateX.
Accepts(c) ==
  /\ copy[c] # NoRec
  /\ rec # NoRec
  /\ Checked => copy[c].gen = rec.gen

NextGen(c) == IF Checked THEN copy[c].gen + 1 ELSE copy[c].gen

\* UpdateX writes the whole copy over what is stored and advances the generation
\* in both.
Update(c, e) ==
  /\ Accepts(c)
  /\ e \notin used
  /\ used' = used \cup {e}
  /\ rec' = [gen |-> NextGen(c), inc |-> rec.inc, edits |-> copy[c].edits \cup {e}]
  /\ copy' = [copy EXCEPT ![c] = rec']
  /\ acked' = acked \cup {e} /\ ahead' = ahead \ {c}
  /\ UNCHANGED born

\* What becomes of the copy when the write fails: the caller reports the error and
\* drops it, or has only logged the error.
Drop(c) == copy' = [copy EXCEPT ![c] = NoRec] /\ ahead' = ahead \ {c}
Keep(c, e, gen) ==
  c \in Keepers /\ copy' = [copy EXCEPT ![c].gen = gen, ![c].edits = @ \cup {e}]

\* The commit fails: nothing is stored, but the caller's copy holds the edit and the
\* advanced generation already.
CommitFails(c, e) ==
  /\ Accepts(c)
  /\ e \notin used
  /\ used' = used \cup {e}
  /\ Drop(c) \/ (Keep(c, e, NextGen(c)) /\ ahead' = ahead \cup {c})
  /\ UNCHANGED <<rec, acked, born>>

\* Not found or conflict, found before the generation is touched.
UpdateRejected(c, e) ==
  /\ copy[c] # NoRec
  /\ ~Accepts(c)
  /\ \/ Drop(c) /\ UNCHANGED used
     \/ /\ e \notin used /\ used' = used \cup {e}
        /\ Keep(c, e, copy[c].gen) /\ UNCHANGED ahead
  /\ UNCHANGED <<rec, acked, born>>

Delete ==
  /\ rec # NoRec
  /\ rec' = NoRec
  /\ acked' = {}
  /\ UNCHANGED <<copy, used, born, ahead>>

Next ==
  \/ \E c \in Clients : Create(c) \/ Get(c)
  \/ \E c \in Clients, e \in Edits : Update(c, e) \/ CommitFails(c, e) \/ UpdateRejected(c, e)
  \/ Delete

Spec == Init /\ [][Next]_vars

-----------------------------------------------------------------------------
\* The client's copy is one of the resource as it was created last.
Current(c) == copy[c] # NoRec /\ rec # NoRec /\ copy[c].inc = rec.inc

\* The generation vouches for a copy that is current and was not changed by a commit
\* that failed.
Vouched(c) == Current(c) /\ c \notin ahead

\* The generation orders the contents of one incarnation: a copy it vouches for is never
\* ahead of the store, and with the store's generation it has the store's content.
GenerationsTell ==
  \A c \in Clients :
    Vouched(c) =>
      /\ copy[c].gen <= rec.gen
      /\ copy[c].gen = rec.gen => copy[c].edits = rec.edits

\* The inductive invariant of the store: the types, where the stored resource and
\* the copies come from, and, where updates compare generations, what a generation
\* tells of the content.
StoreInv ==
  /\ TypeOK
  /\ born <= MaxIncarnations
  /\ rec # NoRec => rec.inc = born /\ born > 0 /\ rec.edits \subseteq used
  /\ \A c \in Clients : copy[c] # NoRec => copy[c].inc \in 1..born /\ copy[c].edits \subseteq used
  /\ Checked => GenerationsTell

\* The optimistic concurrency check does its work: an update that UpdateX accepts from
\* a copy the generation vouches for keeps every edit that is in the store.
CurrentUpdateLosesNothing ==
  [][\A c \in Clients, e \in Edits :
       Checked /\ Update(c, e) /\ Vouched(c) => rec.edits \subseteq rec'.edits]_vars

\* "Used for optimistic concurrency control" (types/meta.go:21): no acknowledged edit
\* is overwritten by a client that did not see it.  It holds where generations are
\* compared, the resource is created once and a failed write makes its caller drop the
\* copy.  It is lost for transactions; for a resource deleted and created anew, whose
\* generation starts at 1 again; and for a devnet whose progress report failed in the
\* commit: the kept copy is one generation ahead, so it is accepted exactly when
\* somebody else has written in the meantime.
NoLostUpdate == rec # NoRec => acked \subseteq rec.edits

Atomic == INSTANCE AtomicResource
            WITH exists <- rec # NoRec,
                 edits <- IF rec = NoRec THEN {} ELSE rec.edits

\* The store implements the atomic resource its clients reckon with, up to updates from
\* copies that the generation does not vouch for: those of an earlier incarnation and
\* those kept after a failed commit.  Everything else, a failed or refused write and a
\* write after either included, is a step of the atomic resource or none.
AtomicUpdates ==
  /\ Atomic!Init
  /\ [][Atomic!Next \/ \E c \in Clients, e \in Edits : Update(c, e) /\ ~Vouched(c)]_(Atomic!vars)
=============================================================================
