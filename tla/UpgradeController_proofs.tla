----------------------- MODULE UpgradeController_proofs -----------------------
(***************************************************************************)
(* Proofs about UpgradeController for any number of workers, validators    *)
(* and full nodes and for all bounds on heights, commands and failures.    *)
(*                                                                         *)
(* A step of a worker has one of five effects: it takes the key, returns,  *)
(* writes the next phase, switches a validator or verifies one.  The       *)
(* effects are stated once; the parts of the invariant are shown of them.  *)
(***************************************************************************)
EXTENDS UpgradeController, TLAPS

\* The record d is what a worker writes over the record it has read as c.
Written(c, d, q) ==
  /\ d \in Upgrades /\ d.uid = c.uid /\ d.gen = c.gen + 1 /\ d.phase = q
  /\ d.source = c.source /\ d.named = c.named /\ d.cancelled = c.cancelled
  /\ q # "Proposing" => d.target = c.target

Becomes(w, v) == work' = [work EXCEPT ![w] = v]

\* The effects of a worker's step.
Takes(w) ==
  /\ work[w].at = "idle" /\ Exists /\ up.phase \in Working
  /\ Becomes(w, [at |-> up.phase, copy |-> up, next |-> 0]) /\ UNCHANGED <<up, nodes>>
Returns(w) == work' = work \/ Becomes(w, IdleWork)
Finishes(w) == Returns(w) /\ UNCHANGED <<up, nodes>>
Writes(w) ==
  /\ work[w].at # "idle" /\ Becomes(w, IdleWork) /\ UNCHANGED nodes
  /\ Accepts(work[w].copy)
  /\ \E q \in Phases \ {"Pending"} :
       /\ Written(work[w].copy, up', q)
       /\ q = "Switching" => work[w].at = "Waiting" /\ height >= work[w].copy.target
       /\ q = "Verifying" => work[w].at = "Switching" /\ work[w].next = Validators
       /\ q = "Completed" => work[w].at = "Verifying" /\ work[w].next = Validators
       /\ work[w].at \in {"Switching", "Verifying"} => q \in {"Verifying", "Completed", "Failed"}
Advances(w) == Becomes(w, [work[w] EXCEPT !.next = @ + 1])
Switches(w) ==
  /\ work[w].at = "Switching" /\ work[w].next < Validators /\ Advances(w) /\ UNCHANGED up
  /\ nodes' = [nodes EXCEPT ![work[w].next].bin = Switched(@, work[w].copy.source),
                             ![work[w].next].phase = "Pending"]
Verifies(w) ==
  /\ work[w].at = "Verifying" /\ work[w].next < Validators /\ Advances(w) /\ UNCHANGED <<up, nodes>>
  /\ Verified(w, nodes[work[w].next])

\* The copy of a worker, and the record written from it.
LEMMA WrittenRecord ==
  ASSUME NEW c \in Upgrades, NEW q \in Phases
  PROVE  Written(c, Stored([c EXCEPT !.phase = q]), q) /\ [c EXCEPT !.phase = q].gen = c.gen
<1>. DEFINE n == [c EXCEPT !.phase = q]
<1>1. n \in Upgrades /\ n.uid = c.uid /\ n.gen = c.gen /\ n.phase = q
      /\ n.source = c.source /\ n.named = c.named /\ n.cancelled = c.cancelled /\ n.target = c.target
  BY DEF Upgrades
<1>. HIDE DEF n
<1>2. Stored(n) \in Upgrades /\ Stored(n).uid = n.uid /\ Stored(n).gen = n.gen + 1 /\ Stored(n).phase = n.phase
      /\ Stored(n).source = n.source /\ Stored(n).named = n.named /\ Stored(n).cancelled = n.cancelled /\ Stored(n).target = n.target
  BY <1>1 DEF Upgrades, Stored
<1>3. Written(c, Stored(n), q) /\ n.gen = c.gen
  BY <1>1, <1>2 DEF Written
<1>. QED
  BY <1>3 DEF n

\* The record written by reconcilePending, which fills in the target height.
LEMMA WrittenTarget ==
  ASSUME NEW c \in Upgrades, NEW t \in Nat
  PROVE  LET m == [c EXCEPT !.phase = "Proposing"]
         IN Written(c, Stored([m EXCEPT !.target = t]), "Proposing") /\ [m EXCEPT !.target = t].gen = c.gen
<1>. DEFINE m == [c EXCEPT !.phase = "Proposing"]
            n == [m EXCEPT !.target = t]
<1>1. m \in Upgrades /\ m.uid = c.uid /\ m.gen = c.gen /\ m.phase = "Proposing"
      /\ m.source = c.source /\ m.named = c.named /\ m.cancelled = c.cancelled
  BY DEF Upgrades, Phases, Working
<1>. HIDE DEF m
<1>2. n \in Upgrades /\ n.uid = m.uid /\ n.gen = m.gen /\ n.phase = m.phase
      /\ n.source = m.source /\ n.named = m.named /\ n.cancelled = m.cancelled
  BY <1>1 DEF Upgrades
<1>. HIDE DEF n
<1>3. Stored(n) \in Upgrades /\ Stored(n).uid = n.uid /\ Stored(n).gen = n.gen + 1 /\ Stored(n).phase = n.phase
      /\ Stored(n).source = n.source /\ Stored(n).named = n.named /\ Stored(n).cancelled = n.cancelled
  BY <1>2 DEF Upgrades, Stored
<1>4. Written(c, Stored(n), "Proposing") /\ n.gen = c.gen
  BY <1>1, <1>2, <1>3 DEF Written
<1>. QED
  BY <1>4 DEF n, m

\* Every step of a worker has one of the five effects.
LEMMA WorkerEffects ==
  ASSUME TypeOK, NEW w \in Workers, WorkerStep(w) \/ CallFails(w) \/ CallFailsQuietly(w)
  PROVE  /\ Takes(w) \/ Finishes(w) \/ Writes(w) \/ Switches(w) \/ Verifies(w)
         /\ UNCHANGED <<made, deleting, height, behind, overlap>>
<1>. DEFINE c == work[w].copy
<1>1. work[w] \in Works /\ c \in Upgrades /\ c.target \in Nat /\ height \in Nat
  BY DEF TypeOK, Works, Upgrades
<1>2. UNCHANGED <<made, deleting, height, behind, overlap>>
  BY DEF WorkerStep, Take, ReconcilePending, ReconcileProposing, ReconcileVoting, ReconcileWaiting,
         ReconcileSwitching, ReconcileVerifying, CallFails, CallFailsQuietly
<1>3. \A q \in Phases : /\ Moved(w, q) = [c EXCEPT !.phase = q]
                        /\ Written(c, Stored(Moved(w, q)), q) /\ Moved(w, q).gen = c.gen
  BY <1>1, WrittenRecord DEF Moved
<1>4. CASE Take(w)
  BY <1>2, <1>4 DEF Take, Takes, Finishes, Returns, Becomes
<1>5. CASE ReconcilePending(w)
  <2>. DEFINE t == IF c.target = 0 THEN height + Offset ELSE c.target
              m == [c EXCEPT !.phase = "Proposing"]
              n == [m EXCEPT !.target = t]
  <2>1. t \in Nat
    BY <1>1, SizesAssumption
  <2>2. Written(c, Stored(n), "Proposing") /\ n.gen = c.gen
    BY <1>1, <2>1, WrittenTarget
  <2>3. m.target = c.target
    BY <1>1 DEF Upgrades
  <2>4. ReturnUpdate(w, n) /\ work[w].at = "Pending" /\ UNCHANGED nodes
    BY <1>5, <2>3 DEF ReconcilePending, Moved
  <2>. HIDE DEF n
  <2>5. \/ /\ up' = Stored(n) /\ Accepts(n) /\ Becomes(w, IdleWork)
        \/ UNCHANGED up /\ Becomes(w, IdleWork)
    BY <2>4 DEF ReturnUpdate, ReturnNil, ReturnError, Becomes
  <2>. QED
    BY <1>2, <2>2, <2>4, <2>5 DEF Writes, Finishes, Returns, Accepts, Phases, Working
<1>6. ASSUME NEW q \in Phases \ {"Pending"}, ReturnUpdate(w, Moved(w, q)), work[w].at # "idle", UNCHANGED nodes,
             q = "Switching" => work[w].at = "Waiting" /\ height >= work[w].copy.target,
             q = "Verifying" => work[w].at = "Switching" /\ work[w].next = Validators,
             q = "Completed" => work[w].at = "Verifying" /\ work[w].next = Validators,
             work[w].at \in {"Switching", "Verifying"} => q \in {"Verifying", "Completed", "Failed"}
      PROVE  Writes(w) \/ Finishes(w)
  <2>. DEFINE n == Moved(w, q)
  <2>1. Written(c, Stored(n), q) /\ n.gen = c.gen
    BY <1>3
  <2>. HIDE DEF n
  <2>2. \/ /\ up' = Stored(n) /\ Accepts(n) /\ Becomes(w, IdleWork)
        \/ UNCHANGED up /\ Becomes(w, IdleWork)
    BY <1>6 DEF ReturnUpdate, ReturnNil, ReturnError, Becomes, n
  <2>. QED
    BY <1>6, <2>1, <2>2 DEF Writes, Finishes, Returns, Accepts
<1>7. CASE ReconcileProposing(w)
  BY <1>2, <1>6, <1>7 DEF ReconcileProposing, Phases, Working
<1>8. CASE ReconcileVoting(w)
  BY <1>2, <1>6, <1>8 DEF ReconcileVoting, Phases, Working
<1>9. CASE ReconcileWaiting(w)
  <2>1. work[w].at = "Waiting" /\ UNCHANGED nodes
    BY <1>9 DEF ReconcileWaiting
  <2>2. CASE height < c.target
    BY <1>2, <1>6, <1>9, <2>1, <2>2 DEF ReconcileWaiting, Phases, Working
  <2>3. CASE ~(height < c.target)
    BY <1>1, <1>2, <1>6, <1>9, <2>1, <2>3 DEF ReconcileWaiting, Phases, Working
  <2>. QED
    BY <2>2, <2>3
<1>10. CASE ReconcileSwitching(w)
  <2>1. CASE work[w].next < Validators
    <3>1. Switches(w) \/ work[w].next = Validators
      BY <1>10, <2>1 DEF ReconcileSwitching, Switches, Advances, Becomes
    <3>. QED
      BY <1>1, <1>2, <2>1, <3>1, SizesAssumption DEF Works
  <2>2. CASE ~(work[w].next < Validators)
    BY <1>2, <1>6, <1>10, <2>2 DEF ReconcileSwitching, Phases, Working
  <2>. QED
    BY <2>1, <2>2
<1>11. CASE ReconcileVerifying(w)
  <2>1. work[w].at = "Verifying" /\ UNCHANGED nodes
    BY <1>11 DEF ReconcileVerifying
  <2>2. \/ /\ work[w].next < Validators /\ Verified(w, nodes[work[w].next])
           /\ work' = [work EXCEPT ![w].next = @ + 1] /\ UNCHANGED up
        \/ ReturnNil(w) /\ UNCHANGED up
        \/ work[w].next = Validators /\ ReturnUpdate(w, Moved(w, "Completed"))
    BY <1>11 DEF ReconcileVerifying
  <2>3. CASE /\ work[w].next < Validators /\ Verified(w, nodes[work[w].next])
             /\ work' = [work EXCEPT ![w].next = @ + 1] /\ UNCHANGED up
    BY <1>2, <2>1, <2>3 DEF Verifies, Advances, Becomes
  <2>4. CASE ReturnNil(w) /\ UNCHANGED up
    BY <1>2, <2>1, <2>4 DEF Finishes, Returns, ReturnNil, Becomes
  <2>5. CASE work[w].next = Validators /\ ReturnUpdate(w, Moved(w, "Completed"))
    BY <1>2, <1>6, <2>1, <2>5 DEF Phases
  <2>. QED
    BY <2>2, <2>3, <2>4, <2>5
<1>12. CASE CallFails(w)
  <2>. DEFINE n == Moved(w, "Failed")
  <2>1. Written(c, Stored(n), "Failed") /\ n.gen = c.gen
    BY <1>3 DEF Phases
  <2>2. work[w].at # "idle" /\ UNCHANGED nodes
    BY <1>12 DEF CallFails
  <2>3. \/ /\ up' = Stored(n) /\ Accepts(n) /\ Becomes(w, IdleWork)
        \/ UNCHANGED up /\ Becomes(w, IdleWork)
    BY <1>12 DEF CallFails, ReturnNil, ReturnError, Becomes
  <2>. HIDE DEF n
  <2>. QED
    BY <1>2, <2>1, <2>2, <2>3 DEF Writes, Finishes, Returns, Accepts, Phases
<1>13. CASE CallFailsQuietly(w)
  BY <1>2, <1>13 DEF CallFailsQuietly, Finishes, Returns, ReturnNil, Becomes
<1>. QED
  BY <1>4, <1>5, <1>7, <1>8, <1>9, <1>10, <1>11, <1>12, <1>13 DEF WorkerStep

-----------------------------------------------------------------------------
\* The inductive invariant.
UpgradeIInv == UpgradeInv /\ SwitchesAfterHeight /\ CompletedMeansSwitched

\* The invariant holds before the first upgrade.
LEMMA InitUpgrade == Init => UpgradeIInv
<1>. SUFFICES ASSUME Init PROVE UpgradeIInv
  OBVIOUS
<1>1. NoUpgrade \in Upgrades /\ NoUpgrade.phase = "Pending" /\ ~NoUpgrade.cancelled
  BY DEF NoUpgrade, Upgrades, Sources, Phases, Working
<1>2. IdleWork \in Works /\ IdleWork.at = "idle"
  BY <1>1 DEF IdleWork, Works
<1>3. TypeOK
  BY <1>1, <1>2 DEF Init, TypeOK, Nodes, Binaries, Node, Counted
<1>4. /\ \A w \in Workers : work[w].at = "idle"
      /\ \A i \in Node : nodes[i].runs = "old" /\ nodes[i].bin = "old"
      /\ up = NoUpgrade
  BY <1>2 DEF Init
<1>. QED
  BY <1>1, <1>3, <1>4 DEF UpgradeIInv, UpgradeInv, CopiesMatch, RecordInv, BinariesInv, RunsPath, Started,
       SwitchingIsKnown, SomeoneSwitches, SwitchesAfterHeight, CompletedMeansSwitched

\* What the states of the workers are after a worker's step.
LEMMA OtherWorkers ==
  ASSUME TypeOK, NEW w \in Workers, NEW v, Becomes(w, v)
  PROVE  work'[w] = v /\ \A u \in Workers : u # w => work'[u] = work[u]
BY DEF Becomes, TypeOK

\* A path stays a path.
LEMMA SwitchedType == \A b \in Binaries, s \in Sources : Switched(b, s) \in Binaries
BY DEF Switched, Binaries, Sources

\* The types.
LEMMA WorkerTypes ==
  ASSUME TypeOK, NEW w \in Workers,
         Takes(w) \/ Finishes(w) \/ Writes(w) \/ Switches(w) \/ Verifies(w)
  PROVE  up' \in Upgrades /\ work' \in [Workers -> Works] /\ nodes' \in [Node -> Nodes]
<1>1. up \in Upgrades /\ work \in [Workers -> Works] /\ nodes \in [Node -> Nodes] /\ work[w] \in Works
  BY DEF TypeOK
<1>2. NoUpgrade \in Upgrades
  BY DEF NoUpgrade, Upgrades, Sources, Phases, Working
<1>3. IdleWork \in Works
  BY <1>2 DEF IdleWork, Works
<1>4. CASE Takes(w)
  <2>1. [at |-> up.phase, copy |-> up, next |-> 0] \in Works
    BY <1>1, <1>4 DEF Takes, Works
  <2>. QED
    BY <1>1, <1>4, <2>1 DEF Takes, Becomes
<1>5. CASE Finishes(w)
  BY <1>1, <1>3, <1>5 DEF Finishes, Returns, Becomes
<1>6. CASE Writes(w)
  BY <1>1, <1>3, <1>6 DEF Writes, Written, Becomes
<1>7. Advances(w) => work' \in [Workers -> Works]
  <2>1. [work[w] EXCEPT !.next = @ + 1] \in Works
    BY <1>1 DEF Works
  <2>. QED
    BY <1>1, <2>1 DEF Advances, Becomes
<1>8. CASE Switches(w)
  <2>1. work[w].next \in Node
    BY <1>1, <1>8, SizesAssumption DEF Switches, Works, Node
  <2>. DEFINE n == work[w].next
              b == Switched(nodes[n].bin, work[w].copy.source)
              m == [nodes[n] EXCEPT !.bin = b, !.phase = "Pending"]
  <2>2. nodes[n] \in Nodes /\ work[w].copy.source \in Sources
    BY <1>1, <2>1 DEF Works, Upgrades
  <2>3. b \in Binaries
    BY <2>2, SwitchedType DEF Nodes
  <2>4. nodes' = [nodes EXCEPT ![n] = m]
    BY <1>1, <1>8, <2>1 DEF Switches
  <2>. HIDE DEF b
  <2>5. m \in Nodes
    BY <2>2, <2>3 DEF Nodes
  <2>. HIDE DEF m
  <2>6. nodes' \in [Node -> Nodes]
    BY <1>1, <2>1, <2>4, <2>5
  <2>. QED
    BY <1>1, <1>7, <1>8, <2>6 DEF Switches
<1>9. CASE Verifies(w)
  BY <1>1, <1>7, <1>9 DEF Verifies
<1>. QED
  BY <1>4, <1>5, <1>6, <1>8, <1>9

\* The copies of the workers and the record.
LEMMA WorkerCopies ==
  ASSUME TypeOK, CopiesMatch, RecordInv, NEW w \in Workers, UNCHANGED overlap,
         Takes(w) \/ Finishes(w) \/ Writes(w) \/ Switches(w) \/ Verifies(w)
  PROVE  CopiesMatch' /\ RecordInv'
<1>1. up \in Upgrades /\ work[w] \in Works /\ up.gen \in Nat /\ work[w].copy \in Upgrades /\ work[w].copy.gen \in Nat
  BY DEF TypeOK, Works, Upgrades
<1>2. IdleWork.at = "idle"
  BY DEF IdleWork
<1>3. CASE Takes(w)
  <2>. DEFINE v == [at |-> up.phase, copy |-> up, next |-> 0]
  <2>1. work'[w] = v /\ \A u \in Workers : u # w => work'[u] = work[u]
    BY <1>3, OtherWorkers DEF Takes
  <2>2. v.at = up.phase /\ v.copy = up
    OBVIOUS
  <2>. HIDE DEF v
  <2>3. up' = up /\ Exists /\ up.phase \in Working
    BY <1>3 DEF Takes
  <2>4. ~up.cancelled
    BY <2>3 DEF RecordInv, Working
  <2>. QED
    BY <1>1, <2>1, <2>2, <2>3, <2>4 DEF CopiesMatch, RecordInv, Exists
<1>4. CASE Finishes(w)
  <2>1. \A u \in Workers : work'[u] = work[u] \/ work'[u].at = "idle"
    BY <1>2, <1>4, OtherWorkers DEF Finishes, Returns
  <2>. QED
    BY <1>4, <2>1 DEF Finishes, CopiesMatch, RecordInv
<1>5. CASE Writes(w)
  <2>. DEFINE c == work[w].copy
  <2>1. \A u \in Workers : work'[u] = work[u] \/ work'[u].at = "idle"
    BY <1>2, <1>5, OtherWorkers DEF Writes
  <2>2. /\ work[w].at # "idle" /\ up'.uid = c.uid /\ up'.source = c.source /\ up'.gen = c.gen + 1 /\ up'.cancelled = c.cancelled
        /\ up.gen = c.gen
    BY <1>5 DEF Writes, Written, Accepts
  <2>3. c.uid # 0 /\ ~c.cancelled
    BY <2>2 DEF RecordInv
  <2>4. RecordInv'
    BY <2>1, <2>2, <2>3 DEF RecordInv
  <2>5. CopiesMatch'
    <3>. SUFFICES ASSUME ~overlap, NEW u \in Workers, work'[u].at # "idle"
                  PROVE  /\ work'[u].copy.uid = up'.uid /\ work'[u].copy.source = up'.source
                         /\ work'[u].copy.gen <= up'.gen /\ work'[u].copy.gen # up'.gen
      BY DEF CopiesMatch
    <3>1. work'[u] = work[u]
      BY <2>1
    <3>2. work[u].copy.uid = up.uid /\ work[u].copy.gen <= up.gen /\ c.uid = up.uid
          /\ work[u].copy.source = up.source /\ c.source = up.source
      BY <2>2, <3>1 DEF CopiesMatch
    <3>3. work[u].copy.gen \in Nat
      BY DEF TypeOK, Works, Upgrades
    <3>. QED
      BY <1>1, <2>2, <3>1, <3>2, <3>3
  <2>. QED
    BY <2>4, <2>5
<1>6. CASE Switches(w) \/ Verifies(w)
  <2>1. Advances(w) /\ up' = up
    BY <1>6 DEF Switches, Verifies
  <2>2. \A u \in Workers : work'[u].at = work[u].at /\ work'[u].copy = work[u].copy
    BY <1>1, <2>1, OtherWorkers DEF Advances, Works
  <2>. QED
    BY <2>1, <2>2 DEF CopiesMatch, RecordInv
<1>. QED
  BY <1>3, <1>4, <1>5, <1>6

\* The heights at which binaries are switched.
LEMMA WorkerHeights ==
  ASSUME TypeOK, RecordInv, SwitchesAfterHeight, NEW w \in Workers, UNCHANGED height,
         Takes(w) \/ Finishes(w) \/ Writes(w) \/ Switches(w) \/ Verifies(w)
  PROVE  SwitchesAfterHeight'
<1>1. work[w] \in Works
  BY DEF TypeOK
<1>2. IdleWork.at = "idle"
  BY DEF IdleWork
<1>3. CASE Takes(w)
  <2>. DEFINE v == [at |-> up.phase, copy |-> up, next |-> 0]
  <2>1. work'[w] = v /\ \A u \in Workers : u # w => work'[u] = work[u]
    BY <1>3, OtherWorkers DEF Takes
  <2>2. v.at = up.phase /\ v.copy = up
    OBVIOUS
  <2>. HIDE DEF v
  <2>. QED
    BY <1>3, <2>1, <2>2 DEF Takes, SwitchesAfterHeight
<1>4. CASE Finishes(w)
  <2>1. \A u \in Workers : work'[u] = work[u] \/ work'[u].at = "idle"
    BY <1>2, <1>4, OtherWorkers DEF Finishes, Returns
  <2>. QED
    BY <1>4, <2>1 DEF Finishes, SwitchesAfterHeight
<1>5. CASE Writes(w)
  <2>1. \A u \in Workers : work'[u] = work[u] \/ work'[u].at = "idle"
    BY <1>2, <1>5, OtherWorkers DEF Writes
  <2>2. up'.phase \in {"Switching", "Verifying", "Completed"} =>
          up'.target = work[w].copy.target /\ height >= work[w].copy.target
    BY <1>5 DEF Writes, Written, SwitchesAfterHeight
  <2>. QED
    BY <2>1, <2>2 DEF SwitchesAfterHeight
<1>6. CASE Switches(w) \/ Verifies(w)
  <2>1. Advances(w) /\ up' = up
    BY <1>6 DEF Switches, Verifies
  <2>2. \A u \in Workers : work'[u].at = work[u].at /\ work'[u].copy = work[u].copy
    BY <1>1, <2>1, OtherWorkers DEF Advances, Works
  <2>. QED
    BY <2>1, <2>2 DEF SwitchesAfterHeight
<1>. QED
  BY <1>3, <1>4, <1>5, <1>6

\* What a node keeps: its path, and what it runs unless it is started with that path.
Kept(i) == /\ nodes'[i].bin = nodes[i].bin
           /\ nodes'[i].runs = nodes[i].runs \/ nodes'[i].runs = Started(nodes[i].bin)
NodesKeep == RunsPath' /\ \A i \in Node : Kept(i)

\* A node that keeps its path stays switched and keeps the version.
LEMMA KeptNode ==
  ASSUME NEW i, Kept(i)
  PROVE  /\ \A s : IsSwitched(nodes[i], s) => IsSwitched(nodes'[i], s)
         /\ HasVersion(nodes[i]) => HasVersion(nodes'[i])
BY DEF Kept, IsSwitched, HasVersion

\* The validators are the first nodes of the devnet.
LEMMA ValidatorsAreNodes == Validator \subseteq Node
BY SizesAssumption DEF Validator, Node

\* The binaries of the validators.
LEMMA WorkerBinaries ==
  ASSUME TypeOK, CopiesMatch, RecordInv, BinariesInv, CompletedMeansSwitched, NEW w \in Workers, UNCHANGED overlap,
         Takes(w) \/ Finishes(w) \/ Writes(w) \/ Switches(w) \/ Verifies(w)
  PROVE  BinariesInv' /\ CompletedMeansSwitched'
<1>1. work[w] \in Works /\ work[w].next \in Nat /\ nodes \in [Node -> Nodes]
  BY DEF TypeOK, Works
<1>2. IdleWork.at = "idle"
  BY DEF IdleWork
<1>3. Validator \subseteq Node /\ Validators \in Nat
  BY ValidatorsAreNodes, SizesAssumption
<1>4. CASE Takes(w)
  <2>. DEFINE v == [at |-> up.phase, copy |-> up, next |-> 0]
  <2>1. work'[w] = v /\ \A u \in Workers : u # w => work'[u] = work[u]
    BY <1>4, OtherWorkers DEF Takes
  <2>2. v.at = up.phase /\ v.copy = up /\ v.next = 0
    OBVIOUS
  <2>. HIDE DEF v
  <2>3. \A i \in Validator : ~(i < 0)
    BY DEF Validator
  <2>. QED
    BY <1>4, <2>1, <2>2, <2>3 DEF Takes, BinariesInv, RunsPath, CompletedMeansSwitched
<1>5. CASE Finishes(w)
  <2>1. \A u \in Workers : work'[u] = work[u] \/ work'[u].at = "idle"
    BY <1>2, <1>5, OtherWorkers DEF Finishes, Returns
  <2>. QED
    BY <1>5, <2>1 DEF Finishes, BinariesInv, RunsPath, CompletedMeansSwitched
<1>6. CASE Writes(w)
  <2>1. \A u \in Workers : work'[u] = work[u] \/ work'[u].at = "idle"
    BY <1>2, <1>6, OtherWorkers DEF Writes
  <2>2. \A i \in Validator : i < Validators
    BY <1>3 DEF Validator
  <2>3. ~overlap /\ up'.phase = "Verifying" => \A i \in Validator : IsSwitched(nodes[i], up'.source)
    BY <1>6, <2>2 DEF Writes, Written, BinariesInv
  <2>4. ~overlap /\ up'.phase = "Completed" =>
          \A i \in Validator : IsSwitched(nodes[i], up'.source) /\ (up'.named => HasVersion(nodes[i]))
    BY <1>6, <2>2 DEF Writes, Written, BinariesInv
  <2>5. nodes' = nodes
    BY <1>6 DEF Writes
  <2>. QED
    BY <2>1, <2>3, <2>4, <2>5 DEF BinariesInv, RunsPath, CompletedMeansSwitched
<1>7. Advances(w) =>
        /\ \A u \in Workers : work'[u].at = work[u].at /\ work'[u].copy = work[u].copy
        /\ work'[w].next = work[w].next + 1 /\ \A u \in Workers : u # w => work'[u].next = work[u].next
  BY <1>1, OtherWorkers DEF Advances, Works
<1>8. \A i \in Validator : i < work[w].next + 1 => i < work[w].next \/ i = work[w].next
  BY <1>1 DEF Validator
<1>9. CASE Switches(w)
  <2>. DEFINE n == work[w].next
              s == up.source
  <2>1. n \in Node /\ n < Validators
    BY <1>1, <1>9, SizesAssumption DEF Switches, Node
  <2>2. /\ nodes'[n].bin = Switched(nodes[n].bin, work[w].copy.source)
        /\ nodes'[n].runs = nodes[n].runs /\ nodes'[n].phase = "Pending"
    BY <1>1, <1>9, <2>1 DEF Switches, Nodes
  <2>3. \A i \in Node : i # n => nodes'[i] = nodes[i]
    BY <1>1, <1>9, <2>1 DEF Switches
  <2>4. work[w].at = "Switching" /\ Advances(w) /\ up' = up
    BY <1>9 DEF Switches
  <2>5. RunsPath'
    BY <2>2, <2>3 DEF RunsPath, BinariesInv
  <2>. SUFFICES ASSUME ~overlap
                PROVE  BinariesInv' /\ CompletedMeansSwitched'
    BY <2>5 DEF BinariesInv, CompletedMeansSwitched
  <2>6. \A u \in Workers : work[u].at # "idle" => work[u].copy.source = s
    BY DEF CopiesMatch
  <2>7. \A i \in Node : IsSwitched(nodes[i], s) => Kept(i)
    BY <2>2, <2>3, <2>4, <2>6 DEF IsSwitched, Kept
  <2>8. \A i \in Validator : IsSwitched(nodes[i], s) =>
          IsSwitched(nodes'[i], s) /\ (HasVersion(nodes[i]) => HasVersion(nodes'[i]))
    BY <1>3, <2>7, KeptNode
  <2>9. IsSwitched(nodes'[n], s)
    BY <2>2, <2>4, <2>6 DEF IsSwitched, Switched
  <2>10. up'.phase = "Verifying" => \A i \in Validator : IsSwitched(nodes'[i], up'.source)
    BY <2>4, <2>8 DEF BinariesInv
  <2>11. ASSUME NEW u \in Workers, work'[u].at = "Switching", NEW i \in Validator, i < work'[u].next
         PROVE  IsSwitched(nodes'[i], work'[u].copy.source)
    <3>1. work[u].at = "Switching" /\ work'[u].copy.source = s /\ work[u].copy.source = s
      BY <1>7, <2>4, <2>6, <2>11
    <3>2. i < work[u].next \/ i = n
      BY <1>7, <1>8, <2>4, <2>11
    <3>. QED
      BY <2>8, <2>9, <3>1, <3>2 DEF BinariesInv
  <2>12. ASSUME NEW u \in Workers, work'[u].at = "Verifying", NEW i \in Validator
         PROVE  /\ IsSwitched(nodes'[i], work'[u].copy.source)
                /\ work'[u].copy.named /\ i < work'[u].next => HasVersion(nodes'[i])
    <3>1. work[u].at = "Verifying" /\ work'[u].copy = work[u].copy /\ work[u].copy.source = s /\ u # w
      BY <1>7, <2>4, <2>6, <2>12
    <3>2. work'[u].next = work[u].next
      BY <1>7, <2>4, <3>1
    <3>. QED
      BY <2>8, <3>1, <3>2 DEF BinariesInv
  <2>13. CompletedMeansSwitched'
    BY <2>4, <2>8 DEF CompletedMeansSwitched
  <2>. QED
    BY <2>5, <2>10, <2>11, <2>12, <2>13 DEF BinariesInv
<1>10. CASE Verifies(w)
  <2>1. /\ work[w].at = "Verifying" /\ Advances(w) /\ up' = up /\ nodes' = nodes
        /\ work[w].next < Validators
        /\ Verified(w, nodes[work[w].next])
    BY <1>10 DEF Verifies
  <2>2. work[w].next \in Node
    BY <1>1, <2>1, SizesAssumption DEF Node
  <2>3. work[w].copy.named => HasVersion(nodes[work[w].next])
    BY <2>1, <2>2 DEF Verified, HasVersion, BinariesInv, RunsPath
  <2>4. ASSUME ~overlap, NEW u \in Workers, work'[u].at = "Verifying", NEW i \in Validator, i < work'[u].next, work'[u].copy.named
        PROVE  HasVersion(nodes[i])
    BY <1>7, <1>8, <2>1, <2>3, <2>4 DEF BinariesInv
  <2>5. ASSUME ~overlap, NEW u \in Workers, work'[u].at = "Switching", NEW i \in Validator, i < work'[u].next
        PROVE  IsSwitched(nodes[i], work'[u].copy.source)
    BY <1>7, <2>1, <2>5 DEF BinariesInv
  <2>6. ASSUME ~overlap, NEW u \in Workers, work'[u].at = "Verifying", NEW i \in Validator
        PROVE  IsSwitched(nodes[i], work'[u].copy.source)
    BY <1>7, <2>1, <2>6 DEF BinariesInv
  <2>7. CompletedMeansSwitched' /\ RunsPath'
    BY <2>1 DEF CompletedMeansSwitched, BinariesInv, RunsPath
  <2>8. ~overlap /\ up'.phase = "Verifying" => \A i \in Validator : IsSwitched(nodes[i], up'.source)
    BY <2>1 DEF BinariesInv
  <2>. QED
    BY <2>1, <2>4, <2>5, <2>6, <2>7, <2>8 DEF BinariesInv
<1>. QED
  BY <1>4, <1>5, <1>6, <1>9, <1>10

\* A worker that is switching is known to the record: an accepted write is made from the
\* record itself, and takes it one phase further or to Failed.
LEMMA WorkerKnown ==
  ASSUME TypeOK, CopiesMatch, RecordInv, SwitchingIsKnown, NEW w \in Workers, UNCHANGED <<behind, overlap>>,
         Takes(w) \/ Finishes(w) \/ Writes(w) \/ Switches(w) \/ Verifies(w)
  PROVE  SwitchingIsKnown'
<1>1. work[w] \in Works
  BY DEF TypeOK
<1>2. IdleWork.at = "idle"
  BY DEF IdleWork
<1>3. CASE Takes(w)
  <2>. DEFINE v == [at |-> up.phase, copy |-> up, next |-> 0]
  <2>1. work'[w] = v /\ \A u \in Workers : u # w => work'[u] = work[u]
    BY <1>3, OtherWorkers DEF Takes
  <2>2. v.at = up.phase
    OBVIOUS
  <2>. HIDE DEF v
  <2>. QED
    BY <1>3, <2>1, <2>2 DEF Takes, SwitchingIsKnown, SomeoneSwitches
<1>4. CASE Finishes(w)
  <2>1. \A u \in Workers : work'[u] = work[u] \/ work'[u].at = "idle"
    BY <1>2, <1>4, OtherWorkers DEF Finishes, Returns
  <2>. QED
    BY <1>4, <2>1 DEF Finishes, SwitchingIsKnown, SomeoneSwitches
<1>5. CASE Writes(w)
  <2>1. \A u \in Workers : work'[u] = work[u] \/ work'[u].at = "idle"
    BY <1>2, <1>5, OtherWorkers DEF Writes
  <2>. SUFFICES ASSUME SomeoneSwitches', ~behind, ~overlap
                PROVE  up'.phase \in {"Switching", "Verifying", "Completed"} \/ (up'.phase = "Failed" /\ ~up'.cancelled)
    BY DEF SwitchingIsKnown
  <2>2. SomeoneSwitches
    BY <2>1 DEF SomeoneSwitches
  <2>3. up.phase \in {"Switching", "Verifying", "Completed"} \/ (up.phase = "Failed" /\ ~up.cancelled)
    BY <2>2 DEF SwitchingIsKnown
  <2>4. work[w].at # "idle" /\ up = work[w].copy /\ up.phase = work[w].at /\ ~up.cancelled
    BY <1>5 DEF Writes, Accepts, CopiesMatch, RecordInv
  <2>5. work[w].at \in {"Switching", "Verifying"}
    BY <1>1, <2>3, <2>4 DEF Works, Working
  <2>6. up'.cancelled = up.cancelled /\ up'.phase \in Phases
    BY <1>5, <2>4 DEF Writes, Written
  <2>7. up'.phase \in {"Switching", "Verifying", "Completed", "Failed"}
    BY <1>5, <2>5 DEF Writes, Written
  <2>. QED
    BY <2>4, <2>6, <2>7
<1>6. CASE Switches(w) \/ Verifies(w)
  <2>1. Advances(w) /\ up' = up
    BY <1>6 DEF Switches, Verifies
  <2>2. \A u \in Workers : work'[u].at = work[u].at
    BY <1>1, <2>1, OtherWorkers DEF Advances, Works
  <2>. QED
    BY <2>1, <2>2 DEF SwitchingIsKnown, SomeoneSwitches
<1>. QED
  BY <1>3, <1>4, <1>5, <1>6

-----------------------------------------------------------------------------
\* The queue and the counters keep their types.
LEMMA QueueTypes ==
  ASSUME TypeOK, Next
  PROVE  queued' \in Nat /\ dirty' \in BOOLEAN /\ handled' \in BOOLEAN /\ count' \in [Counted -> Nat]
         /\ deleting' \in BOOLEAN /\ height' \in Nat /\ made' \in Nat
<1>1. queued \in Nat /\ dirty \in BOOLEAN /\ handled \in BOOLEAN /\ count \in [Counted -> Nat]
      /\ deleting \in BOOLEAN /\ height \in Nat /\ made \in Nat /\ MaxCopies \in Nat
  BY BoundsAssumption DEF TypeOK
<1>2. \A n \in Nat : Copies(n) => queued' \in Nat
  BY <1>1 DEF Copies
<1>3. \A c \in Counted : Counts(c) => count' \in [Counted -> Nat]
  BY <1>1 DEF Counts, Counted
<1>4. \A w : ReturnNil(w) => queued' \in Nat /\ dirty' \in BOOLEAN /\ handled' \in BOOLEAN
  BY <1>1, <1>2 DEF ReturnNil
<1>5. \A w : ReturnError(w) => queued' \in Nat /\ dirty' \in BOOLEAN /\ handled' \in BOOLEAN
  BY <1>1, <1>2 DEF ReturnError
<1>6. Enqueue => queued' \in Nat /\ dirty' \in BOOLEAN /\ handled' \in BOOLEAN
  BY <1>1, <1>2 DEF Enqueue
<1>7. \A w, c : ReturnUpdate(w, c) =>
        queued' \in Nat /\ dirty' \in BOOLEAN /\ handled' \in BOOLEAN /\ count' \in [Counted -> Nat]
  BY <1>1, <1>3, <1>4, <1>5 DEF ReturnUpdate, Counted
<1>8. ASSUME NEW w \in Workers, WorkerStep(w) \/ CallFails(w) \/ CallFailsQuietly(w)
      PROVE  queued' \in Nat /\ dirty' \in BOOLEAN /\ handled' \in BOOLEAN /\ count' \in [Counted -> Nat]
             /\ UNCHANGED <<made, deleting, height>>
  <2>1. CASE Take(w)
    <3>1. queued' = queued - 1 /\ queued > 0
      BY <2>1 DEF Take
    <3>2. queued' \in Nat
      BY <1>1, <3>1
    <3>3. dirty' \in BOOLEAN /\ (handled' = TRUE \/ handled' = FALSE) /\ UNCHANGED <<made, deleting, height, count>>
      BY <2>1 DEF Take
    <3>. QED
      BY <1>1, <3>2, <3>3
  <2>2. CASE ReconcilePending(w) \/ ReconcileProposing(w) \/ ReconcileVoting(w) \/ ReconcileWaiting(w)
    BY <1>7, <2>2 DEF ReconcilePending, ReconcileProposing, ReconcileVoting, ReconcileWaiting
  <2>3. CASE ReconcileSwitching(w)
    BY <1>1, <1>7, <2>3 DEF ReconcileSwitching, queueVars
  <2>4. CASE ReconcileVerifying(w)
    BY <1>1, <1>4, <1>7, <2>4 DEF ReconcileVerifying, queueVars
  <2>5. CASE CallFails(w)
    <3>1. count' \in [Counted -> Nat]
      <4>1. \/ count' = [count EXCEPT !.upsets = @ + 1]
            \/ count' = [count EXCEPT !.upsets = @ + 1, !.retries = @ + 1]
        BY <2>5 DEF CallFails
      <4>2. "upsets" \in Counted /\ "retries" \in Counted
        BY DEF Counted
      <4>3. \A f \in [Counted -> Nat], k \in Counted : [f EXCEPT ![k] = @ + 1] \in [Counted -> Nat]
        OBVIOUS
      <4>. DEFINE one == [count EXCEPT !.upsets = @ + 1]
      <4>4. one \in [Counted -> Nat]
        BY <1>1, <4>2, <4>3
      <4>5. [count EXCEPT !.upsets = @ + 1, !.retries = @ + 1] = [one EXCEPT !.retries = @ + 1]
        OBVIOUS
      <4>. HIDE DEF one
      <4>6. [one EXCEPT !.retries = @ + 1] \in [Counted -> Nat]
        BY <4>2, <4>3, <4>4
      <4>. QED
        BY <4>1, <4>4, <4>5, <4>6 DEF one
    <3>. QED
      BY <1>4, <1>5, <2>5, <3>1 DEF CallFails
  <2>6. CASE CallFailsQuietly(w)
    BY <1>3, <1>4, <2>6 DEF CallFailsQuietly, Counted
  <2>. QED
    BY <1>8, <2>1, <2>2, <2>3, <2>4, <2>5, <2>6 DEF WorkerStep
<1>9. CASE Commands
  <2>1. count' \in [Counted -> Nat]
    BY <1>3, <1>9 DEF Commands, CreateUpgrade, CancelUpgrade, RetryUpgrade, DeleteUpgrade, DeleteUpgradesByDevnet, Counted
  <2>. QED
    <3>1. Enqueue \/ UNCHANGED queueVars
      BY <1>9 DEF Commands, CreateUpgrade, CancelUpgrade, RetryUpgrade, DeleteUpgrade, DeleteUpgradesByDevnet
    <3>2. queued' \in Nat /\ dirty' \in BOOLEAN /\ handled' \in BOOLEAN
      BY <1>1, <1>6, <3>1 DEF queueVars
    <3>3. /\ made' = made \/ made' = made + 1
          /\ deleting' = deleting \/ deleting' = TRUE
          /\ height' = height
      BY <1>9 DEF Commands, CreateUpgrade, CancelUpgrade, RetryUpgrade, DeleteUpgrade, DeleteUpgradesByDevnet
    <3>4. made' \in Nat /\ height' \in Nat
      BY <1>1, <3>3
    <3>5. deleting' \in BOOLEAN
      BY <1>1, <3>3
    <3>. QED
      BY <2>1, <3>2, <3>4, <3>5
<1>10. CASE DeleteReturns \/ Block \/ NodeStarts
  <2>1. UNCHANGED <<queued, dirty, handled, count, made>>
    BY <1>10 DEF DeleteReturns, Block, NodeStarts, queueVars
  <2>2. deleting' = deleting \/ deleting' = FALSE
    BY <1>10 DEF DeleteReturns, Block, NodeStarts
  <2>3. height' = height \/ height' = height + 1
    BY <1>10 DEF DeleteReturns, Block, NodeStarts
  <2>4. height' \in Nat
    BY <1>1, <2>3
  <2>5. deleting' \in BOOLEAN
    BY <1>1, <2>2
  <2>. QED
    BY <1>1, <2>1, <2>4, <2>5
<1>11. CASE NodeDies \/ DaemonRestart
  <2>1. count' \in [Counted -> Nat]
    BY <1>3, <1>11 DEF NodeDies, DaemonRestart, Counted
  <2>2. UNCHANGED <<made, height>>
    BY <1>11 DEF NodeDies, DaemonRestart
  <2>3. UNCHANGED <<queued, dirty, handled, deleting>> \/ (queued' = 0 /\ dirty' = FALSE /\ handled' = FALSE /\ deleting' = FALSE)
    BY <1>11 DEF NodeDies, DaemonRestart, queueVars
  <2>4. dirty' \in BOOLEAN /\ handled' \in BOOLEAN /\ deleting' \in BOOLEAN
    BY <1>1, <2>3
  <2>5. queued' \in Nat
    BY <1>1, <2>3
  <2>. QED
    BY <1>1, <2>1, <2>2, <2>4, <2>5
<1>. QED
  BY <1>1, <1>8, <1>9, <1>10, <1>11 DEF Next

\* A step of a worker keeps the invariant.
LEMMA WorkerKeeps ==
  ASSUME UpgradeIInv, NEW w \in Workers, WorkerStep(w) \/ CallFails(w) \/ CallFailsQuietly(w)
  PROVE  UpgradeIInv'
<1>1. TypeOK /\ CopiesMatch /\ RecordInv /\ BinariesInv /\ SwitchingIsKnown
  BY DEF UpgradeIInv, UpgradeInv
<1>2. /\ Takes(w) \/ Finishes(w) \/ Writes(w) \/ Switches(w) \/ Verifies(w)
      /\ UNCHANGED <<made, deleting, height, behind, overlap>>
  BY <1>1, WorkerEffects
<1>3. TypeOK'
  <2>1. up' \in Upgrades /\ work' \in [Workers -> Works] /\ nodes' \in [Node -> Nodes]
    BY <1>1, <1>2, WorkerTypes
  <2>2. Next
    BY DEF Next
  <2>3. behind' \in BOOLEAN /\ overlap' \in BOOLEAN
    BY <1>1, <1>2 DEF TypeOK
  <2>. QED
    BY <1>1, <2>1, <2>2, <2>3, QueueTypes DEF TypeOK
<1>4. CopiesMatch' /\ RecordInv'
  BY <1>1, <1>2, WorkerCopies
<1>5. SwitchesAfterHeight'
  BY <1>1, <1>2, WorkerHeights DEF UpgradeIInv
<1>6. BinariesInv' /\ CompletedMeansSwitched'
  BY <1>1, <1>2, WorkerBinaries DEF UpgradeIInv
<1>7. SwitchingIsKnown'
  BY <1>1, <1>2, WorkerKnown
<1>. QED
  BY <1>3, <1>4, <1>5, <1>6, <1>7 DEF UpgradeIInv, UpgradeInv

\* A step that leaves the workers, the nodes and the histories alone and writes a record
\* of the next generation, or none.
LEMMA RecordStep ==
  ASSUME UpgradeIInv, Next, UNCHANGED <<work, nodes, height, overlap>>, behind' \in BOOLEAN,
         up' \in Upgrades, up'.phase \in {"Pending", "Failed"}, up'.uid # 0,
         up'.cancelled => up'.phase = "Failed",
         (up'.uid = up.uid /\ up'.source = up.source /\ up'.gen = up.gen + 1) \/ ~Exists,
         SomeoneSwitches /\ ~behind' /\ ~overlap => ~behind /\ up'.phase = "Failed" /\ ~up'.cancelled
  PROVE  UpgradeIInv'
<1>1. TypeOK /\ CopiesMatch /\ RecordInv /\ BinariesInv /\ SwitchingIsKnown
  BY DEF UpgradeIInv, UpgradeInv
<1>2. TypeOK'
  <2>1. work' \in [Workers -> Works] /\ nodes' \in [Node -> Nodes] /\ overlap' \in BOOLEAN
    BY <1>1 DEF TypeOK
  <2>. QED
    BY <1>1, <2>1, QueueTypes DEF TypeOK
<1>3. RecordInv'
  BY <1>1 DEF RecordInv
<1>4. CopiesMatch'
  <2>. SUFFICES ASSUME ~overlap, NEW w \in Workers, work[w].at # "idle"
                PROVE  LET c == work[w].copy IN /\ c.uid = up'.uid /\ c.source = up'.source
                                               /\ c.gen <= up'.gen /\ c.gen # up'.gen
    BY DEF CopiesMatch
  <2>1. /\ work[w].copy.uid = up.uid /\ work[w].copy.source = up.source
        /\ work[w].copy.gen <= up.gen /\ work[w].copy.uid # 0
    BY <1>1 DEF CopiesMatch, RecordInv
  <2>2. work[w].copy.gen \in Nat /\ up.gen \in Nat
    BY <1>1 DEF TypeOK, Works, Upgrades
  <2>. QED
    BY <2>1, <2>2 DEF Exists
<1>5. BinariesInv' /\ CompletedMeansSwitched' /\ SwitchesAfterHeight'
  BY <1>1 DEF UpgradeIInv, BinariesInv, RunsPath, CompletedMeansSwitched, SwitchesAfterHeight
<1>6. SwitchingIsKnown'
  BY DEF SwitchingIsKnown, SomeoneSwitches
<1>. QED
  BY <1>2, <1>3, <1>4, <1>5, <1>6 DEF UpgradeIInv, UpgradeInv

\* The record of the upgrade is deleted.
LEMMA DeletionKeeps ==
  ASSUME UpgradeIInv, Next, UNCHANGED <<work, nodes, height, behind>>, up' = NoUpgrade, overlap' = (overlap \/ Busy)
  PROVE  UpgradeIInv'
<1>1. TypeOK /\ CopiesMatch /\ RecordInv /\ BinariesInv /\ SwitchingIsKnown
  BY DEF UpgradeIInv, UpgradeInv
<1>2. NoUpgrade \in Upgrades /\ NoUpgrade.phase = "Pending" /\ ~NoUpgrade.cancelled
  BY DEF NoUpgrade, Upgrades, Sources, Phases, Working
<1>3. TypeOK'
  <2>1. work' \in [Workers -> Works] /\ nodes' \in [Node -> Nodes]
    BY <1>1 DEF TypeOK
  <2>2. overlap' \in BOOLEAN /\ behind' \in BOOLEAN
    BY <1>1 DEF TypeOK
  <2>3. up' \in Upgrades
    BY <1>2
  <2>. QED
    BY <1>1, <2>1, <2>2, <2>3, QueueTypes DEF TypeOK
<1>4. ~overlap' => \A w \in Workers : work[w].at = "idle"
  BY DEF Busy
<1>5. CopiesMatch' /\ RecordInv' /\ SwitchingIsKnown'
  <2>1. RecordInv'
    BY <1>1, <1>2 DEF RecordInv
  <2>2. CopiesMatch'
    BY <1>4 DEF CopiesMatch
  <2>3. SwitchingIsKnown'
    BY <1>4 DEF SwitchingIsKnown, SomeoneSwitches
  <2>. QED
    BY <2>1, <2>2, <2>3
<1>6. BinariesInv' /\ CompletedMeansSwitched' /\ SwitchesAfterHeight'
  BY <1>1, <1>2, <1>4 DEF UpgradeIInv, BinariesInv, RunsPath, CompletedMeansSwitched, SwitchesAfterHeight
<1>. QED
  BY <1>3, <1>5, <1>6 DEF UpgradeIInv, UpgradeInv

\* The commands keep the invariant.
LEMMA CommandsKeep ==
  ASSUME UpgradeIInv, Next, Commands \/ DeleteReturns
  PROVE  UpgradeIInv'
<1>1. TypeOK /\ CopiesMatch /\ RecordInv /\ SwitchingIsKnown /\ up \in Upgrades /\ up.uid \in Nat /\ up.gen \in Nat /\ made \in Nat
  BY DEF UpgradeIInv, UpgradeInv, TypeOK, Upgrades
<1>2. behind \in BOOLEAN
  BY <1>1 DEF TypeOK
<1>3. CASE CreateUpgrade
  <2>1. PICK t \in {0, 1}, source \in Sources, named \in BOOLEAN :
          up' = [NoUpgrade EXCEPT !.uid = made + 1, !.gen = 1, !.target = t, !.source = source, !.named = named]
    BY <1>3 DEF CreateUpgrade
  <2>2. up' = [uid |-> made + 1, gen |-> 1, phase |-> "Pending", target |-> t, source |-> source,
               named |-> named, cancelled |-> FALSE]
    BY <2>1 DEF NoUpgrade
  <2>3. up' \in Upgrades /\ up'.phase = "Pending" /\ up'.uid # 0 /\ ~up'.cancelled
    BY <1>1, <2>2 DEF Upgrades, Phases, Working
  <2>4. ~Exists /\ UNCHANGED <<work, nodes, height, behind, overlap>>
    BY <1>3 DEF CreateUpgrade
  <2>5. ~(SomeoneSwitches /\ ~overlap)
    BY <1>1, <2>4 DEF SomeoneSwitches, Exists, RecordInv, CopiesMatch
  <2>. QED
    BY <1>2, <2>3, <2>4, <2>5, RecordStep
<1>4. CASE CancelUpgrade
  <2>. DEFINE n == [up EXCEPT !.phase = "Failed", !.cancelled = TRUE]
  <2>1. n \in Upgrades /\ n.uid = up.uid /\ n.source = up.source /\ n.gen = up.gen /\ n.phase = "Failed"
    BY <1>1 DEF Upgrades, Phases
  <2>2. up' = Stored(n)
    BY <1>4 DEF CancelUpgrade
  <2>. HIDE DEF n
  <2>3. up' \in Upgrades /\ up'.uid = up.uid /\ up'.source = up.source /\ up'.gen = up.gen + 1 /\ up'.phase = "Failed"
    BY <2>1, <2>2 DEF Stored, Upgrades
  <2>4. Exists /\ up.phase \in Working \ {"Switching", "Verifying"} /\ UNCHANGED <<work, nodes, height, behind, overlap>>
    BY <1>4 DEF CancelUpgrade
  <2>5. ~(SomeoneSwitches /\ ~behind /\ ~overlap)
    BY <1>1, <2>4 DEF SwitchingIsKnown, Working
  <2>. QED
    BY <1>2, <2>3, <2>4, <2>5, RecordStep DEF Exists
<1>5. CASE RetryUpgrade
  <2>. DEFINE n == [up EXCEPT !.phase = "Pending", !.cancelled = FALSE]
  <2>1. n \in Upgrades /\ n.uid = up.uid /\ n.source = up.source /\ n.gen = up.gen /\ n.phase = "Pending" /\ ~n.cancelled
    BY <1>1 DEF Upgrades, Phases, Working
  <2>2. up' = Stored(n)
    BY <1>5 DEF RetryUpgrade
  <2>. HIDE DEF n
  <2>3. up' \in Upgrades /\ up'.uid = up.uid /\ up'.source = up.source /\ up'.gen = up.gen + 1 /\ up'.phase = "Pending" /\ ~up'.cancelled
    BY <2>1, <2>2 DEF Stored, Upgrades
  <2>4. Exists /\ UNCHANGED <<work, nodes, height, overlap>> /\ behind' = (behind \/ SomeoneSwitches)
    BY <1>5 DEF RetryUpgrade
  <2>5. behind' \in BOOLEAN
    BY <1>2, <2>4
  <2>. QED
    BY <2>3, <2>4, <2>5, RecordStep DEF Exists
<1>6. CASE DeleteUpgrade
  <2>1. UNCHANGED <<up, work, height, nodes, behind, overlap>>
    BY <1>6 DEF DeleteUpgrade
  <2>2. TypeOK'
    <3>1. /\ up' \in Upgrades /\ work' \in [Workers -> Works] /\ nodes' \in [Node -> Nodes]
      BY <1>1, <2>1 DEF TypeOK
    <3>2. overlap' \in BOOLEAN /\ behind' \in BOOLEAN
      BY <1>1, <2>1 DEF TypeOK
    <3>. QED
      BY <1>1, <3>1, <3>2, QueueTypes DEF TypeOK
  <2>. QED
    BY <2>1, <2>2 DEF UpgradeIInv, UpgradeInv, CopiesMatch, RecordInv, BinariesInv, RunsPath,
         SwitchingIsKnown, SomeoneSwitches, SwitchesAfterHeight, CompletedMeansSwitched
<1>7. CASE DeleteReturns \/ DeleteUpgradesByDevnet
  BY <1>7, DeletionKeeps DEF DeleteReturns, DeleteUpgradesByDevnet
<1>. QED
  BY <1>3, <1>4, <1>5, <1>6, <1>7 DEF Commands

\* A step that leaves the record alone, sets no worker to work and leaves every node its path.
LEMMA NodeStep ==
  ASSUME UpgradeIInv, Next, UNCHANGED <<up, behind, overlap>>, NodesKeep,
         nodes' \in [Node -> Nodes], height' >= height, height' \in Nat, work' \in [Workers -> Works],
         \A w \in Workers : work'[w] = work[w] \/ work'[w].at = "idle"
  PROVE  UpgradeIInv'
<1>1. TypeOK /\ CopiesMatch /\ RecordInv /\ BinariesInv /\ SwitchingIsKnown
  BY DEF UpgradeIInv, UpgradeInv
<1>2. Validator \subseteq Node
  BY ValidatorsAreNodes
<1>3. TypeOK'
  <2>1. up' \in Upgrades
    BY <1>1 DEF TypeOK
  <2>2. overlap' \in BOOLEAN /\ behind' \in BOOLEAN
    BY <1>1 DEF TypeOK
  <2>. QED
    BY <1>1, <2>1, <2>2, QueueTypes DEF TypeOK
<1>4. CopiesMatch' /\ RecordInv'
  BY <1>1 DEF CopiesMatch, RecordInv
<1>5. SwitchingIsKnown'
  BY <1>1 DEF SwitchingIsKnown, SomeoneSwitches
<1>6. SwitchesAfterHeight'
  <2>1. height \in Nat /\ up.target \in Nat /\ \A w \in Workers : work[w].copy.target \in Nat
    BY <1>1 DEF TypeOK, Upgrades, Works
  <2>. QED
    BY <2>1 DEF UpgradeIInv, SwitchesAfterHeight
<1>7. \A i \in Validator : /\ \A s : IsSwitched(nodes[i], s) => IsSwitched(nodes'[i], s)
                           /\ HasVersion(nodes[i]) => HasVersion(nodes'[i])
  BY <1>2, KeptNode DEF NodesKeep
<1>8. CompletedMeansSwitched'
  BY <1>7 DEF UpgradeIInv, CompletedMeansSwitched
<1>9. BinariesInv'
  <2>1. RunsPath'
    BY DEF NodesKeep
  <2>2. ~overlap /\ up'.phase = "Verifying" => \A i \in Validator : IsSwitched(nodes'[i], up'.source)
    BY <1>1, <1>7 DEF BinariesInv
  <2>3. ASSUME ~overlap, NEW w \in Workers, work'[w].at = "Switching", NEW i \in Validator, i < work'[w].next
        PROVE  IsSwitched(nodes'[i], work'[w].copy.source)
    <3>1. work'[w] = work[w]
      BY <2>3
    <3>. QED
      BY <1>1, <1>7, <2>3, <3>1 DEF BinariesInv
  <2>4. ASSUME ~overlap, NEW w \in Workers, work'[w].at = "Verifying", NEW i \in Validator
        PROVE  /\ IsSwitched(nodes'[i], work'[w].copy.source)
               /\ work'[w].copy.named /\ i < work'[w].next => HasVersion(nodes'[i])
    <3>1. work'[w] = work[w]
      BY <2>4
    <3>. QED
      BY <1>1, <1>7, <2>4, <3>1 DEF BinariesInv
  <2>. QED
    BY <2>1, <2>2, <2>3, <2>4 DEF BinariesInv
<1>. QED
  BY <1>3, <1>4, <1>5, <1>6, <1>8, <1>9 DEF UpgradeIInv, UpgradeInv

\* The steps of the chain and of the nodes, and a restart of the daemon.
LEMMA WorldKeeps ==
  ASSUME UpgradeIInv, Next, Block \/ NodeStarts \/ NodeDies \/ DaemonRestart
  PROVE  UpgradeIInv'
<1>1. TypeOK /\ BinariesInv
  BY DEF UpgradeIInv, UpgradeInv
<1>2. nodes \in [Node -> Nodes] /\ work \in [Workers -> Works] /\ height \in Nat
  BY <1>1 DEF TypeOK
<1>3. UNCHANGED nodes => NodesKeep /\ nodes' \in [Node -> Nodes]
  BY <1>1, <1>2 DEF NodesKeep, Kept, BinariesInv, RunsPath
<1>4. CASE Block
  <2>1. height' = height + 1 /\ UNCHANGED <<up, behind, overlap, nodes, work>>
    BY <1>4 DEF Block
  <2>2. height' \in Nat /\ height' >= height
    BY <1>2, <2>1
  <2>. QED
    BY <1>2, <1>3, <2>1, <2>2, NodeStep
<1>5. CASE NodeStarts
  <2>1. UNCHANGED <<up, behind, overlap, height, work>> /\ height' >= height
    BY <1>2, <1>5 DEF NodeStarts
  <2>2. PICK i \in Node : nodes' = [nodes EXCEPT ![i].phase = "Running", ![i].runs = Started(nodes[i].bin)]
    BY <1>5 DEF NodeStarts
  <2>3. Started(nodes[i].bin) \in Binaries
    BY <1>2, DefaultAssumption DEF Started, Nodes, Binaries
  <2>4. nodes' \in [Node -> Nodes] /\ nodes'[i].bin = nodes[i].bin /\ nodes'[i].runs = Started(nodes[i].bin)
        /\ \A j \in Node : j # i => nodes'[j] = nodes[j]
    BY <1>2, <2>2, <2>3 DEF Nodes
  <2>5. NodesKeep
    BY <1>1, <2>4 DEF NodesKeep, Kept, BinariesInv, RunsPath
  <2>. QED
    BY <1>2, <2>1, <2>4, <2>5, NodeStep
<1>6. CASE NodeDies
  <2>1. UNCHANGED <<up, behind, overlap, height, work>> /\ height' >= height
    BY <1>2, <1>6 DEF NodeDies
  <2>2. PICK i \in Node : nodes' = [nodes EXCEPT ![i].phase = "Down"]
    BY <1>6 DEF NodeDies
  <2>3. nodes' \in [Node -> Nodes] /\ nodes'[i].bin = nodes[i].bin /\ nodes'[i].runs = nodes[i].runs /\ nodes'[i].phase = "Down"
        /\ \A j \in Node : j # i => nodes'[j] = nodes[j]
    BY <1>2, <2>2 DEF Nodes
  <2>4. NodesKeep
    BY <1>1, <2>3 DEF NodesKeep, Kept, BinariesInv, RunsPath
  <2>. QED
    BY <1>2, <2>1, <2>3, <2>4, NodeStep
<1>7. CASE DaemonRestart
  <2>1. UNCHANGED <<up, behind, overlap, height, nodes>> /\ height' >= height /\ work' = [w \in Workers |-> IdleWork]
    BY <1>2, <1>7 DEF DaemonRestart
  <2>2. NoUpgrade \in Upgrades
    BY DEF NoUpgrade, Upgrades, Sources, Phases, Working
  <2>3. IdleWork \in Works /\ IdleWork.at = "idle"
    BY <2>2 DEF IdleWork, Works
  <2>. QED
    BY <1>2, <1>3, <2>1, <2>3, NodeStep
<1>. QED
  BY <1>4, <1>5, <1>6, <1>7

\* Every step keeps the invariant.
LEMMA NextUpgrade == UpgradeIInv /\ [Next]_vars => UpgradeIInv'
<1>. SUFFICES ASSUME UpgradeIInv, [Next]_vars PROVE UpgradeIInv'
  OBVIOUS
<1>1. CASE Next
  <2>1. ASSUME NEW w \in Workers, WorkerStep(w) \/ CallFails(w) \/ CallFailsQuietly(w)
        PROVE  UpgradeIInv'
    BY <2>1, WorkerKeeps
  <2>2. CASE Commands \/ DeleteReturns
    BY <1>1, <2>2, CommandsKeep
  <2>3. CASE Block \/ NodeStarts \/ NodeDies \/ DaemonRestart
    BY <1>1, <2>3, WorldKeeps
  <2>. QED
    BY <1>1, <2>1, <2>2, <2>3 DEF Next
<1>2. CASE UNCHANGED vars
  BY <1>2 DEF vars, queueVars, UpgradeIInv, UpgradeInv, TypeOK, CopiesMatch, RecordInv, BinariesInv, RunsPath,
       SwitchingIsKnown, SomeoneSwitches, SwitchesAfterHeight, CompletedMeansSwitched
<1>. QED
  BY <1>1, <1>2

-----------------------------------------------------------------------------
\* The inductive invariant holds in every state.
LEMMA UpgradeInductive == Spec => []UpgradeIInv
BY InitUpgrade, NextUpgrade, PTL DEF Spec

\* What makes the conditional write at the end of a reconcile safe: unless the upgrade was
\* deleted under a worker, a write that is accepted is made from the record itself.
THEOREM UpgradeInvariant == Spec => []UpgradeInv
<1>1. UpgradeIInv => UpgradeInv
  BY DEF UpgradeIInv
<1>. QED
  BY <1>1, UpgradeInductive, PTL

\* No validator gets the new binary before the chain has reached the target height,
\* however many workers are at the upgrade (reconcileWaiting, reconcileSwitching).
THEOREM SwitchAfterHeight == Spec => []SwitchesAfterHeight
<1>1. UpgradeIInv => SwitchesAfterHeight
  BY DEF UpgradeIInv
<1>. QED
  BY <1>1, UpgradeInductive, PTL

\* An upgrade that reconcileVerifying has completed has left every validator with the binary
\* of its source, whatever late workers of the upgrade do, and with the version it names.
THEOREM CompletedIsSwitched == Spec => []CompletedMeansSwitched
<1>1. UpgradeIInv => CompletedMeansSwitched
  BY DEF UpgradeIInv
<1>. QED
  BY <1>1, UpgradeInductive, PTL

\* After CancelUpgrade no worker switches a binary, unless it has missed a retry or a deletion.
THEOREM CancellationHolds == Spec => []CancelledSwitchesNothing
<1>1. UpgradeIInv => CancelledSwitchesNothing
  BY DEF UpgradeIInv, UpgradeInv, SwitchingIsKnown, CancelledSwitchesNothing
<1>. QED
  BY <1>1, UpgradeInductive, PTL

\* A saved failure or cancellation is taken back by RetryUpgrade alone, never by the write of
\* a reconcile that began before it.
THEOREM FailuresStand == Spec => FailureStands
<1>. DEFINE A == up.phase = "Failed" /\ ~overlap /\ up'.uid = up.uid /\ up'.phase # "Failed"
                   => up'.phase = "Pending" /\ count'.commands > count.commands
<1>1. UpgradeIInv /\ [Next]_vars => [A]_vars
  <2>. SUFFICES ASSUME UpgradeIInv, Next, up.phase = "Failed", ~overlap, up'.uid = up.uid, up'.phase # "Failed"
                PROVE  up'.phase = "Pending" /\ count'.commands > count.commands
    OBVIOUS
  <2>1. TypeOK /\ CopiesMatch /\ RecordInv /\ up \in Upgrades /\ count \in [Counted -> Nat]
    BY DEF UpgradeIInv, UpgradeInv, TypeOK
  <2>2. Exists
    BY <2>1 DEF Exists, RecordInv, NoUpgrade
  <2>3. ASSUME NEW w \in Workers, WorkerStep(w) \/ CallFails(w) \/ CallFailsQuietly(w)
        PROVE  FALSE
    <3>1. Writes(w)
      BY <2>1, <2>3, WorkerEffects DEF Takes, Finishes, Switches, Verifies
    <3>2. work[w].at # "idle" /\ work[w].copy = up
      BY <2>1, <3>1 DEF Writes, Accepts, CopiesMatch
    <3>3. work[w].at = "Failed"
      BY <2>1, <3>2 DEF RecordInv
    <3>. QED
      BY <2>1, <3>3 DEF TypeOK, Works, Working
  <2>4. CASE RetryUpgrade
    <3>. DEFINE n == [up EXCEPT !.phase = "Pending", !.cancelled = FALSE]
    <3>1. n \in Upgrades /\ n.phase = "Pending"
      BY <2>1 DEF Upgrades, Phases, Working
    <3>2. up' = Stored(n) /\ count' = [count EXCEPT !["commands"] = @ + 1]
      BY <2>4 DEF RetryUpgrade, Counts
    <3>. HIDE DEF n
    <3>3. up'.phase = "Pending"
      BY <3>1, <3>2 DEF Stored, Upgrades
    <3>4. count'.commands > count.commands
      BY <2>1, <3>2 DEF Counted
    <3>. QED
      BY <3>3, <3>4
  <2>5. CASE CancelUpgrade \/ CreateUpgrade
    BY <2>2, <2>5 DEF CancelUpgrade, CreateUpgrade, Working
  <2>6. CASE DeleteUpgrade \/ Block \/ NodeStarts \/ NodeDies \/ DaemonRestart
    BY <2>6 DEF DeleteUpgrade, Block, NodeStarts, NodeDies, DaemonRestart
  <2>7. CASE DeleteReturns \/ DeleteUpgradesByDevnet
    BY <2>2, <2>7 DEF DeleteReturns, DeleteUpgradesByDevnet, Exists, NoUpgrade
  <2>. QED
    BY <2>3, <2>4, <2>5, <2>6, <2>7 DEF Next, Commands
<1>. QED
  BY <1>1, UpgradeInductive, PTL DEF Spec, FailureStands
=============================================================================
