-------------------------- MODULE UpgradeController --------------------------
(***************************************************************************)
(* A chain upgrade in the daemon: the record of one upgrade, the commands  *)
(* of the UpgradeService, the workers of the UpgradeController and the     *)
(* nodes whose binaries they switch.                                       *)
(*                                                                         *)
(* A reconcile reads the record, does the work of its phase and ends with  *)
(* a conditional write that moves the record to the next phase; nothing    *)
(* queues the upgrade again after that write.  What takes it further is    *)
(* another key in the queue: CreateUpgrade and RetryUpgrade add one, and a *)
(* reconcile that fails leaves two (WorkQueue).  Then two workers may do   *)
(* the work of one phase, or of two phases, at the same time.              *)
(*                                                                         *)
(* An upgrade created again under the same name counts its generations     *)
(* from one again; "uid" tells the two apart in the properties.  Votes,    *)
(* proposals and exports leave nothing behind that the daemon reads: the   *)
(* runtime only simulates them.                                            *)
(***************************************************************************)
EXTENDS Integers

CONSTANTS
  Workers,      \* the workers of the UpgradeController
  Validators,   \* number of validators of the devnet: nodes 0 .. Validators - 1
  FullNodes,    \* number of its other nodes
  Default,      \* what a node without a binary path runs: "none" as a process, the
                \* runtime's own image, "old" or "new", with Docker
  Offset,       \* blocks from now to the height an upgrade gets by default: 100 in the code
  MaxHeight,    \* bound: block height
  MaxCommands,  \* bound: number of commands
  MaxUpsets,    \* bound: number of calls to the chain or to a node that fail
  MaxRetries,   \* bound: number of reconciles that return an error
  MaxCopies     \* bound: copies of the key in the queue

ASSUME SizesAssumption == Validators \in Nat \ {0} /\ FullNodes \in Nat /\ Offset \in Nat \ {0}
ASSUME DefaultAssumption == Default \in {"none", "old", "new"}
ASSUME BoundsAssumption == /\ MaxHeight \in Nat /\ MaxCommands \in Nat /\ MaxUpsets \in Nat
                           /\ MaxRetries \in Nat /\ MaxCopies \in Nat \ {0}

VARIABLES
  up,       \* the stored record; uid 0 when there is none
  made,     \* number of upgrades created so far
  queued,   \* how often its key is in the queue
  dirty,    \* the queue has marked it as needing work
  handled,  \* the queue takes it for being processed
  work,     \* what each worker is doing
  deleting, \* a DeleteUpgrade has found the upgrade in a phase that may be deleted
  height,   \* block height of the chain
  nodes,    \* the nodes of the devnet
  behind,   \* history: the upgrade was retried while a worker was switching binaries
  overlap,  \* history: the upgrade was deleted while a worker was busy with it
  count     \* number of commands, failed calls and failed reconciles so far

queueVars == <<queued, dirty, handled>>
vars == <<up, made, queueVars, work, deleting, height, nodes, behind, overlap, count>>

Validator == 0 .. Validators - 1
Node == 0 .. Validators + FullNodes - 1

Working == {"Pending", "Proposing", "Voting", "Waiting", "Switching", "Verifying"}
Phases == Working \cup {"Completed", "Failed"}

\* What the source of an upgrade's binary gives a node: the new binary, no path at all
\* (types cache, github, local and url without one; cache is what the client asks for),
\* or, for other types without one, the path it has.
Sources == {"new", "none", "kept"}

\* target 0 asks for the default height; named says whether the new binary's version
\* is given, cancelled whether the failure recorded is a cancellation.
Upgrades == [uid : Nat, gen : Nat, phase : Phases, target : Nat, source : Sources,
             named : BOOLEAN, cancelled : BOOLEAN]

\* The binary a node is to run, its phase, and the binary it was last started with.
Binaries == {"none", "old", "new"}
Nodes == [bin : Binaries, phase : {"Running", "Pending", "Down"}, runs : Binaries]
Works == [at : Working \cup {"idle"}, copy : Upgrades, next : Nat]
Counted == {"commands", "upsets", "retries"}

TypeOK ==
  /\ up \in Upgrades /\ made \in Nat
  /\ queued \in Nat /\ dirty \in BOOLEAN /\ handled \in BOOLEAN
  /\ work \in [Workers -> Works]
  /\ deleting \in BOOLEAN /\ height \in Nat /\ behind \in BOOLEAN /\ overlap \in BOOLEAN
  /\ nodes \in [Node -> Nodes]
  /\ count \in [Counted -> Nat]

NoUpgrade == [uid |-> 0, gen |-> 0, phase |-> "Pending", target |-> 0, source |-> "new",
              named |-> FALSE, cancelled |-> FALSE]
IdleWork == [at |-> "idle", copy |-> NoUpgrade, next |-> 0]

Init ==
  /\ up = NoUpgrade /\ made = 0
  /\ queued = 0 /\ dirty = FALSE /\ handled = FALSE
  /\ work = [w \in Workers |-> IdleWork]
  /\ deleting = FALSE /\ height = 0 /\ behind = FALSE /\ overlap = FALSE
  /\ nodes = [i \in Node |-> [bin |-> "old", phase |-> "Running", runs |-> "old"]]
  /\ count = [c \in Counted |-> 0]

Limit == [commands |-> MaxCommands, upsets |-> MaxUpsets, retries |-> MaxRetries]
Counts(c) == count[c] < Limit[c] /\ count' = [count EXCEPT ![c] = @ + 1]

Exists == up.uid # 0
Busy == \E w \in Workers : work[w].at # "idle"
SomeoneSwitches == \E w \in Workers : work[w].at = "Switching"

-----------------------------------------------------------------------------
(* The queue, as its callers see it, and the conditional write.              *)

Copies(n) == queued' = IF queued + n > MaxCopies THEN MaxCopies ELSE queued + n

Enqueue ==
  /\ dirty' = TRUE
  /\ Copies(IF dirty \/ handled THEN 0 ELSE 1)
  /\ UNCHANGED handled

Accepts(c) == Exists /\ up.gen = c.gen

\* Faulty variant, used only to show that the properties notice it: the generation is
\* not counted.
StoredUncounted(c) == c

Stored(c) == [c EXCEPT !.gen = @ + 1]

\* Reconcile returns nil, or an error: the queue's Done, after Requeue in that case.
ReturnNil(w) ==
  /\ work' = [work EXCEPT ![w] = IdleWork]
  /\ handled' = FALSE
  /\ Copies(IF dirty THEN 1 ELSE 0)
  /\ UNCHANGED dirty

ReturnError(w) ==
  /\ work' = [work EXCEPT ![w] = IdleWork]
  /\ handled' = FALSE /\ dirty' = TRUE
  /\ Copies(2)

\* The reconcile ends with the conditional write of c.
ReturnUpdate(w, c) ==
  \/ Accepts(c) /\ up' = Stored(c) /\ ReturnNil(w) /\ UNCHANGED count
  \/ ~Accepts(c) /\ UNCHANGED up /\ ReturnError(w) /\ Counts("retries")

\* SwitchNodeBinary: the path of a node after an upgrade from this source.
Switched(bin, source) == IF source = "kept" THEN bin ELSE source

\* What a node with this path is started with; no process starts without a path.
Started(bin) == IF bin = "none" THEN Default ELSE bin

Moved(w, p) == [work[w].copy EXCEPT !.phase = p]

-----------------------------------------------------------------------------
(* The workers.                                                              *)

\* The worker takes the key and reads the record.
Take(w) ==
  /\ work[w].at = "idle" /\ queued > 0
  /\ queued' = queued - 1 /\ dirty' = FALSE
  /\ \/ /\ Exists /\ up.phase \in Working
        /\ work' = [work EXCEPT ![w] = [at |-> up.phase, copy |-> up, next |-> 0]]
        /\ handled' = TRUE
     \/ /\ ~Exists \/ up.phase \notin Working
        /\ handled' = FALSE /\ UNCHANGED work
  /\ UNCHANGED <<up, made, deleting, height, nodes, behind, overlap, count>>

ReconcilePending(w) ==
  /\ work[w].at = "Pending"
  /\ LET c == Moved(w, "Proposing") IN
       ReturnUpdate(w, [c EXCEPT !.target = IF @ = 0 THEN height + Offset ELSE @])
  /\ UNCHANGED <<made, deleting, height, nodes, behind, overlap>>

ReconcileProposing(w) ==
  /\ work[w].at = "Proposing"
  /\ ReturnUpdate(w, Moved(w, "Voting"))
  /\ UNCHANGED <<made, deleting, height, nodes, behind, overlap>>

\* The votes are cast and counted; the proposal has passed.
ReconcileVoting(w) ==
  /\ work[w].at = "Voting"
  /\ ReturnUpdate(w, Moved(w, "Waiting"))
  /\ UNCHANGED <<made, deleting, height, nodes, behind, overlap>>

\* Faulty variant: the height is not compared.
ReconcileWaitingUnchecked(w) ==
  /\ work[w].at = "Waiting"
  /\ ReturnUpdate(w, Moved(w, "Switching"))
  /\ UNCHANGED <<made, deleting, height, nodes, behind, overlap>>

\* The current height is saved in any case; the generation moves with it.
ReconcileWaiting(w) ==
  /\ work[w].at = "Waiting"
  /\ ReturnUpdate(w, Moved(w, IF height < work[w].copy.target THEN "Waiting" ELSE "Switching"))
  /\ UNCHANGED <<made, deleting, height, nodes, behind, overlap>>

\* Faulty variant: the last validator keeps its binary.
ReconcileSwitchingShort(w) ==
  /\ work[w].at = "Switching"
  /\ \/ /\ work[w].next < Validators - 1
        /\ nodes' = [nodes EXCEPT ![work[w].next].bin = Switched(@, work[w].copy.source),
                                   ![work[w].next].phase = "Pending"]
        /\ work' = [work EXCEPT ![w].next = @ + 1]
        /\ UNCHANGED <<up, queueVars, count>>
     \/ /\ work[w].next = Validators - 1
        /\ ReturnUpdate(w, Moved(w, "Verifying"))
        /\ UNCHANGED nodes
  /\ UNCHANGED <<made, deleting, height, behind, overlap>>

\* One validator after the other gets the path of the new binary, if the upgrade has one,
\* and is set to Pending, which nothing tells its controller; then the write.
ReconcileSwitching(w) ==
  /\ work[w].at = "Switching"
  /\ \/ /\ work[w].next < Validators
        /\ nodes' = [nodes EXCEPT ![work[w].next].bin = Switched(@, work[w].copy.source),
                                   ![work[w].next].phase = "Pending"]
        /\ work' = [work EXCEPT ![w].next = @ + 1]
        /\ UNCHANGED <<up, queueVars, count>>
     \/ /\ work[w].next = Validators
        /\ ReturnUpdate(w, Moved(w, "Verifying"))
        /\ UNCHANGED nodes
  /\ UNCHANGED <<made, deleting, height, behind, overlap>>

\* VerifyNodeVersion.
Verified(w, n) == n.phase = "Running" /\ (work[w].copy.named => n.runs = "new")

\* One validator after the other is looked at; the first that is not verified ends
\* the reconcile without an error.
ReconcileVerifying(w) ==
  /\ work[w].at = "Verifying"
  /\ \/ /\ work[w].next < Validators /\ Verified(w, nodes[work[w].next])
        /\ work' = [work EXCEPT ![w].next = @ + 1]
        /\ UNCHANGED <<up, queueVars, count>>
     \/ /\ work[w].next < Validators /\ ~Verified(w, nodes[work[w].next])
        /\ ReturnNil(w) /\ UNCHANGED <<up, count>>
     \/ /\ work[w].next = Validators
        /\ ReturnUpdate(w, Moved(w, "Completed"))
  /\ UNCHANGED <<made, deleting, height, nodes, behind, overlap>>

\* A call fails where the handler gives the upgrade up (setFailed): the height or the
\* validator count in Pending, the proposal, a switch of a binary, the validator
\* count in Switching and Verifying.
CallFails(w) ==
  /\ work[w].at \in {"Pending", "Proposing", "Switching", "Verifying"}
  /\ count.upsets < MaxUpsets
  /\ LET c == Moved(w, "Failed") IN
       \/ /\ Accepts(c) /\ up' = Stored(c) /\ ReturnNil(w)
          /\ count' = [count EXCEPT !.upsets = @ + 1]
       \/ /\ ~Accepts(c) /\ UNCHANGED up /\ ReturnError(w)
          /\ count.retries < MaxRetries
          /\ count' = [count EXCEPT !.upsets = @ + 1, !.retries = @ + 1]
  /\ UNCHANGED <<made, deleting, height, nodes, behind, overlap>>

\* A call fails where the handler leaves it to the next reconcile: the status of the
\* proposal, the height in Waiting, the version of a node.
CallFailsQuietly(w) ==
  /\ work[w].at \in {"Voting", "Waiting", "Verifying"}
  /\ Counts("upsets")
  /\ ReturnNil(w)
  /\ UNCHANGED <<up, made, deleting, height, nodes, behind, overlap>>

-----------------------------------------------------------------------------
(* The commands.                                                             *)

CreateUpgrade ==
  /\ ~Exists /\ Counts("commands")
  /\ \E t \in {0, 1}, source \in Sources, named \in BOOLEAN :
       up' = [NoUpgrade EXCEPT !.uid = made + 1, !.gen = 1, !.target = t,
                               !.source = source, !.named = named]
  /\ made' = made + 1
  /\ Enqueue
  /\ UNCHANGED <<work, deleting, height, nodes, behind, overlap>>

\* Faulty variant: an upgrade is cancelled in any phase that is not final.
CancelUpgradeAlways ==
  /\ Exists /\ up.phase \in Working
  /\ Counts("commands")
  /\ up' = Stored([up EXCEPT !.phase = "Failed", !.cancelled = TRUE])
  /\ UNCHANGED <<made, queueVars, work, deleting, height, nodes, behind, overlap>>

CancelUpgrade ==
  /\ Exists /\ up.phase \in Working \ {"Switching", "Verifying"}
  /\ Counts("commands")
  /\ up' = Stored([up EXCEPT !.phase = "Failed", !.cancelled = TRUE])
  /\ UNCHANGED <<made, queueVars, work, deleting, height, nodes, behind, overlap>>

\* The upgrade starts over with what it has, its target height included.
RetryUpgrade ==
  /\ Exists /\ up.phase = "Failed"
  /\ Counts("commands")
  /\ up' = Stored([up EXCEPT !.phase = "Pending", !.cancelled = FALSE])
  /\ behind' = (behind \/ SomeoneSwitches)
  /\ Enqueue
  /\ UNCHANGED <<made, work, deleting, height, nodes, overlap>>

\* DeleteUpgrade looks at the phase and then deletes whatever is there.
DeleteUpgrade ==
  /\ ~deleting /\ Exists /\ up.phase \in {"Pending", "Completed", "Failed"}
  /\ Counts("commands")
  /\ deleting' = TRUE
  /\ UNCHANGED <<up, made, queueVars, work, height, nodes, behind, overlap>>

DeleteReturns ==
  /\ deleting /\ deleting' = FALSE
  /\ up' = NoUpgrade /\ overlap' = (overlap \/ Busy)
  /\ UNCHANGED <<made, queueVars, work, height, nodes, behind, count>>

\* DeleteDevnet deletes the upgrades of the devnet in whatever phase they are.
DeleteUpgradesByDevnet ==
  /\ Exists /\ Counts("commands")
  /\ up' = NoUpgrade /\ overlap' = (overlap \/ Busy)
  /\ UNCHANGED <<made, queueVars, work, deleting, height, nodes, behind>>

-----------------------------------------------------------------------------
(* The chain and the nodes.                                                  *)

Block ==
  /\ height < MaxHeight /\ height' = height + 1
  /\ UNCHANGED <<up, made, queueVars, work, deleting, nodes, behind, overlap, count>>

\* A node is started with the binary it is to run.
NodeStarts ==
  /\ \E i \in Node :
       /\ nodes[i].phase # "Running" /\ Started(nodes[i].bin) # "none"
       /\ nodes' = [nodes EXCEPT ![i].phase = "Running", ![i].runs = Started(nodes[i].bin)]
  /\ UNCHANGED <<up, made, queueVars, work, deleting, height, behind, overlap, count>>

NodeDies ==
  /\ Counts("upsets")
  /\ \E i \in Node : nodes[i].phase = "Running" /\ nodes' = [nodes EXCEPT ![i].phase = "Down"]
  /\ UNCHANGED <<up, made, queueVars, work, deleting, height, behind, overlap>>

\* The daemon dies and starts again; nothing puts upgrades back into the queue.
DaemonRestart ==
  /\ Counts("upsets")
  /\ work' = [w \in Workers |-> IdleWork] /\ deleting' = FALSE
  /\ queued' = 0 /\ dirty' = FALSE /\ handled' = FALSE
  /\ UNCHANGED <<up, made, height, nodes, behind, overlap>>

WorkerStep(w) ==
  \/ Take(w) \/ ReconcilePending(w) \/ ReconcileProposing(w) \/ ReconcileVoting(w)
  \/ ReconcileWaiting(w) \/ ReconcileSwitching(w) \/ ReconcileVerifying(w)

Commands == CreateUpgrade \/ CancelUpgrade \/ RetryUpgrade \/ DeleteUpgrade \/ DeleteUpgradesByDevnet

Next ==
  \/ \E w \in Workers : WorkerStep(w) \/ CallFails(w) \/ CallFailsQuietly(w)
  \/ Commands \/ DeleteReturns \/ Block \/ NodeStarts \/ NodeDies \/ DaemonRestart

Spec == Init /\ [][Next]_vars

\* A worker never stops between two steps, and an idle one takes the next key.
FairSpec == Spec /\ \A w \in Workers : WF_vars(WorkerStep(w))

-----------------------------------------------------------------------------
(* Properties.                                                               *)

\* No node is given the new binary before the chain has reached the height that the
\* proposal names: the record is Switching or later, and a worker holds it as such,
\* only at that height, also after a cancellation, a retry with the old height, a
\* deletion, and with two workers on the upgrade.
SwitchesAfterHeight ==
  /\ up.phase \in {"Switching", "Verifying", "Completed"} => height >= up.target
  /\ \A w \in Workers : work[w].at \in {"Switching", "Verifying"} => height >= work[w].copy.target

\* The node has the path that the source gives; it has run the new version and keeps to it.
IsSwitched(n, source) == n.bin = Switched(n.bin, source)
HasVersion(n) == n.runs = "new" /\ Started(n.bin) = "new"

\* An upgrade that is Completed has left every validator with the binary its source gives,
\* the new one if there is one, and if it names the version every validator has run that
\* version and is started with it again: late workers of the same upgrade take nothing
\* back.  (One that was switching when its upgrade was deleted may, from another source.)
\* Without a version an upgrade from a source that gives no binary is Completed too.
CompletedMeansSwitched ==
  up.phase = "Completed" /\ ~overlap =>
    \A i \in Validator :
      IsSwitched(nodes[i], up.source) /\ (up.named => HasVersion(nodes[i]))

\* Once a user has cancelled an upgrade no binary is switched any more: no worker is
\* behind with a switch that the cancellation did not see.  (One that was switching
\* when the upgrade failed and was retried, or was deleted, is not stopped.)
CancelledSwitchesNothing ==
  up.phase = "Failed" /\ up.cancelled /\ ~behind /\ ~overlap => ~SomeoneSwitches

\* A failure or a cancellation that was saved is taken back by RetryUpgrade alone,
\* never by the write of a reconcile that began before it, unless the upgrade was
\* deleted while a worker was busy with it.
FailureStands ==
  [][up.phase = "Failed" /\ ~overlap /\ up'.uid = up.uid /\ up'.phase # "Failed"
       => up'.phase = "Pending" /\ count'.commands > count.commands]_vars

\* Unless the upgrade was deleted under a worker, the copy a worker holds is of this
\* upgrade, is never ahead of the record, and is the record itself when the
\* generations agree, so a write that is accepted loses no change made meanwhile.
CopiesMatch ==
  ~overlap => \A w \in Workers : work[w].at # "idle" =>
    LET c == work[w].copy IN
      c.uid = up.uid /\ c.source = up.source /\ c.gen <= up.gen /\ (c.gen = up.gen => c = up)

\* A worker is busy with an upgrade that is there, in the phase it has read, and neither
\* that copy nor a record that is not Failed is cancelled.
RecordInv ==
  /\ up.uid = 0 => up = NoUpgrade
  /\ up.cancelled => up.phase = "Failed"
  /\ \A w \in Workers : work[w].at # "idle" =>
       work[w].copy.phase = work[w].at /\ work[w].copy.uid # 0 /\ ~work[w].copy.cancelled

\* A running node runs what its path says.  Unless the upgrade was deleted under a worker,
\* all workers switch to the same path, so each counts on the nodes behind it: those it has
\* switched, and those it has seen running the version.
RunsPath == \A i \in Node : nodes[i].phase = "Running" => nodes[i].runs = Started(nodes[i].bin)

BinariesInv ==
  /\ RunsPath
  /\ ~overlap =>
       /\ up.phase = "Verifying" => \A i \in Validator : IsSwitched(nodes[i], up.source)
       /\ \A w \in Workers :
            /\ work[w].at = "Switching" =>
                 \A i \in Validator : i < work[w].next => IsSwitched(nodes[i], work[w].copy.source)
            /\ work[w].at = "Verifying" =>
                 /\ \A i \in Validator : IsSwitched(nodes[i], work[w].copy.source)
                 /\ work[w].copy.named => \A i \in Validator : i < work[w].next => HasVersion(nodes[i])

\* A worker that is switching is known to the record, or has missed a retry or a deletion.
SwitchingIsKnown ==
  SomeoneSwitches /\ ~behind /\ ~overlap =>
    up.phase \in {"Switching", "Verifying", "Completed"} \/ (up.phase = "Failed" /\ ~up.cancelled)

\* What makes the conditional write of a phase safe: the copy it is made from, and what the
\* worker has done before it.
UpgradeInv == TypeOK /\ CopiesMatch /\ RecordInv /\ BinariesInv /\ SwitchingIsKnown

\* The daemon takes an upgrade through its phases by itself: one that has been
\* proposed is voted on.
UpgradeProceeds == up.phase = "Proposing" ~> up.phase # "Proposing"
=============================================================================
