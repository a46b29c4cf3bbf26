---------------------------- MODULE NodeLifecycle ----------------------------
(***************************************************************************)
(* The life of one node in the daemon: its record in the store, the        *)
(* commands of the API services, the workers of the NodeController, the    *)
(* health controller and the process runtime, all acting concurrently.     *)
(*                                                                         *)
(* A node is queued under two keys: "full" (namespace/devnet/index) by the *)
(* services and "short" (devnet/index) by the health controller.  The      *)
(* queue keeps two workers off one key (WorkQueue), except after a         *)
(* reconcile has failed, when it holds the key twice; and the two keys may *)
(* be handled together.  The order of the queue is left out.               *)
(*                                                                         *)
(* A service or health call reads the record and writes it back with       *)
(* nothing in between that changes anything else, so, updates being        *)
(* atomic when they are accepted (ResourceStore), each is one step; a      *)
(* refused one changes nothing.  A worker that calls the runtime between   *)
(* its read and its write keeps a copy, and "fresh" says whether the       *)
(* copy's generation is still that of the record.                          *)
(*                                                                         *)
(* The devnet is Running or Degraded, so that health sweeps reach the      *)
(* node.  The runtime is reduced to what ProcessRuntime shows its callers: *)
(* the supervisor registered for the node; one that was dropped is not     *)
(* followed further.                                                       *)
(***************************************************************************)
EXTENDS Integers

CONSTANTS
  Workers,      \* the workers of the NodeController
  Commands,     \* commands that callers use: a subset of AllCommands
  MaxRestarts,  \* restart limit of the health controller
  MaxCopies,    \* bound: copies of a key in the queue
  MaxCommands,  \* bound: number of commands
  MaxLaunches,  \* bound: number of processes launched
  MaxCrashes    \* bound: number of daemon restarts

AllCommands == {"start", "stop", "restart", "startDevnet", "upgrade"}

ASSUME CommandsAssumption == Commands \subseteq AllCommands
ASSUME LimitsAssumption == /\ MaxRestarts \in Nat /\ MaxCopies \in Nat \ {0} /\ MaxCommands \in Nat
                           /\ MaxLaunches \in Nat /\ MaxCrashes \in Nat

Keys == {"full", "short"}

VARIABLES
  node,     \* the stored record
  queued,   \* how often each key is in the queue
  dirty,    \* keys the queue has marked as needing work
  handled,  \* keys the queue takes for being processed
  work,     \* what each worker is doing
  sup,      \* the supervisor registered with the runtime
  supPid,   \* the PID that supervisor reports, 0 before its first launch
  cur,      \* number of the process launched last, its PID
  cmds,     \* commands given so far
  crashes   \* daemon restarts so far

queueVars == <<queued, dirty, handled>>
runtimeVars == <<sup, supPid, cur>>
boundVars == <<cmds, crashes>>
vars == <<node, queueVars, work, runtimeVars, boundVars>>

Phases == {"Pending", "Starting", "Running", "Stopping", "Stopped", "Crashed"}
Records == [ns : {"default", "other"}, phase : Phases, desired : {"Running", "Stopped"}, restarts : Nat, pid : Nat]

\* Where a worker is: about to call StartNode, about to ask for the PID, about to
\* save one of the outcomes, about to call StopNode, or waiting in it.
Places == {"idle", "start", "started", "up", "failed", "down", "stop", "stopwait", "stopped"}

Works == [key : Keys, at : Places, copy : Records, fresh : BOOLEAN]

TypeOK ==
  /\ node \in Records
  /\ queued \in [Keys -> Nat]
  /\ dirty \subseteq Keys
  /\ handled \subseteq Keys
  /\ work \in [Workers -> Works]
  /\ sup \in {"none", "starting", "running", "monitor", "dead"}
  /\ supPid \in Nat
  /\ cur \in Nat
  /\ cmds \in Nat
  /\ crashes \in Nat

New(ns) ==
  [ns |-> ns, phase |-> "Pending", desired |-> "Running", restarts |-> 0, pid |-> 0]

\* Restart counts matter only up to the limit they are compared with.
OneMore(n) == IF n < MaxRestarts THEN n + 1 ELSE n

IdleWork == [key |-> "full", at |-> "idle", copy |-> New("default"), fresh |-> FALSE]

\* The provisioner has created the node and the devnet controller queued it.
Init ==
  /\ node \in {New("default"), New("other")}
  /\ queued = [k \in Keys |-> IF k = "full" THEN 1 ELSE 0]
  /\ dirty = {"full"} /\ handled = {}
  /\ work = [w \in Workers |-> IdleWork]
  /\ sup = "none" /\ supPid = 0 /\ cur = 0
  /\ cmds = 0 /\ crashes = 0

-----------------------------------------------------------------------------
(* The queue, as its callers see it.                                        *)

Copies(k, n) ==
  queued' = [queued EXCEPT ![k] = IF @ + n > MaxCopies THEN MaxCopies ELSE @ + n]

Enqueue(k) ==
  /\ dirty' = dirty \cup {k}
  /\ Copies(k, IF k \in dirty \cup handled THEN 0 ELSE 1)
  /\ UNCHANGED handled

Get(k) ==
  /\ queued[k] > 0
  /\ queued' = [queued EXCEPT ![k] = @ - 1]
  /\ dirty' = dirty \ {k}

Done(k) ==
  /\ handled' = handled \ {k}
  /\ Copies(k, IF k \in dirty THEN 1 ELSE 0)
  /\ UNCHANGED dirty

\* Requeue and then the deferred Done: each puts the key into the queue.
RequeueAndDone(k) ==
  /\ handled' = handled \ {k}
  /\ dirty' = dirty \cup {k}
  /\ Copies(k, 2)

-----------------------------------------------------------------------------
(* Reading and writing the record.                                          *)

\* The content of a copy that will be refused is dropped.
Stale(x) == [x EXCEPT !.fresh = FALSE, !.copy = IdleWork.copy]

\* A write by somebody who keeps no copy.
Save(r) == node' = r /\ work' = [w \in Workers |-> Stale(work[w])]

\* Worker w writes r and goes on with its job x, which holds r.
SaveAndGo(w, r, x) ==
  /\ node' = r
  /\ work' = [v \in Workers |-> IF v = w THEN x ELSE Stale(work[v])]

\* Faulty variants, used only to show that the properties notice them: the copy is
\* written whatever the generation, and the phase is put into the latest record.
SaveAndEndUnchecked(w, r) == SaveAndGo(w, r, IdleWork) /\ Done(work[w].key)

SaveAndEndPatches(w, r) ==
  SaveAndGo(w, [node EXCEPT !.phase = r.phase], IdleWork) /\ Done(work[w].key)

\* Worker w ends its reconcile by writing r; on a conflict the manager requeues.

SaveAndEnd(w, r) ==
  \/ /\ work[w].fresh
     /\ SaveAndGo(w, r, IdleWork)
     /\ Done(work[w].key)
  \/ /\ ~work[w].fresh
     /\ work' = [work EXCEPT ![w] = IdleWork]
     /\ RequeueAndDone(work[w].key)
     /\ UNCHANGED node

-----------------------------------------------------------------------------
(* Reconcile: worker w takes key k and looks at the phase.                  *)

\* The short key of a node outside the default namespace names no node.
Names(k) == k = "full" \/ node.ns = "default"

Takes(w, k, phase) ==
  /\ work[w].at = "idle"
  /\ Names(k)
  /\ node.phase = phase
  /\ Get(k)
  /\ UNCHANGED <<runtimeVars, boundVars>>

\* The worker keeps the key and goes to place p with record r.
Holding(k, p, r) == [key |-> k, at |-> p, copy |-> r, fresh |-> TRUE]
GoTo(w, k, p) ==
  /\ work' = [work EXCEPT ![w] = Holding(k, p, node)]
  /\ handled' = handled \cup {k}
  /\ UNCHANGED node

\* Get and Done in one step: Get has taken the dirty mark, Done takes the other.
Returns(k) == handled' = handled \ {k}
SaveAndReturn(k, r) == Save(r) /\ Returns(k)

NotFound(w, k) ==
  /\ work[w].at = "idle"
  /\ ~Names(k)
  /\ Get(k) /\ Returns(k)
  /\ UNCHANGED <<node, work, runtimeVars, boundVars>>

\* The first store call of the reconcile fails, or conflicts.
ReconcileFails(w, k) ==
  /\ work[w].at = "idle"
  /\ queued[k] > 0
  /\ Names(k)
  /\ handled' = handled \ {k}
  /\ dirty' = dirty \cup {k}
  /\ Copies(k, 1)
  /\ UNCHANGED <<node, work, runtimeVars, boundVars>>

\* Saves the phase and returns: the fault the comment in reconcilePending warns of.
ReconcilePendingReturns(w, k) ==
  /\ Takes(w, k, "Pending")
  /\ SaveAndReturn(k, [node EXCEPT !.phase = IF node.desired = "Running" THEN "Starting" ELSE "Stopped"])

\* reconcilePending saves Starting and goes straight on to reconcileStarting.
ReconcilePending(w, k) ==
  /\ Takes(w, k, "Pending")
  /\ IF node.desired = "Running"
       THEN LET r == [node EXCEPT !.phase = "Starting"]
            IN  SaveAndGo(w, r, Holding(k, "start", r)) /\ handled' = handled \cup {k}
       ELSE SaveAndReturn(k, [node EXCEPT !.phase = "Stopped"])

ReconcileStarting(w, k) == Takes(w, k, "Starting") /\ GoTo(w, k, "start")

ReconcileStopping(w, k) == Takes(w, k, "Stopping") /\ GoTo(w, k, "stop")

\* reconcileRunning saves Stopping, or asks the runtime whether the node is up.
ReconcileRunning(w, k) ==
  /\ Takes(w, k, "Running")
  /\ IF node.desired = "Stopped" THEN SaveAndReturn(k, [node EXCEPT !.phase = "Stopping"])
     ELSE IF sup \in {"running", "monitor"} THEN Returns(k) /\ UNCHANGED <<node, work>>
     ELSE GoTo(w, k, "down")

ReconcileStopped(w, k) ==
  /\ Takes(w, k, "Stopped")
  /\ IF node.desired = "Running"
       THEN SaveAndReturn(k, [node EXCEPT !.phase = "Pending", !.restarts = OneMore(@)])
       ELSE Returns(k) /\ UNCHANGED <<node, work>>

ReconcileCrashed(w, k) ==
  /\ Takes(w, k, "Crashed")
  /\ SaveAndReturn(k, [node EXCEPT !.phase = "Stopped"])

-----------------------------------------------------------------------------
(* The rest of reconcileStarting, reconcileRunning and reconcileStopping.   *)

MoveTo(w, p) == work' = [work EXCEPT ![w].at = p]

\* runtime.StartNode refuses while the supervisor reports a running process;
\* otherwise it drops that supervisor, which may yet launch, for a new one.
RuntimeStart(w) ==
  /\ work[w].at = "start"
  /\ IF sup \in {"running", "monitor"}
       THEN MoveTo(w, "failed") /\ UNCHANGED runtimeVars
       ELSE /\ MoveTo(w, "started")
            /\ sup' = "starting" /\ supPid' = 0
            /\ UNCHANGED cur
  /\ UNCHANGED <<node, queueVars, boundVars>>

\* It may also fail, after it has dropped the old supervisor.
RuntimeStartFails(w) ==
  /\ work[w].at = "start"
  /\ sup \notin {"running", "monitor"}
  /\ MoveTo(w, "failed")
  /\ sup' = "none" /\ supPid' = 0
  /\ UNCHANGED <<node, queueVars, cur, boundVars>>

\* GetNodeStatus: a supervisor that has not launched yet has no PID to persist.
RecordPid(w) ==
  /\ work[w].at = "started"
  /\ work' = [work EXCEPT ![w].at = "up",
                          ![w].copy.pid = IF supPid > 0 THEN supPid ELSE @]
  /\ UNCHANGED <<node, queueVars, runtimeVars, boundVars>>

Ends(w, p, r) ==
  /\ work[w].at = p
  /\ SaveAndEnd(w, r)
  /\ UNCHANGED <<runtimeVars, boundVars>>

SaveRunning(w) == Ends(w, "up", [work[w].copy EXCEPT !.phase = "Running"])

SaveCrashed(w) == Ends(w, "failed", [work[w].copy EXCEPT !.phase = "Crashed"])

SaveDown(w) == Ends(w, "down", [work[w].copy EXCEPT !.phase = "Crashed", !.pid = 0])

SaveStopped(w) == Ends(w, "stopped", [work[w].copy EXCEPT !.phase = "Stopped", !.pid = 0])

\* runtime.StopNode forgets the supervisor.  It returns at once when there is none
\* or it only monitors, and waits for a supervisor that has, or is about to have,
\* a process.
RuntimeStop(w) ==
  /\ work[w].at = "stop"
  /\ \/ sup # "running" /\ MoveTo(w, "stopped")
     \/ sup \in {"starting", "running"} /\ MoveTo(w, "stopwait")
  /\ sup' = "none" /\ supPid' = 0
  /\ UNCHANGED <<node, queueVars, cur, boundVars>>

StopReturns(w) ==
  /\ work[w].at = "stopwait"
  /\ MoveTo(w, "stopped")
  /\ UNCHANGED <<node, queueVars, runtimeVars, boundVars>>

-----------------------------------------------------------------------------
(* The services, each an atomic update of the record and an enqueue.        *)

Command(c) ==
  /\ c \in Commands
  /\ cmds < MaxCommands
  /\ cmds' = cmds + 1
  /\ UNCHANGED <<runtimeVars, crashes>>

Wanted == [node EXCEPT !.phase = "Pending", !.desired = "Running"]

StartNode ==
  /\ Command("start")
  /\ node.phase \notin {"Running", "Starting"}
  /\ Save(Wanted)
  /\ Enqueue("full")

StopNode ==
  /\ Command("stop")
  /\ node.phase \notin {"Stopped", "Stopping"}
  /\ Save([node EXCEPT !.phase = "Stopping", !.desired = "Stopped"])
  /\ Enqueue("full")

RestartNode ==
  /\ Command("restart")
  /\ Save([Wanted EXCEPT !.restarts = OneMore(@)])
  /\ Enqueue("full")

\* StartDevnet updates the nodes, then the devnet, then queues the nodes; when the
\* update of the devnet conflicts nothing is queued.
StartDevnet(conflict) ==
  /\ Command("startDevnet")
  /\ IF node.phase \in {"Running", "Starting"} THEN UNCHANGED <<node, work>> ELSE Save(Wanted)
  /\ IF conflict THEN UNCHANGED queueVars ELSE Enqueue("full")

\* SwitchNodeBinary of the upgrade runtime, which looks for the devnet in the
\* default namespace: back to Pending, nothing queued.
SwitchNodeBinary ==
  /\ Command("upgrade")
  /\ node.ns = "default"
  /\ Save([node EXCEPT !.phase = "Pending", !.restarts = OneMore(@)])
  /\ UNCHANGED queueVars

-----------------------------------------------------------------------------
(* The health controller.                                                   *)

\* handleCrashedNode, once the backoff is over.
HandleCrashedNode ==
  /\ node.phase = "Crashed"
  /\ node.desired = "Running"
  /\ MaxRestarts > 0 => node.restarts < MaxRestarts
  /\ Save([node EXCEPT !.phase = "Pending", !.restarts = OneMore(@)])
  /\ Enqueue("short")
  /\ UNCHANGED <<runtimeVars, boundVars>>

\* checkNodeHealth records the health of a running node, which makes copies stale.
\* Whatever the checker found, the phase stays.
CheckNodeHealth ==
  /\ node.phase = "Running"
  /\ node.desired = "Running"
  /\ Save(node)
  /\ UNCHANGED <<queueVars, runtimeVars, boundVars>>

-----------------------------------------------------------------------------
(* Supervisor, processes and daemon.                                        *)

Launch ==
  /\ sup = "starting"
  /\ cur < MaxLaunches
  /\ sup' = "running"
  /\ cur' = cur + 1 /\ supPid' = cur + 1
  /\ UNCHANGED <<node, queueVars, work, boundVars>>

\* A supervised process dies and is to be launched again or given up; the death of
\* a monitored one is only noted, and its PID forgotten.
ProcessDies ==
  /\ \/ sup = "running" /\ sup' \in {"starting", "dead"} /\ UNCHANGED supPid
     \/ sup = "monitor" /\ sup' = "dead" /\ supPid' = 0
  /\ UNCHANGED <<node, queueVars, work, cur, boundVars>>

\* The daemon restarts: queue and workers are gone, and the runtime reconnects to
\* the process whose PID a running node's record holds.
DaemonRestart ==
  /\ crashes < MaxCrashes
  /\ crashes' = crashes + 1
  /\ queued' = [k \in Keys |-> 0] /\ dirty' = {} /\ handled' = {}
  /\ work' = [w \in Workers |-> IdleWork]
  /\ LET found == sup \in {"running", "monitor"} /\ node.phase = "Running" /\ node.pid = supPid
     IN  /\ sup' = IF found THEN "monitor" ELSE "none"
         /\ supPid' = IF found THEN supPid ELSE 0
  /\ UNCHANGED <<node, cur, cmds>>

-----------------------------------------------------------------------------
Reconcile(w, k) ==
  \/ NotFound(w, k) \/ ReconcilePending(w, k) \/ ReconcileStarting(w, k) \/ ReconcileRunning(w, k)
  \/ ReconcileStopping(w, k) \/ ReconcileStopped(w, k) \/ ReconcileCrashed(w, k)

Continue(w) ==
  \/ RuntimeStart(w) \/ RuntimeStartFails(w) \/ RecordPid(w) \/ RuntimeStop(w)
  \/ SaveRunning(w) \/ SaveCrashed(w) \/ SaveDown(w) \/ SaveStopped(w)

Service ==
  \/ StartNode \/ StopNode \/ RestartNode \/ SwitchNodeBinary
  \/ \E conflict \in BOOLEAN : StartDevnet(conflict)

Next ==
  \/ \E w \in Workers, k \in Keys : Reconcile(w, k) \/ ReconcileFails(w, k)
  \/ \E w \in Workers : Continue(w) \/ StopReturns(w)
  \/ Service \/ HandleCrashedNode \/ CheckNodeHealth
  \/ Launch \/ ProcessDies \/ DaemonRestart

Spec == Init /\ [][Next]_vars

\* Workers and supervisors run, a key at the head of the queue is taken by a worker
\* that comes free and the store does not fail for ever, and the health check comes
\* round; nobody has to give a command and no process has to exit.
Fairness ==
  /\ \A k \in Keys : SF_vars(\E w \in Workers : Reconcile(w, k))
  /\ \A w \in Workers : WF_vars(Continue(w))
  /\ WF_vars(HandleCrashedNode)
  /\ WF_vars(CheckNodeHealth)
  /\ WF_vars(Launch)

FairSpec == Spec /\ Fairness

-----------------------------------------------------------------------------
(* Properties.                                                              *)

\* What a worker that holds a fresh copy knows of the record.
CopiesMatch ==
  \A w \in Workers :
    work[w].fresh =>
      /\ work[w].copy.desired = node.desired
      /\ work[w].at \in {"start", "started", "up", "failed"} =>
           node.phase = "Starting" /\ node.desired = "Running"
      /\ work[w].at = "down" => node.phase = "Running"
      /\ work[w].at \in {"stop", "stopwait", "stopped"} => node.phase = "Stopping"

\* An acknowledged StopNode stands: while the caller wants the node stopped, no
\* worker that began before, nor a crash nor a health check, makes it Starting,
\* Running or Crashed again (NodeService.StopNode, UpdateNode's check).
StopStands ==
  node.desired = "Stopped" => node.phase \in {"Stopping", "Stopped", "Pending"}

\* The inductive invariant behind StopStands.
NodeInv == TypeOK /\ CopiesMatch /\ StopStands

\* Only a command takes a stop back: neither a late write of a worker nor a restart by
\* the health controller turns the desired phase from Stopped to Running (UpdateNode
\* replaces the whole record, the desired phase included).
StopIsNotUndone ==
  [][node.desired = "Stopped" /\ node'.desired # "Stopped" => cmds' # cmds]_vars

\* reconcilePending, "Without a store watcher, returning here would leave the node
\* stuck in Starting phase" (node.go:142): until the daemon is restarted no node stays
\* Starting, whatever conflicts, failures and commands come in between.
StartingIsLeft ==
  node.phase = "Starting" /\ crashes = 0 ~> node.phase # "Starting" \/ crashes > 0
=============================================================================
