------------------------ MODULE NodeLifecycle_proofs ------------------------
(***************************************************************************)
(* Proof that an acknowledged stop stands in every execution of            *)
(* NodeLifecycle, whatever the workers, commands, limits and bounds.       *)
(*                                                                         *)
(* StopStands alone is not inductive: that a worker may save Running needs *)
(* that its copy, being fresh, was read while the node was wanted up.      *)
(* CopiesMatch says so.                                                    *)
(***************************************************************************)
EXTENDS NodeLifecycle, TLAPS

USE CommandsAssumption, LimitsAssumption

\* What worker job x knows of record n when its copy is fresh.
Knows(x, n) ==
  x.fresh =>
    /\ x.copy.desired = n.desired
    /\ x.at \in {"start", "started", "up", "failed"} => n.phase = "Starting" /\ n.desired = "Running"
    /\ x.at = "down" => n.phase = "Running"
    /\ x.at \in {"stop", "stopwait", "stopped"} => n.phase = "Stopping"

\* StopStands of record n.
Stands(n) == n.desired = "Stopped" => n.phase \in {"Stopping", "Stopped", "Pending"}

\* The part of NodeInv about record n and jobs f.
Jobs(n, f) == /\ n \in Records /\ f \in [Workers -> Works]
              /\ \A w \in Workers : Knows(f[w], n)
              /\ Stands(n)

\* The types of the queue.
QueueOK(q, d, h) == q \in [Keys -> Nat] /\ d \subseteq Keys /\ h \subseteq Keys

\* The types of the rest.
RestOK == /\ sup \in {"none", "starting", "running", "monitor", "dead"}
          /\ supPid \in Nat /\ cur \in Nat /\ cmds \in Nat /\ crashes \in Nat

\* NodeInv by parts.
LEMMA Parts == NodeInv <=> Jobs(node, work) /\ QueueOK(queued, dirty, handled) /\ RestOK
BY DEF NodeInv, TypeOK, CopiesMatch, StopStands, Knows, Stands, Jobs, QueueOK, RestOK

\* The same after a step.
LEMMA PartsNext ==
  ASSUME Jobs(node', work'), QueueOK(queued', dirty', handled'), RestOK'
  PROVE  NodeInv'
BY DEF NodeInv, TypeOK, CopiesMatch, StopStands, Knows, Stands, Jobs, QueueOK, RestOK

-----------------------------------------------------------------------------
(* The queue's operations keep its types.                                   *)

LEMMA CopiesKeeps ==
  ASSUME queued \in [Keys -> Nat], NEW k \in Keys, NEW n \in Nat, Copies(k, n)
  PROVE  queued' \in [Keys -> Nat]
<1>1. queued[k] + n \in Nat /\ MaxCopies \in Nat
  OBVIOUS
<1> QED
  BY <1>1 DEF Copies

LEMMA EnqueueKeeps ==
  ASSUME QueueOK(queued, dirty, handled), NEW k \in Keys, Enqueue(k)
  PROVE  QueueOK(queued', dirty', handled')
<1>1. PICK n \in Nat : Copies(k, n)
  BY DEF Enqueue
<1> QED
  BY <1>1, CopiesKeeps DEF Enqueue, QueueOK

LEMMA EndKeepsQueue ==
  ASSUME QueueOK(queued, dirty, handled), NEW k \in Keys, Done(k) \/ RequeueAndDone(k)
  PROVE  QueueOK(queued', dirty', handled')
<1>1. PICK n \in Nat : Copies(k, n)
  BY DEF Done, RequeueAndDone
<1> QED
  BY <1>1, CopiesKeeps DEF Done, RequeueAndDone, QueueOK

LEMMA GetKeeps ==
  ASSUME QueueOK(queued, dirty, handled), NEW k \in Keys, Get(k), handled' \subseteq Keys
  PROVE  QueueOK(queued', dirty', handled')
<1>1. queued[k] - 1 \in Nat
  BY DEF Get, QueueOK
<1> QED
  BY <1>1 DEF Get, QueueOK

-----------------------------------------------------------------------------
(* Records and jobs.                                                        *)

\* One more restart of a record put back to Pending.
LEMMA OneMoreRestart ==
  ASSUME NEW n \in Records, NEW r, r = [n EXCEPT !.phase = "Pending", !.restarts = OneMore(@)]
  PROVE  r \in Records /\ r.phase = "Pending" /\ r.desired = n.desired /\ Stands(r)
<1>1. n.restarts \in Nat /\ OneMore(n.restarts) \in Nat
  BY DEF Records, OneMore
<1>2. r = [ns |-> n.ns, phase |-> "Pending", desired |-> n.desired, restarts |-> OneMore(n.restarts), pid |-> n.pid]
  BY DEF Records
<1>3. n.ns \in {"default", "other"} /\ n.desired \in {"Running", "Stopped"} /\ n.pid \in Nat
  BY DEF Records
<1>4. r \in Records
  BY <1>1, <1>2, <1>3 DEF Records, Phases
<1> QED
  BY <1>2, <1>4 DEF Stands

LEMMA NewRecord ==
  ASSUME NEW ns \in {"default", "other"}
  PROVE  New(ns) \in Records /\ Stands(New(ns))
BY DEF New, Records, Phases, Stands

\* No job at all.
LEMMA NoJob == IdleWork \in Works /\ IdleWork.copy \in Records /\ \A n : Knows(IdleWork, n)
<1>1. New("default") \in Records
  BY NewRecord
<1> QED
  BY <1>1 DEF IdleWork, Works, Keys, Places, Knows

\* A job made stale is typed and knows nothing.
LEMMA StaleJob ==
  ASSUME NEW x \in Works, NEW n
  PROVE  Stale(x) \in Works /\ Knows(Stale(x), n)
BY NoJob DEF Works, Stale, Knows

\* A write by a service or the health controller, or the last of a reconcile.
LEMMA SaveKeeps ==
  ASSUME Jobs(node, work), NEW r \in Records, Save(r), Stands(r)
  PROVE  Jobs(node', work')
BY StaleJob DEF Save, Jobs

\* A write by worker w, which goes on with job x.
LEMMA SaveAndGoKeeps ==
  ASSUME Jobs(node, work), NEW w \in Workers, NEW r \in Records, NEW x \in Works,
         SaveAndGo(w, r, x), Stands(r), Knows(x, r)
  PROVE  Jobs(node', work')
BY StaleJob DEF SaveAndGo, Jobs

\* A worker that takes up job x without a write.
LEMMA JobKeeps ==
  ASSUME Jobs(node, work), NEW w \in Workers, NEW x \in Works, Knows(x, node),
         work' = [work EXCEPT ![w] = x], UNCHANGED node
  PROVE  Jobs(node', work')
BY DEF Jobs

\* The last write of a reconcile, accepted or refused.
LEMMA SaveAndEndKeeps ==
  ASSUME Jobs(node, work), QueueOK(queued, dirty, handled),
         NEW w \in Workers, NEW r \in Records, SaveAndEnd(w, r),
         work[w].fresh => Stands(r)
  PROVE  Jobs(node', work') /\ QueueOK(queued', dirty', handled')
<1>1. IdleWork \in Works /\ \A n : Knows(IdleWork, n)
  BY NoJob
<1>2. work[w].key \in Keys
  BY DEF Jobs, Works
<1>3. QueueOK(queued', dirty', handled')
  BY <1>2, EndKeepsQueue DEF SaveAndEnd
<1>4. CASE work[w].fresh
  <2>1. SaveAndGo(w, r, IdleWork)
    BY <1>4 DEF SaveAndEnd
  <2> QED
    BY <1>1, <1>3, <1>4, <2>1, SaveAndGoKeeps
<1>5. CASE ~work[w].fresh
  <2>1. work' = [work EXCEPT ![w] = IdleWork] /\ UNCHANGED node
    BY <1>5 DEF SaveAndEnd
  <2> QED
    BY <1>1, <1>3, <2>1, JobKeeps
<1> QED
  BY <1>4, <1>5

\* A worker that moves to a place where it knows as much.
LEMMA MoveToKeeps ==
  ASSUME Jobs(node, work), NEW w \in Workers, NEW p \in Places, MoveTo(w, p), UNCHANGED node,
         \/ work[w].at \in {"start", "started"} /\ p \in {"started", "failed"}
         \/ work[w].at \in {"stop", "stopwait"} /\ p \in {"stopwait", "stopped"}
  PROVE  Jobs(node', work')
<1> DEFINE x == [work[w] EXCEPT !.at = p]
<1>1. work[w] \in Works /\ Knows(work[w], node)
  BY DEF Jobs
<1>2. x \in Works
  BY <1>1 DEF Works
<1>3. Knows(x, node)
  BY <1>1 DEF Knows, Works
<1>4. work' = [work EXCEPT ![w] = x]
  BY DEF MoveTo
<1> HIDE DEF x
<1> QED
  BY <1>2, <1>3, <1>4, JobKeeps

-----------------------------------------------------------------------------
(* One lemma per group of actions.                                          *)

\* Reconcile, up to the first call of the runtime, keeps NodeInv.
LEMMA ReconcileKeeps ==
  ASSUME NodeInv, NEW w \in Workers, NEW k \in Keys, Reconcile(w, k) \/ ReconcileFails(w, k)
  PROVE  NodeInv'
<1>1. Jobs(node, work) /\ QueueOK(queued, dirty, handled) /\ RestOK /\ node \in Records
  BY Parts DEF Jobs
<1>2. RestOK'
  BY <1>1 DEF Reconcile, ReconcileFails, NotFound, ReconcilePending, ReconcileStarting, ReconcileRunning,
              ReconcileStopping, ReconcileStopped, ReconcileCrashed, Takes, runtimeVars, boundVars, RestOK
<1>3. QueueOK(queued', dirty', handled')
  <2>1. CASE ReconcileFails(w, k)
    BY <1>1, <2>1, CopiesKeeps DEF ReconcileFails, QueueOK
  <2>2. CASE Reconcile(w, k)
    <3>1. Get(k) /\ handled' \in {handled \cup {k}, handled \ {k}}
      BY <2>2 DEF Reconcile, NotFound, ReconcilePending, ReconcileStarting, ReconcileRunning,
                  ReconcileStopping, ReconcileStopped, ReconcileCrashed, Takes, GoTo, SaveAndReturn, Returns
    <3>2. handled' \subseteq Keys
      BY <1>1, <3>1 DEF QueueOK
    <3> QED
      BY <1>1, <3>1, <3>2, GetKeeps
  <2> QED
    BY <2>1, <2>2
<1>4. ASSUME NEW p \in Places, GoTo(w, k, p), Knows(Holding(k, p, node), node)
      PROVE  Jobs(node', work')
  <2>1. Holding(k, p, node) \in Works
    BY <1>1 DEF Holding, Works
  <2> QED
    BY <1>1, <1>4, <2>1, JobKeeps DEF GoTo
<1>5. Jobs(node', work')
  <2>1. CASE NotFound(w, k) \/ ReconcileFails(w, k)
    BY <1>1, <2>1 DEF NotFound, ReconcileFails
  <2>2. CASE ReconcilePending(w, k) /\ node.desired = "Running"
    <3> DEFINE r == [node EXCEPT !.phase = "Starting"]
    <3>1. r \in Records /\ Stands(r) /\ r.phase = "Starting" /\ r.desired = "Running"
      BY <1>1, <2>2 DEF Records, Phases, Stands
    <3>2. SaveAndGo(w, r, Holding(k, "start", r))
      BY <2>2 DEF ReconcilePending
    <3> HIDE DEF r
    <3>3. Holding(k, "start", r) \in Works /\ Knows(Holding(k, "start", r), r)
      BY <3>1 DEF Holding, Works, Places, Knows
    <3> QED
      BY <1>1, <3>1, <3>2, <3>3, SaveAndGoKeeps
  <2>3. CASE ReconcilePending(w, k) /\ node.desired # "Running"
    <3>1. [node EXCEPT !.phase = "Stopped"] \in Records /\ Stands([node EXCEPT !.phase = "Stopped"])
      BY <1>1 DEF Records, Phases, Stands
    <3> QED
      BY <1>1, <2>3, <3>1, SaveKeeps DEF ReconcilePending, SaveAndReturn
  <2>4. CASE ReconcileStarting(w, k)
    <3>1. node.phase = "Starting" /\ node.desired = "Running"
      BY <1>1, <2>4 DEF ReconcileStarting, Takes, Jobs, Stands, Records
    <3> QED
      BY <1>4, <2>4, <3>1 DEF ReconcileStarting, Holding, Knows, Places
  <2>5. CASE ReconcileStopping(w, k)
    BY <1>4, <2>5 DEF ReconcileStopping, Takes, Holding, Knows, Places
  <2>6. CASE ReconcileRunning(w, k)
    <3>1. [node EXCEPT !.phase = "Stopping"] \in Records /\ Stands([node EXCEPT !.phase = "Stopping"])
      BY <1>1 DEF Records, Phases, Stands
    <3>2. Knows(Holding(k, "down", node), node) /\ "down" \in Places
      BY <2>6 DEF ReconcileRunning, Takes, Holding, Knows, Places
    <3> QED
      BY <1>1, <1>4, <2>6, <3>1, <3>2, SaveKeeps DEF ReconcileRunning, SaveAndReturn
  <2>7. CASE ReconcileStopped(w, k)
    <3>1. /\ [node EXCEPT !.phase = "Pending", !.restarts = OneMore(@)] \in Records
          /\ Stands([node EXCEPT !.phase = "Pending", !.restarts = OneMore(@)])
      BY <1>1, OneMoreRestart
    <3> QED
      BY <1>1, <2>7, <3>1, SaveKeeps DEF ReconcileStopped, SaveAndReturn
  <2>8. CASE ReconcileCrashed(w, k)
    <3>1. [node EXCEPT !.phase = "Stopped"] \in Records /\ Stands([node EXCEPT !.phase = "Stopped"])
      BY <1>1 DEF Records, Phases, Stands
    <3> QED
      BY <1>1, <2>8, <3>1, SaveKeeps DEF ReconcileCrashed, SaveAndReturn
  <2> QED
    BY <2>1, <2>2, <2>3, <2>4, <2>5, <2>6, <2>7, <2>8 DEF Reconcile
<1> QED
  BY <1>2, <1>3, <1>5, PartsNext

\* The calls of the runtime keep NodeInv.
LEMMA RuntimeKeeps ==
  ASSUME NodeInv, NEW w \in Workers,
         RuntimeStart(w) \/ RuntimeStartFails(w) \/ RecordPid(w) \/ RuntimeStop(w) \/ StopReturns(w)
  PROVE  NodeInv'
<1>1. Jobs(node, work) /\ QueueOK(queued, dirty, handled) /\ RestOK
  BY Parts
<1>2. UNCHANGED <<node, queued, dirty, handled>>
  BY DEF RuntimeStart, RuntimeStartFails, RecordPid, RuntimeStop, StopReturns, queueVars
<1>3. RestOK'
  BY <1>1 DEF RuntimeStart, RuntimeStartFails, RecordPid, RuntimeStop, StopReturns, runtimeVars, boundVars, RestOK
<1>4. Jobs(node', work')
  <2>1. CASE RuntimeStart(w)
    <3>1. PICK p \in {"failed", "started"} : MoveTo(w, p)
      BY <2>1 DEF RuntimeStart
    <3> QED
      BY <1>1, <1>2, <2>1, <3>1, MoveToKeeps DEF RuntimeStart, Places
  <2>2. CASE RuntimeStartFails(w)
    BY <1>1, <1>2, <2>2, MoveToKeeps DEF RuntimeStartFails, Places
  <2>3. CASE RecordPid(w)
    <3> DEFINE c == [work[w].copy EXCEPT !.pid = IF supPid > 0 THEN supPid ELSE @]
               x == [work[w] EXCEPT !.at = "up", !.copy = c]
    <3>1. work[w] \in Works /\ Knows(work[w], node) /\ work[w].at = "started"
      BY <1>1, <2>3 DEF Jobs, RecordPid
    <3>2. c \in Records /\ c.desired = work[w].copy.desired
      BY <1>1, <3>1 DEF RestOK, Works, Records
    <3>3. work' = [work EXCEPT ![w] = x]
      BY <2>3 DEF RecordPid
    <3> HIDE DEF c
    <3>4. x \in Works
      BY <3>1, <3>2 DEF Works, Places
    <3>5. Knows(x, node)
      BY <3>1, <3>2 DEF Knows, Works
    <3> HIDE DEF x
    <3> QED
      BY <1>1, <1>2, <3>3, <3>4, <3>5, JobKeeps
  <2>4. CASE RuntimeStop(w)
    <3>1. PICK p \in {"stopped", "stopwait"} : MoveTo(w, p)
      BY <2>4 DEF RuntimeStop
    <3> QED
      BY <1>1, <1>2, <2>4, <3>1, MoveToKeeps DEF RuntimeStop, Places
  <2>5. CASE StopReturns(w)
    BY <1>1, <1>2, <2>5, MoveToKeeps DEF StopReturns, Places
  <2> QED
    BY <2>1, <2>2, <2>3, <2>4, <2>5
<1> QED
  BY <1>1, <1>2, <1>3, <1>4, PartsNext

\* The write that ends a reconcile keeps NodeInv: it is the generation check that
\* keeps a worker from saving Running or Crashed over a stop.
LEMMA EndsKeeps ==
  ASSUME NodeInv, NEW w \in Workers,
         SaveRunning(w) \/ SaveCrashed(w) \/ SaveDown(w) \/ SaveStopped(w)
  PROVE  NodeInv'
<1>1. Jobs(node, work) /\ QueueOK(queued, dirty, handled) /\ RestOK
  BY Parts
<1>2. work[w].copy \in Records /\ Knows(work[w], node) /\ Stands(node)
  BY <1>1 DEF Jobs, Works
<1>3. PICK r \in Records : SaveAndEnd(w, r) /\ (work[w].fresh => Stands(r))
  <2>1. CASE SaveRunning(w)
    <3>1. [work[w].copy EXCEPT !.phase = "Running"] \in Records
      BY <1>2 DEF Records, Phases
    <3>2. work[w].fresh => work[w].copy.desired = "Running"
      BY <1>2, <2>1 DEF SaveRunning, Ends, Knows
    <3> QED
      BY <1>2, <2>1, <3>1, <3>2 DEF SaveRunning, Ends, Stands, Records
  <2>2. CASE SaveCrashed(w)
    <3>1. [work[w].copy EXCEPT !.phase = "Crashed"] \in Records
      BY <1>2 DEF Records, Phases
    <3>2. work[w].fresh => work[w].copy.desired = "Running"
      BY <1>2, <2>2 DEF SaveCrashed, Ends, Knows
    <3> QED
      BY <1>2, <2>2, <3>1, <3>2 DEF SaveCrashed, Ends, Stands, Records
  <2>3. CASE SaveDown(w)
    <3>1. [work[w].copy EXCEPT !.phase = "Crashed", !.pid = 0] \in Records
      BY <1>2 DEF Records, Phases
    <3>2. work[w].fresh => work[w].copy.desired # "Stopped"
      BY <1>2, <2>3 DEF SaveDown, Ends, Knows, Stands
    <3> QED
      BY <1>2, <2>3, <3>1, <3>2 DEF SaveDown, Ends, Stands, Records
  <2>4. CASE SaveStopped(w)
    <3>1. [work[w].copy EXCEPT !.phase = "Stopped", !.pid = 0] \in Records
      BY <1>2 DEF Records, Phases
    <3> QED
      BY <1>2, <2>4, <3>1 DEF SaveStopped, Ends, Stands, Records
  <2> QED
    BY <2>1, <2>2, <2>3, <2>4
<1>4. Jobs(node', work') /\ QueueOK(queued', dirty', handled')
  BY <1>1, <1>3, SaveAndEndKeeps
<1>5. RestOK'
  BY <1>1 DEF SaveRunning, SaveCrashed, SaveDown, SaveStopped, Ends, runtimeVars, boundVars, RestOK
<1> QED
  BY <1>4, <1>5, PartsNext

\* The services and the health controller keep NodeInv.
LEMMA ServicesKeep ==
  ASSUME NodeInv, Service \/ HandleCrashedNode \/ CheckNodeHealth
  PROVE  NodeInv'
<1>1. Jobs(node, work) /\ QueueOK(queued, dirty, handled) /\ RestOK /\ node \in Records /\ Stands(node)
  BY Parts DEF Jobs
<1>2. \/ UNCHANGED <<node, work>>
      \/ \E r \in Records : Save(r) /\ Stands(r)
  <2>1. CASE StartNode
    <3>1. Wanted \in Records /\ Stands(Wanted)
      BY <1>1 DEF Wanted, Records, Phases, Stands
    <3> QED
      BY <2>1, <3>1 DEF StartNode
  <2>2. CASE StopNode
    <3>1. [node EXCEPT !.phase = "Stopping", !.desired = "Stopped"] \in Records
      BY <1>1 DEF Records, Phases
    <3> QED
      BY <1>1, <2>2, <3>1 DEF StopNode, Stands, Records
  <2>3. CASE RestartNode
    <3>1. /\ [Wanted EXCEPT !.restarts = OneMore(@)] \in Records
          /\ Stands([Wanted EXCEPT !.restarts = OneMore(@)])
      <4>1. Wanted \in Records /\ Wanted.phase = "Pending"
        BY <1>1 DEF Wanted, Records, Phases
      <4>2. [Wanted EXCEPT !.restarts = OneMore(@)] = [Wanted EXCEPT !.phase = "Pending", !.restarts = OneMore(@)]
        BY <4>1 DEF Records
      <4> QED
        BY <4>1, <4>2, OneMoreRestart
    <3> QED
      BY <2>3, <3>1 DEF RestartNode
  <2>4. ASSUME NEW conflict \in BOOLEAN, StartDevnet(conflict)
        PROVE  \/ UNCHANGED <<node, work>>
               \/ \E r \in Records : Save(r) /\ Stands(r)
    <3>1. Wanted \in Records /\ Stands(Wanted)
      BY <1>1 DEF Wanted, Records, Phases, Stands
    <3> QED
      BY <2>4, <3>1 DEF StartDevnet
  <2>5. CASE SwitchNodeBinary \/ HandleCrashedNode
    <3>1. /\ [node EXCEPT !.phase = "Pending", !.restarts = OneMore(@)] \in Records
          /\ Stands([node EXCEPT !.phase = "Pending", !.restarts = OneMore(@)])
      BY <1>1, OneMoreRestart
    <3> QED
      BY <2>5, <3>1 DEF SwitchNodeBinary, HandleCrashedNode
  <2>6. CASE CheckNodeHealth
    BY <1>1, <2>6 DEF CheckNodeHealth
  <2> QED
    BY <2>1, <2>2, <2>3, <2>4, <2>5, <2>6 DEF Service
<1>3. Jobs(node', work')
  BY <1>1, <1>2, SaveKeeps
<1>4. \/ UNCHANGED <<queued, dirty, handled>>
      \/ \E k \in Keys : Enqueue(k)
  BY DEF Service, StartNode, StopNode, RestartNode, StartDevnet, SwitchNodeBinary,
         HandleCrashedNode, CheckNodeHealth, queueVars, Keys
<1>5. QueueOK(queued', dirty', handled')
  BY <1>1, <1>4, EnqueueKeeps
<1>6. RestOK'
  BY <1>1 DEF RestOK, Service, StartNode, StopNode, RestartNode, StartDevnet, SwitchNodeBinary,
              HandleCrashedNode, CheckNodeHealth, Command, runtimeVars, boundVars
<1> QED
  BY <1>3, <1>5, <1>6, PartsNext

\* Launches, deaths and daemon restarts keep NodeInv.
LEMMA ProcessesKeep ==
  ASSUME NodeInv, Launch \/ ProcessDies \/ DaemonRestart
  PROVE  NodeInv'
<1>1. Jobs(node, work) /\ QueueOK(queued, dirty, handled) /\ RestOK
  BY Parts
<1>2. CASE Launch \/ ProcessDies
  <2>1. UNCHANGED <<node, work, queued, dirty, handled>>
    BY <1>2 DEF Launch, ProcessDies, queueVars
  <2>2. RestOK'
    BY <1>1, <1>2 DEF Launch, ProcessDies, RestOK, boundVars
  <2> QED
    BY <1>1, <2>1, <2>2, PartsNext
<1>3. CASE DaemonRestart
  <2>1. Jobs(node', work')
    BY <1>1, <1>3, NoJob DEF DaemonRestart, Jobs
  <2>2. QueueOK(queued', dirty', handled')
    BY <1>3 DEF DaemonRestart, QueueOK
  <2>3. RestOK'
    BY <1>1, <1>3 DEF DaemonRestart, RestOK
  <2> QED
    BY <2>1, <2>2, <2>3, PartsNext
<1> QED
  BY <1>2, <1>3

\* NodeInv is an invariant: types hold, a fresh copy tells the record, and an
\* acknowledged stop stands (NodeController.Reconcile against NodeService.StopNode).
THEOREM NodeInvariant == Spec => []NodeInv
<1>1. Init => NodeInv
  <2> SUFFICES ASSUME Init PROVE NodeInv
    OBVIOUS
  <2>1. Jobs(node, work)
    <3>1. node \in Records /\ Stands(node)
      BY NewRecord DEF Init
    <3> QED
      BY <3>1, NoJob DEF Init, Jobs
  <2>2. QueueOK(queued, dirty, handled) /\ RestOK
    BY DEF Init, QueueOK, RestOK, Keys
  <2> QED
    BY <2>1, <2>2, Parts
<1>2. NodeInv /\ [Next]_vars => NodeInv'
  <2> SUFFICES ASSUME NodeInv, [Next]_vars PROVE NodeInv'
    OBVIOUS
  <2>1. CASE UNCHANGED vars
    BY <2>1 DEF vars, queueVars, runtimeVars, boundVars, NodeInv, TypeOK, CopiesMatch, StopStands
  <2>2. ASSUME NEW w \in Workers, Continue(w) \/ StopReturns(w) PROVE NodeInv'
    BY <2>2, RuntimeKeeps, EndsKeeps DEF Continue
  <2> QED
    BY <2>1, <2>2, ReconcileKeeps, ServicesKeep, ProcessesKeep DEF Next
<1> QED
  BY <1>1, <1>2, PTL DEF Spec

\* An acknowledged StopNode stands in every execution: while the caller wants the node
\* stopped no worker, crash or health check makes it Starting, Running or Crashed.
THEOREM StopIsRespected == Spec => []StopStands
<1>1. NodeInv => StopStands
  BY DEF NodeInv
<1> QED
  BY <1>1, NodeInvariant, PTL

\* Only a command changes the desired phase away from Stopped.
LEMMA DesiredKept ==
  ASSUME NodeInv, Next, node.desired = "Stopped", node'.desired # "Stopped"
  PROVE  cmds' # cmds
<1>1. node \in Records /\ work \in [Workers -> Works] /\ CopiesMatch /\ cmds \in Nat
  BY DEF NodeInv, TypeOK
<1>2. \A p \in Phases : [node EXCEPT !.phase = p].desired = "Stopped"
  BY <1>1 DEF Records
<1>3. [node EXCEPT !.phase = "Pending", !.restarts = OneMore(@)].desired = "Stopped"
  BY <1>1 DEF Records
<1>4. ASSUME NEW w \in Workers, NEW k \in Keys, Reconcile(w, k) \/ ReconcileFails(w, k)
      PROVE  node'.desired = "Stopped"
  BY <1>1, <1>2, <1>3, <1>4 DEF Reconcile, ReconcileFails, NotFound, ReconcilePending, ReconcileStarting,
       ReconcileRunning, ReconcileStopping, ReconcileStopped, ReconcileCrashed, GoTo, SaveAndReturn, Save,
       SaveAndGo, Phases
<1>5. ASSUME NEW w \in Workers, NEW p, NEW r, Ends(w, p, r), r.desired = work[w].copy.desired
      PROVE  node'.desired = "Stopped"
  BY <1>1, <1>5 DEF Ends, SaveAndEnd, SaveAndGo, CopiesMatch
<1>6. ASSUME NEW w \in Workers, Continue(w) \/ StopReturns(w)
      PROVE  node'.desired = "Stopped"
  <2>1. work[w].copy \in Records
    BY <1>1 DEF Works
  <2>2. /\ [work[w].copy EXCEPT !.phase = "Running"].desired = work[w].copy.desired
        /\ [work[w].copy EXCEPT !.phase = "Crashed"].desired = work[w].copy.desired
        /\ [work[w].copy EXCEPT !.phase = "Crashed", !.pid = 0].desired = work[w].copy.desired
        /\ [work[w].copy EXCEPT !.phase = "Stopped", !.pid = 0].desired = work[w].copy.desired
    BY <2>1 DEF Records
  <2>3. CASE SaveRunning(w) \/ SaveCrashed(w) \/ SaveDown(w) \/ SaveStopped(w)
    BY <1>5, <2>2, <2>3 DEF SaveRunning, SaveCrashed, SaveDown, SaveStopped
  <2>4. CASE RuntimeStart(w) \/ RuntimeStartFails(w) \/ RecordPid(w) \/ RuntimeStop(w) \/ StopReturns(w)
    BY <2>4 DEF RuntimeStart, RuntimeStartFails, RecordPid, RuntimeStop, StopReturns
  <2> QED
    BY <1>6, <2>3, <2>4 DEF Continue
<1>7. CASE Service
  BY <1>1, <1>7 DEF Service, StartNode, StopNode, RestartNode, SwitchNodeBinary, StartDevnet, Command
<1>8. CASE HandleCrashedNode \/ CheckNodeHealth
  BY <1>3, <1>8 DEF HandleCrashedNode, CheckNodeHealth, Save
<1>9. CASE Launch \/ ProcessDies \/ DaemonRestart
  BY <1>9 DEF Launch, ProcessDies, DaemonRestart
<1> QED
  BY <1>4, <1>6, <1>7, <1>8, <1>9 DEF Next

\* No late write or health restart takes an acknowledged stop back: the desired
\* phase leaves Stopped only by a command (NodeService, DevnetService).
THEOREM StopsAreKept == Spec => StopIsNotUndone
<1>1. NodeInv /\ [Next]_vars =>
        [node.desired = "Stopped" /\ node'.desired # "Stopped" => cmds' # cmds]_vars
  BY DesiredKept DEF vars
<1> QED
  BY <1>1, NodeInvariant, PTL DEF Spec, StopIsNotUndone
=============================================================================
