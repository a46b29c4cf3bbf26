--------------------------- MODULE DevnetLifecycle ---------------------------
(***************************************************************************)
(* One devnet of the daemon, from its creation to its deletion and perhaps *)
(* its next creation: its record, the commands of the DevnetService, the   *)
(* workers of the DevnetController with the provisioner they call, and     *)
(* what a provisioning leaves outside the record: the subnet, the data     *)
(* directory and the records of the nodes.                                 *)
(*                                                                         *)
(* Provisioning takes minutes and works on a copy of the record read       *)
(* before it.  The copy is written back only if its generation is still    *)
(* that of the record (ResourceStore); a devnet created again counts its   *)
(* generations from one again, so the identity "uid" is added here to tell *)
(* the two apart in the properties.  After a failed reconcile the key is   *)
(* in the queue twice (WorkQueue), and two workers may provision the same  *)
(* devnet.  A commit may fail after the store has counted the generation   *)
(* of the copy up; the reconcile that reports its progress goes on with    *)
(* such a copy, which is ahead of the record until somebody writes that.   *)
(*                                                                         *)
(* DeleteDevnet and StartDevnet take several steps and at most one of them *)
(* is under way; a command that reads the record and writes it back with   *)
(* nothing in between is one step.  Conditions, events and messages are    *)
(* left out.                                                               *)
(***************************************************************************)
EXTENDS Integers, FiniteSets

CONSTANTS
  Workers,      \* the workers of the DevnetController
  Stages,       \* phases of the orchestrator that report: building, forking, initializing
  MaxNodes,     \* bound: nodes a spec may ask for
  Subnets,      \* the subnets the allocator may give to this devnet
  MaxEvents,    \* bound: number of commands, failing steps and commits of a reconcile, health
                \* sweeps and daemon restarts
  MaxUpsets,    \* bound: number of those that are no commands, and of failing steps of a deletion
  MaxRetries,   \* bound: number of reconciles that end with a refused write
  MaxCopies,    \* bound: copies of the key in the queue
  NoWorker      \* the progress callback belongs to no reconcile under way

ASSUME WorkersAssumption == NoWorker \notin Workers
ASSUME SubnetsAssumption == Subnets # {} /\ Subnets \subseteq Nat \ {0}
ASSUME BoundsAssumption == /\ MaxNodes \in Nat \ {0} /\ MaxCopies \in Nat \ {0} /\ Stages \in 1 .. 3
                           /\ MaxEvents \in Nat /\ MaxUpsets \in Nat /\ MaxRetries \in Nat

VARIABLES
  dev,       \* the stored record of the devnet; uid 0 when there is none
  made,      \* number of devnets created so far
  nodes,     \* the stored records of its nodes
  subnet,    \* the subnet held under its name, 0 when none
  dir,       \* its data directory
  queued,    \* how often its key is in the queue
  dirty,     \* the queue has marked it as needing work
  handled,   \* the queue takes it for being processed
  work,      \* what each worker is doing
  call,      \* the StartDevnet or DeleteDevnet under way
  overlap,   \* history: the devnet was deleted while a worker was busy with it
  crashed,   \* history: the daemon was restarted
  left,      \* history: what the last deletion failed to remove
  count      \* number of events, upsets and retries so far

queueVars == <<queued, dirty, handled>>
outside == <<nodes, subnet, dir>>
vars == <<dev, made, outside, queueVars, work, call, overlap, crashed, left, count>>

Index == 0 .. MaxNodes - 1
Phases == {"Pending", "Provisioning", "Running", "Degraded", "Stopped"}

\* spec is the number of validators and full nodes asked for, total the number of
\* nodes that Status reports.
Devnets == [uid : Nat, gen : Nat, phase : Phases, spec : 1 .. MaxNodes, total : 0 .. MaxNodes]

\* A record created but never queued, left out when its provisioning could not list the
\* nodes, in the hands of the NodeController (NodeLifecycle tells what becomes of it), and
\* set back to Pending by a StartDevnet that has not queued it yet.
NodePhases == {"none", "created", "missed", "managed", "reset"}
Nodes == [phase : NodePhases, subnet : Subnets \cup {0}]

\* cb is the reconcile whose copy the progress callback of the orchestrator writes, late
\* that copy once the reconcile has ended; ahead says that a report of this copy was
\* counted but not committed, list holds the nodes to be queued.
Provisioning == {"provision", "orchestrate", "create", "complete", "queue", "write", "failed"}
Places == {"idle", "pending", "status"} \cup Provisioning
Works == [at : Places, copy : Devnets, ahead : BOOLEAN, cb : Workers \cup {NoWorker}, late : Devnets,
          sub : Subnets \cup {0}, next : Nat, list : SUBSET Index]
Calls == [at : {"idle", "deleteNodes", "release", "eraseDir", "deleteDevnet", "startNodes", "startDevnet"},
          copy : Devnets, list : SUBSET Index]
Removed == {"nodes", "subnet", "dir", "devnet"}
Counted == {"events", "upsets", "retries"}

TypeOK ==
  /\ dev \in Devnets /\ made \in Nat
  /\ nodes \in [Index -> Nodes]
  /\ subnet \in Subnets \cup {0} /\ dir \in {"none", "ready"}
  /\ queued \in Nat /\ dirty \in BOOLEAN /\ handled \in BOOLEAN
  /\ work \in [Workers -> Works]
  /\ call \in Calls
  /\ overlap \in BOOLEAN /\ crashed \in BOOLEAN /\ left \subseteq Removed
  /\ count \in [Counted -> Nat]

NoDevnet == [uid |-> 0, gen |-> 0, phase |-> "Pending", spec |-> 1, total |-> 0]
NoNode == [phase |-> "none", subnet |-> 0]
IdleWork == [at |-> "idle", copy |-> NoDevnet, ahead |-> FALSE, cb |-> NoWorker, late |-> NoDevnet,
             sub |-> 0, next |-> 0, list |-> {}]
IdleCall == [at |-> "idle", copy |-> NoDevnet, list |-> {}]

Init ==
  /\ dev = NoDevnet /\ made = 0
  /\ nodes = [i \in Index |-> NoNode] /\ subnet = 0 /\ dir = "none"
  /\ queued = 0 /\ dirty = FALSE /\ handled = FALSE
  /\ work = [w \in Workers |-> IdleWork]
  /\ call = IdleCall
  /\ overlap = FALSE /\ crashed = FALSE /\ left = {}
  /\ count = [c \in Counted |-> 0]

Limit == [events |-> MaxEvents, upsets |-> MaxUpsets, retries |-> MaxRetries]
Counts(C) == /\ \A c \in C : count[c] < Limit[c]
             /\ count' = [c \in Counted |-> IF c \in C THEN count[c] + 1 ELSE count[c]]
Upset == {"events", "upsets"}

Exists == dev.uid # 0
Busy == \E w \in Workers : work[w].at # "idle"
Deleting == call.at \in {"deleteNodes", "release", "eraseDir", "deleteDevnet"}
Records == {i \in Index : nodes[i].phase # "none"}

-----------------------------------------------------------------------------
(* The queue, as its callers see it, and the conditional write.              *)

Copies(n) == queued' = IF queued + n > MaxCopies THEN MaxCopies ELSE queued + n

Enqueue ==
  /\ dirty' = TRUE
  /\ Copies(IF dirty \/ handled THEN 0 ELSE 1)
  /\ UNCHANGED handled

\* Faulty variant, used only to show that the properties notice it: a write is
\* accepted whatever the generation.
AcceptsAnyGeneration(c) == Exists

Accepts(c) == Exists /\ dev.gen = c.gen
Stored(c) == [c EXCEPT !.gen = @ + 1]

-----------------------------------------------------------------------------
(* The workers.                                                              *)

\* The reconcile of w ends and leaves its copy as c to the callbacks that still name it.
Ended(w, c) ==
  [v \in Workers |->
     IF v = w THEN IdleWork
     ELSE IF work[v].cb = w THEN [work[v] EXCEPT !.cb = NoWorker, !.late = c] ELSE work[v]]

\* Reconcile returns nil: the queue's Done.
ReturnNil(w, c) ==
  /\ work' = Ended(w, c)
  /\ handled' = FALSE
  /\ Copies(IF dirty THEN 1 ELSE 0)
  /\ UNCHANGED <<dirty, count>>

\* Reconcile returns an error: Requeue and then the deferred Done, each adding the key.
ReturnError(w, c) ==
  /\ work' = Ended(w, c)
  /\ handled' = FALSE /\ dirty' = TRUE
  /\ Copies(2)

\* The conditional write of c at the end of a reconcile is refused, or is not committed.
UpdateFails(w, c) ==
  /\ UNCHANGED dev
  /\ \/ ~Accepts(c) /\ ReturnError(w, c) /\ Counts({"retries"})
     \/ Accepts(c) /\ ReturnError(w, Stored(c)) /\ Counts(Upset)

\* The reconcile ends with the conditional write of c.
ReturnUpdate(w, c) ==
  \/ Accepts(c) /\ dev' = Stored(c) /\ ReturnNil(w, Stored(c))
  \/ UpdateFails(w, c)

\* w begins to provision with copy c: it sets the callback of the one provisioner, and
\* so changes the callback of those that have not reached their orchestrator yet.
Provision(w, c) ==
  work' = [v \in Workers |->
             IF v = w THEN [IdleWork EXCEPT !.at = "provision", !.copy = c, !.cb = w]
             ELSE IF work[v].at = "provision" THEN [work[v] EXCEPT !.cb = w] ELSE work[v]]

\* The worker takes the key and reads the record: nothing to do without one or when
\* it is Stopped, otherwise on to the handler of its phase.
Take(w) ==
  /\ work[w].at = "idle" /\ queued > 0
  /\ queued' = queued - 1 /\ dirty' = FALSE
  /\ \/ /\ ~Exists \/ dev.phase = "Stopped"
        /\ handled' = FALSE /\ UNCHANGED work
     \/ /\ Exists /\ dev.phase # "Stopped" /\ handled' = TRUE
        /\ IF dev.phase = "Provisioning" THEN Provision(w, dev)
           ELSE LET p == IF dev.phase = "Pending" THEN "pending" ELSE "status"
                IN work' = [work EXCEPT ![w] = [IdleWork EXCEPT !.at = p, !.copy = dev]]
  /\ overlap' = (overlap \/ Deleting)
  /\ UNCHANGED <<dev, made, outside, call, crashed, left, count>>

\* Faulty variant: the handler returns after the write, as if the queue saw it.
ReconcilePendingReturns(w) ==
  /\ work[w].at = "pending"
  /\ ReturnUpdate(w, [work[w].copy EXCEPT !.phase = "Provisioning"])
  /\ UNCHANGED <<made, outside, call, overlap, crashed, left>>

\* reconcilePending: the write of the phase, then straight on to provisioning.
ReconcilePending(w) ==
  /\ work[w].at = "pending"
  /\ LET c == [work[w].copy EXCEPT !.phase = "Provisioning"] IN
       \/ Accepts(c) /\ dev' = Stored(c) /\ Provision(w, Stored(c)) /\ UNCHANGED <<queueVars, count>>
       \/ UpdateFails(w, c)
  /\ UNCHANGED <<made, outside, call, overlap, crashed, left>>

\* w goes on to place p; what it will not need again is forgotten.
GoTo(w, p) ==
  work' = [work EXCEPT ![w] = [IdleWork EXCEPT !.at = p, !.copy = work[w].copy, !.ahead = work[w].ahead]]

\* A step of the provisioning fails: the devnet will be marked Degraded.  The first
\* may fail before or after the directory is erased.
Fails(w) ==
  /\ work[w].at \in {"provision", "orchestrate", "create"}
  /\ Counts(Upset)
  /\ dir' \in IF work[w].at = "provision" THEN {dir, "none"} ELSE {dir}
  /\ GoTo(w, "failed")
  /\ UNCHANGED <<dev, made, nodes, subnet, queueVars, call, overlap, crashed, left>>

\* The directory is erased, the subnet that the name holds or a free one allocated,
\* and the orchestrator made, with the callback the provisioner has by then.
EraseAndAllocate(w) ==
  /\ work[w].at = "provision"
  /\ dir' = "none"
  /\ \E s \in Subnets :
       /\ subnet # 0 => s = subnet
       /\ subnet' = s
       /\ work' = [work EXCEPT ![w].at = "orchestrate", ![w].sub = s]
  /\ UNCHANGED <<dev, made, nodes, queueVars, call, overlap, crashed, left, count>>

\* The copy that the progress callback of w's orchestrator writes.
Reported(w) == IF work[w].cb = NoWorker THEN work[w].late ELSE work[work[w].cb].copy

\* The same workers with that copy counted up, committed or not.
WithCounted(w, moved, committed) ==
  LET v == work[w].cb
      c == Reported(w)
  IN [x \in Workers |->
        IF x = v THEN [moved[x] EXCEPT !.copy = Stored(c), !.ahead = ~committed]
        ELSE IF v = NoWorker /\ moved[x].cb = NoWorker /\ moved[x].late = c
             THEN [moved[x] EXCEPT !.late = Stored(c)] ELSE moved[x]]

\* handleProvisioningProgress; moved is where the workers are otherwise.  A write that is
\* refused or not committed is only logged, and in the second case the copy stays counted.
HandleProgress(w, moved) ==
  LET c == Reported(w) IN
  \/ Accepts(c) /\ dev' = Stored(c) /\ work' = WithCounted(w, moved, TRUE) /\ UNCHANGED count
  \/ Accepts(c) /\ UNCHANGED dev /\ work' = WithCounted(w, moved, FALSE) /\ Counts(Upset)
  \/ ~Accepts(c) /\ UNCHANGED <<dev, count>> /\ work' = moved

\* A phase of the orchestrator, which reports and goes on.  The last one, Initializing,
\* fills the directory.
OrchestratorPhase(w) ==
  /\ work[w].at = "orchestrate"
  /\ LET last == work[w].next + 1 = Stages
         moved == IF last
                  THEN [work EXCEPT ![w].at = "create", ![w].cb = NoWorker, ![w].late = NoDevnet, ![w].next = 0]
                  ELSE [work EXCEPT ![w].next = @ + 1]
     IN HandleProgress(w, moved) /\ dir' = IF last THEN "ready" ELSE dir
  /\ UNCHANGED <<made, nodes, subnet, queueVars, call, overlap, crashed, left>>

\* createNodeIfNotExists for the next index, and on after the last.
CreateNode(w) ==
  /\ work[w].at = "create"
  /\ LET i == work[w].next IN
       /\ nodes' = [nodes EXCEPT ![i] =
                      IF @.phase = "none" THEN [phase |-> "created", subnet |-> work[w].sub] ELSE @]
       /\ IF i + 1 = work[w].copy.spec THEN GoTo(w, "complete") ELSE work' = [work EXCEPT ![w].next = @ + 1]
  /\ UNCHANGED <<dev, made, subnet, dir, queueVars, call, overlap, crashed, left, count>>

Queue(n) == IF n.phase \in {"created", "missed", "reset"} THEN [n EXCEPT !.phase = "managed"] ELSE n

Completed(c) == [c EXCEPT !.phase = "Running", !.total = c.spec]

\* Faulty variant: the devnet is written as Running before its nodes are queued.
ListNodesAfterWrite(w) ==
  /\ work[w].at = "complete"
  /\ ReturnUpdate(w, Completed(work[w].copy))
  /\ UNCHANGED <<made, outside, call, overlap, crashed, left>>

\* The nodes are listed in order to be queued; if that fails none of them is.
ListNodes(w) ==
  /\ work[w].at = "complete"
  /\ \/ /\ work' = [work EXCEPT ![w].at = "queue", ![w].list = Records]
        /\ UNCHANGED <<nodes, count>>
     \/ /\ Counts(Upset)
        /\ nodes' = [i \in Index |-> IF i < work[w].copy.spec /\ nodes[i].phase = "created"
                                     THEN [nodes[i] EXCEPT !.phase = "missed"] ELSE nodes[i]]
        /\ GoTo(w, "write")
  /\ UNCHANGED <<dev, made, subnet, dir, queueVars, call, overlap, crashed, left>>

QueueNodes(w) ==
  /\ work[w].at = "queue"
  /\ nodes' = [i \in Index |-> IF i \in work[w].list THEN Queue(nodes[i]) ELSE nodes[i]]
  /\ GoTo(w, "write")
  /\ UNCHANGED <<dev, made, subnet, dir, queueVars, call, overlap, crashed, left, count>>

\* The devnet is written as Running with all nodes of its spec, queued or not.
Complete(w) ==
  /\ work[w].at = "write"
  /\ ReturnUpdate(w, Completed(work[w].copy))
  /\ UNCHANGED <<made, outside, call, overlap, crashed, left>>

MarkDegraded(w) ==
  /\ work[w].at = "failed"
  /\ ReturnUpdate(w, [work[w].copy EXCEPT !.phase = "Degraded"])
  /\ UNCHANGED <<made, outside, call, overlap, crashed, left>>

\* The phase that a look at the nodes gives; which of them run or answer is not known here.
Observed == IF Records = {} THEN {"Running"} ELSE {"Running", "Degraded"}

\* reconcileRunning and reconcileDegraded: compare the nodes that run with the nodes
\* that exist, and write only a change of phase.
ReconcileStatus(w) ==
  /\ work[w].at = "status"
  /\ \E p \in Observed :
       LET c == work[w].copy
       IN IF p = c.phase THEN ReturnNil(w, c) /\ UNCHANGED dev ELSE ReturnUpdate(w, [c EXCEPT !.phase = p])
  /\ UNCHANGED <<made, outside, call, overlap, crashed, left>>

-----------------------------------------------------------------------------
(* The commands.                                                             *)

CreateDevnet ==
  /\ ~Exists /\ Counts({"events"})
  /\ \E n \in 1 .. MaxNodes :
       dev' = [uid |-> made + 1, gen |-> 1, phase |-> "Pending", spec |-> n, total |-> 0]
  /\ made' = made + 1
  /\ Enqueue
  /\ UNCHANGED <<outside, work, call, overlap, crashed, left>>

\* UpdateDevnet, and ApplyDevnet when something has changed.
UpdateDevnet ==
  /\ Exists /\ Counts({"events"})
  /\ \E n \in 1 .. MaxNodes : dev' = Stored([dev EXCEPT !.spec = n])
  /\ Enqueue
  /\ UNCHANGED <<made, outside, work, call, overlap, crashed, left>>

StopDevnet ==
  /\ Exists /\ Counts({"events"})
  /\ dev' = Stored([dev EXCEPT !.phase = "Stopped"])
  /\ Enqueue
  /\ UNCHANGED <<made, outside, work, call, overlap, crashed, left>>

\* StartDevnet reads the devnet and its nodes, sets the nodes back to Pending, and
\* writes the devnet; it queues the nodes only if that write is accepted.
StartDevnet ==
  /\ call.at = "idle" /\ Exists /\ Records # {} /\ Counts({"events"})
  /\ call' = [at |-> "startNodes", copy |-> dev, list |-> Records]
  /\ UNCHANGED <<dev, made, outside, queueVars, work, overlap, crashed, left>>

\* Those that run are left alone.  An update of a node may be refused: the call fails and
\* leaves those done before.
StartNodes ==
  /\ call.at = "startNodes"
  /\ \E done \in SUBSET call.list :
       nodes' = [i \in Index |-> IF i \in done /\ nodes[i].phase = "managed"
                                THEN [nodes[i] EXCEPT !.phase = "reset"] ELSE nodes[i]]
  /\ call' \in {[call EXCEPT !.at = "startDevnet"], IdleCall}
  /\ UNCHANGED <<dev, made, subnet, dir, queueVars, work, overlap, crashed, left, count>>

StartReturns ==
  /\ call.at = "startDevnet"
  /\ \/ /\ Accepts(call.copy)
        /\ dev' = Stored([call.copy EXCEPT !.phase = "Running"])
        /\ nodes' = [i \in Index |-> IF i \in call.list THEN Queue(nodes[i]) ELSE nodes[i]]
     \/ UNCHANGED <<dev, nodes>>  \* refused, or not committed
  /\ call' = IdleCall
  /\ UNCHANGED <<made, subnet, dir, queueVars, work, overlap, crashed, left, count>>

\* DeleteDevnet: each step is taken whatever became of the one before, also when
\* there is no such devnet.
DeleteDevnet ==
  /\ call.at = "idle" /\ Counts({"events"})
  /\ call' = [IdleCall EXCEPT !.at = "deleteNodes"]
  /\ overlap' = (overlap \/ Busy)
  /\ UNCHANGED <<dev, made, outside, queueVars, work, crashed, left>>

\* A step of the deletion succeeds, or fails with a warning and leaves what it was to remove.
Succeeds(x) == left' = left \ {x} /\ UNCHANGED count
Remains(x) == left' = left \cup {x} /\ Counts({"upsets"})

DeleteNodes ==
  /\ call.at = "deleteNodes"
  /\ \/ nodes' = [i \in Index |-> NoNode] /\ Succeeds("nodes")
     \/ UNCHANGED nodes /\ Remains("nodes")
  /\ call' = [call EXCEPT !.at = "release"]
  /\ UNCHANGED <<dev, made, subnet, dir, queueVars, work, overlap, crashed>>

\* Faulty variant: the subnet stays with the name.
ReleaseSubnetForgotten ==
  /\ call.at = "release"
  /\ Succeeds("subnet")
  /\ call' = [call EXCEPT !.at = "eraseDir"]
  /\ UNCHANGED <<dev, made, outside, queueVars, work, overlap, crashed>>

ReleaseSubnet ==
  /\ call.at = "release"
  /\ \/ subnet' = 0 /\ Succeeds("subnet")
     \/ UNCHANGED subnet /\ Remains("subnet")
  /\ call' = [call EXCEPT !.at = "eraseDir"]
  /\ UNCHANGED <<dev, made, nodes, dir, queueVars, work, overlap, crashed>>

EraseDeletedDir ==
  /\ call.at = "eraseDir"
  /\ \/ dir' = "none" /\ Succeeds("dir")
     \/ UNCHANGED dir /\ Remains("dir")
  /\ call' = [call EXCEPT !.at = "deleteDevnet"]
  /\ UNCHANGED <<dev, made, nodes, subnet, queueVars, work, overlap, crashed>>

\* The record itself; if that fails the call does, and the devnet stays without its nodes.
DeleteReturns ==
  /\ call.at = "deleteDevnet"
  /\ \/ /\ IF Exists THEN Enqueue ELSE UNCHANGED queueVars
        /\ dev' = NoDevnet /\ Succeeds("devnet")
     \/ Exists /\ UNCHANGED <<dev, queueVars>> /\ Remains("devnet")
  /\ call' = IdleCall
  /\ UNCHANGED <<made, outside, work, overlap, crashed>>

-----------------------------------------------------------------------------
(* The rest of the daemon.                                                   *)

\* The health controller's accepted write (a refused one is repeated), for a devnet
\* that ran when the sweep queued it.
CheckHealth ==
  /\ Exists /\ (dev.phase \in {"Running", "Degraded", "Stopped"} \/ made > 1)
  /\ Counts(Upset)
  /\ \E p \in IF dev.phase \in {"Running", "Degraded"} /\ Records # {} THEN Observed ELSE {dev.phase} :
       dev' = Stored([dev EXCEPT !.phase = p])
  /\ UNCHANGED <<made, outside, queueVars, work, call, overlap, crashed, left>>

\* The daemon dies and starts again; nothing puts devnets back into the queue.
DaemonRestart ==
  /\ Counts(Upset)
  /\ work' = [w \in Workers |-> IdleWork] /\ call' = IdleCall
  /\ queued' = 0 /\ dirty' = FALSE /\ handled' = FALSE
  /\ overlap' = (overlap \/ Deleting) /\ crashed' = TRUE
  /\ UNCHANGED <<dev, made, outside, left>>

WorkerStep(w) ==
  \/ Take(w) \/ ReconcilePending(w) \/ EraseAndAllocate(w) \/ OrchestratorPhase(w)
  \/ CreateNode(w) \/ ListNodes(w) \/ QueueNodes(w) \/ Complete(w) \/ MarkDegraded(w) \/ ReconcileStatus(w)

Commands == CreateDevnet \/ UpdateDevnet \/ StopDevnet \/ StartDevnet \/ DeleteDevnet
CallStep == StartNodes \/ StartReturns \/ DeleteNodes \/ ReleaseSubnet \/ EraseDeletedDir \/ DeleteReturns

Next ==
  \/ \E w \in Workers : WorkerStep(w) \/ Fails(w)
  \/ Commands \/ CallStep \/ CheckHealth \/ DaemonRestart

\* A worker never stops between two steps of a reconcile, and an idle one takes the
\* next key; build, fork and initialisation end, one way or the other.
Spec == Init /\ [][Next]_vars /\ \A w \in Workers : WF_vars(WorkerStep(w))

-----------------------------------------------------------------------------
(* Properties.                                                               *)

\* Unless the devnet was deleted under a worker, the copy that a worker or a
\* StartDevnet works on is of this devnet, is never ahead of the record, and is the
\* record itself when the generations agree: a write that is accepted loses no
\* change made meanwhile, the changes that the progress callback of another
\* reconcile makes to the copy included.  The one exception is a reconcile whose last
\* report was counted and not committed: its copy is ahead, and is accepted, over
\* what was written, exactly when somebody else has written the record since.
CopiesMatch ==
  LET Match(c) == c.gen <= dev.gen /\ (c.gen = dev.gen => c = dev) IN
  ~overlap => /\ \A w \in Workers : work[w].at # "idle" =>
                   work[w].copy.uid = dev.uid /\ (work[w].ahead \/ Match(work[w].copy))
              /\ call.at \in {"startNodes", "startDevnet"} => call.copy.uid = dev.uid /\ Match(call.copy)

\* The inductive core.
DevnetInv == TypeOK /\ CopiesMatch

\* A devnet that reports nodes has a record for every one of them, with an address in
\* the subnet the devnet holds, and none whose controller was not told of it: the
\* nodes are queued before the devnet is written, so a refused write or a crash
\* between the two costs nothing.  That holds whatever was stopped, updated, started,
\* provisioned twice, restarted or not committed in between, except that nodes are left
\* out when their provisioning cannot list them, that records which an earlier deletion
\* failed to remove keep their old address, and that nothing is promised of a devnet
\* that was deleted while a worker was busy with it or whose deletion failed at the end.
ReportedNodesAreThere ==
  dev.total > 0 /\ ~overlap /\ "devnet" \notin left =>
    \A i \in 0 .. dev.total - 1 :
      /\ nodes[i].phase # "created"
      /\ ~Deleting => nodes[i].phase # "none" /\ ("nodes" \in left \/ nodes[i].subnet = subnet)

\* Once DeleteDevnet has removed the devnet, neither a node record nor the subnet nor the
\* data directory of it is left, except what its own step failed to remove, whatever
\* became of the other steps; unless a worker was busy with it meanwhile.
DeletedLeavesNothing ==
  ~Exists /\ ~overlap /\ ~Deleting =>
    /\ "nodes" \in left \/ Records = {}
    /\ "subnet" \in left \/ subnet = 0
    /\ "dir" \in left \/ dir = "none"

\* A devnet that waits for provisioning gets it: it leaves Pending and Provisioning,
\* whatever fails or interferes and after a refused or failed write too, unless the
\* daemon is restarted (nothing queues the devnet again then) or writes are refused
\* again and again, MaxRetries times here: two workers that provision it at once can
\* make each other's copy stale for ever.
ProvisioningEnds ==
  (Exists /\ dev.phase \in {"Pending", "Provisioning"} /\ ~crashed)
    ~> (~Exists \/ dev.phase \notin {"Pending", "Provisioning"} \/ crashed \/ count.retries = MaxRetries)
=============================================================================
