---------------------------- MODULE DockerDeploy ----------------------------
(***************************************************************************)
(* The Docker orchestrator and the port allocator under it: processes      *)
(* that deploy devnets and roll deployments back, on one host.             *)
(*                                                                         *)
(* They share the port registry, a file guarded by flock on a lock file of *)
(* its own, the state files, one per devnet name, and the Docker daemon.   *)
(* A deployment goes through its phases and tries to save its state after  *)
(* each of them; a phase that fails rolls back what the state in memory    *)
(* names.  A process may be killed between any two steps, which frees the  *)
(* lock, and its context may be cancelled: the docker command under way is *)
(* killed, though Docker may carry it out, and those after it fail; file   *)
(* operations do not.                                                      *)
(*                                                                         *)
(* A call of Deploy has a number.  It stands for what tells the products   *)
(* of one call from those of another: the ID of its network, the IDs of    *)
(* its containers and the time of its port allocation.  Docker itself is   *)
(* modelled from how the code uses it.                                     *)
(***************************************************************************)
EXTENDS Integers, FiniteSets

CONSTANTS
  Processes,          \* the processes that deploy and roll back
  Names,              \* names of devnets
  First,              \* GlobalPortRangeStart, 26000 in the code
  Last,               \* GlobalPortRangeEnd, 36000 in the code
  PortsPerValidator,  \* 100 in the code
  Published,          \* the ports of its block a container publishes, 5 in the code
  MaxValidators,      \* the largest validator count, 100 in the code
  Subnets,            \* the second octets to try, 20 .. 254 in the code
  HostPorts,          \* the sets of ports that host services may listen on
  MaxCalls,           \* bound: calls of Deploy and Rollback
  MaxFaults           \* bound: kills, cancelled contexts and calls with a broken disk

ASSUME PortsAssumption ==
  /\ First \in Nat /\ Last \in Nat /\ PortsPerValidator \in Nat \ {0} /\ MaxValidators \in Nat \ {0}
  /\ MaxValidators * PortsPerValidator <= Last - First + 1
  /\ Published \in 1 .. PortsPerValidator

ASSUME BoundsAssumption == MaxCalls \in Nat /\ MaxFaults \in Nat /\ Subnets \subseteq Nat /\ HostPorts \subseteq SUBSET Nat

NoProcess == "none"
ASSUME ProcessesAssumption == NoProcess \notin Processes

VARIABLES
  registry,   \* the allocations in port-registry.json
  lock,       \* the process that holds the lock of the registry
  file,       \* the state file of each name
  network,    \* the Docker networks of the orchestrator
  container,  \* the container under each name stable-devnet-node<i>
  host,       \* the ports of host services
  work,       \* what each process is doing
  calls,      \* number of calls so far, the number of the last deployment
  faults,     \* number of faults so far
  disturbed   \* history: deployments killed, rolled back while they ran or with an error, or
              \* whose state file is not what it should be at the end of a call

vars == <<registry, lock, file, network, container, host, work, calls, faults, disturbed>>

Index == 0 .. MaxValidators - 1
Runs == 1 .. MaxCalls
Allocations == [name : Names, start : First .. Last, end : First .. Last, run : Runs]

\* phase is the phase reached or the one that failed.  range is PortRange, empty while nil;
\* net tells whether NetworkID is set; started is StartedContainers by index.
States == [name : Names, run : Runs, phase : {"validating", "network", "ports", "image", "starting", "running"},
           net : BOOLEAN, range : SUBSET Allocations, started : SUBSET Index]

NoFile == [run |-> 0]

Containers == [run : 0 .. MaxCalls, port : Nat, running : BOOLEAN]
NoContainer == [run |-> 0, port |-> 0, running |-> FALSE]

Places == {"idle", "subnet", "network", "lock", "load", "save", "check", "image", "inspect", "remove", "run", "persist",
           "stop", "rmnet", "rlock", "rload", "rsave", "forget"}
InLock == {"load", "save", "rload", "rsave"}

\* n is ValidatorCount, i the container to start, subnet the one found, mine the allocation
\* made, seen the registry as loaded, errs whether a step of the rollback failed, cancelled
\* whether the context is done, broken whether state files may fail to be written or removed.
Works == [at : Places, st : States \cup {NoFile}, n : 0 .. MaxValidators, i : 0 .. MaxValidators, subnet : Subnets \cup {0},
          mine : SUBSET Allocations, seen : SUBSET Allocations, errs : BOOLEAN, cancelled : BOOLEAN, broken : BOOLEAN]

Idle == [at |-> "idle", st |-> NoFile, n |-> 0, i |-> 0, subnet |-> 0, mine |-> {}, seen |-> {}, errs |-> FALSE,
         cancelled |-> FALSE, broken |-> FALSE]

TypeOK ==
  /\ registry \subseteq Allocations
  /\ lock \in Processes \cup {NoProcess}
  /\ file \in [Names -> States \cup {NoFile}]
  /\ network \subseteq [run : Runs, name : Names, subnet : Subnets]
  /\ container \in [Index -> Containers]
  /\ host \in SUBSET Nat
  /\ work \in [Processes -> Works]
  /\ calls \in 0 .. MaxCalls /\ faults \in 0 .. MaxFaults /\ disturbed \subseteq Runs

Init ==
  /\ registry = {} /\ lock = NoProcess /\ network = {} /\ calls = 0 /\ faults = 0 /\ disturbed = {}
  /\ file = [d \in Names |-> NoFile]
  /\ container = [i \in Index |-> NoContainer]
  /\ host \in HostPorts
  /\ work = [p \in Processes |-> Idle]
-----------------------------------------------------------------------------
Ports(a) == a.start .. a.end

\* Variant of GapAfter: one port too many is counted behind the last allocation.
GapAfterInclusive(allocations, a, size) ==
  LET later == {b \in allocations : b.start > a.start}
  IN IF later = {} THEN Last - a.end + 1 >= size
     ELSE \A b \in later : b.start - 1 - (a.end + 1) + 1 >= size

\* The allocation behind a, in the order of the starts, leaves size ports free; behind the
\* last one the rest of the global range does.
GapAfter(allocations, a, size) ==
  LET later == {b \in allocations : b.start > a.start}
  IN IF later = {} THEN Last - a.end >= size
     ELSE \A b \in later : b.start - 1 - (a.end + 1) + 1 >= size

\* Variant of findAvailableRange: the gap before the first allocation is not looked at.
findAvailableRangeBehind(allocations, size) ==
  IF allocations = {} THEN {First}
  ELSE {a.end + 1 : a \in {x \in allocations :
          /\ GapAfter(allocations, x, size)
          /\ \A y \in allocations : GapAfter(allocations, y, size) => x.start <= y.start}}

\* The start of the range to take, an empty set when there is none.  An empty registry has
\* room for every size that is asked for.
findAvailableRange(allocations, size) ==
  IF \A a \in allocations : a.start - First >= size THEN {First}
  ELSE {a.end + 1 : a \in {x \in allocations :
          /\ GapAfter(allocations, x, size)
          /\ \A y \in allocations : GapAfter(allocations, y, size) => x.start <= y.start}}

\* The ports that something listens on: host services and the containers that run.
InUse == host \cup UNION {container[i].port .. (container[i].port + Published - 1) : i \in {j \in Index : container[j].running}}

Become(p, w) == work' = [work EXCEPT ![p] = w]
GoTo(p, place) == Become(p, [work[p] EXCEPT !.at = place])
At(p, place) == work[p].at = place

\* saveState writes the file of the name.  After the phases that change nothing but the
\* state of the call it is part of the step that ends the phase.  Errors are ignored: the
\* file stays as it was, or cannot be read any more, which is as if there were none.  That
\* may happen to any save of a call whose disk is broken, and counts as one fault.
Saved(st) == [file EXCEPT ![st.name] = st]
Gone(d) == [file EXCEPT ![d] = NoFile]
Breaks(broken) == IF broken THEN faults < MaxFaults /\ faults' = faults + 1 ELSE UNCHANGED faults
saveState(st, broken) == file' \in IF broken THEN {Saved(st), file, Gone(st.name)} ELSE {Saved(st)}

\* handleFailure begins with the containers of the state.
FailedAs(w) == [w EXCEPT !.at = "stop", !.seen = {}]
Fail(p) == Become(p, FailedAs(work[p]))
-----------------------------------------------------------------------------
\* A call with an empty state to fill.  The state of the name is saved once the
\* configuration is validated.
Deploy(p, d, n) ==
  /\ At(p, "idle") /\ calls < MaxCalls /\ n >= 1
  /\ calls' = calls + 1
  /\ LET st == [name |-> d, run |-> calls + 1, phase |-> "network", net |-> FALSE, range |-> {}, started |-> {}]
     IN /\ \E broken \in BOOLEAN :
             /\ Breaks(broken) /\ saveState([st EXCEPT !.phase = "validating"], broken)
             /\ Become(p, [Idle EXCEPT !.at = "subnet", !.st = st, !.n = n, !.broken = broken])
  /\ UNCHANGED <<registry, lock, network, container, host, disturbed>>

\* A configuration that is not valid, or no Docker daemon: the rollback of an empty state
\* deletes the state file of the name, if it can.
DeployRefused(p, d) ==
  /\ At(p, "idle") /\ calls < MaxCalls
  /\ calls' = calls + 1
  /\ \E broken \in BOOLEAN : Breaks(broken) /\ file' = IF broken THEN file ELSE Gone(d)
  /\ UNCHANGED <<registry, lock, network, container, host, work, disturbed>>

\* CreateNetwork first looks for a subnet that no network has.
findAvailableSubnet(p) ==
  /\ At(p, "subnet")
  /\ LET free == Subnets \ {w.subnet : w \in network}
     IN IF work[p].cancelled \/ free = {} THEN Fail(p)
        ELSE Become(p, [work[p] EXCEPT !.at = "network", !.subnet = CHOOSE s \in free : \A t \in free : s <= t])
  /\ UNCHANGED <<registry, lock, file, network, container, host, calls, faults, disturbed>>

\* Docker refuses a name or a subnet that another network has.
Accepted(w) == \A x \in network : x.name # w.st.name /\ x.subnet # w.subnet
WithNetwork(w) == network \cup {[run |-> w.st.run, name |-> w.st.name, subnet |-> w.subnet]}

CreateNetwork(p) ==
  /\ At(p, "network")
  /\ LET w == work[p]
     IN IF ~w.cancelled /\ Accepted(w)
        THEN /\ network' = WithNetwork(w)
             /\ Become(p, [w EXCEPT !.at = "persist", !.st.net = TRUE])
        ELSE Fail(p) /\ UNCHANGED network
  /\ UNCHANGED <<registry, lock, file, container, host, calls, faults, disturbed>>

\* saveState after the network is there; the state file named no network until then.
SaveNetwork(p) ==
  /\ At(p, "persist")
  /\ saveState(work[p].st, work[p].broken)
  /\ Become(p, [work[p] EXCEPT !.at = "lock", !.st.phase = "ports"])
  /\ UNCHANGED <<registry, lock, network, container, host, calls, faults, disturbed>>
-----------------------------------------------------------------------------
\* Variant of Acquire: a shared lock, which other holders do not keep waiting.
AcquireShared(p) ==
  /\ work[p].at \in {"lock", "rlock"}
  /\ lock' = p
  /\ GoTo(p, IF At(p, "lock") THEN "load" ELSE "rload")
  /\ UNCHANGED <<registry, file, network, container, host, calls, faults, disturbed>>

\* WithLock of AllocateRange and of ReleaseRange waits for the lock.
Acquire(p) ==
  /\ work[p].at \in {"lock", "rlock"} /\ lock = NoProcess
  /\ lock' = p
  /\ GoTo(p, IF At(p, "lock") THEN "load" ELSE "rload")
  /\ UNCHANGED <<registry, file, network, container, host, calls, faults, disturbed>>

\* AllocateRange up to its Save: the name must have no allocation, and there must be room.
LoadForAllocation(p) ==
  /\ At(p, "load")
  /\ LET w == work[p]
         size == w.n * PortsPerValidator
         found == findAvailableRange(registry, size)
         taken == \E a \in registry : a.name = w.st.name
     IN IF taken \/ found = {}
        THEN lock' = NoProcess /\ Fail(p)
        ELSE \E s \in found :
               /\ Become(p, [w EXCEPT !.at = "save", !.seen = registry,
                    !.mine = {[name |-> w.st.name, start |-> s, end |-> s + size - 1, run |-> w.st.run]}])
               /\ UNCHANGED lock
  /\ UNCHANGED <<registry, file, network, container, host, calls, faults, disturbed>>

\* Save replaces the file by a rename; the lock is released on return.
SaveAllocation(p) ==
  /\ At(p, "save")
  /\ registry' = work[p].seen \cup work[p].mine
  /\ lock' = NoProcess
  /\ Become(p, [work[p] EXCEPT !.at = "check", !.seen = {}])
  /\ UNCHANGED <<file, network, container, host, calls, faults, disturbed>>

\* The state gets its range only when no port of it is in use.  The ports in use are not
\* known when neither lsof nor netstat ran.
ValidatePortAvailability(p) ==
  /\ At(p, "check")
  /\ \/ /\ \E a \in work[p].mine : Ports(a) \cap InUse # {}
        /\ ~work[p].cancelled
        /\ Fail(p) /\ UNCHANGED file
     \/ LET st == [work[p].st EXCEPT !.range = work[p].mine]
        IN saveState(st, work[p].broken) /\ Become(p, [work[p] EXCEPT !.at = "image", !.st = [st EXCEPT !.phase = "image"]])
  /\ UNCHANGED <<registry, lock, network, container, host, calls, faults, disturbed>>

phasePullImage(p) ==
  /\ At(p, "image")
  /\ \/ /\ ~work[p].cancelled
        /\ saveState(work[p].st, work[p].broken)
        /\ Become(p, [work[p] EXCEPT !.at = "inspect", !.st.phase = "starting"])
     \/ Fail(p) /\ UNCHANGED file
  /\ UNCHANGED <<registry, lock, network, container, host, calls, faults, disturbed>>
-----------------------------------------------------------------------------
\* StartWithConfig asks whether a container of that name runs; inspect fails, and nothing
\* runs as far as the code can tell, once the context is done.
IsRunning(p) ==
  /\ At(p, "inspect") /\ work[p].i < work[p].n
  /\ IF container[work[p].i].running /\ ~work[p].cancelled THEN Fail(p) ELSE GoTo(p, "remove")
  /\ UNCHANGED <<registry, lock, file, network, container, host, calls, faults, disturbed>>

\* docker rm -f of the name, which takes a container that runs by now as well.
removeContainer(p) ==
  /\ At(p, "remove")
  /\ container' = IF work[p].cancelled THEN container ELSE [container EXCEPT ![work[p].i] = NoContainer]
  /\ GoTo(p, "run")
  /\ UNCHANGED <<registry, lock, file, network, host, calls, faults, disturbed>>

\* docker run: refused when the name is taken or the network is gone; when a port is in use
\* the container stays behind without running.
Port(w) == (CHOOSE a \in w.st.range : TRUE).start + w.i * PortsPerValidator
Refused(w) == container[w.i] # NoContainer \/ ~\E x \in network : x.run = w.st.run
Conflict(w) == (Port(w) .. (Port(w) + Published - 1)) \cap InUse # {}
WithContainer(w) ==
  [container EXCEPT ![w.i] = [run |-> w.st.run, port |-> Port(w), running |-> ~Conflict(w)]]

StartWithConfig(p) ==
  /\ At(p, "run")
  /\ LET w == work[p]
     IN IF w.cancelled \/ Refused(w)
        THEN Fail(p) /\ UNCHANGED container
        ELSE /\ container' = WithContainer(w)
             /\ IF Conflict(w) THEN Fail(p)
                ELSE Become(p, [w EXCEPT !.at = "inspect", !.i = w.i + 1, !.st.started = @ \cup {w.i}])
  /\ UNCHANGED <<registry, lock, file, network, host, calls, faults, disturbed>>

\* All containers run: the state is saved, the second time with the phase Running, and the
\* call returns.
finalizeDeployment(p) ==
  /\ At(p, "inspect") /\ work[p].i = work[p].n
  /\ LET st == work[p].st
     IN \/ file' \in {Saved(st), Saved([st EXCEPT !.phase = "running"])} /\ UNCHANGED disturbed
        \/ work[p].broken /\ file' \in {file, Gone(st.name)} /\ disturbed' = disturbed \cup {st.run}
  /\ Become(p, Idle)
  /\ UNCHANGED <<registry, lock, network, container, host, calls, faults>>
-----------------------------------------------------------------------------
\* Rollback of what the state file of the name says, as for an explicit destroy.
Rollback(p, d) ==
  /\ At(p, "idle") /\ calls < MaxCalls /\ file[d] # NoFile
  /\ calls' = calls + 1
  /\ \E broken \in BOOLEAN : Breaks(broken) /\ Become(p, [Idle EXCEPT !.at = "stop", !.st = file[d], !.broken = broken])
  /\ disturbed' = IF \E q \in Processes \ {p} : work[q].st.run = file[d].run THEN disturbed \cup {file[d].run} ELSE disturbed
  /\ UNCHANGED <<registry, lock, file, network, container, host>>

\* The containers of the state that are still there, and whether one is missing.
Mine(w) == {i \in w.st.started : container[i].run = w.st.run}
Missing(w) == Mine(w) # w.st.started

\* docker stop for each container of the state, then docker rm -f for each; once the
\* context is done they stay as they are.
StopContainers(p) ==
  /\ At(p, "stop")
  /\ LET w == work[p]
     IN /\ container' = IF w.cancelled THEN container ELSE [i \in Index |-> IF i \in Mine(w) THEN NoContainer ELSE container[i]]
        /\ Become(p, [w EXCEPT !.at = "rmnet", !.errs = Missing(w) \/ (w.cancelled /\ w.st.started # {})])
  /\ UNCHANGED <<registry, lock, file, network, host, calls, faults, disturbed>>

\* Docker refuses to remove a network that a running container is attached to.
Attached(w) == \E i \in Index : container[i].running /\ container[i].run = w.st.run
WithoutNetwork(w) == {x \in network : x.run # w.st.run}

\* Variant of DeleteNetwork: a network that could not be removed is logged only.
DeleteNetworkLogged(p) ==
  /\ At(p, "rmnet")
  /\ LET w == work[p]
     IN /\ network' = IF w.st.net /\ ~w.cancelled /\ ~Attached(w) THEN WithoutNetwork(w) ELSE network
        /\ GoTo(p, IF w.st.range # {} THEN "rlock" ELSE "forget")
  /\ UNCHANGED <<registry, lock, file, container, host, calls, faults, disturbed>>

DeleteNetwork(p) ==
  /\ At(p, "rmnet")
  /\ LET w == work[p]
         removed == ~w.cancelled /\ ~Attached(w) /\ WithoutNetwork(w) # network
         then == IF w.st.range # {} THEN "rlock" ELSE "forget"
     IN IF ~w.st.net THEN GoTo(p, then) /\ UNCHANGED network
        ELSE /\ network' = IF removed THEN WithoutNetwork(w) ELSE network
             /\ Become(p, [w EXCEPT !.at = then, !.errs = @ \/ ~removed])
  /\ UNCHANGED <<registry, lock, file, container, host, calls, faults, disturbed>>

\* ReleaseRange takes out what is allocated to the name, whoever allocated it.
LoadForRelease(p) ==
  /\ At(p, "rload")
  /\ LET w == work[p]
         kept == {a \in registry : a.name # w.st.name}
     IN IF kept = registry
        THEN lock' = NoProcess /\ Become(p, [w EXCEPT !.at = "forget", !.errs = TRUE])
        ELSE Become(p, [w EXCEPT !.at = "rsave", !.seen = kept]) /\ UNCHANGED lock
  /\ UNCHANGED <<registry, file, network, container, host, calls, faults, disturbed>>

SaveRelease(p) ==
  /\ At(p, "rsave")
  /\ registry' = work[p].seen
  /\ lock' = NoProcess
  /\ Become(p, [work[p] EXCEPT !.at = "forget", !.seen = {}])
  /\ UNCHANGED <<file, network, container, host, calls, faults, disturbed>>

\* The state file goes only when no step failed, and stays when it cannot be removed.
deleteState(p) ==
  /\ At(p, "forget")
  /\ \/ ~work[p].errs /\ file' = Gone(work[p].st.name) /\ UNCHANGED disturbed
     \/ (work[p].errs \/ work[p].broken) /\ UNCHANGED file /\ disturbed' = disturbed \cup {work[p].st.run}
  /\ Become(p, Idle)
  /\ UNCHANGED <<registry, lock, network, container, host, calls, faults>>
-----------------------------------------------------------------------------
\* The kernel releases the lock of a process that dies.
Kill(p) ==
  /\ ~At(p, "idle") /\ faults < MaxFaults
  /\ faults' = faults + 1
  /\ Become(p, Idle)
  /\ lock' = IF lock = p THEN NoProcess ELSE lock
  /\ disturbed' = disturbed \cup {work[p].st.run}
  /\ UNCHANGED <<registry, file, network, container, host, calls>>

\* What Docker makes of the command that is killed with the context, if anything; of the
\* commands that stop and remove the containers some have been carried out before.
CarriedOut(p) ==
  LET w == work[p] IN
  \/ UNCHANGED <<network, container>>
  \/ At(p, "network") /\ Accepted(w) /\ network' = WithNetwork(w) /\ UNCHANGED container
  \/ At(p, "remove") /\ container' = [container EXCEPT ![w.i] = NoContainer] /\ UNCHANGED network
  \/ At(p, "run") /\ ~Refused(w) /\ container' = WithContainer(w) /\ UNCHANGED network
  \/ /\ At(p, "stop") /\ UNCHANGED network
     /\ \E done \in SUBSET Mine(w), new \in {"stopped", "removed"} :
          container' = [i \in Index |->
            IF new = "removed" /\ i \in done THEN NoContainer
            ELSE IF i \in (IF new = "removed" THEN Mine(w) ELSE done) THEN [container[i] EXCEPT !.running = FALSE]
            ELSE container[i]]
  \/ /\ At(p, "rmnet") /\ w.st.net /\ ~Attached(w)
     /\ network' = WithoutNetwork(w) /\ UNCHANGED container

Cancel(p) ==
  /\ ~At(p, "idle") /\ ~work[p].cancelled /\ faults < MaxFaults
  /\ faults' = faults + 1
  /\ Become(p, [work[p] EXCEPT !.cancelled = TRUE])
  /\ CarriedOut(p)
  /\ UNCHANGED <<registry, lock, file, host, calls, disturbed>>

Step(p) ==
  \/ findAvailableSubnet(p) \/ CreateNetwork(p) \/ SaveNetwork(p)
  \/ Acquire(p) \/ LoadForAllocation(p) \/ SaveAllocation(p) \/ ValidatePortAvailability(p)
  \/ phasePullImage(p) \/ IsRunning(p) \/ removeContainer(p) \/ StartWithConfig(p) \/ finalizeDeployment(p)
  \/ StopContainers(p) \/ DeleteNetwork(p)
  \/ LoadForRelease(p) \/ SaveRelease(p) \/ deleteState(p)

Next ==
  \E p \in Processes :
    \/ Step(p)
    \/ \E d \in Names : DeployRefused(p, d) \/ Rollback(p, d) \/ \E n \in 1 .. MaxValidators : Deploy(p, d, n)
    \/ Kill(p) \/ Cancel(p)

Spec == Init /\ [][Next]_vars
-----------------------------------------------------------------------------
\* The steps under the lock belong to its holder, and what the holder has loaded is what
\* the registry still holds.
LockInv ==
  \A p \in Processes :
    /\ work[p].at \in InLock <=> lock = p
    /\ At(p, "save") => work[p].seen = registry
    /\ At(p, "rsave") => work[p].seen = {a \in registry : a.name # work[p].st.name}

\* Ranges that lie in the global range, do not overlap, and are one per name.
Apart(ranges) ==
  /\ \A a \in ranges : First <= a.start /\ a.start <= a.end /\ a.end <= Last
  /\ \A a, b \in ranges : a # b => a.name # b.name /\ (a.end < b.start \/ b.end < a.start)

\* What a call has at each of its places: the state it fills, the size it deploys, the
\* subnet it creates the network with, and a range that fits the registry it has loaded.
Deploying == {"subnet", "network", "persist", "lock", "load", "save", "check", "image", "inspect", "remove", "run"}
PlaceOK(w) ==
  /\ w.at # "idle" => w.st \in States
  /\ w.at \in Deploying => w.n >= 1
  /\ w.at = "network" => w.subnet \in Subnets
  /\ w.at \in {"save", "check"} => w.mine # {}
  /\ w.at = "save" => Apart(w.seen \cup w.mine)
  /\ w.at \in {"image", "inspect", "remove", "run"} => w.st.range # {}
  /\ w.at \in Deploying => w.i <= w.n /\ (w.at \in {"remove", "run"} => w.i < w.n)
PlaceInv == \A p \in Processes : PlaceOK(work[p])

\* What every state satisfies: values of the types, what a call has at each place, and the
\* registry is touched by the holder of its lock only, whose copy of it is the newest one,
\* kills included.
DeployInv == TypeOK /\ LockInv /\ PlaceInv

\* The ranges in the registry lie in the global range, do not overlap, and are one per
\* name, whatever the processes allocate and release at the same time (WithLock and
\* findAvailableRange).
RangesDisjoint == Apart(registry)

\* The allocator finds the lowest range that is free, and fails only when there is none:
\* the gaps of findAvailableRange are all there are, the last port included.
FirstFit ==
  \A n \in 1 .. MaxValidators :
    LET size == n * PortsPerValidator
        free == {s \in First .. Last : s + size - 1 <= Last /\ \A a \in registry : Ports(a) \cap (s .. (s + size - 1)) = {}}
    IN findAvailableRange(registry, size) = {s \in free : \A t \in free : s <= t}

\* A rollback that is about to return without an error leaves no container of the
\* deployment running if it knew of the network, which Docker does not remove under a
\* container that runs, listed in the state or not.  When the deployment was not killed,
\* rolled back under way or with errors before, and its state file is not stale, it leaves
\* nothing of it, with three exceptions: a container that docker run has created and not
\* started, the network of a command that was killed with the context while it created it
\* (NetworkID is set from its output), and the port range of a deployment that failed in
\* the port phase (PortRange is set after the check of the ports).
RollbackLeavesNothing ==
  \A p \in Processes :
    LET w == work[p]
        st == work[p].st
    IN At(p, "forget") /\ ~w.errs =>
         /\ st.net => \A i \in Index : container[i].running => container[i].run # st.run
         /\ st.run \notin disturbed =>
              /\ \A i \in Index : container[i].run = st.run => i = w.i /\ ~container[i].running
              /\ ~(w.cancelled /\ st.phase = "network") => \A x \in network : x.run # st.run
              /\ st.phase # "ports" => \A a \in registry : a.run # st.run

\* An allocation leaves the registry only by a release of its name: no process that saves
\* the registry loses what another one has saved.
AllocationsStand ==
  [][\A a \in registry \ registry' : \E p \in Processes : At(p, "rsave") /\ work[p].st.name = a.name]_vars
=============================================================================
