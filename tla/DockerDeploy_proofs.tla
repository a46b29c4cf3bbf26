------------------------- MODULE DockerDeploy_proofs -------------------------
(***************************************************************************)
(* Proofs about DockerDeploy for every set of processes and names, every   *)
(* global range of ports, every block size and every number of calls,      *)
(* kills and cancelled contexts.                                           *)
(*                                                                         *)
(* The first part is about findAvailableRange alone: what it returns does  *)
(* not overlap anything, and it is the lowest range that does not.  The    *)
(* second part is the inductive invariant: the copy of the registry that a *)
(* process has loaded is current for as long as the process holds the      *)
(* lock, so the range it has found still fits when it is saved.  The third *)
(* part is about what a rollback leaves behind: what there is of a         *)
(* deployment is in the state of its call or, when no call is under way,   *)
(* in its file, so a rollback that finds no error has removed all of it.   *)
(* Saves of that file that fail are the exception, and a docker command    *)
(* that was killed: the containers and the network there are beyond those  *)
(* the state lists are what such a command was last asked for (ListedInv). *)
(***************************************************************************)
EXTENDS DockerDeploy, TLAPS, WellFoundedInduction

\* The ports of n validators fit the global range (AllocateRange multiplies the
\* validator count by PortsPerValidator).
LEMMA SizeFits ==
  ASSUME NEW n \in 1 .. MaxValidators
  PROVE  n * PortsPerValidator \in 1 .. (Last - First + 1)
<1>. DEFINE k == MaxValidators - n
<1>1. n \in Nat /\ k \in Nat /\ MaxValidators \in Nat /\ PortsPerValidator \in Nat /\ PortsPerValidator >= 1
  BY PortsAssumption
<1>2. MaxValidators * PortsPerValidator = n * PortsPerValidator + k * PortsPerValidator
  BY <1>1
<1>3. k * PortsPerValidator \in Nat /\ n * PortsPerValidator \in Nat
  BY <1>1
<1>4. n * PortsPerValidator >= 1
  BY <1>1, PortsPerValidator \in Nat \ {0}, n >= 1
<1>. QED
  BY <1>2, <1>3, <1>4, PortsAssumption

\* A set of numbers that is not empty has a smallest element.
LEMMA Smallest ==
  ASSUME NEW S, S \subseteq Nat, S # {}
  PROVE  \E s \in S : \A t \in S : s <= t
<1>. DEFINE R == {ss \in Nat \X Nat : ss[1] < ss[2]}
<1>1. IsWellFoundedOn(R, Nat)
  BY NatLessThanWellFounded DEF OpToRel
<1>. HIDE DEF R
<1>2. PICK s \in S : \A t \in S : ~(<<t, s>> \in R)
  BY <1>1, WFMin
<1>3. \A t \in S : ~(t < s)
  BY <1>2 DEF R
<1>. QED
  BY <1>3

\* A start that findAvailableRange returns begins a range within the global range that
\* overlaps no allocation.
LEMMA FoundIsFree ==
  ASSUME NEW rs, rs \subseteq Allocations, Apart(rs),
         NEW size \in 1 .. (Last - First + 1), NEW s \in findAvailableRange(rs, size)
  PROVE  /\ s \in First .. Last /\ s + size - 1 \in First .. Last /\ s <= s + size - 1
         /\ \A a \in rs : a.end < s \/ s + size - 1 < a.start
<1>. USE PortsAssumption
<1>1. \A a \in rs : a.start \in First .. Last /\ a.end \in First .. Last
  BY DEF Allocations
<1>2. CASE \A a \in rs : a.start - First >= size
  BY <1>1, <1>2 DEF findAvailableRange
<1>3. CASE ~ \A a \in rs : a.start - First >= size
  <2>1. PICK x \in rs : s = x.end + 1 /\ GapAfter(rs, x, size)
    BY <1>3 DEF findAvailableRange
  <2>2. \A a \in rs : a.start <= x.start => a.end < s
    BY <1>1, <2>1 DEF Apart
  <2>3. \A a \in rs : a.start > x.start => s + size - 1 < a.start
    BY <1>1, <2>1 DEF GapAfter
  <2>4. s + size - 1 <= Last
    BY <1>1, <2>1 DEF GapAfter
  <2>. QED
    BY <1>1, <2>1, <2>2, <2>3, <2>4
<1>. QED
  BY <1>2, <1>3

\* The starts at which size ports are free.
Free(rs, size) == {s \in First .. Last : s + size - 1 <= Last /\ \A a \in rs : Ports(a) \cap (s .. (s + size - 1)) = {}}

\* The same in terms of the ends of the ranges.
LEMMA FreeMeansApart ==
  ASSUME NEW rs, rs \subseteq Allocations, Apart(rs), NEW size \in 1 .. (Last - First + 1), NEW s \in First .. Last
  PROVE  s \in Free(rs, size) <=> s + size - 1 <= Last /\ \A a \in rs : a.end < s \/ s + size - 1 < a.start
<1>. USE PortsAssumption
<1>1. \A a \in rs : a.start \in First .. Last /\ a.end \in First .. Last /\ a.start <= a.end
  BY DEF Allocations, Apart
<1>2. ASSUME NEW a \in rs
      PROVE  Ports(a) \cap (s .. (s + size - 1)) = {} <=> (a.end < s \/ s + size - 1 < a.start)
  <2>1. ASSUME a.end < s \/ s + size - 1 < a.start PROVE Ports(a) \cap (s .. (s + size - 1)) = {}
    BY <1>1, <2>1 DEF Ports
  <2>2. ASSUME ~(a.end < s \/ s + size - 1 < a.start) PROVE Ports(a) \cap (s .. (s + size - 1)) # {}
    <3>1. CASE a.start <= s
      <4>1. s \in Ports(a) /\ s \in s .. (s + size - 1)
        BY <1>1, <2>2, <3>1 DEF Ports
      <4>. QED
        BY <4>1
    <3>2. CASE ~(a.start <= s)
      <4>1. a.start \in Ports(a) /\ a.start \in s .. (s + size - 1)
        BY <1>1, <2>2, <3>2 DEF Ports
      <4>. QED
        BY <4>1
    <3>. QED
      BY <3>1, <3>2
  <2>. QED
    BY <2>1, <2>2
<1>. QED
  BY <1>2 DEF Free

\* The lowest free start is the first port or follows an allocation with a gap.
LEMMA LowestFollows ==
  ASSUME NEW rs, rs \subseteq Allocations, Apart(rs), NEW size \in 1 .. (Last - First + 1),
         NEW s \in Free(rs, size), \A t \in Free(rs, size) : s <= t
  PROVE  \/ s = First /\ \A a \in rs : a.start - First >= size
         \/ \E y \in rs : s = y.end + 1 /\ GapAfter(rs, y, size)
<1>. USE PortsAssumption
<1>1. \A a \in rs : a.start \in First .. Last /\ a.end \in First .. Last /\ a.start <= a.end
  BY DEF Allocations, Apart
<1>2. s \in First .. Last
  BY DEF Free
<1>3. s + size - 1 <= Last /\ \A a \in rs : a.end < s \/ s + size - 1 < a.start
  BY <1>2, FreeMeansApart
<1>4. CASE s = First
  <2>1. \A a \in rs : a.start - First >= size
    BY <1>1, <1>3, <1>4
  <2>. QED
    BY <1>4, <2>1
<1>5. CASE s # First
  <2>1. s - 1 \in First .. Last /\ s - 1 \notin Free(rs, size)
    BY <1>2, <1>5
  <2>2. PICK y \in rs : ~(y.end < s - 1 \/ (s - 1) + size - 1 < y.start)
    BY <1>2, <1>3, <2>1, FreeMeansApart
  <2>3. s = y.end + 1
    BY <1>1, <1>2, <1>3, <2>2
  <2>4. \A b \in rs : b.start > y.start => b.start - 1 - (y.end + 1) + 1 >= size
    BY <1>1, <1>3, <2>3 DEF Apart
  <2>5. GapAfter(rs, y, size)
    BY <1>1, <1>2, <1>3, <2>3, <2>4 DEF GapAfter
  <2>. QED
    BY <2>3, <2>5
<1>. QED
  BY <1>4, <1>5

\* findAvailableRange is first fit: it returns the lowest start at which size ports are
\* free, and nothing only when there is none.
LEMMA FindsLowest ==
  ASSUME NEW rs, rs \subseteq Allocations, Apart(rs), NEW size \in 1 .. (Last - First + 1)
  PROVE  findAvailableRange(rs, size) = {s \in Free(rs, size) : \A t \in Free(rs, size) : s <= t}
<1>. USE PortsAssumption
<1>1. \A a \in rs : a.start \in First .. Last /\ a.end \in First .. Last /\ a.start <= a.end
  BY DEF Allocations, Apart
<1>2. Free(rs, size) \subseteq Nat
  BY DEF Free
<1>3. \A s \in findAvailableRange(rs, size) : s \in Free(rs, size)
  <2>. TAKE s \in findAvailableRange(rs, size)
  <2>1. /\ s \in First .. Last /\ s + size - 1 \in First .. Last
        /\ \A a \in rs : a.end < s \/ s + size - 1 < a.start
    BY FoundIsFree
  <2>. QED
    BY <2>1, FreeMeansApart
<1>4. \A x, y \in rs : x.start <= y.start => x.end <= y.end
  BY <1>1 DEF Apart
<1>5. \A x, y \in rs : x.end <= y.end => x.start <= y.start
  BY <1>1 DEF Apart
<1>6. ASSUME NEW s \in findAvailableRange(rs, size), NEW t \in Free(rs, size) PROVE s <= t
  <2>1. PICK m \in Free(rs, size) : \A u \in Free(rs, size) : m <= u
    BY <1>2, Smallest
  <2>2. m \in Nat /\ t \in Nat /\ s \in Nat /\ m <= t
    BY <1>2, <1>3, <2>1
  <2>3. CASE m = First
    <3>1. \A a \in rs : a.start - First >= size
      <4>1. \A a \in rs : a.end < m \/ m + size - 1 < a.start
        BY <1>2, <2>1, <2>3, FreeMeansApart DEF Free
      <4>. QED
        BY <1>1, <2>3, <4>1
    <3>2. s = First
      BY <3>1 DEF findAvailableRange
    <3>. QED
      BY <2>2, <2>3, <3>2
  <2>4. CASE m # First
    <3>1. PICK y \in rs : m = y.end + 1 /\ GapAfter(rs, y, size)
      BY <2>1, <2>4, LowestFollows
    <3>2. CASE \A a \in rs : a.start - First >= size
      <4>1. s = First
        BY <3>2 DEF findAvailableRange
      <4>. QED
        BY <2>2, <4>1 DEF Free
    <3>3. CASE ~ \A a \in rs : a.start - First >= size
      <4>1. PICK x \in rs : s = x.end + 1 /\ \A z \in rs : GapAfter(rs, z, size) => x.start <= z.start
        BY <3>3 DEF findAvailableRange
      <4>2. x.end <= y.end
        BY <3>1, <4>1, <1>4
      <4>. QED
        BY <1>1, <2>2, <3>1, <4>1, <4>2
    <3>. QED
      BY <3>2, <3>3
  <2>. QED
    BY <2>3, <2>4
<1>7. ASSUME NEW s \in Free(rs, size), \A t \in Free(rs, size) : s <= t
      PROVE  s \in findAvailableRange(rs, size)
  <2>1. CASE \A a \in rs : a.start - First >= size
    <3>1. First \in findAvailableRange(rs, size)
      BY <2>1 DEF findAvailableRange
    <3>2. First \in Free(rs, size)
      BY <3>1, <1>3
    <3>3. s <= First /\ s \in First .. Last
      BY <1>7, <3>2 DEF Free
    <3>. QED
      BY <3>1, <3>3
  <2>2. CASE ~ \A a \in rs : a.start - First >= size
    <3>1. PICK y \in rs : s = y.end + 1 /\ GapAfter(rs, y, size)
      BY <1>7, <2>2, LowestFollows
    <3>2. ASSUME NEW z \in rs, GapAfter(rs, z, size) PROVE y.start <= z.start
      <4>1. z.end + 1 \in First .. Last /\ z.end + 1 + size - 1 <= Last
        BY <1>1, <3>2 DEF GapAfter
      <4>2. \A a \in rs : a.end < z.end + 1 \/ z.end + 1 + size - 1 < a.start
        <5>1. \A a \in rs : a.start <= z.start => a.end < z.end + 1
          BY <1>1, <1>4
        <5>2. \A a \in rs : a.start > z.start => z.end + 1 + size - 1 < a.start
          BY <1>1, <3>2 DEF GapAfter
        <5>. QED
          BY <1>1, <5>1, <5>2
      <4>3. z.end + 1 \in Free(rs, size)
        BY <4>1, <4>2, FreeMeansApart
      <4>4. y.end <= z.end
        BY <1>1, <1>7, <3>1, <4>3
      <4>. QED
        BY <1>5, <4>4
    <3>. QED
      BY <2>2, <3>1, <3>2 DEF findAvailableRange
  <2>. QED
    BY <2>1, <2>2
<1>. QED
  BY <1>3, <1>6, <1>7

-----------------------------------------------------------------------------
\* The inductive invariant.
DeployIInv == DeployInv /\ RangesDisjoint

\* A process between two calls.
LEMMA IdleIsOK == Idle \in Works /\ PlaceOK(Idle) /\ Idle.at = "idle"
BY BoundsAssumption, PortsAssumption DEF Idle, Works, Places, PlaceOK, Deploying

\* The invariant holds before the first call.
LEMMA InitDeploy == Init => DeployIInv
<1>. SUFFICES ASSUME Init PROVE DeployIInv
  OBVIOUS
<1>1. Idle \in Works /\ PlaceOK(Idle) /\ Idle.at = "idle"
  BY IdleIsOK
<1>2. NoContainer \in Containers
  BY BoundsAssumption DEF NoContainer, Containers
<1>3. TypeOK
  BY <1>1, <1>2, BoundsAssumption DEF Init, TypeOK
<1>4. \A p \in Processes : work[p] = Idle
  BY DEF Init
<1>5. LockInv
  BY <1>1, <1>4, ProcessesAssumption DEF Init, LockInv, InLock, At
<1>6. PlaceInv
  BY <1>1, <1>4 DEF PlaceInv
<1>. QED
  BY <1>3, <1>5, <1>6 DEF DeployIInv, DeployInv, RangesDisjoint, Apart, Init

\* What the steps have in common: a process replaces its own state by one that is well
\* formed.
LEMMA BecomeOK ==
  ASSUME DeployIInv, NEW p \in Processes, NEW w \in Works, PlaceOK(w), Become(p, w)
  PROVE  /\ work' \in [Processes -> Works] /\ PlaceInv'
         /\ work'[p] = w /\ \A q \in Processes : q # p => work'[q] = work[q]
<1>1. work \in [Processes -> Works]
  BY DEF DeployIInv, DeployInv, TypeOK
<1>2. work' \in [Processes -> Works] /\ work'[p] = w /\ \A q \in Processes : q # p => work'[q] = work[q]
  BY <1>1 DEF Become
<1>3. \A q \in Processes : PlaceOK(work'[q])
  BY <1>2 DEF DeployIInv, DeployInv, PlaceInv
<1>. QED
  BY <1>2, <1>3 DEF PlaceInv, PlaceOK

\* A step outside the lock that leaves the registry and the lock alone.
LEMMA PlainStep ==
  ASSUME DeployIInv, NEW p \in Processes, NEW w \in Works, PlaceOK(w), Become(p, w),
         UNCHANGED <<registry, lock, host>>, work[p].at \notin InLock, w.at \notin InLock,
         file' \in [Names -> States \cup {NoFile}],
         network' \subseteq [run : Runs, name : Names, subnet : Subnets],
         container' \in [Index -> Containers],
         calls' \in 0 .. MaxCalls, faults' \in 0 .. MaxFaults, disturbed' \subseteq Runs
  PROVE  DeployIInv'
<1>1. /\ work' \in [Processes -> Works] /\ PlaceInv'
      /\ work'[p] = w /\ \A q \in Processes : q # p => work'[q] = work[q]
  BY BecomeOK
<1>2. TypeOK'
  BY <1>1 DEF DeployIInv, DeployInv, TypeOK
<1>3. LockInv'
  BY <1>1 DEF DeployIInv, DeployInv, LockInv, At, InLock
<1>4. RangesDisjoint'
  BY DEF DeployIInv, RangesDisjoint, Apart
<1>. QED
  BY <1>1, <1>2, <1>3, <1>4 DEF DeployIInv, DeployInv

\* A failed phase begins its rollback.
LEMMA FailedIsOK ==
  ASSUME NEW w \in Works, PlaceOK(w), w.at # "idle"
  PROVE  FailedAs(w) \in Works /\ PlaceOK(FailedAs(w)) /\ FailedAs(w).at = "stop"
<1>1. FailedAs(w) \in Works
  BY DEF FailedAs, Works, Places
<1>2. FailedAs(w).at = "stop" /\ FailedAs(w).st = w.st
  BY DEF FailedAs, Works
<1>. QED
  BY <1>1, <1>2 DEF PlaceOK, Deploying

\* What the invariant says of the process that takes a step.
LEMMA OwnState ==
  ASSUME DeployIInv, NEW p \in Processes
  PROVE  work[p] \in Works /\ PlaceOK(work[p])
BY DEF DeployIInv, DeployInv, TypeOK, PlaceInv

\* A save leaves the state of the call in the file, or the file as it was, or none.
LEMMA SaveResult ==
  ASSUME DeployIInv, NEW st \in States, NEW b, saveState(st, b)
  PROVE  /\ file' \in [Names -> States \cup {NoFile}]
         /\ file' = Saved(st) \/ file' = file \/ file' = Gone(st.name)
<1>1. file \in [Names -> States \cup {NoFile}]
  BY DEF DeployIInv, DeployInv, TypeOK
<1>2. file' = Saved(st) \/ file' = file \/ file' = Gone(st.name)
  BY DEF saveState
<1>. QED
  BY <1>1, <1>2 DEF Saved, Gone

\* The container that docker run makes.
LEMMA RunTypes ==
  ASSUME DeployIInv, NEW p \in Processes, At(p, "run")
  PROVE  /\ work[p].i \in Index /\ WithContainer(work[p]) \in [Index -> Containers]
         /\ WithContainer(work[p])[work[p].i].run = work[p].st.run
         /\ WithContainer(work[p])[work[p].i].running = ~Conflict(work[p])
         /\ \A i \in Index \ {work[p].i} : WithContainer(work[p])[i] = container[i]
<1>. DEFINE w == work[p]
<1>1. w \in Works /\ w.st \in States /\ w.st.range # {} /\ w.i < w.n
  BY OwnState DEF At, PlaceOK, Deploying
<1>2. w.i \in Index
  BY <1>1, PortsAssumption DEF Works, Index
<1>3. Port(w) \in Nat
  <2>1. (CHOOSE a \in w.st.range : TRUE) \in Allocations
    BY <1>1 DEF States
  <2>2. w.i * PortsPerValidator \in Nat
    BY <1>2, PortsAssumption DEF Index
  <2>. QED
    BY <2>1, <2>2, PortsAssumption DEF Allocations, Port
<1>4. [run |-> w.st.run, port |-> Port(w), running |-> ~Conflict(w)] \in Containers
  <2>1. (~Conflict(w)) \in BOOLEAN
    BY DEF Conflict
  <2>. QED
    BY <1>1, <1>3, <2>1, BoundsAssumption DEF States, Containers, Runs
<1>5. container \in [Index -> Containers]
  BY DEF DeployIInv, DeployInv, TypeOK
<1>. QED
  BY <1>2, <1>4, <1>5 DEF WithContainer

\* Every step outside the lock keeps the invariant.
LEMMA PlainSteps ==
  ASSUME DeployIInv, NEW p \in Processes,
         \/ findAvailableSubnet(p) \/ CreateNetwork(p) \/ SaveNetwork(p)
         \/ ValidatePortAvailability(p) \/ phasePullImage(p)
         \/ IsRunning(p) \/ removeContainer(p) \/ StartWithConfig(p) \/ finalizeDeployment(p)
         \/ StopContainers(p) \/ DeleteNetwork(p) \/ deleteState(p)
  PROVE  DeployIInv'
<1>. DEFINE w == work[p]
<1>1. w \in Works /\ PlaceOK(w)
  BY OwnState
<1>2. /\ file \in [Names -> States \cup {NoFile}]
      /\ network \subseteq [run : Runs, name : Names, subnet : Subnets]
      /\ container \in [Index -> Containers]
      /\ calls \in 0 .. MaxCalls /\ faults \in 0 .. MaxFaults /\ disturbed \subseteq Runs
  BY DEF DeployIInv, DeployInv, TypeOK
<1>3. w.at # "idle" => FailedAs(w) \in Works /\ PlaceOK(FailedAs(w)) /\ FailedAs(w).at \notin InLock
  BY <1>1, FailedIsOK DEF InLock
<1>4. Fail(p) => Become(p, FailedAs(w))
  BY DEF Fail
<1>5. CASE findAvailableSubnet(p)
  <2>. DEFINE free == Subnets \ {x.subnet : x \in network}
  <2>1. CASE w.cancelled \/ free = {}
    <3>1. Become(p, FailedAs(w)) /\ w.at = "subnet"
      BY <1>4, <1>5, <2>1 DEF findAvailableSubnet, At
    <3>. QED
      BY <1>2, <1>3, <1>5, <3>1, PlainStep DEF findAvailableSubnet, InLock
  <2>2. CASE ~(w.cancelled \/ free = {})
    <3>. DEFINE s == CHOOSE s \in free : \A t \in free : s <= t
                v == [w EXCEPT !.at = "network", !.subnet = s]
    <3>1. Become(p, v) /\ w.at = "subnet"
      BY <1>5, <2>2 DEF findAvailableSubnet, At
    <3>2. s \in Subnets
      <4>1. free \subseteq Nat /\ free # {}
        BY <2>2, BoundsAssumption
      <4>2. \E x \in free : \A t \in free : x <= t
        BY <4>1, Smallest
      <4>. QED
        BY <4>2
    <3>. HIDE DEF s
    <3>3. v \in Works
      BY <1>1, <3>2 DEF Works, Places
    <3>4. v.at = "network" /\ v.st = w.st /\ v.n = w.n /\ v.subnet = s /\ v.i = w.i
      BY <1>1 DEF Works
    <3>5. PlaceOK(v)
      BY <1>1, <3>1, <3>2, <3>4 DEF PlaceOK, Deploying
    <3>. HIDE DEF v
    <3>. QED
      BY <1>2, <1>5, <3>1, <3>3, <3>4, <3>5, PlainStep DEF findAvailableSubnet, InLock
  <2>. QED
    BY <2>1, <2>2
<1>6. CASE CreateNetwork(p)
  <2>. DEFINE x == [run |-> w.st.run, name |-> w.st.name, subnet |-> w.subnet]
              v == [w EXCEPT !.at = "persist", !.st.net = TRUE]
  <2>1. w.at = "network" /\ w.st \in States /\ w.subnet \in Subnets
    BY <1>1, <1>6 DEF CreateNetwork, At, PlaceOK
  <2>2. \/ Become(p, FailedAs(w)) /\ UNCHANGED network
        \/ Become(p, v) /\ network' = network \cup {x}
    BY <1>4, <1>6 DEF CreateNetwork, WithNetwork
  <2>3. CASE Become(p, FailedAs(w)) /\ UNCHANGED network
    BY <1>2, <1>3, <1>6, <2>1, <2>3, PlainStep DEF CreateNetwork, InLock
  <2>4. CASE Become(p, v) /\ network' = network \cup {x}
    <3>1. x \in [run : Runs, name : Names, subnet : Subnets]
      BY <2>1 DEF States
    <3>2. [w.st EXCEPT !.net = TRUE] \in States
      BY <2>1 DEF States
    <3>3. v \in Works /\ v.at = "persist" /\ v.st \in States /\ v.n = w.n /\ v.i = w.i
      BY <1>1, <3>2 DEF Works, Places
    <3>4. PlaceOK(v)
      BY <1>1, <2>1, <3>3 DEF PlaceOK, Deploying
    <3>5. network' \subseteq [run : Runs, name : Names, subnet : Subnets]
      BY <1>2, <2>4, <3>1
    <3>. HIDE DEF v, x
    <3>. QED
      BY <1>2, <1>6, <2>1, <2>4, <3>3, <3>4, <3>5, PlainStep DEF CreateNetwork, InLock
  <2>. QED
    BY <2>2, <2>3, <2>4
<1>7. CASE SaveNetwork(p)
  <2>. DEFINE v == [w EXCEPT !.at = "lock", !.st.phase = "ports"]
  <2>1. w.at = "persist" /\ w.st \in States
    BY <1>1, <1>7 DEF SaveNetwork, At, PlaceOK
  <2>2. [w.st EXCEPT !.phase = "ports"] \in States
    BY <2>1 DEF States
  <2>3. v \in Works /\ v.at = "lock" /\ v.st \in States /\ v.n = w.n /\ v.i = w.i
    BY <1>1, <2>2 DEF Works, Places
  <2>4. PlaceOK(v)
    BY <1>1, <2>1, <2>3 DEF PlaceOK, Deploying
  <2>5. file' \in [Names -> States \cup {NoFile}]
    BY <1>7, <2>1, SaveResult DEF SaveNetwork
  <2>6. Become(p, v)
    BY <1>7 DEF SaveNetwork
  <2>. HIDE DEF v
  <2>. QED
    BY <1>2, <1>7, <2>1, <2>3, <2>4, <2>5, <2>6, PlainStep DEF SaveNetwork, InLock
<1>8. CASE ValidatePortAvailability(p)
  <2>. DEFINE st == [w.st EXCEPT !.range = w.mine]
              v == [w EXCEPT !.at = "image", !.st = [st EXCEPT !.phase = "image"]]
  <2>1. w.at = "check" /\ w.st \in States /\ w.mine # {} /\ w.mine \subseteq Allocations
    BY <1>1, <1>8 DEF ValidatePortAvailability, At, PlaceOK, Works
  <2>2. \/ Become(p, FailedAs(w)) /\ UNCHANGED file
        \/ Become(p, v) /\ saveState(st, w.broken)
    BY <1>4, <1>8 DEF ValidatePortAvailability
  <2>3. CASE Become(p, FailedAs(w)) /\ UNCHANGED file
    BY <1>2, <1>3, <1>8, <2>1, <2>3, PlainStep DEF ValidatePortAvailability, InLock
  <2>4. CASE Become(p, v) /\ saveState(st, w.broken)
    <3>1. st \in States /\ [st EXCEPT !.phase = "image"] \in States /\ [st EXCEPT !.phase = "image"].range = w.mine
      BY <2>1 DEF States
    <3>2. v \in Works /\ v.at = "image" /\ v.st = [st EXCEPT !.phase = "image"] /\ v.n = w.n /\ v.i = w.i
      BY <1>1, <3>1 DEF Works, Places
    <3>3. PlaceOK(v)
      BY <1>1, <2>1, <3>1, <3>2 DEF PlaceOK, Deploying
    <3>4. file' \in [Names -> States \cup {NoFile}]
      BY <2>4, <3>1, SaveResult
    <3>. HIDE DEF v, st
    <3>. QED
      BY <1>2, <1>8, <2>1, <2>4, <3>2, <3>3, <3>4, PlainStep DEF ValidatePortAvailability, InLock
  <2>. QED
    BY <2>2, <2>3, <2>4
<1>9. CASE phasePullImage(p)
  <2>. DEFINE v == [w EXCEPT !.at = "inspect", !.st.phase = "starting"]
  <2>1. w.at = "image" /\ w.st \in States /\ w.st.range # {}
    BY <1>1, <1>9 DEF phasePullImage, At, PlaceOK
  <2>2. \/ Become(p, FailedAs(w)) /\ UNCHANGED file
        \/ Become(p, v) /\ saveState(w.st, w.broken)
    BY <1>4, <1>9 DEF phasePullImage
  <2>3. CASE Become(p, FailedAs(w)) /\ UNCHANGED file
    BY <1>2, <1>3, <1>9, <2>1, <2>3, PlainStep DEF phasePullImage, InLock
  <2>4. CASE Become(p, v) /\ saveState(w.st, w.broken)
    <3>1. [w.st EXCEPT !.phase = "starting"] \in States /\ [w.st EXCEPT !.phase = "starting"].range = w.st.range
      BY <2>1 DEF States
    <3>2. v \in Works /\ v.at = "inspect" /\ v.st \in States /\ v.st.range = w.st.range /\ v.n = w.n /\ v.i = w.i
      BY <1>1, <3>1 DEF Works, Places
    <3>3. PlaceOK(v)
      BY <1>1, <2>1, <3>2 DEF PlaceOK, Deploying
    <3>4. file' \in [Names -> States \cup {NoFile}]
      BY <2>1, <2>4, SaveResult
    <3>. HIDE DEF v
    <3>. QED
      BY <1>2, <1>9, <2>1, <2>4, <3>2, <3>3, <3>4, PlainStep DEF phasePullImage, InLock
  <2>. QED
    BY <2>2, <2>3, <2>4
<1>10. CASE IsRunning(p)
  <2>. DEFINE v == [w EXCEPT !.at = "remove"]
  <2>1. w.at = "inspect" /\ w.i < w.n
    BY <1>10 DEF IsRunning, At
  <2>2. Become(p, FailedAs(w)) \/ Become(p, v)
    BY <1>4, <1>10 DEF IsRunning, GoTo
  <2>3. v \in Works /\ v.at = "remove" /\ v.st = w.st /\ v.n = w.n /\ v.i = w.i
    BY <1>1 DEF Works, Places
  <2>4. PlaceOK(v)
    BY <1>1, <2>1, <2>3 DEF PlaceOK, Deploying
  <2>. HIDE DEF v
  <2>. QED
    BY <1>2, <1>3, <1>10, <2>1, <2>2, <2>3, <2>4, PlainStep DEF IsRunning, InLock
<1>11. CASE removeContainer(p)
  <2>. DEFINE v == [w EXCEPT !.at = "run"]
  <2>1. w.at = "remove" /\ Become(p, v)
    BY <1>11 DEF removeContainer, At, GoTo
  <2>2. v \in Works /\ v.at = "run" /\ v.st = w.st /\ v.n = w.n /\ v.i = w.i
    BY <1>1 DEF Works, Places
  <2>3. PlaceOK(v)
    BY <1>1, <2>1, <2>2 DEF PlaceOK, Deploying
  <2>4. container' \in [Index -> Containers]
    <3>1. NoContainer \in Containers
      BY BoundsAssumption DEF NoContainer, Containers
    <3>2. container' = container \/ container' = [container EXCEPT ![w.i] = NoContainer]
      BY <1>11 DEF removeContainer
    <3>. QED
      BY <1>2, <3>1, <3>2
  <2>. HIDE DEF v
  <2>. QED
    BY <1>2, <1>11, <2>1, <2>2, <2>3, <2>4, PlainStep DEF removeContainer, InLock
<1>12. CASE StartWithConfig(p)
  <2>. DEFINE v == [w EXCEPT !.at = "inspect", !.i = w.i + 1, !.st.started = @ \cup {w.i}]
  <2>1. w.at = "run" /\ w.st \in States /\ w.st.range # {} /\ w.i < w.n
    BY <1>1, <1>12 DEF StartWithConfig, At, PlaceOK, Deploying
  <2>2. w.i \in Index /\ w.n \in 0 .. MaxValidators /\ w.i + 1 <= w.n /\ w.i + 1 \in 0 .. MaxValidators
    BY <1>1, <2>1, PortsAssumption DEF Works, Index
  <2>3. container' = container \/ container' = WithContainer(w)
    BY <1>12 DEF StartWithConfig
  <2>4. container' \in [Index -> Containers]
    BY <1>2, <1>12, <2>3, RunTypes DEF StartWithConfig
  <2>5. Become(p, FailedAs(w)) \/ Become(p, v)
    BY <1>4, <1>12 DEF StartWithConfig
  <2>7. [w.st EXCEPT !.started = @ \cup {w.i}] \in States /\ [w.st EXCEPT !.started = @ \cup {w.i}].range = w.st.range
    BY <2>1, <2>2 DEF States
  <2>8. v \in Works /\ v.at = "inspect" /\ v.st \in States /\ v.st.range = w.st.range /\ v.n = w.n /\ v.i = w.i + 1
    BY <1>1, <2>2, <2>7 DEF Works, Places
  <2>9. PlaceOK(v)
    BY <1>1, <2>1, <2>2, <2>8 DEF PlaceOK, Deploying
  <2>. HIDE DEF v
  <2>. QED
    BY <1>2, <1>3, <1>12, <2>1, <2>4, <2>5, <2>8, <2>9, PlainStep DEF StartWithConfig, InLock
<1>13. CASE finalizeDeployment(p)
  <2>1. w.at = "inspect" /\ w.st \in States /\ Become(p, Idle)
    BY <1>1, <1>13 DEF finalizeDeployment, At, PlaceOK
  <2>2. [w.st EXCEPT !.phase = "running"] \in States
    BY <2>1 DEF States
  <2>3. file' \in [Names -> States \cup {NoFile}]
    <3>1. \/ file' \in {Saved(w.st), Saved([w.st EXCEPT !.phase = "running"])}
          \/ file' \in {file, Gone(w.st.name)}
      BY <1>13 DEF finalizeDeployment
    <3>. QED
      BY <1>2, <2>1, <2>2, <3>1 DEF Saved, Gone
  <2>4. disturbed' \subseteq Runs
    <3>1. disturbed' = disturbed \/ disturbed' = disturbed \cup {w.st.run}
      BY <1>13 DEF finalizeDeployment
    <3>. QED
      BY <1>2, <2>1, <3>1 DEF States
  <2>. QED
    BY <1>2, <1>13, <2>1, <2>3, <2>4, IdleIsOK, PlainStep DEF finalizeDeployment, InLock
<1>14. CASE StopContainers(p)
  <2>. DEFINE v == [w EXCEPT !.at = "rmnet", !.errs = Missing(w) \/ (w.cancelled /\ w.st.started # {})]
  <2>1. w.at = "stop" /\ w.st \in States /\ Become(p, v)
    BY <1>1, <1>14 DEF StopContainers, At, PlaceOK
  <2>2. v \in Works /\ v.at = "rmnet" /\ v.st = w.st
    BY <1>1 DEF Works, Places, Missing
  <2>3. PlaceOK(v)
    BY <2>1, <2>2 DEF PlaceOK, Deploying
  <2>4. container' \in [Index -> Containers]
    BY <1>2, <1>14, BoundsAssumption DEF StopContainers, NoContainer, Containers
  <2>. HIDE DEF v
  <2>. QED
    BY <1>2, <1>14, <2>1, <2>2, <2>3, <2>4, PlainStep DEF StopContainers, InLock
<1>15. CASE DeleteNetwork(p)
  <2>. DEFINE removed == ~w.cancelled /\ ~Attached(w) /\ WithoutNetwork(w) # network
              then == IF w.st.range # {} THEN "rlock" ELSE "forget"
              v == [w EXCEPT !.at = then]
              u == [w EXCEPT !.at = then, !.errs = @ \/ ~removed]
  <2>1. w.at = "rmnet" /\ w.st \in States
    BY <1>1, <1>15 DEF DeleteNetwork, At, PlaceOK
  <2>2. Become(p, v) \/ Become(p, u)
    BY <1>15 DEF DeleteNetwork, GoTo
  <2>3. network' \subseteq [run : Runs, name : Names, subnet : Subnets]
    BY <1>2, <1>15 DEF DeleteNetwork, WithoutNetwork
  <2>4. v \in Works /\ v.at \in {"rlock", "forget"} /\ v.st = w.st
    BY <1>1 DEF Works, Places
  <2>5. u \in Works /\ u.at \in {"rlock", "forget"} /\ u.st = w.st
    <3>1. removed \in BOOLEAN
      BY DEF Attached
    <3>. HIDE DEF removed
    <3>. QED
      BY <1>1, <3>1 DEF Works, Places
  <2>6. PlaceOK(v) /\ PlaceOK(u)
    BY <2>1, <2>4, <2>5 DEF PlaceOK, Deploying
  <2>. HIDE DEF v, u
  <2>. QED
    BY <1>2, <1>15, <2>1, <2>2, <2>3, <2>4, <2>5, <2>6, PlainStep DEF DeleteNetwork, InLock
<1>16. CASE deleteState(p)
  <2>1. w.at = "forget" /\ w.st \in States /\ Become(p, Idle)
    BY <1>1, <1>16 DEF deleteState, At, PlaceOK
  <2>2. file' \in [Names -> States \cup {NoFile}]
    <3>1. file' = file \/ file' = Gone(w.st.name)
      BY <1>16 DEF deleteState
    <3>. QED
      BY <1>2, <2>1, <3>1 DEF Gone
  <2>3. disturbed' \subseteq Runs
    BY <1>2, <1>16, <2>1 DEF deleteState, States
  <2>. QED
    BY <1>2, <1>16, <2>1, <2>2, <2>3, IdleIsOK, PlainStep DEF deleteState, InLock
<1>. QED
  BY <1>5, <1>6, <1>7, <1>8, <1>9, <1>10, <1>11, <1>12, <1>13, <1>14, <1>15, <1>16

\* A step that changes the lock or the registry: the rest of the types is untouched, and
\* what is left to show is who holds the lock and what the ranges are.
LEMMA LockStep ==
  ASSUME DeployIInv, NEW p \in Processes, NEW w \in Works, PlaceOK(w), Become(p, w),
         UNCHANGED <<file, network, container, host, calls>>,
         faults' \in 0 .. MaxFaults, disturbed' \subseteq Runs,
         registry' \subseteq Allocations, Apart(registry'),
         registry' = registry \/ lock = p,
         lock' = IF w.at \in InLock THEN p ELSE NoProcess,
         lock \in {p, NoProcess},
         w.at = "save" => w.seen = registry',
         w.at = "rsave" => w.seen = {a \in registry' : a.name # w.st.name}
  PROVE  DeployIInv'
<1>1. /\ work' \in [Processes -> Works] /\ PlaceInv'
      /\ work'[p] = w /\ \A q \in Processes : q # p => work'[q] = work[q]
  BY BecomeOK
<1>2. TypeOK'
  BY <1>1 DEF DeployIInv, DeployInv, TypeOK
<1>3. LockInv'
  <2>. SUFFICES ASSUME NEW q \in Processes
                PROVE  /\ work'[q].at \in InLock <=> lock' = q
                       /\ work'[q].at = "save" => work'[q].seen = registry'
                       /\ work'[q].at = "rsave" => work'[q].seen = {a \in registry' : a.name # work'[q].st.name}
    BY DEF LockInv, At
  <2>1. CASE q = p
    BY <1>1, <2>1, ProcessesAssumption
  <2>2. CASE q # p
    <3>1. work'[q] = work[q] /\ work[q].at \notin InLock
      BY <1>1, <2>2, ProcessesAssumption DEF DeployIInv, DeployInv, LockInv
    <3>. QED
      BY <2>2, <3>1, ProcessesAssumption DEF InLock
  <2>. QED
    BY <2>1, <2>2
<1>4. RangesDisjoint'
  BY DEF RangesDisjoint, Apart
<1>. QED
  BY <1>1, <1>2, <1>3, <1>4 DEF DeployIInv, DeployInv

\* A range that findAvailableRange has found, for a name that has none, fits the others.
LEMMA NewRangeFits ==
  ASSUME NEW rs, rs \subseteq Allocations, Apart(rs), NEW n \in 1 .. MaxValidators,
         NEW s \in findAvailableRange(rs, n * PortsPerValidator), NEW d \in Names, NEW r \in Runs,
         \A a \in rs : a.name # d,
         NEW m, m = [name |-> d, start |-> s, end |-> s + n * PortsPerValidator - 1, run |-> r]
  PROVE  m \in Allocations /\ Apart(rs \cup {m})
<1>. DEFINE size == n * PortsPerValidator
<1>1. size \in 1 .. (Last - First + 1)
  BY SizeFits
<1>. HIDE DEF size
<1>2. /\ s \in First .. Last /\ s + size - 1 \in First .. Last /\ s <= s + size - 1
      /\ \A a \in rs : a.end < s \/ s + size - 1 < a.start
  BY <1>1, FoundIsFree DEF size
<1>3. m.name = d /\ m.start = s /\ m.end = s + size - 1
  BY DEF size
<1>4. m \in Allocations
  BY <1>2 DEF Allocations, size
<1>5. \A a \in rs \cup {m} : First <= a.start /\ a.start <= a.end /\ a.end <= Last
  BY <1>2, <1>3, PortsAssumption DEF Apart
<1>6. \A a \in rs : a.name # m.name /\ (a.end < m.start \/ m.end < a.start)
  BY <1>2, <1>3
<1>7. \A a, b \in rs \cup {m} : a # b => a.name # b.name /\ (a.end < b.start \/ b.end < a.start)
  BY <1>6 DEF Apart
<1>. QED
  BY <1>4, <1>5, <1>7 DEF Apart

\* The steps that take, use and give back the lock of the registry keep the invariant.
LEMMA LockSteps ==
  ASSUME DeployIInv, NEW p \in Processes,
         \/ Acquire(p) \/ LoadForAllocation(p) \/ SaveAllocation(p) \/ LoadForRelease(p) \/ SaveRelease(p)
  PROVE  DeployIInv'
<1>. DEFINE w == work[p]
<1>1. w \in Works /\ PlaceOK(w)
  BY OwnState
<1>2. registry \subseteq Allocations /\ Apart(registry) /\ faults \in 0 .. MaxFaults /\ disturbed \subseteq Runs
  BY DEF DeployIInv, DeployInv, TypeOK, RangesDisjoint
<1>3. /\ w.at \in InLock => lock = p
      /\ w.at = "save" => w.seen = registry
      /\ w.at = "rsave" => w.seen = {a \in registry : a.name # w.st.name}
  BY DEF DeployIInv, DeployInv, LockInv, At
<1>4. w.at # "idle" => FailedAs(w) \in Works /\ PlaceOK(FailedAs(w)) /\ FailedAs(w).at = "stop"
  BY <1>1, FailedIsOK
<1>5. CASE Acquire(p)
  <2>. DEFINE v == [w EXCEPT !.at = IF w.at = "lock" THEN "load" ELSE "rload"]
  <2>1. w.at \in {"lock", "rlock"} /\ Become(p, v)
    BY <1>5 DEF Acquire, GoTo, At
  <2>2. v \in Works /\ v.at = (IF w.at = "lock" THEN "load" ELSE "rload") /\ v.st = w.st /\ v.n = w.n /\ v.i = w.i
    BY <1>1 DEF Works, Places
  <2>3. PlaceOK(v)
    BY <1>1, <2>1, <2>2 DEF PlaceOK, Deploying
  <2>4. v.at \in {"load", "rload"}
    BY <2>2
  <2>. HIDE DEF v
  <2>. QED
    BY <1>2, <1>5, <2>1, <2>2, <2>3, <2>4, LockStep DEF Acquire, InLock
<1>6. CASE LoadForAllocation(p)
  <2>. DEFINE size == w.n * PortsPerValidator
              m(s) == [name |-> w.st.name, start |-> s, end |-> s + size - 1, run |-> w.st.run]
              v(s) == [w EXCEPT !.at = "save", !.seen = registry, !.mine = {m(s)}]
  <2>1. w.at = "load" /\ w.st \in States /\ w.n \in 1 .. MaxValidators /\ w.i <= w.n /\ lock = p
    <3>1. w.at = "load"
      BY <1>6 DEF LoadForAllocation, At
    <3>2. w.st \in States /\ w.n >= 1 /\ w.i <= w.n
      BY <1>1, <3>1 DEF PlaceOK, Deploying
    <3>3. w.n \in 0 .. MaxValidators
      BY <1>1 DEF Works
    <3>. QED
      BY <1>3, <3>1, <3>2, <3>3, PortsAssumption DEF InLock
  <2>2. \/ lock' = NoProcess /\ Become(p, FailedAs(w))
        \/ /\ \A a \in registry : a.name # w.st.name
           /\ \E s \in findAvailableRange(registry, size) : Become(p, v(s)) /\ UNCHANGED lock
    BY <1>6 DEF LoadForAllocation, Fail
  <2>3. CASE lock' = NoProcess /\ Become(p, FailedAs(w))
    BY <1>2, <1>4, <1>6, <2>1, <2>3, LockStep DEF LoadForAllocation, InLock
  <2>4. CASE /\ \A a \in registry : a.name # w.st.name
             /\ \E s \in findAvailableRange(registry, size) : Become(p, v(s)) /\ UNCHANGED lock
    <3>1. PICK s \in findAvailableRange(registry, size) : Become(p, v(s)) /\ UNCHANGED lock
      BY <2>4
    <3>2. w.st.name \in Names /\ w.st.run \in Runs
      BY <2>1 DEF States
    <3>3. m(s) \in Allocations /\ Apart(registry \cup {m(s)})
      BY <1>2, <2>1, <2>4, <3>2, NewRangeFits
    <3>. DEFINE ms == m(s)  vs == [w EXCEPT !.at = "save", !.seen = registry, !.mine = {ms}]
    <3>4. Become(p, vs)
      BY <3>1
    <3>5. ms \in Allocations /\ Apart(registry \cup {ms})
      BY <3>3
    <3>. HIDE DEF ms
    <3>6. vs \in Works /\ vs.at = "save" /\ vs.st = w.st /\ vs.n = w.n /\ vs.i = w.i /\ vs.seen = registry /\ vs.mine = {ms}
      BY <1>1, <1>2, <3>5 DEF Works, Places
    <3>7. PlaceOK(vs)
      BY <2>1, <3>5, <3>6 DEF PlaceOK, Deploying
    <3>8. UNCHANGED <<file, network, container, host, calls, faults, disturbed, registry>> /\ lock' = p
      BY <1>6, <2>1, <3>1 DEF LoadForAllocation
    <3>. HIDE DEF vs
    <3>. QED
      BY <1>2, <2>1, <3>4, <3>6, <3>7, <3>8, LockStep DEF InLock
  <2>. QED
    BY <2>2, <2>3, <2>4
<1>7. CASE SaveAllocation(p)
  <2>. DEFINE v == [w EXCEPT !.at = "check", !.seen = {}]
  <2>1. /\ w.at = "save" /\ lock = p /\ w.st \in States /\ w.mine # {} /\ w.mine \subseteq Allocations
        /\ Apart(w.seen \cup w.mine) /\ Become(p, v)
    BY <1>1, <1>3, <1>7 DEF SaveAllocation, At, PlaceOK, Works, InLock
  <2>2. registry' = w.seen \cup w.mine /\ w.seen = registry
    BY <1>3, <1>7, <2>1 DEF SaveAllocation
  <2>3. v \in Works /\ v.at = "check" /\ v.st = w.st /\ v.n = w.n /\ v.i = w.i /\ v.mine = w.mine
    BY <1>1 DEF Works, Places
  <2>4. PlaceOK(v)
    BY <1>1, <2>1, <2>3 DEF PlaceOK, Deploying
  <2>5. registry' \subseteq Allocations /\ Apart(registry')
    BY <1>2, <2>1, <2>2
  <2>. HIDE DEF v
  <2>. QED
    BY <1>2, <1>7, <2>1, <2>3, <2>4, <2>5, LockStep DEF SaveAllocation, InLock
<1>8. CASE LoadForRelease(p)
  <2>. DEFINE kept == {a \in registry : a.name # w.st.name}
              u == [w EXCEPT !.at = "forget", !.errs = TRUE]
              v == [w EXCEPT !.at = "rsave", !.seen = kept]
  <2>1. w.at = "rload" /\ lock = p /\ w.st \in States
    BY <1>1, <1>3, <1>8 DEF LoadForRelease, At, PlaceOK, InLock
  <2>2. \/ lock' = NoProcess /\ Become(p, u)
        \/ UNCHANGED lock /\ Become(p, v)
    BY <1>8 DEF LoadForRelease
  <2>3. u \in Works /\ u.at = "forget" /\ u.st = w.st
    BY <1>1 DEF Works, Places
  <2>4. kept \subseteq Allocations
    BY <1>2
  <2>5. v \in Works /\ v.at = "rsave" /\ v.st = w.st /\ v.seen = kept
    BY <1>1, <2>4 DEF Works, Places
  <2>6. PlaceOK(u) /\ PlaceOK(v)
    BY <2>1, <2>3, <2>5 DEF PlaceOK, Deploying
  <2>7. UNCHANGED <<file, network, container, host, calls, faults, disturbed, registry>>
    BY <1>8 DEF LoadForRelease
  <2>8. kept = {a \in registry' : a.name # w.st.name}
    BY <2>7
  <2>. HIDE DEF u, v, kept
  <2>. QED
    BY <1>2, <2>1, <2>2, <2>3, <2>5, <2>6, <2>7, <2>8, LockStep DEF InLock
<1>9. CASE SaveRelease(p)
  <2>. DEFINE v == [w EXCEPT !.at = "forget", !.seen = {}]
  <2>1. w.at = "rsave" /\ lock = p /\ w.st \in States /\ Become(p, v)
    BY <1>1, <1>3, <1>9 DEF SaveRelease, At, PlaceOK, InLock
  <2>2. registry' \subseteq registry
    BY <1>3, <1>9, <2>1 DEF SaveRelease
  <2>3. registry' \subseteq Allocations /\ Apart(registry')
    BY <1>2, <2>2 DEF Apart
  <2>4. v \in Works /\ v.at = "forget" /\ v.st = w.st
    BY <1>1 DEF Works, Places
  <2>5. PlaceOK(v)
    BY <2>1, <2>4 DEF PlaceOK, Deploying
  <2>. HIDE DEF v
  <2>. QED
    BY <1>2, <1>9, <2>1, <2>3, <2>4, <2>5, LockStep DEF SaveRelease, InLock
<1>. QED
  BY <1>5, <1>6, <1>7, <1>8, <1>9

\* What Docker makes of a command that was killed keeps the types.
LEMMA CarriedTypes ==
  ASSUME DeployIInv, NEW p \in Processes, CarriedOut(p)
  PROVE  /\ network' \subseteq [run : Runs, name : Names, subnet : Subnets]
         /\ container' \in [Index -> Containers]
<1>. DEFINE w == work[p]
<1>1. /\ network \subseteq [run : Runs, name : Names, subnet : Subnets]
      /\ container \in [Index -> Containers] /\ w \in Works /\ PlaceOK(w)
  BY OwnState DEF DeployIInv, DeployInv, TypeOK
<1>2. NoContainer \in Containers
  BY BoundsAssumption DEF NoContainer, Containers
<1>3. CASE UNCHANGED <<network, container>>
  BY <1>1, <1>3
<1>4. CASE At(p, "network") /\ network' = WithNetwork(w) /\ UNCHANGED container
  <2>1. w.st \in States /\ w.subnet \in Subnets
    BY <1>1, <1>4 DEF At, PlaceOK
  <2>2. [run |-> w.st.run, name |-> w.st.name, subnet |-> w.subnet] \in [run : Runs, name : Names, subnet : Subnets]
    BY <2>1 DEF States
  <2>. QED
    BY <1>1, <1>4, <2>2 DEF WithNetwork
<1>5. CASE container' = [container EXCEPT ![w.i] = NoContainer] /\ UNCHANGED network
  BY <1>1, <1>2, <1>5
<1>6. CASE At(p, "run") /\ container' = WithContainer(w) /\ UNCHANGED network
  BY <1>1, <1>6, RunTypes
<1>7. CASE /\ UNCHANGED network
           /\ \E done \in SUBSET Mine(w), new \in {"stopped", "removed"} :
                container' = [i \in Index |->
                  IF new = "removed" /\ i \in done THEN NoContainer
                  ELSE IF i \in (IF new = "removed" THEN Mine(w) ELSE done) THEN [container[i] EXCEPT !.running = FALSE]
                  ELSE container[i]]
  <2>0. PICK done \in SUBSET Mine(w), new \in {"stopped", "removed"} :
                container' = [i \in Index |->
                  IF new = "removed" /\ i \in done THEN NoContainer
                  ELSE IF i \in (IF new = "removed" THEN Mine(w) ELSE done) THEN [container[i] EXCEPT !.running = FALSE]
                  ELSE container[i]]
    BY <1>7
  <2>1. \A i \in Index : container[i] \in Containers /\ [container[i] EXCEPT !.running = FALSE] \in Containers
    BY <1>1 DEF Containers
  <2>. QED
    BY <1>1, <1>2, <1>7, <2>0, <2>1
<1>8. CASE network' = WithoutNetwork(w) /\ UNCHANGED container
  BY <1>1, <1>8 DEF WithoutNetwork
<1>. QED
  BY <1>3, <1>4, <1>5, <1>6, <1>7, <1>8 DEF CarriedOut

\* A broken disk is a fault within its bound.
LEMMA BreaksTypes ==
  ASSUME DeployIInv, NEW b, Breaks(b)
  PROVE  faults' \in 0 .. MaxFaults
BY BoundsAssumption DEF DeployIInv, DeployInv, TypeOK, Breaks

\* The calls and the faults keep the invariant.
LEMMA CallSteps ==
  ASSUME DeployIInv, NEW p \in Processes,
         \/ \E d \in Names : DeployRefused(p, d) \/ Rollback(p, d) \/ \E n \in 1 .. MaxValidators : Deploy(p, d, n)
         \/ Kill(p) \/ Cancel(p)
  PROVE  DeployIInv'
<1>. DEFINE w == work[p]
<1>1. w \in Works /\ PlaceOK(w)
  BY OwnState
<1>2. /\ file \in [Names -> States \cup {NoFile}]
      /\ network \subseteq [run : Runs, name : Names, subnet : Subnets]
      /\ container \in [Index -> Containers]
      /\ calls \in 0 .. MaxCalls /\ faults \in 0 .. MaxFaults /\ disturbed \subseteq Runs
      /\ registry \subseteq Allocations /\ lock \in Processes \cup {NoProcess}
  BY DEF DeployIInv, DeployInv, TypeOK
<1>3. Idle \in Works /\ PlaceOK(Idle) /\ Idle.at = "idle" /\ "idle" \notin InLock
  BY IdleIsOK DEF InLock
<1>4. calls < MaxCalls => calls + 1 \in 0 .. MaxCalls /\ calls + 1 \in Runs
  BY <1>2, BoundsAssumption DEF Runs
<1>5. faults < MaxFaults => faults + 1 \in 0 .. MaxFaults
  BY <1>2, BoundsAssumption
<1>6. ASSUME NEW d \in Names, NEW n \in 1 .. MaxValidators, Deploy(p, d, n) PROVE DeployIInv'
  <2>. DEFINE st == [name |-> d, run |-> calls + 1, phase |-> "network", net |-> FALSE, range |-> {}, started |-> {}]
  <2>0. PICK b \in BOOLEAN : /\ Breaks(b) /\ saveState([st EXCEPT !.phase = "validating"], b)
                             /\ Become(p, [Idle EXCEPT !.at = "subnet", !.st = st, !.n = n, !.broken = b])
    BY <1>6 DEF Deploy
  <2>. DEFINE v == [Idle EXCEPT !.at = "subnet", !.st = st, !.n = n, !.broken = b]
  <2>1. w.at = "idle" /\ calls < MaxCalls /\ Become(p, v) /\ saveState([st EXCEPT !.phase = "validating"], b)
    BY <1>6, <2>0 DEF Deploy, At
  <2>2. st \in States /\ [st EXCEPT !.phase = "validating"] \in States
    BY <1>4, <2>1 DEF States
  <2>. HIDE DEF st
  <2>3. v \in Works /\ v.at = "subnet" /\ v.st = st /\ v.n = n /\ v.i = 0
    <3>1. n \in 0 .. MaxValidators
      BY PortsAssumption
    <3>. QED
      BY <1>3, <2>2, <3>1 DEF Works, Places, Idle
  <2>4. PlaceOK(v)
    BY <2>2, <2>3 DEF PlaceOK, Deploying
  <2>5. file' \in [Names -> States \cup {NoFile}]
    BY <2>1, <2>2, SaveResult
  <2>6. /\ calls' \in 0 .. MaxCalls /\ faults' \in 0 .. MaxFaults
        /\ UNCHANGED <<registry, lock, network, container, host, disturbed>>
    BY <1>4, <1>6, <2>0, <2>1, BreaksTypes DEF Deploy
  <2>. HIDE DEF v
  <2>. QED
    BY <1>2, <2>1, <2>3, <2>4, <2>5, <2>6, PlainStep DEF InLock
<1>7. ASSUME NEW d \in Names, DeployRefused(p, d) PROVE DeployIInv'
  <2>0. PICK b \in BOOLEAN : Breaks(b) /\ file' = IF b THEN file ELSE Gone(d)
    BY <1>7 DEF DeployRefused
  <2>1. /\ calls' \in 0 .. MaxCalls /\ file' \in [Names -> States \cup {NoFile}] /\ faults' \in 0 .. MaxFaults
        /\ UNCHANGED <<registry, lock, network, container, host, work, disturbed>>
    BY <1>2, <1>4, <1>7, <2>0, BreaksTypes DEF DeployRefused, Gone
  <2>2. TypeOK'
    BY <2>1 DEF DeployIInv, DeployInv, TypeOK
  <2>. QED
    BY <2>1, <2>2 DEF DeployIInv, DeployInv, LockInv, At, PlaceInv, PlaceOK, RangesDisjoint, Apart
<1>8. ASSUME NEW d \in Names, Rollback(p, d) PROVE DeployIInv'
  <2>0. PICK b \in BOOLEAN : /\ Breaks(b)
                             /\ Become(p, [Idle EXCEPT !.at = "stop", !.st = file[d], !.broken = b])
    BY <1>8 DEF Rollback
  <2>. DEFINE v == [Idle EXCEPT !.at = "stop", !.st = file[d], !.broken = b]
  <2>1. w.at = "idle" /\ calls < MaxCalls /\ Become(p, v) /\ file[d] \in States
    BY <1>2, <1>8, <2>0 DEF Rollback, At
  <2>2. v \in Works /\ v.at = "stop" /\ v.st = file[d]
    BY <1>3, <2>1 DEF Works, Places, Idle
  <2>3. PlaceOK(v)
    BY <2>1, <2>2 DEF PlaceOK, Deploying
  <2>4. disturbed' \subseteq Runs
    <3>1. file[d].run \in Runs
      BY <2>1 DEF States
    <3>2. disturbed' = disturbed \/ disturbed' = disturbed \cup {file[d].run}
      BY <1>8 DEF Rollback
    <3>. QED
      BY <1>2, <3>1, <3>2
  <2>5. /\ calls' \in 0 .. MaxCalls /\ faults' \in 0 .. MaxFaults
        /\ UNCHANGED <<registry, lock, file, network, container, host>>
    BY <1>4, <1>8, <2>0, <2>1, BreaksTypes DEF Rollback
  <2>. HIDE DEF v
  <2>. QED
    BY <1>2, <2>1, <2>2, <2>3, <2>4, <2>5, PlainStep DEF InLock
<1>9. CASE Kill(p)
  <2>1. w.at # "idle" /\ Become(p, Idle) /\ UNCHANGED <<registry, file, network, container, host, calls>>
    BY <1>9 DEF Kill, At
  <2>2. faults' \in 0 .. MaxFaults
    BY <1>5, <1>9 DEF Kill
  <2>3. disturbed' \subseteq Runs
    <3>1. w.st.run \in Runs
      BY <1>1, <2>1 DEF PlaceOK, States
    <3>2. disturbed' = disturbed \cup {w.st.run}
      BY <1>9 DEF Kill
    <3>. QED
      BY <1>2, <3>1, <3>2
  <2>4. CASE lock = p
    <3>1. lock' = NoProcess
      BY <1>9, <2>4 DEF Kill
    <3>. QED
      BY <1>2, <1>3, <2>1, <2>2, <2>3, <2>4, <3>1, LockStep DEF DeployIInv, RangesDisjoint
  <2>5. CASE lock # p
    <3>1. lock' = lock /\ w.at \notin InLock
      BY <1>9, <2>5 DEF Kill, DeployIInv, DeployInv, LockInv
    <3>. QED
      BY <1>2, <1>3, <2>1, <2>2, <2>3, <3>1, PlainStep
  <2>. QED
    BY <2>4, <2>5
<1>10. CASE Cancel(p)
  <2>. DEFINE v == [w EXCEPT !.cancelled = TRUE]
  <2>1. Become(p, v) /\ UNCHANGED <<registry, lock, file, host, calls, disturbed>>
    BY <1>10 DEF Cancel
  <2>0. /\ network' \subseteq [run : Runs, name : Names, subnet : Subnets] /\ container' \in [Index -> Containers]
        /\ w.at \in InLock => UNCHANGED <<network, container>>
    BY <1>10, CarriedTypes DEF Cancel, CarriedOut, At, InLock
  <2>2. faults' \in 0 .. MaxFaults
    BY <1>5, <1>10 DEF Cancel
  <2>3. /\ v \in Works /\ v.at = w.at /\ v.st = w.st /\ v.n = w.n /\ v.i = w.i
        /\ v.subnet = w.subnet /\ v.mine = w.mine /\ v.seen = w.seen
    BY <1>1 DEF Works
  <2>4. PlaceOK(v)
    BY <1>1, <2>3 DEF PlaceOK
  <2>. HIDE DEF v
  <2>5. CASE lock = p
    <3>1. /\ w.at \in InLock /\ (w.at = "save" => w.seen = registry)
          /\ (w.at = "rsave" => w.seen = {a \in registry : a.name # w.st.name})
      BY <2>5 DEF DeployIInv, DeployInv, LockInv, At
    <3>2. Apart(registry) /\ Apart(registry') /\ v.at \in InLock
      BY <2>1, <2>3, <3>1 DEF DeployIInv, RangesDisjoint
    <3>3. v.at = "rsave" => v.seen = {a \in registry' : a.name # v.st.name}
      BY <2>1, <2>3, <3>1
    <3>4. lock' = (IF v.at \in InLock THEN p ELSE NoProcess)
      BY <2>1, <2>5, <3>2
    <3>5. registry' \subseteq Allocations /\ disturbed' \subseteq Runs /\ (v.at = "save" => v.seen = registry')
      BY <1>2, <2>1, <2>3, <3>1
    <3>. QED
      BY <2>0, <2>1, <2>2, <2>3, <2>4, <2>5, <3>1, <3>2, <3>3, <3>4, <3>5, LockStep
  <2>6. CASE lock # p
    <3>1. w.at \notin InLock
      BY <2>6 DEF DeployIInv, DeployInv, LockInv
    <3>. QED
      BY <1>2, <2>0, <2>1, <2>2, <2>3, <2>4, <3>1, PlainStep
  <2>. QED
    BY <2>5, <2>6
<1>. QED
  BY <1>6, <1>7, <1>8, <1>9, <1>10

\* Every step keeps the invariant.
LEMMA NextDeploy == DeployIInv /\ [Next]_vars => DeployIInv'
<1>. SUFFICES ASSUME DeployIInv, [Next]_vars PROVE DeployIInv'
  OBVIOUS
<1>1. CASE UNCHANGED vars
  <2>1. TypeOK'
    BY <1>1 DEF vars, DeployIInv, DeployInv, TypeOK
  <2>. QED
    BY <1>1, <2>1 DEF vars, DeployIInv, DeployInv, LockInv, At, PlaceInv, PlaceOK, RangesDisjoint, Apart
<1>2. CASE Next
  <2>1. PICK p \in Processes :
          \/ Step(p)
          \/ \E d \in Names : DeployRefused(p, d) \/ Rollback(p, d) \/ \E n \in 1 .. MaxValidators : Deploy(p, d, n)
          \/ Kill(p) \/ Cancel(p)
    BY <1>2 DEF Next
  <2>2. CASE Step(p)
    BY <2>2, PlainSteps, LockSteps DEF Step
  <2>3. CASE ~Step(p)
    BY <2>1, <2>3, CallSteps
  <2>. QED
    BY <2>2, <2>3
<1>. QED
  BY <1>1, <1>2

-----------------------------------------------------------------------------
(* What a rollback leaves behind: the invariant.                             *)

\* A call is under way, and what it says of its own call at each place: the network is in
\* its state once it is created, and the phase is that of the network until then and that
\* of the ports until the range is.
Active(p) == ~At(p, "idle")
Before == {"subnet", "network"}
StateOK(w) ==
  /\ w.at \in Deploying => (w.st.net <=> w.at \notin Before)
  /\ w.at \in Before => w.st.phase = "network"
  /\ w.at \in {"lock", "load", "save", "check"} => w.st.phase = "ports"
  /\ w.at = "save" => \A a \in w.mine : a.run = w.st.run /\ a.name = w.st.name
StateInv == \A p \in Processes : StateOK(work[p])

\* A deployment has one name, in the files, the calls and the registry, and a number that
\* has been given out.
Claimed(r, d) ==
  \/ file[d] # NoFile /\ file[d].run = r
  \/ \E p \in Processes : Active(p) /\ work[p].st.run = r /\ work[p].st.name = d
  \/ \E a \in registry : a.run = r /\ a.name = d
NamesInv ==
  /\ \A r \in Runs, d, e \in Names : Claimed(r, d) => r <= calls /\ (Claimed(r, e) => d = e)
  /\ \A d \in Names : file[d] # NoFile => file[d].name = d
  /\ \A x \in network : x.run <= calls

\* A deployment is made by one process; one that rolls it back meanwhile disturbs it.
AloneInv ==
  \A p, q \in Processes :
    p # q /\ Active(p) /\ Active(q) /\ work[p].st.run = work[q].st.run =>
      /\ work[p].st.run \in disturbed
      /\ ~(work[p].at \in Deploying /\ work[q].at \in Deploying)

\* Before its network is created no state says that it is, and there is none unless the
\* context is done.
BeforeInv ==
  \A p \in Processes : work[p].at \in Before =>
    /\ ~work[p].cancelled => \A x \in network : x.run # work[p].st.run
    /\ \A q \in Processes : Active(q) /\ work[q].st.run = work[p].st.run => ~work[q].st.net
    /\ \A d \in Names : file[d] # NoFile /\ file[d].run = work[p].st.run => ~file[d].net

\* Once a rollback has removed the network nothing of it comes back.
Behind == {"rlock", "rload", "rsave", "forget"}
NetworkInv ==
  \A p \in Processes : work[p].at \in Behind /\ ~work[p].errs /\ work[p].st.net =>
    /\ \A x \in network : x.run # work[p].st.run
    /\ \A i \in Index : container[i].running => container[i].run # work[p].st.run

\* What there is of a deployment nobody disturbed is in the state of its call, but for a
\* network created by a command that was killed, and in its file when no call is under way.
CallInv ==
  \A p \in Processes : Active(p) /\ work[p].st.run \notin disturbed =>
    /\ \/ work[p].st.net \/ (work[p].cancelled /\ work[p].st.phase = "network")
       \/ \A x \in network : x.run # work[p].st.run
    /\ \/ work[p].st.range # {} /\ ~(At(p, "forget") /\ ~work[p].errs)
       \/ work[p].st.range = {} /\ work[p].st.phase = "ports"
       \/ \A a \in registry : a.run # work[p].st.run
FileInv ==
  \A d \in Names : file[d] # NoFile /\ file[d].run \notin disturbed =>
    \/ \E p \in Processes : Active(p) /\ work[p].st.run = file[d].run
    \/ /\ ~file[d].net => \A x \in network : x.run # file[d].run
       /\ file[d].range = {} => \A a \in registry : a.run # file[d].run

RollInv == StateInv /\ NamesInv /\ AloneInv /\ BeforeInv /\ NetworkInv /\ CallInv /\ FileInv

\* What the types say of a call under way and of a file.
LEMMA StateTypes ==
  ASSUME DeployIInv
  PROVE  /\ \A p \in Processes : Active(p) =>
              /\ work[p] \in Works /\ PlaceOK(work[p]) /\ work[p].st \in States
              /\ work[p].st.run \in Runs /\ work[p].st.name \in Names
         /\ \A d \in Names : file[d] # NoFile => file[d] \in States /\ file[d].run \in Runs
         /\ \A x \in network : x.run \in Runs
         /\ \A a \in registry : a.run \in Runs /\ a.name \in Names
         /\ calls \in Nat /\ Runs \subseteq Nat
<1>1. \A p \in Processes : Active(p) => work[p] \in Works /\ PlaceOK(work[p]) /\ work[p].st \in States
  BY OwnState DEF Active, At, PlaceOK
<1>2. \A d \in Names : file[d] # NoFile => file[d] \in States
  BY DEF DeployIInv, DeployInv, TypeOK
<1>3. \A x \in States : x.run \in Runs /\ x.name \in Names
  BY DEF States
<1>4. (\A x \in network : x.run \in Runs) /\ \A a \in registry : a.run \in Runs /\ a.name \in Names
  BY DEF DeployIInv, DeployInv, TypeOK, Allocations
<1>5. calls \in Nat /\ Runs \subseteq Nat
  BY BoundsAssumption DEF DeployIInv, DeployInv, TypeOK, Runs
<1>. QED
  BY <1>1, <1>2, <1>3, <1>4, <1>5

\* No new claims, no new conflicts.
LEMMA NamesStep ==
  ASSUME DeployIInv, NamesInv, calls' \in Nat, calls' >= calls,
         \A r \in Runs, d \in Names : Claimed(r, d)' => Claimed(r, d),
         \A d \in Names : file'[d] # NoFile => file'[d].name = d,
         \A x \in network' : x.run \in Nat /\ x.run <= calls
  PROVE  NamesInv'
<1>1. calls \in Nat /\ Runs \subseteq Nat
  BY StateTypes
<1>2. \A r \in Runs, d, e \in Names : Claimed(r, d)' => r <= calls' /\ (Claimed(r, e)' => d = e)
  BY <1>1 DEF NamesInv
<1>. QED
  BY <1>1, <1>2 DEF NamesInv

Others(p) == \A q \in Processes \ {p} : work'[q] = work[q]
Same(w, v) ==
  /\ v.st.run = w.st.run /\ v.st.name = w.st.name
  /\ v.st.net = w.st.net /\ v.st.range = w.st.range /\ v.st.phase = w.st.phase
  /\ w.cancelled => v.cancelled

\* The steps that change nothing but the place of a call, and perhaps containers: a
\* container is started only while the network of its deployment is there.
LEMMA NeutralStep ==
  ASSUME DeployIInv, RollInv, NEW p \in Processes, NEW w, NEW v, w = work[p], v = work'[p], Others(p), Same(w, v),
         w.at # "idle", v.at # "idle", StateOK(v), UNCHANGED <<registry, file, network, disturbed, calls>>,
         v.at \in Deploying => w.at \in Deploying, v.at \in Before => w.at \in Before,
         v.at \in Behind => w.at \in Behind /\ (w.errs => v.errs),
         v.at = "forget" /\ ~v.errs => w.at = "forget" /\ ~w.errs,
         \A i \in Index : container'[i].running =>
           \/ container'[i] = container[i]
           \/ container'[i].run = w.st.run /\ \E x \in network : x.run = w.st.run
  PROVE  RollInv'
<1>1. \A q \in Processes : /\ Active(q)' <=> Active(q)
                           /\ work'[q].st.run = work[q].st.run /\ work'[q].st.name = work[q].st.name
                           /\ work'[q].st.net = work[q].st.net /\ work'[q].st.range = work[q].st.range
                           /\ work'[q].st.phase = work[q].st.phase
                           /\ work[q].cancelled => work'[q].cancelled
                           /\ work'[q].at \in Deploying => work[q].at \in Deploying
                           /\ work'[q].at \in Before => work[q].at \in Before
                           /\ work'[q].at \in Behind => work[q].at \in Behind /\ (work[q].errs => work'[q].errs)
                           /\ work'[q].at = "forget" /\ ~work'[q].errs => work[q].at = "forget" /\ ~work[q].errs
  BY DEF Others, Same, Active, At
<1>2. StateInv'
  BY DEF RollInv, StateInv, StateOK, Others
<1>3. NamesInv'
  <2>1. \A r \in Runs, d \in Names : Claimed(r, d)' => Claimed(r, d)
    BY <1>1 DEF Claimed
  <2>. QED
    BY <2>1, NamesStep, StateTypes DEF RollInv, NamesInv
<1>4. AloneInv'
  BY <1>1 DEF RollInv, AloneInv
<1>5. BeforeInv'
  BY <1>1 DEF RollInv, BeforeInv
<1>6. NetworkInv'
  BY <1>1 DEF RollInv, NetworkInv
<1>7. CallInv'
  BY <1>1 DEF RollInv, CallInv, At
<1>8. FileInv'
  BY <1>1 DEF RollInv, FileInv
<1>. QED
  BY <1>2, <1>3, <1>4, <1>5, <1>6, <1>7, <1>8 DEF RollInv

\* The saves of a deployment under way: the state in the file names the network, unless
\* the file is the one there was, or none.
LEMMA SavingStep ==
  ASSUME DeployIInv, RollInv, NEW p \in Processes, NEW w, NEW v, w = work[p], v = work'[p], Others(p),
         NEW st, st # NoFile, file' = Saved(st) \/ file' = file \/ file' = Gone(w.st.name),
         st.run = w.st.run, st.name = w.st.name, st.net, w.st.net,
         v.st.run = w.st.run, v.st.name = w.st.name, v.st.net, v.st.range = {} => v.st.phase = "ports",
         w.at \in Deploying \ Before, v.at \in Deploying \ Before, StateOK(v),
         UNCHANGED <<registry, network, disturbed, calls, container>>
  PROVE  RollInv'
<1>0. /\ v.at # "idle" /\ v.at # "forget" /\ v.at \notin Behind /\ v.at \notin Before
      /\ w.at # "idle" /\ w.st.name \in Names /\ w.st.run \in Runs /\ file \in [Names -> States \cup {NoFile}]
  BY StateTypes DEF Active, At, Deploying, Before, Behind, DeployIInv, DeployInv, TypeOK
<1>1. \A q \in Processes : /\ Active(q)' <=> Active(q)
                           /\ work'[q].st.run = work[q].st.run /\ work'[q].st.name = work[q].st.name
                           /\ work'[q].st.net <=> work[q].st.net
                           /\ q # p => work'[q] = work[q]
  BY <1>0 DEF Others, Active, At
<1>2. \A d \in Names : file'[d] = file[d] \/ file'[d] = NoFile \/ (d = w.st.name /\ file'[d] = st)
  BY <1>0 DEF Saved, Gone
<1>3. StateInv'
  BY DEF RollInv, StateInv, StateOK, Others
<1>4. NamesInv'
  <2>1. Active(p)
    BY <1>0 DEF Active, At
  <2>2. \A r \in Runs, d \in Names : Claimed(r, d)' => Claimed(r, d)
    BY <1>1, <1>2, <2>1 DEF Claimed
  <2>3. \A d \in Names : file'[d] # NoFile => file'[d].name = d
    BY <1>2 DEF RollInv, NamesInv
  <2>. QED
    BY <2>2, <2>3, NamesStep, StateTypes DEF RollInv, NamesInv
<1>5. AloneInv'
  BY <1>1 DEF RollInv, AloneInv
<1>6. BeforeInv'
  <2>. SUFFICES ASSUME NEW q \in Processes, work'[q].at \in Before
                PROVE  /\ ~work'[q].cancelled => \A x \in network' : x.run # work'[q].st.run
                       /\ \A o \in Processes : Active(o)' /\ work'[o].st.run = work'[q].st.run => ~work'[o].st.net
                       /\ \A d \in Names : file'[d] # NoFile /\ file'[d].run = work'[q].st.run => ~file'[d].net
    BY DEF BeforeInv
  <2>1. q # p /\ work'[q] = work[q] /\ Active(q) /\ Active(p) /\ work[q].at \in Deploying
    BY <1>0, <1>1 DEF Before, Deploying, Active, At
  <2>2. work[q].st.run # w.st.run
    BY <2>1 DEF RollInv, AloneInv
  <2>. QED
    BY <1>1, <1>2, <2>1, <2>2 DEF RollInv, BeforeInv
<1>7. NetworkInv'
  BY <1>0, <1>1 DEF RollInv, NetworkInv
<1>8. CallInv'
  BY <1>0, <1>1 DEF RollInv, CallInv, At
<1>9. FileInv'
  <2>1. Active(p)'
    BY <1>0 DEF Active, At
  <2>. QED
    BY <1>1, <1>2, <2>1 DEF RollInv, FileInv
<1>. QED
  BY <1>3, <1>4, <1>5, <1>6, <1>7, <1>8, <1>9 DEF RollInv

\* The network is created: by one process only, before any state names it.  Its own state
\* does, unless the command was killed.
LEMMA CreatedStep ==
  ASSUME DeployIInv, RollInv, NEW p \in Processes, NEW w, NEW v, w = work[p], v = work'[p], Others(p),
         NEW x, network' = network \cup {x}, x.run = w.st.run,
         v.st.run = w.st.run, v.st.name = w.st.name, v.st.range = w.st.range, v.st.phase = w.st.phase,
         w.at = "network", (v.at = "persist" /\ v.st.net) \/ (v.at = "network" /\ v.cancelled /\ ~v.st.net), StateOK(v),
         UNCHANGED <<registry, file, disturbed, calls, container>>
  PROVE  RollInv'
<1>0. /\ w.at \in Before /\ w.at \in Deploying /\ v.at \in Deploying /\ v.at \notin Behind
      /\ v.at \in Before => v.cancelled /\ ~v.st.net /\ v.st.phase = "network"
      /\ v.at \notin Before => v.st.net
      /\ w.st.name \in Names /\ w.st.run \in Runs /\ Active(p) /\ Active(p)'
  BY StateTypes DEF Active, At, Deploying, Before, Behind, StateOK
<1>1. \A q \in Processes : /\ Active(q)' <=> Active(q)
                           /\ work'[q].st.run = work[q].st.run /\ work'[q].st.name = work[q].st.name
                           /\ q # p => work'[q] = work[q]
  BY <1>0 DEF Others, Active, At
<1>2. \A q \in Processes : q # p /\ Active(q) /\ work[q].st.run = w.st.run =>
        work[q].st.run \in disturbed /\ work[q].at \notin Deploying /\ ~work[q].st.net
  BY <1>0 DEF RollInv, AloneInv, BeforeInv
<1>3. StateInv'
  BY DEF RollInv, StateInv, StateOK, Others
<1>4. NamesInv'
  <2>1. \A r \in Runs, d \in Names : Claimed(r, d)' => Claimed(r, d)
    BY <1>1 DEF Claimed
  <2>2. Claimed(w.st.run, w.st.name)
    BY <1>0 DEF Claimed
  <2>3. x.run <= calls
    BY <1>0, <2>2 DEF RollInv, NamesInv
  <2>4. \A y \in network' : y.run \in Nat /\ y.run <= calls
    BY <1>0, <2>3, StateTypes DEF RollInv, NamesInv
  <2>. QED
    BY <2>1, <2>4, NamesStep, StateTypes DEF RollInv, NamesInv
<1>5. AloneInv'
  BY <1>0, <1>1 DEF RollInv, AloneInv
<1>6. BeforeInv'
  <2>. SUFFICES ASSUME NEW q \in Processes, work'[q].at \in Before
                PROVE  /\ ~work'[q].cancelled => \A y \in network' : y.run # work'[q].st.run
                       /\ \A o \in Processes : Active(o)' /\ work'[o].st.run = work'[q].st.run => ~work'[o].st.net
                       /\ \A d \in Names : file'[d] # NoFile /\ file'[d].run = work'[q].st.run => ~file'[d].net
    BY DEF BeforeInv
  <2>1. CASE q = p
    BY <1>0, <1>1, <1>2, <2>1 DEF RollInv, BeforeInv
  <2>2. CASE q # p
    <3>1. work'[q] = work[q] /\ Active(q) /\ work[q].at \in Deploying
      BY <1>1, <2>2 DEF Before, Deploying, Active, At
    <3>2. work[q].st.run # w.st.run
      BY <1>2, <2>2, <3>1
    <3>. QED
      BY <1>1, <3>1, <3>2 DEF RollInv, BeforeInv
  <2>. QED
    BY <2>1, <2>2
<1>7. NetworkInv'
  <2>. SUFFICES ASSUME NEW q \in Processes, work'[q].at \in Behind, ~work'[q].errs, work'[q].st.net
                PROVE  /\ \A y \in network' : y.run # work'[q].st.run
                       /\ \A i \in Index : container'[i].running => container'[i].run # work'[q].st.run
    BY DEF NetworkInv
  <2>1. q # p /\ work'[q] = work[q] /\ Active(q)
    BY <1>0, <1>1 DEF Behind, Active, At
  <2>2. work[q].st.run # w.st.run
    BY <1>2, <2>1
  <2>. QED
    BY <2>1, <2>2 DEF RollInv, NetworkInv
<1>8. CallInv'
  <2>. SUFFICES ASSUME NEW q \in Processes, Active(q)', work'[q].st.run \notin disturbed'
                PROVE  /\ \/ work'[q].st.net \/ (work'[q].cancelled /\ work'[q].st.phase = "network")
                          \/ \A y \in network' : y.run # work'[q].st.run
                       /\ \/ work'[q].st.range # {} /\ ~(At(q, "forget")' /\ ~work'[q].errs)
                          \/ work'[q].st.range = {} /\ work'[q].st.phase = "ports"
                          \/ \A a \in registry' : a.run # work'[q].st.run
    BY DEF CallInv
  <2>1. CASE q = p
    BY <1>0, <2>1 DEF RollInv, CallInv, At
  <2>2. CASE q # p
    <3>1. work'[q] = work[q] /\ Active(q) /\ work[q].st.run # w.st.run
      BY <1>1, <1>2, <2>2
    <3>. QED
      BY <3>1 DEF RollInv, CallInv, At
  <2>. QED
    BY <2>1, <2>2
<1>9. FileInv'
  BY <1>0, <1>1 DEF RollInv, FileInv
<1>. QED
  BY <1>3, <1>4, <1>5, <1>6, <1>7, <1>8, <1>9 DEF RollInv

\* The range is allocated, in the port phase.
LEMMA AllocatedStep ==
  ASSUME DeployIInv, RollInv, NEW p \in Processes, NEW w, NEW v, w = work[p], v = work'[p], Others(p), Same(w, v),
         NEW mine, registry' = registry \cup mine, \A a \in mine : a.run = w.st.run /\ a.name = w.st.name,
         w.at = "save", v.at = "check", StateOK(v),
         UNCHANGED <<file, network, disturbed, calls, container>>
  PROVE  RollInv'
<1>0. /\ w.at \in Deploying /\ v.at \notin Before /\ v.at \notin Behind
      /\ w.st.name \in Names /\ w.st.run \in Runs /\ Active(p) /\ Active(p)' /\ v.st.phase = "ports"
  BY StateTypes DEF Active, At, Deploying, Before, Behind, StateOK
<1>1. \A q \in Processes : /\ Active(q)' <=> Active(q)
                           /\ work'[q].st.run = work[q].st.run /\ work'[q].st.name = work[q].st.name
                           /\ work'[q].st.net = work[q].st.net /\ work'[q].st.phase = work[q].st.phase
                           /\ work[q].cancelled => work'[q].cancelled
                           /\ q # p => work'[q] = work[q]
  BY <1>0 DEF Others, Same, Active, At
<1>3. StateInv'
  BY DEF RollInv, StateInv, StateOK, Others
<1>4. NamesInv'
  <2>1. \A r \in Runs, d \in Names : Claimed(r, d)' => Claimed(r, d)
    BY <1>0, <1>1 DEF Claimed
  <2>. QED
    BY <2>1, NamesStep, StateTypes DEF RollInv, NamesInv
<1>5. AloneInv'
  BY <1>0, <1>1 DEF RollInv, AloneInv
<1>6. BeforeInv'
  BY <1>0, <1>1 DEF RollInv, BeforeInv
<1>7. NetworkInv'
  BY <1>0, <1>1 DEF RollInv, NetworkInv
<1>8. CallInv'
  <2>. SUFFICES ASSUME NEW q \in Processes, Active(q)', work'[q].st.run \notin disturbed'
                PROVE  /\ \/ work'[q].st.net \/ (work'[q].cancelled /\ work'[q].st.phase = "network")
                          \/ \A y \in network' : y.run # work'[q].st.run
                       /\ \/ work'[q].st.range # {} /\ ~(At(q, "forget")' /\ ~work'[q].errs)
                          \/ work'[q].st.range = {} /\ work'[q].st.phase = "ports"
                          \/ \A a \in registry' : a.run # work'[q].st.run
    BY DEF CallInv
  <2>1. CASE q = p
    BY <1>0, <1>1, <2>1 DEF RollInv, CallInv, At
  <2>2. CASE q # p
    <3>1. work'[q] = work[q] /\ Active(q) /\ work[q].st.run # w.st.run
      BY <1>0, <1>1, <2>2 DEF RollInv, AloneInv
    <3>. QED
      BY <3>1 DEF RollInv, CallInv, At
  <2>. QED
    BY <2>1, <2>2
<1>9. FileInv'
  BY <1>0, <1>1 DEF RollInv, FileInv
<1>. QED
  BY <1>3, <1>4, <1>5, <1>6, <1>7, <1>8, <1>9 DEF RollInv

\* A call ends: its deployment is disturbed, or its file says what there is, or it is gone.
LEMMA EndedStep ==
  ASSUME DeployIInv, RollInv, NEW p \in Processes, NEW w, NEW v, w = work[p], v = work'[p], Others(p),
         w.at # "idle", v.at = "idle", UNCHANGED <<registry, network, calls, container>>,
         disturbed \subseteq disturbed',
         \/ file' = file /\ w.st.run \in disturbed'
         \/ file' = [file EXCEPT ![w.st.name] = NoFile]
         \/ \E st : /\ file' = [file EXCEPT ![w.st.name] = st] /\ st # NoFile
                    /\ st.run = w.st.run /\ st.name = w.st.name /\ st.net /\ st.range # {}
                    /\ w.at \in Deploying \ Before
  PROVE  RollInv'
<1>0. /\ v.at \notin Deploying /\ v.at \notin Before /\ v.at \notin Behind /\ v.at # "forget"
      /\ w.st.name \in Names /\ w.st.run \in Runs /\ Active(p) /\ ~Active(p)'
      /\ file \in [Names -> States \cup {NoFile}]
  BY StateTypes DEF Active, At, Deploying, Before, Behind, DeployIInv, DeployInv, TypeOK
<1>1. \A q \in Processes : q # p => work'[q] = work[q] /\ (Active(q)' <=> Active(q))
  BY DEF Others, Active, At
<1>2. \A d \in Names : d # w.st.name => file'[d] = file[d]
  BY <1>0
<1>3. \/ file'[w.st.name] = file[w.st.name] /\ w.st.run \in disturbed'
      \/ file'[w.st.name] = NoFile
      \/ /\ file'[w.st.name].run = w.st.run /\ file'[w.st.name].name = w.st.name
         /\ file'[w.st.name].net /\ file'[w.st.name].range # {} /\ w.at \in Deploying \ Before
  BY <1>0
<1>4. StateInv'
  BY <1>0 DEF RollInv, StateInv, StateOK, Others
<1>5. NamesInv'
  <2>1. ASSUME NEW r \in Runs, NEW d \in Names, Claimed(r, d)' PROVE Claimed(r, d)
    <3>1. CASE file'[d] # NoFile /\ file'[d].run = r
      BY <1>0, <1>2, <1>3, <3>1 DEF Claimed
    <3>2. CASE \E q \in Processes : Active(q)' /\ work'[q].st.run = r /\ work'[q].st.name = d
      BY <1>0, <1>1, <3>2 DEF Claimed
    <3>3. CASE \E a \in registry' : a.run = r /\ a.name = d
      BY <3>3 DEF Claimed
    <3>. QED
      BY <2>1, <3>1, <3>2, <3>3 DEF Claimed
  <2>2. \A d \in Names : file'[d] # NoFile => file'[d].name = d
    BY <1>2, <1>3 DEF RollInv, NamesInv
  <2>. QED
    BY <2>1, <2>2, NamesStep, StateTypes DEF RollInv, NamesInv
<1>6. AloneInv'
  BY <1>0, <1>1 DEF RollInv, AloneInv
<1>7. BeforeInv'
  <2>. SUFFICES ASSUME NEW q \in Processes, work'[q].at \in Before
                PROVE  /\ ~work'[q].cancelled => \A x \in network' : x.run # work'[q].st.run
                       /\ \A o \in Processes : Active(o)' /\ work'[o].st.run = work'[q].st.run => ~work'[o].st.net
                       /\ \A d \in Names : file'[d] # NoFile /\ file'[d].run = work'[q].st.run => ~file'[d].net
    BY DEF BeforeInv
  <2>1. q # p /\ work'[q] = work[q] /\ Active(q) /\ work[q].at \in Deploying /\ work[q].at \in Before
    BY <1>0, <1>1 DEF Before, Deploying, Active, At
  <2>2. w.at \in Deploying => work[q].st.run # w.st.run
    BY <1>0, <2>1 DEF RollInv, AloneInv
  <2>3. /\ ~work[q].cancelled => \A x \in network : x.run # work[q].st.run
        /\ \A o \in Processes : Active(o) /\ work[o].st.run = work[q].st.run => ~work[o].st.net
        /\ \A d \in Names : file[d] # NoFile /\ file[d].run = work[q].st.run => ~file[d].net
    BY <2>1 DEF RollInv, BeforeInv
  <2>4. \A o \in Processes : Active(o)' /\ work'[o].st.run = work'[q].st.run => ~work'[o].st.net
    BY <1>0, <1>1, <2>1, <2>3
  <2>5. \A d \in Names : file'[d] # NoFile /\ file'[d].run = work'[q].st.run => ~file'[d].net
    BY <1>0, <1>2, <1>3, <2>1, <2>2, <2>3
  <2>. QED
    BY <2>1, <2>3, <2>4, <2>5
<1>8. NetworkInv'
  BY <1>0, <1>1 DEF RollInv, NetworkInv
<1>9. CallInv'
  BY <1>0, <1>1 DEF RollInv, CallInv, At
<1>10. FileInv'
  <2>. SUFFICES ASSUME NEW d \in Names, file'[d] # NoFile, file'[d].run \notin disturbed'
                PROVE  \/ \E q \in Processes : Active(q)' /\ work'[q].st.run = file'[d].run
                       \/ /\ ~file'[d].net => \A x \in network' : x.run # file'[d].run
                          /\ file'[d].range = {} => \A a \in registry' : a.run # file'[d].run
    BY DEF FileInv
  <2>1. CASE d = w.st.name /\ file'[d] # file[d]
    BY <1>3, <2>1
  <2>2. CASE file'[d] = file[d]
    <3>1. CASE file[d].run = w.st.run
      <4>1. Claimed(w.st.run, d) /\ Claimed(w.st.run, w.st.name)
        BY <1>0, <2>2, <3>1 DEF Claimed
      <4>2. d = w.st.name
        BY <1>0, <4>1 DEF RollInv, NamesInv
      <4>. QED
        BY <1>3, <2>2, <3>1, <4>2
    <3>2. CASE file[d].run # w.st.run
      <4>1. \/ \E q \in Processes : Active(q) /\ work[q].st.run = file[d].run
            \/ /\ ~file[d].net => \A x \in network : x.run # file[d].run
               /\ file[d].range = {} => \A a \in registry : a.run # file[d].run
        BY <2>2 DEF RollInv, FileInv
      <4>. QED
        BY <1>0, <1>1, <2>2, <3>2, <4>1
    <3>. QED
      BY <3>1, <3>2
  <2>. QED
    BY <1>2, <2>1, <2>2
<1>. QED
  BY <1>4, <1>5, <1>6, <1>7, <1>8, <1>9, <1>10 DEF RollInv

\* A new deployment has a number that nothing else has.
LEMMA DeployedStep ==
  ASSUME DeployIInv, RollInv, NEW p \in Processes, NEW v, v = work'[p], Others(p), NEW d \in Names, NEW st,
         file' = Saved(st) \/ file' = file \/ file' = Gone(d), st # NoFile, st.run = calls + 1, st.name = d, ~st.net,
         calls' = calls + 1, calls + 1 \in Runs,
         ~Active(p), v.at = "subnet", v.st.run = calls + 1, v.st.name = d, ~v.st.net,
         v.st.phase = "network",
         UNCHANGED <<registry, network, disturbed, container>>
  PROVE  RollInv'
<1>0. /\ v.at \in Deploying /\ v.at \in Before /\ v.at \notin Behind /\ v.at # "forget" /\ Active(p)'
      /\ file \in [Names -> States \cup {NoFile}] /\ calls \in Nat /\ Runs \subseteq Nat
  BY StateTypes DEF Active, At, Deploying, Before, Behind, DeployIInv, DeployInv, TypeOK
<1>1. \A q \in Processes : q # p => work'[q] = work[q] /\ (Active(q)' <=> Active(q))
  BY DEF Others, Active, At
<1>2. \A e \in Names : file'[e] = file[e] \/ file'[e] = NoFile \/ (e = d /\ file'[e] = st)
  BY <1>0 DEF Saved, Gone
<1>3. \A r \in Runs, e \in Names : Claimed(r, e) => r <= calls /\ r # calls + 1
  BY <1>0 DEF RollInv, NamesInv
<1>4. /\ \A q \in Processes : Active(q) => work[q].st.run # calls + 1
      /\ \A e \in Names : file[e] # NoFile => file[e].run # calls + 1
      /\ \A a \in registry : a.run # calls + 1
      /\ \A x \in network : x.run # calls + 1
  <2>1. \A x \in network : x.run # calls + 1
    BY <1>0, StateTypes DEF RollInv, NamesInv
  <2>2. \A q \in Processes : Active(q) => work[q].st.run # calls + 1
    <3>. TAKE q \in Processes
    <3>. HAVE Active(q)
    <3>1. work[q].st.run \in Runs /\ work[q].st.name \in Names
      BY StateTypes
    <3>2. Claimed(work[q].st.run, work[q].st.name)
      BY DEF Claimed
    <3>. QED
      BY <1>3, <3>1, <3>2
  <2>3. \A e \in Names : file[e] # NoFile => file[e].run # calls + 1
    BY <1>3 DEF Claimed
  <2>4. \A a \in registry : a.run # calls + 1
    BY <1>3, StateTypes DEF Claimed
  <2>. QED
    BY <2>1, <2>2, <2>3, <2>4
<1>5. StateInv'
  BY <1>0 DEF RollInv, StateInv, StateOK, Others
<1>6. NamesInv'
  <2>1. ASSUME NEW r \in Runs, NEW e \in Names, Claimed(r, e)'
        PROVE  (r # calls + 1 /\ Claimed(r, e)) \/ (r = calls + 1 /\ e = d)
    <3>1. CASE file'[e] # NoFile /\ file'[e].run = r
      BY <1>2, <1>4, <3>1 DEF Claimed
    <3>2. CASE \E q \in Processes : Active(q)' /\ work'[q].st.run = r /\ work'[q].st.name = e
      BY <1>1, <1>4, <3>2 DEF Claimed
    <3>3. CASE \E a \in registry' : a.run = r /\ a.name = e
      BY <1>4, <3>3 DEF Claimed
    <3>. QED
      BY <2>1, <3>1, <3>2, <3>3 DEF Claimed
  <2>2. \A r \in Runs, e, f \in Names : Claimed(r, e)' => r <= calls' /\ (Claimed(r, f)' => e = f)
    <3>. SUFFICES ASSUME NEW r \in Runs, NEW e \in Names, NEW f \in Names, Claimed(r, e)'
                  PROVE  r <= calls' /\ (Claimed(r, f)' => e = f)
      OBVIOUS
    <3>1. CASE r = calls + 1
      BY <1>0, <2>1, <3>1
    <3>2. CASE r # calls + 1
      BY <1>0, <2>1, <3>2 DEF RollInv, NamesInv
    <3>. QED
      BY <3>1, <3>2
  <2>3. \A e \in Names : file'[e] # NoFile => file'[e].name = e
    BY <1>2 DEF RollInv, NamesInv
  <2>4. \A x \in network' : x.run <= calls'
    <3>1. \A x \in network : x.run \in Nat
      BY <1>0, StateTypes
    <3>2. \A x \in network : x.run <= calls
      BY DEF RollInv, NamesInv
    <3>. QED
      BY <1>0, <3>1, <3>2
  <2>. QED
    BY <2>2, <2>3, <2>4 DEF NamesInv
<1>7. AloneInv'
  BY <1>1, <1>4 DEF RollInv, AloneInv
<1>8. BeforeInv'
  <2>. SUFFICES ASSUME NEW q \in Processes, work'[q].at \in Before
                PROVE  /\ ~work'[q].cancelled => \A x \in network' : x.run # work'[q].st.run
                       /\ \A o \in Processes : Active(o)' /\ work'[o].st.run = work'[q].st.run => ~work'[o].st.net
                       /\ \A e \in Names : file'[e] # NoFile /\ file'[e].run = work'[q].st.run => ~file'[e].net
    BY DEF BeforeInv
  <2>1. CASE q = p
    BY <1>1, <1>2, <1>4, <2>1
  <2>2. CASE q # p
    <3>1. work'[q] = work[q] /\ Active(q) /\ work[q].st.run # calls + 1
      BY <1>1, <1>4, <2>2 DEF Active, At, Before
    <3>. QED
      BY <1>1, <1>2, <3>1 DEF RollInv, BeforeInv
  <2>. QED
    BY <2>1, <2>2
<1>9. NetworkInv'
  BY <1>0, <1>1 DEF RollInv, NetworkInv
<1>10. CallInv'
  BY <1>0, <1>1, <1>4 DEF RollInv, CallInv, At
<1>11. FileInv'
  <2>. SUFFICES ASSUME NEW e \in Names, file'[e] # NoFile, file'[e].run \notin disturbed'
                PROVE  \/ \E q \in Processes : Active(q)' /\ work'[q].st.run = file'[e].run
                       \/ /\ ~file'[e].net => \A x \in network' : x.run # file'[e].run
                          /\ file'[e].range = {} => \A a \in registry' : a.run # file'[e].run
    BY DEF FileInv
  <2>1. CASE file'[e] = st
    BY <1>0, <2>1
  <2>2. CASE file'[e] = file[e]
    BY <1>1, <2>2 DEF RollInv, FileInv
  <2>. QED
    BY <1>2, <2>1, <2>2
<1>. QED
  BY <1>5, <1>6, <1>7, <1>8, <1>9, <1>10, <1>11 DEF RollInv

\* A refused call deletes the file of its name, if it can, and a number is never used again.
LEMMA RefusedStep ==
  ASSUME DeployIInv, RollInv, NEW d \in Names, file' = file \/ file' = Gone(d), calls' = calls + 1,
         UNCHANGED <<registry, network, disturbed, container, work>>
  PROVE  RollInv'
<1>0. file \in [Names -> States \cup {NoFile}] /\ calls \in Nat
  BY StateTypes DEF DeployIInv, DeployInv, TypeOK
<1>1. \A e \in Names : file'[e] # NoFile => file'[e] = file[e]
  BY <1>0 DEF Gone
<1>2. \A q \in Processes : Active(q)' <=> Active(q)
  BY DEF Active, At
<1>3. StateInv'
  BY DEF RollInv, StateInv, StateOK
<1>4. NamesInv'
  <2>1. \A r \in Runs, e \in Names : Claimed(r, e)' => Claimed(r, e)
    BY <1>1, <1>2 DEF Claimed
  <2>2. \A x \in network' : x.run \in Nat /\ x.run <= calls
    BY StateTypes DEF RollInv, NamesInv
  <2>3. \A e \in Names : file'[e] # NoFile => file'[e].name = e
    BY <1>1 DEF RollInv, NamesInv
  <2>4. NamesInv /\ calls' \in Nat /\ calls' >= calls
    BY <1>0 DEF RollInv
  <2>. QED
    BY <2>1, <2>2, <2>3, <2>4, NamesStep
<1>5. AloneInv' /\ NetworkInv'
  BY <1>2 DEF RollInv, AloneInv, NetworkInv
<1>6. BeforeInv'
  BY <1>1, <1>2 DEF RollInv, BeforeInv
<1>7. CallInv'
  BY <1>2 DEF RollInv, CallInv, At
<1>8. FileInv'
  BY <1>1, <1>2 DEF RollInv, FileInv
<1>. QED
  BY <1>3, <1>4, <1>5, <1>6, <1>7, <1>8 DEF RollInv

\* A rollback by a call of its own has what the file says, and disturbs the deployment
\* when another call is at it.
LEMMA RolledStep ==
  ASSUME DeployIInv, RollInv, NEW p \in Processes, NEW v, v = work'[p], Others(p), NEW d \in Names,
         file[d] # NoFile, v.st = file[d], v.at = "stop", ~Active(p), calls' = calls + 1,
         disturbed \subseteq disturbed',
         \A q \in Processes \ {p} : work[q].st.run = file[d].run => file[d].run \in disturbed',
         UNCHANGED <<registry, network, file, container>>
  PROVE  RollInv'
<1>0. /\ v.at \notin Deploying /\ v.at \notin Before /\ v.at \notin Behind /\ v.at # "forget" /\ Active(p)'
      /\ calls \in Nat /\ file[d].run \in Runs /\ file[d].name = d
  BY StateTypes DEF Active, At, Deploying, Before, Behind, RollInv, NamesInv
<1>1. \A q \in Processes : q # p => work'[q] = work[q] /\ (Active(q)' <=> Active(q))
  BY DEF Others, Active, At
<1>3. StateInv'
  BY <1>0 DEF RollInv, StateInv, StateOK, Others
<1>4. NamesInv'
  <2>1. \A r \in Runs, e \in Names : Claimed(r, e)' => Claimed(r, e)
    BY <1>0, <1>1 DEF Claimed
  <2>2. \A x \in network' : x.run \in Nat /\ x.run <= calls
    BY StateTypes DEF RollInv, NamesInv
  <2>3. NamesInv /\ calls' \in Nat /\ calls' >= calls
    BY <1>0 DEF RollInv
  <2>4. \A e \in Names : file'[e] # NoFile => file'[e].name = e
    BY DEF RollInv, NamesInv
  <2>. QED
    BY <2>1, <2>2, <2>3, <2>4, NamesStep
<1>5. AloneInv'
  <2>. SUFFICES ASSUME NEW q \in Processes, NEW o \in Processes, q # o, Active(q)', Active(o)',
                       work'[q].st.run = work'[o].st.run
                PROVE  /\ work'[q].st.run \in disturbed'
                       /\ ~(work'[q].at \in Deploying /\ work'[o].at \in Deploying)
    BY DEF AloneInv
  <2>1. CASE q = p \/ o = p
    BY <1>0, <1>1, <2>1
  <2>2. CASE q # p /\ o # p
    BY <1>1, <2>2 DEF RollInv, AloneInv
  <2>. QED
    BY <2>1, <2>2
<1>6. BeforeInv'
  <2>. SUFFICES ASSUME NEW q \in Processes, work'[q].at \in Before
                PROVE  /\ ~work'[q].cancelled => \A x \in network' : x.run # work'[q].st.run
                       /\ \A o \in Processes : Active(o)' /\ work'[o].st.run = work'[q].st.run => ~work'[o].st.net
                       /\ \A e \in Names : file'[e] # NoFile /\ file'[e].run = work'[q].st.run => ~file'[e].net
    BY DEF BeforeInv
  <2>1. q # p /\ work'[q] = work[q]
    BY <1>0, <1>1
  <2>. QED
    BY <1>1, <2>1 DEF RollInv, BeforeInv
<1>7. NetworkInv'
  BY <1>0, <1>1 DEF RollInv, NetworkInv
<1>8. CallInv'
  <2>. SUFFICES ASSUME NEW q \in Processes, Active(q)', work'[q].st.run \notin disturbed'
                PROVE  /\ \/ work'[q].st.net \/ (work'[q].cancelled /\ work'[q].st.phase = "network")
                          \/ \A y \in network' : y.run # work'[q].st.run
                       /\ \/ work'[q].st.range # {} /\ ~(At(q, "forget")' /\ ~work'[q].errs)
                          \/ work'[q].st.range = {} /\ work'[q].st.phase = "ports"
                          \/ \A a \in registry' : a.run # work'[q].st.run
    BY DEF CallInv
  <2>1. CASE q = p
    <3>1. file[d].run \notin disturbed /\ ~\E o \in Processes : Active(o) /\ work[o].st.run = file[d].run
      BY <2>1
    <3>2. /\ ~file[d].net => \A x \in network : x.run # file[d].run
          /\ file[d].range = {} => \A a \in registry : a.run # file[d].run
      BY <3>1 DEF RollInv, FileInv
    <3>. QED
      BY <1>0, <2>1, <3>2 DEF At
  <2>2. CASE q # p
    BY <1>1, <2>2 DEF RollInv, CallInv, At
  <2>. QED
    BY <2>1, <2>2
<1>9. FileInv'
  <2>1. \A q \in Processes : Active(q) => Active(q)' /\ work'[q].st.run = work[q].st.run
    BY <1>1
  <2>. QED
    BY <2>1 DEF RollInv, FileInv
<1>. QED
  BY <1>3, <1>4, <1>5, <1>6, <1>7, <1>8, <1>9 DEF RollInv

\* The network is removed, or the rollback has an error, or the command was killed.
LEMMA DeletedStep ==
  ASSUME DeployIInv, RollInv, NEW p \in Processes, NEW w, NEW v, w = work[p], v = work'[p], Others(p), Same(w, v),
         w.at = "rmnet", v.at \in {"rmnet", "rlock", "forget"}, v.at = "forget" => v.st.range = {},
         network' \subseteq network,
         v.at # "rmnet" /\ v.st.net /\ ~v.errs => /\ \A x \in network' : x.run # v.st.run
                                /\ \A i \in Index : container[i].running => container[i].run # v.st.run,
         UNCHANGED <<registry, file, disturbed, calls, container>>
  PROVE  RollInv'
<1>0. /\ w.at \notin Deploying /\ v.at \notin Deploying /\ v.at \notin Before
      /\ w.st.run \in Runs /\ Active(p) /\ Active(p)'
  BY StateTypes DEF Active, At, Deploying, Before, Behind
<1>1. \A q \in Processes : /\ Active(q)' <=> Active(q)
                           /\ work'[q].st.run = work[q].st.run /\ work'[q].st.name = work[q].st.name
                           /\ work'[q].st.net = work[q].st.net /\ work'[q].st.phase = work[q].st.phase
                           /\ work[q].cancelled => work'[q].cancelled
                           /\ q # p => work'[q] = work[q]
  BY <1>0 DEF Others, Same, Active, At
<1>3. StateInv'
  BY <1>0 DEF RollInv, StateInv, StateOK, Others
<1>4. NamesInv'
  <2>1. \A r \in Runs, d \in Names : Claimed(r, d)' => Claimed(r, d)
    BY <1>1 DEF Claimed
  <2>. QED
    BY <2>1, NamesStep, StateTypes DEF RollInv, NamesInv
<1>5. AloneInv'
  BY <1>0, <1>1 DEF RollInv, AloneInv
<1>6. BeforeInv'
  BY <1>0, <1>1 DEF RollInv, BeforeInv
<1>7. NetworkInv'
  BY <1>0, <1>1 DEF RollInv, NetworkInv, Behind
<1>8. CallInv'
  <2>. SUFFICES ASSUME NEW q \in Processes, Active(q)', work'[q].st.run \notin disturbed'
                PROVE  /\ \/ work'[q].st.net \/ (work'[q].cancelled /\ work'[q].st.phase = "network")
                          \/ \A y \in network' : y.run # work'[q].st.run
                       /\ \/ work'[q].st.range # {} /\ ~(At(q, "forget")' /\ ~work'[q].errs)
                          \/ work'[q].st.range = {} /\ work'[q].st.phase = "ports"
                          \/ \A a \in registry' : a.run # work'[q].st.run
    BY DEF CallInv
  <2>1. CASE q = p
    BY <1>0, <1>1, <2>1 DEF RollInv, CallInv, At, Same
  <2>2. CASE q # p
    BY <1>1, <2>2 DEF RollInv, CallInv, At
  <2>. QED
    BY <2>1, <2>2
<1>9. FileInv'
  BY <1>0, <1>1 DEF RollInv, FileInv
<1>. QED
  BY <1>3, <1>4, <1>5, <1>6, <1>7, <1>8, <1>9 DEF RollInv

\* The ranges of the name are released, those of the deployment among them.
LEMMA ReleasedStep ==
  ASSUME DeployIInv, RollInv, NEW p \in Processes, NEW w, NEW v, w = work[p], v = work'[p], Others(p), Same(w, v),
         w.at = "rsave", v.at = "forget", w.errs => v.errs,
         registry' = {a \in registry : a.name # w.st.name},
         UNCHANGED <<network, file, disturbed, calls, container>>
  PROVE  RollInv'
<1>0. /\ w.at \notin Deploying /\ v.at \notin Deploying /\ v.at \notin Before /\ w.at \in Behind
      /\ w.st.run \in Runs /\ w.st.name \in Names /\ Active(p) /\ Active(p)'
  BY StateTypes DEF Active, At, Deploying, Before, Behind
<1>1. \A q \in Processes : /\ Active(q)' <=> Active(q)
                           /\ work'[q].st.run = work[q].st.run /\ work'[q].st.name = work[q].st.name
                           /\ work'[q].st.net = work[q].st.net /\ work'[q].st.phase = work[q].st.phase
                           /\ work[q].cancelled => work'[q].cancelled
                           /\ q # p => work'[q] = work[q]
  BY <1>0 DEF Others, Same, Active, At
<1>3. StateInv'
  BY <1>0 DEF RollInv, StateInv, StateOK, Others
<1>4. NamesInv'
  <2>1. \A r \in Runs, d \in Names : Claimed(r, d)' => Claimed(r, d)
    BY <1>1 DEF Claimed
  <2>. QED
    BY <2>1, NamesStep, StateTypes DEF RollInv, NamesInv
<1>5. AloneInv'
  BY <1>0, <1>1 DEF RollInv, AloneInv
<1>6. BeforeInv'
  BY <1>0, <1>1 DEF RollInv, BeforeInv
<1>7. NetworkInv'
  BY <1>0, <1>1 DEF RollInv, NetworkInv
<1>8. CallInv'
  <2>. SUFFICES ASSUME NEW q \in Processes, Active(q)', work'[q].st.run \notin disturbed'
                PROVE  /\ \/ work'[q].st.net \/ (work'[q].cancelled /\ work'[q].st.phase = "network")
                          \/ \A y \in network' : y.run # work'[q].st.run
                       /\ \/ work'[q].st.range # {} /\ ~(At(q, "forget")' /\ ~work'[q].errs)
                          \/ work'[q].st.range = {} /\ work'[q].st.phase = "ports"
                          \/ \A a \in registry' : a.run # work'[q].st.run
    BY DEF CallInv
  <2>1. CASE q = p
    <3>1. ASSUME NEW a \in registry', a.run = w.st.run PROVE FALSE
      <4>1. a \in registry /\ a.name # w.st.name /\ a.name \in Names
        BY <3>1, StateTypes
      <4>2. Claimed(w.st.run, a.name) /\ Claimed(w.st.run, w.st.name)
        BY <1>0, <3>1, <4>1 DEF Claimed
      <4>. QED
        BY <1>0, <4>1, <4>2 DEF RollInv, NamesInv
    <3>. QED
      BY <1>0, <1>1, <2>1, <3>1 DEF RollInv, CallInv
  <2>2. CASE q # p
    BY <1>1, <2>2 DEF RollInv, CallInv, At
  <2>. QED
    BY <2>1, <2>2
<1>9. FileInv'
  BY <1>0, <1>1 DEF RollInv, FileInv
<1>. QED
  BY <1>3, <1>4, <1>5, <1>6, <1>7, <1>8, <1>9 DEF RollInv

\* A process replaces its own state.
LEMMA BecomeIs ==
  ASSUME DeployIInv, NEW p \in Processes, NEW u, Become(p, u)
  PROVE  work'[p] = u /\ Others(p)
BY DEF DeployIInv, DeployInv, TypeOK, Become, Others

\* No state of a deployment is the missing file.
LEMMA StatesAreFiles == ASSUME NEW st \in States PROVE st # NoFile
<1>1. st.run \in Runs /\ NoFile.run = 0
  BY DEF States, NoFile
<1>. QED
  BY <1>1, BoundsAssumption DEF Runs

\* Containers that do not start.
NoneStarts == \A i \in Index : container'[i].running => container'[i] = container[i]

\* A phase that fails, with or without a container left behind that does not run.
LEMMA FailStep ==
  ASSUME DeployIInv, RollInv, NEW p \in Processes, Active(p), Become(p, FailedAs(work[p])),
         UNCHANGED <<registry, file, network, disturbed, calls>>, NoneStarts
  PROVE  RollInv'
<1>. DEFINE w == work[p]
            v == FailedAs(w)
<1>1. w \in Works /\ w.at # "idle"
  BY OwnState DEF Active, At
<1>2. v.at = "stop" /\ v.st = w.st /\ v.cancelled = w.cancelled
  BY <1>1 DEF FailedAs, Works
<1>3. work'[p] = v /\ Others(p)
  BY BecomeIs
<1>. HIDE DEF v
<1>4. StateOK(v)
  BY <1>2 DEF StateOK, Deploying, Before
<1>. QED
  BY <1>1, <1>2, <1>3, <1>4, NeutralStep DEF NoneStarts, Same, Deploying, Before, Behind

\* The deployment up to its network.
LEMMA NetworkRoll ==
  ASSUME DeployIInv, RollInv, NEW p \in Processes, findAvailableSubnet(p) \/ CreateNetwork(p) \/ SaveNetwork(p)
  PROVE  RollInv'
<1>. DEFINE w == work[p]
<1>1. /\ Active(p) /\ w.at \in {"subnet", "network", "persist"} /\ w.at # "idle"
      /\ UNCHANGED <<registry, disturbed, calls, container>>
  BY DEF findAvailableSubnet, CreateNetwork, SaveNetwork, Active, At
<1>2. w \in Works /\ PlaceOK(w) /\ StateOK(w) /\ w.st \in States
  BY <1>1, StateTypes DEF RollInv, StateInv
<1>3. NoneStarts
  BY <1>1 DEF NoneStarts
<1>4. CASE findAvailableSubnet(p)
  <2>1. w.at = "subnet" /\ UNCHANGED <<file, network>>
    BY <1>4 DEF findAvailableSubnet, At
  <2>2. \/ Become(p, FailedAs(w))
        \/ \E s : Become(p, [w EXCEPT !.at = "network", !.subnet = s])
    BY <1>4 DEF findAvailableSubnet, Fail
  <2>3. ASSUME NEW s, Become(p, [w EXCEPT !.at = "network", !.subnet = s]) PROVE RollInv'
    <3>. DEFINE v == [w EXCEPT !.at = "network", !.subnet = s]
    <3>1. v.at = "network" /\ v.st = w.st /\ v.cancelled = w.cancelled
      BY <1>2 DEF Works
    <3>2. work'[p] = v /\ Others(p)
      BY <2>3, BecomeIs
    <3>. HIDE DEF v
    <3>3. StateOK(v)
      BY <1>2, <2>1, <3>1 DEF StateOK, Before, Deploying
    <3>. QED
      BY <1>1, <1>3, <2>1, <3>1, <3>2, <3>3, NeutralStep DEF NoneStarts, Same, Deploying, Before, Behind
  <2>. QED
    BY <1>1, <1>3, <2>1, <2>2, <2>3, FailStep
<1>5. CASE CreateNetwork(p)
  <2>1. w.at = "network" /\ UNCHANGED file
    BY <1>5 DEF CreateNetwork, At
  <2>. DEFINE x == [run |-> w.st.run, name |-> w.st.name, subnet |-> w.subnet]
              v == [w EXCEPT !.at = "persist", !.st.net = TRUE]
  <2>2. \/ Become(p, FailedAs(w)) /\ UNCHANGED network
        \/ Become(p, v) /\ network' = network \cup {x}
    BY <1>5 DEF CreateNetwork, Fail, WithNetwork
  <2>3. CASE Become(p, v) /\ network' = network \cup {x}
    <3>1. /\ v.at = "persist" /\ v.st.run = w.st.run /\ v.st.name = w.st.name /\ v.st.net
          /\ v.st.range = w.st.range /\ v.st.phase = w.st.phase
      BY <1>2 DEF Works, States
    <3>2. work'[p] = v /\ Others(p)
      BY <2>3, BecomeIs
    <3>3. x.run = w.st.run
      OBVIOUS
    <3>. HIDE DEF v, x
    <3>4. StateOK(v)
      BY <3>1 DEF StateOK, Before
    <3>. QED
      BY <1>1, <2>1, <2>3, <3>1, <3>2, <3>3, <3>4, CreatedStep
  <2>. QED
    BY <1>1, <1>3, <2>1, <2>2, <2>3, FailStep
<1>6. CASE SaveNetwork(p)
  <2>. DEFINE v == [w EXCEPT !.at = "lock", !.st.phase = "ports"]
  <2>1. /\ w.at = "persist" /\ UNCHANGED network /\ Become(p, v)
        /\ file' = Saved(w.st) \/ file' = file \/ file' = Gone(w.st.name)
    BY <1>2, <1>6, SaveResult DEF SaveNetwork, At
  <2>2. w.st.net /\ w.st # NoFile
    BY <1>2, <2>1, StatesAreFiles DEF StateOK, Deploying, Before
  <2>3. v.at = "lock" /\ v.st.run = w.st.run /\ v.st.name = w.st.name /\ v.st.net = w.st.net /\ v.st.phase = "ports"
    BY <1>2 DEF Works, States
  <2>4. work'[p] = v /\ Others(p)
    BY <2>1, BecomeIs
  <2>. HIDE DEF v
  <2>5. StateOK(v)
    BY <2>2, <2>3 DEF StateOK, Before
  <2>. QED
    BY <1>1, <2>1, <2>2, <2>3, <2>4, <2>5, SavingStep DEF Deploying, Before
<1>. QED
  BY <1>4, <1>5, <1>6

\* The allocation of the range.
LEMMA PortsRoll ==
  ASSUME DeployIInv, RollInv, NEW p \in Processes,
         Acquire(p) \/ LoadForAllocation(p) \/ SaveAllocation(p) \/ ValidatePortAvailability(p)
  PROVE  RollInv'
<1>. DEFINE w == work[p]
<1>1. /\ Active(p) /\ w.at # "idle" /\ UNCHANGED <<network, disturbed, calls, container>>
  BY DEF Acquire, LoadForAllocation, SaveAllocation, ValidatePortAvailability, Active, At
<1>2. w \in Works /\ PlaceOK(w) /\ StateOK(w) /\ w.st \in States
  BY <1>1, StateTypes DEF RollInv, StateInv
<1>3. NoneStarts
  BY <1>1 DEF NoneStarts
<1>4. CASE Acquire(p)
  <2>. DEFINE place == IF w.at = "lock" THEN "load" ELSE "rload"
              v == [w EXCEPT !.at = place]
  <2>1. w.at \in {"lock", "rlock"} /\ UNCHANGED <<registry, file>> /\ Become(p, v)
    BY <1>4 DEF Acquire, At, GoTo
  <2>2. v.at = place /\ v.st = w.st /\ v.errs = w.errs /\ v.cancelled = w.cancelled
    BY <1>2 DEF Works
  <2>3. work'[p] = v /\ Others(p)
    BY <2>1, BecomeIs
  <2>. HIDE DEF v
  <2>4. StateOK(v)
    BY <1>2, <2>1, <2>2 DEF StateOK, Before, Deploying
  <2>. QED
    BY <1>1, <1>3, <2>1, <2>2, <2>3, <2>4, NeutralStep DEF NoneStarts, Same, Deploying, Before, Behind
<1>5. CASE LoadForAllocation(p)
  <2>. DEFINE size == w.n * PortsPerValidator
              m(s) == [name |-> w.st.name, start |-> s, end |-> s + size - 1, run |-> w.st.run]
  <2>1. w.at = "load" /\ UNCHANGED <<registry, file>>
    BY <1>5 DEF LoadForAllocation, At
  <2>2. \/ Become(p, FailedAs(w))
        \/ \E s : Become(p, [w EXCEPT !.at = "save", !.seen = registry, !.mine = {m(s)}])
    BY <1>5 DEF LoadForAllocation, Fail
  <2>3. ASSUME NEW s, Become(p, [w EXCEPT !.at = "save", !.seen = registry, !.mine = {m(s)}]) PROVE RollInv'
    <3>1. m(s).run = w.st.run /\ m(s).name = w.st.name
      OBVIOUS
    <3>. DEFINE ms == m(s)
                v == [w EXCEPT !.at = "save", !.seen = registry, !.mine = {ms}]
    <3>2. work'[p] = v /\ Others(p)
      BY <2>3, BecomeIs
    <3>3. ms.run = w.st.run /\ ms.name = w.st.name
      BY <3>1
    <3>. HIDE DEF ms
    <3>4. v.at = "save" /\ v.st = w.st /\ v.mine = {ms} /\ v.cancelled = w.cancelled
      BY <1>2 DEF Works
    <3>. HIDE DEF v
    <3>5. StateOK(v)
      BY <1>2, <2>1, <3>3, <3>4 DEF StateOK, Before, Deploying
    <3>. QED
      BY <1>1, <1>3, <2>1, <3>2, <3>4, <3>5, NeutralStep DEF NoneStarts, Same, Deploying, Before, Behind
  <2>. QED
    BY <1>1, <1>3, <2>1, <2>2, <2>3, FailStep
<1>6. CASE SaveAllocation(p)
  <2>. DEFINE v == [w EXCEPT !.at = "check", !.seen = {}]
  <2>1. w.at = "save" /\ UNCHANGED file /\ Become(p, v) /\ registry' = w.seen \cup w.mine
    BY <1>6 DEF SaveAllocation, At
  <2>2. w.seen = registry
    BY <2>1 DEF DeployIInv, DeployInv, LockInv, At
  <2>3. \A a \in w.mine : a.run = w.st.run /\ a.name = w.st.name
    BY <1>2, <2>1 DEF StateOK
  <2>4. v.at = "check" /\ v.st = w.st /\ v.cancelled = w.cancelled
    BY <1>2 DEF Works
  <2>5. work'[p] = v /\ Others(p)
    BY <2>1, BecomeIs
  <2>. HIDE DEF v
  <2>6. StateOK(v)
    BY <1>2, <2>1, <2>4 DEF StateOK, Before, Deploying
  <2>. QED
    BY <1>1, <2>1, <2>2, <2>3, <2>4, <2>5, <2>6, AllocatedStep DEF Same
<1>7. CASE ValidatePortAvailability(p)
  <2>. DEFINE st == [w.st EXCEPT !.range = w.mine]
              v == [w EXCEPT !.at = "image", !.st = [st EXCEPT !.phase = "image"]]
  <2>1. w.at = "check" /\ UNCHANGED registry
    BY <1>7 DEF ValidatePortAvailability, At
  <2>2. \/ Become(p, FailedAs(w)) /\ UNCHANGED file
        \/ Become(p, v) /\ saveState(st, w.broken)
    BY <1>7 DEF ValidatePortAvailability, Fail
  <2>3. CASE Become(p, v) /\ saveState(st, w.broken)
    <3>1. w.st.net /\ w.mine # {} /\ w.mine \subseteq Allocations
      BY <1>2, <2>1 DEF StateOK, PlaceOK, Deploying, Before, Works
    <3>2. /\ st \in States /\ st.run = w.st.run /\ st.name = w.st.name /\ st.net = w.st.net /\ st.range = w.mine
      BY <1>2, <3>1 DEF States
    <3>3. work'[p] = v /\ Others(p)
      BY <2>3, BecomeIs
    <3>. HIDE DEF st
    <3>6. file' = Saved(st) \/ file' = file \/ file' = Gone(st.name)
      BY <2>3, <3>2, SaveResult
    <3>4. /\ v.at = "image" /\ v.st.run = st.run /\ v.st.name = st.name /\ v.st.net = st.net /\ v.st.range = st.range
      BY <1>2, <3>2 DEF Works, States
    <3>. HIDE DEF v
    <3>5. StateOK(v) /\ st # NoFile
      BY <3>1, <3>2, <3>4, StatesAreFiles DEF StateOK, Before
    <3>. QED
      BY <1>1, <2>1, <2>3, <3>1, <3>2, <3>3, <3>4, <3>5, <3>6, SavingStep DEF Deploying, Before
  <2>. QED
    BY <1>1, <1>3, <2>1, <2>2, <2>3, FailStep
<1>. QED
  BY <1>4, <1>5, <1>6, <1>7

\* The image, the containers and the end of the deployment.
LEMMA StartRoll ==
  ASSUME DeployIInv, RollInv, NEW p \in Processes,
         phasePullImage(p) \/ IsRunning(p) \/ removeContainer(p) \/ StartWithConfig(p) \/ finalizeDeployment(p)
  PROVE  RollInv'
<1>. DEFINE w == work[p]
<1>1. /\ Active(p) /\ w.at \in {"image", "inspect", "remove", "run"} /\ w.at # "idle"
      /\ UNCHANGED <<registry, network, calls>> /\ (~finalizeDeployment(p) => UNCHANGED disturbed)
  BY DEF phasePullImage, IsRunning, removeContainer, StartWithConfig, finalizeDeployment, Active, At
<1>2. /\ w \in Works /\ PlaceOK(w) /\ StateOK(w) /\ w.st \in States /\ w.st # NoFile
      /\ container \in [Index -> Containers]
  BY <1>1, StateTypes, StatesAreFiles DEF RollInv, StateInv, DeployIInv, DeployInv, TypeOK
<1>3. w.st.net /\ w.st.range # {}
  BY <1>1, <1>2 DEF StateOK, PlaceOK, Deploying, Before
<1>4. CASE phasePullImage(p)
  <2>. DEFINE v == [w EXCEPT !.at = "inspect", !.st.phase = "starting"]
  <2>1. /\ UNCHANGED <<container, disturbed>>
        /\ \/ Become(p, FailedAs(w)) /\ UNCHANGED file
           \/ Become(p, v) /\ saveState(w.st, w.broken)
    BY <1>4 DEF phasePullImage, Fail
  <2>2. CASE Become(p, v) /\ saveState(w.st, w.broken)
    <3>4. file' = Saved(w.st) \/ file' = file \/ file' = Gone(w.st.name)
      BY <1>2, <2>2, SaveResult
    <3>1. /\ v.at = "inspect" /\ v.st.run = w.st.run /\ v.st.name = w.st.name /\ v.st.net = w.st.net
          /\ v.st.range = w.st.range
      BY <1>2 DEF Works, States
    <3>2. work'[p] = v /\ Others(p)
      BY <2>2, BecomeIs
    <3>. HIDE DEF v
    <3>3. StateOK(v)
      BY <1>3, <3>1 DEF StateOK, Before
    <3>. QED
      BY <1>1, <1>2, <1>3, <2>1, <2>2, <3>1, <3>2, <3>3, <3>4, SavingStep DEF Deploying, Before
  <2>3. NoneStarts
    BY <2>1 DEF NoneStarts
  <2>. QED
    BY <1>1, <2>1, <2>2, <2>3, FailStep
<1>5. ASSUME NEW place \in {"remove", "run"}, Become(p, [w EXCEPT !.at = place]), UNCHANGED <<file, disturbed>>, NoneStarts
      PROVE  RollInv'
  <2>. DEFINE v == [w EXCEPT !.at = place]
  <2>1. v.at = place /\ v.st = w.st /\ v.cancelled = w.cancelled
    BY <1>2 DEF Works
  <2>2. work'[p] = v /\ Others(p)
    BY <1>5, BecomeIs
  <2>. HIDE DEF v
  <2>3. StateOK(v)
    BY <1>3, <2>1 DEF StateOK, Before
  <2>. QED
    BY <1>1, <1>5, <2>1, <2>2, <2>3, NeutralStep DEF NoneStarts, Same, Deploying, Before, Behind
<1>6. CASE IsRunning(p)
  <2>1. UNCHANGED <<file, container, disturbed>> /\ (Become(p, FailedAs(w)) \/ Become(p, [w EXCEPT !.at = "remove"]))
    BY <1>6 DEF IsRunning, Fail, GoTo
  <2>2. NoneStarts
    BY <2>1 DEF NoneStarts
  <2>. QED
    BY <1>1, <1>5, <2>1, <2>2, FailStep
<1>7. CASE removeContainer(p)
  <2>1. /\ UNCHANGED <<file, disturbed>> /\ Become(p, [w EXCEPT !.at = "run"])
        /\ container' = container \/ container' = [container EXCEPT ![w.i] = NoContainer]
    BY <1>7 DEF removeContainer, GoTo
  <2>2. NoneStarts
    BY <1>2, <2>1 DEF NoneStarts, NoContainer
  <2>. QED
    BY <1>5, <2>1, <2>2
<1>8. CASE StartWithConfig(p)
  <2>. DEFINE v == [w EXCEPT !.at = "inspect", !.i = w.i + 1, !.st.started = @ \cup {w.i}]
  <2>1. /\ w.at = "run" /\ At(p, "run") /\ UNCHANGED <<file, disturbed>>
        /\ \/ Become(p, FailedAs(w)) /\ UNCHANGED container
           \/ Become(p, FailedAs(w)) /\ container' = WithContainer(w) /\ Conflict(w)
           \/ Become(p, v) /\ container' = WithContainer(w) /\ ~Refused(w)
    BY <1>8 DEF StartWithConfig, Fail, At
  <2>2. CASE Become(p, FailedAs(w)) /\ (UNCHANGED container \/ (container' = WithContainer(w) /\ Conflict(w)))
    <3>1. NoneStarts
      BY <2>1, <2>2, RunTypes DEF NoneStarts
    <3>. QED
      BY <1>1, <2>1, <2>2, <3>1, FailStep
  <2>3. CASE Become(p, v) /\ container' = WithContainer(w) /\ ~Refused(w)
    <3>1. /\ v.at = "inspect" /\ v.st.run = w.st.run /\ v.st.name = w.st.name /\ v.st.net = w.st.net
          /\ v.st.range = w.st.range /\ v.st.phase = w.st.phase /\ v.cancelled = w.cancelled
      BY <1>2 DEF Works, States
    <3>2. work'[p] = v /\ Others(p)
      BY <2>3, BecomeIs
    <3>. HIDE DEF v
    <3>3. StateOK(v)
      BY <1>3, <3>1 DEF StateOK, Before
    <3>4. \A i \in Index : container'[i].running =>
            \/ container'[i] = container[i]
            \/ container'[i].run = w.st.run /\ \E x \in network : x.run = w.st.run
      BY <2>1, <2>3, RunTypes DEF Refused
    <3>. QED
      BY <1>1, <2>1, <3>1, <3>2, <3>3, <3>4, NeutralStep DEF Same, Deploying, Before, Behind
  <2>. QED
    BY <2>1, <2>2, <2>3
<1>9. CASE finalizeDeployment(p)
  <2>. DEFINE st == [w.st EXCEPT !.phase = "running"]
  <2>1. /\ UNCHANGED container /\ Become(p, Idle) /\ w.at = "inspect" /\ disturbed \subseteq disturbed'
        /\ \/ file' = file /\ w.st.run \in disturbed'
           \/ file' = Gone(w.st.name)
           \/ file' = Saved(w.st) \/ file' = Saved(st)
    BY <1>9 DEF finalizeDeployment, At
  <2>2. /\ st \in States /\ st.run = w.st.run /\ st.name = w.st.name /\ st.net = w.st.net /\ st.range = w.st.range
    BY <1>2 DEF States
  <2>3. work'[p] = Idle /\ Others(p) /\ Idle.at = "idle"
    BY <2>1, BecomeIs, IdleIsOK
  <2>. HIDE DEF st
  <2>4. st # NoFile
    BY <2>2, StatesAreFiles
  <2>5. \/ file' = file /\ w.st.run \in disturbed'
        \/ file' = [file EXCEPT ![w.st.name] = NoFile]
        \/ \E fs : /\ file' = [file EXCEPT ![w.st.name] = fs] /\ fs # NoFile
                    /\ fs.run = w.st.run /\ fs.name = w.st.name /\ fs.net /\ fs.range # {}
    BY <1>2, <1>3, <2>1, <2>2, <2>4 DEF Saved, Gone
  <2>. QED
    BY <1>1, <2>1, <2>3, <2>5, EndedStep DEF Deploying, Before
<1>. QED
  BY <1>4, <1>6, <1>7, <1>8, <1>9

\* The steps of a rollback.
LEMMA RollbackRoll ==
  ASSUME DeployIInv, RollInv, NEW p \in Processes,
         StopContainers(p) \/ DeleteNetwork(p) \/ LoadForRelease(p) \/ SaveRelease(p) \/ deleteState(p)
  PROVE  RollInv'
<1>. DEFINE w == work[p]
<1>1. Active(p) /\ w.at # "idle" /\ UNCHANGED calls
  BY DEF StopContainers, DeleteNetwork, LoadForRelease, SaveRelease, deleteState, Active, At
<1>2. /\ w \in Works /\ PlaceOK(w) /\ StateOK(w) /\ w.st \in States
      /\ container \in [Index -> Containers]
  BY <1>1, StateTypes DEF RollInv, StateInv, DeployIInv, DeployInv, TypeOK
<1>3. CASE StopContainers(p)
  <2>1. /\ w.at = "stop" /\ UNCHANGED <<registry, file, network, disturbed>>
        /\ \E e : Become(p, [w EXCEPT !.at = "rmnet", !.errs = e])
    BY <1>3 DEF StopContainers, At
  <2>2. PICK e : Become(p, [w EXCEPT !.at = "rmnet", !.errs = e])
    BY <2>1
  <2>. DEFINE v == [w EXCEPT !.at = "rmnet", !.errs = e]
  <2>3. v.at = "rmnet" /\ v.st = w.st /\ v.cancelled = w.cancelled
    BY <1>2 DEF Works
  <2>4. work'[p] = v /\ Others(p)
    BY <2>2, BecomeIs
  <2>. HIDE DEF v
  <2>5. StateOK(v)
    BY <2>3 DEF StateOK, Deploying, Before
  <2>6. NoneStarts
    BY <1>2, <1>3 DEF StopContainers, NoneStarts, NoContainer
  <2>. QED
    BY <1>1, <2>1, <2>3, <2>4, <2>5, <2>6, NeutralStep DEF NoneStarts, Same, Deploying, Before, Behind
<1>4. CASE DeleteNetwork(p)
  <2>. DEFINE removed == ~w.cancelled /\ ~Attached(w) /\ WithoutNetwork(w) # network
              then == IF w.st.range # {} THEN "rlock" ELSE "forget"
  <2>1. w.at = "rmnet" /\ UNCHANGED <<registry, file, disturbed, container>>
    BY <1>4 DEF DeleteNetwork, At
  <2>2. CASE ~w.st.net
    <3>. DEFINE v == [w EXCEPT !.at = then]
    <3>1. Become(p, v) /\ UNCHANGED network
      BY <1>4, <2>2 DEF DeleteNetwork, GoTo
    <3>2. v.at = then /\ v.st = w.st /\ v.cancelled = w.cancelled
      BY <1>2 DEF Works
    <3>3. work'[p] = v /\ Others(p)
      BY <3>1, BecomeIs
    <3>. HIDE DEF v
    <3>. QED
      BY <1>1, <2>1, <2>2, <3>1, <3>2, <3>3, DeletedStep DEF Same
  <2>3. CASE w.st.net
    <3>. DEFINE v == [w EXCEPT !.at = then, !.errs = w.errs \/ ~removed]
    <3>1. Become(p, v) /\ network' = (IF removed THEN WithoutNetwork(w) ELSE network)
      BY <1>4, <2>3 DEF DeleteNetwork
    <3>2. v.at = then /\ v.st = w.st /\ v.errs = (w.errs \/ ~removed) /\ v.cancelled = w.cancelled
      BY <1>2 DEF Works
    <3>3. work'[p] = v /\ Others(p)
      BY <3>1, BecomeIs
    <3>4. ~v.errs => /\ \A x \in network' : x.run # w.st.run
                     /\ \A i \in Index : container[i].running => container[i].run # w.st.run
      BY <3>1, <3>2 DEF Attached, WithoutNetwork
    <3>5. network' \subseteq network
      BY <3>1 DEF WithoutNetwork
    <3>. HIDE DEF v
    <3>. QED
      BY <1>1, <2>1, <3>2, <3>3, <3>4, <3>5, DeletedStep DEF Same
  <2>. QED
    BY <2>2, <2>3
<1>5. CASE LoadForRelease(p)
  <2>1. w.at = "rload" /\ UNCHANGED <<registry, file, network, disturbed, container>>
    BY <1>5 DEF LoadForRelease, At
  <2>2. PICK v : /\ Become(p, v)
                 /\ \/ v = [w EXCEPT !.at = "forget", !.errs = TRUE]
                    \/ \E kept : v = [w EXCEPT !.at = "rsave", !.seen = kept]
    BY <1>5 DEF LoadForRelease
  <2>3. v.st = w.st /\ v.cancelled = w.cancelled /\ ((v.at = "forget" /\ v.errs) \/ (v.at = "rsave" /\ v.errs = w.errs))
    <3>1. CASE v = [w EXCEPT !.at = "forget", !.errs = TRUE]
      BY <1>2, <3>1 DEF Works
    <3>2. ASSUME NEW kept, v = [w EXCEPT !.at = "rsave", !.seen = kept] PROVE v.st = w.st /\ v.at = "rsave" /\ v.errs = w.errs /\ v.cancelled = w.cancelled
      BY <1>2, <3>2 DEF Works
    <3>. QED
      BY <2>2, <3>1, <3>2
  <2>4. work'[p] = v /\ Others(p)
    BY <2>2, BecomeIs
  <2>5. StateOK(v)
    BY <2>3 DEF StateOK, Deploying, Before
  <2>6. NoneStarts
    BY <2>1 DEF NoneStarts
  <2>. QED
    BY <1>1, <2>1, <2>3, <2>4, <2>5, <2>6, NeutralStep DEF NoneStarts, Same, Deploying, Before, Behind
<1>6. CASE SaveRelease(p)
  <2>. DEFINE v == [w EXCEPT !.at = "forget", !.seen = {}]
  <2>1. w.at = "rsave" /\ UNCHANGED <<file, network, disturbed, container>> /\ Become(p, v) /\ registry' = w.seen
    BY <1>6 DEF SaveRelease, At
  <2>2. w.seen = {a \in registry : a.name # w.st.name}
    BY <2>1 DEF DeployIInv, DeployInv, LockInv, At
  <2>3. v.at = "forget" /\ v.st = w.st /\ v.errs = w.errs /\ v.cancelled = w.cancelled
    BY <1>2 DEF Works
  <2>4. work'[p] = v /\ Others(p)
    BY <2>1, BecomeIs
  <2>. HIDE DEF v
  <2>. QED
    BY <1>1, <2>1, <2>2, <2>3, <2>4, ReleasedStep DEF Same
<1>7. CASE deleteState(p)
  <2>1. UNCHANGED <<registry, network, container>> /\ Become(p, Idle)
    BY <1>7 DEF deleteState
  <2>2. work'[p] = Idle /\ Others(p) /\ Idle.at = "idle"
    BY <2>1, BecomeIs, IdleIsOK
  <2>3. /\ disturbed \subseteq disturbed'
        /\ \/ file' = file /\ w.st.run \in disturbed'
           \/ file' = [file EXCEPT ![w.st.name] = NoFile]
    BY <1>7 DEF deleteState, Gone
  <2>. QED
    BY <1>1, <2>1, <2>2, <2>3, EndedStep
<1>. QED
  BY <1>3, <1>4, <1>5, <1>6, <1>7

\* The containers that a command killed with the context may leave.
LEMMA CarriedContainers ==
  ASSUME DeployIInv, NEW p \in Processes, CarriedOut(p)
  PROVE  \/ UNCHANGED container
         \/ At(p, "run") /\ ~Refused(work[p]) /\ container' = WithContainer(work[p])
         \/ \A i \in Index :
              container'[i] = container[i] \/ (~container'[i].running /\ container'[i].run \in {container[i].run, 0})
<1>. DEFINE w == work[p]
<1>1. container \in [Index -> Containers] /\ NoContainer.run = 0 /\ ~NoContainer.running
  BY DEF DeployIInv, DeployInv, TypeOK, NoContainer
<1>2. CASE container' = [container EXCEPT ![w.i] = NoContainer]
  BY <1>1, <1>2
<1>3. CASE \E done \in SUBSET Mine(w), new \in {"stopped", "removed"} :
             container' = [i \in Index |->
               IF new = "removed" /\ i \in done THEN NoContainer
               ELSE IF i \in (IF new = "removed" THEN Mine(w) ELSE done) THEN [container[i] EXCEPT !.running = FALSE]
               ELSE container[i]]
  <2>1. \A i \in Index : /\ [container[i] EXCEPT !.running = FALSE].run = container[i].run
                         /\ ~[container[i] EXCEPT !.running = FALSE].running
    BY <1>1 DEF Containers
  <2>2. \A i \in Index : container'[i] \in {NoContainer, [container[i] EXCEPT !.running = FALSE], container[i]}
    BY <1>3
  <2>. QED
    BY <1>1, <2>1, <2>2
<1>. QED
  BY <1>2, <1>3 DEF CarriedOut

\* A context is done, and the command under way may be carried out.
LEMMA CancelRoll ==
  ASSUME DeployIInv, RollInv, NEW p \in Processes, Cancel(p)
  PROVE  RollInv'
<1>. DEFINE w == work[p]
            v == [w EXCEPT !.cancelled = TRUE]
<1>1. w \in Works /\ StateOK(w)
  BY OwnState DEF RollInv, StateInv
<1>2. w.at # "idle" /\ Become(p, v) /\ CarriedOut(p) /\ UNCHANGED <<registry, file, calls, disturbed>>
  BY DEF Cancel, At
<1>3. v.at = w.at /\ v.st = w.st /\ v.errs = w.errs /\ v.mine = w.mine /\ v.cancelled
  BY <1>1 DEF Works
<1>4. work'[p] = v /\ Others(p)
  BY <1>2, BecomeIs
<1>. HIDE DEF v
<1>5. StateOK(v) /\ Same(w, v)
  BY <1>1, <1>3 DEF StateOK, Same
<1>6. CASE UNCHANGED network
  <2>1. \A i \in Index : container'[i].running =>
          \/ container'[i] = container[i]
          \/ container'[i].run = w.st.run /\ \E x \in network : x.run = w.st.run
    <3>1. CASE At(p, "run") /\ ~Refused(w) /\ container' = WithContainer(w)
      BY <3>1, RunTypes DEF Refused
    <3>. QED
      BY <1>2, <3>1, CarriedContainers
  <2>. QED
    BY <1>2, <1>3, <1>4, <1>5, <1>6, <2>1, NeutralStep
<1>7. CASE At(p, "network") /\ network' = WithNetwork(w) /\ UNCHANGED container
  <2>. DEFINE x == [run |-> w.st.run, name |-> w.st.name, subnet |-> w.subnet]
  <2>1. network' = network \cup {x} /\ x.run = w.st.run
    BY <1>7 DEF WithNetwork
  <2>2. w.at = "network" /\ ~w.st.net
    BY <1>1, <1>7 DEF At, StateOK, Deploying, Before
  <2>. HIDE DEF x
  <2>. QED
    BY <1>2, <1>3, <1>4, <1>5, <1>7, <2>1, <2>2, CreatedStep DEF Same
<1>8. CASE At(p, "rmnet") /\ network' = WithoutNetwork(w) /\ UNCHANGED container
  <2>1. w.at = "rmnet" /\ network' \subseteq network
    BY <1>8 DEF At, WithoutNetwork
  <2>. QED
    BY <1>2, <1>3, <1>4, <1>5, <1>8, <2>1, DeletedStep
<1>. QED
  BY <1>2, <1>6, <1>7, <1>8 DEF CarriedOut

\* The calls and the faults.
LEMMA CallRoll ==
  ASSUME DeployIInv, RollInv, NEW p \in Processes,
         \/ \E d \in Names : DeployRefused(p, d) \/ Rollback(p, d) \/ \E n \in 1 .. MaxValidators : Deploy(p, d, n)
         \/ Kill(p) \/ Cancel(p)
  PROVE  RollInv'
<1>. DEFINE w == work[p]
<1>1. w \in Works /\ StateOK(w) /\ calls \in 0 .. MaxCalls
  BY OwnState DEF RollInv, StateInv, DeployIInv, DeployInv, TypeOK
<1>2. ASSUME NEW d \in Names, NEW n \in 1 .. MaxValidators, Deploy(p, d, n) PROVE RollInv'
  <2>. DEFINE st == [name |-> d, run |-> calls + 1, phase |-> "network", net |-> FALSE, range |-> {}, started |-> {}]
              fst == [st EXCEPT !.phase = "validating"]
  <2>0. PICK b \in BOOLEAN : /\ saveState(fst, b)
                             /\ Become(p, [Idle EXCEPT !.at = "subnet", !.st = st, !.n = n, !.broken = b])
    BY <1>2 DEF Deploy
  <2>. DEFINE v == [Idle EXCEPT !.at = "subnet", !.st = st, !.n = n, !.broken = b]
  <2>1. /\ ~Active(p) /\ calls < MaxCalls /\ calls' = calls + 1 /\ Become(p, v)
        /\ UNCHANGED <<registry, network, disturbed, container>>
    BY <1>2, <2>0 DEF Deploy, Active
  <2>2. calls + 1 \in Runs
    BY <1>1, <2>1, BoundsAssumption DEF Runs
  <2>3. st \in States /\ fst \in States
    BY <2>2 DEF States
  <2>4. /\ st.run = calls + 1 /\ st.name = d /\ st.net = FALSE /\ st.phase = "network"
        /\ fst.run = calls + 1 /\ fst.name = d /\ fst.net = FALSE
    OBVIOUS
  <2>. HIDE DEF st, fst
  <2>5. v.at = "subnet" /\ v.st = st
    BY DEF Idle
  <2>6. work'[p] = v /\ Others(p)
    BY <2>1, BecomeIs
  <2>7. fst # NoFile
    BY <2>3, StatesAreFiles
  <2>8. file' = Saved(fst) \/ file' = file \/ file' = Gone(d)
    BY <2>0, <2>3, <2>4, SaveResult
  <2>. HIDE DEF v
  <2>. QED
    BY <2>1, <2>2, <2>4, <2>5, <2>6, <2>7, <2>8, DeployedStep
<1>3. ASSUME NEW d \in Names, DeployRefused(p, d) PROVE RollInv'
  BY <1>3, RefusedStep DEF DeployRefused
<1>4. ASSUME NEW d \in Names, Rollback(p, d) PROVE RollInv'
  <2>0. PICK b \in BOOLEAN : Become(p, [Idle EXCEPT !.at = "stop", !.st = file[d], !.broken = b])
    BY <1>4 DEF Rollback
  <2>. DEFINE v == [Idle EXCEPT !.at = "stop", !.st = file[d], !.broken = b]
  <2>1. /\ ~Active(p) /\ file[d] # NoFile /\ calls' = calls + 1 /\ Become(p, v)
        /\ UNCHANGED <<registry, file, network, container>>
    BY <1>4, <2>0 DEF Rollback, Active
  <2>2. /\ disturbed \subseteq disturbed'
        /\ \A q \in Processes \ {p} : work[q].st.run = file[d].run => file[d].run \in disturbed'
    BY <1>4 DEF Rollback
  <2>3. v.at = "stop" /\ v.st = file[d]
    BY DEF Idle
  <2>4. work'[p] = v /\ Others(p)
    BY <2>1, BecomeIs
  <2>. HIDE DEF v
  <2>. QED
    BY <2>1, <2>2, <2>3, <2>4, RolledStep
<1>5. CASE Kill(p)
  <2>1. /\ w.at # "idle" /\ Become(p, Idle) /\ disturbed' = disturbed \cup {w.st.run}
        /\ UNCHANGED <<registry, file, network, container, calls>>
    BY <1>5 DEF Kill, At
  <2>2. work'[p] = Idle /\ Others(p) /\ Idle.at = "idle"
    BY <2>1, BecomeIs, IdleIsOK
  <2>. QED
    BY <2>1, <2>2, EndedStep
<1>6. CASE Cancel(p)
  BY <1>6, CancelRoll
<1>. QED
  BY <1>2, <1>3, <1>4, <1>5, <1>6

LEMMA InitRoll == Init => RollInv
<1>. SUFFICES ASSUME Init PROVE RollInv
  OBVIOUS
<1>1. \A p \in Processes : ~Active(p) /\ work[p].at = "idle"
  BY IdleIsOK DEF Init, Active, At
<1>2. \A d \in Names : file[d] = NoFile
  BY DEF Init
<1>3. registry = {} /\ network = {}
  BY DEF Init
<1>4. StateInv
  BY <1>1 DEF StateInv, StateOK, Deploying, Before
<1>5. NamesInv
  BY <1>1, <1>2, <1>3 DEF NamesInv, Claimed
<1>6. AloneInv /\ BeforeInv /\ NetworkInv /\ CallInv /\ FileInv
  BY <1>1, <1>2, <1>3 DEF AloneInv, BeforeInv, NetworkInv, CallInv, FileInv, Before, Behind
<1>. QED
  BY <1>4, <1>5, <1>6 DEF RollInv

LEMMA NextRoll == DeployIInv /\ RollInv /\ [Next]_vars => RollInv'
<1>. SUFFICES ASSUME DeployIInv, RollInv, [Next]_vars PROVE RollInv'
  OBVIOUS
<1>1. CASE UNCHANGED vars
  <2>1. /\ \A q \in Processes : Active(q)' <=> Active(q)
        /\ UNCHANGED <<registry, file, network, container, work, calls, disturbed>>
    BY <1>1 DEF vars, Active, At
  <2>2. StateInv' /\ AloneInv' /\ BeforeInv' /\ NetworkInv'
    BY <2>1 DEF RollInv, StateInv, StateOK, AloneInv, BeforeInv, NetworkInv
  <2>3. CallInv' /\ FileInv'
    BY <2>1 DEF RollInv, CallInv, FileInv, At
  <2>4. NamesInv'
    <3>1. \A r \in Runs, d \in Names : Claimed(r, d)' => Claimed(r, d)
      BY <2>1 DEF Claimed
    <3>. QED
      BY <2>1, <3>1, NamesStep, StateTypes DEF RollInv, NamesInv
  <2>. QED
    BY <2>2, <2>3, <2>4 DEF RollInv
<1>2. CASE Next
  <2>1. PICK p \in Processes :
          \/ Step(p)
          \/ \E d \in Names : DeployRefused(p, d) \/ Rollback(p, d) \/ \E n \in 1 .. MaxValidators : Deploy(p, d, n)
          \/ Kill(p) \/ Cancel(p)
    BY <1>2 DEF Next
  <2>2. CASE Step(p)
    BY <2>2, NetworkRoll, PortsRoll, StartRoll, RollbackRoll DEF Step
  <2>3. CASE ~Step(p)
    BY <2>1, <2>3, CallRoll
  <2>. QED
    BY <2>2, <2>3
<1>. QED
  BY <1>1, <1>2

-----------------------------------------------------------------------------
(* What a rollback leaves behind: the containers.                            *)

\* The containers of a deployment are those its state lists, until they are stopped, and
\* perhaps the one that docker run was asked for last.
Listed(w, c) ==
  \A i \in Index : c[i].run = w.st.run =>
    /\ w.st.net
    /\ \/ i \in w.st.started /\ (w.errs \/ w.at \in Deploying \cup {"stop"})
       \/ i = w.i /\ w.at \notin Deploying \ {"run"}
ListedInv ==
  /\ \A i \in Index : container[i].run <= calls
  /\ \A p \in Processes : Active(p) /\ work[p].st.run \notin disturbed => Listed(work[p], container)
  /\ \A d \in Names : file[d] # NoFile /\ file[d].run \notin disturbed =>
       \/ \E p \in Processes : Active(p) /\ work[p].st.run = file[d].run
       \/ \A i \in Index : container[i].run = file[d].run => file[d].net /\ i \in file[d].started

\* A step of a call that gives its number to containers and files only.
LEMMA ListedStep ==
  ASSUME DeployIInv, RollInv, ListedInv, NEW p \in Processes, NEW w, NEW v, w = work[p], v = work'[p], Others(p),
         w.at # "idle", v.at # "idle", v.st.run = w.st.run, UNCHANGED <<calls, disturbed>>,
         \A d \in Names : file'[d] = file[d] \/ file'[d] = NoFile \/ file'[d].run = w.st.run,
         \A i \in Index : container'[i].run \in {container[i].run, 0, w.st.run},
         Listed(w, container) => Listed(v, container')
  PROVE  ListedInv'
<1>1. w.st.run \in Runs /\ w.st.name \in Names /\ Active(p) /\ Active(p)' /\ calls \in Nat /\ Runs \subseteq Nat
  BY StateTypes DEF Active, At
<1>2. w.st.run <= calls
  BY <1>1 DEF RollInv, NamesInv, Claimed
<1>3. \A r \in Runs : r # 0
  BY BoundsAssumption DEF Runs
<1>4. \A i \in Index : container'[i].run <= calls'
  BY <1>1, <1>2 DEF ListedInv
<1>5. \A i \in Index, r \in Runs : container'[i].run = r /\ r # w.st.run => container[i].run = r
  BY <1>3
<1>6. ASSUME NEW q \in Processes, Active(q)', work'[q].st.run \notin disturbed'
      PROVE  Listed(work'[q], container')
  <2>1. CASE q = p
    BY <1>1, <1>6, <2>1 DEF ListedInv
  <2>2. CASE q # p
    <3>1. work'[q] = work[q] /\ Active(q)
      BY <1>6, <2>2 DEF Others, Active, At
    <3>2. work[q].st.run # w.st.run
      BY <1>1, <1>6, <2>2, <3>1 DEF RollInv, AloneInv
    <3>3. Listed(work[q], container) /\ work[q].st.run \in Runs
      BY <1>6, <3>1, StateTypes DEF ListedInv
    <3>. QED
      BY <1>5, <3>1, <3>2, <3>3 DEF Listed
  <2>. QED
    BY <2>1, <2>2
<1>7. ASSUME NEW d \in Names, file'[d] # NoFile, file'[d].run \notin disturbed'
      PROVE  \/ \E q \in Processes : Active(q)' /\ work'[q].st.run = file'[d].run
             \/ \A i \in Index : container'[i].run = file'[d].run => file'[d].net /\ i \in file'[d].started
  <2>1. CASE file'[d].run = w.st.run
    BY <1>1, <2>1
  <2>2. CASE file'[d].run # w.st.run
    <3>1. file'[d] = file[d] /\ file[d].run \in Runs
      BY <1>7, <2>2, StateTypes
    <3>2. \A q \in Processes : Active(q) /\ work[q].st.run = file[d].run => Active(q)' /\ work'[q].st.run = file[d].run
      BY <2>2, <3>1 DEF Others, Active, At
    <3>3. \/ \E q \in Processes : Active(q) /\ work[q].st.run = file[d].run
          \/ \A i \in Index : container[i].run = file[d].run => file[d].net /\ i \in file[d].started
      BY <1>7, <3>1 DEF ListedInv
    <3>. QED
      BY <1>5, <2>2, <3>1, <3>2, <3>3
  <2>. QED
    BY <2>1, <2>2
<1>. QED
  BY <1>4, <1>6, <1>7 DEF ListedInv

\* A call ends, and its file lists its containers unless the deployment is disturbed.
LEMMA ListedEnd ==
  ASSUME DeployIInv, RollInv, ListedInv, NEW p \in Processes, NEW w, w = work[p], Others(p),
         w.at # "idle", work'[p].at = "idle", UNCHANGED <<calls, container>>, disturbed \subseteq disturbed',
         \/ file' = file /\ w.st.run \in disturbed'
         \/ file' = Gone(w.st.name)
         \/ \E st \in States : /\ file' = Saved(st) /\ st.run = w.st.run /\ st.name = w.st.name /\ st.net = w.st.net
                               /\ st.started = w.st.started /\ w.at \in Deploying \ {"run"}
  PROVE  ListedInv'
<1>1. /\ w.st.run \in Runs /\ w.st.name \in Names /\ Active(p) /\ ~Active(p)'
      /\ file \in [Names -> States \cup {NoFile}]
  BY StateTypes DEF Active, At, DeployIInv, DeployInv, TypeOK
<1>2. \A q \in Processes : q # p => work'[q] = work[q] /\ (Active(q)' <=> Active(q))
  BY DEF Others, Active, At
<1>3. \A i \in Index : container'[i].run <= calls'
  BY DEF ListedInv
<1>4. \A q \in Processes : Active(q)' /\ work'[q].st.run \notin disturbed' => Listed(work'[q], container')
  BY <1>1, <1>2 DEF ListedInv, Listed
<1>5. ASSUME NEW d \in Names, file'[d] # NoFile, file'[d].run \notin disturbed'
      PROVE  \/ \E q \in Processes : Active(q)' /\ work'[q].st.run = file'[d].run
             \/ \A i \in Index : container'[i].run = file'[d].run => file'[d].net /\ i \in file'[d].started
  <2>1. CASE file'[d] = file[d] /\ file[d].run # w.st.run
    <3>1. \/ \E q \in Processes : Active(q) /\ work[q].st.run = file[d].run
          \/ \A i \in Index : container[i].run = file[d].run => file[d].net /\ i \in file[d].started
      BY <1>5, <2>1 DEF ListedInv
    <3>. QED
      BY <1>2, <2>1, <3>1
  <2>2. CASE file'[d] = file[d] /\ file[d].run = w.st.run
    <3>1. Claimed(w.st.run, d) /\ Claimed(w.st.run, w.st.name)
      BY <1>1, <1>5, <2>2 DEF Claimed
    <3>2. d = w.st.name
      BY <1>1, <3>1 DEF RollInv, NamesInv
    <3>3. PICK st \in States : /\ file' = Saved(st) /\ st.run = w.st.run /\ st.name = w.st.name /\ st.net = w.st.net
                               /\ st.started = w.st.started /\ w.at \in Deploying \ {"run"}
      BY <1>1, <1>5, <2>2, <3>2 DEF Gone
    <3>4. file'[d] = st
      BY <1>1, <3>2, <3>3 DEF Saved
    <3>5. Listed(w, container)
      BY <1>1, <1>5, <2>2 DEF ListedInv
    <3>. QED
      BY <3>3, <3>4, <3>5 DEF Listed
  <2>3. CASE file'[d] # file[d]
    <3>3. PICK st \in States : /\ file' = Saved(st) /\ st.run = w.st.run /\ st.name = w.st.name /\ st.net = w.st.net
                               /\ st.started = w.st.started /\ w.at \in Deploying \ {"run"}
      BY <1>1, <1>5, <2>3 DEF Gone
    <3>4. file'[d] = st
      BY <1>1, <2>3, <3>3 DEF Saved
    <3>5. Listed(w, container)
      BY <1>1, <1>5, <3>3, <3>4 DEF ListedInv
    <3>. QED
      BY <3>3, <3>4, <3>5 DEF Listed
  <2>. QED
    BY <2>1, <2>2, <2>3
<1>. QED
  BY <1>3, <1>4, <1>5 DEF ListedInv

\* Steps that start no container and keep what the state lists.
Keeps(w, v) ==
  /\ v.st.run = w.st.run /\ (w.st.net => v.st.net) /\ v.st.started = w.st.started /\ v.i = w.i
  /\ w.errs => v.errs
  /\ w.at \in Deploying \cup {"stop"} => v.at \in Deploying \cup {"stop"}
  /\ v.at \in Deploying \ {"run"} => w.at \in Deploying \ {"run"}
LEMMA KeepsStep ==
  ASSUME DeployIInv, RollInv, ListedInv, NEW p \in Processes, NEW v, Become(p, v), Active(p), v.at # "idle",
         Keeps(work[p], v), UNCHANGED <<calls, disturbed>>,
         \A d \in Names : file'[d] = file[d] \/ file'[d] = NoFile \/ file'[d].run = work[p].st.run,
         \A i \in Index : container'[i].run \in {container[i].run, 0}
  PROVE  ListedInv'
<1>1. work'[p] = v /\ Others(p)
  BY BecomeIs
<1>2. work[p].st.run \in Runs /\ \A r \in Runs : r # 0
  BY StateTypes, BoundsAssumption DEF Runs
<1>3. Listed(work[p], container) => Listed(v, container')
  BY <1>2 DEF Listed, Keeps
<1>. QED
  BY <1>1, <1>3, ListedStep DEF Keeps, Active, At

\* A phase that fails lists what it listed.
LEMMA FailKeeps ==
  ASSUME DeployIInv, NEW p \in Processes, work[p].at \in Deploying
  PROVE  Keeps(work[p], FailedAs(work[p])) /\ FailedAs(work[p]).at # "idle"
<1>. DEFINE w == work[p]
<1>1. w \in Works
  BY OwnState
<1>2. FailedAs(w).at = "stop" /\ FailedAs(w).st = w.st /\ FailedAs(w).i = w.i /\ FailedAs(w).errs = w.errs
  BY <1>1 DEF FailedAs, Works
<1>. QED
  BY <1>2 DEF Keeps, Deploying

\* What a save may do to the files.
LEMMA SavedFiles ==
  ASSUME DeployIInv, NEW st \in States, NEW b, saveState(st, b)
  PROVE  \A d \in Names : file'[d] = file[d] \/ file'[d] = NoFile \/ file'[d].run = st.run
<1>1. file \in [Names -> States \cup {NoFile}]
  BY DEF DeployIInv, DeployInv, TypeOK
<1>. QED
  BY <1>1, SaveResult DEF Saved, Gone

\* The deployment up to its containers.
LEMMA PhasesListed ==
  ASSUME DeployIInv, RollInv, ListedInv, NEW p \in Processes,
         \/ findAvailableSubnet(p) \/ CreateNetwork(p) \/ SaveNetwork(p)
         \/ Acquire(p) \/ LoadForAllocation(p) \/ SaveAllocation(p) \/ ValidatePortAvailability(p)
         \/ phasePullImage(p) \/ IsRunning(p)
  PROVE  ListedInv'
<1>. DEFINE w == work[p]
            Fails == w.at \in Deploying /\ Become(p, FailedAs(w)) /\ UNCHANGED file
<1>1. Active(p) /\ UNCHANGED <<container, calls, disturbed>>
  BY DEF findAvailableSubnet, CreateNetwork, SaveNetwork, Acquire, LoadForAllocation, SaveAllocation,
         ValidatePortAvailability, phasePullImage, IsRunning, Active, At
<1>2. w \in Works /\ w.st \in States
  BY <1>1, StateTypes
<1>3. \A i \in Index : container'[i].run \in {container[i].run, 0}
  BY <1>1
<1>4. CASE Fails
  BY <1>1, <1>3, <1>4, FailKeeps, KeepsStep
<1>5. ASSUME NEW v, Become(p, v), v.st = w.st, v.i = w.i, v.errs = w.errs, UNCHANGED file,
             \/ w.at = "subnet" /\ v.at = "network"
             \/ w.at = "lock" /\ v.at = "load"
             \/ w.at = "rlock" /\ v.at = "rload"
             \/ w.at = "load" /\ v.at = "save"
             \/ w.at = "save" /\ v.at = "check"
             \/ w.at = "inspect" /\ v.at = "remove"
      PROVE  ListedInv'
  <2>1. Keeps(w, v) /\ v.at # "idle"
    BY <1>5 DEF Keeps, Deploying
  <2>. QED
    BY <1>1, <1>3, <1>5, <2>1, KeepsStep
<1>6. CASE findAvailableSubnet(p)
  <2>1. CASE Become(p, FailedAs(w))
    BY <1>4, <1>6, <2>1 DEF findAvailableSubnet, At, Deploying
  <2>2. ASSUME NEW s, Become(p, [w EXCEPT !.at = "network", !.subnet = s]) PROVE ListedInv'
    <3>. DEFINE v == [w EXCEPT !.at = "network", !.subnet = s]
    <3>1. v.at = "network" /\ v.st = w.st /\ v.i = w.i /\ v.errs = w.errs
      BY <1>2 DEF Works
    <3>. HIDE DEF v
    <3>. QED
      BY <1>5, <1>6, <2>2, <3>1 DEF findAvailableSubnet, At, v
  <2>. QED
    BY <1>6, <2>1, <2>2 DEF findAvailableSubnet, Fail
<1>7. CASE CreateNetwork(p)
  <2>. DEFINE v == [w EXCEPT !.at = "persist", !.st.net = TRUE]
  <2>1. CASE Become(p, FailedAs(w))
    BY <1>4, <1>7, <2>1 DEF CreateNetwork, At, Deploying
  <2>2. CASE Become(p, v)
    <3>1. /\ v.at = "persist" /\ v.st.run = w.st.run /\ v.st.net /\ v.st.started = w.st.started /\ v.i = w.i
          /\ v.errs = w.errs
      BY <1>2 DEF Works, States
    <3>2. w.at = "network" /\ UNCHANGED file
      BY <1>7 DEF CreateNetwork, At
    <3>. HIDE DEF v
    <3>3. Keeps(w, v) /\ v.at # "idle"
      BY <3>1, <3>2 DEF Keeps, Deploying
    <3>. QED
      BY <1>1, <1>3, <2>2, <3>2, <3>3, KeepsStep
  <2>. QED
    BY <1>7, <2>1, <2>2 DEF CreateNetwork, Fail
<1>8. CASE SaveNetwork(p)
  <2>. DEFINE v == [w EXCEPT !.at = "lock", !.st.phase = "ports"]
  <2>1. w.at = "persist" /\ Become(p, v) /\ saveState(w.st, w.broken)
    BY <1>8 DEF SaveNetwork, At
  <2>2. /\ v.at = "lock" /\ v.st.run = w.st.run /\ v.st.net = w.st.net /\ v.st.started = w.st.started /\ v.i = w.i
        /\ v.errs = w.errs
    BY <1>2 DEF Works, States
  <2>. HIDE DEF v
  <2>3. Keeps(w, v) /\ v.at # "idle"
    BY <2>1, <2>2 DEF Keeps, Deploying
  <2>4. \A d \in Names : file'[d] = file[d] \/ file'[d] = NoFile \/ file'[d].run = w.st.run
    BY <1>2, <2>1, SavedFiles
  <2>. QED
    BY <1>1, <1>3, <2>1, <2>3, <2>4, KeepsStep
<1>9. CASE Acquire(p)
  <2>. DEFINE place == IF w.at = "lock" THEN "load" ELSE "rload"
              v == [w EXCEPT !.at = place]
  <2>1. w.at \in {"lock", "rlock"} /\ UNCHANGED file /\ Become(p, v)
    BY <1>9 DEF Acquire, At, GoTo
  <2>2. v.at = place /\ v.st = w.st /\ v.errs = w.errs /\ v.i = w.i
    BY <1>2 DEF Works
  <2>. HIDE DEF v
  <2>. QED
    BY <1>5, <2>1, <2>2
<1>10. CASE LoadForAllocation(p)
  <2>1. w.at = "load" /\ UNCHANGED file
    BY <1>10 DEF LoadForAllocation, At
  <2>2. CASE Become(p, FailedAs(w))
    BY <1>4, <2>1, <2>2 DEF Deploying
  <2>3. ASSUME NEW m, Become(p, [w EXCEPT !.at = "save", !.seen = registry, !.mine = m]) PROVE ListedInv'
    <3>. DEFINE v == [w EXCEPT !.at = "save", !.seen = registry, !.mine = m]
    <3>1. v.at = "save" /\ v.st = w.st /\ v.i = w.i /\ v.errs = w.errs
      BY <1>2 DEF Works
    <3>2. Become(p, v)
      BY <2>3
    <3>. HIDE DEF v
    <3>. QED
      BY <1>5, <2>1, <3>1, <3>2
  <2>4. \/ Become(p, FailedAs(w))
        \/ \E m : Become(p, [w EXCEPT !.at = "save", !.seen = registry, !.mine = m])
    BY <1>10 DEF LoadForAllocation, Fail
  <2>. QED
    BY <2>2, <2>3, <2>4
<1>11. CASE SaveAllocation(p)
  <2>. DEFINE v == [w EXCEPT !.at = "check", !.seen = {}]
  <2>1. w.at = "save" /\ UNCHANGED file /\ Become(p, v)
    BY <1>11 DEF SaveAllocation, At
  <2>2. v.at = "check" /\ v.st = w.st /\ v.i = w.i /\ v.errs = w.errs
    BY <1>2 DEF Works
  <2>. HIDE DEF v
  <2>. QED
    BY <1>5, <2>1, <2>2
<1>12. CASE ValidatePortAvailability(p)
  <2>. DEFINE st == [w.st EXCEPT !.range = w.mine]
              v == [w EXCEPT !.at = "image", !.st = [st EXCEPT !.phase = "image"]]
  <2>1. w.at = "check" /\ ((Become(p, FailedAs(w)) /\ UNCHANGED file) \/ (Become(p, v) /\ saveState(st, w.broken)))
    BY <1>12 DEF ValidatePortAvailability, Fail, At
  <2>2. CASE Become(p, FailedAs(w)) /\ UNCHANGED file
    BY <1>4, <2>1, <2>2 DEF Deploying
  <2>3. CASE Become(p, v) /\ saveState(st, w.broken)
    <3>1. w.mine \subseteq Allocations
      BY <1>2 DEF Works
    <3>2. st \in States /\ st.run = w.st.run /\ st.net = w.st.net /\ st.started = w.st.started
      BY <1>2, <3>1 DEF States
    <3>. HIDE DEF st
    <3>3. /\ v.at = "image" /\ v.st.run = st.run /\ v.st.net = st.net /\ v.st.started = st.started /\ v.i = w.i
          /\ v.errs = w.errs
      BY <1>2, <3>2 DEF Works, States
    <3>4. \A d \in Names : file'[d] = file[d] \/ file'[d] = NoFile \/ file'[d].run = w.st.run
      BY <2>3, <3>2, SavedFiles
    <3>. HIDE DEF v
    <3>5. Keeps(w, v) /\ v.at # "idle"
      BY <2>1, <3>2, <3>3 DEF Keeps, Deploying
    <3>. QED
      BY <1>1, <1>3, <2>3, <3>4, <3>5, KeepsStep
  <2>. QED
    BY <2>1, <2>2, <2>3
<1>13. CASE phasePullImage(p)
  <2>. DEFINE v == [w EXCEPT !.at = "inspect", !.st.phase = "starting"]
  <2>1. w.at = "image" /\ ((Become(p, FailedAs(w)) /\ UNCHANGED file) \/ (Become(p, v) /\ saveState(w.st, w.broken)))
    BY <1>13 DEF phasePullImage, Fail, At
  <2>2. CASE Become(p, FailedAs(w)) /\ UNCHANGED file
    BY <1>4, <2>1, <2>2 DEF Deploying
  <2>3. CASE Become(p, v) /\ saveState(w.st, w.broken)
    <3>1. /\ v.at = "inspect" /\ v.st.run = w.st.run /\ v.st.net = w.st.net /\ v.st.started = w.st.started /\ v.i = w.i
          /\ v.errs = w.errs
      BY <1>2 DEF Works, States
    <3>2. \A d \in Names : file'[d] = file[d] \/ file'[d] = NoFile \/ file'[d].run = w.st.run
      BY <1>2, <2>3, SavedFiles
    <3>. HIDE DEF v
    <3>3. Keeps(w, v) /\ v.at # "idle"
      BY <2>1, <3>1 DEF Keeps, Deploying
    <3>. QED
      BY <1>1, <1>3, <2>3, <3>2, <3>3, KeepsStep
  <2>. QED
    BY <2>1, <2>2, <2>3
<1>14. CASE IsRunning(p)
  <2>. DEFINE v == [w EXCEPT !.at = "remove"]
  <2>1. w.at = "inspect" /\ UNCHANGED file /\ (Become(p, FailedAs(w)) \/ Become(p, v))
    BY <1>14 DEF IsRunning, Fail, GoTo, At
  <2>2. v.at = "remove" /\ v.st = w.st /\ v.i = w.i /\ v.errs = w.errs
    BY <1>2 DEF Works
  <2>. HIDE DEF v
  <2>. QED
    BY <1>4, <1>5, <2>1, <2>2 DEF Deploying
<1>. QED
  BY <1>6, <1>7, <1>8, <1>9, <1>10, <1>11, <1>12, <1>13, <1>14

\* The containers and the end of the deployment.
LEMMA StartListed ==
  ASSUME DeployIInv, RollInv, ListedInv, NEW p \in Processes,
         removeContainer(p) \/ StartWithConfig(p) \/ finalizeDeployment(p)
  PROVE  ListedInv'
<1>. DEFINE w == work[p]
<1>1. /\ Active(p) /\ w.at \in {"inspect", "remove", "run"} /\ UNCHANGED calls
  BY DEF removeContainer, StartWithConfig, finalizeDeployment, Active, At
<1>2. w \in Works /\ w.st \in States /\ w.st.net /\ container \in [Index -> Containers] /\ NoContainer.run = 0
  BY <1>1, StateTypes DEF RollInv, StateInv, StateOK, Deploying, Before, DeployIInv, DeployInv, TypeOK, NoContainer
<1>3. CASE removeContainer(p)
  <2>. DEFINE v == [w EXCEPT !.at = "run"]
  <2>1. /\ w.at = "remove" /\ UNCHANGED <<file, disturbed>> /\ Become(p, v)
        /\ container' = container \/ container' = [container EXCEPT ![w.i] = NoContainer]
    BY <1>3 DEF removeContainer, GoTo, At
  <2>2. v.at = "run" /\ v.st = w.st /\ v.i = w.i /\ v.errs = w.errs
    BY <1>2 DEF Works
  <2>. HIDE DEF v
  <2>3. Keeps(w, v) /\ v.at # "idle"
    BY <2>1, <2>2 DEF Keeps, Deploying
  <2>4. \A i \in Index : container'[i].run \in {container[i].run, 0}
    BY <1>2, <2>1
  <2>. QED
    BY <1>1, <2>1, <2>3, <2>4, KeepsStep
<1>4. CASE StartWithConfig(p)
  <2>. DEFINE v == [w EXCEPT !.at = "inspect", !.i = w.i + 1, !.st.started = @ \cup {w.i}]
  <2>1. /\ w.at = "run" /\ At(p, "run") /\ UNCHANGED <<file, disturbed>>
        /\ \/ Become(p, FailedAs(w)) /\ UNCHANGED container
           \/ (Become(p, FailedAs(w)) \/ Become(p, v)) /\ container' = WithContainer(w)
    BY <1>4 DEF StartWithConfig, Fail, At
  <2>2. FailedAs(w).at = "stop" /\ FailedAs(w).st = w.st /\ FailedAs(w).i = w.i
    BY <1>2 DEF FailedAs, Works
  <2>3. v.at = "inspect" /\ v.st.run = w.st.run /\ v.st.net = w.st.net /\ v.st.started = w.st.started \cup {w.i}
    BY <1>2 DEF Works, States
  <2>. HIDE DEF v
  <2>4. CASE Become(p, FailedAs(w)) /\ UNCHANGED container
    <3>1. \A i \in Index : container'[i].run \in {container[i].run, 0}
      BY <2>4
    <3>. QED
      BY <1>1, <2>1, <2>4, <3>1, FailKeeps, KeepsStep DEF Deploying
  <2>5. CASE container' = WithContainer(w)
    <3>1. /\ container'[w.i].run = w.st.run
          /\ \A i \in Index \ {w.i} : container'[i] = container[i]
      BY <2>1, <2>5, RunTypes
    <3>2. \A i \in Index : container'[i].run \in {container[i].run, 0, w.st.run}
      BY <3>1
    <3>3. Listed(w, container) => Listed(FailedAs(w), container') /\ Listed(v, container')
      BY <1>2, <2>1, <2>2, <2>3, <3>1 DEF Listed, Deploying
    <3>4. Others(p) /\ work'[p] \in {FailedAs(w), v}
      BY <1>2, <2>1, <2>5, <2>4, BecomeIs
    <3>. QED
      BY <1>1, <2>1, <2>2, <2>3, <3>2, <3>3, <3>4, ListedStep
  <2>. QED
    BY <2>1, <2>4, <2>5
<1>5. CASE finalizeDeployment(p)
  <2>. DEFINE st == [w.st EXCEPT !.phase = "running"]
  <2>1. /\ UNCHANGED container /\ Become(p, Idle) /\ w.at = "inspect" /\ disturbed \subseteq disturbed'
        /\ \/ file' = file /\ w.st.run \in disturbed'
           \/ file' = Gone(w.st.name)
           \/ file' = Saved(w.st) \/ file' = Saved(st)
    BY <1>5 DEF finalizeDeployment, At
  <2>2. /\ st \in States /\ st.run = w.st.run /\ st.name = w.st.name /\ st.net = w.st.net /\ st.started = w.st.started
    BY <1>2 DEF States
  <2>3. work'[p].at = "idle" /\ Others(p)
    BY <2>1, BecomeIs, IdleIsOK
  <2>. HIDE DEF st
  <2>4. \/ file' = file /\ w.st.run \in disturbed'
        \/ file' = Gone(w.st.name)
        \/ \E fs \in States : /\ file' = Saved(fs) /\ fs.run = w.st.run /\ fs.name = w.st.name /\ fs.net = w.st.net
                              /\ fs.started = w.st.started /\ w.at \in Deploying \ {"run"}
    BY <1>2, <2>1, <2>2 DEF Deploying
  <2>. QED
    BY <1>1, <2>1, <2>3, <2>4, ListedEnd
<1>. QED
  BY <1>3, <1>4, <1>5

\* The steps of a rollback.
LEMMA RollbackListed ==
  ASSUME DeployIInv, RollInv, ListedInv, NEW p \in Processes,
         StopContainers(p) \/ DeleteNetwork(p) \/ LoadForRelease(p) \/ SaveRelease(p) \/ deleteState(p)
  PROVE  ListedInv'
<1>. DEFINE w == work[p]
<1>1. Active(p) /\ w.at # "idle" /\ UNCHANGED calls
  BY DEF StopContainers, DeleteNetwork, LoadForRelease, SaveRelease, deleteState, Active, At
<1>2. w \in Works /\ w.st \in States /\ container \in [Index -> Containers] /\ NoContainer.run = 0 /\ w.st.run \in Runs
  BY <1>1, StateTypes DEF DeployIInv, DeployInv, TypeOK, NoContainer
<1>3. CASE StopContainers(p)
  <2>. DEFINE e == Missing(w) \/ (w.cancelled /\ w.st.started # {})
              v == [w EXCEPT !.at = "rmnet", !.errs = e]
  <2>1. /\ w.at = "stop" /\ UNCHANGED <<file, disturbed>> /\ Become(p, v)
        /\ container' = IF w.cancelled THEN container ELSE [i \in Index |-> IF i \in Mine(w) THEN NoContainer ELSE container[i]]
    BY <1>3 DEF StopContainers, At
  <2>2. v.at = "rmnet" /\ v.st = w.st /\ v.i = w.i /\ v.errs = e
    BY <1>2 DEF Works
  <2>3. work'[p] = v /\ Others(p)
    BY <2>1, BecomeIs
  <2>. HIDE DEF v
  <2>4. \A i \in Index : container'[i].run \in {container[i].run, 0, w.st.run}
    BY <1>2, <2>1
  <2>5. w.st.run # 0
    BY <1>2, BoundsAssumption DEF Runs
  <2>6. ASSUME Listed(w, container), NEW i \in Index, container'[i].run = w.st.run
        PROVE  w.st.net /\ ((i \in w.st.started /\ e) \/ i = w.i)
    <3>1. container[i].run = w.st.run /\ (w.cancelled \/ i \notin Mine(w))
      BY <1>2, <2>1, <2>5, <2>6
    <3>2. w.st.net /\ (i \in w.st.started \/ i = w.i)
      BY <2>6, <3>1 DEF Listed
    <3>. QED
      BY <3>1, <3>2 DEF Mine
  <2>7. Listed(w, container) => Listed(v, container')
    BY <2>2, <2>6 DEF Listed, Deploying
  <2>. QED
    BY <1>1, <2>1, <2>2, <2>3, <2>4, <2>7, ListedStep
<1>4. ASSUME NEW v, Become(p, v), v.st = w.st, v.i = w.i, w.errs => v.errs, UNCHANGED <<file, container, disturbed>>,
             w.at \in {"rmnet", "rload", "rsave"}, v.at \in {"rlock", "rsave", "forget"}
      PROVE  ListedInv'
  <2>1. Keeps(w, v) /\ v.at # "idle"
    BY <1>4 DEF Keeps, Deploying
  <2>2. \A i \in Index : container'[i].run \in {container[i].run, 0}
    BY <1>4
  <2>. QED
    BY <1>1, <1>4, <2>1, <2>2, KeepsStep
<1>5. CASE DeleteNetwork(p)
  <2>. DEFINE then == IF w.st.range # {} THEN "rlock" ELSE "forget"
  <2>1. w.at = "rmnet" /\ UNCHANGED <<file, container, disturbed>>
    BY <1>5 DEF DeleteNetwork, At
  <2>2. CASE Become(p, [w EXCEPT !.at = then])
    <3>. DEFINE v == [w EXCEPT !.at = then]
    <3>1. v.at = then /\ v.st = w.st /\ v.i = w.i /\ v.errs = w.errs /\ Become(p, v)
      BY <1>2, <2>2 DEF Works
    <3>. HIDE DEF v
    <3>. QED
      BY <1>4, <2>1, <3>1
  <2>3. ASSUME NEW e, Become(p, [w EXCEPT !.at = then, !.errs = w.errs \/ e]) PROVE ListedInv'
    <3>. DEFINE v == [w EXCEPT !.at = then, !.errs = w.errs \/ e]
    <3>1. v.at = then /\ v.st = w.st /\ v.i = w.i /\ v.errs = (w.errs \/ e) /\ Become(p, v)
      BY <1>2, <2>3 DEF Works
    <3>. HIDE DEF v
    <3>. QED
      BY <1>4, <2>1, <3>1
  <2>. QED
    BY <1>5, <2>2, <2>3 DEF DeleteNetwork, GoTo
<1>6. CASE LoadForRelease(p)
  <2>1. w.at = "rload" /\ UNCHANGED <<file, container, disturbed>>
    BY <1>6 DEF LoadForRelease, At
  <2>2. CASE Become(p, [w EXCEPT !.at = "forget", !.errs = TRUE])
    <3>. DEFINE v == [w EXCEPT !.at = "forget", !.errs = TRUE]
    <3>1. v.at = "forget" /\ v.st = w.st /\ v.i = w.i /\ v.errs /\ Become(p, v)
      BY <1>2, <2>2 DEF Works
    <3>. HIDE DEF v
    <3>. QED
      BY <1>4, <2>1, <3>1
  <2>3. ASSUME NEW kept, Become(p, [w EXCEPT !.at = "rsave", !.seen = kept]) PROVE ListedInv'
    <3>. DEFINE v == [w EXCEPT !.at = "rsave", !.seen = kept]
    <3>1. v.at = "rsave" /\ v.st = w.st /\ v.i = w.i /\ v.errs = w.errs /\ Become(p, v)
      BY <1>2, <2>3 DEF Works
    <3>. HIDE DEF v
    <3>. QED
      BY <1>4, <2>1, <3>1
  <2>. QED
    BY <1>6, <2>2, <2>3 DEF LoadForRelease
<1>7. CASE SaveRelease(p)
  <2>. DEFINE v == [w EXCEPT !.at = "forget", !.seen = {}]
  <2>1. w.at = "rsave" /\ UNCHANGED <<file, container, disturbed>> /\ Become(p, v)
    BY <1>7 DEF SaveRelease, At
  <2>2. v.at = "forget" /\ v.st = w.st /\ v.i = w.i /\ v.errs = w.errs
    BY <1>2 DEF Works
  <2>. HIDE DEF v
  <2>. QED
    BY <1>4, <2>1, <2>2
<1>8. CASE deleteState(p)
  <2>1. UNCHANGED container /\ Become(p, Idle)
    BY <1>8 DEF deleteState
  <2>2. work'[p].at = "idle" /\ Others(p)
    BY <2>1, BecomeIs, IdleIsOK
  <2>3. disturbed \subseteq disturbed' /\ ((file' = file /\ w.st.run \in disturbed') \/ file' = Gone(w.st.name))
    BY <1>8 DEF deleteState
  <2>. QED
    BY <1>1, <2>1, <2>2, <2>3, ListedEnd
<1>. QED
  BY <1>3, <1>5, <1>6, <1>7, <1>8

\* The faults.
LEMMA FaultListed ==
  ASSUME DeployIInv, RollInv, ListedInv, NEW p \in Processes, Kill(p) \/ Cancel(p)
  PROVE  ListedInv'
<1>. DEFINE w == work[p]
<1>1. Active(p) /\ w.at # "idle" /\ UNCHANGED <<calls, file>>
  BY DEF Kill, Cancel, Active, At
<1>2. CASE Kill(p)
  <2>1. Become(p, Idle) /\ disturbed' = disturbed \cup {w.st.run} /\ UNCHANGED container
    BY <1>2 DEF Kill
  <2>2. work'[p].at = "idle" /\ Others(p)
    BY <2>1, BecomeIs, IdleIsOK
  <2>. QED
    BY <1>1, <2>1, <2>2, ListedEnd
<1>3. CASE Cancel(p)
  <2>. DEFINE v == [w EXCEPT !.cancelled = TRUE]
  <2>1. Become(p, v) /\ CarriedOut(p) /\ UNCHANGED disturbed
    BY <1>3 DEF Cancel
  <2>2. w \in Works /\ v.at = w.at /\ v.st = w.st /\ v.errs = w.errs /\ v.i = w.i
    BY OwnState DEF Works
  <2>3. work'[p] = v /\ Others(p)
    BY <2>1, BecomeIs
  <2>. HIDE DEF v
  <2>4. Keeps(w, v)
    BY <2>2 DEF Keeps
  <2>5. CASE At(p, "run") /\ container' = WithContainer(w)
    <3>1. w.at = "run" /\ w.st.net
      BY <2>5 DEF At, RollInv, StateInv, StateOK, Deploying, Before
    <3>2. container'[w.i].run = w.st.run /\ \A i \in Index \ {w.i} : container'[i] = container[i]
      BY <2>5, RunTypes
    <3>3. \A i \in Index : container'[i].run \in {container[i].run, 0, w.st.run}
      BY <3>2
    <3>4. Listed(w, container) => Listed(v, container')
      BY <2>2, <3>1, <3>2 DEF Listed, Deploying
    <3>. QED
      BY <1>1, <2>1, <2>2, <2>3, <3>3, <3>4, ListedStep
  <2>6. CASE \A i \in Index : container'[i].run \in {container[i].run, 0}
    BY <1>1, <2>1, <2>2, <2>4, <2>6, KeepsStep
  <2>. QED
    BY <2>1, <2>5, <2>6, CarriedContainers
<1>. QED
  BY <1>2, <1>3

\* The calls: a new deployment has no containers, a rollback lists what the file lists.
LEMMA CallListed ==
  ASSUME DeployIInv, RollInv, ListedInv, NEW p \in Processes, NEW d \in Names,
         DeployRefused(p, d) \/ Rollback(p, d) \/ \E n \in 1 .. MaxValidators : Deploy(p, d, n)
  PROVE  ListedInv'
<1>1. ~Active(p) /\ calls \in Nat /\ calls' = calls + 1 /\ UNCHANGED container /\ disturbed \subseteq disturbed'
  BY StateTypes DEF Deploy, DeployRefused, Rollback, Active
<1>2. container \in [Index -> Containers] /\ \A i \in Index : container[i].run \in Nat
  BY BoundsAssumption DEF DeployIInv, DeployInv, TypeOK, Containers
<1>3. \A i \in Index : container'[i].run <= calls' /\ container'[i].run # calls + 1
  BY <1>1, <1>2 DEF ListedInv
<1>4. ASSUME Others(p), NEW q \in Processes, q # p
      PROVE  /\ work'[q] = work[q] /\ (Active(q)' <=> Active(q))
             /\ Active(q)' /\ work'[q].st.run \notin disturbed' => Listed(work'[q], container')
  <2>1. work'[q] = work[q] /\ (Active(q)' <=> Active(q))
    BY <1>4 DEF Others, Active, At
  <2>. QED
    BY <1>1, <2>1 DEF ListedInv, Listed
<1>5. ASSUME Others(p), NEW e \in Names, file'[e] = file[e], file'[e] # NoFile, file'[e].run \notin disturbed'
      PROVE  \/ \E q \in Processes : Active(q)' /\ work'[q].st.run = file'[e].run
             \/ \A i \in Index : container'[i].run = file'[e].run => file'[e].net /\ i \in file'[e].started
  <2>1. \/ \E q \in Processes : Active(q) /\ work[q].st.run = file[e].run
        \/ \A i \in Index : container[i].run = file[e].run => file[e].net /\ i \in file[e].started
    BY <1>1, <1>5 DEF ListedInv
  <2>. QED
    BY <1>1, <1>4, <1>5, <2>1
<1>6. CASE DeployRefused(p, d)
  <2>1. UNCHANGED <<work, disturbed>> /\ (file' = file \/ file' = Gone(d)) /\ file \in [Names -> States \cup {NoFile}]
    BY <1>6 DEF DeployRefused, DeployIInv, DeployInv, TypeOK
  <2>2. Others(p) /\ \A e \in Names : file'[e] = file[e] \/ file'[e] = NoFile
    BY <2>1 DEF Others, Gone
  <2>3. ~Active(p)'
    BY <1>1, <2>1 DEF Active, At
  <2>. QED
    BY <1>3, <1>4, <1>5, <2>2, <2>3 DEF ListedInv
<1>7. CASE Rollback(p, d)
  <2>0. PICK b \in BOOLEAN : Become(p, [Idle EXCEPT !.at = "stop", !.st = file[d], !.broken = b])
    BY <1>7 DEF Rollback
  <2>. DEFINE v == [Idle EXCEPT !.at = "stop", !.st = file[d], !.broken = b]
  <2>1. work'[p] = v /\ Others(p) /\ v.at = "stop" /\ v.st = file[d] /\ UNCHANGED file /\ file[d] # NoFile
    BY <1>7, <2>0, BecomeIs DEF Idle, Rollback
  <2>. HIDE DEF v
  <2>2. ASSUME v.st.run \notin disturbed' PROVE Listed(v, container')
    <3>1. ~\E q \in Processes : Active(q) /\ work[q].st.run = file[d].run
      BY <1>1, <1>7, <2>1, <2>2 DEF Rollback
    <3>2. \A i \in Index : container[i].run = file[d].run => file[d].net /\ i \in file[d].started
      BY <1>1, <2>1, <2>2, <3>1 DEF ListedInv
    <3>. QED
      BY <1>1, <2>1, <3>2 DEF Listed
  <2>. QED
    BY <1>3, <1>4, <1>5, <2>1, <2>2 DEF ListedInv
<1>8. ASSUME NEW n \in 1 .. MaxValidators, Deploy(p, d, n) PROVE ListedInv'
  <2>. DEFINE st == [name |-> d, run |-> calls + 1, phase |-> "network", net |-> FALSE, range |-> {}, started |-> {}]
              fst == [st EXCEPT !.phase = "validating"]
  <2>0. PICK b \in BOOLEAN : /\ saveState(fst, b)
                             /\ Become(p, [Idle EXCEPT !.at = "subnet", !.st = st, !.n = n, !.broken = b])
    BY <1>8 DEF Deploy
  <2>. DEFINE v == [Idle EXCEPT !.at = "subnet", !.st = st, !.n = n, !.broken = b]
  <2>1. calls + 1 \in Runs
    <3>1. calls < MaxCalls
      BY <1>8 DEF Deploy
    <3>. QED
      BY <1>1, <3>1, BoundsAssumption DEF Runs
  <2>2. fst \in States /\ fst.run = calls + 1 /\ st.run = calls + 1
    BY <2>1 DEF States
  <2>. HIDE DEF st, fst
  <2>3. v.at = "subnet" /\ v.st = st
    BY DEF Idle
  <2>4. work'[p] = v /\ Others(p)
    BY <2>0, BecomeIs
  <2>5. \A e \in Names : file'[e] = file[e] \/ file'[e] = NoFile \/ file'[e].run = calls + 1
    BY <2>0, <2>2, SavedFiles
  <2>. HIDE DEF v
  <2>6. Listed(v, container') /\ Active(p)'
    BY <1>3, <2>2, <2>3, <2>4 DEF Listed, Active, At
  <2>7. ASSUME NEW e \in Names, file'[e] # NoFile, file'[e].run \notin disturbed'
        PROVE  \/ \E q \in Processes : Active(q)' /\ work'[q].st.run = file'[e].run
               \/ \A i \in Index : container'[i].run = file'[e].run => file'[e].net /\ i \in file'[e].started
    BY <1>5, <2>2, <2>3, <2>4, <2>5, <2>6, <2>7
  <2>. QED
    BY <1>3, <1>4, <2>4, <2>6, <2>7 DEF ListedInv
<1>. QED
  BY <1>6, <1>7, <1>8

LEMMA InitListed == Init => ListedInv
<1>. SUFFICES ASSUME Init PROVE ListedInv
  OBVIOUS
<1>1. \A p \in Processes : ~Active(p)
  BY IdleIsOK DEF Init, Active, At
<1>2. \A d \in Names : file[d] = NoFile
  BY DEF Init
<1>3. \A i \in Index : container[i].run <= calls
  BY DEF Init, NoContainer
<1>. QED
  BY <1>1, <1>2, <1>3 DEF ListedInv

LEMMA NextListed == DeployIInv /\ RollInv /\ ListedInv /\ [Next]_vars => ListedInv'
<1>. SUFFICES ASSUME DeployIInv, RollInv, ListedInv, [Next]_vars PROVE ListedInv'
  OBVIOUS
<1>1. CASE UNCHANGED vars
  BY <1>1 DEF vars, ListedInv, Listed, Active, At
<1>2. CASE Next
  <2>1. PICK p \in Processes :
          \/ Step(p)
          \/ \E d \in Names : DeployRefused(p, d) \/ Rollback(p, d) \/ \E n \in 1 .. MaxValidators : Deploy(p, d, n)
          \/ Kill(p) \/ Cancel(p)
    BY <1>2 DEF Next
  <2>2. CASE Step(p)
    BY <2>2, PhasesListed, StartListed, RollbackListed DEF Step
  <2>3. CASE ~Step(p)
    BY <2>1, <2>3, CallListed, FaultListed
  <2>. QED
    BY <2>2, <2>3
<1>. QED
  BY <1>1, <1>2

\* A rollback about to return has nothing left, by what the calls say.
LEMMA RollImplies == DeployIInv /\ RollInv /\ ListedInv => RollbackLeavesNothing
<1>. SUFFICES ASSUME DeployIInv, RollInv, ListedInv, NEW p \in Processes, At(p, "forget"), ~work[p].errs
              PROVE  LET w == work[p]
                         st == work[p].st
                     IN  /\ st.net => \A i \in Index : container[i].running => container[i].run # st.run
                         /\ st.run \notin disturbed =>
                              /\ \A i \in Index : container[i].run = st.run => i = w.i /\ ~container[i].running
                              /\ ~(w.cancelled /\ st.phase = "network") => \A x \in network : x.run # st.run
                              /\ st.phase # "ports" => \A a \in registry : a.run # st.run
  BY DEF RollbackLeavesNothing
<1>1. work[p].at = "forget" /\ Active(p) /\ work[p].at \in Behind /\ work[p].at \notin Deploying \cup {"stop"}
  BY DEF At, Active, Behind, Deploying
<1>2. work[p].st.net =>
        /\ \A x \in network : x.run # work[p].st.run
        /\ \A i \in Index : container[i].running => container[i].run # work[p].st.run
  BY <1>1 DEF RollInv, NetworkInv
<1>3. ASSUME work[p].st.run \notin disturbed
      PROVE  /\ \/ work[p].st.net \/ (work[p].cancelled /\ work[p].st.phase = "network")
                \/ \A x \in network : x.run # work[p].st.run
             /\ work[p].st.phase # "ports" => \A a \in registry : a.run # work[p].st.run
  BY <1>1, <1>3 DEF RollInv, CallInv
<1>4. ASSUME work[p].st.run \notin disturbed, NEW i \in Index, container[i].run = work[p].st.run
      PROVE  work[p].st.net /\ i = work[p].i
  BY <1>1, <1>4 DEF ListedInv, Listed
<1>. QED
  BY <1>2, <1>3, <1>4

-----------------------------------------------------------------------------
\* The types, what a call has at each of its places, and the discipline of the lock: for
\* any number of processes, kills and cancelled contexts the registry is changed only by
\* the holder of the lock, whose copy of it is current (WithLock).
THEOREM DeployInvariant == Spec => []DeployInv
<1>1. DeployIInv => DeployInv
  BY DEF DeployIInv
<1>. QED
  BY <1>1, InitDeploy, NextDeploy, PTL DEF Spec

\* Ranges of ports handed out to different devnets never overlap and stay in the global
\* range, for every global range, block size and number of devnets (AllocateRange).
THEOREM PortRangesDisjoint == Spec => []RangesDisjoint
<1>1. DeployIInv => RangesDisjoint
  BY DEF DeployIInv
<1>. QED
  BY <1>1, InitDeploy, NextDeploy, PTL DEF Spec

\* In every state of the registry the allocator would return the lowest range that is
\* free, and refuse only when there is none (findAvailableRange).
THEOREM AllocatorIsFirstFit == Spec => []FirstFit
<1>1. DeployIInv => FirstFit
  <2>. SUFFICES ASSUME DeployIInv, NEW n \in 1 .. MaxValidators
                PROVE  findAvailableRange(registry, n * PortsPerValidator)
                         = {s \in Free(registry, n * PortsPerValidator) :
                              \A t \in Free(registry, n * PortsPerValidator) : s <= t}
    BY DEF FirstFit, Free
  <2>1. registry \subseteq Allocations /\ Apart(registry)
    BY DEF DeployIInv, DeployInv, TypeOK, RangesDisjoint
  <2>. QED
    BY <2>1, SizeFits, FindsLowest
<1>. QED
  BY <1>1, InitDeploy, NextDeploy, PTL DEF Spec

\* No save of the registry loses an allocation that another process has saved: one leaves
\* only by a release of its name (PortRegistryFile.Save under WithLock).
THEOREM AllocationsAreKept == Spec => AllocationsStand
<1>1. ASSUME DeployInv, [Next]_vars
      PROVE  \A a \in registry \ registry' : \E p \in Processes : At(p, "rsave") /\ work[p].st.name = a.name
  <2>1. UNCHANGED registry \/ \E p \in Processes : SaveAllocation(p) \/ SaveRelease(p)
    BY <1>1 DEF Next, Step, vars, Deploy, DeployRefused, Rollback, Kill, Cancel,
         findAvailableSubnet, CreateNetwork, SaveNetwork, Acquire, LoadForAllocation, ValidatePortAvailability,
         phasePullImage, IsRunning, removeContainer, StartWithConfig, finalizeDeployment, StopContainers,
         DeleteNetwork, LoadForRelease, deleteState
  <2>2. ASSUME NEW p \in Processes, SaveAllocation(p) PROVE registry \ registry' = {}
    BY <1>1, <2>2 DEF SaveAllocation, DeployInv, LockInv
  <2>3. ASSUME NEW p \in Processes, SaveRelease(p), NEW a \in registry \ registry'
        PROVE  At(p, "rsave") /\ work[p].st.name = a.name
    BY <1>1, <2>3 DEF SaveRelease, DeployInv, LockInv
  <2>. QED
    BY <2>1, <2>2, <2>3
<1>2. DeployInv /\ [Next]_vars =>
        [\A a \in registry \ registry' : \E p \in Processes : At(p, "rsave") /\ work[p].st.name = a.name]_vars
  BY <1>1
<1>. QED
  BY <1>2, DeployInvariant, PTL DEF Spec, AllocationsStand

\* A rollback that returns without an error leaves no container running once the network is
\* known to the state, and nothing at all of a deployment that was not disturbed, but for
\* a container that was never started, the network of a killed command and the range of a
\* port conflict: for any number of processes, kills, cancelled contexts and failing saves
\* (Rollback, handleFailure).
THEOREM RollbackIsComplete == Spec => []RollbackLeavesNothing
<1>1. Init => DeployIInv /\ RollInv /\ ListedInv
  BY InitDeploy, InitRoll, InitListed
<1>2. DeployIInv /\ RollInv /\ ListedInv /\ [Next]_vars => (DeployIInv /\ RollInv /\ ListedInv)'
  BY NextDeploy, NextRoll, NextListed
<1>3. DeployIInv /\ RollInv /\ ListedInv => RollbackLeavesNothing
  BY RollImplies
<1>. QED
  BY <1>1, <1>2, <1>3, PTL DEF Spec
=============================================================================
