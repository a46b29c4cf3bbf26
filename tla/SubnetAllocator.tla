--------------------------- MODULE SubnetAllocator ---------------------------
(***************************************************************************)
(* The loopback subnet allocator of the daemon                             *)
(* (internal/daemon/subnet/allocator.go): an in-memory map from subnet to  *)
(* devnet, a JSON file that is replaced atomically (temporary file, then   *)
(* rename), a linear probe with wrap-around on an 8-bit counter, and a     *)
(* daemon that may die between any two of these steps and load the file    *)
(* again.  The mutex is held during a whole operation, so at most one is   *)
(* under way; its steps are separate because it can fail or die in them.   *)
(***************************************************************************)
EXTENDS Integers

CONSTANTS
  Devnets,              \* canonical devnet keys, "namespace/name"
  MinSubnet, MaxSubnet, \* 1 and 254 in the code
  Hash                  \* hashToSubnet: the preferred subnet of each devnet

ASSUME RangeAssumption ==
  /\ MinSubnet \in 1..254
  /\ MaxSubnet \in MinSubnet..254
ASSUME HashAssumption == Hash \in [Devnets -> MinSubnet..MaxSubnet]

Subnets == MinSubnet..MaxSubnet

VARIABLES
  allocations,  \* the in-memory map, subnet |-> devnet
  file,         \* the map in subnets.json
  pc,           \* what the operation under way does next, "idle" or "down"
  op,           \* kind, devnet, cursor and preferred subnet of the operation
  granted,      \* the subnets callers were given and have not given back
  lastError     \* why the last operation failed: "none", "full", "save"

subnetVars == <<allocations, file, pc, op, granted, lastError>>

NoSubnet == 0
Kinds == {"allocate", "release"}

\* The empty map, a map with one more entry, a map without an entry.
NoAllocations == [s \in {} |-> NoSubnet]
With(m, s, d) == [t \in DOMAIN m \cup {s} |-> IF t = s THEN d ELSE m[t]]
Without(m, s) == [t \in DOMAIN m \ {s} |-> m[t]]

IsMap(m) ==
  /\ m = [s \in DOMAIN m |-> m[s]]
  /\ DOMAIN m \subseteq Subnets
  /\ \A s \in DOMAIN m : m[s] \in Devnets

SubnetTypeOK ==
  /\ IsMap(allocations)
  /\ IsMap(file)
  /\ pc \in {"idle", "probe", "write", "rename", "return", "down"}
  /\ op \in [kind : Kinds, devnet : Devnets, subnet : Subnets, preferred : Subnets]
  /\ granted \in [Devnets -> Subnets \cup {NoSubnet}]
  /\ lastError \in {"none", "full", "save"}

\* LoadOrCreate on a missing file saves and keeps an empty map.
SubnetInit ==
  /\ allocations = NoAllocations
  /\ file = NoAllocations
  /\ pc = "idle"
  /\ op \in {[kind |-> "allocate", devnet |-> d, subnet |-> Hash[d],
              preferred |-> Hash[d]] : d \in Devnets}
  /\ granted = [d \in Devnets |-> NoSubnet]
  /\ lastError = "none"

-----------------------------------------------------------------------------
\* Faulty variants, used only to show that the properties notice them: an early
\* wrap-around, and no roll-back after a failed save.
NextSubnetEarlyWrap(s) ==
  LET n == (s + 1) % 256 IN IF n >= MaxSubnet THEN MinSubnet ELSE n

SaveFailsNoRollback ==
  /\ pc \in {"write", "rename"}
  /\ pc' = "idle"
  /\ lastError' = "save"
  /\ UNCHANGED <<allocations, file, op, granted>>

-----------------------------------------------------------------------------
\* Allocate, when the devnet already has a subnet: return it (the map is
\* iterated in any order).
AllocateExisting(d) ==
  /\ pc = "idle"
  /\ \E s \in DOMAIN allocations :
       /\ allocations[s] = d
       /\ granted' = [granted EXCEPT ![d] = s]
  /\ lastError' = "none"
  /\ UNCHANGED <<allocations, file, pc, op>>

\* Allocate, otherwise: probe from the preferred subnet.
AllocateNew(d) ==
  /\ pc = "idle"
  /\ \A s \in DOMAIN allocations : allocations[s] # d
  /\ op' = [kind |-> "allocate", devnet |-> d, subnet |-> Hash[d], preferred |-> Hash[d]]
  /\ pc' = "probe"
  /\ lastError' = "none"
  /\ UNCHANGED <<allocations, file, granted>>

\* subnet++ on a uint8, then the wrap-around.
NextSubnet(s) ==
  LET n == (s + 1) % 256 IN IF n > MaxSubnet THEN MinSubnet ELSE n

ProbeFree ==
  /\ pc = "probe"
  /\ op.subnet \notin DOMAIN allocations
  /\ allocations' = With(allocations, op.subnet, op.devnet)
  /\ pc' = "write"
  /\ UNCHANGED <<file, op, granted, lastError>>

ProbeTaken(next) ==
  /\ pc = "probe"
  /\ op.subnet \in DOMAIN allocations
  /\ next # op.preferred
  /\ op' = [op EXCEPT !.subnet = next]
  /\ UNCHANGED <<allocations, file, pc, granted, lastError>>

ProbeFull(next) ==
  /\ pc = "probe"
  /\ op.subnet \in DOMAIN allocations
  /\ next = op.preferred
  /\ pc' = "idle"
  /\ lastError' = "full"
  /\ UNCHANGED <<allocations, file, op, granted>>

Probe == ProbeFree \/ ProbeTaken(NextSubnet(op.subnet)) \/ ProbeFull(NextSubnet(op.subnet))

\* Release: the caller gives its subnet up; remove it and save, or do nothing.
ReleaseHeld(d) ==
  /\ pc = "idle"
  /\ \E s \in DOMAIN allocations :
       /\ allocations[s] = d
       /\ allocations' = Without(allocations, s)
       /\ op' = [kind |-> "release", devnet |-> d, subnet |-> s, preferred |-> s]
  /\ granted' = [granted EXCEPT ![d] = NoSubnet]
  /\ pc' = "write"
  /\ lastError' = "none"
  /\ UNCHANGED file

ReleaseAbsent(d) ==
  /\ pc = "idle"
  /\ \A s \in DOMAIN allocations : allocations[s] # d
  /\ granted' = [granted EXCEPT ![d] = NoSubnet]
  /\ lastError' = "none"
  /\ UNCHANGED <<allocations, file, pc, op>>

\* save: write subnets.json.tmp, then rename it over subnets.json.
WriteTemp ==
  /\ pc = "write"
  /\ pc' = "rename"
  /\ UNCHANGED <<allocations, file, op, granted, lastError>>

Rename ==
  /\ pc = "rename"
  /\ file' = allocations
  /\ pc' = "return"
  /\ UNCHANGED <<allocations, op, granted, lastError>>

\* Either of them fails: Allocate and Release undo their change in memory.
SaveFails ==
  /\ pc \in {"write", "rename"}
  /\ allocations' = IF op.kind = "allocate"
                      THEN Without(allocations, op.subnet)
                      ELSE With(allocations, op.subnet, op.devnet)
  /\ pc' = "idle"
  /\ lastError' = "save"
  /\ UNCHANGED <<file, op, granted>>

\* The operation returns to its caller, who now uses the subnet.
Return ==
  /\ pc = "return"
  /\ pc' = "idle"
  /\ granted' = IF op.kind = "allocate"
                  THEN [granted EXCEPT ![op.devnet] = op.subnet]
                  ELSE granted
  /\ UNCHANGED <<allocations, file, op, lastError>>

\* The daemon dies: only the file is left.  LoadOrCreate reads it back.
Crash ==
  /\ pc # "down"
  /\ pc' = "down"
  /\ allocations' = NoAllocations
  /\ lastError' = "none"
  /\ UNCHANGED <<file, op, granted>>

Load ==
  /\ pc = "down"
  /\ pc' = "idle"
  /\ allocations' = file
  /\ UNCHANGED <<file, op, granted, lastError>>

Allocate(d) == AllocateExisting(d) \/ AllocateNew(d)
Release(d) == ReleaseHeld(d) \/ ReleaseAbsent(d)
Save == WriteTemp \/ Rename \/ SaveFails

SubnetNext ==
  \/ \E d \in Devnets : Allocate(d) \/ Release(d)
  \/ Probe \/ Save \/ Return \/ Crash \/ Load

SubnetSpec == SubnetInit /\ [][SubnetNext]_subnetVars
SubnetFairSpec == SubnetSpec /\ WF_subnetVars(Probe)

-----------------------------------------------------------------------------
\* No two entries of a map name the same devnet.
OneSubnetEach(m) == \A s, t \in DOMAIN m : m[s] = m[t] => s = t

\* A devnet never owns two subnets, in memory or in the file, whatever fails
\* (Allocate's idempotence across failed saves, crashes and reloads).
UniqueSubnet == OneSubnetEach(allocations) /\ OneSubnetEach(file)

\* A subnet handed to a caller is durable: until it is released the file says it
\* belongs to that devnet, even while the daemon is down, so no other devnet can
\* be given the same addresses.
DurableGrant ==
  \A d \in Devnets : granted[d] # NoSubnet =>
    granted[d] \in DOMAIN file /\ file[granted[d]] = d

\* Whenever no operation is under way, memory and file agree: a failed save is
\* rolled back completely.
MemoryMatchesFile == pc = "idle" => allocations = file

\* "no available subnets" is only reported when every subnet from the minimum to
\* the maximum is taken (the probe visits all of them, across the wrap-around).
FullOnlyWhenFull == lastError = "full" /\ pc = "idle" => DOMAIN allocations = Subnets

\* The probe loop ends, however many subnets are taken.
ProbeTerminates == (pc = "probe") ~> (pc # "probe")

\* The subnets the probe has visited: from the preferred one up to the cursor.
Visited ==
  IF op.preferred <= op.subnet
    THEN op.preferred..(op.subnet - 1)
    ELSE (op.preferred..MaxSubnet) \cup (MinSubnet..(op.subnet - 1))

\* The inductive invariant: types, uniqueness and durability, what memory and
\* file differ by in the middle of each operation, and the progress of a probe.
AllocatorInv ==
  /\ SubnetTypeOK
  /\ UniqueSubnet
  /\ DurableGrant
  /\ pc \in {"idle", "probe", "return"} => allocations = file
  /\ pc = "probe" =>
       /\ op.kind = "allocate"
       /\ \A s \in DOMAIN file : file[s] # op.devnet
       /\ Visited \subseteq DOMAIN allocations
  /\ pc \in {"write", "rename"} /\ op.kind = "allocate" =>
       /\ op.subnet \notin DOMAIN file
       /\ \A s \in DOMAIN file : file[s] # op.devnet
       /\ allocations = With(file, op.subnet, op.devnet)
  /\ pc \in {"write", "rename"} /\ op.kind = "release" =>
       /\ op.subnet \in DOMAIN file
       /\ file[op.subnet] = op.devnet
       /\ allocations = Without(file, op.subnet)
       /\ granted[op.devnet] = NoSubnet
  /\ pc = "return" /\ op.kind = "allocate" =>
       op.subnet \in DOMAIN file /\ file[op.subnet] = op.devnet
  /\ lastError = "full" => pc = "idle" /\ DOMAIN allocations = Subnets
=============================================================================
