------------------------ MODULE DaemonServices_proofs ------------------------
(***************************************************************************)
(* Proofs about the three services under the controllers: the store, for   *)
(* every set of clients and edits; the subnet allocator, for every set of  *)
(* devnets, every range of subnets within a byte and every hash function   *)
(* into that range; and the process runtime, for every finite set of       *)
(* supervisors, every restart policy and every restart limit.              *)
(***************************************************************************)
EXTENDS ResourceStore, SubnetAllocator, ProcessRuntime, TLAPS

-----------------------------------------------------------------------------
(* The store.                                                               *)

\* A stored resource and a copy are told from their absence.
LEMMA NoRecIsNoRec == \A r \in Recs : r # NoRec
BY NoRecAssumption

LEMMA InitInv == Init => StoreInv
BY MaxIncarnationsAssumption, CheckedAssumption DEF Init, StoreInv, TypeOK, GenerationsTell, Vouched, Current

\* A caller that drops its copy, or keeps it after a failed write, keeps the invariant.
LEMMA Dropped ==
  ASSUME StoreInv, NEW c \in Clients, Drop(c), UNCHANGED <<rec, acked, born>>,
         used \subseteq used', used' \subseteq Edits
  PROVE  StoreInv'
BY NoRecIsNoRec, CheckedAssumption, MaxIncarnationsAssumption, KeepersAssumption
   DEF Drop, StoreInv, TypeOK, GenerationsTell, Vouched, Current, Recs

LEMMA Kept ==
  ASSUME StoreInv, NEW c \in Clients, NEW e \in Edits, NEW gen \in Nat, copy[c] \in Recs,
         Keep(c, e, gen), used' = used \cup {e}, UNCHANGED <<rec, acked, born>>,
         ahead' \in {ahead, ahead \cup {c}},
         Checked /\ Vouched(c)' => gen < rec.gen
  PROVE  StoreInv'
<1>. USE NoRecIsNoRec, CheckedAssumption, MaxIncarnationsAssumption, KeepersAssumption
<1>1. copy' \in [Clients -> Recs \cup {NoRec}] /\ copy'[c] \in Recs /\ copy'[c].gen = gen
        /\ copy'[c].inc = copy[c].inc /\ copy'[c].edits = copy[c].edits \cup {e}
        /\ \A d \in Clients : d # c => copy'[d] = copy[d]
  <2>. DEFINE k == [copy[c] EXCEPT !.gen = gen, !.edits = copy[c].edits \cup {e}]
  <2>1. k \in Recs /\ k.gen = gen /\ k.inc = copy[c].inc /\ k.edits = copy[c].edits \cup {e}
    BY DEF Recs
  <2>2. copy' = [copy EXCEPT ![c] = k] /\ copy \in [Clients -> Recs \cup {NoRec}]
    BY DEF Keep, StoreInv, TypeOK
  <2>. HIDE DEF k
  <2>. QED
    BY <2>1, <2>2
<1>2. TypeOK'
  BY <1>1 DEF Keep, StoreInv, TypeOK
<1>3. Checked => GenerationsTell'
  BY <1>1 DEF StoreInv, TypeOK, GenerationsTell, Vouched, Current, Recs
<1>4. \A d \in Clients : copy'[d] # NoRec => copy'[d].inc \in 1..born' /\ copy'[d].edits \subseteq used'
  BY <1>1 DEF StoreInv, TypeOK
<1>. QED
  BY <1>2, <1>3, <1>4 DEF StoreInv

\* Every call keeps the invariant.
LEMMA StepInv == StoreInv /\ [Next]_vars => StoreInv'
<1> SUFFICES ASSUME StoreInv, [Next]_vars
             PROVE  StoreInv'
  OBVIOUS
<1> USE NoRecIsNoRec, CheckedAssumption, MaxIncarnationsAssumption, KeepersAssumption
<1>1. ASSUME NEW c \in Clients, Create(c) PROVE StoreInv'
  <2>1. rec' \in Recs
    BY <1>1 DEF Create, Recs, StoreInv, TypeOK
  <2>2. TypeOK'
    BY <1>1, <2>1 DEF Create, StoreInv, TypeOK
  <2>3. rec'.inc = born' /\ born' > 0 /\ rec'.edits = {} /\ born' <= MaxIncarnations /\ born' = born + 1
    BY <1>1 DEF Create, StoreInv, TypeOK
  <2>4. \A d \in Clients : copy'[d] # NoRec =>
          copy'[d] = rec' \/ (copy'[d] = copy[d] /\ copy[d].inc \in 1..born)
    BY <1>1 DEF Create, StoreInv, TypeOK
  <2>5. GenerationsTell'
    BY <2>1, <2>2, <2>3, <2>4 DEF GenerationsTell, Vouched, Current, StoreInv, TypeOK, Recs
  <2>6. \A d \in Clients : copy'[d] # NoRec => copy'[d].inc \in 1..born' /\ copy'[d].edits \subseteq used'
    BY <1>1, <2>3 DEF Create, StoreInv, TypeOK
  <2> QED
    BY <1>1, <2>2, <2>3, <2>5, <2>6 DEF StoreInv
<1>2. ASSUME NEW c \in Clients, Get(c) PROVE StoreInv'
  <2>1. TypeOK'
    BY <1>2 DEF Get, StoreInv, TypeOK
  <2>2. \A d \in Clients : copy'[d] = copy[d] \/ (copy'[d] = rec /\ rec # NoRec)
    BY <1>2 DEF Get, StoreInv, TypeOK
  <2>3. Checked => GenerationsTell'
    BY <1>2, <2>1, <2>2 DEF Get, StoreInv, TypeOK, GenerationsTell, Vouched, Current, Recs
  <2>4. rec # NoRec => rec.inc \in 1..born
    BY DEF StoreInv, TypeOK
  <2> QED
    BY <1>2, <2>1, <2>2, <2>3, <2>4 DEF Get, StoreInv
<1>3. ASSUME NEW c \in Clients, NEW e \in Edits, UpdateRejected(c, e) PROVE StoreInv'
  <2>1. CASE Drop(c) /\ UNCHANGED used
    <3>1. UNCHANGED <<rec, acked, born>> /\ used \subseteq used' /\ used' \subseteq Edits
      BY <1>3, <2>1 DEF UpdateRejected, StoreInv, TypeOK
    <3>. QED
      BY <2>1, <3>1, Dropped
  <2>2. CASE e \notin used /\ used' = used \cup {e} /\ Keep(c, e, copy[c].gen) /\ UNCHANGED ahead
    <3>1. copy[c] \in Recs /\ UNCHANGED <<rec, acked, born>>
      BY <1>3 DEF UpdateRejected, StoreInv, TypeOK
    <3>2. ASSUME Checked, Vouched(c)' PROVE copy[c].gen < rec.gen
      BY <1>3, <2>2, <3>1, <3>2
         DEF UpdateRejected, Accepts, Keep, Vouched, Current, StoreInv, GenerationsTell, TypeOK, Recs
    <3>3. copy[c].gen \in Nat
      BY <3>1 DEF Recs
    <3>4. ahead' \in {ahead, ahead \cup {c}} /\ used' = used \cup {e} /\ Keep(c, e, copy[c].gen)
      BY <2>2
    <3>. QED
      BY <3>1, <3>2, <3>3, <3>4, Kept
  <2>. QED
    BY <1>3, <2>1, <2>2 DEF UpdateRejected
<1>4. ASSUME NEW c \in Clients, NEW e \in Edits, CommitFails(c, e) PROVE StoreInv'
  <2>1. UNCHANGED <<rec, acked, born>> /\ used' = used \cup {e} /\ e \notin used /\ copy[c] \in Recs
    BY <1>4 DEF CommitFails, Accepts, StoreInv, TypeOK
  <2>2. CASE Drop(c)
    <3>1. used \subseteq used' /\ used' \subseteq Edits
      BY <2>1 DEF StoreInv, TypeOK
    <3>. QED
      BY <2>1, <2>2, <3>1, Dropped
  <2>3. CASE Keep(c, e, NextGen(c)) /\ ahead' = ahead \cup {c}
    <3>1. NextGen(c) \in Nat
      BY <2>1 DEF NextGen, Recs
    <3>2. ~Vouched(c)'
      BY <2>3 DEF Vouched
    <3>. QED
      BY <2>1, <2>3, <3>1, <3>2, Kept
  <2>. QED
    BY <1>4, <2>2, <2>3 DEF CommitFails
<1>5. ASSUME NEW c \in Clients, NEW e \in Edits, Update(c, e) PROVE StoreInv'
  <2>1. rec' \in Recs /\ rec'.inc = rec.inc /\ rec \in Recs /\ copy[c] \in Recs
    BY <1>5 DEF Update, Accepts, NextGen, Recs, StoreInv, TypeOK
  <2>2. TypeOK'
    BY <1>5, <2>1 DEF Update, StoreInv, TypeOK
  <2>3. rec'.edits \subseteq used' /\ rec'.inc = born' /\ born' = born /\ born > 0
    BY <1>5, <2>1 DEF Update, Accepts, StoreInv, TypeOK
  <2>4. ASSUME Checked PROVE GenerationsTell'
    <3>1. rec'.gen = rec.gen + 1
      BY <1>5, <2>4 DEF Update, Accepts, NextGen
    <3>2. \A d \in Clients : copy'[d] = rec' \/ copy'[d] = copy[d]
      BY <1>5 DEF Update, StoreInv, TypeOK
    <3> QED
      <4>1. SUFFICES ASSUME NEW d \in Clients, Vouched(d)'
                     PROVE  copy'[d].gen <= rec'.gen /\ (copy'[d].gen = rec'.gen => copy'[d].edits = rec'.edits)
        BY DEF GenerationsTell
      <4>2. CASE copy'[d] = rec'
        BY <2>1, <4>2 DEF Recs
      <4>3. CASE copy'[d] = copy[d] /\ d # c
        <5>1. Vouched(d)
          BY <1>5, <2>1, <4>1, <4>3 DEF Update, Accepts, Vouched, Current
        <5>2. copy[d].gen <= rec.gen /\ copy[d].gen \in Nat /\ rec.gen \in Nat
          BY <2>1, <2>4, <5>1 DEF StoreInv, GenerationsTell, Vouched, Current, TypeOK, Recs
        <5>. QED
          BY <3>1, <4>3, <5>2
      <4>4. d = c => copy'[d] = rec'
        BY <1>5 DEF Update, StoreInv, TypeOK
      <4>. QED
        BY <3>2, <4>2, <4>3, <4>4
  <2>5. \A d \in Clients : copy'[d] # NoRec => copy'[d].inc \in 1..born' /\ copy'[d].edits \subseteq used'
    <3> SUFFICES ASSUME NEW d \in Clients, copy'[d] # NoRec
                 PROVE  copy'[d].inc \in 1..born' /\ copy'[d].edits \subseteq used'
      OBVIOUS
    <3>1. CASE d = c
      BY <1>5, <2>1, <2>3, <3>1 DEF Update, Accepts, StoreInv, TypeOK
    <3>2. CASE d # c
      BY <1>5, <3>2 DEF Update, StoreInv, TypeOK
    <3> QED
      BY <3>1, <3>2
  <2> QED
    BY <2>2, <2>3, <2>4, <2>5, StoreInv DEF StoreInv
<1>6. CASE Delete
  BY <1>6 DEF Delete, StoreInv, TypeOK, GenerationsTell, Vouched, Current
<1>7. CASE UNCHANGED vars
  BY <1>7 DEF vars, StoreInv, TypeOK, GenerationsTell, Vouched, Current
<1> QED
  BY <1>1, <1>2, <1>3, <1>4, <1>5, <1>6, <1>7 DEF Next

\* In every reachable state the generation of a copy it vouches for tells whether its
\* content is the stored one (UpdateDevnet, UpdateNode, UpdateUpgrade), also after
\* commits that failed under callers that keep their copy.
THEOREM StoreInvariant == Spec => []StoreInv
<1> QED
  BY InitInv, StepInv, PTL DEF Spec

\* An accepted update from a copy the generation vouches for keeps every edit.
THEOREM CurrentUpdatesAreSafe == Spec => CurrentUpdateLosesNothing
<1>1. StoreInv /\ [Next]_vars =>
        [\A c \in Clients, e \in Edits :
           Checked /\ Update(c, e) /\ Vouched(c) => rec.edits \subseteq rec'.edits]_vars
  BY DEF StoreInv, GenerationsTell, Update, Accepts
<1> QED
  BY <1>1, StoreInvariant, PTL DEF Spec, CurrentUpdateLosesNothing

\* Where the resource is created once and every caller drops its copy after a failed
\* write, the generation vouches for every copy.
LEMMA AllVouched ==
  ASSUME MaxIncarnations <= 1, Keepers = {}, StoreInv, NEW c \in Clients, Accepts(c)
  PROVE  Vouched(c)
BY MaxIncarnationsAssumption DEF Accepts, StoreInv, TypeOK, Vouched, Current

\* Created once, with generations compared and copies dropped after a failed write, a
\* resource never loses an acknowledged edit: so it is with nodes and upgrades.
THEOREM NothingLost == Checked /\ MaxIncarnations <= 1 /\ Keepers = {} => (Spec => []NoLostUpdate)
<1> SUFFICES ASSUME Checked, MaxIncarnations <= 1, Keepers = {}
             PROVE  Spec => []NoLostUpdate
  OBVIOUS
<1>1. Init => NoLostUpdate
  BY DEF Init, NoLostUpdate
<1>2. StoreInv /\ NoLostUpdate /\ [Next]_vars => NoLostUpdate'
  <2> SUFFICES ASSUME StoreInv, NoLostUpdate, [Next]_vars
               PROVE  NoLostUpdate'
    OBVIOUS
  <2>1. ASSUME NEW c \in Clients, NEW e \in Edits, Update(c, e) PROVE NoLostUpdate'
    <3>1. Vouched(c)
      BY <2>1, AllVouched DEF Update
    <3>. QED
      BY <2>1, <3>1 DEF Update, Accepts, StoreInv, TypeOK, GenerationsTell, NoLostUpdate
  <2>2. CASE \E c \in Clients : Create(c) \/ Get(c)
    BY <2>2 DEF Create, Get, NoLostUpdate
  <2>3. CASE Delete \/ UNCHANGED vars \/ \E c \in Clients, e \in Edits : CommitFails(c, e) \/ UpdateRejected(c, e)
    BY <2>3 DEF Delete, CommitFails, UpdateRejected, vars, NoLostUpdate
  <2> QED
    BY <2>1, <2>2, <2>3 DEF Next
<1> QED
  BY <1>1, <1>2, StoreInvariant, PTL DEF Spec

\* A step of the store is a step of the atomic resource, or leaves it alone, or is an
\* update from a copy the generation does not vouch for.
LEMMA AtomicStep ==
  ASSUME Checked, StoreInv, [Next]_vars
  PROVE  \/ [Atomic!Next]_(Atomic!vars)
         \/ \E c \in Clients, e \in Edits : Update(c, e) /\ ~Vouched(c)
<1>1. ASSUME NEW c \in Clients, Create(c) PROVE Atomic!Create
  <2>1. rec' \in Recs
    BY <1>1, CheckedAssumption DEF Create, Recs, StoreInv, TypeOK
  <2> QED
    BY <1>1, <2>1, NoRecIsNoRec DEF Create, Atomic!Create
<1>2. ASSUME NEW c \in Clients, NEW e \in Edits, Update(c, e), Vouched(c) PROVE Atomic!Apply(e)
  <2>1. rec' \in Recs /\ rec' # NoRec
    BY <1>2, CheckedAssumption, NoRecIsNoRec DEF Update, Accepts, NextGen, Recs, StoreInv, TypeOK
  <2>2. rec # NoRec /\ rec'.edits = rec.edits \cup {e} /\ e \notin rec.edits
    BY <1>2 DEF Update, Accepts, StoreInv, TypeOK, GenerationsTell
  <2> QED
    BY <2>1, <2>2 DEF Atomic!Apply
<1>3. CASE Delete
  BY <1>3 DEF Delete, Atomic!Delete, Atomic!Next
<1>4. CASE rec' = rec
  BY <1>4 DEF Atomic!vars
<1>5. ASSUME NEW c \in Clients, Get(c) PROVE rec' = rec
  BY <1>5 DEF Get
<1>6. ASSUME NEW c \in Clients, NEW e \in Edits, CommitFails(c, e) \/ UpdateRejected(c, e) PROVE rec' = rec
  BY <1>6 DEF CommitFails, UpdateRejected
<1>7. CASE UNCHANGED vars
  BY <1>7, <1>4 DEF vars
<1> QED
  BY <1>1, <1>2, <1>3, <1>4, <1>5, <1>6, <1>7 DEF Next, Atomic!Next

\* The store implements the atomic resource, up to updates from copies of an earlier
\* incarnation or kept after a failed commit: every other accepted update applies its
\* one edit to the latest content, every other call but Create and Delete leaves the
\* resource alone.
THEOREM StoreIsAtomic == Checked => (Spec => AtomicUpdates)
<1> SUFFICES ASSUME Checked
             PROVE  Spec => AtomicUpdates
  OBVIOUS
<1>1. Init => Atomic!Init
  BY DEF Init, Atomic!Init
<1>2. StoreInv /\ [Next]_vars =>
        [Atomic!Next \/ \E c \in Clients, e \in Edits : Update(c, e) /\ ~Vouched(c)]_(Atomic!vars)
  BY AtomicStep
<1> QED
  BY <1>1, <1>2, StoreInvariant, PTL DEF Spec, AtomicUpdates

\* For nodes and upgrades, whose callers drop their copy after a failed write, the
\* refinement is complete in each incarnation that is the only one.
THEOREM StoreImplementsAtomic ==
  Checked /\ MaxIncarnations <= 1 /\ Keepers = {} => (Spec => Atomic!Spec)
<1> SUFFICES ASSUME Checked, MaxIncarnations <= 1, Keepers = {}
             PROVE  Spec => Atomic!Spec
  OBVIOUS
<1>1. Init => Atomic!Init
  BY DEF Init, Atomic!Init
<1>2. StoreInv /\ [Next]_vars => [Atomic!Next]_(Atomic!vars)
  BY AtomicStep, AllVouched DEF Update
<1> QED
  BY <1>1, <1>2, StoreInvariant, PTL DEF Spec, Atomic!Spec

(* The subnet allocator.                                                    *)

\* The successor of a subnet, with the 8-bit increment and the wrap-around, is
\* again a subnet (allocator.go, the probe loop).
LEMMA NextSubnetInRange ==
  ASSUME NEW s \in Subnets
  PROVE  /\ NextSubnet(s) \in Subnets
         /\ s < MaxSubnet => NextSubnet(s) = s + 1
         /\ s = MaxSubnet => NextSubnet(s) = MinSubnet
<1>1. s \in 1..254 /\ (s + 1) % 256 = s + 1
  BY RangeAssumption DEF Subnets
<1>. QED
  BY <1>1, RangeAssumption DEF Subnets, NextSubnet

\* Adding and removing an entry keep the shape of a map.
LEMMA MapUpdates ==
  ASSUME NEW m, IsMap(m), NEW s \in Subnets, NEW d \in Devnets
  PROVE  /\ IsMap(With(m, s, d))
         /\ IsMap(Without(m, s))
         /\ DOMAIN With(m, s, d) = DOMAIN m \cup {s}
         /\ With(m, s, d)[s] = d
         /\ \A t \in DOMAIN m : t # s => With(m, s, d)[t] = m[t]
         /\ DOMAIN Without(m, s) = DOMAIN m \ {s}
         /\ \A t \in DOMAIN m \ {s} : Without(m, s)[t] = m[t]
BY DEF IsMap, With, Without

\* Undoing a change restores the map: what a failed save relies on.
LEMMA MapUndo ==
  ASSUME NEW m, IsMap(m), NEW s \in Subnets
  PROVE  /\ \A d \in Devnets : s \notin DOMAIN m => Without(With(m, s, d), s) = m
         /\ s \in DOMAIN m => With(Without(m, s), s, m[s]) = m
BY DEF IsMap, With, Without

\* Adding an entry for a new devnet, or removing an entry, keeps a map injective.
LEMMA InjectiveUpdates ==
  ASSUME NEW m, IsMap(m), NEW s \in Subnets, NEW d \in Devnets, OneSubnetEach(m)
  PROVE  /\ (\A t \in DOMAIN m : m[t] # d) => OneSubnetEach(With(m, s, d))
         /\ OneSubnetEach(Without(m, s))
BY DEF IsMap, With, Without, OneSubnetEach

\* The empty map satisfies the invariant.
LEMMA InitAllocatorInv == SubnetInit => AllocatorInv
<1>. SUFFICES ASSUME SubnetInit PROVE AllocatorInv
  OBVIOUS
<1>1. SubnetTypeOK
  BY HashAssumption DEF SubnetInit, SubnetTypeOK, IsMap, NoAllocations, Kinds, Subnets
<1>. QED
  BY <1>1 DEF SubnetInit, AllocatorInv, UniqueSubnet, OneSubnetEach, DurableGrant, NoAllocations

\* A probe that has to move on has found one more taken subnet; when it is back
\* at the preferred subnet it has found them all.
LEMMA ProbeProgress ==
  ASSUME AllocatorInv, pc = "probe", op.subnet \in DOMAIN allocations
  PROVE  LET n == NextSubnet(op.subnet) IN
         /\ n # op.preferred =>
              (IF op.preferred <= n
                 THEN op.preferred..(n - 1)
                 ELSE (op.preferred..MaxSubnet) \cup (MinSubnet..(n - 1)))
              \subseteq DOMAIN allocations
         /\ n = op.preferred => DOMAIN allocations = Subnets
<1>. DEFINE c == op.subnet  p == op.preferred  D == DOMAIN allocations
<1>1. c \in Subnets /\ p \in Subnets /\ D \subseteq Subnets /\ c \in D
  BY DEF AllocatorInv, SubnetTypeOK, IsMap
<1>2. /\ p <= c => p..(c - 1) \subseteq D
      /\ ~(p <= c) => (p..MaxSubnet) \cup (MinSubnet..(c - 1)) \subseteq D
  BY DEF AllocatorInv, Visited
<1>3. MinSubnet \in Int /\ MaxSubnet \in Int /\ MinSubnet <= MaxSubnet /\ Subnets = MinSubnet..MaxSubnet
  BY RangeAssumption DEF Subnets
<1>4. /\ c < MaxSubnet => NextSubnet(c) = c + 1
      /\ c = MaxSubnet => NextSubnet(c) = MinSubnet
  BY <1>1, NextSubnetInRange
<1>. HIDE DEF c, p, D
<1>. SUFFICES LET n == NextSubnet(c) IN
         /\ n # p => (IF p <= n THEN p..(n - 1) ELSE (p..MaxSubnet) \cup (MinSubnet..(n - 1))) \subseteq D
         /\ n = p => D = Subnets
  BY DEF c, p, D
<1>5. CASE c < MaxSubnet
  <2>1. NextSubnet(c) = c + 1
    BY <1>4, <1>5
  <2>2. CASE p <= c
    BY <1>1, <1>2, <1>3, <2>1, <2>2
  <2>3. CASE ~(p <= c)
    <3>1. p..MaxSubnet \subseteq D /\ MinSubnet..c \subseteq D
      BY <1>1, <1>2, <1>3, <2>3
    <3>2. CASE c + 1 = p
      <4>1. Subnets \subseteq D
        BY <1>1, <1>3, <3>1, <3>2
      <4>. QED
        BY <1>1, <2>1, <3>2, <4>1
    <3>3. CASE c + 1 # p
      <4>1. ~(p <= c + 1) /\ (c + 1) - 1 = c
        BY <1>1, <1>3, <2>3, <3>3
      <4>. QED
        BY <2>1, <3>1, <3>3, <4>1
    <3>. QED
      BY <3>2, <3>3
  <2>. QED
    BY <2>2, <2>3
<1>6. CASE c = MaxSubnet
  <2>1. NextSubnet(c) = MinSubnet /\ p <= c
    BY <1>1, <1>3, <1>4, <1>6
  <2>2. p..c \subseteq D
    BY <1>1, <1>2, <1>3, <2>1
  <2>3. CASE MinSubnet = p
    BY <1>1, <1>3, <1>6, <2>1, <2>2, <2>3
  <2>4. CASE MinSubnet # p
    <3>1. ~(p <= MinSubnet) /\ MinSubnet..(MinSubnet - 1) = {}
      BY <1>1, <1>3, <2>4
    <3>. QED
      BY <1>6, <2>1, <2>2, <2>4, <3>1
  <2>. QED
    BY <2>3, <2>4
<1>. QED
  BY <1>1, <1>3, <1>5, <1>6
-----------------------------------------------------------------------------
\* Every step of an operation, of the disk and of the daemon keeps AllocatorInv.
LEMMA NextAllocatorInv == AllocatorInv /\ [SubnetNext]_subnetVars => AllocatorInv'
<1>. SUFFICES ASSUME AllocatorInv, [SubnetNext]_subnetVars PROVE AllocatorInv'
  OBVIOUS
<1>0. SubnetTypeOK /\ IsMap(file) /\ IsMap(allocations) /\ op.subnet \in Subnets /\ op.devnet \in Devnets
  BY DEF AllocatorInv, SubnetTypeOK
<1>1. ASSUME NEW d \in Devnets, AllocateExisting(d) PROVE AllocatorInv'
  <2>1. PICK s \in DOMAIN allocations : allocations[s] = d /\ granted' = [granted EXCEPT ![d] = s]
    BY <1>1 DEF AllocateExisting
  <2>2. allocations = file /\ s \in Subnets
    BY <1>0, <1>1, <2>1 DEF AllocatorInv, AllocateExisting, IsMap
  <2>3. SubnetTypeOK'
    BY <1>0, <1>1, <2>1, <2>2 DEF SubnetTypeOK, AllocateExisting, IsMap
  <2>4. DurableGrant'
    BY <1>0, <1>1, <2>1, <2>2 DEF AllocatorInv, DurableGrant, AllocateExisting, SubnetTypeOK
  <2>. QED
    BY <1>1, <2>3, <2>4 DEF AllocatorInv, AllocateExisting, UniqueSubnet, OneSubnetEach, Visited
<1>2. ASSUME NEW d \in Devnets, AllocateNew(d) PROVE AllocatorInv'
  <2>1. SubnetTypeOK' /\ op'.devnet = d /\ op'.subnet = op'.preferred /\ op'.preferred \in Subnets
    BY <1>0, <1>2, HashAssumption DEF SubnetTypeOK, AllocateNew, IsMap, Kinds, Subnets
  <2>2. Visited' = {}
    BY <2>1, RangeAssumption DEF Visited, Subnets
  <2>. QED
    BY <1>2, <2>1, <2>2 DEF AllocatorInv, AllocateNew, UniqueSubnet, OneSubnetEach, DurableGrant
<1>3. CASE ProbeFree
  <2>1. SubnetTypeOK'
    BY <1>0, <1>3, MapUpdates DEF SubnetTypeOK, ProbeFree
  <2>2. allocations = file /\ op.subnet \notin DOMAIN file /\ \A s \in DOMAIN file : file[s] # op.devnet
    BY <1>3 DEF AllocatorInv, ProbeFree
  <2>3. OneSubnetEach(allocations')
    BY <1>0, <1>3, <2>2, InjectiveUpdates DEF AllocatorInv, UniqueSubnet, ProbeFree
  <2>4. op'.kind = op.kind /\ UNCHANGED <<file, op, granted>> /\ pc' = "write" /\ lastError' # "full"
    BY <1>3 DEF ProbeFree, AllocatorInv
  <2>5. op.kind = "allocate"
    BY <1>3 DEF ProbeFree, AllocatorInv
  <2>. QED
    BY <1>3, <2>1, <2>2, <2>3, <2>4, <2>5 DEF AllocatorInv, ProbeFree, UniqueSubnet, OneSubnetEach, DurableGrant
<1>4. CASE ProbeTaken(NextSubnet(op.subnet))
  <2>. PICK n \in Subnets : n = NextSubnet(op.subnet)
    BY <1>0, NextSubnetInRange
  <2>1. SubnetTypeOK' /\ op' = [op EXCEPT !.subnet = n] /\ op'.subnet = n /\ op'.preferred = op.preferred
        /\ op'.devnet = op.devnet /\ op'.kind = op.kind
    BY <1>0, <1>4 DEF SubnetTypeOK, ProbeTaken, IsMap
  <2>2. Visited' \subseteq DOMAIN allocations
    BY <1>4, <2>1, ProbeProgress DEF ProbeTaken, Visited
  <2>. QED
    BY <1>4, <2>1, <2>2 DEF AllocatorInv, ProbeTaken, UniqueSubnet, OneSubnetEach, DurableGrant
<1>5. CASE ProbeFull(NextSubnet(op.subnet))
  <2>1. DOMAIN allocations = Subnets
    BY <1>5, ProbeProgress DEF ProbeFull
  <2>. QED
    BY <1>0, <1>5, <2>1 DEF AllocatorInv, ProbeFull, SubnetTypeOK, UniqueSubnet, OneSubnetEach, DurableGrant
<1>6. ASSUME NEW d \in Devnets, ReleaseHeld(d) PROVE AllocatorInv'
  <2>1. PICK s \in DOMAIN allocations :
          /\ allocations[s] = d
          /\ allocations' = Without(allocations, s)
          /\ op' = [kind |-> "release", devnet |-> d, subnet |-> s, preferred |-> s]
    BY <1>6 DEF ReleaseHeld
  <2>2. allocations = file /\ s \in Subnets
    BY <1>0, <1>6, <2>1 DEF AllocatorInv, ReleaseHeld, IsMap
  <2>3. SubnetTypeOK'
    BY <1>0, <1>6, <2>1, <2>2, MapUpdates DEF SubnetTypeOK, ReleaseHeld, Kinds
  <2>4. DurableGrant' /\ granted'[d] = NoSubnet
    BY <1>0, <1>6 DEF AllocatorInv, DurableGrant, ReleaseHeld, SubnetTypeOK
  <2>5. OneSubnetEach(allocations')
    BY <1>0, <2>1, <2>2, InjectiveUpdates DEF AllocatorInv, UniqueSubnet
  <2>. QED
    BY <1>6, <2>1, <2>2, <2>3, <2>4, <2>5 DEF AllocatorInv, ReleaseHeld, UniqueSubnet, OneSubnetEach
<1>7. ASSUME NEW d \in Devnets, ReleaseAbsent(d) PROVE AllocatorInv'
  <2>1. SubnetTypeOK' /\ DurableGrant'
    BY <1>0, <1>7 DEF AllocatorInv, DurableGrant, ReleaseAbsent, SubnetTypeOK, IsMap
  <2>. QED
    BY <1>7, <2>1 DEF AllocatorInv, ReleaseAbsent, UniqueSubnet, OneSubnetEach, Visited
<1>8. CASE WriteTemp
  BY <1>0, <1>8 DEF AllocatorInv, WriteTemp, SubnetTypeOK, IsMap, UniqueSubnet, OneSubnetEach, DurableGrant
<1>9. CASE Rename
  <2>1. SubnetTypeOK'
    BY <1>0, <1>9 DEF SubnetTypeOK, Rename
  <2>. DEFINE k == op.subnet  d == op.devnet
  <2>2. CASE op.kind = "allocate"
    <3>1. k \notin DOMAIN file /\ allocations = With(file, k, d)
      BY <1>9, <2>2 DEF AllocatorInv, Rename
    <3>. HIDE DEF k, d
    <3>2. /\ DOMAIN allocations = DOMAIN file \cup {k} /\ allocations[k] = d
          /\ \A t \in DOMAIN file : t # k => allocations[t] = file[t]
      BY <3>1 DEF With
    <3>3. DurableGrant'
      BY <1>9, <3>1, <3>2 DEF AllocatorInv, Rename, DurableGrant
    <3>. QED
      BY <1>9, <2>1, <2>2, <3>2, <3>3 DEF AllocatorInv, Rename, UniqueSubnet, OneSubnetEach, k, d
  <2>3. CASE op.kind = "release"
    <3>1. /\ k \in DOMAIN file /\ file[k] = d
          /\ allocations = Without(file, k) /\ granted[d] = NoSubnet
      BY <1>9, <2>3 DEF AllocatorInv, Rename
    <3>. HIDE DEF k, d
    <3>2. /\ DOMAIN allocations = DOMAIN file \ {k}
          /\ \A t \in DOMAIN file \ {k} : allocations[t] = file[t]
      BY <3>1 DEF Without
    <3>3. \A e \in Devnets : granted[e] # NoSubnet => granted[e] # k
      BY <3>1 DEF AllocatorInv, DurableGrant
    <3>4. DurableGrant'
      BY <1>9, <3>2, <3>3 DEF AllocatorInv, Rename, DurableGrant
    <3>. QED
      BY <1>9, <2>1, <2>3, <3>4 DEF AllocatorInv, Rename, UniqueSubnet, OneSubnetEach
  <2>. QED
    BY <1>0, <2>2, <2>3 DEF SubnetTypeOK, Kinds
<1>10. CASE SaveFails
  <2>1. allocations' = file
    <3>1. CASE op.kind = "allocate"
      BY <1>0, <1>10, <3>1, MapUndo DEF AllocatorInv, SaveFails
    <3>2. CASE op.kind = "release"
      BY <1>0, <1>10, <3>2, MapUndo DEF AllocatorInv, SaveFails
    <3>. QED
      BY <1>0, <3>1, <3>2 DEF SubnetTypeOK, Kinds
  <2>. QED
    BY <1>0, <1>10, <2>1 DEF AllocatorInv, SaveFails, SubnetTypeOK, UniqueSubnet, OneSubnetEach, DurableGrant
<1>11. CASE Return
  <2>1. SubnetTypeOK' /\ DurableGrant'
    BY <1>0, <1>11 DEF AllocatorInv, Return, SubnetTypeOK, DurableGrant
  <2>. QED
    BY <1>11, <2>1 DEF AllocatorInv, Return, UniqueSubnet, OneSubnetEach
<1>12. CASE Crash
  <2>1. IsMap(NoAllocations) /\ OneSubnetEach(NoAllocations)
    BY DEF IsMap, NoAllocations, OneSubnetEach
  <2>. QED
    BY <1>0, <1>12, <2>1 DEF AllocatorInv, Crash, SubnetTypeOK, UniqueSubnet, DurableGrant, OneSubnetEach
<1>13. CASE Load
  BY <1>0, <1>13 DEF AllocatorInv, Load, SubnetTypeOK, UniqueSubnet, OneSubnetEach, DurableGrant
<1>14. CASE UNCHANGED subnetVars
  BY <1>14 DEF AllocatorInv, SubnetTypeOK, UniqueSubnet, OneSubnetEach, DurableGrant, Visited, subnetVars, IsMap
<1>. QED
  BY <1>1, <1>2, <1>3, <1>4, <1>5, <1>6, <1>7, <1>8, <1>9, <1>10, <1>11, <1>12, <1>13, <1>14
  DEF SubnetNext, Allocate, Release, Probe, Save

\* The invariant holds in every reachable state.
THEOREM AllocatorInvariant == SubnetSpec => []AllocatorInv
BY InitAllocatorInv, NextAllocatorInv, PTL DEF SubnetSpec

\* A devnet never owns two subnets, whatever fails (Allocate is idempotent).
THEOREM SubnetsUnique == SubnetSpec => []UniqueSubnet
<1>1. AllocatorInv => UniqueSubnet
  BY DEF AllocatorInv
<1>. QED
  BY <1>1, AllocatorInvariant, PTL

\* A subnet in use is recorded on disk for its devnet through failed saves, crashes
\* and reloads, hence no two devnets ever use the same addresses.
THEOREM GrantsDurable == SubnetSpec => []DurableGrant
<1>1. AllocatorInv => DurableGrant
  BY DEF AllocatorInv
<1>. QED
  BY <1>1, AllocatorInvariant, PTL

\* Failed saves are rolled back exactly: at rest, memory and file are equal.
THEOREM MemoryAndFileAgree == SubnetSpec => []MemoryMatchesFile
<1>1. AllocatorInv => MemoryMatchesFile
  BY DEF AllocatorInv, MemoryMatchesFile
<1>. QED
  BY <1>1, AllocatorInvariant, PTL

\* Allocation fails for want of subnets only when every subnet is taken.
THEOREM ProbeIsExhaustive == SubnetSpec => []FullOnlyWhenFull
<1>1. AllocatorInv => FullOnlyWhenFull
  BY DEF AllocatorInv, FullOnlyWhenFull
<1>. QED
  BY <1>1, AllocatorInvariant, PTL

-----------------------------------------------------------------------------
(* The process runtime.                                                     *)

\* The initial state has no supervisor at work.
LEMMA RuntimeInitInv == RuntimeInit => RuntimeInv
<1> SUFFICES ASSUME RuntimeInit PROVE RuntimeInv
  OBVIOUS
<1>1. RuntimeTypeOK
  <2>1. restarts \in [Sups -> Nat] /\ launches \in [Sups -> Nat]
    BY DEF RuntimeInit
  <2>2. /\ stopper \in [Sups -> {"none", "force", "stop", "wait", "returned"}]
        /\ signal \in [Sups -> {"none", "term", "kill"}]
        /\ st \in [Sups -> {"unused", "loop", "launch", "wait", "backoff", "monitor", "done", "gone"}]
    BY DEF RuntimeInit
  <2>3. /\ target \in [Sups -> Sups]
        /\ logOf \in [Sups -> Sups \cup {NoSup}]
    BY DEF RuntimeInit
  <2>4. /\ running \in [Sups -> BOOLEAN] /\ stopCh \in [Sups -> BOOLEAN]
        /\ detach \in [Sups -> BOOLEAN] /\ alive \in [Sups -> BOOLEAN]
        /\ exitFailed \in [Sups -> BOOLEAN]
    BY DEF RuntimeInit
  <2> QED
    BY <2>1, <2>2, <2>3, <2>4 DEF RuntimeInit, RuntimeTypeOK
<1>2. Ownership
  BY DEF RuntimeInit, Ownership
<1>3. Counts
  BY MaxRestartsAssumption DEF RuntimeInit, Counts
<1> QED
  BY <1>1, <1>2, <1>3 DEF RuntimeInv

\* Every step keeps the types, the ownership of processes and the counts.
LEMMA RuntimeStepInv == RuntimeInv /\ [RuntimeNext]_runtimeVars => RuntimeInv'
<1> USE SupsAssumption, MaxRestartsAssumption DEF RuntimeInv
<1> SUFFICES ASSUME RuntimeInv, [RuntimeNext]_runtimeVars
             PROVE  RuntimeInv'
  OBVIOUS
<1>1. ASSUME NEW x \in Sups, StartNode(x) PROVE RuntimeInv'
  <2>3. RuntimeTypeOK'
    BY <1>1 DEF RuntimeTypeOK, StartNode, Serving, apiVars, loopVars, askVars, osVars
  <2>4. Ownership'
    BY <1>1 DEF RuntimeTypeOK, Ownership, StartNode, Serving, apiVars, loopVars, askVars, osVars
  <2>5. Counts'
    BY <1>1 DEF RuntimeTypeOK, Counts, StartNode, Serving, apiVars, loopVars, askVars, osVars
  <2> QED  BY <2>3, <2>4, <2>5
<1>2. ASSUME NEW x \in Sups, ForceKill(x) PROVE RuntimeInv'
  BY <1>2 DEF RuntimeTypeOK, Ownership, Counts, ForceKill, Signalled, apiVars, loopVars, askVars, osVars
<1>3. ASSUME NEW x \in Sups, CloseStopCh(x) PROVE RuntimeInv'
  BY <1>3 DEF RuntimeTypeOK, Ownership, Counts, CloseStopCh, apiVars, loopVars, askVars, osVars
<1>4. ASSUME NEW x \in Sups, StopReturns(x) PROVE RuntimeInv'
  <2>3. RuntimeTypeOK'
    BY <1>4 DEF RuntimeTypeOK, StopReturns, CloseLog, apiVars, loopVars, askVars, osVars
  <2>4. Ownership'
    BY <1>4 DEF RuntimeTypeOK, Ownership, StopReturns, CloseLog, apiVars, loopVars, askVars, osVars
  <2>5. Counts'
    BY <1>4 DEF RuntimeTypeOK, Counts, StopReturns, CloseLog, apiVars, loopVars, askVars, osVars
  <2> QED  BY <2>3, <2>4, <2>5
<1>5. ASSUME NEW x \in Sups, LoopStops(x) PROVE RuntimeInv'
  <2>3. RuntimeTypeOK'
    BY <1>5 DEF RuntimeTypeOK, LoopStops, CancelledOrStopped, StopProcess, Signalled, apiVars, loopVars, askVars, osVars
  <2>4. Ownership'
    BY <1>5 DEF RuntimeTypeOK, Ownership, LoopStops, CancelledOrStopped, StopProcess, Signalled, apiVars, loopVars, askVars, osVars
  <2>5. Counts'
    BY <1>5 DEF RuntimeTypeOK, Counts, LoopStops, CancelledOrStopped, StopProcess, Signalled, apiVars, loopVars, askVars, osVars
  <2> QED  BY <2>3, <2>4, <2>5
<1>6. ASSUME NEW x \in Sups, LoopLaunches(x) PROVE RuntimeInv'
  <2>3. RuntimeTypeOK'
    BY <1>6 DEF RuntimeTypeOK, LoopLaunches, CancelledOrStopped, apiVars, loopVars, askVars, osVars
  <2>4. Ownership'
    BY <1>6 DEF RuntimeTypeOK, Ownership, LoopLaunches, CancelledOrStopped, apiVars, loopVars, askVars, osVars
  <2>5. Counts'
    BY <1>6 DEF RuntimeTypeOK, Counts, LoopLaunches, CancelledOrStopped, apiVars, loopVars, askVars, osVars
  <2> QED  BY <2>3, <2>4, <2>5
<1>7. ASSUME NEW x \in Sups, Launch(x) PROVE RuntimeInv'
  <2>1. launches' \in [Sups -> Nat] /\ st' = [st EXCEPT ![x] = "wait"]
    BY <1>7 DEF RuntimeTypeOK, Launch
  <2>2. alive' \in [Sups -> BOOLEAN] /\ running' \in [Sups -> BOOLEAN] /\ exitFailed' \in [Sups -> BOOLEAN]
    BY <1>7 DEF RuntimeTypeOK, Launch
  <2>3. RuntimeTypeOK'
    BY <1>7, <2>1, <2>2 DEF RuntimeTypeOK, Launch, apiVars, loopVars, askVars, osVars
  <2>4. Ownership'
    BY <1>7 DEF RuntimeTypeOK, Ownership, Launch, apiVars, loopVars, askVars, osVars
  <2>5. Counts'
    BY <1>7 DEF RuntimeTypeOK, Counts, Launch, apiVars, loopVars, askVars, osVars
  <2> QED  BY <2>3, <2>4, <2>5
<1>8. ASSUME NEW x \in Sups, Reap(x) PROVE RuntimeInv'
  <2>3. RuntimeTypeOK'
    BY <1>8 DEF RuntimeTypeOK, Reap, ShouldRestart, apiVars, loopVars, askVars, osVars
  <2>4. Ownership'
    BY <1>8 DEF RuntimeTypeOK, Ownership, Reap, ShouldRestart, apiVars, loopVars, askVars, osVars
  <2>5. Counts'
    BY <1>8 DEF RuntimeTypeOK, Counts, Reap, ShouldRestart, apiVars, loopVars, askVars, osVars
  <2> QED  BY <2>3, <2>4, <2>5
<1>9. ASSUME NEW x \in Sups, BackoffEnds(x) PROVE RuntimeInv'
  <2>3. RuntimeTypeOK'
    BY <1>9 DEF RuntimeTypeOK, BackoffEnds, CancelledOrStopped, apiVars, loopVars, askVars, osVars
  <2>4. Ownership'
    BY <1>9 DEF RuntimeTypeOK, Ownership, BackoffEnds, CancelledOrStopped, apiVars, loopVars, askVars, osVars
  <2>5. Counts'
    BY <1>9 DEF RuntimeTypeOK, Counts, BackoffEnds, CancelledOrStopped, apiVars, loopVars, askVars, osVars
  <2> QED  BY <2>3, <2>4, <2>5
<1>10. ASSUME NEW x \in Sups, MonitorEnds(x) PROVE RuntimeInv'
  <2>3. RuntimeTypeOK'
    BY <1>10 DEF RuntimeTypeOK, MonitorEnds, CancelledOrStopped, Signalled, apiVars, loopVars, askVars, osVars
  <2>4. Ownership'
    BY <1>10 DEF RuntimeTypeOK, Ownership, MonitorEnds, CancelledOrStopped, Signalled, apiVars, loopVars, askVars, osVars
  <2>5. Counts'
    BY <1>10 DEF RuntimeTypeOK, Counts, MonitorEnds, CancelledOrStopped, Signalled, apiVars, loopVars, askVars, osVars
  <2> QED  BY <2>3, <2>4, <2>5
<1>11. ASSUME NEW x \in Sups, ProcessExits(x) PROVE RuntimeInv'
  <2>3. RuntimeTypeOK'
    BY <1>11 DEF RuntimeTypeOK, ProcessExits, apiVars, loopVars, askVars, osVars
  <2>4. Ownership'
    BY <1>11 DEF RuntimeTypeOK, Ownership, ProcessExits, apiVars, loopVars, askVars, osVars
  <2>5. Counts'
    BY <1>11 DEF RuntimeTypeOK, Counts, ProcessExits, apiVars, loopVars, askVars, osVars
  <2> QED  BY <2>3, <2>4, <2>5
<1>12. ASSUME NEW x \in Sups, ProcessKilled(x) PROVE RuntimeInv'
  <2>3. RuntimeTypeOK'
    BY <1>12 DEF RuntimeTypeOK, ProcessKilled, apiVars, loopVars, askVars, osVars
  <2>4. Ownership'
    BY <1>12 DEF RuntimeTypeOK, Ownership, ProcessKilled, apiVars, loopVars, askVars, osVars
  <2>5. Counts'
    BY <1>12 DEF RuntimeTypeOK, Counts, ProcessKilled, apiVars, loopVars, askVars, osVars
  <2> QED  BY <2>3, <2>4, <2>5
<1>13. ASSUME NEW x \in Sups, GraceExpires(x) PROVE RuntimeInv'
  BY <1>13 DEF RuntimeTypeOK, Ownership, Counts, GraceExpires, apiVars, loopVars, askVars, osVars
<1>14. ASSUME NEW graceful \in BOOLEAN, StopNode(graceful) PROVE RuntimeInv'
  BY <1>14 DEF RuntimeTypeOK, Ownership, Counts, StopNode, Serving, apiVars, loopVars, askVars, osVars
<1>15. ASSUME NEW x \in Sups, NEW p \in Sups, ReconnectNode(x, p) PROVE RuntimeInv'
  <2>3. RuntimeTypeOK'
    BY <1>15 DEF RuntimeTypeOK, ReconnectNode, apiVars, loopVars, askVars, osVars
  <2>4. Ownership'
    BY <1>15 DEF RuntimeTypeOK, Ownership, ReconnectNode, apiVars, loopVars, askVars, osVars
  <2>5. Counts'
    BY <1>15 DEF RuntimeTypeOK, Counts, ReconnectNode, apiVars, loopVars, askVars, osVars
  <2> QED  BY <2>3, <2>4, <2>5
<1>16. ASSUME StartNodeFails PROVE RuntimeInv'
  BY <1>16 DEF RuntimeTypeOK, Ownership, Counts, StartNodeFails, Serving, CloseLog, apiVars, loopVars, askVars, osVars
<1>17. ASSUME Cleanup PROVE RuntimeInv'
  BY <1>17 DEF RuntimeTypeOK, Ownership, Counts, Cleanup, Serving, apiVars, loopVars, askVars, osVars
<1>18. ASSUME RestartNode PROVE RuntimeInv'
  BY <1>18 DEF RuntimeTypeOK, Ownership, Counts, RestartNode, Serving, apiVars, loopVars, askVars, osVars
<1>19. ASSUME RestartSignals PROVE RuntimeInv'
  BY <1>19 DEF RuntimeTypeOK, Ownership, Counts, RestartSignals, StopProcess, Signalled, apiVars, loopVars, askVars, osVars
<1>20. ASSUME CancelContext PROVE RuntimeInv'
  BY <1>20 DEF RuntimeTypeOK, Ownership, Counts, CancelContext, apiVars, loopVars, askVars, osVars
<1>21. ASSUME Detach PROVE RuntimeInv'
  BY <1>21 DEF RuntimeTypeOK, Ownership, Counts, Detach, Serving, CloseLog, apiVars, loopVars, askVars, osVars
<1>22. ASSUME DaemonExit PROVE RuntimeInv'
  <2>3. RuntimeTypeOK'
    BY <1>22 DEF RuntimeTypeOK, DaemonExit, apiVars, loopVars, askVars, osVars
  <2>4. Ownership'
    BY <1>22 DEF RuntimeTypeOK, Ownership, DaemonExit, apiVars, loopVars, askVars, osVars
  <2>5. Counts'
    BY <1>22 DEF RuntimeTypeOK, Counts, DaemonExit, apiVars, loopVars, askVars, osVars
  <2> QED  BY <2>3, <2>4, <2>5
<1>23. ASSUME DaemonStart PROVE RuntimeInv'
  BY <1>23 DEF RuntimeTypeOK, Ownership, Counts, DaemonStart, apiVars, loopVars, askVars, osVars
<1>24. CASE UNCHANGED runtimeVars
  BY <1>24 DEF RuntimeTypeOK, Ownership, Counts, runtimeVars, apiVars, loopVars, askVars, osVars
<1> QED
  BY <1>1, <1>2, <1>3, <1>4, <1>5, <1>6, <1>7, <1>8, <1>9, <1>10, <1>11, <1>12, <1>13, <1>14, <1>15, <1>16, <1>17, <1>18, <1>19, <1>20, <1>21, <1>22, <1>23, <1>24 DEF RuntimeNext, Stopping, Goroutine, Process

\* Who owns which process, and how launches and restarts are counted, for every
\* number of supervisors and every interleaving of calls, goroutines, process
\* exits and daemon restarts (supervisor.go, process.go).
THEOREM RuntimeInvariant == RuntimeSpec => []RuntimeInv
<1>1. RuntimeInit => RuntimeInv
  BY RuntimeInitInv
<1>2. RuntimeInv /\ [RuntimeNext]_runtimeVars => RuntimeInv'
  BY RuntimeStepInv
<1> QED
  BY <1>1, <1>2, PTL DEF RuntimeSpec

\* The restart limit holds: at most MaxRestarts + 1 launches per supervisor.
THEOREM RestartLimit == RuntimeSpec => []LaunchesBounded
<1>1. RuntimeInv => LaunchesBounded
  BY MaxRestartsAssumption DEF RuntimeInv, RuntimeTypeOK, Counts, LaunchesBounded
<1> QED
  BY <1>1, RuntimeInvariant, PTL

\* A StopNode that returned left no process of that supervisor behind.
THEOREM StoppingIsFinal == RuntimeSpec => []StopIsFinal
<1>1. RuntimeInv => StopIsFinal
  BY DEF RuntimeInv, Ownership, StopIsFinal
<1> QED
  BY <1>1, RuntimeInvariant, PTL

\* A closed stop channel keeps the supervisor from entering another launch.
THEOREM StopForbidsLaunch == RuntimeSpec => NoRelaunchAfterStop
<1>1. RuntimeInv /\ [RuntimeNext]_runtimeVars =>
        [\A s \in Sups : stopCh[s] /\ st[s] # "launch" => st'[s] # "launch"]_runtimeVars
  <2> SUFFICES ASSUME RuntimeInv, RuntimeNext, NEW s \in Sups, stopCh[s], st[s] # "launch"
               PROVE  st'[s] # "launch"
    BY DEF runtimeVars, apiVars, loopVars, askVars, osVars
  <2>1. st' = st \/ \E x \in Sups : st' = [st EXCEPT ![x] = "loop"]
                 \/ st' = [st EXCEPT ![x] = "wait"] \/ st' = [st EXCEPT ![x] = "backoff"]
                 \/ st' = [st EXCEPT ![x] = "done"] \/ st' = [st EXCEPT ![x] = "monitor"]
                 \/ (st' = [st EXCEPT ![x] = "launch"] /\ ~stopCh[x])
                 \/ st' = [y \in Sups |-> IF st[y] \in {"unused", "done"} THEN st[y] ELSE "gone"]
    BY DEF RuntimeNext, Stopping, Goroutine, Process, StartNode, ForceKill, CloseStopCh, StopReturns,
           LoopStops, LoopLaunches, CancelledOrStopped, Launch, Reap, BackoffEnds, MonitorEnds,
           ProcessExits, ProcessKilled, GraceExpires, StopNode, ReconnectNode, StartNodeFails,
           Cleanup, RestartNode, RestartSignals, CancelContext, Detach, DaemonExit, DaemonStart,
           loopVars
  <2> QED
    BY <2>1 DEF RuntimeInv, RuntimeTypeOK
<1> QED
  BY <1>1, RuntimeInvariant, PTL DEF RuntimeSpec, NoRelaunchAfterStop

\* The log manager never caches a closed writer, and only a StopNode takes the log
\* away from the supervisor in the map.
THEOREM LogKept == RuntimeSpec => []LogIsKept
<1>. DEFINE Down == daemon = "down" => writer = NoSup
<1>1. RuntimeInit => LogIsKept /\ Down
  BY DEF RuntimeInit, LogIsKept
<1>2. RuntimeInv /\ LogIsKept /\ Down /\ [RuntimeNext]_runtimeVars => LogIsKept' /\ Down'
  <2> SUFFICES ASSUME RuntimeInv, LogIsKept, Down, [RuntimeNext]_runtimeVars PROVE LogIsKept' /\ Down'
    OBVIOUS
  <2> USE SupsAssumption DEF RuntimeInv, RuntimeTypeOK, LogIsKept
  <2>1. CASE UNCHANGED <<apiVars, detach>> /\ (daemon' = "down" => daemon = "down")
    BY <2>1 DEF apiVars
  <2>2. ASSUME NEW s \in Sups, StartNode(s) PROVE LogIsKept' /\ Down'
    BY <2>2 DEF StartNode, Serving
  <2>3. CASE StartNodeFails \/ Detach
    BY <2>3 DEF StartNodeFails, Detach, CloseLog, Serving
  <2>4. ASSUME NEW s \in Sups, StopReturns(s) PROVE LogIsKept' /\ Down'
    BY <2>4 DEF StopReturns, CloseLog, askVars
  <2>5. CASE UNCHANGED <<writer, open, logOf, daemon>> /\ registered' = NoSup
    BY <2>5
  <2>6. ASSUME NEW s \in Sups, ForceKill(s) \/ CloseStopCh(s) PROVE LogIsKept' /\ Down'
    BY <2>6 DEF ForceKill, CloseStopCh, askVars
  <2>7. CASE Cleanup
    BY <2>7 DEF Cleanup, askVars
  <2>8. CASE RestartNode \/ RestartSignals
    BY <2>8 DEF RestartNode, RestartSignals, askVars
  <2>9. CASE DaemonExit
    BY <2>9 DEF DaemonExit
  <2>10. ASSUME NEW s \in Sups, NEW p \in Sups, ReconnectNode(s, p) PROVE LogIsKept' /\ Down'
    BY <2>10 DEF ReconnectNode
  <2>11. ASSUME NEW s \in Sups, Goroutine(s) \/ Process(s) PROVE UNCHANGED <<apiVars, detach, daemon>>
    BY <2>11 DEF Goroutine, Process, LoopStops, LoopLaunches, Launch, Reap, BackoffEnds, MonitorEnds,
                 ProcessExits, ProcessKilled, GraceExpires, askVars
  <2>12. ASSUME NEW graceful \in BOOLEAN, StopNode(graceful) PROVE LogIsKept' /\ Down'
    BY <2>12, <2>5 DEF StopNode
  <2>13. CASE CancelContext \/ DaemonStart
    BY <2>13, <2>1 DEF CancelContext, DaemonStart, askVars
  <2>14. CASE UNCHANGED runtimeVars
    BY <2>14, <2>1 DEF runtimeVars, askVars
  <2> QED
    BY <2>1, <2>2, <2>3, <2>4, <2>6, <2>7, <2>8, <2>9, <2>10, <2>11, <2>12, <2>13, <2>14 DEF RuntimeNext, Stopping
<1> QED
  BY <1>1, <1>2, RuntimeInvariant, PTL DEF RuntimeSpec

=============================================================================
