----------------------- MODULE ResumableUpgrade_proofs -----------------------
(***************************************************************************)
(* Proofs about ResumableUpgrade for every number of validators, every     *)
(* lead of the upgrade height and all bounds on commands, upsets and       *)
(* blocks.                                                                 *)
(***************************************************************************)
EXTENDS ResumableUpgrade, TLAPS, FiniteSetTheorems

USE SizesAssumption, BoundsAssumption

-----------------------------------------------------------------------------
(* The inductive invariant.                                                  *)

\* Where a run stands: the stage in memory is the one it is in, a proposal whose receipt
\* it waits for is on the chain, a node it restarts exists, and a run that skips
\* governance says so.  A file that is completed has no run but the one that deletes it.
RunShape ==
  /\ run.at \in GovStages => run.st.stage = run.at
  /\ run.at = "receipt" => run.st.stage = "Initialized" /\ proposals # <<>>
  /\ run.at \in {"start", "save"} => run.st.stage = "SwitchingBinary" /\ run.next < Validators
  /\ run.next <= Validators /\ run.good <= run.next
  /\ run.skip => run.st.free
  /\ run.at \notin {"idle", "Completed"} => file.stage # "Completed"

\* As long as no vote of this run has failed, all it has tried are on the proposal.
VotesSoFar ==
  run.at = "Voting" /\ run.good = run.next /\ run.next > 0 =>
    run.st.proposal \in DOMAIN proposals /\ 1 .. run.next \subseteq proposals[run.st.proposal].votes

\* The proposal that a file past the Voting stage names is on the chain.
ProposalNamed ==
  file.stage \in AfterHeight \cup {"WaitingForHeight"} /\ ~file.free => file.proposal \in DOMAIN proposals

\* The proposal of the file is on the chain, and neither it nor any that somebody voted
\* for has a later height than the file.
VotedBelow ==
  file.proposal # 0 =>
    /\ file.proposal \in DOMAIN proposals
    /\ \A p \in DOMAIN proposals :
         proposals[p].votes # {} \/ p = file.proposal => proposals[p].target <= file.target

\* Proposals are ordered by height, and their voting periods end in that order.
ProposalsInOrder ==
  \A p, q \in DOMAIN proposals :
    p < q => proposals[p].target <= proposals[q].target /\ (Voting(p) => Voting(q))

\* A voting period ends before the height of its proposal; a proposal with all votes is
\* not rejected; and of those that passed the chain has carried one out, or will at
\* the height of the last.
ProposalFates ==
  \A p \in DOMAIN proposals :
    /\ proposals[p].target <= height + Lead
    /\ Voting(p) => height < proposals[p].target
    /\ proposals[p].status = "rejected" => proposals[p].votes # Node
    /\ proposals[p].status = "passed" => applied \/ (plan # 0 /\ proposals[p].target <= plan)

\* The chain has not gone past its plan, which is that of a proposal with votes.
PlanAhead ==
  plan # 0 =>
    height <= plan /\ \E q \in DOMAIN proposals : plan = proposals[q].target /\ proposals[q].votes # {}

\* The height that verifyChainResumed has read is not below the upgrade height, and a
\* block after it shows that enough nodes run the new binary.
ResumedRead ==
  run.at = "VerifyingResume" /\ ~run.st.free /\ run.seen > 0 =>
    run.st.target <= run.seen /\ run.seen <= height /\ (height > run.seen => Quorum(NewNodes))

ChainInv == ProposalsInOrder /\ ProposalFates /\ PlanAhead
RunInv == RunShape /\ MemoryMatchesFile
VoteInv == VotesSoFar /\ ProposalNamed /\ VotesAreCast /\ VotedBelow

-----------------------------------------------------------------------------
(* Types, and what the actions do to the records.                            *)

LEMMA IdleTypes ==
  /\ NoState \in States /\ Idle \in Runs
  /\ Idle.at = "idle" /\ Idle.next = 0 /\ Idle.good = 0 /\ Idle.seen = 0
  /\ Idle.skip = FALSE /\ NoState.stage = "none" /\ NoState.free = FALSE /\ NoState.proposal = 0
<1>1. NoState \in States
  BY DEF NoState, States
<1>. QED
  BY <1>1 DEF Idle, Runs, NoState

\* A save: memory and file are the same, in the next stage, and the counters start
\* again.
LEMMA SaveEffect ==
  ASSUME TypeOK, NEW st \in States, NEW stage \in GovStages, Save(st, stage)
  PROVE  /\ file' \in States /\ run' \in Runs /\ run'.at = stage /\ run'.st = file'
         /\ file'.stage = stage /\ file'.proposal = st.proposal
         /\ file'.target = st.target /\ file'.free = st.free
         /\ run'.skip = run.skip /\ run'.next = 0 /\ run'.good = 0 /\ run'.seen = 0
<1>1. file' = [st EXCEPT !.stage = stage] /\ stage \in Stages
  BY DEF Save, Stages
<1>2. /\ file' \in States /\ file'.stage = stage /\ file'.proposal = st.proposal
      /\ file'.target = st.target /\ file'.free = st.free
  BY <1>1 DEF States
<1>3. run.skip \in BOOLEAN /\ run.cancelled \in BOOLEAN
  BY DEF TypeOK, Runs
<1>4. run' = [Idle EXCEPT !.at = stage, !.st = file', !.skip = run.skip, !.cancelled = run.cancelled]
  BY <1>1 DEF Save
<1>5. run' = [at |-> stage, st |-> file', skip |-> run.skip, cancelled |-> run.cancelled,
              next |-> 0, good |-> 0, seen |-> 0]
  BY <1>4 DEF Idle
<1>. QED
  BY <1>2, <1>3, <1>5 DEF Runs

\* A failure: the file has the memory of the run, and the run ends.
LEMMA FailEffect ==
  ASSUME TypeOK, Fail
  PROVE  /\ file' \in States /\ run' = Idle /\ file'.stage = "Failed"
         /\ file'.proposal = run.st.proposal /\ file'.target = run.st.target /\ file'.free = run.st.free
<1>1. run.st \in States /\ "Failed" \in Stages
  BY DEF TypeOK, Runs, Stages, Terminal
<1>. QED
  BY <1>1 DEF Fail, States

LEMMA CountsType ==
  ASSUME TypeOK, NEW c \in Counted, Counts(c)
  PROVE  count' \in [Counted -> Nat]
BY DEF TypeOK, Counts

LEMMA CountTypes ==
  ASSUME TypeOK, UNCHANGED count \/ Counts("commands") \/ Counts("upsets") \/ Counts("blocks")
  PROVE  count' \in [Counted -> Nat]
BY CountsType DEF TypeOK, Counted

\* A run with other counters, and one at another place as well.
Places == {"start", "save", "receipt"} \cup GovStages

Is(x, r, a, n, g, s) ==
  /\ x \in Runs /\ x.st = r.st /\ x.skip = r.skip
  /\ x.at = a /\ x.next = n /\ x.good = g /\ x.seen = s

LEMMA RunWith ==
  ASSUME NEW r \in Runs
  PROVE  /\ \A n, g \in Nat : Is([r EXCEPT !.next = n, !.good = g], r, r.at, n, g, r.seen)
         /\ \A a \in Places : Is([r EXCEPT !.at = a], r, a, r.next, r.good, r.seen)
         /\ \A s \in Nat : Is([r EXCEPT !.seen = s], r, r.at, r.next, r.good, s)
         /\ \A a \in Places, s \in Nat : Is([r EXCEPT !.at = a, !.seen = s], r, a, r.next, r.good, s)
         /\ \A a \in Places, n \in Nat : Is([r EXCEPT !.at = a, !.next = n], r, a, n, r.good, r.seen)
         /\ \A a \in Places, n, g, s \in Nat : Is([r EXCEPT !.at = a, !.next = n, !.good = g, !.seen = s], r, a, n, g, s)
<1>1. \A n, g \in Nat : Is([r EXCEPT !.next = n, !.good = g], r, r.at, n, g, r.seen)
  BY DEF Runs, Places, Is
<1>2. \A a \in Places : Is([r EXCEPT !.at = a], r, a, r.next, r.good, r.seen)
  BY DEF Runs, Places, Is
<1>3. \A s \in Nat : Is([r EXCEPT !.seen = s], r, r.at, r.next, r.good, s)
  BY DEF Runs, Places, Is
<1>4. \A a \in Places, s \in Nat : Is([r EXCEPT !.at = a, !.seen = s], r, a, r.next, r.good, s)
  BY DEF Runs, Places, Is
<1>5. \A a \in Places, n \in Nat : Is([r EXCEPT !.at = a, !.next = n], r, a, n, r.good, r.seen)
  BY DEF Runs, Places, Is
<1>6. \A a \in Places, n, g, s \in Nat : Is([r EXCEPT !.at = a, !.next = n, !.good = g, !.seen = s], r, a, n, g, s)
  <2>. TAKE a \in Places, n, g, s \in Nat
  <2>. QED
    BY DEF Runs, Places, Is
<1>. QED
  BY <1>1, <1>2, <1>3, <1>4, <1>5, <1>6

\* A vote is for a proposal in its voting period.
LEMMA CastEffect ==
  ASSUME TypeOK, NEW p \in DOMAIN proposals, NEW i \in Node, NEW cast,
         cast = [proposals EXCEPT ![p].votes = @ \cup {i}]
  PROVE  /\ cast \in Seq(Proposals) /\ DOMAIN cast = DOMAIN proposals
         /\ cast[p].votes = proposals[p].votes \cup {i}
         /\ cast[p].status = proposals[p].status /\ cast[p].target = proposals[p].target
         /\ \A q \in DOMAIN proposals \ {p} : cast[q] = proposals[q]
<1>1. proposals \in Seq(Proposals) /\ proposals[p] \in Proposals
  BY DEF TypeOK
<1>2. cast = [proposals EXCEPT ![p] = [proposals[p] EXCEPT !.votes = proposals[p].votes \cup {i}]]
  BY <1>1
<1>3. /\ [proposals[p] EXCEPT !.votes = proposals[p].votes \cup {i}] \in Proposals
      /\ [proposals[p] EXCEPT !.votes = proposals[p].votes \cup {i}].votes = proposals[p].votes \cup {i}
      /\ [proposals[p] EXCEPT !.votes = proposals[p].votes \cup {i}].status = proposals[p].status
      /\ [proposals[p] EXCEPT !.votes = proposals[p].votes \cup {i}].target = proposals[p].target
  BY <1>1 DEF Proposals
<1>4. PICK r \in Proposals : /\ r = [proposals[p] EXCEPT !.votes = proposals[p].votes \cup {i}]
                             /\ cast = [proposals EXCEPT ![p] = r]
  BY <1>2, <1>3
<1>5. cast \in Seq(Proposals) /\ DOMAIN cast = DOMAIN proposals /\ cast[p] = r
      /\ \A q \in DOMAIN proposals \ {p} : cast[q] = proposals[q]
  BY <1>1, <1>4
<1>. QED
  BY <1>3, <1>4, <1>5

\* What a vote does to the proposals, the run and the file.
LEMMA VoteEffect ==
  ASSUME TypeOK, CastVote, NEW p, p = run.st.proposal, NEW i, i = run.next + 1
  PROVE  /\ run.at = "Voting" /\ i \in Node /\ UNCHANGED <<plan, height, applied, nodes>>
         /\ run' \in Runs /\ run'.at = "Voting" /\ run'.st = run.st /\ run'.skip = run.skip
         /\ run'.next = i /\ run'.seen = run.seen /\ run'.good \in {run.good, run.good + 1}
         /\ \/ proposals' = proposals
            \/ Voting(p) /\ p \in DOMAIN proposals /\ proposals' = [proposals EXCEPT ![p].votes = @ \cup {i}]
         /\ run'.good = run.good \/ (p \in DOMAIN proposals /\ proposals' = [proposals EXCEPT ![p].votes = @ \cup {i}])
         /\ file' = file \/ file' = run.st
         /\ count' \in [Counted -> Nat]
<1>1. run \in Runs /\ run.next \in Nat /\ run.good \in Nat /\ run.at = "Voting" /\ run.next < Validators
  BY DEF TypeOK, Runs, CastVote
<1>2. i \in Node
  BY <1>1 DEF Node
<1>3. PICK cast : cast = [proposals EXCEPT ![p].votes = @ \cup {i}]
  OBVIOUS
<1>4. \/ /\ Voting(p) /\ proposals' = cast /\ UNCHANGED count
         /\ run' = [run EXCEPT !.next = i, !.good = run.good + 1]
      \/ run' = [run EXCEPT !.next = i] /\ UNCHANGED <<proposals, count>>
      \/ Voting(p) /\ Counts("upsets") /\ proposals' \in {proposals, cast} /\ run' = [run EXCEPT !.next = i]
  BY <1>3 DEF CastVote
<1>5. /\ [run EXCEPT !.next = i] \in Runs /\ [run EXCEPT !.next = i].at = run.at
      /\ [run EXCEPT !.next = i].st = run.st /\ [run EXCEPT !.next = i].skip = run.skip
      /\ [run EXCEPT !.next = i].next = i /\ [run EXCEPT !.next = i].seen = run.seen
      /\ [run EXCEPT !.next = i].good = run.good
  BY <1>1 DEF Runs
<1>6. PICK g : g = [run EXCEPT !.next = i, !.good = run.good + 1]
  OBVIOUS
<1>7. /\ g \in Runs /\ g.at = run.at /\ g.st = run.st /\ g.skip = run.skip
      /\ g.next = i /\ g.seen = run.seen /\ g.good = run.good + 1
  <2>1. Is([run EXCEPT !.next = i, !.good = run.good + 1], run, run.at, i, run.good + 1, run.seen)
    <3>1. PICK h \in Nat : h = run.good + 1
      BY <1>1
    <3>2. i \in Nat
      BY <1>1
    <3>3. Is([run EXCEPT !.next = i, !.good = h], run, run.at, i, h, run.seen)
      BY <1>1, <3>2, RunWith
    <3>. QED
      BY <3>1, <3>3
  <2>. QED
    BY <1>6, <2>1 DEF Is
<1>8. Voting(p) => p \in DOMAIN proposals
  BY DEF Voting
<1>9. file' = file \/ file' = run.st
  BY DEF CastVote, Track
<1>10. count' \in [Counted -> Nat]
  BY <1>4, CountTypes
<1>11. UNCHANGED <<plan, height, applied, nodes>>
  BY DEF CastVote
<1>12. CASE Voting(p) /\ proposals' = cast /\ run' = [run EXCEPT !.next = i, !.good = run.good + 1]
  BY <1>1, <1>2, <1>3, <1>6, <1>7, <1>8, <1>9, <1>10, <1>11, <1>12
<1>13. CASE run' = [run EXCEPT !.next = i] /\ (proposals' = proposals \/ (Voting(p) /\ proposals' = cast))
  BY <1>1, <1>2, <1>3, <1>5, <1>8, <1>9, <1>10, <1>11, <1>13
<1>. QED
  BY <1>4, <1>12, <1>13

\* The commands keep the types.
LEMMA CommandTypes ==
  ASSUME TypeOK, Start \/ Resume \/ ClearState \/ Completed
  PROVE  file' \in States /\ run' \in Runs
<1>1. CASE Start
  <2>0. PICK skip \in BOOLEAN :
          /\ file' = [NoState EXCEPT !.stage = "Initialized", !.free = skip]
          /\ run' = [Idle EXCEPT !.at = "Initialized", !.st = file', !.skip = skip]
    BY <1>1 DEF Start
  <2>. DEFINE st == file'
  <2>1. /\ skip \in BOOLEAN
        /\ st = [NoState EXCEPT !.stage = "Initialized", !.free = skip] /\ file' = st
        /\ run' = [Idle EXCEPT !.at = "Initialized", !.st = st, !.skip = skip]
    BY <2>0
  <2>. HIDE DEF st
  <2>2. st \in States
    BY <2>1, IdleTypes DEF States, Stages, GovStages
  <2>3. run' \in Runs
    BY <2>1, <2>2, IdleTypes DEF Runs, GovStages
  <2>. QED
    BY <2>1, <2>2, <2>3
<1>2. CASE Resume
  <2>1. PICK skip, from, st :
          /\ skip \in BOOLEAN /\ from \in Stages
          /\ st = [file EXCEPT !.stage = from, !.free = file.free \/ skip \/ from # file.stage]
          /\ \/ run' = Idle
             \/ from \in GovStages /\ run' = [Idle EXCEPT !.at = from, !.skip = skip, !.st = st]
    BY <1>2 DEF Resume, SkipStages, GovStages
  <2>2. st \in States
    BY <2>1 DEF TypeOK, States
  <2>3. run' \in Runs
    BY <2>1, <2>2, IdleTypes DEF Runs
  <2>. QED
    BY <1>2, <2>3 DEF Resume, TypeOK
<1>3. CASE ClearState \/ Completed
  BY <1>3, IdleTypes DEF ClearState, Completed, TypeOK
<1>. QED
  BY <1>1, <1>2, <1>3

\* Which stages save what.
LEMMA SaveCases ==
  ASSUME TypeOK,
         \/ PassThrough \/ WaitForUpgradeHeight \/ WaitForChainHalt \/ SwitchReturns
         \/ (VotesCounted /\ run.good = Validators) \/ (VerifyChainResumed /\ run.seen > 0)
  PROVE  \E stage \in GovStages :
           /\ Save(run.st, stage) /\ UNCHANGED <<chain, nodes>> /\ run.st \in States /\ run.at \in GovStages
           /\ count' \in [Counted -> Nat]
           /\ \/ run.at = "Initialized" /\ stage = "SwitchingBinary" /\ run.skip
              \/ run.at = "ProposalSubmitted" /\ stage = "Voting"
              \/ run.at = "Voting" /\ stage = "WaitingForHeight" /\ run.good = Validators /\ run.next = Validators
              \/ run.at = "WaitingForHeight" /\ stage = "ChainHalted" /\ height >= run.st.target
              \/ run.at = "ChainHalted" /\ stage = "SwitchingBinary"
              \/ run.at = "SwitchingBinary" /\ stage = "VerifyingResume"
              \/ run.at = "VerifyingResume" /\ stage = "Completed" /\ 0 < run.seen /\ run.seen < height
<1>. USE DEF GovStages
<1>1. run.st \in States /\ run.seen \in Nat
  BY DEF TypeOK, Runs
<1>2. count' \in [Counted -> Nat]
  <2>1. UNCHANGED count \/ Counts("upsets")
    BY DEF PassThrough, WaitForUpgradeHeight, WaitForChainHalt, SwitchReturns, VotesCounted, VerifyChainResumed
  <2>. QED
    BY <2>1, CountTypes
<1>3. CASE PassThrough
  BY <1>1, <1>2, <1>3 DEF PassThrough
<1>4. CASE VotesCounted /\ run.good = Validators
  BY <1>1, <1>2, <1>4 DEF VotesCounted
<1>5. CASE WaitForUpgradeHeight
  BY <1>1, <1>2, <1>5 DEF WaitForUpgradeHeight
<1>6. CASE WaitForChainHalt
  BY <1>1, <1>2, <1>6 DEF WaitForChainHalt
<1>7. CASE SwitchReturns
  BY <1>1, <1>2, <1>7 DEF SwitchReturns
<1>8. CASE VerifyChainResumed /\ run.seen > 0
  BY <1>1, <1>2, <1>8 DEF VerifyChainResumed
<1>. QED
  BY <1>3, <1>4, <1>5, <1>6, <1>7, <1>8

\* Which steps fail the upgrade.
LEMMA FailCases ==
  ASSUME TypeOK, ProposalRefused \/ VoteRefused \/ CallFails \/ TimesOut \/ (VotesCounted /\ run.good # Validators)
  PROVE  /\ Fail /\ UNCHANGED <<chain, nodes>> /\ count' \in [Counted -> Nat]
         /\ run.at \in (GovStages \ {"Completed"}) \cup {"receipt"}
<1>1. /\ Fail /\ UNCHANGED <<chain, nodes>> /\ (UNCHANGED count \/ Counts("upsets"))
      /\ run.at \in (GovStages \ {"Completed"}) \cup {"receipt"}
  BY DEF ProposalRefused, VoteRefused, CallFails, TimesOut, VotesCounted, GovStages
<1>. QED
  BY <1>1, CountTypes

\* The receipt: the height is that of the last proposal, the number its own or one.
LEMMA ReceiptEffect ==
  ASSUME TypeOK, RunShape, ProposalReceipt
  PROVE  /\ UNCHANGED <<chain, nodes>> /\ count' \in [Counted -> Nat] /\ run.at = "receipt"
         /\ Len(proposals) \in Nat \ {0} /\ DOMAIN proposals = 1 .. Len(proposals)
         /\ file' \in States /\ run' \in Runs /\ run'.at = "ProposalSubmitted" /\ run'.st = file'
         /\ file'.stage = "ProposalSubmitted" /\ file'.proposal \in {1, Len(proposals)}
         /\ file'.target = proposals[Len(proposals)].target /\ file'.free = run.st.free
         /\ run'.skip = run.skip /\ run'.next = 0 /\ run'.good = 0 /\ run'.seen = 0
<1>1. /\ proposals \in Seq(Proposals) /\ proposals # <<>> /\ run.st \in States /\ run.at = "receipt"
  BY DEF TypeOK, Runs, RunShape, ProposalReceipt
<1>2. /\ Len(proposals) \in Nat \ {0} /\ DOMAIN proposals = 1 .. Len(proposals)
      /\ proposals[Len(proposals)] \in Proposals
  BY <1>1
<1>3. proposals[Len(proposals)].target \in Nat
  BY <1>2 DEF Proposals
<1>0. PICK n \in {1, Len(proposals)} :
        Save([run.st EXCEPT !.proposal = n, !.target = proposals[Len(proposals)].target], "ProposalSubmitted")
  BY DEF ProposalReceipt
<1>. DEFINE st == [run.st EXCEPT !.proposal = n, !.target = proposals[Len(proposals)].target]
<1>4. /\ n \in {1, Len(proposals)}
      /\ st = [run.st EXCEPT !.proposal = n, !.target = proposals[Len(proposals)].target]
      /\ Save(st, "ProposalSubmitted")
  BY <1>0
<1>. HIDE DEF st
<1>5. PICK h \in Nat : h = proposals[Len(proposals)].target
  BY <1>3
<1>6. n \in Nat
  BY <1>2, <1>4
<1>7. st = [run.st EXCEPT !.proposal = n, !.target = h]
  BY <1>4, <1>5
<1>8. st \in States /\ st.proposal = n /\ st.target = h /\ st.free = run.st.free
  BY <1>1, <1>6, <1>7 DEF States
<1>9. UNCHANGED <<chain, nodes>> /\ (UNCHANGED count \/ Counts("upsets"))
  BY DEF ProposalReceipt
<1>10. count' \in [Counted -> Nat]
  BY <1>9, CountTypes
<1>11. "ProposalSubmitted" \in GovStages
  BY DEF GovStages
<1>. QED
  BY <1>1, <1>2, <1>4, <1>5, <1>8, <1>9, <1>10, <1>11, SaveEffect

\* A new proposal is the last one and in its voting period.
LEMMA SubmitEffect ==
  ASSUME TypeOK, SubmitProposal
  PROVE  /\ proposals' \in Seq(Proposals) /\ DOMAIN proposals' = 1 .. Len(proposals) + 1
         /\ DOMAIN proposals = 1 .. Len(proposals) /\ Len(proposals) \in Nat
         /\ \A p \in DOMAIN proposals : proposals'[p] = proposals[p]
         /\ proposals'[Len(proposals) + 1] = [status |-> "voting", target |-> height + Lead, votes |-> {}]
         /\ Is(run', run, "receipt", run.next, run.good, run.seen)
         /\ run.at = "Initialized" /\ ~run.skip
         /\ UNCHANGED <<file, plan, height, applied, nodes, count>>
<1>1. proposals \in Seq(Proposals) /\ height \in Nat /\ run \in Runs
  BY DEF TypeOK
<1>2. [status |-> "voting", target |-> height + Lead, votes |-> {}] \in Proposals
  BY <1>1 DEF Proposals
<1>3. PICK r \in Proposals : r = [status |-> "voting", target |-> height + Lead, votes |-> {}]
  BY <1>2
<1>4. proposals' = Append(proposals, r)
  BY <1>3 DEF SubmitProposal
<1>5. Is(run', run, "receipt", run.next, run.good, run.seen)
  BY <1>1, RunWith DEF SubmitProposal, Places
<1>6. /\ proposals' \in Seq(Proposals) /\ DOMAIN proposals' = 1 .. Len(proposals) + 1
      /\ DOMAIN proposals = 1 .. Len(proposals) /\ Len(proposals) \in Nat
      /\ \A p \in DOMAIN proposals : proposals'[p] = proposals[p]
      /\ proposals'[Len(proposals) + 1] = r
  BY <1>1, <1>4
<1>7. run.at = "Initialized" /\ ~run.skip /\ UNCHANGED <<file, plan, height, applied, nodes, count>>
  BY DEF SubmitProposal
<1>. QED
  BY <1>3, <1>5, <1>6, <1>7

\* The steps of the switch: they change one node, the place of the run and its
\* counters, and save the memory of the run at the end.
LEMMA SwitchEffect ==
  ASSUME TypeOK, RunShape, StopNode \/ StartNode \/ SaveNode
  PROVE  /\ UNCHANGED chain /\ nodes' \in [Node -> Nodes] /\ count' \in [Counted -> Nat]
         /\ run.at \in {"SwitchingBinary", "start", "save"} /\ run.st.stage = "SwitchingBinary"
         /\ run' \in Runs /\ run'.st = run.st /\ run'.skip = run.skip
         /\ run'.at \in {"SwitchingBinary", "start", "save"}
         /\ run'.at \in {"start", "save"} => run'.next < Validators
         /\ run'.next <= Validators /\ run'.good <= run'.next
         /\ file' = file \/ file' = run.st
<1>1. run \in Runs /\ run.next \in Nat /\ run.good \in Nat /\ run.seen \in Nat
  BY DEF TypeOK, Runs
<1>2. run.good <= run.next /\ run.next <= Validators
  BY DEF RunShape
<1>3. UNCHANGED chain /\ count' \in [Counted -> Nat]
  <2>1. UNCHANGED chain /\ (UNCHANGED count \/ Counts("upsets"))
    BY DEF StopNode, StartNode, SaveNode
  <2>. QED
    BY <2>1, CountTypes
<1>4. file' = file \/ file' = run.st
  BY DEF StopNode, StartNode, SaveNode, Track
<1>5. /\ run.at \in {"SwitchingBinary", "start", "save"} /\ run.st.stage = "SwitchingBinary"
      /\ run.next < Validators
  BY DEF StopNode, StartNode, SaveNode, RunShape, GovStages
<1>6. PICK i \in Node : i = run.next + 1 /\ i \in Nat /\ i <= Validators
  BY <1>1, <1>5 DEF Node
<1>7. PICK g \in Nat : g = run.good + 1
  BY <1>1
<1>8. nodes[i] \in Nodes /\ nodes \in [Node -> Nodes]
  BY DEF TypeOK
<1>9. CASE StopNode
  <2>1. run' = [run EXCEPT !.at = "start"]
    BY <1>9 DEF StopNode
  <2>2. Is(run', run, "start", run.next, run.good, run.seen)
    BY <1>1, <2>1, RunWith DEF Places
  <2>3. nodes' \in [Node -> Nodes]
    <3>1. [bin |-> "down", known |-> FALSE] \in Nodes
      BY DEF Nodes
    <3>. QED
      BY <1>6, <1>8, <1>9, <3>1 DEF StopNode
  <2>. QED
    BY <1>1, <1>2, <1>3, <1>4, <1>5, <2>2, <2>3 DEF Is
<1>10. CASE StartNode
  <2>1. \/ \E s \in {0, 1} : run' = [run EXCEPT !.at = "save", !.seen = s]
        \/ run' = [run EXCEPT !.at = "SwitchingBinary", !.next = i]
    BY <1>6, <1>10 DEF StartNode
  <2>2. \/ \E s \in Nat : Is(run', run, "save", run.next, run.good, s)
        \/ Is(run', run, "SwitchingBinary", i, run.good, run.seen)
    <3>1. \A s \in Nat : Is([run EXCEPT !.at = "save", !.seen = s], run, "save", run.next, run.good, s)
      BY <1>1, RunWith DEF Places
    <3>2. Is([run EXCEPT !.at = "SwitchingBinary", !.next = i], run, "SwitchingBinary", i, run.good, run.seen)
      BY <1>1, <1>6, RunWith DEF Places, GovStages
    <3>3. CASE \E s \in {0, 1} : run' = [run EXCEPT !.at = "save", !.seen = s]
      <4>1. PICK s \in {0, 1} : run' = [run EXCEPT !.at = "save", !.seen = s]
        BY <3>3
      <4>2. s \in Nat
        BY <4>1
      <4>. QED
        BY <3>1, <4>1, <4>2
    <3>. QED
      BY <2>1, <3>2, <3>3
  <2>3. nodes' \in [Node -> Nodes]
    <3>1. /\ [bin |-> "new", known |-> FALSE] \in Nodes
          /\ [bin |-> nodes[i].bin, known |-> FALSE] \in Nodes
      BY <1>8 DEF Nodes
    <3>2. \/ nodes' = nodes
          \/ nodes' = [nodes EXCEPT ![i] = [bin |-> "new", known |-> FALSE]]
          \/ nodes' = [nodes EXCEPT ![i] = [bin |-> nodes[i].bin, known |-> FALSE]]
      BY <1>6, <1>8, <1>10 DEF StartNode
    <3>. QED
      BY <1>8, <3>1, <3>2
  <2>4. CASE \E s \in Nat : Is(run', run, "save", run.next, run.good, s)
    BY <1>1, <1>2, <1>3, <1>4, <1>5, <2>3, <2>4 DEF Is
  <2>5. CASE Is(run', run, "SwitchingBinary", i, run.good, run.seen)
    BY <1>1, <1>2, <1>3, <1>4, <1>5, <1>6, <2>3, <2>5 DEF Is
  <2>. QED
    BY <2>2, <2>4, <2>5
<1>11. CASE SaveNode
  <2>1. run' = [run EXCEPT !.at = "SwitchingBinary", !.next = i, !.good = g, !.seen = 0]
    BY <1>6, <1>7, <1>11 DEF SaveNode
  <2>2. Is(run', run, "SwitchingBinary", i, g, 0)
    BY <1>1, <1>6, <2>1, RunWith DEF Places, GovStages
  <2>3. nodes' \in [Node -> Nodes]
    <3>1. \A k \in BOOLEAN : [nodes[i] EXCEPT !.known = k] \in Nodes
      BY <1>8 DEF Nodes
    <3>2. nodes' = [nodes EXCEPT ![i] = [nodes[i] EXCEPT !.known = (run.seen = 1)]]
      BY <1>6, <1>8, <1>11 DEF SaveNode
    <3>. QED
      BY <1>8, <3>1, <3>2
  <2>. QED
    BY <1>1, <1>2, <1>3, <1>4, <1>5, <1>6, <1>7, <2>2, <2>3 DEF Is
<1>. QED
  BY <1>9, <1>10, <1>11

\* The first read of the height.
LEMMA ReadEffect ==
  ASSUME TypeOK, VerifyChainResumed, ~(run.seen > 0)
  PROVE  /\ Is(run', run, "VerifyingResume", run.next, run.good, height) /\ run.at = "VerifyingResume"
         /\ UNCHANGED <<file, chain, nodes, count>>
<1>1. run \in Runs /\ run.seen \in Nat /\ height \in Nat /\ run.at = "VerifyingResume"
  BY DEF TypeOK, Runs, VerifyChainResumed
<1>2. run' = [run EXCEPT !.seen = height] /\ UNCHANGED <<file, chain, nodes, count>>
  BY <1>1 DEF VerifyChainResumed
<1>3. Is([run EXCEPT !.seen = height], run, run.at, run.next, run.good, height)
  BY <1>1, RunWith
<1>. QED
  BY <1>1, <1>2, <1>3

\* The end of a voting period.
LEMMA EndEffect ==
  ASSUME TypeOK, EndVoting
  PROVE  \E p \in DOMAIN proposals, s \in {"passed", "rejected"} :
           /\ Voting(p) /\ \A q \in 1 .. p - 1 : ~Voting(q)
           /\ s = "passed" => proposals[p].votes # {}
           /\ s = "rejected" => proposals[p].votes # Node
           /\ plan' = IF s = "passed" THEN proposals[p].target ELSE plan
           /\ proposals' \in Seq(Proposals) /\ DOMAIN proposals' = DOMAIN proposals
           /\ proposals'[p].status = s /\ proposals'[p].votes = proposals[p].votes
           /\ proposals'[p].target = proposals[p].target
           /\ \A q \in DOMAIN proposals \ {p} : proposals'[q] = proposals[q]
           /\ UNCHANGED <<file, run, height, applied, nodes, count>>
<1>1. PICK p \in DOMAIN proposals, s \in {"passed", "rejected"} :
        /\ Voting(p) /\ \A q \in 1 .. p - 1 : ~Voting(q)
        /\ s = "passed" => proposals[p].votes # {}
        /\ s = "rejected" => proposals[p].votes # Node
        /\ plan' = IF s = "passed" THEN proposals[p].target ELSE plan
        /\ proposals' = [proposals EXCEPT ![p].status = s]
  BY DEF EndVoting
<1>2. proposals \in Seq(Proposals) /\ proposals[p] \in Proposals
  BY <1>1 DEF TypeOK
<1>3. PICK r : r = [proposals[p] EXCEPT !.status = s]
  OBVIOUS
<1>4. r \in Proposals /\ r.status = s /\ r.votes = proposals[p].votes /\ r.target = proposals[p].target
  BY <1>1, <1>2, <1>3 DEF Proposals
<1>5. proposals' = [proposals EXCEPT ![p] = r]
  BY <1>1, <1>2, <1>3
<1>6. /\ proposals' \in Seq(Proposals) /\ DOMAIN proposals' = DOMAIN proposals /\ proposals'[p] = r
      /\ \A q \in DOMAIN proposals \ {p} : proposals'[q] = proposals[q]
  BY <1>1, <1>2, <1>4, <1>5
<1>7. UNCHANGED <<file, run, height, applied, nodes, count>>
  BY DEF EndVoting
<1>. QED
  BY <1>1, <1>4, <1>6, <1>7

\* All steps keep the types.
LEMMA TypeStep ==
  ASSUME TypeOK, RunShape, Next \/ UNCHANGED vars
  PROVE  TypeOK'
<1>. USE DEF chain
<1>1. CASE Start \/ Resume \/ ClearState \/ Completed
  <2>1. UNCHANGED <<chain, nodes>> /\ (UNCHANGED count \/ Counts("commands"))
    BY <1>1 DEF Start, Resume, ClearState, Completed
  <2>. QED
    BY <1>1, <2>1, CommandTypes, CountTypes DEF TypeOK
<1>2. CASE \/ PassThrough \/ WaitForUpgradeHeight \/ WaitForChainHalt \/ SwitchReturns
           \/ (VotesCounted /\ run.good = Validators) \/ (VerifyChainResumed /\ run.seen > 0)
  BY <1>2, SaveCases, SaveEffect DEF TypeOK
<1>3. CASE ProposalRefused \/ VoteRefused \/ CallFails \/ TimesOut \/ (VotesCounted /\ run.good # Validators)
  BY <1>3, FailCases, FailEffect, IdleTypes DEF TypeOK
<1>4. CASE SubmitProposal
  BY <1>4, SubmitEffect DEF TypeOK, Is
<1>5. CASE ProposalReceipt
  BY <1>5, ReceiptEffect DEF TypeOK
<1>6. CASE CastVote
  <2>1. run.st \in States
    BY DEF TypeOK, Runs
  <2>2. PICK p, i : p = run.st.proposal /\ i = run.next + 1
    OBVIOUS
  <2>3. proposals' \in Seq(Proposals)
    <3>1. /\ i \in Node
          /\ \/ proposals' = proposals
             \/ p \in DOMAIN proposals /\ proposals' = [proposals EXCEPT ![p].votes = @ \cup {i}]
      BY <1>6, <2>2, VoteEffect
    <3>2. ASSUME p \in DOMAIN proposals, proposals' = [proposals EXCEPT ![p].votes = @ \cup {i}]
          PROVE  proposals' \in Seq(Proposals)
      BY <3>1, <3>2, CastEffect
    <3>. QED
      BY <3>1, <3>2 DEF TypeOK
  <2>. QED
    BY <1>6, <2>1, <2>2, <2>3, VoteEffect DEF TypeOK
<1>7. CASE StopNode \/ StartNode \/ SaveNode
  <2>1. run.st \in States
    BY DEF TypeOK, Runs
  <2>. QED
    BY <1>7, <2>1, SwitchEffect DEF TypeOK
<1>8. CASE VerifyChainResumed /\ ~(run.seen > 0)
  BY <1>8, ReadEffect DEF TypeOK, Is
<1>9. CASE Interrupt \/ Killed
  <2>1. UNCHANGED <<file, chain, nodes>> /\ Counts("upsets")
    BY <1>9 DEF Interrupt, Killed
  <2>2. run' \in Runs
    BY <1>9, IdleTypes DEF Interrupt, Killed, TypeOK, Runs
  <2>. QED
    BY <2>1, <2>2, CountTypes DEF TypeOK
<1>10. CASE EndVoting
  <2>1. plan' \in Nat
    <3>1. PICK p \in DOMAIN proposals : plan' = proposals[p].target \/ plan' = plan
      BY <1>10, EndEffect
    <3>2. proposals[p] \in Proposals /\ plan \in Nat
      BY <3>1 DEF TypeOK
    <3>. QED
      BY <3>1, <3>2 DEF Proposals
  <2>. QED
    BY <1>10, <2>1, EndEffect DEF TypeOK
<1>11. CASE Block
  <2>1. UNCHANGED count \/ Counts("blocks")
    BY <1>11 DEF Block
  <2>. QED
    BY <1>11, <2>1, CountTypes DEF Block, TypeOK
<1>12. CASE UNCHANGED vars
  BY <1>12 DEF vars, TypeOK
<1>. QED
  BY <1>1, <1>2, <1>3, <1>4, <1>5, <1>6, <1>7, <1>8, <1>9, <1>10, <1>11, <1>12 DEF Next, RunStep

-----------------------------------------------------------------------------
(* The run and the file.                                                     *)

\* A run that ends, and one that has just been saved.
LEMMA EndedRun ==
  ASSUME run' = Idle
  PROVE  RunInv'
BY IdleTypes DEF RunInv, RunShape, MemoryMatchesFile, GovStages

LEMMA SavedRun ==
  ASSUME NEW stage \in GovStages, run'.at = stage, run'.st = file', file'.stage = stage,
         run'.skip => file'.free, run'.next = 0, run'.good = 0
  PROVE  RunInv'
BY DEF RunInv, RunShape, MemoryMatchesFile, GovStages

\* A step that leaves the memory of the run, its place and its file alone.
LEMMA SameRun ==
  ASSUME RunInv, file' = file, run'.at = run.at, run'.st = run.st, run'.skip = run.skip,
         run'.next = run.next, run'.good = run.good, run.at = "receipt" /\ proposals # <<>> => proposals' # <<>>
  PROVE  RunInv'
BY DEF RunInv, RunShape, MemoryMatchesFile

\* The end of a vote or of a restart saves the memory of the run as it is.
LEMMA TrackedRun ==
  ASSUME TypeOK, RunInv, run.at # "idle", file' = file \/ file' = run.st,
         run.st.stage \in {"Voting", "SwitchingBinary"}, run'.st = run.st,
         run'.skip = run.skip, run'.next <= Validators, run'.good <= run'.next,
         run'.at \in {run.st.stage, "start", "save"},
         run'.at \in {"start", "save"} => run.st.stage = "SwitchingBinary" /\ run'.next < Validators,
         run.at # "Completed"
  PROVE  RunInv'
<1>1. file'.stage # "none" /\ file'.stage # "Completed"
  BY DEF RunInv, RunShape, MemoryMatchesFile
<1>2. /\ run.st.proposal = file'.proposal /\ run.st.target = file'.target
      /\ ~run.st.free => run.st = file'
  BY DEF RunInv, MemoryMatchesFile
<1>3. RunShape'
  BY <1>1 DEF RunInv, RunShape, GovStages
<1>. QED
  BY <1>1, <1>2, <1>3 DEF RunInv, MemoryMatchesFile

LEMMA RunInvStep ==
  ASSUME TypeOK, RunInv, Next \/ UNCHANGED vars
  PROVE  RunInv'
<1>0. RunShape /\ MemoryMatchesFile /\ run \in Runs /\ run.st \in States
  BY DEF RunInv, TypeOK, Runs
<1>1. CASE Start
  <2>0. PICK skip \in BOOLEAN :
          /\ file' = [NoState EXCEPT !.stage = "Initialized", !.free = skip]
          /\ run' = [Idle EXCEPT !.at = "Initialized", !.st = file', !.skip = skip]
    BY <1>1 DEF Start
  <2>. DEFINE st == file'
  <2>1. /\ skip \in BOOLEAN
        /\ st = [NoState EXCEPT !.stage = "Initialized", !.free = skip] /\ file' = st
        /\ run' = [Idle EXCEPT !.at = "Initialized", !.st = st, !.skip = skip]
    BY <2>0
  <2>. HIDE DEF st
  <2>2. st.stage = "Initialized" /\ st.free = skip
    BY <2>1 DEF NoState
  <2>3. /\ run'.at = "Initialized" /\ run'.st = st /\ run'.skip = skip
        /\ run'.next = 0 /\ run'.good = 0
    BY <2>1 DEF Idle
  <2>. QED
    BY <2>1, <2>2, <2>3, SavedRun DEF GovStages
<1>2. CASE Resume
  <2>1. PICK skip, from, st :
          /\ skip \in BOOLEAN /\ from \in Stages
          /\ st = [file EXCEPT !.stage = from, !.free = file.free \/ skip \/ from # file.stage]
          /\ \/ run' = Idle
             \/ from \in GovStages /\ run' = [Idle EXCEPT !.at = from, !.skip = skip, !.st = st]
    BY <1>2 DEF Resume, SkipStages, GovStages
  <2>2. /\ st.stage = from /\ st.proposal = file.proposal /\ st.target = file.target
        /\ (st.free <=> file.free \/ skip \/ from # file.stage)
        /\ ~st.free => st = file
    <3>1. file \in States /\ file.free \in BOOLEAN
      BY DEF TypeOK, States
    <3>2. /\ st.stage = from /\ st.proposal = file.proposal /\ st.target = file.target
          /\ st.free = (file.free \/ skip \/ from # file.stage) /\ st \in States
      BY <2>1, <3>1 DEF States
    <3>3. ASSUME ~st.free PROVE st = file
      BY <3>1, <3>2, <3>3 DEF States
    <3>. QED
      BY <3>2, <3>3
  <2>3. CASE run' = Idle
    BY <2>3, EndedRun
  <2>4. CASE from \in GovStages /\ run' = [Idle EXCEPT !.at = from, !.skip = skip, !.st = st]
    <3>1. /\ run'.at = from /\ run'.st = st /\ run'.skip = skip
          /\ run'.next = 0 /\ run'.good = 0
      BY <2>4 DEF Idle
    <3>2. file' = file /\ file.stage \notin Terminal \cup {"none"}
      BY <1>2 DEF Resume
    <3>. QED
      BY <2>2, <2>4, <3>1, <3>2 DEF RunInv, RunShape, MemoryMatchesFile, GovStages, Terminal
  <2>. QED
    BY <2>1, <2>3, <2>4
<1>3. CASE ClearState
  <2>1. run' = run /\ run.at = "idle"
    BY <1>3 DEF ClearState
  <2>. QED
    BY <1>0, <2>1 DEF RunInv, RunShape, MemoryMatchesFile, GovStages
<1>4. CASE Completed \/ Killed
  BY <1>4, EndedRun DEF Completed, Killed
<1>5. CASE \/ PassThrough \/ WaitForUpgradeHeight \/ WaitForChainHalt \/ SwitchReturns
           \/ (VotesCounted /\ run.good = Validators) \/ (VerifyChainResumed /\ run.seen > 0)
  <2>1. PICK stage \in GovStages : Save(run.st, stage)
    BY <1>5, SaveCases
  <2>. QED
    BY <1>0, <2>1, SaveEffect, SavedRun DEF RunShape
<1>6. CASE ProposalRefused \/ VoteRefused \/ CallFails \/ TimesOut \/ (VotesCounted /\ run.good # Validators)
  BY <1>6, FailCases, FailEffect, EndedRun
<1>7. CASE SubmitProposal
  <2>1. /\ run'.at = "receipt" /\ run'.st = run.st /\ run'.skip = run.skip /\ run'.next = run.next
        /\ run'.good = run.good /\ run.at = "Initialized" /\ file' = file
    BY <1>7, SubmitEffect DEF Is
  <2>2. proposals' # <<>>
    BY <1>7, SubmitEffect
  <2>. QED
    BY <1>0, <2>1, <2>2 DEF RunInv, RunShape, MemoryMatchesFile, GovStages
<1>8. CASE ProposalReceipt
  <2>1. "ProposalSubmitted" \in GovStages
    BY DEF GovStages
  <2>. QED
    BY <1>0, <1>8, <2>1, ReceiptEffect, SavedRun DEF RunShape
<1>9. CASE CastVote
  <2>1. PICK p, i : p = run.st.proposal /\ i = run.next + 1
    OBVIOUS
  <2>2. /\ run.at = "Voting" /\ i \in Node /\ run'.at = "Voting" /\ run'.st = run.st /\ run'.skip = run.skip
        /\ run'.next = i /\ run'.good \in {run.good, run.good + 1} /\ (file' = file \/ file' = run.st)
    BY <1>9, <2>1, VoteEffect
  <2>3. run.st.stage = "Voting"
    BY <1>0, <2>2 DEF RunShape, GovStages
  <2>4. run'.next <= Validators /\ run'.good <= run'.next
    BY <1>0, <2>1, <2>2 DEF RunShape, Runs, Node
  <2>. QED
    BY <2>2, <2>3, <2>4, TrackedRun
<1>10. CASE StopNode \/ StartNode \/ SaveNode
  BY <1>0, <1>10, SwitchEffect, TrackedRun
<1>11. CASE VerifyChainResumed /\ ~(run.seen > 0)
  BY <1>11, ReadEffect, SameRun DEF Is, chain
<1>12. CASE Interrupt
  <2>1. run' = [run EXCEPT !.cancelled = TRUE] /\ UNCHANGED <<file, proposals>>
    BY <1>12 DEF Interrupt, chain
  <2>2. /\ run'.at = run.at /\ run'.st = run.st /\ run'.skip = run.skip
        /\ run'.next = run.next /\ run'.good = run.good
    BY <1>0, <2>1 DEF Runs
  <2>. QED
    BY <2>1, <2>2, SameRun
<1>13. CASE EndVoting
  <2>1. /\ UNCHANGED <<file, run>> /\ proposals' \in Seq(Proposals) /\ DOMAIN proposals' # {}
    BY <1>13, EndEffect
  <2>2. proposals' # <<>>
    BY <2>1
  <2>. QED
    BY <2>1, <2>2, SameRun
<1>14. CASE Block
  BY <1>14, SameRun DEF Block
<1>15. CASE UNCHANGED vars
  BY <1>15, SameRun DEF vars
<1>. QED
  BY <1>1, <1>2, <1>3, <1>4, <1>5, <1>6, <1>7, <1>8, <1>9, <1>10, <1>11, <1>12, <1>13, <1>14, <1>15 DEF Next, RunStep

-----------------------------------------------------------------------------
(* The chain.                                                                *)

\* Only four steps touch the chain.
LEMMA ChainCases ==
  ASSUME TypeOK, RunShape, Next \/ UNCHANGED vars
  PROVE  UNCHANGED chain \/ SubmitProposal \/ CastVote \/ EndVoting \/ Block
<1>1. CASE Start \/ Resume \/ ClearState \/ Completed \/ Interrupt \/ Killed
  BY <1>1 DEF Start, Resume, ClearState, Completed, Interrupt, Killed
<1>2. CASE \/ PassThrough \/ WaitForUpgradeHeight \/ WaitForChainHalt \/ SwitchReturns
           \/ VotesCounted \/ VerifyChainResumed \/ ProposalReceipt
  BY <1>2 DEF PassThrough, WaitForUpgradeHeight, WaitForChainHalt, SwitchReturns, VotesCounted, VerifyChainResumed, ProposalReceipt
<1>3. CASE ProposalRefused \/ VoteRefused \/ CallFails \/ TimesOut \/ StopNode \/ StartNode \/ SaveNode
  BY <1>3 DEF ProposalRefused, VoteRefused, CallFails, TimesOut, StopNode, StartNode, SaveNode
<1>4. CASE UNCHANGED vars
  BY <1>4 DEF vars, chain
<1>. QED
  BY <1>1, <1>2, <1>3, <1>4 DEF Next, RunStep

\* What the numbers of a proposal are.
LEMMA ProposalTypes ==
  ASSUME TypeOK
  PROVE  /\ DOMAIN proposals = 1 .. Len(proposals) /\ Len(proposals) \in Nat /\ DOMAIN proposals \subseteq Nat
         /\ \A p \in DOMAIN proposals :
              /\ proposals[p] \in Proposals /\ proposals[p].target \in Nat /\ proposals[p].votes \subseteq Node
              /\ proposals[p].status \in {"voting", "passed", "rejected"}
<1>1. proposals \in Seq(Proposals)
  BY DEF TypeOK
<1>2. DOMAIN proposals = 1 .. Len(proposals) /\ Len(proposals) \in Nat
  BY <1>1
<1>3. \A p \in DOMAIN proposals : proposals[p] \in Proposals
  BY <1>1
<1>. QED
  BY <1>2, <1>3 DEF Proposals

LEMMA ChainInvStep ==
  ASSUME TypeOK, RunShape, ChainInv, Next \/ UNCHANGED vars
  PROVE  ChainInv'
<1>0. ProposalsInOrder /\ ProposalFates /\ PlanAhead /\ height \in Nat /\ plan \in Nat /\ applied \in BOOLEAN
  BY DEF ChainInv, TypeOK
<1>1. CASE UNCHANGED chain
  BY <1>0, <1>1 DEF ChainInv, chain, ProposalsInOrder, ProposalFates, PlanAhead, Voting
<1>2. CASE SubmitProposal
  <2>. DEFINE n == Len(proposals) + 1
  <2>1. /\ DOMAIN proposals' = 1 .. n /\ DOMAIN proposals = 1 .. Len(proposals) /\ Len(proposals) \in Nat
        /\ \A p \in DOMAIN proposals : proposals'[p] = proposals[p]
        /\ proposals'[n].status = "voting" /\ proposals'[n].target = height + Lead /\ proposals'[n].votes = {}
        /\ UNCHANGED <<plan, height, applied>>
    BY <1>2, SubmitEffect
  <2>. HIDE DEF n
  <2>2. \A p \in DOMAIN proposals' : p \in DOMAIN proposals \/ p = n
    BY <2>1 DEF n
  <2>3. n \in DOMAIN proposals' /\ \A p \in DOMAIN proposals : p \in DOMAIN proposals' /\ ~(n < p)
    BY <2>1 DEF n
  <2>4. ProposalsInOrder'
    <3>. SUFFICES ASSUME NEW p \in DOMAIN proposals', NEW q \in DOMAIN proposals', p < q
                  PROVE  /\ proposals'[p].target <= proposals'[q].target /\ (Voting(p)' => Voting(q)')
      BY DEF ProposalsInOrder
    <3>1. p \in DOMAIN proposals
      BY <2>1, <2>2 DEF n
    <3>2. CASE q = n
      BY <1>0, <2>1, <2>3, <3>1, <3>2 DEF ProposalFates, Voting
    <3>3. CASE q \in DOMAIN proposals
      BY <1>0, <2>1, <2>3, <3>1, <3>3 DEF ProposalsInOrder, Voting
    <3>. QED
      BY <2>2, <3>2, <3>3
  <2>5. ProposalFates'
    BY <1>0, <2>1, <2>2, <2>3 DEF ProposalFates, Voting
  <2>6. PlanAhead'
    BY <1>0, <2>1, <2>3 DEF PlanAhead
  <2>. QED
    BY <2>4, <2>5, <2>6 DEF ChainInv
<1>3. CASE CastVote
  <2>1. PICK p, i : p = run.st.proposal /\ i = run.next + 1
    OBVIOUS
  <2>2. /\ i \in Node /\ UNCHANGED <<plan, height, applied>>
        /\ \/ proposals' = proposals
           \/ Voting(p) /\ p \in DOMAIN proposals /\ proposals' = [proposals EXCEPT ![p].votes = @ \cup {i}]
    BY <1>3, <2>1, VoteEffect
  <2>3. CASE proposals' = proposals
    BY <1>1, <2>2, <2>3 DEF chain
  <2>4. CASE Voting(p) /\ p \in DOMAIN proposals /\ proposals' = [proposals EXCEPT ![p].votes = @ \cup {i}]
    <3>1. /\ DOMAIN proposals' = DOMAIN proposals
          /\ \A q \in DOMAIN proposals : /\ proposals'[q].status = proposals[q].status
                                         /\ proposals'[q].target = proposals[q].target
                                         /\ proposals[q].votes \subseteq proposals'[q].votes
          /\ \A q \in DOMAIN proposals \ {p} : proposals'[q] = proposals[q]
      BY <2>2, <2>4, CastEffect
    <3>2. \A q \in DOMAIN proposals : proposals[q].status = "rejected" => proposals'[q].votes = proposals[q].votes
      BY <2>4, <3>1 DEF Voting
    <3>3. ProposalFates' /\ ProposalsInOrder'
      BY <1>0, <2>2, <3>1, <3>2 DEF ProposalFates, ProposalsInOrder, Voting
    <3>4. PlanAhead'
      BY <1>0, <2>2, <3>1 DEF PlanAhead
    <3>. QED
      BY <3>3, <3>4 DEF ChainInv
  <2>. QED
    BY <2>2, <2>3, <2>4
<1>4. CASE EndVoting
  <2>1. PICK p \in DOMAIN proposals, s \in {"passed", "rejected"} :
          /\ Voting(p) /\ \A q \in 1 .. p - 1 : ~Voting(q)
          /\ s = "passed" => proposals[p].votes # {}
          /\ s = "rejected" => proposals[p].votes # Node
          /\ plan' = IF s = "passed" THEN proposals[p].target ELSE plan
          /\ DOMAIN proposals' = DOMAIN proposals
          /\ proposals'[p].status = s /\ proposals'[p].votes = proposals[p].votes
          /\ proposals'[p].target = proposals[p].target
          /\ \A q \in DOMAIN proposals \ {p} : proposals'[q] = proposals[q]
          /\ UNCHANGED <<file, run, height, applied, nodes, count>>
    BY <1>4, EndEffect
  <2>2. \A q \in DOMAIN proposals : proposals'[q].target = proposals[q].target /\ proposals'[q].votes = proposals[q].votes
    BY <2>1
  <2>3. \A q \in DOMAIN proposals : q < p => ~Voting(q)
    BY <2>1, ProposalTypes
  <2>4. \A q \in DOMAIN proposals : Voting(q)' <=> Voting(q) /\ q # p
    BY <2>1 DEF Voting
  <2>5. ProposalsInOrder'
    <3>. SUFFICES ASSUME NEW q \in DOMAIN proposals, NEW r \in DOMAIN proposals, q < r
                  PROVE  proposals'[q].target <= proposals'[r].target /\ (Voting(q)' => Voting(r)')
      BY <2>1 DEF ProposalsInOrder
    <3>1. proposals[q].target <= proposals[r].target /\ (Voting(q) => Voting(r))
      BY <1>0 DEF ProposalsInOrder
    <3>2. Voting(q)' => Voting(r)'
      BY <2>3, <2>4, <3>1
    <3>. QED
      BY <2>2, <3>1, <3>2
  <2>6. ASSUME NEW q \in DOMAIN proposals, proposals[q].status = "passed" PROVE q < p
    <3>1. ~Voting(q) /\ q # p
      BY <2>1, <2>6 DEF Voting
    <3>2. ~(p < q)
      BY <1>0, <2>1, <3>1 DEF ProposalsInOrder
    <3>. QED
      BY <3>1, <3>2, ProposalTypes
  <2>7. ProposalFates'
    <3>. SUFFICES ASSUME NEW q \in DOMAIN proposals
                  PROVE  /\ proposals'[q].target <= height' + Lead
                         /\ Voting(q)' => height' < proposals'[q].target
                         /\ proposals'[q].status = "rejected" => proposals'[q].votes # Node
                         /\ proposals'[q].status = "passed" =>
                              applied' \/ (plan' # 0 /\ proposals'[q].target <= plan')
      BY <2>1 DEF ProposalFates, Node
    <3>1. height < proposals[p].target /\ proposals[p].target \in Nat
      BY <1>0, <2>1, ProposalTypes DEF ProposalFates
    <3>2. ASSUME proposals'[q].status = "passed" PROVE applied' \/ (plan' # 0 /\ proposals'[q].target <= plan')
      <4>1. CASE q = p
        BY <1>0, <2>1, <2>2, <3>1, <3>2, <4>1
      <4>2. CASE q # p
        <5>1. proposals[q].status = "passed" /\ proposals[q].target <= proposals[p].target
          BY <1>0, <2>1, <2>6, <3>2, <4>2 DEF ProposalsInOrder
        <5>2. applied \/ (plan # 0 /\ proposals[q].target <= plan)
          BY <1>0, <5>1 DEF ProposalFates
        <5>. QED
          BY <1>0, <2>1, <2>2, <3>1, <5>1, <5>2
      <4>. QED
        BY <4>1, <4>2
    <3>3. proposals'[q].status = "rejected" => proposals'[q].votes # Node
      BY <1>0, <2>1, <2>2 DEF ProposalFates
    <3>. QED
      BY <1>0, <2>1, <2>2, <2>4, <3>2, <3>3 DEF ProposalFates
  <2>8. PlanAhead'
    <3>1. CASE s = "passed"
      BY <1>0, <2>1, <2>2, <3>1, ProposalTypes DEF PlanAhead, ProposalFates
    <3>2. CASE s # "passed"
      BY <1>0, <2>1, <2>2, <3>2 DEF PlanAhead
    <3>. QED
      BY <3>1, <3>2
  <2>. QED
    BY <2>5, <2>7, <2>8 DEF ChainInv
<1>5. CASE Block
  <2>1. /\ height' = height + 1 /\ proposals' = proposals /\ applied' = (applied \/ plan = height)
        /\ plan' = IF plan = height THEN 0 ELSE plan
        /\ \A p \in DOMAIN proposals : Voting(p) => height + 1 < proposals[p].target
    BY <1>5 DEF Block
  <2>2. ProposalsInOrder'
    BY <1>0, <2>1 DEF ProposalsInOrder, Voting
  <2>3. ProposalFates'
    <3>. SUFFICES ASSUME NEW p \in DOMAIN proposals
                  PROVE  /\ proposals[p].target <= height' + Lead
                         /\ proposals[p].status = "voting" => height' < proposals[p].target
                         /\ proposals[p].status = "rejected" => proposals[p].votes # Node
                         /\ proposals[p].status = "passed" => applied' \/ (plan' # 0 /\ proposals[p].target <= plan')
      BY <2>1 DEF ProposalFates, Voting
    <3>1. proposals[p].target \in Nat
      BY ProposalTypes
    <3>2. proposals[p].target <= height' + Lead
      BY <1>0, <2>1, <3>1 DEF ProposalFates
    <3>3. proposals[p].status = "voting" => height' < proposals[p].target
      BY <2>1 DEF Voting
    <3>4. proposals[p].status = "passed" => applied' \/ (plan' # 0 /\ proposals[p].target <= plan')
      BY <1>0, <2>1 DEF ProposalFates
    <3>. QED
      BY <1>0, <3>2, <3>3, <3>4 DEF ProposalFates
  <2>4. PlanAhead'
    BY <1>0, <2>1 DEF PlanAhead
  <2>. QED
    BY <2>2, <2>3, <2>4 DEF ChainInv
<1>. QED
  BY <1>1, <1>2, <1>3, <1>4, <1>5, ChainCases

-----------------------------------------------------------------------------
(* The file.                                                                 *)

\* From one stage to the next, with what the step has found.
Advances(at, stage) ==
  \/ at = "Initialized" /\ stage = "SwitchingBinary" /\ run.skip
  \/ at = "ProposalSubmitted" /\ stage = "Voting"
  \/ at = "Voting" /\ stage = "WaitingForHeight" /\ run.good = Validators /\ run.next = Validators
  \/ at = "WaitingForHeight" /\ stage = "ChainHalted" /\ height >= run.st.target
  \/ at = "ChainHalted" /\ stage = "SwitchingBinary"
  \/ at = "SwitchingBinary" /\ stage = "VerifyingResume"
  \/ at = "VerifyingResume" /\ stage = "Completed" /\ 0 < run.seen /\ run.seen < height

\* What a step may do to the file: begin or delete it, name a new proposal, or keep its
\* proposal and advance or fail the stage it is in.
Begins == file'.proposal = 0 /\ file'.stage \in {"none", "Initialized"} /\ "none" \in {file.stage, file'.stage}

Names ==
  /\ Len(proposals) \in DOMAIN proposals /\ file'.proposal \in DOMAIN proposals /\ file'.proposal # 0
  /\ file'.target = proposals[Len(proposals)].target /\ file'.stage = "ProposalSubmitted"
  /\ ~file'.free => file.stage = "Initialized"

Keeps ==
  /\ file'.proposal = file.proposal /\ file'.target = file.target
  /\ \/ file' = file
     \/ file'.free
     \/ file'.stage = "Failed" /\ file.stage \in GovStages \ {"Completed"}
     \/ /\ file.stage = run.at /\ run.st = file /\ file.free = FALSE
        /\ UNCHANGED <<chain, nodes>> /\ Advances(run.at, file'.stage)

LEMMA FileCases ==
  ASSUME TypeOK, RunInv, Next \/ UNCHANGED vars
  PROVE  Keeps \/ (UNCHANGED <<chain, nodes>> /\ (Begins \/ Names))
<1>0. RunShape /\ MemoryMatchesFile /\ run \in Runs /\ run.st \in States /\ file \in States
  BY DEF RunInv, TypeOK, Runs
<1>1. CASE Start \/ ClearState \/ Completed
  <2>1. CASE Start
    <3>1. file.stage = "none" /\ UNCHANGED <<chain, nodes>>
          /\ \E skip \in BOOLEAN : file' = [NoState EXCEPT !.stage = "Initialized", !.free = skip]
      BY <2>1 DEF Start
    <3>. QED
      BY <3>1 DEF NoState, Begins
  <2>2. CASE ClearState \/ Completed
    BY <2>2, IdleTypes DEF ClearState, Completed, Begins
  <2>. QED
    BY <1>1, <2>1, <2>2
<1>2. CASE \/ PassThrough \/ WaitForUpgradeHeight \/ WaitForChainHalt \/ SwitchReturns
           \/ (VotesCounted /\ run.good = Validators) \/ (VerifyChainResumed /\ run.seen > 0)
  <2>1. PICK stage \in GovStages :
          Save(run.st, stage) /\ UNCHANGED <<chain, nodes>> /\ run.at \in GovStages /\ Advances(run.at, stage)
    BY <1>2, SaveCases DEF Advances
  <2>2. /\ file'.stage = stage /\ file'.proposal = run.st.proposal
        /\ file'.target = run.st.target /\ file'.free = run.st.free
    BY <1>0, <2>1, SaveEffect
  <2>3. run.at # "idle" /\ run.st.stage = run.at
    BY <1>0, <2>1 DEF RunShape, GovStages
  <2>4. /\ run.st.proposal = file.proposal /\ run.st.target = file.target
        /\ ~run.st.free => run.st = file
    BY <1>0, <2>3 DEF MemoryMatchesFile
  <2>5. run.st.free \in BOOLEAN
    BY <1>0 DEF States
  <2>. QED
    BY <2>1, <2>2, <2>3, <2>4, <2>5 DEF Keeps
<1>3. CASE ProposalRefused \/ VoteRefused \/ CallFails \/ TimesOut \/ (VotesCounted /\ run.good # Validators)
  <2>1. Fail /\ run.at \in (GovStages \ {"Completed"}) \cup {"receipt"}
    BY <1>3, FailCases
  <2>2. /\ file'.stage = "Failed"
        /\ file'.proposal = run.st.proposal /\ file'.target = run.st.target /\ file'.free = run.st.free
    BY <2>1, FailEffect
  <2>3. run.at # "idle" /\ run.st.stage \in GovStages \ {"Completed"}
    BY <1>0, <2>1 DEF RunShape, GovStages
  <2>. QED
    BY <1>0, <2>2, <2>3 DEF Keeps, MemoryMatchesFile
<1>4. CASE ProposalReceipt
  <2>1. UNCHANGED <<chain, nodes>>
    BY <1>0, <1>4, ReceiptEffect
  <2>2. /\ Len(proposals) \in Nat \ {0} /\ DOMAIN proposals = 1 .. Len(proposals) /\ run.at = "receipt"
        /\ file'.stage = "ProposalSubmitted" /\ file'.proposal \in {1, Len(proposals)}
        /\ file'.target = proposals[Len(proposals)].target /\ file'.free = run.st.free
    BY <1>0, <1>4, ReceiptEffect
  <2>3. ~run.st.free => file.stage = "Initialized"
    BY <1>0, <2>2 DEF RunShape, MemoryMatchesFile
  <2>4. Len(proposals) \in DOMAIN proposals /\ file'.proposal \in DOMAIN proposals /\ file'.proposal # 0
    BY <2>2
  <2>. QED
    BY <2>1, <2>2, <2>3, <2>4 DEF Names
<1>5. CASE CastVote \/ StopNode \/ StartNode \/ SaveNode
  <2>1. (file' = file \/ file' = run.st) /\ run.at # "idle"
    BY <1>5 DEF CastVote, StopNode, StartNode, SaveNode, Track
  <2>. QED
    BY <1>0, <2>1 DEF Keeps, MemoryMatchesFile
<1>6. CASE UNCHANGED file
  BY <1>6 DEF Keeps
<1>7. SubmitProposal \/ Resume \/ Interrupt \/ Killed \/ EndVoting \/ Block \/ (UNCHANGED vars)
      \/ (VerifyChainResumed /\ ~(run.seen > 0)) => UNCHANGED file
  BY ReadEffect DEF SubmitProposal, Resume, Interrupt, Killed, EndVoting, Block, vars
<1>. QED
  BY <1>1, <1>2, <1>3, <1>4, <1>5, <1>6, <1>7 DEF Next, RunStep

\* The action property, from what a step may do to the file.
LEMMA StagesStep ==
  ASSUME TypeOK, RunInv, Next \/ UNCHANGED vars
  PROVE  file.stage # "none" /\ file'.stage \notin {"none", file.stage} /\ ~file'.free
           => file'.stage \in Transitions[file.stage]
<1>. SUFFICES ASSUME file.stage # "none", file'.stage # "none", file'.stage # file.stage, ~file'.free
              PROVE  file'.stage \in Transitions[file.stage]
  OBVIOUS
<1>1. CASE Names
  BY <1>1 DEF Names, Transitions, Stages, GovStages
<1>2. CASE Keeps
  <2>1. CASE file'.stage = "Failed" /\ file.stage \in GovStages \ {"Completed"}
    BY <2>1 DEF Transitions, Stages, GovStages
  <2>2. CASE file.stage = run.at /\ run.st = file /\ file.free = FALSE /\ Advances(run.at, file'.stage)
    BY <2>2 DEF Transitions, Stages, GovStages, Advances
  <2>. QED
    BY <1>2, <2>1, <2>2 DEF Keeps
<1>3. ~Begins
  BY DEF Begins
<1>. QED
  BY <1>1, <1>2, <1>3, FileCases

-----------------------------------------------------------------------------
(* The votes.                                                                *)

\* A proposal stays where it is, with its height and the votes it has; what has passed
\* has passed, and blocks are never taken back.
LEMMA ChainGrows ==
  ASSUME TypeOK, RunShape, Next \/ UNCHANGED vars
  PROVE  /\ height' >= height /\ DOMAIN proposals \subseteq DOMAIN proposals'
         /\ \A p \in DOMAIN proposals :
              /\ proposals'[p].target = proposals[p].target /\ proposals[p].votes \subseteq proposals'[p].votes
              /\ proposals[p].status = "passed" => proposals'[p].status = "passed"
<1>0. height \in Nat
  BY DEF TypeOK
<1>1. CASE UNCHANGED chain
  BY <1>0, <1>1 DEF chain
<1>2. CASE SubmitProposal
  BY <1>0, <1>2, SubmitEffect
<1>3. CASE CastVote
  <2>1. PICK p, i : p = run.st.proposal /\ i = run.next + 1
    OBVIOUS
  <2>2. /\ i \in Node /\ UNCHANGED height
        /\ \/ proposals' = proposals
           \/ p \in DOMAIN proposals /\ proposals' = [proposals EXCEPT ![p].votes = @ \cup {i}]
    BY <1>3, <2>1, VoteEffect
  <2>3. CASE p \in DOMAIN proposals /\ proposals' = [proposals EXCEPT ![p].votes = @ \cup {i}]
    <3>1. /\ DOMAIN proposals' = DOMAIN proposals
          /\ \A q \in DOMAIN proposals : /\ proposals'[q].status = proposals[q].status
                                         /\ proposals'[q].target = proposals[q].target
                                         /\ proposals[q].votes \subseteq proposals'[q].votes
      BY <2>2, <2>3, CastEffect
    <3>. QED
      BY <1>0, <2>2, <3>1
  <2>. QED
    BY <1>0, <2>2, <2>3
<1>4. CASE EndVoting
  <2>1. PICK p \in DOMAIN proposals :
          /\ Voting(p) /\ DOMAIN proposals' = DOMAIN proposals
          /\ proposals'[p].votes = proposals[p].votes /\ proposals'[p].target = proposals[p].target
          /\ \A q \in DOMAIN proposals \ {p} : proposals'[q] = proposals[q]
          /\ UNCHANGED height
    BY <1>4, EndEffect
  <2>. QED
    BY <1>0, <2>1 DEF Voting
<1>5. CASE Block
  BY <1>0, <1>5 DEF Block
<1>. QED
  BY <1>1, <1>2, <1>3, <1>4, <1>5, ChainCases

\* Only a vote gets a run further in the Voting stage.
LEMMA VotingRun ==
  ASSUME TypeOK, RunShape, Next \/ UNCHANGED vars, run'.at = "Voting", run'.next > 0
  PROVE  CastVote \/ (run.at = "Voting" /\ run'.st = run.st /\ run'.next = run.next /\ run'.good = run.good)
<1>0. run \in Runs /\ run.st \in States
  BY DEF TypeOK, Runs
<1>1. CASE Start \/ ClearState \/ Completed \/ Killed
  BY <1>1, IdleTypes DEF Start, ClearState, Completed, Killed, Idle
<1>2. CASE Resume
  <2>1. CASE run' = Idle
    BY <2>1, IdleTypes
  <2>2. CASE run' # Idle
    <3>1. PICK skip, from, st :
          /\ skip \in BOOLEAN /\ from \in Stages
          /\ run' = [Idle EXCEPT !.at = from, !.skip = skip, !.st = st]
      BY <1>2, <2>2 DEF Resume
    <3>2. run'.next = 0
      BY <3>1 DEF Idle
    <3>. QED
      BY <3>2
  <2>. QED
    BY <2>1, <2>2
<1>3. CASE \/ PassThrough \/ WaitForUpgradeHeight \/ WaitForChainHalt \/ SwitchReturns
           \/ (VotesCounted /\ run.good = Validators) \/ (VerifyChainResumed /\ run.seen > 0)
  BY <1>0, <1>3, SaveCases, SaveEffect
<1>4. CASE ProposalRefused \/ VoteRefused \/ CallFails \/ TimesOut \/ (VotesCounted /\ run.good # Validators)
  BY <1>4, FailCases, FailEffect, IdleTypes
<1>5. CASE SubmitProposal \/ ProposalReceipt
  BY <1>5, SubmitEffect, ReceiptEffect DEF Is
<1>6. CASE StopNode \/ StartNode \/ SaveNode \/ (VerifyChainResumed /\ ~(run.seen > 0))
  BY <1>6, SwitchEffect, ReadEffect DEF Is
<1>7. CASE Interrupt
  BY <1>0, <1>7 DEF Interrupt, Runs
<1>8. CASE EndVoting \/ Block \/ UNCHANGED vars
  BY <1>8 DEF EndVoting, Block, vars
<1>. QED
  BY <1>1, <1>2, <1>3, <1>4, <1>5, <1>6, <1>7, <1>8 DEF Next, RunStep

LEMMA VotesSoFarStep ==
  ASSUME TypeOK, RunShape, VotesSoFar, Next \/ UNCHANGED vars
  PROVE  VotesSoFar'
<1>. SUFFICES ASSUME run'.at = "Voting", run'.good = run'.next, run'.next > 0
              PROVE  /\ run'.st.proposal \in DOMAIN proposals'
                     /\ 1 .. run'.next \subseteq proposals'[run'.st.proposal].votes
  BY DEF VotesSoFar
<1>0. run.next \in Nat /\ run.good \in Nat /\ run.good <= run.next
  BY DEF TypeOK, Runs, RunShape
<1>1. CASE CastVote
  <2>1. PICK p, i : p = run.st.proposal /\ i = run.next + 1
    OBVIOUS
  <2>2. /\ i \in Node /\ run.at = "Voting" /\ run'.st = run.st /\ run'.next = i
        /\ run'.good \in {run.good, run.good + 1}
        /\ run'.good = run.good \/ (p \in DOMAIN proposals /\ proposals' = [proposals EXCEPT ![p].votes = @ \cup {i}])
    BY <1>1, <2>1, VoteEffect
  <2>3. run.good = run.next /\ run'.good # run.good
    BY <1>0, <2>1, <2>2
  <2>4. /\ p \in DOMAIN proposals' /\ proposals'[p].votes = proposals[p].votes \cup {i}
    BY <2>2, <2>3, CastEffect
  <2>5. 1 .. run.next \subseteq proposals[p].votes
    BY <1>0, <2>1, <2>2, <2>3 DEF VotesSoFar
  <2>6. \A j \in 1 .. i : j \in 1 .. run.next \/ j = i
    BY <1>0, <2>1
  <2>. QED
    BY <2>1, <2>2, <2>4, <2>5, <2>6
<1>2. CASE run.at = "Voting" /\ run'.st = run.st /\ run'.next = run.next /\ run'.good = run.good
  BY <1>2, ChainGrows DEF VotesSoFar
<1>. QED
  BY <1>1, <1>2, VotingRun

\* What a file past the Voting stage promises, across every step.
LEMMA VotesStep ==
  ASSUME TypeOK, TypeOK', RunInv, VoteInv, Next \/ UNCHANGED vars
  PROVE  ProposalNamed' /\ VotesAreCast'
<1>0. RunShape /\ VotesSoFar /\ ProposalNamed /\ VotesAreCast /\ run.next \in Nat
  BY DEF RunInv, VoteInv, TypeOK, Runs
<1>. SUFFICES ASSUME file'.stage \in AfterHeight \cup {"WaitingForHeight"}, ~file'.free
              PROVE  file'.proposal \in DOMAIN proposals' /\ proposals'[file'.proposal].votes = Node
  BY DEF ProposalNamed, VotesAreCast
<1>1. Keeps
  BY FileCases DEF Begins, Names, AfterHeight
<1>2. \A p \in DOMAIN proposals' : proposals'[p].votes \subseteq Node
  <2>1. proposals' \in Seq(Proposals)
    BY DEF TypeOK
  <2>2. \A p \in DOMAIN proposals' : proposals'[p] \in Proposals
    BY <2>1
  <2>. QED
    BY <2>2 DEF Proposals
<1>3. file.proposal \in DOMAIN proposals /\ Node \subseteq proposals[file.proposal].votes
  <2>1. CASE file' = file
    BY <1>0, <2>1 DEF ProposalNamed, VotesAreCast
  <2>2. CASE /\ file.stage = run.at /\ run.st = file /\ file.free = FALSE /\ Advances(run.at, file'.stage)
    <3>1. CASE run.at = "Voting" /\ run.good = Validators /\ run.next = Validators
      BY <1>0, <2>2, <3>1 DEF VotesSoFar, Node
    <3>2. CASE file.stage \in AfterHeight \cup {"WaitingForHeight"}
      BY <1>0, <2>2, <3>2 DEF ProposalNamed, VotesAreCast
    <3>. QED
      BY <1>0, <2>2, <3>1, <3>2 DEF Advances, AfterHeight, RunShape
  <2>. QED
    BY <1>1, <2>1, <2>2 DEF Keeps, AfterHeight
<1>4. file'.proposal = file.proposal
  BY <1>1 DEF Keeps
<1>. QED
  BY <1>0, <1>2, <1>3, <1>4, ChainGrows

LEMMA VotedBelowStep ==
  ASSUME TypeOK, RunInv, ChainInv, VotedBelow, Next \/ UNCHANGED vars
  PROVE  VotedBelow'
<1>0. RunShape /\ MemoryMatchesFile /\ ProposalsInOrder
  BY DEF RunInv, ChainInv
<1>. SUFFICES ASSUME file'.proposal # 0
              PROVE  /\ file'.proposal \in DOMAIN proposals'
                     /\ \A p \in DOMAIN proposals' :
                          proposals'[p].votes # {} \/ p = file'.proposal => proposals'[p].target <= file'.target
  BY DEF VotedBelow
<1>1. CASE UNCHANGED chain /\ Names
  <2>1. \A p \in DOMAIN proposals : proposals[p].target <= proposals[Len(proposals)].target
    <3>. TAKE p \in DOMAIN proposals
    <3>1. p = Len(proposals) \/ p < Len(proposals)
      BY ProposalTypes
    <3>. QED
      BY <1>0, <1>1, <3>1, ProposalTypes DEF ProposalsInOrder, Names
  <2>. QED
    BY <1>1, <2>1 DEF Names, chain
<1>2. CASE Keeps
  <2>0. file'.proposal = file.proposal /\ file'.target = file.target
    BY <1>2 DEF Keeps
  <2>1. CASE SubmitProposal
    <3>1. /\ DOMAIN proposals' = 1 .. Len(proposals) + 1
          /\ DOMAIN proposals = 1 .. Len(proposals) /\ Len(proposals) \in Nat
          /\ \A p \in DOMAIN proposals : proposals'[p] = proposals[p]
          /\ proposals'[Len(proposals) + 1].votes = {}
      BY <2>1, SubmitEffect
    <3>2. \A p \in DOMAIN proposals' : p \in DOMAIN proposals \/ p = Len(proposals) + 1
      BY <3>1
    <3>3. file.proposal \in DOMAIN proposals' /\ file.proposal # Len(proposals) + 1
      BY <2>0, <3>1 DEF VotedBelow
    <3>. QED
      BY <2>0, <3>1, <3>2, <3>3 DEF VotedBelow
  <2>2. CASE CastVote
    <3>1. PICK p, i : p = run.st.proposal /\ i = run.next + 1
      OBVIOUS
    <3>2. /\ i \in Node /\ run.at = "Voting"
          /\ \/ proposals' = proposals
             \/ p \in DOMAIN proposals /\ proposals' = [proposals EXCEPT ![p].votes = @ \cup {i}]
      BY <2>2, <3>1, VoteEffect
    <3>3. p = file.proposal
      BY <1>0, <3>1, <3>2 DEF MemoryMatchesFile
    <3>4. CASE p \in DOMAIN proposals /\ proposals' = [proposals EXCEPT ![p].votes = @ \cup {i}]
      <4>1. /\ DOMAIN proposals' = DOMAIN proposals /\ proposals'[p].target = proposals[p].target
            /\ \A q \in DOMAIN proposals \ {p} : proposals'[q] = proposals[q]
        BY <3>2, <3>4, CastEffect
      <4>. QED
        BY <2>0, <3>3, <4>1 DEF VotedBelow
    <3>. QED
      BY <2>0, <3>2, <3>4 DEF VotedBelow
  <2>3. CASE EndVoting
    <3>1. PICK p \in DOMAIN proposals :
            /\ DOMAIN proposals' = DOMAIN proposals
            /\ proposals'[p].votes = proposals[p].votes /\ proposals'[p].target = proposals[p].target
            /\ \A q \in DOMAIN proposals \ {p} : proposals'[q] = proposals[q]
      BY <2>3, EndEffect
    <3>. QED
      BY <2>0, <3>1 DEF VotedBelow
  <2>4. CASE UNCHANGED chain \/ Block
    BY <2>0, <2>4 DEF VotedBelow, Block, chain
  <2>. QED
    BY <1>0, <2>1, <2>2, <2>3, <2>4, ChainCases
<1>. QED
  BY <1>1, <1>2, FileCases DEF Begins

-----------------------------------------------------------------------------
(* The height.                                                               *)

LEMMA HeightStep ==
  ASSUME TypeOK, TypeOK', RunInv, RunInv', SwitchesAtHeight, Next \/ UNCHANGED vars
  PROVE  SwitchesAtHeight'
<1>0. /\ RunShape /\ RunShape' /\ MemoryMatchesFile' /\ height \in Nat /\ height' \in Nat /\ height' >= height
      /\ file.target \in Nat /\ file'.target \in Nat
  BY ChainGrows DEF RunInv, TypeOK, States
<1>1. ASSUME file'.stage \in AfterHeight, ~file'.free
      PROVE  height' >= file'.target
  <2>1. Keeps
    BY <1>1, FileCases DEF Begins, Names, AfterHeight
  <2>2. height >= file.target
    <3>1. CASE file' = file
      BY <1>1, <3>1 DEF SwitchesAtHeight
    <3>2. CASE file.stage = run.at /\ run.st = file /\ file.free = FALSE /\ Advances(run.at, file'.stage)
      BY <1>0, <1>1, <3>2 DEF SwitchesAtHeight, Advances, AfterHeight, RunShape
    <3>. QED
      BY <1>1, <2>1, <3>1, <3>2 DEF Keeps, AfterHeight
  <2>. QED
    BY <1>0, <2>1, <2>2 DEF Keeps
<1>2. ASSUME run'.at \in AfterHeight \cup {"start", "save"}, ~run'.st.free
      PROVE  height' >= run'.st.target
  <2>1. run'.st = file'
    BY <1>0, <1>2 DEF MemoryMatchesFile, AfterHeight
  <2>2. file'.stage \in AfterHeight
    BY <1>0, <1>2, <2>1 DEF RunShape, AfterHeight, GovStages
  <2>. QED
    BY <1>1, <1>2, <2>1, <2>2
<1>. QED
  BY <1>1, <1>2 DEF SwitchesAtHeight

-----------------------------------------------------------------------------
(* The upgrade on the chain.                                                 *)

\* At the upgrade height of a proposal that all have voted for, the chain has carried
\* out an upgrade or stands at its plan: no plan is later than the file's height.
LEMMA PlanReached ==
  ASSUME TypeOK, ChainInv, VoteInv, SwitchesAtHeight, file.stage \in AfterHeight, ~file.free
  PROVE  /\ file.proposal \in DOMAIN proposals /\ proposals[file.proposal].status = "passed"
         /\ applied \/ (plan # 0 /\ plan = height)
<1>. DEFINE f == file.proposal
<1>1. f \in DOMAIN proposals /\ proposals[f].votes = Node /\ height >= file.target
  BY DEF VoteInv, ProposalNamed, VotesAreCast, SwitchesAtHeight
<1>2. f # 0 /\ file.target \in Nat /\ height \in Nat /\ plan \in Nat /\ proposals[f].target \in Nat
  BY <1>1, ProposalTypes DEF TypeOK, States
<1>3. proposals[f].target <= file.target
  BY <1>1, <1>2 DEF VoteInv, VotedBelow
<1>4. ~Voting(f) /\ proposals[f].status # "rejected"
  BY <1>1, <1>2, <1>3 DEF ChainInv, ProposalFates
<1>5. proposals[f].status = "passed"
  BY <1>1, <1>4, ProposalTypes DEF Voting
<1>6. ASSUME ~applied PROVE plan # 0 /\ plan = height
  <2>1. plan # 0
    BY <1>1, <1>5, <1>6 DEF ChainInv, ProposalFates
  <2>2. height <= plan
    BY <2>1 DEF ChainInv, PlanAhead
  <2>3. PICK q \in DOMAIN proposals : plan = proposals[q].target /\ proposals[q].votes # {}
    BY <2>1 DEF ChainInv, PlanAhead
  <2>4. plan <= file.target
    BY <1>2, <2>3 DEF VoteInv, VotedBelow
  <2>. QED
    BY <1>1, <1>2, <2>1, <2>2, <2>4
<1>. QED
  BY <1>1, <1>5, <1>6

\* So the next block needs the new binary.
LEMMA BlockNeedsNew ==
  ASSUME TypeOK, ChainInv, VoteInv, SwitchesAtHeight, file.stage \in AfterHeight, ~file.free, Block
  PROVE  Quorum(NewNodes)
<1>1. ~Halted /\ ~Dead
  BY DEF Block, Alive
<1>2. CASE applied
  <2>1. {i \in Node : nodes[i].bin \in IF applied THEN {"new"} ELSE {"old", "new"}} = NewNodes
    BY <1>2 DEF NewNodes
  <2>. QED
    BY <1>1, <2>1 DEF Dead
<1>3. CASE plan # 0 /\ plan = height
  BY <1>1, <1>3 DEF Halted
<1>. QED
  BY <1>2, <1>3, PlanReached

\* Nodes are changed by the steps of the switch only.
LEMMA NodesKept ==
  ASSUME TypeOK, RunShape, Next \/ UNCHANGED vars, run.at \notin {"SwitchingBinary", "start", "save"}
  PROVE  Quorum(NewNodes)' = Quorum(NewNodes)
<1>1. UNCHANGED nodes
  <2>1. CASE Start \/ Resume \/ ClearState \/ Completed \/ Interrupt \/ Killed
    BY <2>1 DEF Start, Resume, ClearState, Completed, Interrupt, Killed
  <2>2. CASE \/ PassThrough \/ WaitForUpgradeHeight \/ WaitForChainHalt \/ SwitchReturns
             \/ VotesCounted \/ VerifyChainResumed \/ ProposalReceipt \/ SubmitProposal \/ CastVote
    BY <2>2 DEF PassThrough, WaitForUpgradeHeight, WaitForChainHalt, SwitchReturns, VotesCounted,
                VerifyChainResumed, ProposalReceipt, SubmitProposal, CastVote
  <2>3. CASE ProposalRefused \/ VoteRefused \/ CallFails \/ TimesOut \/ EndVoting \/ Block \/ UNCHANGED vars
    BY <2>3 DEF ProposalRefused, VoteRefused, CallFails, TimesOut, EndVoting, Block, vars
  <2>4. ~(StopNode \/ StartNode \/ SaveNode)
    BY SwitchEffect
  <2>. QED
    BY <2>1, <2>2, <2>3, <2>4 DEF Next, RunStep
<1>2. NewNodes' = NewNodes
  BY <1>1 DEF NewNodes
<1>. QED
  BY <1>2 DEF Quorum

\* Only the first read gets a run further in VerifyingResume.
LEMMA VerifyingRun ==
  ASSUME TypeOK, RunShape, Next \/ UNCHANGED vars, run'.at = "VerifyingResume", run'.seen > 0
  PROVE  \/ VerifyChainResumed /\ ~(run.seen > 0)
         \/ run.at = "VerifyingResume" /\ run'.st = run.st /\ run'.seen = run.seen
<1>0. run \in Runs /\ run.st \in States
  BY DEF TypeOK, Runs
<1>1. CASE Start \/ ClearState \/ Completed \/ Killed
  BY <1>1, IdleTypes DEF Start, ClearState, Completed, Killed, Idle
<1>2. CASE Resume
  <2>1. CASE run' = Idle
    BY <2>1, IdleTypes
  <2>2. CASE run' # Idle
    <3>1. PICK skip, from, st :
          /\ skip \in BOOLEAN /\ from \in Stages
          /\ run' = [Idle EXCEPT !.at = from, !.skip = skip, !.st = st]
      BY <1>2, <2>2 DEF Resume
    <3>2. run'.seen = 0
      BY <3>1 DEF Idle
    <3>. QED
      BY <3>2
  <2>. QED
    BY <2>1, <2>2
<1>3. CASE \/ PassThrough \/ WaitForUpgradeHeight \/ WaitForChainHalt \/ SwitchReturns
           \/ (VotesCounted /\ run.good = Validators) \/ (VerifyChainResumed /\ run.seen > 0)
  BY <1>0, <1>3, SaveCases, SaveEffect
<1>4. CASE ProposalRefused \/ VoteRefused \/ CallFails \/ TimesOut \/ (VotesCounted /\ run.good # Validators)
  BY <1>4, FailCases, FailEffect, IdleTypes
<1>5. CASE SubmitProposal \/ ProposalReceipt
  BY <1>5, SubmitEffect, ReceiptEffect DEF Is
<1>6. CASE StopNode \/ StartNode \/ SaveNode
  BY <1>6, SwitchEffect
<1>7. CASE CastVote
  BY <1>7, VoteEffect
<1>8. CASE Interrupt
  BY <1>0, <1>8 DEF Interrupt, Runs
<1>9. CASE EndVoting \/ Block \/ UNCHANGED vars
  BY <1>9 DEF EndVoting, Block, vars
<1>. QED
  BY <1>1, <1>2, <1>3, <1>4, <1>5, <1>6, <1>7, <1>8, <1>9 DEF Next, RunStep

LEMMA ResumedStep ==
  ASSUME TypeOK, RunInv, ChainInv, VoteInv, SwitchesAtHeight, ResumedRead, Next \/ UNCHANGED vars
  PROVE  ResumedRead'
<1>. SUFFICES ASSUME run'.at = "VerifyingResume", ~run'.st.free, run'.seen > 0
              PROVE  /\ run'.st.target <= run'.seen /\ run'.seen <= height'
                     /\ height' > run'.seen => Quorum(NewNodes)'
  BY DEF ResumedRead
<1>0. RunShape /\ MemoryMatchesFile /\ height \in Nat /\ run.seen \in Nat
  BY DEF RunInv, TypeOK, Runs
<1>1. CASE VerifyChainResumed /\ ~(run.seen > 0)
  <2>1. run.at = "VerifyingResume" /\ run'.st = run.st /\ run'.seen = height /\ height' = height
    BY <1>1, ReadEffect DEF Is, chain
  <2>2. height >= run.st.target
    BY <2>1 DEF SwitchesAtHeight, AfterHeight
  <2>. QED
    BY <1>0, <2>1, <2>2
<1>2. CASE run.at = "VerifyingResume" /\ run'.st = run.st /\ run'.seen = run.seen
  <2>1. /\ run.st.target <= run.seen /\ run.seen <= height
        /\ height > run.seen => Quorum(NewNodes)
    BY <1>2 DEF ResumedRead
  <2>2. Quorum(NewNodes)' = Quorum(NewNodes)
    BY <1>0, <1>2, NodesKept
  <2>3. CASE Block
    <3>1. run.st = file /\ file.stage \in AfterHeight /\ ~file.free
      BY <1>0, <1>2 DEF RunShape, MemoryMatchesFile, AfterHeight, GovStages
    <3>2. Quorum(NewNodes)
      BY <2>3, <3>1, BlockNeedsNew
    <3>3. height' = height + 1
      BY <2>3 DEF Block
    <3>. QED
      BY <1>0, <1>2, <2>1, <2>2, <3>2, <3>3
  <2>4. CASE UNCHANGED height
    BY <1>2, <2>1, <2>2, <2>4
  <2>5. Block \/ UNCHANGED height
    BY <1>0, ChainCases, SubmitEffect, VoteEffect, EndEffect DEF chain
  <2>. QED
    BY <2>3, <2>4, <2>5
<1>. QED
  BY <1>0, <1>1, <1>2, VerifyingRun

LEMMA CompletedStep ==
  ASSUME TypeOK, RunInv, ChainInv, VoteInv, SwitchesAtHeight, ResumedRead, CompletedMeansUpgraded,
         Next \/ UNCHANGED vars
  PROVE  CompletedMeansUpgraded'
<1>. SUFFICES ASSUME file'.stage = "Completed", ~file'.free
              PROVE  /\ height' > file'.target /\ proposals'[file'.proposal].status = "passed"
                     /\ Quorum(NewNodes)'
  BY DEF CompletedMeansUpgraded
<1>0. RunShape /\ height \in Nat /\ file.target \in Nat /\ run.seen \in Nat
  BY DEF RunInv, TypeOK, States, Runs
<1>1. Keeps
  BY FileCases DEF Begins, Names
<1>2. /\ height > file.target /\ Quorum(NewNodes) /\ run.at \notin {"SwitchingBinary", "start", "save"}
      /\ file.proposal \in DOMAIN proposals /\ proposals[file.proposal].status = "passed"
  <2>1. CASE file' = file
    <3>1. run.at \in {"idle", "Completed"}
      BY <1>0, <2>1 DEF RunShape
    <3>2. file.proposal \in DOMAIN proposals
      BY <2>1 DEF VoteInv, ProposalNamed, AfterHeight
    <3>. QED
      BY <2>1, <3>1, <3>2 DEF CompletedMeansUpgraded
  <2>2. CASE file.stage = run.at /\ run.st = file /\ file.free = FALSE /\ Advances(run.at, file'.stage)
    <3>1. run.at = "VerifyingResume" /\ 0 < run.seen /\ run.seen < height
      BY <2>2 DEF Advances
    <3>2. file.target <= run.seen /\ Quorum(NewNodes)
      BY <1>0, <2>2, <3>1 DEF ResumedRead
    <3>3. file.proposal \in DOMAIN proposals /\ proposals[file.proposal].status = "passed"
      BY <2>2, <3>1, PlanReached DEF AfterHeight
    <3>. QED
      BY <1>0, <3>1, <3>2, <3>3
  <2>. QED
    BY <1>1, <2>1, <2>2 DEF Keeps
<1>3. /\ height' >= height /\ proposals'[file.proposal].status = "passed"
  BY <1>0, <1>2, ChainGrows
<1>4. height' \in Nat
  BY <1>0, TypeStep DEF TypeOK
<1>5. Quorum(NewNodes)' = Quorum(NewNodes)
  BY <1>0, <1>2, NodesKept
<1>. QED
  BY <1>0, <1>1, <1>2, <1>3, <1>4, <1>5 DEF Keeps

-----------------------------------------------------------------------------
(* The theorems.                                                             *)

\* The inductive invariant.
UpgradeInv ==
  TypeOK /\ RunInv /\ ChainInv /\ VoteInv /\ SwitchesAtHeight /\ ResumedRead /\ CompletedMeansUpgraded

LEMMA UpgradeInit ==
  ASSUME Init
  PROVE  UpgradeInv
<1>. USE IdleTypes DEF Init
<1>1. TypeOK
  <2>1. [bin |-> "old", known |-> TRUE] \in Nodes
    BY DEF Nodes
  <2>2. nodes \in [Node -> Nodes] /\ count \in [Counted -> Nat]
    BY <2>1
  <2>3. proposals \in Seq(Proposals)
    OBVIOUS
  <2>. QED
    BY <2>2, <2>3 DEF TypeOK
<1>2. RunInv
  BY DEF RunInv, RunShape, MemoryMatchesFile, GovStages
<1>3. DOMAIN proposals = {}
  OBVIOUS
<1>4. ChainInv
  BY <1>3 DEF ChainInv, ProposalsInOrder, ProposalFates, PlanAhead
<1>5. VoteInv
  BY DEF VoteInv, VotesSoFar, ProposalNamed, VotesAreCast, VotedBelow, AfterHeight
<1>6. SwitchesAtHeight /\ ResumedRead /\ CompletedMeansUpgraded
  BY DEF SwitchesAtHeight, ResumedRead, CompletedMeansUpgraded, AfterHeight
<1>. QED
  BY <1>1, <1>2, <1>4, <1>5, <1>6 DEF UpgradeInv

LEMMA UpgradeStep ==
  ASSUME UpgradeInv, [Next]_vars
  PROVE  UpgradeInv'
<1>0. /\ TypeOK /\ RunInv /\ ChainInv /\ VoteInv /\ SwitchesAtHeight /\ ResumedRead /\ CompletedMeansUpgraded
      /\ RunShape /\ VotesSoFar /\ VotedBelow /\ (Next \/ UNCHANGED vars)
  BY DEF UpgradeInv, RunInv, VoteInv
<1>1. TypeOK'
  BY <1>0, TypeStep
<1>2. RunInv'
  BY <1>0, RunInvStep
<1>3. ChainInv'
  BY <1>0, ChainInvStep
<1>4. VoteInv'
  BY <1>0, <1>1, VotesSoFarStep, VotesStep, VotedBelowStep DEF VoteInv
<1>5. SwitchesAtHeight'
  BY <1>0, <1>1, <1>2, HeightStep
<1>6. ResumedRead'
  BY <1>0, ResumedStep
<1>7. CompletedMeansUpgraded'
  BY <1>0, CompletedStep
<1>. QED
  BY <1>1, <1>2, <1>3, <1>4, <1>5, <1>6, <1>7 DEF UpgradeInv

LEMMA UpgradeInvariant == Spec => []UpgradeInv
<1>1. Init => UpgradeInv
  BY UpgradeInit
<1>2. UpgradeInv /\ [Next]_vars => UpgradeInv'
  BY UpgradeStep
<1>. QED
  BY <1>1, <1>2, PTL DEF Spec

\* However the commands of an upgrade are killed, interrupted and resumed, the memory
\* of the one under way is what the file says, and past the Voting stage every
\* validator's vote is on the proposal that the file names.
THEOREM ResumeIsSafe == Spec => []ResumeInv
<1>1. UpgradeInv => ResumeInv
  BY DEF UpgradeInv, RunInv, VoteInv, ResumeInv
<1>. QED
  BY <1>1, UpgradeInvariant, PTL

\* No node is stopped for the switch, and the file does not say that the chain has
\* halted, before the upgrade height, unless a command skips or overrides stages.
THEOREM SwitchAtHeight == Spec => []SwitchesAtHeight
<1>1. UpgradeInv => SwitchesAtHeight
  BY DEF UpgradeInv
<1>. QED
  BY <1>1, UpgradeInvariant, PTL

\* An upgrade that is saved as completed was applied by the chain: it is past the
\* height, its proposal has passed, and the new binary runs on enough of the nodes.
THEOREM CompletedIsUpgraded == Spec => []CompletedMeansUpgraded
<1>1. UpgradeInv => CompletedMeansUpgraded
  BY DEF UpgradeInv
<1>. QED
  BY <1>1, UpgradeInvariant, PTL

\* The stages saved follow the table of transitions, across kills and resumes.
THEOREM StagesFollowTable == Spec => StagesInOrder
<1>1. UpgradeInv /\ [Next]_vars =>
        [file.stage # "none" /\ file'.stage \notin {"none", file.stage} /\ ~file'.free
           => file'.stage \in Transitions[file.stage]]_vars
  BY StagesStep DEF UpgradeInv
<1>. QED
  BY <1>1, UpgradeInvariant, PTL DEF Spec, StagesInOrder
=============================================================================
