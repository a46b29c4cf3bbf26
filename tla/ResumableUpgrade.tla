-------------------------- MODULE ResumableUpgrade --------------------------
(***************************************************************************)
(* "devnet-builder upgrade": the stages of an upgrade run by the command   *)
(* line, the state file that is saved at every transition, and the resume  *)
(* of an upgrade whose command failed, was interrupted or was killed.      *)
(*                                                                         *)
(* The effects of a stage (a proposal, votes, restarted nodes) happen      *)
(* before its transition is saved, so a run that is killed in between is   *)
(* resumed in front of what it has done already.  A save replaces the file *)
(* by a rename and is one step.                                            *)
(*                                                                         *)
(* One command runs at a time; --force-restart is ClearState followed by   *)
(* Start.  The chain is external: a proposal passes when all validators    *)
(* have voted, its height comes after its voting period, and the chain     *)
(* halts at the height of the plan until enough nodes run the new binary.  *)
(***************************************************************************)
EXTENDS Integers, Sequences, FiniteSets

CONSTANTS
  Validators,   \* number of validators, each with one node
  Lead,         \* blocks from a proposal to its upgrade height
  MaxCommands,  \* bound: number of commands
  MaxUpsets,    \* bound: number of kills, interrupts and failing calls
  MaxBlocks     \* bound: blocks that no run is waiting for

ASSUME SizesAssumption == Validators \in Nat \ {0} /\ Lead \in Nat \ {0}
ASSUME BoundsAssumption == MaxCommands \in Nat /\ MaxUpsets \in Nat /\ MaxBlocks \in Nat

VARIABLES
  file,       \* the state file; stage "none" when there is none
  run,        \* the command under way
  proposals,  \* the proposals on the chain
  plan,       \* height at which the chain will halt, 0 when none is scheduled
  height,     \* block height
  applied,    \* the chain has carried out an upgrade
  nodes,      \* the nodes of the devnet
  count       \* number of commands, upsets and idle blocks so far

vars == <<file, run, proposals, plan, height, applied, nodes, count>>

Node == 1 .. Validators
GovStages == {"Initialized", "ProposalSubmitted", "Voting", "WaitingForHeight", "ChainHalted",
              "SwitchingBinary", "VerifyingResume", "Completed"}
SkipStages == {"Initialized", "SwitchingBinary", "VerifyingResume", "Completed"}
Terminal == {"Completed", "Failed", "ProposalRejected"}
Stages == GovStages \cup Terminal

\* free is history: governance was skipped or the stage overridden by some command of
\* this upgrade.
States == [stage : Stages \cup {"none"}, proposal : Nat, target : Nat, free : BOOLEAN]

\* st is the state in memory; next and good count the votes or the nodes tried and those
\* that worked, seen is the last height verifyChainResumed has read.
Runs == [at : {"idle", "receipt", "start", "save"} \cup GovStages, st : States, skip : BOOLEAN,
         cancelled : BOOLEAN, next : Nat, good : Nat, seen : Nat]

Proposals == [status : {"voting", "passed", "rejected"}, target : Nat, votes : SUBSET Node]

\* bin is the binary of the process that lives, known whether the PID saved is its.
Nodes == [bin : {"old", "new", "down"}, known : BOOLEAN]
Counted == {"commands", "upsets", "blocks"}

TypeOK ==
  /\ file \in States /\ run \in Runs
  /\ proposals \in Seq(Proposals) /\ plan \in Nat /\ height \in Nat /\ applied \in BOOLEAN
  /\ nodes \in [Node -> Nodes]
  /\ count \in [Counted -> Nat]

NoState == [stage |-> "none", proposal |-> 0, target |-> 0, free |-> FALSE]
Idle == [at |-> "idle", st |-> NoState, skip |-> FALSE, cancelled |-> FALSE,
         next |-> 0, good |-> 0, seen |-> 0]

Init ==
  /\ file = NoState /\ run = Idle
  /\ proposals = <<>> /\ plan = 0 /\ height = 1 /\ applied = FALSE
  /\ nodes = [i \in Node |-> [bin |-> "old", known |-> TRUE]]
  /\ count = [c \in Counted |-> 0]

Limit == [commands |-> MaxCommands, upsets |-> MaxUpsets, blocks |-> MaxBlocks]
Counts(c) == count[c] < Limit[c] /\ count' = [count EXCEPT ![c] = @ + 1]

chain == <<proposals, plan, height, applied>>

\* buildTransitionMap.
Transitions ==
  [s \in Stages |->
     CASE s = "Initialized" -> {"ProposalSubmitted", "SwitchingBinary", "Failed"}
       [] s = "ProposalSubmitted" -> {"Voting", "Failed", "ProposalRejected"}
       [] s = "Voting" -> {"WaitingForHeight", "ProposalRejected", "Failed"}
       [] s = "WaitingForHeight" -> {"ChainHalted", "Failed"}
       [] s = "ChainHalted" -> {"SwitchingBinary", "Failed"}
       [] s = "SwitchingBinary" -> {"VerifyingResume", "Failed"}
       [] s = "VerifyingResume" -> {"Completed", "Failed"}
       [] OTHER -> {}]

\* The chain produces no block without more than two thirds of its nodes: at the height
\* of the plan those with the new binary, else all that live, but for the old ones once
\* an upgrade has been carried out.
Quorum(N) == 3 * Cardinality(N) > 2 * Validators
NewNodes == {i \in Node : nodes[i].bin = "new"}
Halted == plan # 0 /\ height = plan /\ ~Quorum(NewNodes)
Dead == ~Quorum({i \in Node : nodes[i].bin \in IF applied THEN {"new"} ELSE {"old", "new"}})
Alive == ~Halted /\ ~Dead

-----------------------------------------------------------------------------
(* The commands.                                                             *)

\* Without a state file; the initial state is saved before anything else.
Start ==
  /\ run.at = "idle" /\ file.stage = "none" /\ Counts("commands")
  /\ \E skip \in BOOLEAN :
       LET st == [NoState EXCEPT !.stage = "Initialized", !.free = skip] IN
         file' = st /\ run' = [Idle EXCEPT !.at = "Initialized", !.st = st, !.skip = skip]
  /\ UNCHANGED <<chain, nodes>>

\* Faulty variant, used only to show that the properties notice it: a failed upgrade
\* is resumed as well, where it stands.
ResumeFailed ==
  /\ run.at = "idle" /\ file.stage \notin {"none", "Completed"} /\ Counts("commands")
  /\ run' = [Idle EXCEPT !.at = IF file.stage \in GovStages THEN file.stage ELSE "SwitchingBinary",
                         !.st = [file EXCEPT !.stage = IF @ \in GovStages THEN @ ELSE "SwitchingBinary"]]
  /\ UNCHANGED <<file, chain, nodes>>

\* --resume, perhaps with --resume-from: the stage is replaced in memory only.  Whether
\* governance is skipped is read from the flags, never from the file.  A stage that the
\* path does not have ends the command at once.
Resume ==
  /\ run.at = "idle" /\ file.stage \notin Terminal \cup {"none"} /\ Counts("commands")
  /\ \E skip \in BOOLEAN, from \in Stages :
       /\ run' = IF from \in (IF skip THEN SkipStages ELSE GovStages)
                 THEN [Idle EXCEPT !.at = from, !.skip = skip,
                         !.st = [file EXCEPT !.stage = from, !.free = @ \/ skip \/ from # file.stage]]
                 ELSE Idle
  /\ UNCHANGED <<file, chain, nodes>>

ClearState ==
  /\ run.at = "idle" /\ file.stage # "none" /\ Counts("commands")
  /\ file' = NoState
  /\ UNCHANGED <<run, chain, nodes>>

-----------------------------------------------------------------------------
(* The stages.  Save is transitionAndSave; the run then falls through to the *)
(* next stage.                                                               *)

\* Faulty variant: the stage is changed in memory and not saved.
SaveForgotten(st, stage) ==
  /\ UNCHANGED file
  /\ run' = [Idle EXCEPT !.at = stage, !.st = [st EXCEPT !.stage = stage], !.skip = run.skip]

Save(st, stage) ==
  LET s == [st EXCEPT !.stage = stage] IN
    /\ file' = s
    /\ run' = [Idle EXCEPT !.at = stage, !.st = s, !.skip = run.skip, !.cancelled = run.cancelled]

\* The stage fails: Failed is saved and the command returns.
Fail ==
  /\ file' = [run.st EXCEPT !.stage = "Failed"]
  /\ run' = Idle

\* The proposal of the governance path; from here to its save it is on the chain and
\* not in the file.
SubmitProposal ==
  /\ run.at = "Initialized" /\ ~run.skip /\ ~run.cancelled /\ Alive
  /\ proposals' = Append(proposals, [status |-> "voting", target |-> height + Lead, votes |-> {}])
  /\ run' = [run EXCEPT !.at = "receipt"]
  /\ UNCHANGED <<file, plan, height, applied, nodes, count>>

\* A chain that produces no blocks gives no receipt; the nodes lose the transaction when
\* they are restarted.
ProposalRefused ==
  /\ run.at = "Initialized" /\ ~run.skip /\ ~Alive
  /\ Fail
  /\ UNCHANGED <<chain, nodes, count>>

\* Its number is read from the receipt; when neither the logs nor the REST interface
\* tell it, it is taken to be one.
ProposalReceipt ==
  /\ run.at = "receipt" /\ ~run.cancelled
  /\ \/ /\ Save([run.st EXCEPT !.proposal = Len(proposals), !.target = proposals[Len(proposals)].target],
                "ProposalSubmitted")
        /\ UNCHANGED count
     \/ /\ Counts("upsets")
        /\ Save([run.st EXCEPT !.proposal = 1, !.target = proposals[Len(proposals)].target],
                "ProposalSubmitted")
  /\ UNCHANGED <<chain, nodes>>

\* Initialized without governance, and ProposalSubmitted.
PassThrough ==
  /\ \/ run.at = "Initialized" /\ run.skip /\ Save(run.st, "SwitchingBinary")
     \/ run.at = "ProposalSubmitted" /\ Save(run.st, "Voting")
  /\ UNCHANGED <<chain, nodes, count>>

\* VoteUseCase: refused at once when the proposal is not in its voting period;
\* otherwise one validator after the other, whatever became of the one before.
Voting(p) == p \in DOMAIN proposals /\ proposals[p].status = "voting"

VoteRefused ==
  /\ run.at = "Voting" /\ run.next = 0 /\ ~Voting(run.st.proposal)
  /\ Fail
  /\ UNCHANGED <<chain, nodes, count>>

\* After the last vote and after the last node what was done is saved, still under the
\* stage in memory.
Track(i) == file' = IF i = Validators THEN run.st ELSE file

\* A vote that is cast, one that fails because the voting period has ended or the chain
\* has halted, and one whose receipt does not come, cast or not.
CastVote ==
  /\ run.at = "Voting" /\ run.next < Validators
  /\ LET p == run.st.proposal
         i == run.next + 1
         cast == [proposals EXCEPT ![p].votes = @ \cup {i}]
     IN /\ run.next = 0 => Voting(p)
        /\ \/ /\ Voting(p) /\ Alive /\ ~run.cancelled
              /\ proposals' = cast /\ UNCHANGED count
              /\ run' = [run EXCEPT !.next = i, !.good = @ + 1]
           \/ /\ ~Voting(p) \/ ~Alive \/ run.cancelled
              /\ run' = [run EXCEPT !.next = i] /\ UNCHANGED <<proposals, count>>
           \/ /\ Voting(p) /\ Alive /\ ~run.cancelled /\ Counts("upsets")
              /\ proposals' \in {proposals, cast}
              /\ run' = [run EXCEPT !.next = i]
        /\ Track(i)
  /\ UNCHANGED <<plan, height, applied, nodes>>

\* Faulty variant: the command waits for the votes that are missing.
VotesCountedWaits ==
  /\ run.at = "Voting" /\ run.next = Validators
  /\ run.good = Validators /\ Save(run.st, "WaitingForHeight")
  /\ UNCHANGED <<chain, nodes, count>>

VotesCounted ==
  /\ run.at = "Voting" /\ run.next = Validators
  /\ IF run.good = Validators THEN Save(run.st, "WaitingForHeight")
     ELSE Fail
  /\ UNCHANGED <<chain, nodes, count>>

\* Faulty variant: the height is compared with the block before the upgrade height.
WaitForUpgradeHeightEarly ==
  /\ run.at = "WaitingForHeight" /\ ~run.cancelled /\ height >= run.st.target - 1
  /\ Save(run.st, "ChainHalted")
  /\ UNCHANGED <<chain, nodes, count>>

WaitForUpgradeHeight ==
  /\ run.at = "WaitingForHeight" /\ ~run.cancelled /\ height >= run.st.target
  /\ Save(run.st, "ChainHalted")
  /\ UNCHANGED <<chain, nodes, count>>

\* The same height read three times, which a slow chain shows as well as a halted one;
\* or three reads that failed, at whatever height.
WaitForChainHalt ==
  /\ run.at = "ChainHalted" /\ ~run.cancelled
  /\ IF height >= run.st.target THEN UNCHANGED count ELSE Counts("upsets")
  /\ Save(run.st, "SwitchingBinary")
  /\ UNCHANGED <<chain, nodes>>

\* SwitchBinaryUseCase, for the next node: its process is stopped if its PID is known
\* (Stop may fail, and the node is started all the same); then it is started, and
\* then its PID is saved.
StopNode ==
  /\ run.at = "SwitchingBinary" /\ run.next < Validators
  /\ LET i == run.next + 1
         stops == nodes[i].known /\ ~run.cancelled
     IN \/ /\ nodes' = IF stops THEN [nodes EXCEPT ![i] = [bin |-> "down", known |-> FALSE]] ELSE nodes
           /\ UNCHANGED count
        \/ stops /\ Counts("upsets") /\ UNCHANGED nodes
  /\ run' = [run EXCEPT !.at = "start"]
  /\ UNCHANGED <<file, chain>>

\* A process started beside one that still holds the home directory dies at once, and
\* its PID is saved over that of the other; one that cannot be started leaves the node
\* as it is and is not counted.
StartNode ==
  /\ run.at = "start"
  /\ LET i == run.next + 1 IN
       \/ /\ ~run.cancelled
          /\ nodes' = [nodes EXCEPT ![i] = [bin |-> IF @.bin = "down" THEN "new" ELSE @.bin, known |-> FALSE]]
          /\ run' = [run EXCEPT !.at = "save", !.seen = IF nodes[i].bin = "down" THEN 1 ELSE 0]
          /\ UNCHANGED <<file, count>>
       \/ /\ IF run.cancelled THEN UNCHANGED count ELSE Counts("upsets")
          /\ run' = [run EXCEPT !.at = "SwitchingBinary", !.next = i]
          /\ Track(i) /\ UNCHANGED nodes
  /\ UNCHANGED chain

SaveNode ==
  /\ run.at = "save"
  /\ LET i == run.next + 1 IN
       /\ nodes' = [nodes EXCEPT ![i].known = run.seen = 1]
       /\ run' = [run EXCEPT !.at = "SwitchingBinary", !.next = i, !.good = @ + 1, !.seen = 0]
       /\ Track(i)
  /\ UNCHANGED <<chain, count>>

\* However many nodes were restarted.
SwitchReturns ==
  /\ run.at = "SwitchingBinary" /\ run.next = Validators
  /\ Save(run.st, "VerifyingResume")
  /\ UNCHANGED <<chain, nodes, count>>

\* Faulty variant: one answer is taken for a chain that has resumed.
VerifyChainResumedOnce ==
  /\ run.at = "VerifyingResume" /\ ~run.cancelled
  /\ Save(run.st, "Completed")
  /\ UNCHANGED <<chain, nodes, count>>

\* Two reads, the second higher than the first.
VerifyChainResumed ==
  /\ run.at = "VerifyingResume" /\ ~run.cancelled
  /\ \/ run.seen < height /\ run.seen = 0 /\ run' = [run EXCEPT !.seen = height] /\ UNCHANGED file
     \/ run.seen < height /\ run.seen > 0 /\ Save(run.st, "Completed")
  /\ UNCHANGED <<chain, nodes, count>>

\* The version is recorded and the file deleted.
Completed ==
  /\ run.at = "Completed"
  /\ file' = NoState /\ run' = Idle
  /\ UNCHANGED <<chain, nodes, count>>

\* A call to the chain fails, or all of them until the deadline in ChainHalted and
\* VerifyingResume; or the new binary cannot be activated.
CallFails ==
  /\ run.at \in (GovStages \ {"ProposalSubmitted", "Completed"}) \cup {"receipt"}
  /\ run.at = "Initialized" => ~run.skip
  /\ run.at = "Voting" => run.next = 0
  /\ run.at = "SwitchingBinary" => run.next = 0 /\ ~run.cancelled
  /\ IF run.cancelled THEN UNCHANGED count ELSE Counts("upsets")
  /\ Fail
  /\ UNCHANGED <<chain, nodes>>

\* The chain has not halted after ten minutes, or not resumed after five.
TimesOut ==
  /\ \/ run.at = "ChainHalted" /\ height < run.st.target
     \/ run.at = "VerifyingResume" /\ ~Alive
  /\ Fail
  /\ UNCHANGED <<chain, nodes, count>>

\* Ctrl-C cancels the context of the command; a kill ends it between any two steps; a
\* save or an export that fails ends it as well, with the file as it was.
Interrupt ==
  /\ run.at # "idle" /\ ~run.cancelled /\ Counts("upsets")
  /\ run' = [run EXCEPT !.cancelled = TRUE]
  /\ UNCHANGED <<file, chain, nodes>>

Killed ==
  /\ run.at # "idle" /\ Counts("upsets")
  /\ run' = Idle
  /\ UNCHANGED <<file, chain, nodes>>

-----------------------------------------------------------------------------
(* The chain.                                                                *)

\* The voting periods end in the order of the proposals, each in a block.
EndVoting ==
  /\ Alive
  /\ \E p \in DOMAIN proposals :
       /\ Voting(p) /\ \A q \in 1 .. p - 1 : ~Voting(q)
       /\ \E s \in {"passed", "rejected"} :
            /\ s = "passed" => proposals[p].votes # {}
            /\ s = "rejected" => proposals[p].votes # Node
            /\ proposals' = [proposals EXCEPT ![p].status = s]
            /\ plan' = IF s = "passed" THEN proposals[p].target ELSE plan
  /\ UNCHANGED <<file, run, height, applied, nodes, count>>

Watched == \/ run.at = "WaitingForHeight" /\ height < run.st.target
           \/ run.at = "VerifyingResume" /\ height <= run.seen

Block ==
  /\ Alive
  /\ \A p \in DOMAIN proposals : Voting(p) => height + 1 < proposals[p].target
  /\ height' = height + 1
  /\ plan' = IF plan = height THEN 0 ELSE plan
  /\ applied' = (applied \/ plan = height)
  /\ IF Watched THEN UNCHANGED count ELSE Counts("blocks")
  /\ UNCHANGED <<file, run, proposals, nodes>>

RunStep ==
  \/ SubmitProposal \/ ProposalRefused \/ ProposalReceipt \/ PassThrough
  \/ VoteRefused \/ CastVote \/ VotesCounted
  \/ WaitForUpgradeHeight \/ WaitForChainHalt \/ StopNode \/ StartNode \/ SaveNode \/ SwitchReturns
  \/ VerifyChainResumed \/ Completed \/ TimesOut \/ (run.cancelled /\ CallFails)

Next ==
  \/ Start \/ Resume \/ ClearState \/ RunStep \/ CallFails \/ Interrupt \/ Killed
  \/ EndVoting \/ Block

\* The command goes on unless it is killed; the chain ends its voting periods and
\* produces the blocks it can.
Spec == Init /\ [][Next]_vars /\ WF_vars(RunStep) /\ WF_vars(EndVoting) /\ WF_vars(Watched /\ Block)

-----------------------------------------------------------------------------
(* Properties.                                                               *)

AfterHeight == {"ChainHalted", "SwitchingBinary", "VerifyingResume", "Completed"}

\* However often the upgrade was killed and resumed, no node is stopped for the switch,
\* and the file does not say that the chain has halted, before the upgrade height is
\* reached, unless a command skips governance or overrides the stage.
SwitchesAtHeight ==
  /\ file.stage \in AfterHeight /\ ~file.free => height >= file.target
  /\ run.at \in AfterHeight \cup {"start", "save"} /\ ~run.st.free => height >= run.st.target

\* Past the Voting stage every validator's vote is on the proposal that the file names,
\* votes of an earlier run that was killed included.
VotesAreCast ==
  file.stage \in AfterHeight \cup {"WaitingForHeight"} /\ ~file.free =>
    proposals[file.proposal].votes = Node

\* An upgrade that is saved as completed was applied by the chain: it has gone beyond
\* the upgrade height, with the new binary on more than two thirds of the nodes.
CompletedMeansUpgraded ==
  file.stage = "Completed" /\ ~file.free =>
    /\ height > file.target
    /\ proposals[file.proposal].status = "passed"
    /\ Quorum(NewNodes)

\* The stages saved follow the table of transitions, also across a kill and a resume,
\* and a terminal one is only ever deleted, unless the stage is overridden.
StagesInOrder ==
  [][file.stage # "none" /\ file'.stage \notin {"none", file.stage} /\ ~file'.free
       => file'.stage \in Transitions[file.stage]]_vars

\* The inductive core: the state in memory is the one in the file, but for a stage
\* that --resume-from replaced.
MemoryMatchesFile ==
  run.at # "idle" =>
    /\ file.stage # "none" /\ run.st.proposal = file.proposal /\ run.st.target = file.target
    /\ ~run.st.free => run.st = file

\* What a resumed command builds on: the memory of the run is that of the file, and the
\* votes of the runs before it are on the proposal.
ResumeInv == TypeOK /\ MemoryMatchesFile /\ VotesAreCast

\* The chain has halted for another plan, that of a proposal which passed although the
\* upgrade it belonged to failed and was cleared away, and the run waits for a height
\* beyond it.
Stranded == run.at = "WaitingForHeight" /\ Halted /\ plan < run.st.target

\* A command ends, as long as nothing fails and nobody interferes: no stage waits for
\* what cannot happen, with one exception.  The wait for the upgrade height has no
\* deadline, and a run that is stranded in it stays there.
RunEnds == (run.at # "idle" /\ count.upsets = 0) ~> (run.at = "idle" \/ count.upsets > 0 \/ Stranded)
=============================================================================
