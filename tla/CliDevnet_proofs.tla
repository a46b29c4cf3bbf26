-------------------------- MODULE CliDevnet_proofs --------------------------
(***************************************************************************)
(* Proofs about CliDevnet, for every number of nodes, processes, commands  *)
(* and upsets.  CliInv is inductive as it stands.  What a removal and an   *)
(* orderly use promise at their end rests on what each step of a command   *)
(* has already done: CommandShape, RemovalProgress and OrderlyProgress.    *)
(***************************************************************************)
EXTENDS CliDevnet, TLAPS

Removals == {"soft", "hard", "destroy"}

\* Which command is at which place.
CommandShape ==
  /\ cmd.at \in {"metadata", "records"} => cmd.name = "deploy"
  /\ cmd.at \in {"launch", "record"} => cmd.name \in {"deploy", "start", "nodestart"}
  /\ cmd.at = "kill" => cmd.name \in {"stop", "nodestop"} \cup Removals
  /\ cmd.at = "remove" => cmd.name \in Removals
  /\ cmd.name \in {"nodestart", "nodestop"} => cmd.node \in Node

\* The stop of a removal was made, or is being made; ok is FALSE for a destroy that goes on
\* without.
WithStop == cmd.name \in Removals /\ (cmd.name = "destroy" => cmd.ok)

\* How far the stop has come on which a removal relies.
RemovalProgress ==
  WithStop /\ cmd.found = "running" /\ ~meta.docker =>
    /\ cmd.at = "kill" => \A p \in Pids : Up(p) => p \in strays \/ procs[p].node >= cmd.node
    /\ cmd.at = "remove" => \A p \in Pids : Up(p) => p \in strays

Quiet == \A p \in Pids : ~Up(p)

\* What an orderly use keeps at every step of a command.
Orderly ==
  /\ strays = {} /\ ~meta.docker /\ ~cmd.box /\ cmd.ok /\ meta.status # "failed"
  /\ cmd.at \in {"metadata", "records", "remove"} => Quiet
  /\ cmd.at = "idle" \/ cmd.name = "nodestop" => meta.status = "running" \/ Quiet
  /\ cmd.name = "nodestart" => meta.status = "running"
  /\ cmd.at = "launch" => \A p \in Pids : Up(p) => procs[p].node # cmd.node
  /\ cmd.at = "record" => \A p \in Pids : Up(p) /\ procs[p].node = cmd.node => p = cmd.pid
  /\ cmd.at \in {"launch", "record"} /\ cmd.name # "nodestart" =>
       \A p \in Pids : Up(p) => procs[p].node <= cmd.node
  /\ cmd.at = "kill" /\ cmd.name # "nodestop" => \A p \in Pids : Up(p) => procs[p].node >= cmd.node

OrderlyProgress == ~trouble => Orderly

-----------------------------------------------------------------------------
(* Facts about single operators.                                             *)

\* A process that ends keeps its node, and no other process changes.
LEMMA EndsEffect ==
  ASSUME TypeOK, NEW r \in Pids, NEW x \in {"killed", "dead"}, Ends(r, x)
  PROVE  /\ procs' \in [Pids -> Processes]
         /\ \A p \in Pids : procs'[p].node = procs[p].node /\ procs'[p].box = procs[p].box
         /\ procs'[r].state = x
         /\ \A p \in Pids : p # r => procs'[p].state = procs[p].state
<1>1. procs \in [Pids -> Processes] /\ x \in {"unborn", "up", "killed", "dead"}
  BY DEF TypeOK
<1>2. procs' = [procs EXCEPT ![r].state = x]
  BY DEF Ends
<1> QED BY <1>1, <1>2 DEF Processes

\* A container that is removed is not up, and no other process changes.
LEMMA WithoutBoxesEffect ==
  ASSUME TypeOK, NEW n \in Node
  PROVE  /\ WithoutBoxes(n) \in [Pids -> Processes]
         /\ \A p \in Pids : /\ WithoutBoxes(n)[p].node = procs[p].node /\ WithoutBoxes(n)[p].box = procs[p].box
                            /\ WithoutBoxes(n)[p].state = "up" => procs[p].state = "up" /\ ~(procs[p].box /\ procs[p].node = n)
                            /\ procs[p].state = "unborn" => WithoutBoxes(n)[p].state = "unborn"
<1>1. procs \in [Pids -> Processes]
  BY DEF TypeOK
<1> QED BY <1>1 DEF Processes, WithoutBoxes

\* The command record keeps its type when it proceeds.
LEMMA CommandTypes ==
  ASSUME NEW c \in Commands
  PROVE  /\ Idle \in Commands
         /\ \A at \in Places : [c EXCEPT !.at = at] \in Commands
         /\ \A at \in Places : [c EXCEPT !.at = at, !.node = @ + 1, !.pid = NoPid] \in Commands
         /\ \A at \in Places : [c EXCEPT !.at = at, !.node = 0] \in Commands
         /\ [c EXCEPT !.node = @ + 1, !.ok = FALSE] \in Commands
         /\ \A at \in Places, p \in Pids : [c EXCEPT !.at = at, !.pid = p] \in Commands
<1>a. c.node + 1 \in Nat /\ NoPid \in Pids \cup {NoPid}
  BY DEF Commands
<1>1. Idle \in Commands
  BY DEF Commands, Idle, Places, Names, Status
<1>2. \A at \in Places : [c EXCEPT !.at = at] \in Commands
  BY DEF Commands
<1>3. \A at \in Places : [c EXCEPT !.at = at, !.node = @ + 1, !.pid = NoPid] \in Commands
  BY <1>a DEF Commands
<1>4. \A at \in Places : [c EXCEPT !.at = at, !.node = 0] \in Commands
  BY DEF Commands
<1>5. [c EXCEPT !.node = @ + 1, !.ok = FALSE] \in Commands
  BY <1>a DEF Commands
<1>6. \A at \in Places, p \in Pids : [c EXCEPT !.at = at, !.pid = p] \in Commands
  BY DEF Commands
<1> QED BY <1>1, <1>2, <1>3, <1>4, <1>5, <1>6

\* What the counters of the bounds allow keeps their type.
LEMMA CountType ==
  ASSUME TypeOK, NEW c \in Counted, Counts(c)
  PROVE  count' \in [Counted -> Nat]
BY DEF TypeOK, Counts, Counted

LEMMA SmoothOrUpset ==
  ASSUME TypeOK, Smooth \/ Upset
  PROVE  count' \in [Counted -> Nat] /\ trouble' \in BOOLEAN
BY CountType DEF TypeOK, Smooth, Upset, Counted

-----------------------------------------------------------------------------
(* Types.                                                                    *)

LEMMA TypeInit == Init => TypeOK
<1> SUFFICES ASSUME Init PROVE TypeOK
  OBVIOUS
<1>1. meta \in Metas
  BY DEF Init, NoDevnet, Metas, Status
<1>2. recs \in [Node -> Records]
  BY DEF Init, Records
<1>3. procs \in [Pids -> Processes]
  BY SizesAssumption DEF Init, Processes, Node
<1>4. cmd \in Commands
  BY DEF Init, Idle, Commands, Names, Places, Status
<1>5. born \in 0 .. MaxPids
  BY SizesAssumption DEF Init
<1>6. strays \subseteq Pids /\ trouble \in BOOLEAN /\ count \in [Counted -> Nat]
  BY DEF Init
<1> QED BY <1>1, <1>2, <1>3, <1>4, <1>5, <1>6 DEF TypeOK

LEMMA TypeStep == TypeOK /\ RecordsMatch /\ [Next]_vars => TypeOK'
<1> SUFFICES ASSUME TypeOK, RecordsMatch, [Next]_vars PROVE TypeOK'
  OBVIOUS
<1>a. /\ meta \in Metas /\ recs \in [Node -> Records] /\ procs \in [Pids -> Processes] /\ born \in 0 .. MaxPids
      /\ cmd \in Commands /\ strays \subseteq Pids /\ trouble \in BOOLEAN /\ count \in [Counted -> Nat]
  BY DEF TypeOK
<1>b. \A N : Orphans(N) \subseteq Pids
  BY DEF Orphans
<1>c. /\ cmd.node \in Nat /\ cmd.pid \in Pids \cup {NoPid} /\ cmd.box \in BOOLEAN /\ meta.status \in Status
      /\ meta.docker \in BOOLEAN
  BY <1>a DEF Commands, Metas
<1>d. \A s \in Status : [meta EXCEPT !.status = s] \in Metas
  BY <1>a DEF Metas
<1>e. NoDevnet \in Metas
  BY DEF Metas, NoDevnet, Status
<1>f. ASSUME NEW at \in Places, Proceeds(at) PROVE cmd' \in Commands
  BY <1>f, <1>a, CommandTypes DEF Proceeds
<1>g. ASSUME NEW name \in Names, NEW at \in Places, NEW n \in Nat, NEW box \in BOOLEAN, Begins(name, at, n, box), trouble' \in BOOLEAN
      PROVE  TypeOK'
  <2>1. count' \in [Counted -> Nat]
    BY <1>g, CountType DEF Begins, Counted
  <2>2. cmd' \in Commands
    BY <1>g, <1>c DEF Begins, Commands, Idle
  <2> QED BY <2>1, <2>2, <1>g, <1>a DEF Begins, TypeOK
<1>1. CASE Deploy
  <2>1. trouble' \in BOOLEAN
    BY <1>1, <1>a DEF Deploy
  <2> QED BY <1>1, <1>g, <2>1 DEF Deploy, Names, Places
<1>2. CASE Start
  BY <1>2, <1>g, <1>a DEF Start, Names, Places
<1>3. CASE Stop
  BY <1>3, <1>g, <1>a DEF Stop, Names, Places
<1>4. CASE Remove
  BY <1>4, <1>g, <1>a DEF Remove, Names, Places
<1>22. CASE DestroyUnstopped
  <2>1. count' \in [Counted -> Nat]
    BY <1>22, CountType DEF DestroyUnstopped, Counted
  <2>2. cmd' \in Commands
    BY <1>22, <1>c DEF DestroyUnstopped, Commands, Idle, Names, Places
  <2> QED BY <2>1, <2>2, <1>22, <1>a DEF DestroyUnstopped, TypeOK
<1>5. CASE StartNode
  <2>1. trouble' \in BOOLEAN
    BY <1>5, <1>a DEF StartNode
  <2>2. PICK n \in Node : Begins("nodestart", "launch", n, FALSE)
    BY <1>5 DEF StartNode
  <2>3. n \in Nat
    BY DEF Node
  <2> QED BY <1>g, <2>1, <2>2, <2>3 DEF Names, Places
<1>6. CASE StopNode
  <2>1. trouble' \in BOOLEAN
    BY <1>6, <1>a DEF StopNode
  <2>2. PICK n \in Node : Begins("nodestop", "kill", n, FALSE)
    BY <1>6 DEF StopNode
  <2>3. n \in Nat
    BY DEF Node
  <2> QED BY <1>g, <2>1, <2>2, <2>3 DEF Names, Places
<1>7. CASE SaveMetadata
  <2>1. meta' \in Metas
    BY <1>7, <1>a, <1>c DEF SaveMetadata, Metas, Status
  <2>2. cmd' \in Commands
    BY <1>7, <1>a, CommandTypes DEF SaveMetadata, Places
  <2>3. Smooth \/ Upset
    BY <1>7 DEF SaveMetadata
  <2> QED BY <2>1, <2>2, <2>3, <1>7, <1>a, SmoothOrUpset DEF SaveMetadata, TypeOK
<1>8. CASE SaveNode
  <2>1. cmd' \in Commands
    BY <1>8, <1>f DEF SaveNode, Places
  <2>2. recs' \in [Node -> Records] /\ strays' \subseteq Pids
    BY <1>8, <1>a, <1>b DEF SaveNode, Saved, Tears, Records
  <2>3. Smooth \/ Upset
    BY <1>8 DEF SaveNode, Saved
  <2> QED BY <2>1, <2>2, <2>3, <1>8, <1>a, SmoothOrUpset DEF SaveNode, TypeOK
<1>9. CASE Provisioned
  <2>1. cmd' \in Commands
    BY <1>9, <1>a, CommandTypes DEF Provisioned, Places
  <2> QED BY <2>1, <1>9, <1>a, SmoothOrUpset DEF Provisioned, TypeOK
<1>10. CASE LaunchLocal
  <2>1. born + 1 \in Pids /\ born' \in 0 .. MaxPids
    BY <1>10, <1>a, SizesAssumption DEF LaunchLocal, Pids
  <2>2. cmd' \in Commands
    BY <2>1, <1>10, <1>a, CommandTypes DEF LaunchLocal, Places
  <2>3. procs' \in [Pids -> Processes]
    BY <2>1, <1>10, <1>a DEF LaunchLocal, Launched, Processes
  <2> QED BY <2>1, <2>2, <2>3, <1>10, <1>a, SmoothOrUpset DEF LaunchLocal, TypeOK
<1>11. CASE LaunchDocker
  <2>1. born + 1 \in Pids /\ born' \in 0 .. MaxPids
    BY <1>11, <1>a, SizesAssumption DEF LaunchDocker, Pids
  <2>2. cmd' \in Commands
    BY <2>1, <1>11, <1>a, CommandTypes DEF LaunchDocker, Places
  <2>3. procs' \in [Pids -> Processes]
    <3>1. WithoutBoxes(cmd.node) \in [Pids -> Processes]
      BY <1>11, WithoutBoxesEffect DEF LaunchDocker
    <3> QED BY <3>1, <2>1, <1>11 DEF LaunchDocker, Processes
  <2> QED BY <2>1, <2>2, <2>3, <1>11, <1>a, SmoothOrUpset DEF LaunchDocker, TypeOK
<1>12. CASE LaunchFails
  <2>1. cmd' \in Commands
    BY <1>12, <1>a, <1>f, CommandTypes DEF LaunchFails, Places
  <2>2. procs' \in [Pids -> Processes]
    BY <1>12, <1>a, WithoutBoxesEffect DEF LaunchFails
  <2>3. Smooth \/ Upset
    BY <1>12 DEF LaunchFails
  <2> QED BY <2>1, <2>2, <2>3, <1>12, <1>a, SmoothOrUpset DEF LaunchFails, TypeOK
<1>13. CASE RecordLaunch
  <2>1. cmd' \in Commands
    BY <1>13, <1>f DEF RecordLaunch, Places
  <2>2. Smooth \/ Upset
    BY <1>13 DEF RecordLaunch, Saved
  <2>3. cmd.pid \in Pids
    BY <1>13 DEF RecordLaunch, RecordsMatch
  <2>4. recs' \in [Node -> Records] /\ strays' \subseteq Pids
    BY <2>3, <1>13, <1>a, <1>b DEF RecordLaunch, Saved, Tears, Records
  <2> QED BY <2>1, <2>2, <2>4, <1>13, <1>a, SmoothOrUpset DEF RecordLaunch, TypeOK
<1>14. CASE SaveStarted
  <2>1. meta' \in Metas
    BY <1>14, <1>a, <1>d DEF SaveStarted, Saved, MetaKeptOrTorn, Status
  <2>2. Smooth \/ Upset
    BY <1>14 DEF SaveStarted, Saved
  <2> QED BY <2>1, <2>2, <1>14, <1>a, SmoothOrUpset, CommandTypes DEF SaveStarted, TypeOK
<1>15. CASE KillNode
  <2>1. cmd' \in Commands
    BY <1>15, <1>f DEF KillNode, Places
  <2>2. Smooth \/ Upset
    BY <1>15 DEF KillNode, Saved
  <2>3. procs' \in [Pids -> Processes]
    BY <1>15, <1>a, EndsEffect DEF KillNode
  <2>4. recs' \in [Node -> Records]
    BY <1>15, <1>a DEF KillNode, Saved, Tears, Records
  <2> QED BY <2>1, <2>2, <2>3, <2>4, <1>15, <1>a, SmoothOrUpset DEF KillNode, TypeOK
<1>16. CASE SaveStopped
  <2>1. meta' \in Metas
    BY <1>16, <1>a, <1>d DEF SaveStopped, Saved, MetaKeptOrTorn, Status
  <2>2. Smooth \/ Upset
    BY <1>16 DEF SaveStopped, Saved
  <2>3. cmd' \in Commands
    BY <1>16, <1>a, CommandTypes DEF SaveStopped, Places
  <2> QED BY <2>1, <2>2, <2>3, <1>16, <1>a, SmoothOrUpset DEF SaveStopped, TypeOK
<1>17. CASE SoftReset
  <2>1. meta' \in Metas
    BY <1>17, <1>a, <1>d DEF SoftReset, Saved, MetaKeptOrTorn, Status
  <2>2. Smooth \/ Upset
    BY <1>17 DEF SoftReset, Saved
  <2> QED BY <2>1, <2>2, <1>17, <1>a, SmoothOrUpset, CommandTypes DEF SoftReset, TypeOK
<1>18. CASE Delete
  <2>1. meta' \in Metas
    BY <1>18, <1>a, <1>e DEF Delete, Saved
  <2>2. Smooth \/ Upset
    BY <1>18 DEF Delete, Saved
  <2>3. recs' \in [Node -> Records]
    BY <1>18, <1>a DEF Delete, Saved, Records
  <2>4. strays' \subseteq Pids
    BY <1>18, <1>a, <1>b DEF Delete, Saved
  <2> QED BY <2>1, <2>2, <2>3, <2>4, <1>18, <1>a, SmoothOrUpset, CommandTypes DEF Delete, TypeOK
<1>19. CASE Killed
  <2>1. strays' \subseteq Pids
    BY <1>19, <1>a DEF Killed
  <2> QED BY <2>1, <1>19, <1>a, SmoothOrUpset, CommandTypes DEF Killed, TypeOK
<1>20. CASE ProcessDies
  <2>1. procs' \in [Pids -> Processes]
    BY <1>20, EndsEffect DEF ProcessDies
  <2> QED BY <2>1, <1>20, <1>a DEF ProcessDies, TypeOK
<1>21. CASE UNCHANGED vars
  BY <1>21, <1>a DEF vars, TypeOK
<1> QED
  BY <1>1, <1>2, <1>3, <1>4, <1>5, <1>6, <1>7, <1>8, <1>9, <1>10, <1>11, <1>12, <1>13, <1>14,
     <1>15, <1>16, <1>17, <1>18, <1>19, <1>20, <1>21, <1>22 DEF Next, Step

-----------------------------------------------------------------------------
(* What the files know of the processes.                                     *)

\* The parts of CliInv beyond types.
Known == RecordsMatch /\ ProcessesAreKnown /\ OneContainer

LEMMA KnownInit == Init => Known
<1> SUFFICES ASSUME Init PROVE Known
  OBVIOUS
<1>1. \A n \in Node : recs[n] = Absent
  BY DEF Init
<1>2. \A p \in Pids : procs[p].state = "unborn"
  BY DEF Init
<1>3. cmd.at = "idle"
  BY DEF Init, Idle
<1>4. Absent \notin Pids
  BY DEF Absent, Pids
<1> QED BY <1>1, <1>2, <1>3, <1>4 DEF Known, RecordsMatch, ProcessesAreKnown, OneContainer, Up

LEMMA KnownStep == TypeOK /\ Known /\ [Next]_vars => Known'
<1> SUFFICES ASSUME TypeOK, Known, [Next]_vars PROVE Known'
  OBVIOUS
<1>a. /\ recs \in [Node -> Records] /\ procs \in [Pids -> Processes] /\ born \in 0 .. MaxPids
      /\ cmd \in Commands /\ strays \subseteq Pids
  BY DEF TypeOK
<1>b. /\ \A n \in Node : recs[n] \in Pids => recs[n] <= born /\ procs[recs[n]].node = n
      /\ \A p \in Pids : p > born => procs[p].state = "unborn"
      /\ cmd.at = "record" => cmd.pid \in Pids /\ cmd.pid <= born /\ cmd.node \in Node
                              /\ procs[cmd.pid].node = cmd.node /\ \A n \in Node : recs[n] # cmd.pid
  BY DEF Known, RecordsMatch
<1>c. \A p \in Pids : procs[p].state = "up" =>
        p \in strays \/ (cmd.at = "record" /\ cmd.pid = p) \/ recs[procs[p].node] = p
  BY DEF Known, ProcessesAreKnown, Up
<1>d. \A p, q \in Pids : procs[p].state = "up" /\ procs[q].state = "up" /\ procs[p].box /\ procs[q].box
                         /\ procs[p].node = procs[q].node => p = q
  BY DEF Known, OneContainer, Up
<1>e. \A p \in Pids : procs[p].node \in Node
  BY <1>a DEF Processes
<1>f. Idle.at = "idle"
  BY DEF Idle
<1>g. ASSUME UNCHANGED <<procs, recs, born>>, cmd'.at # "record", strays \subseteq strays',
             cmd.at = "record" => cmd.pid \in strays'
      PROVE  Known'
  BY <1>b, <1>c, <1>d, <1>g DEF Known, RecordsMatch, ProcessesAreKnown, OneContainer, Up
<1>h. ASSUME NEW name, NEW at \in {"metadata", "launch", "kill", "remove"}, NEW n, NEW box, Begins(name, at, n, box)
      PROVE  Known'
  <2>1. cmd'.at = at /\ cmd.at = "idle" /\ UNCHANGED <<procs, recs, born, strays>>
    BY <1>h DEF Begins, Idle
  <2> QED BY <2>1, <1>g
<1>i. ASSUME NEW at, at # "record", Proceeds(at)
      PROVE  cmd'.at # "record"
  BY <1>i, <1>a, <1>f DEF Proceeds, Commands
<1>1. CASE Deploy
  BY <1>1, <1>h DEF Deploy
<1>2. CASE Start
  BY <1>2, <1>h DEF Start
<1>3. CASE Stop
  BY <1>3, <1>h DEF Stop
<1>4. CASE Remove
  BY <1>4, <1>h DEF Remove
<1>22. CASE DestroyUnstopped
  <2>1. cmd'.at = "remove" /\ cmd.at = "idle" /\ UNCHANGED <<procs, recs, born, strays>>
    BY <1>22 DEF DestroyUnstopped, Idle
  <2> QED BY <2>1, <1>g
<1>5. CASE StartNode
  BY <1>5, <1>h DEF StartNode
<1>6. CASE StopNode
  BY <1>6, <1>h DEF StopNode
<1>7. CASE SaveMetadata
  <2>1. cmd'.at # "record" /\ cmd.at # "record"
    BY <1>7, <1>a, <1>f DEF SaveMetadata, Commands
  <2> QED BY <2>1, <1>7, <1>g DEF SaveMetadata
<1>8. CASE SaveNode
  <2>1. cmd'.at # "record" /\ cmd.at # "record" /\ cmd.node \in Node
    BY <1>8, <1>i DEF SaveNode
  <2>2. CASE UNCHANGED <<recs, strays>>
    BY <2>1, <2>2, <1>8, <1>g DEF SaveNode
  <2>3. ASSUME NEW x \in {NoPid, Torn}, recs' = [recs EXCEPT ![cmd.node] = x],
               strays' = strays \cup Orphans({cmd.node})
        PROVE  Known'
    <3>1. x \notin Pids /\ procs' = procs /\ born' = born
      BY <1>8 DEF SaveNode, NoPid, Torn, Pids
    <3>2. \A n \in Node : recs'[n] = IF n = cmd.node THEN x ELSE recs[n]
      BY <2>3, <1>a
    <3>3. RecordsMatch'
      BY <3>1, <3>2, <2>1, <1>b DEF RecordsMatch
    <3>4. ProcessesAreKnown'
      BY <3>1, <3>2, <2>1, <2>3, <1>c, <1>e DEF ProcessesAreKnown, Orphans, Up
    <3>5. OneContainer'
      BY <3>1, <1>d DEF OneContainer, Up
    <3> QED BY <3>3, <3>4, <3>5 DEF Known
  <2> QED BY <2>2, <2>3, <1>8 DEF SaveNode, Saved, Tears
<1>9. CASE Provisioned
  <2>1. cmd'.at # "record" /\ cmd.at # "record"
    BY <1>9, <1>a, <1>f DEF Provisioned, Commands
  <2> QED BY <2>1, <1>9, <1>g DEF Provisioned
<1>10. CASE LaunchLocal \/ LaunchDocker
  <2> DEFINE q == born + 1
  <2>1. /\ q \in Pids /\ born' = q /\ q > born /\ recs' = recs /\ strays' = strays
        /\ cmd.at # "record" /\ cmd.node \in Node
    <3>1. born < MaxPids /\ born' = q /\ recs' = recs /\ strays' = strays /\ cmd.at = "launch" /\ cmd.node \in Node
      BY <1>10 DEF LaunchLocal, LaunchDocker
    <3>2. q \in Pids /\ q > born
      BY <3>1, <1>a, SizesAssumption DEF Pids
    <3> QED BY <3>1, <3>2
  <2>2. cmd'.at = "record" /\ cmd'.pid = q /\ cmd'.node = cmd.node
    BY <1>10, <1>a DEF LaunchLocal, LaunchDocker, Commands
  <2>3. \A n \in Node : recs[n] # q
    BY <2>1, <1>a, <1>b, SizesAssumption DEF Pids
  <2>4. /\ procs'[q].node = cmd.node /\ procs'[q].state = "up"
        /\ \A p \in Pids : p # q => /\ procs'[p].node = procs[p].node /\ procs'[p].box = procs[p].box
                                    /\ procs'[p].state = "up" => procs[p].state = "up"
                                    /\ procs[p].state = "unborn" => procs'[p].state = "unborn"
    <3>1. CASE LaunchLocal
      BY <3>1, <2>1, <1>a DEF LaunchLocal, Launched
    <3>2. CASE LaunchDocker
      <4>1. procs' = [WithoutBoxes(cmd.node) EXCEPT ![q] = [node |-> cmd.node, box |-> TRUE, state |-> "up"]]
        BY <3>2 DEF LaunchDocker
      <4> QED BY <4>1, <2>1, WithoutBoxesEffect
    <3> QED BY <1>10, <3>1, <3>2
  <2>5. procs'[q].box => \A p \in Pids : p # q /\ procs'[p].state = "up" /\ procs[p].box => procs[p].node # cmd.node
    <3>1. CASE LaunchLocal
      BY <3>1, <2>1, <1>a DEF LaunchLocal, Launched
    <3>2. CASE LaunchDocker
      <4>1. procs' = [WithoutBoxes(cmd.node) EXCEPT ![q] = [node |-> cmd.node, box |-> TRUE, state |-> "up"]]
        BY <3>2 DEF LaunchDocker
      <4> QED BY <4>1, <2>1, WithoutBoxesEffect
    <3> QED BY <1>10, <3>1, <3>2
  <2> HIDE DEF q
  <2>6. RecordsMatch'
    <3>1. \A n \in Node : recs'[n] \in Pids => recs'[n] <= born' /\ procs'[recs'[n]].node = n
      BY <2>1, <2>3, <2>4, <1>a, <1>b DEF Pids
    <3>2. \A p \in Pids : p > born' => procs'[p].state = "unborn"
      BY <2>1, <2>4, <1>a, <1>b DEF Pids
    <3>3. cmd'.pid \in Pids /\ cmd'.pid <= born' /\ cmd'.node \in Node /\ procs'[cmd'.pid].node = cmd'.node
      BY <2>1, <2>2, <2>4 DEF Pids
    <3>4. \A n \in Node : recs'[n] # cmd'.pid
      BY <2>1, <2>2, <2>3
    <3> QED BY <3>1, <3>2, <3>3, <3>4 DEF RecordsMatch
  <2>7. ProcessesAreKnown'
    BY <2>1, <2>2, <2>4, <1>c DEF ProcessesAreKnown, Up
  <2>8. OneContainer'
    BY <2>4, <2>5, <1>d DEF OneContainer, Up
  <2> QED BY <2>6, <2>7, <2>8 DEF Known
<1>12. CASE LaunchFails
  <2>1. cmd'.at # "record" /\ cmd.at # "record" /\ cmd.node \in Node /\ UNCHANGED <<recs, born, strays>>
    BY <1>12, <1>a, <1>f, <1>i DEF LaunchFails, Commands
  <2>2. CASE UNCHANGED procs
    BY <2>1, <2>2, <1>g
  <2>3. CASE procs' = WithoutBoxes(cmd.node)
    <3>1. \A p \in Pids : /\ procs'[p].node = procs[p].node /\ procs'[p].box = procs[p].box
                          /\ procs'[p].state = "up" => procs[p].state = "up"
                          /\ procs[p].state = "unborn" => procs'[p].state = "unborn"
      BY <2>1, <2>3, WithoutBoxesEffect
    <3> QED BY <3>1, <2>1, <1>b, <1>c, <1>d DEF Known, RecordsMatch, ProcessesAreKnown, OneContainer, Up
  <2> QED BY <2>2, <2>3, <1>12 DEF LaunchFails
<1>13. CASE RecordLaunch
  <2>1. cmd'.at # "record" /\ cmd.at = "record" /\ procs' = procs /\ born' = born
    BY <1>13, <1>i DEF RecordLaunch
  <2>2. CASE recs' = recs /\ strays' = strays \cup {cmd.pid}
    BY <2>1, <2>2, <1>g
  <2>3. CASE recs' = [recs EXCEPT ![cmd.node] = cmd.pid] /\ strays' = strays \cup Orphans({cmd.node})
    <3>1. \A n \in Node : recs'[n] = IF n = cmd.node THEN cmd.pid ELSE recs[n]
      BY <2>3, <1>a
    <3>2. RecordsMatch'
      BY <3>1, <2>1, <1>b DEF RecordsMatch
    <3>3. ProcessesAreKnown'
      BY <3>1, <2>1, <2>3, <1>b, <1>c, <1>e DEF ProcessesAreKnown, Orphans, Up
    <3>4. OneContainer'
      BY <2>1, <1>d DEF OneContainer, Up
    <3> QED BY <3>2, <3>3, <3>4 DEF Known
  <2>4. CASE Tears(cmd.node) /\ strays' = strays \cup {cmd.pid} \cup Orphans({cmd.node})
    <3>1. Torn \notin Pids
      BY DEF Torn, Pids
    <3>2. \A n \in Node : recs'[n] = IF n = cmd.node THEN Torn ELSE recs[n]
      BY <2>4, <1>a DEF Tears
    <3>3. RecordsMatch'
      BY <3>1, <3>2, <2>1, <1>b DEF RecordsMatch
    <3>4. ProcessesAreKnown'
      BY <3>2, <2>1, <2>4, <1>b, <1>c, <1>e DEF ProcessesAreKnown, Orphans, Up
    <3>5. OneContainer'
      BY <2>1, <1>d DEF OneContainer, Up
    <3> QED BY <3>3, <3>4, <3>5 DEF Known
  <2> QED BY <2>2, <2>3, <2>4, <1>13 DEF RecordLaunch, Saved
<1>14. CASE SaveStarted
  <2>1. cmd'.at # "record" /\ cmd.at # "record"
    BY <1>14, <1>f DEF SaveStarted
  <2> QED BY <2>1, <1>14, <1>g DEF SaveStarted
<1>15. CASE KillNode
  <2> DEFINE r == recs[cmd.node]
  <2>1. cmd'.at # "record" /\ cmd.at # "record" /\ cmd.node \in Node /\ born' = born /\ strays' = strays
    BY <1>15, <1>i DEF KillNode
  <2>2. CASE UNCHANGED <<recs, procs>>
    BY <2>1, <2>2, <1>g
  <2>3. CASE /\ r \in Pids /\ (Ends(r, "dead") \/ Ends(r, "killed"))
             /\ recs' = [recs EXCEPT ![cmd.node] = NoPid] \/ recs' = recs \/ Tears(cmd.node)
    <3>1. NoPid \notin Pids /\ Torn \notin Pids
      BY DEF NoPid, Torn, Pids
    <3>2. \A n \in Node : recs'[n] = recs[n] \/ (n = cmd.node /\ recs'[n] \in {NoPid, Torn})
      BY <2>3, <1>a DEF Tears
    <3>3. \A p \in Pids : /\ procs'[p].node = procs[p].node /\ procs'[p].box = procs[p].box
                          /\ procs'[p].state = "up" => procs[p].state = "up" /\ p # r
                          /\ p # r => procs'[p].state = procs[p].state
      BY <2>3, EndsEffect
    <3>4. r <= born /\ procs[r].node = cmd.node
      BY <2>1, <2>3, <1>b
    <3> HIDE DEF r
    <3>5. RecordsMatch'
      <4>1. \A n \in Node : recs'[n] \in Pids => recs'[n] <= born' /\ procs'[recs'[n]].node = n
        BY <3>1, <3>2, <3>3, <2>1, <1>b
      <4>2. \A p \in Pids : p > born' => procs'[p].state = "unborn"
        <5>1. r \in Pids
          BY <2>3
        <5> QED BY <5>1, <3>3, <3>4, <2>1, <1>a, <1>b DEF Pids
      <4> QED BY <4>1, <4>2, <2>1 DEF RecordsMatch
    <3>6. ProcessesAreKnown'
      <4> USE DEF r
      <4> SUFFICES ASSUME NEW p \in Pids, procs'[p].state = "up"
                   PROVE  p \in strays \/ recs'[procs'[p].node] = p
        BY <2>1 DEF ProcessesAreKnown, Up
      <4>1. procs[p].state = "up" /\ p # r /\ procs'[p].node = procs[p].node /\ procs[p].node \in Node
        BY <3>3, <1>e
      <4>2. p \in strays \/ recs[procs[p].node] = p
        BY <4>1, <2>1, <1>c
      <4> QED BY <4>1, <4>2, <3>2
    <3>7. OneContainer'
      BY <3>3, <1>d DEF OneContainer, Up
    <3> QED BY <3>5, <3>6, <3>7 DEF Known
  <2> QED BY <2>2, <2>3, <1>15 DEF KillNode, Saved
<1>16. CASE SaveStopped
  <2>1. cmd'.at # "record" /\ cmd.at # "record"
    BY <1>16, <1>a, <1>f DEF SaveStopped, Commands
  <2> QED BY <2>1, <1>16, <1>g DEF SaveStopped
<1>17. CASE SoftReset
  <2>1. cmd'.at # "record" /\ cmd.at # "record"
    BY <1>17, <1>f DEF SoftReset
  <2> QED BY <2>1, <1>17, <1>g DEF SoftReset
<1>18. CASE Delete
  <2>1. cmd'.at # "record" /\ cmd.at # "record" /\ procs' = procs /\ born' = born
    BY <1>18, <1>f DEF Delete
  <2>2. PICK N \in SUBSET Node : /\ recs' = [n \in Node |-> IF n \in N THEN Absent ELSE recs[n]]
                                 /\ strays' = strays \cup Orphans(N)
    <3>1. CASE recs' = [n \in Node |-> Absent] /\ strays' = strays \cup Orphans(Node)
      BY <3>1
    <3> QED BY <3>1, <1>18 DEF Delete, Saved
  <2>3. Absent \notin Pids
    BY DEF Absent, Pids
  <2>4. RecordsMatch'
    BY <2>1, <2>2, <2>3, <1>b DEF RecordsMatch
  <2>5. ProcessesAreKnown'
    BY <2>1, <2>2, <1>c, <1>e DEF ProcessesAreKnown, Orphans, Up
  <2>6. OneContainer'
    BY <2>1, <1>d DEF OneContainer, Up
  <2> QED BY <2>4, <2>5, <2>6 DEF Known
<1>19. CASE Killed
  <2>1. cmd'.at # "record"
    BY <1>19, <1>f DEF Killed
  <2>2. strays \subseteq strays' /\ (cmd.at = "record" => cmd.pid \in strays')
    BY <1>19, <1>b DEF Killed
  <2> QED BY <2>1, <2>2, <1>19, <1>g DEF Killed
<1>20. CASE ProcessDies
  <2>1. PICK r \in Pids : procs[r].state \in {"up", "killed"} /\ Ends(r, "dead")
    BY <1>20 DEF ProcessDies
  <2>2. /\ \A p \in Pids : procs'[p].node = procs[p].node /\ procs'[p].box = procs[p].box
        /\ procs'[r].state = "dead" /\ \A p \in Pids : p # r => procs'[p].state = procs[p].state
    BY <2>1, EndsEffect
  <2>3. ~(r > born)
    BY <2>1, <1>b
  <2>4. UNCHANGED <<recs, born, cmd, strays>>
    BY <1>20 DEF ProcessDies
  <2>5. RecordsMatch'
    BY <2>2, <2>3, <2>4, <1>b DEF RecordsMatch
  <2>6. ProcessesAreKnown'
    BY <2>2, <2>4, <1>c DEF ProcessesAreKnown, Up
  <2>7. OneContainer'
    BY <2>2, <1>d DEF OneContainer, Up
  <2> QED BY <2>5, <2>6, <2>7 DEF Known
<1>21. CASE UNCHANGED vars
  BY <1>21, <1>b, <1>c, <1>d DEF vars, Known, RecordsMatch, ProcessesAreKnown, OneContainer, Up
<1> QED
  BY <1>1, <1>2, <1>3, <1>4, <1>5, <1>6, <1>7, <1>8, <1>9, <1>10, <1>12, <1>13, <1>14,
     <1>15, <1>16, <1>17, <1>18, <1>19, <1>20, <1>21, <1>22 DEF Next, Step

\* Every process that is up is in a node.json, in the hand of the command that launched
\* it, or was lost in one of the ways the model counts; a node.json names a process of
\* its own node, and a node has one container at most.
THEOREM CliInvariant == Spec => []CliInv
<1>1. Init => TypeOK /\ Known
  BY TypeInit, KnownInit
<1>2. TypeOK /\ Known /\ [Next]_vars => (TypeOK /\ Known)'
  BY TypeStep, KnownStep DEF Known
<1>3. TypeOK /\ Known => CliInv
  BY DEF Known, CliInv
<1> QED BY <1>1, <1>2, <1>3, PTL DEF Spec

-----------------------------------------------------------------------------
(* Removals.                                                                 *)

LEMMA ShapeStep == TypeOK /\ CommandShape /\ [Next]_vars => CommandShape'
<1> SUFFICES ASSUME TypeOK, CommandShape, [Next]_vars PROVE CommandShape'
  OBVIOUS
<1>a. cmd \in Commands
  BY DEF TypeOK
<1>b. cmd' = Idle => CommandShape'
  BY DEF Idle, CommandShape
<1>c. cmd' = cmd => CommandShape'
  BY DEF CommandShape
<1>1. CASE Deploy \/ Start \/ Stop \/ Remove \/ DestroyUnstopped
  BY <1>1 DEF Deploy, Start, Stop, Remove, DestroyUnstopped, Begins, Idle, CommandShape, Removals
<1>2. CASE StartNode \/ StopNode
  BY <1>2 DEF StartNode, StopNode, Begins, Idle, CommandShape, Removals
<1>3. CASE SaveMetadata \/ Provisioned \/ SaveStopped
  <2>1. CASE SaveMetadata
    BY <2>1, <1>a, <1>b DEF SaveMetadata, CommandShape, Commands
  <2>2. CASE Provisioned
    BY <2>2, <1>a, <1>b DEF Provisioned, CommandShape, Commands
  <2>3. CASE SaveStopped
    BY <2>3, <1>a, <1>b DEF SaveStopped, CommandShape, Commands, Removals
  <2> QED BY <1>3, <2>1, <2>2, <2>3
<1>4. CASE SaveNode \/ RecordLaunch \/ KillNode
  <2>1. PICK at \in {"records", "launch", "kill"} :
          Proceeds(at) /\ (at = cmd.at \/ (at = "launch" /\ cmd.at = "record"))
    BY <1>4 DEF SaveNode, RecordLaunch, KillNode
  <2>2. CASE cmd.name \notin {"nodestart", "nodestop"}
    <3>1. cmd'.at = at /\ cmd'.name = cmd.name
      BY <2>1, <2>2, <1>a DEF Proceeds, Commands
    <3> QED BY <3>1, <2>1, <2>2 DEF CommandShape
  <2> QED BY <2>1, <2>2, <1>b DEF Proceeds
<1>5. CASE LaunchLocal \/ LaunchDocker
  <2>1. cmd'.at = "record" /\ cmd'.name = cmd.name /\ cmd'.node = cmd.node /\ cmd.at = "launch"
    BY <1>5, <1>a DEF LaunchLocal, LaunchDocker, Commands
  <2> QED BY <2>1 DEF CommandShape
<1>6. CASE LaunchFails
  <2>1. CASE cmd.name = "nodestart"
    BY <1>6, <2>1, <1>b DEF LaunchFails, Proceeds
  <2>2. CASE cmd.name # "nodestart"
    <3>1. cmd.at = "launch" /\ cmd.name # "nodestop"
      BY <1>6 DEF LaunchFails, CommandShape
    <3>2. cmd'.at = "launch" /\ cmd'.name = cmd.name
      BY <1>6, <2>2, <3>1, <1>a DEF LaunchFails, Proceeds, Commands
    <3> QED BY <3>1, <3>2, <2>2 DEF CommandShape
  <2> QED BY <2>1, <2>2
<1>7. CASE SaveStarted \/ SoftReset \/ Delete \/ Killed
  BY <1>7, <1>b DEF SaveStarted, SoftReset, Delete, Killed
<1>8. CASE ProcessDies \/ UNCHANGED vars
  BY <1>8, <1>c DEF ProcessDies, vars
<1> QED
  BY <1>1, <1>2, <1>3, <1>4, <1>5, <1>6, <1>7, <1>8 DEF Next, Step

LEMMA RemovalStep ==
  TypeOK /\ Known /\ CommandShape /\ RemovalProgress /\ [Next]_vars => RemovalProgress'
<1> SUFFICES ASSUME TypeOK, Known, CommandShape, RemovalProgress, [Next]_vars,
                    cmd'.name \in Removals, cmd'.name = "destroy" => cmd'.ok,
                    cmd'.found = "running", ~meta'.docker
             PROVE  /\ cmd'.at = "kill" => \A p \in Pids : procs'[p].state = "up" => p \in strays' \/ procs'[p].node >= cmd'.node
                    /\ cmd'.at = "remove" => \A p \in Pids : procs'[p].state = "up" => p \in strays'
  BY DEF RemovalProgress, WithStop, Up
<1>a. cmd \in Commands /\ procs \in [Pids -> Processes] /\ recs \in [Node -> Records] /\ meta \in Metas
  BY DEF TypeOK
<1>b. cmd' # Idle
  BY DEF Idle, Removals
<1>c. \A p \in Pids : procs[p].node \in Node
  BY <1>a DEF Processes
<1>d. WithStop /\ cmd.found = "running" /\ ~meta.docker =>
        /\ cmd.at = "kill" => \A p \in Pids : procs[p].state = "up" => p \in strays \/ procs[p].node >= cmd.node
        /\ cmd.at = "remove" => \A p \in Pids : procs[p].state = "up" => p \in strays
  BY DEF RemovalProgress, Up
<1>e. ASSUME cmd' = cmd, UNCHANGED <<meta, strays>>,
             \A p \in Pids : procs'[p].node = procs[p].node /\ (procs'[p].state = "up" => procs[p].state = "up")
      PROVE  /\ cmd'.at = "kill" => \A p \in Pids : procs'[p].state = "up" => p \in strays' \/ procs'[p].node >= cmd'.node
             /\ cmd'.at = "remove" => \A p \in Pids : procs'[p].state = "up" => p \in strays'
  BY <1>d, <1>e DEF WithStop
<1>1. CASE Deploy \/ Start \/ Stop \/ StartNode \/ StopNode
  BY <1>1 DEF Deploy, Start, Stop, StartNode, StopNode, Begins, Idle, Removals
<1>2. CASE Remove
  <2>1. cmd'.found = meta.status /\ cmd'.at = "kill" /\ cmd'.node = 0 /\ procs' = procs
    BY <1>2 DEF Remove, Begins, Idle
  <2> QED BY <2>1, <1>c DEF Node
<1>9. CASE DestroyUnstopped
  BY <1>9 DEF DestroyUnstopped, Idle
<1>3. CASE SaveMetadata \/ SaveNode \/ Provisioned \/ LaunchLocal \/ LaunchDocker \/ LaunchFails \/ RecordLaunch
  <2>1. cmd.at \in {"metadata", "records", "launch", "record"}
    BY <1>3 DEF SaveMetadata, SaveNode, Provisioned, LaunchLocal, LaunchDocker, LaunchFails, RecordLaunch
  <2>2. cmd.name \notin Removals
    BY <2>1 DEF CommandShape, Removals
  <2>3. cmd'.name = cmd.name \/ cmd' = Idle
    BY <1>3, <1>a DEF SaveMetadata, SaveNode, Provisioned, LaunchLocal, LaunchDocker, LaunchFails, RecordLaunch, Proceeds, Commands
  <2> QED BY <2>2, <2>3, <1>b
<1>4. CASE KillNode
  <2> DEFINE n == cmd.node
             r == recs[n]
  <2>1. /\ cmd.name \in Removals /\ WithStop /\ cmd.found = "running" /\ cmd'.at = "kill" /\ cmd'.node = n + 1
        /\ cmd.at = "kill" /\ n \in Node /\ UNCHANGED <<meta, strays>>
    BY <1>4, <1>a, <1>b DEF KillNode, Proceeds, Commands, WithStop
  <2>2. \A p \in Pids : procs[p].state = "up" => p \in strays \/ procs[p].node >= n
    BY <2>1, <1>d
  <2>3. \A p \in Pids : procs[p].state = "up" => p \in strays \/ recs[procs[p].node] = p
    BY <2>1 DEF Known, ProcessesAreKnown, Up
  <2>4. \A p \in Pids : /\ procs'[p].node = procs[p].node
                        /\ procs'[p].state = "up" => procs[p].state = "up" /\ p # r
    <3>1. CASE r \notin Pids /\ UNCHANGED procs
      BY <3>1
    <3>2. CASE r \in Pids /\ (Ends(r, "dead") \/ Ends(r, "killed"))
      BY <3>2, EndsEffect
    <3>3. Forced
      BY <2>1 DEF Forced, Removals
    <3> QED BY <1>4, <2>1, <3>1, <3>2, <3>3 DEF KillNode
  <2>5. ASSUME NEW p \in Pids, procs'[p].state = "up", p \notin strays PROVE procs'[p].node >= n + 1
    <3>1. procs[p].state = "up" /\ p # r /\ procs'[p].node = procs[p].node
      BY <2>4, <2>5
    <3>2. procs[p].node >= n /\ recs[procs[p].node] = p
      BY <3>1, <2>2, <2>3, <2>5
    <3>3. procs[p].node # n
      BY <3>1, <3>2
    <3>4. n \in Nat /\ procs[p].node \in Nat
      BY <2>1, <1>c DEF Node
    <3> HIDE DEF n
    <3> QED BY <3>1, <3>2, <3>3, <3>4
  <2> QED BY <2>1, <2>5
<1>5. CASE SaveStopped
  <2>1. /\ WithStop /\ cmd.found = "running" /\ cmd'.at = "remove" /\ cmd.at = "kill"
        /\ cmd.node \notin Node /\ UNCHANGED <<procs, strays>>
    BY <1>5, <1>a, <1>b DEF SaveStopped, Commands, WithStop
  <2>2. ~meta.docker
    BY <1>5, <1>a DEF SaveStopped, Saved, MetaKeptOrTorn, Metas
  <2>3. ASSUME NEW p \in Pids, procs[p].state = "up" PROVE p \in strays
    <3>1. p \in strays \/ procs[p].node >= cmd.node
      BY <2>1, <2>2, <2>3, <1>d
    <3>2. cmd.node \in Nat
      BY <1>a DEF Commands
    <3>3. cmd.node >= Validators
      BY <2>1, <3>2, SizesAssumption DEF Node
    <3>4. procs[p].node < Validators /\ procs[p].node \in Nat
      BY <1>c, SizesAssumption DEF Node
    <3> QED BY <3>1, <3>2, <3>3, <3>4, SizesAssumption
  <2> QED BY <2>1, <2>3
<1>6. CASE SaveStarted \/ SoftReset \/ Delete \/ Killed
  BY <1>6, <1>b DEF SaveStarted, SoftReset, Delete, Killed
<1>7. CASE ProcessDies
  <2>1. PICK r \in Pids : Ends(r, "dead")
    BY <1>7 DEF ProcessDies
  <2>2. \A p \in Pids : procs'[p].node = procs[p].node /\ (procs'[p].state = "up" => procs[p].state = "up")
    BY <2>1, EndsEffect
  <2> QED BY <2>2, <1>7, <1>e DEF ProcessDies
<1>8. CASE UNCHANGED vars
  BY <1>8, <1>e DEF vars
<1> QED
  BY <1>1, <1>2, <1>3, <1>4, <1>5, <1>6, <1>7, <1>8, <1>9 DEF Next, Step

\* A reset or a destroy that finds the devnet Running removes no data under a process
\* that is in a node.json: the nodes are stopped one after the other, with SIGKILL where
\* needed, and a process of a node that has had its turn is lost or down.  The exception is
\* a destroy whose stop could not read the files: it only warns and goes on.
THEOREM RemovalsStopNodes == Spec => []RemovalStopsNodes
<1> DEFINE I == TypeOK /\ Known /\ CommandShape /\ RemovalProgress
<1>1. Init => I
  BY TypeInit, KnownInit DEF Init, Idle, CommandShape, RemovalProgress, WithStop, Removals
<1>2. I /\ [Next]_vars => I'
  <2>1. I /\ [Next]_vars => TypeOK'
    BY TypeStep DEF Known
  <2> QED BY <2>1, KnownStep, ShapeStep, RemovalStep
<1>3. I => RemovalStopsNodes
  BY DEF CommandShape, RemovalProgress, WithStop, RemovalStopsNodes
<1> QED BY <1>1, <1>2, <1>3, PTL DEF Spec

-----------------------------------------------------------------------------
(* Orderly use.                                                              *)

LEMMA OrderlyStep ==
  TypeOK /\ Known /\ CommandShape /\ OrderlyProgress /\ [Next]_vars => OrderlyProgress'
<1> SUFFICES ASSUME TypeOK, Known, CommandShape, OrderlyProgress, [Next]_vars, ~trouble'
             PROVE  Orderly'
  BY DEF OrderlyProgress
<1>a. /\ cmd \in Commands /\ procs \in [Pids -> Processes] /\ recs \in [Node -> Records] /\ meta \in Metas
      /\ trouble \in BOOLEAN
  BY DEF TypeOK
<1>b. ~Upset
  BY DEF Upset
<1>c. ~trouble
  <2>1. trouble' = trouble \/ (\E x \in BOOLEAN : trouble' = (trouble \/ x))
    BY <1>b DEF Next, Step, Deploy, Start, Stop, Remove, DestroyUnstopped, StartNode, StopNode, SaveMetadata, SaveNode,
         Provisioned, LaunchLocal, LaunchDocker, LaunchFails, RecordLaunch, SaveStarted, KillNode,
         SaveStopped, SoftReset, Delete, Killed, ProcessDies, Saved, Smooth, vars
  <2> QED BY <2>1, <1>a
<1>d. Orderly
  BY <1>c DEF OrderlyProgress
<1>e. /\ strays = {} /\ meta.docker = FALSE /\ cmd.box = FALSE /\ cmd.ok = TRUE /\ meta.status # "failed"
      /\ cmd.at \in {"metadata", "records", "remove"} => Quiet
      /\ cmd.at = "idle" \/ cmd.name = "nodestop" => meta.status = "running" \/ Quiet
      /\ cmd.name = "nodestart" => meta.status = "running"
  BY <1>a, <1>d DEF Orderly, Metas, Commands
<1>f. /\ cmd.at = "launch" => \A p \in Pids : procs[p].state = "up" => procs[p].node # cmd.node
      /\ cmd.at = "record" => \A p \in Pids : procs[p].state = "up" /\ procs[p].node = cmd.node => p = cmd.pid
      /\ cmd.at \in {"launch", "record"} /\ cmd.name # "nodestart" =>
           \A p \in Pids : procs[p].state = "up" => procs[p].node <= cmd.node
      /\ cmd.at = "kill" /\ cmd.name # "nodestop" => \A p \in Pids : procs[p].state = "up" => procs[p].node >= cmd.node
  BY <1>d DEF Orderly, Up
<1>g. \A p \in Pids : procs[p].node \in Node /\ procs[p].node \in Nat /\ procs[p].node < Validators
  BY <1>a, SizesAssumption DEF Processes, Node
<1>h. cmd.node \in Nat
  BY <1>a DEF Commands
<1>i. \A p \in Pids : procs[p].state = "up" => (cmd.at = "record" /\ cmd.pid = p) \/ recs[procs[p].node] = p
  BY <1>e DEF Known, ProcessesAreKnown, Up
<1>j. /\ Idle.name = "none" /\ Idle.at = "idle" /\ Idle.node = 0 /\ Idle.ok = TRUE /\ Idle.box = FALSE
  BY DEF Idle
<1>k. ASSUME cmd' = Idle, strays' = {}, ~meta'.docker, meta'.status # "failed",
             meta'.status = "running" \/ \A p \in Pids : procs'[p].state # "up"
      PROVE  Orderly'
  BY <1>k, <1>j DEF Orderly, Quiet, Up
<1>l. ASSUME UNCHANGED <<meta, cmd, strays>>,
             \A p \in Pids : procs'[p].node = procs[p].node /\ (procs'[p].state = "up" => procs[p].state = "up")
      PROVE  Orderly'
  BY <1>l, <1>e, <1>f DEF Orderly, Quiet, Up
<1>m. ASSUME NEW name \in Names, NEW at \in Places, NEW n \in Node, Begins(name, at, n, FALSE)
      PROVE  /\ cmd'.name = name /\ cmd'.at = at /\ cmd'.node = n /\ cmd'.ok /\ ~cmd'.box /\ cmd.at = "idle"
             /\ UNCHANGED <<meta, procs, strays>>
  BY <1>m DEF Begins, Idle
<1>n. 0 \in Node
  BY SizesAssumption DEF Node
<1>1. CASE Deploy
  <2>1. Begins("deploy", "metadata", 0, FALSE) /\ meta.status = "none"
    <3>1. PICK docker \in BOOLEAN : Begins("deploy", "metadata", 0, docker) /\ trouble' = (trouble \/ docker)
      BY <1>1 DEF Deploy
    <3>2. docker = FALSE
      BY <3>1, <1>c
    <3> QED BY <3>1, <3>2, <1>1 DEF Deploy
  <2>2. /\ cmd'.name = "deploy" /\ cmd'.at = "metadata" /\ cmd'.ok /\ ~cmd'.box /\ cmd.at = "idle"
        /\ UNCHANGED <<meta, procs, strays>>
    BY <2>1, <1>m, <1>n DEF Names, Places
  <2> QED BY <2>1, <2>2, <1>e DEF Orderly, Quiet, Up
<1>2. CASE Start
  <2>1. /\ cmd'.name = "start" /\ cmd'.at = "launch" /\ cmd'.ok /\ ~cmd'.box /\ cmd.at = "idle"
        /\ UNCHANGED <<meta, procs, strays>> /\ meta.status # "running"
    BY <1>2, <1>m, <1>n DEF Start, Names, Places
  <2> QED BY <2>1, <1>e DEF Orderly, Quiet, Up
<1>3. CASE Stop
  <2>1. /\ cmd'.name = "stop" /\ cmd'.at = "kill" /\ cmd'.node = 0 /\ cmd'.ok /\ ~cmd'.box /\ cmd.at = "idle"
        /\ UNCHANGED <<meta, procs, strays>>
    BY <1>3, <1>m, <1>n DEF Stop, Names, Places
  <2>2. \A p \in Pids : procs'[p].node >= cmd'.node
    BY <2>1, <1>g
  <2> QED BY <2>1, <2>2, <1>e DEF Orderly, Quiet, Up
<1>4. CASE Remove
  <2>1. /\ cmd'.name \in Removals /\ cmd'.at = (IF meta.status = "running" THEN "kill" ELSE "remove")
        /\ cmd'.node = 0 /\ cmd'.ok /\ ~cmd'.box /\ cmd.at = "idle" /\ UNCHANGED <<meta, procs, strays>>
    BY <1>4, <1>m, <1>n DEF Remove, Names, Places, Removals
  <2>2. \A p \in Pids : procs'[p].node >= cmd'.node
    BY <2>1, <1>g
  <2> QED BY <2>1, <2>2, <1>e DEF Orderly, Quiet, Up, Removals
<1>22. CASE DestroyUnstopped
  BY <1>22 DEF DestroyUnstopped
<1>5. CASE StartNode
  <2>1. PICK n \in Node : Begins("nodestart", "launch", n, FALSE) /\ meta.status = "running" /\ UpOf(n) = {}
    <3>1. PICK n \in Node : /\ Begins("nodestart", "launch", n, FALSE)
                            /\ trouble' = (trouble \/ meta.status # "running" \/ UpOf(n) # {})
      BY <1>5 DEF StartNode
    <3> QED BY <3>1
  <2>2. /\ cmd'.name = "nodestart" /\ cmd'.at = "launch" /\ cmd'.node = n /\ cmd'.ok /\ ~cmd'.box /\ cmd.at = "idle"
        /\ UNCHANGED <<meta, procs, strays>>
    BY <2>1, <1>m DEF Names, Places
  <2>3. \A p \in Pids : procs[p].state = "up" => procs[p].node # n
    BY <2>1 DEF UpOf, Up
  <2> QED BY <2>1, <2>2, <2>3, <1>e DEF Orderly, Quiet, Up
<1>6. CASE StopNode
  <2>1. /\ cmd'.name = "nodestop" /\ cmd'.at = "kill" /\ cmd'.ok /\ ~cmd'.box /\ cmd.at = "idle"
        /\ UNCHANGED <<meta, procs, strays>>
    BY <1>6, <1>m DEF StopNode, Names, Places
  <2> QED BY <2>1, <1>e DEF Orderly, Quiet, Up
<1>7. CASE SaveMetadata
  <2>1. UNCHANGED <<procs, strays>> /\ cmd.at = "metadata" /\ Quiet /\ cmd.name = "deploy"
    BY <1>7, <1>e DEF SaveMetadata, CommandShape
  <2>2. CASE cmd' = Idle /\ UNCHANGED meta
    BY <2>1, <2>2, <1>e, <1>k DEF Quiet, Up
  <2>3. CASE meta' = [status |-> "provisioned", docker |-> cmd.box] /\ cmd' = [cmd EXCEPT !.at = "records"]
    <3>1. /\ cmd'.at = "records" /\ cmd'.name = "deploy" /\ cmd'.ok = TRUE /\ cmd'.box = FALSE
          /\ meta'.docker = FALSE /\ meta'.status = "provisioned"
      BY <2>1, <2>3, <1>a, <1>e DEF Commands
    <3> QED BY <3>1, <2>1, <1>e DEF Orderly, Quiet, Up
  <2> QED BY <1>7, <1>b, <2>2, <2>3 DEF SaveMetadata
<1>8. CASE SaveNode
  <2>1. /\ UNCHANGED <<procs, meta>> /\ cmd.at = "records" /\ Quiet /\ cmd.name = "deploy"
        /\ strays' = strays \cup Orphans({cmd.node})
    BY <1>8, <1>b, <1>e DEF SaveNode, CommandShape, Saved
  <2>2. strays' = {}
    BY <2>1, <1>e DEF Orphans, Quiet
  <2>3. cmd'.at = "records" /\ cmd'.name = "deploy" /\ cmd'.ok = TRUE /\ cmd'.box = FALSE
    BY <1>8, <2>1, <1>a, <1>e DEF SaveNode, Proceeds, Commands
  <2> QED BY <2>1, <2>2, <2>3, <1>e DEF Orderly, Quiet, Up
<1>9. CASE Provisioned
  <2>1. UNCHANGED <<procs, meta, strays>> /\ cmd.at = "records" /\ Quiet /\ cmd.name = "deploy"
    BY <1>9, <1>e DEF Provisioned, CommandShape
  <2>2. CASE cmd' = Idle
    BY <2>1, <2>2, <1>e, <1>k DEF Quiet, Up
  <2>3. CASE cmd' = [cmd EXCEPT !.at = "launch", !.node = 0]
    <3>1. cmd'.at = "launch" /\ cmd'.name = "deploy" /\ cmd'.ok = TRUE /\ cmd'.box = FALSE
      BY <2>1, <2>3, <1>a, <1>e DEF Commands
    <3> QED BY <3>1, <2>1, <1>e DEF Orderly, Quiet, Up
  <2> QED BY <1>9, <2>2, <2>3 DEF Provisioned
<1>10. CASE LaunchLocal
  <2>1. /\ UNCHANGED <<meta, strays>> /\ cmd.at = "launch" /\ cmd.node \in Node
        /\ cmd.name \in {"deploy", "start", "nodestart"}
    BY <1>10 DEF LaunchLocal, CommandShape
  <2>2. /\ cmd'.at = "record" /\ cmd'.name = cmd.name /\ cmd'.node = cmd.node /\ cmd'.pid = born + 1
        /\ cmd'.ok = TRUE /\ cmd'.box = FALSE
    BY <1>10, <1>a, <1>e DEF LaunchLocal, Commands
  <2>3. /\ \A p \in Pids : p # born + 1 => procs'[p] = procs[p]
        /\ born + 1 \in Pids => procs'[born + 1].node = cmd.node
    BY <1>10, <1>a DEF LaunchLocal, Launched
  <2>4. \A p \in Pids : procs'[p].state = "up" /\ procs'[p].node = cmd.node => p = born + 1
    BY <2>1, <2>3, <1>f
  <2>5. cmd.name # "nodestart" => \A p \in Pids : procs'[p].state = "up" => procs'[p].node <= cmd.node
    BY <2>1, <2>3, <1>f, <1>h
  <2> QED BY <2>1, <2>2, <2>4, <2>5, <1>e DEF Orderly, Quiet, Up
<1>11. CASE LaunchDocker
  BY <1>11, <1>e DEF LaunchDocker
<1>12. CASE LaunchFails
  <2>1. /\ recs[cmd.node] = Absent /\ Proceeds("launch") /\ UNCHANGED <<procs, meta, strays>>
        /\ cmd.at = "launch" /\ cmd.name \in {"deploy", "start", "nodestart"}
    BY <1>12, <1>b, <1>e DEF LaunchFails, CommandShape
  <2>2. CASE cmd.name = "nodestart"
    BY <2>1, <2>2, <1>e, <1>k DEF Proceeds
  <2>3. CASE cmd.name # "nodestart"
    <3>1. /\ cmd'.at = "launch" /\ cmd'.name = cmd.name /\ cmd'.node = cmd.node + 1
          /\ cmd'.ok = TRUE /\ cmd'.box = FALSE
      BY <2>1, <2>3, <1>a, <1>e DEF Proceeds, Commands
    <3>2. \A p \in Pids : procs'[p].state = "up" => procs'[p].node # cmd'.node /\ procs'[p].node <= cmd'.node
      BY <3>1, <2>1, <2>3, <1>f, <1>g, <1>h
    <3> QED BY <3>1, <3>2, <2>1, <2>3, <1>e DEF Orderly, Quiet, Up
  <2> QED BY <2>2, <2>3
<1>13. CASE RecordLaunch
  <2>1. /\ Proceeds("launch") /\ UNCHANGED <<procs, meta>> /\ cmd.at = "record"
        /\ cmd.name \in {"deploy", "start", "nodestart"} /\ strays' = strays \cup Orphans({cmd.node})
    BY <1>13, <1>b DEF RecordLaunch, CommandShape, Saved
  <2>2. strays' = {}
    <3>1. /\ cmd.node \in Node /\ recs[cmd.node] # cmd.pid
          /\ recs[cmd.node] \in Pids => procs[recs[cmd.node]].node = cmd.node
      BY <2>1 DEF Known, RecordsMatch
    <3>2. Orphans({cmd.node}) = {}
      BY <2>1, <3>1, <1>f DEF Orphans, Up
    <3> QED BY <3>2, <2>1, <1>e
  <2>3. CASE cmd.name = "nodestart"
    BY <2>1, <2>2, <2>3, <1>e, <1>k DEF Proceeds
  <2>4. CASE cmd.name # "nodestart"
    <3>1. /\ cmd'.at = "launch" /\ cmd'.name = cmd.name /\ cmd'.node = cmd.node + 1
          /\ cmd'.ok = TRUE /\ cmd'.box = FALSE
      BY <2>1, <2>4, <1>a, <1>e DEF Proceeds, Commands
    <3>2. \A p \in Pids : procs'[p].state = "up" => procs'[p].node # cmd'.node /\ procs'[p].node <= cmd'.node
      BY <3>1, <2>1, <2>4, <1>f, <1>g, <1>h
    <3> QED BY <3>1, <3>2, <2>1, <2>2, <2>4, <1>e DEF Orderly, Quiet, Up
  <2> QED BY <2>3, <2>4
<1>14. CASE SaveStarted
  <2>1. meta' = [meta EXCEPT !.status = "running"] /\ cmd' = Idle /\ UNCHANGED strays
    BY <1>14, <1>b, <1>e DEF SaveStarted, Saved
  <2>2. meta'.status = "running" /\ meta'.docker = FALSE
    BY <2>1, <1>a, <1>e DEF Metas
  <2> QED BY <2>1, <2>2, <1>e, <1>k
<1>15. CASE KillNode
  <2> DEFINE n == cmd.node
             r == recs[n]
  <2>1. /\ Proceeds("kill") /\ UNCHANGED <<meta, strays>> /\ cmd.at = "kill" /\ n \in Node
        /\ cmd.name \in {"stop", "nodestop"} \cup Removals
    BY <1>15 DEF KillNode, CommandShape
  <2>2. \A p \in Pids : /\ procs'[p].node = procs[p].node
                        /\ procs'[p].state = "up" => procs[p].state = "up" /\ p # r
    <3>1. CASE r \notin Pids /\ UNCHANGED procs
      BY <3>1
    <3>2. CASE r \in Pids /\ (Ends(r, "dead") \/ Ends(r, "killed"))
      BY <3>2, EndsEffect
    <3> QED BY <1>15, <1>b, <1>e, <3>1, <3>2 DEF KillNode
  <2>3. \A p \in Pids : procs'[p].state = "up" => procs'[p].node # n
    BY <2>1, <2>2, <1>i
  <2>4. CASE cmd.name = "nodestop"
    BY <2>1, <2>2, <2>4, <1>e, <1>k DEF Proceeds, Quiet, Up
  <2>5. CASE cmd.name # "nodestop"
    <3>1. cmd'.at = "kill" /\ cmd'.name = cmd.name /\ cmd'.node = n + 1 /\ cmd'.ok = TRUE /\ cmd'.box = FALSE
      BY <2>1, <2>5, <1>a, <1>e DEF Proceeds, Commands, Removals
    <3>2. \A p \in Pids : procs'[p].state = "up" => procs'[p].node >= cmd'.node
      <4> SUFFICES ASSUME NEW p \in Pids, procs'[p].state = "up" PROVE procs'[p].node >= n + 1
        BY <3>1
      <4>1. procs'[p].node = procs[p].node /\ procs[p].node >= n /\ procs[p].node # n /\ procs[p].node \in Nat
        BY <2>1, <2>2, <2>3, <2>5, <1>f, <1>g
      <4>2. n \in Nat
        BY <1>h
      <4> HIDE DEF n
      <4> QED BY <4>1, <4>2
    <3> QED BY <3>1, <3>2, <2>1, <2>5, <1>e DEF Orderly, Quiet, Up, Removals
  <2> QED BY <2>4, <2>5
<1>16. CASE SaveStopped
  <2>1. /\ cmd.at = "kill" /\ cmd.node \notin Node /\ UNCHANGED <<procs, strays>>
        /\ meta' = [meta EXCEPT !.status = "stopped"]
        /\ cmd' = IF cmd.name = "stop" THEN Idle ELSE [cmd EXCEPT !.at = "remove"]
    BY <1>16, <1>b DEF SaveStopped, Saved
  <2>2. cmd.name \in {"stop"} \cup Removals
    BY <2>1 DEF CommandShape
  <2>3. meta'.status = "stopped" /\ meta'.docker = FALSE
    BY <2>1, <1>a, <1>e DEF Metas
  <2>4. \A p \in Pids : procs'[p].state # "up"
    <3>1. cmd.node >= Validators
      BY <2>1, <1>h, SizesAssumption DEF Node
    <3>2. cmd.name # "nodestop"
      BY <2>2 DEF Removals
    <3> QED BY <3>1, <3>2, <2>1, <1>f, <1>g, <1>h, SizesAssumption
  <2>5. CASE cmd.name = "stop"
    BY <2>1, <2>3, <2>4, <2>5, <1>e, <1>k
  <2>6. CASE cmd.name # "stop"
    <3>1. cmd'.at = "remove" /\ cmd'.name = cmd.name /\ cmd'.ok = TRUE /\ cmd'.box = FALSE
      BY <2>1, <2>6, <1>a, <1>e DEF Commands
    <3> QED BY <3>1, <2>1, <2>2, <2>3, <2>4, <2>6, <1>e DEF Orderly, Quiet, Up, Removals
  <2> QED BY <2>5, <2>6
<1>17. CASE SoftReset
  <2>1. /\ cmd.at = "remove" /\ Quiet /\ UNCHANGED <<procs, strays>> /\ cmd' = Idle
        /\ meta' = [meta EXCEPT !.status = "provisioned"] \/ meta' = meta
    BY <1>17, <1>b, <1>e DEF SoftReset, Saved
  <2>2. meta'.status # "failed" /\ meta'.docker = FALSE
    BY <2>1, <1>a, <1>e DEF Metas
  <2> QED BY <2>1, <2>2, <1>e, <1>k DEF Quiet, Up
<1>18. CASE Delete
  <2>1. /\ cmd.at = "remove" /\ Quiet /\ procs' = procs /\ cmd' = Idle
        /\ meta' = NoDevnet /\ strays' = strays \cup Orphans(Node)
    BY <1>18, <1>b, <1>e DEF Delete, Saved
  <2>2. strays' = {}
    BY <2>1, <1>e DEF Orphans, Quiet
  <2> QED BY <2>1, <2>2, <1>k DEF Quiet, Up, NoDevnet
<1>19. CASE Killed
  BY <1>19, <1>b DEF Killed
<1>20. CASE ProcessDies
  <2>1. PICK r \in Pids : Ends(r, "dead")
    BY <1>20 DEF ProcessDies
  <2>2. \A p \in Pids : procs'[p].node = procs[p].node /\ (procs'[p].state = "up" => procs[p].state = "up")
    BY <2>1, EndsEffect
  <2> QED BY <2>2, <1>20, <1>l DEF ProcessDies
<1>21. CASE UNCHANGED vars
  BY <1>21, <1>l DEF vars
<1> QED
  BY <1>1, <1>2, <1>3, <1>4, <1>5, <1>6, <1>7, <1>8, <1>9, <1>10, <1>11, <1>12, <1>13, <1>14,
     <1>15, <1>16, <1>17, <1>18, <1>19, <1>20, <1>21, <1>22 DEF Next, Step

\* In a local devnet, as long as nothing fails and only nodes that are down are started by
\* themselves, any sequence of commands leaves no process behind and removes no data
\* under one.
THEOREM OrderlyUseIsSafe == Spec => []OrderlyUseLosesNothing
<1> DEFINE I == TypeOK /\ Known /\ CommandShape /\ OrderlyProgress
<1>1. Init => I
  BY TypeInit, KnownInit DEF Init, Idle, NoDevnet, CommandShape, OrderlyProgress, Orderly, Quiet, Up, Removals
<1>2. I /\ [Next]_vars => I'
  <2>1. I /\ [Next]_vars => TypeOK'
    BY TypeStep DEF Known
  <2> QED BY <2>1, KnownStep, ShapeStep, OrderlyStep
<1>3. I => OrderlyUseLosesNothing
  BY DEF OrderlyProgress, Orderly, Quiet, OrderlyUseLosesNothing
<1> QED BY <1>1, <1>2, <1>3, PTL DEF Spec
=============================================================================
