------------------------------ MODULE CliDevnet ------------------------------
(***************************************************************************)
(* The devnet of the stand-alone CLI: metadata.json with its status, a     *)
(* node.json with a PID (or container) per node, and the processes of the  *)
(* nodes, which outlive the command that launched them.  A command reads   *)
(* the files, acts on the processes and writes the files one by one; it    *)
(* can be killed between any two of these steps, and nothing repairs what  *)
(* is then on disk.  Files are written in place: a write that fails leaves *)
(* the old file or one that cannot be parsed, and a command killed in the  *)
(* middle of a write is a failed write and then a kill.                    *)
(*                                                                         *)
(* Commands run one at a time, as one user gives them.  Every command but  *)
(* deploy gets its service from GetService, whose executor is the local    *)
(* one whatever the mode of the devnet.  PIDs are not used again.          *)
(***************************************************************************)
EXTENDS Integers

CONSTANTS
  Validators,   \* number of nodes of the devnet: 0 .. Validators - 1
  MaxPids,      \* bound: number of processes and containers ever started
  MaxCommands,  \* bound: number of commands
  MaxUpsets     \* bound: number of failed writes and launches, slow stops and kills

ASSUME SizesAssumption == Validators \in Nat \ {0} /\ MaxPids \in Nat
ASSUME BoundsAssumption == MaxCommands \in Nat /\ MaxUpsets \in Nat

VARIABLES
  meta,    \* metadata.json; status "none" when there is none, "torn" if it cannot be parsed
  recs,    \* PID in the node.json of each node
  procs,   \* the processes and containers
  born,    \* number of processes and containers started so far
  cmd,     \* the command that is running
  strays,  \* history: processes that were up when their PID got lost
  trouble, \* history: something failed, or a user started a node that was not down
  count    \* number of commands and upsets so far

vars == <<meta, recs, procs, born, cmd, strays, trouble, count>>

Node == 0 .. Validators - 1
Pids == 1 .. MaxPids
Absent == -1
NoPid == 0
Torn == -2   \* a node.json that cannot be parsed

Status == {"none", "torn", "provisioned", "running", "failed", "stopped"}
Metas == [status : Status, docker : BOOLEAN]
Records == Pids \cup {Absent, NoPid, Torn}
Processes == [node : Node, box : BOOLEAN, state : {"unborn", "up", "killed", "dead"}]

\* What a command is at: saving the metadata or the nodes of a new devnet, launching a
\* node or recording what it has launched, stopping nodes, or removing data.
Places == {"idle", "metadata", "records", "launch", "record", "kill", "remove"}
Names == {"none", "deploy", "start", "stop", "soft", "hard", "destroy", "nodestart", "nodestop"}
Commands == [name : Names, at : Places, node : Nat, pid : Pids \cup {NoPid}, ok : BOOLEAN,
             found : Status, box : BOOLEAN]

Counted == {"commands", "upsets"}

TypeOK ==
  /\ meta \in Metas /\ recs \in [Node -> Records]
  /\ procs \in [Pids -> Processes] /\ born \in 0 .. MaxPids
  /\ cmd \in Commands /\ strays \subseteq Pids /\ trouble \in BOOLEAN
  /\ count \in [Counted -> Nat]

NoDevnet == [status |-> "none", docker |-> FALSE]
Idle == [name |-> "none", at |-> "idle", node |-> 0, pid |-> NoPid, ok |-> TRUE, found |-> "none", box |-> FALSE]

Init ==
  /\ meta = NoDevnet /\ recs = [n \in Node |-> Absent]
  /\ procs = [p \in Pids |-> [node |-> 0, box |-> FALSE, state |-> "unborn"]] /\ born = 0
  /\ cmd = Idle /\ strays = {} /\ trouble = FALSE
  /\ count = [c \in Counted |-> 0]

Up(p) == procs[p].state = "up"
UpOf(n) == {p \in Pids : Up(p) /\ procs[p].node = n}

\* The processes that lose their record when the files of the nodes in N are replaced.
Orphans(N) == {p \in Pids : Up(p) /\ \E n \in N : recs[n] = p}

\* Load, and LoadAll: one node.json that cannot be parsed is enough for it to fail.
Readable == meta.status \notin {"none", "torn"}
Parsed == \A n \in Node : recs[n] # Torn

Limit == [commands |-> MaxCommands, upsets |-> MaxUpsets]
Counts(c) == count[c] < Limit[c] /\ count' = [count EXCEPT ![c] = @ + 1]
Upset == Counts("upsets") /\ trouble' = TRUE
Smooth == UNCHANGED <<count, trouble>>

\* A file is written, or that fails.
Saved(p, q) == (p /\ Smooth) \/ (q /\ Upset)

-----------------------------------------------------------------------------
(* The commands begin.                                                       *)

Begins(name, at, n, box) ==
  /\ cmd.at = "idle" /\ Counts("commands")
  /\ cmd' = [Idle EXCEPT !.name = name, !.at = at, !.node = n, !.found = meta.status, !.box = box]
  /\ UNCHANGED <<meta, recs, procs, born, strays>>

\* In either mode; what deploy does before the first file is saved may fail and then
\* leaves directories without node.json, which nothing reads.  (init gets a service without
\* a network module, for which Provision has no RPC endpoint: it never saves anything.)
Deploy ==
  /\ meta.status = "none"
  /\ \E docker \in BOOLEAN :
       /\ Begins("deploy", "metadata", 0, docker)
       /\ trouble' = (trouble \/ docker)

Start ==
  /\ Readable /\ meta.status # "running" /\ Parsed
  /\ Begins("start", "launch", 0, FALSE) /\ UNCHANGED trouble

Stop ==
  /\ Readable /\ Parsed
  /\ Begins("stop", "kill", 0, FALSE) /\ UNCHANGED trouble

\* Faulty variant, used only to show that the properties notice it: the nodes are not
\* stopped.
RemoveUnstopped ==
  /\ Readable
  /\ \E name \in {"soft", "hard", "destroy"} : Begins(name, "remove", 0, FALSE)
  /\ UNCHANGED trouble

\* reset, soft or hard, and destroy stop the nodes when the status says that they run.  A
\* reset ends there when the nodes cannot be loaded.
Remove ==
  /\ Readable
  /\ \E name \in {"soft", "hard", "destroy"} :
       /\ meta.status = "running" \/ name = "soft" => Parsed
       /\ Begins(name, IF meta.status = "running" THEN "kill" ELSE "remove", 0, FALSE)
  /\ UNCHANGED trouble

\* A destroy goes on without the stop when it cannot load the metadata, and only warns
\* when the stop could not load the metadata or the nodes.
DestroyUnstopped ==
  /\ cmd.at = "idle" /\ meta.status \in {"torn", "running"} /\ Counts("commands")
  /\ cmd' = [Idle EXCEPT !.name = "destroy", !.at = "remove", !.ok = FALSE, !.found = meta.status]
  /\ trouble' = TRUE /\ UNCHANGED <<meta, recs, procs, born, strays>>

\* A node that answers is left alone; one that is up may not answer.
StartNode ==
  \E n \in Node :
    /\ Readable /\ recs[n] \notin {Absent, Torn}
    /\ Begins("nodestart", "launch", n, FALSE)
    /\ trouble' = (trouble \/ meta.status # "running" \/ UpOf(n) # {})

StopNode ==
  \E n \in Node :
    /\ Readable /\ ~meta.docker /\ recs[n] \in Pids
    /\ Begins("nodestop", "kill", n, FALSE) /\ UNCHANGED trouble

-----------------------------------------------------------------------------
(* Their steps.                                                              *)

\* The command goes on with the next node, or ends if it is about one.
Proceeds(at) ==
  cmd' = IF cmd.name \in {"nodestart", "nodestop"} THEN Idle
         ELSE [cmd EXCEPT !.at = at, !.node = @ + 1, !.pid = NoPid]

\* What a failed write may leave behind.
Tears(n) == recs' = [recs EXCEPT ![n] = Torn]
MetaKeptOrTorn == meta' \in {meta, [meta EXCEPT !.status = "torn"]}

SaveMetadata ==
  /\ cmd.at = "metadata"
  /\ \/ /\ meta' = [status |-> "provisioned", docker |-> cmd.box]
        /\ cmd' = [cmd EXCEPT !.at = "records"] /\ Smooth
     \/ cmd' = Idle /\ UNCHANGED meta /\ Smooth
     \/ cmd' = Idle /\ meta' = [status |-> "torn", docker |-> cmd.box] /\ Upset
  /\ UNCHANGED <<recs, procs, born, strays>>

SaveNode ==
  /\ cmd.at = "records" /\ cmd.node \in Node
  /\ Saved(/\ recs' = [recs EXCEPT ![cmd.node] = NoPid]
           /\ strays' = strays \cup Orphans({cmd.node}),
           \/ UNCHANGED <<recs, strays>>
           \/ Tears(cmd.node) /\ strays' = strays \cup Orphans({cmd.node}))
  /\ Proceeds("records")
  /\ UNCHANGED <<meta, procs, born>>

\* The new devnet is complete; its nodes are started, if they can be loaded.
Provisioned ==
  /\ cmd.at = "records" /\ cmd.node \notin Node
  /\ cmd' = IF Parsed THEN [cmd EXCEPT !.at = "launch", !.node = 0] ELSE Idle
  /\ Smooth /\ UNCHANGED <<meta, recs, procs, born, strays>>

Launched(n, box) == [procs EXCEPT ![born + 1] = [node |-> n, box |-> box, state |-> "up"]]

\* RemoveContainer by name, then RunContainer under the same name.
WithoutBoxes(n) == [p \in Pids |-> IF procs[p].box /\ procs[p].node = n /\ procs[p].state = "up"
                                   THEN [procs[p] EXCEPT !.state = "dead"] ELSE procs[p]]

LaunchLocal ==
  /\ cmd.at = "launch" /\ cmd.node \in Node /\ recs[cmd.node] # Absent /\ ~meta.docker
  /\ born < MaxPids /\ born' = born + 1
  /\ procs' = Launched(cmd.node, FALSE)
  /\ cmd' = [cmd EXCEPT !.at = "record", !.pid = born + 1]
  /\ Smooth /\ UNCHANGED <<meta, recs, strays>>

LaunchDocker ==
  /\ cmd.at = "launch" /\ cmd.node \in Node /\ recs[cmd.node] # Absent /\ meta.docker /\ cmd.box
  /\ born < MaxPids /\ born' = born + 1
  /\ procs' = [WithoutBoxes(cmd.node) EXCEPT ![born + 1] = [node |-> cmd.node, box |-> TRUE, state |-> "up"]]
  /\ cmd' = [cmd EXCEPT !.at = "record", !.pid = born + 1]
  /\ Smooth /\ UNCHANGED <<meta, recs, strays>>

\* A node without node.json is not known.  A launch fails, or the executor is not the one
\* for the mode; the other nodes are started nevertheless.
LaunchFails ==
  /\ cmd.at = "launch" /\ cmd.node \in Node
  /\ \/ recs[cmd.node] = Absent /\ Proceeds("launch") /\ Smooth /\ UNCHANGED procs
     \/ /\ recs[cmd.node] # Absent
        /\ cmd' = IF cmd.name = "nodestart" THEN Idle ELSE [cmd EXCEPT !.node = @ + 1, !.ok = FALSE]
        /\ \/ meta.docker /\ ~cmd.box /\ Smooth /\ UNCHANGED procs
           \/ ~meta.docker /\ Upset /\ UNCHANGED procs
           \/ meta.docker /\ cmd.box /\ Upset /\ procs' \in {procs, WithoutBoxes(cmd.node)}
  /\ UNCHANGED <<meta, recs, born, strays>>

\* The PID goes into node.json, over whatever was there.
RecordLaunch ==
  /\ cmd.at = "record"
  /\ Saved(/\ recs' = [recs EXCEPT ![cmd.node] = cmd.pid]
           /\ strays' = strays \cup Orphans({cmd.node}),
           \/ recs' = recs /\ strays' = strays \cup {cmd.pid}
           \/ Tears(cmd.node) /\ strays' = strays \cup {cmd.pid} \cup Orphans({cmd.node}))
  /\ Proceeds("launch")
  /\ UNCHANGED <<meta, procs, born>>

SaveStarted ==
  /\ cmd.at = "launch" /\ cmd.node \notin Node
  /\ Saved(meta' = [meta EXCEPT !.status = IF cmd.ok THEN "running" ELSE "failed"], MetaKeptOrTorn)
  /\ cmd' = Idle
  /\ UNCHANGED <<recs, procs, born, strays>>

\* All but the stop command send SIGKILL to a process that does not end in time.
Forced == cmd.name # "stop"

Ends(p, state) == procs' = [procs EXCEPT ![p].state = state]

\* Faulty variant: the PID is cleared although the process did not end.
KillForgets ==
  /\ cmd.at = "kill" /\ cmd.node \in Node
  /\ LET r == recs[cmd.node] IN
       \/ (r \notin Pids \/ meta.docker) /\ UNCHANGED <<recs, procs>> /\ Smooth
       \/ /\ r \in Pids /\ ~meta.docker /\ UNCHANGED procs
          /\ recs' = [recs EXCEPT ![cmd.node] = NoPid] /\ Smooth
  /\ Proceeds("kill")
  /\ UNCHANGED <<meta, born, strays>>

\* Faulty variant: no command sends SIGKILL.
KillUnforced ==
  /\ cmd.at = "kill" /\ cmd.node \in Node
  /\ LET r == recs[cmd.node] IN
       \/ (r \notin Pids \/ meta.docker) /\ UNCHANGED <<recs, procs>> /\ Smooth
       \/ /\ r \in Pids /\ ~meta.docker /\ Ends(r, "dead")
          /\ recs' = [recs EXCEPT ![cmd.node] = NoPid] /\ Smooth
       \/ r \in Pids /\ ~meta.docker /\ Up(r) /\ UNCHANGED <<recs, procs>> /\ Upset
  /\ Proceeds("kill")
  /\ UNCHANGED <<meta, born, strays>>

\* The PID is cleared when the process is gone or has been sent SIGKILL; it stays when
\* the process does not end in time.  Containers are out of reach.
KillNode ==
  /\ cmd.at = "kill" /\ cmd.node \in Node
  /\ LET r == recs[cmd.node] IN
       \/ (r \notin Pids \/ meta.docker) /\ UNCHANGED <<recs, procs>> /\ Smooth
       \/ /\ r \in Pids /\ ~meta.docker
          /\ Ends(r, "dead") \/ (Forced /\ Up(r) /\ Ends(r, "killed"))
          /\ Saved(recs' = [recs EXCEPT ![cmd.node] = NoPid], recs' = recs \/ Tears(cmd.node))
       \/ r \in Pids /\ ~meta.docker /\ ~Forced /\ Up(r) /\ UNCHANGED <<recs, procs>> /\ Upset
  /\ Proceeds("kill")
  /\ UNCHANGED <<meta, born, strays>>

\* The status is Stopped whether or not the nodes are.
SaveStopped ==
  /\ cmd.at = "kill" /\ cmd.node \notin Node
  /\ Saved(meta' = [meta EXCEPT !.status = "stopped"], MetaKeptOrTorn)
  /\ cmd' = IF cmd.name = "stop" THEN Idle ELSE [cmd EXCEPT !.at = "remove"]
  /\ UNCHANGED <<recs, procs, born, strays>>

\* The chain data of the nodes goes, if these can still be loaded after the stop.
SoftReset ==
  /\ cmd.at = "remove" /\ cmd.name = "soft"
  /\ \/ Parsed /\ Saved(meta' = [meta EXCEPT !.status = "provisioned"], MetaKeptOrTorn)
     \/ ~Parsed /\ Smooth /\ UNCHANGED meta
  /\ cmd' = Idle
  /\ UNCHANGED <<recs, procs, born, strays>>

\* The directory of the devnet is removed, or only part of it when that fails or the
\* command is killed.
Delete ==
  /\ cmd.at = "remove" /\ cmd.name # "soft"
  /\ Saved(/\ meta' = NoDevnet /\ recs' = [n \in Node |-> Absent]
           /\ strays' = strays \cup Orphans(Node),
           \E N \in SUBSET Node :
             /\ meta' \in {meta, NoDevnet}
             /\ recs' = [n \in Node |-> IF n \in N THEN Absent ELSE recs[n]]
             /\ strays' = strays \cup Orphans(N))
  /\ cmd' = Idle
  /\ UNCHANGED <<procs, born>>

\* The command is killed: with Ctrl-C, or otherwise.
Killed ==
  /\ cmd.at # "idle" /\ Upset
  /\ cmd' = Idle
  /\ strays' = strays \cup {p \in Pids : cmd.at = "record" /\ cmd.pid = p}
  /\ UNCHANGED <<meta, recs, procs, born>>

ProcessDies ==
  /\ \E p \in Pids : procs[p].state \in {"up", "killed"} /\ Ends(p, "dead")
  /\ UNCHANGED <<meta, recs, born, cmd, strays, trouble, count>>

Step ==
  \/ SaveMetadata \/ SaveNode \/ Provisioned
  \/ LaunchLocal \/ LaunchDocker \/ LaunchFails \/ RecordLaunch \/ SaveStarted
  \/ KillNode \/ SaveStopped \/ SoftReset \/ Delete

Next ==
  \/ Deploy \/ Start \/ Stop \/ Remove \/ DestroyUnstopped \/ StartNode \/ StopNode
  \/ Step \/ Killed \/ ProcessDies

Spec == Init /\ [][Next]_vars

-----------------------------------------------------------------------------
(* Properties.                                                               *)

\* A node.json names a process of its own node, and a command has in hand what it has
\* just launched.
RecordsMatch ==
  /\ \A n \in Node : recs[n] \in Pids => recs[n] <= born /\ procs[recs[n]].node = n
  /\ \A p \in Pids : p > born => procs[p].state = "unborn"
  /\ cmd.at = "record" => cmd.pid \in Pids /\ cmd.pid <= born /\ cmd.node \in Node
                          /\ procs[cmd.pid].node = cmd.node /\ \A n \in Node : recs[n] # cmd.pid

\* Every process that is up is in a node.json, where a stop finds it, or is in the hand of
\* the command that has launched it, or was lost with a write, a kill, a relaunch over it
\* or a removal of the files; a stop itself loses none.
ProcessesAreKnown ==
  \A p \in Pids : Up(p) =>
    \/ p \in strays \/ (cmd.at = "record" /\ cmd.pid = p) \/ recs[procs[p].node] = p

\* A node has one container at most, however often the devnet was deployed.
OneContainer ==
  \A p, q \in Pids : Up(p) /\ Up(q) /\ procs[p].box /\ procs[q].box /\ procs[p].node = procs[q].node => p = q

\* The files and the processes.
CliInv == TypeOK /\ RecordsMatch /\ ProcessesAreKnown /\ OneContainer

\* A reset or a destroy that finds the devnet Running does not remove the data under a
\* process that is recorded, also when the process does not end by itself, after failed
\* starts and stops, and after commands that were killed.  Only a destroy whose stop could
\* not read the files removes it all the same.
RemovalStopsNodes ==
  cmd.at = "remove" /\ cmd.found = "running" /\ ~meta.docker =>
    (\A p \in Pids : Up(p) => p \in strays) \/ (cmd.name = "destroy" /\ ~cmd.ok)

\* In a local devnet, used with the commands in any order, nothing is lost as long as
\* nothing fails and no node is started that is not down in a running devnet: no process is
\* left behind, and no data is removed under one, whatever processes die meanwhile.
OrderlyUseLosesNothing ==
  ~trouble => strays = {} /\ (cmd.at = "remove" => \A p \in Pids : ~Up(p))
=============================================================================
