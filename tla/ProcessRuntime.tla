--------------------------- MODULE ProcessRuntime ---------------------------
(***************************************************************************)
(* The process runtime of the daemon for one node                          *)
(* (internal/daemon/runtime/process.go), the supervisors it creates        *)
(* (supervisor.go) and the log writers it shares among them (logs.go).     *)
(*                                                                         *)
(* Every StartNode creates a supervisor: a goroutine that launches the     *)
(* process, waits for it and launches it again after a backoff.  StopNode  *)
(* takes the supervisor out of the map, asks it to stop and waits for it.  *)
(* The daemon may exit, leaving processes behind, and after a restart      *)
(* reconnect to one of them with a supervisor that only monitors.          *)
(*                                                                         *)
(* A supervisor launches one process at a time, so a process is named by   *)
(* the supervisor that launched it, and a log writer by the supervisor for *)
(* which it was opened.                                                    *)
(***************************************************************************)
EXTENDS Integers, FiniteSets

CONSTANTS
  Sups,         \* supervisors: bounds the StartNode and ReconnectNode calls
  NoSup,        \* no supervisor, no writer
  Policy,       \* RestartPolicy.Policy
  MaxRestarts   \* RestartPolicy.MaxRestarts, 0 meaning no limit

ASSUME SupsAssumption == IsFiniteSet(Sups) /\ NoSup \notin Sups
ASSUME MaxRestartsAssumption == MaxRestarts \in Nat

VARIABLES
  registered,  \* the supervisor in pr.supervisors, or NoSup
  writer,      \* the writer in logManager.writers, or NoSup
  open,        \* the writers that are open
  logOf,       \* the writer each supervisor was given
  stopper,     \* progress of the StopNode call that took the supervisor away
  restarter,   \* the supervisor a RestartNode call found running, or NoSup
  cleaning,    \* whether Cleanup holds pr.mu
  st,          \* where each supervisor's goroutine is
  target,      \* the process it launches or monitors
  running,     \* its running flag, what status() reports
  restarts,    \* its restartCount
  launches,    \* how often it called cmd.Start
  stopCh,      \* whether its stopCh is closed
  detach,      \* detachMode or detachOnShutdown
  alive,       \* whether the process it launched last is alive
  exitFailed,  \* whether that process ended with a non-zero exit code
  signal,      \* the signal on its way to that process
  daemon       \* "up", "stopping" (context cancelled) or "down"

apiVars == <<registered, writer, open, logOf, stopper, restarter, cleaning>>
loopVars == <<st, target, running, restarts, launches>>
askVars == <<stopCh, detach>>
osVars == <<alive, exitFailed, signal>>
runtimeVars == <<apiVars, loopVars, askVars, osVars, daemon>>

RuntimeTypeOK ==
  /\ registered \in Sups \cup {NoSup}
  /\ writer \in Sups \cup {NoSup}
  /\ open \subseteq Sups
  /\ logOf \in [Sups -> Sups \cup {NoSup}]
  /\ stopper \in [Sups -> {"none", "force", "stop", "wait", "returned"}]
  /\ restarter \in Sups \cup {NoSup}
  /\ cleaning \in BOOLEAN
  /\ st \in [Sups -> {"unused", "loop", "launch", "wait", "backoff", "monitor", "done", "gone"}]
  /\ target \in [Sups -> Sups]
  /\ running \in [Sups -> BOOLEAN]
  /\ restarts \in [Sups -> Nat]
  /\ launches \in [Sups -> Nat]
  /\ stopCh \in [Sups -> BOOLEAN]
  /\ detach \in [Sups -> BOOLEAN]
  /\ alive \in [Sups -> BOOLEAN]
  /\ exitFailed \in [Sups -> BOOLEAN]
  /\ signal \in [Sups -> {"none", "term", "kill"}]
  /\ daemon \in {"up", "stopping", "down"}

RuntimeInit ==
  /\ registered = NoSup /\ writer = NoSup /\ restarter = NoSup
  /\ open = {}
  /\ logOf = [s \in Sups |-> NoSup]
  /\ stopper = [s \in Sups |-> "none"]
  /\ cleaning = FALSE
  /\ st = [s \in Sups |-> "unused"]
  /\ target = [s \in Sups |-> s]
  /\ running = [s \in Sups |-> FALSE]
  /\ restarts = [s \in Sups |-> 0]
  /\ launches = [s \in Sups |-> 0]
  /\ stopCh = [s \in Sups |-> FALSE]
  /\ detach = [s \in Sups |-> FALSE]
  /\ alive = [s \in Sups |-> FALSE]
  /\ exitFailed = [s \in Sups |-> FALSE]
  /\ signal = [s \in Sups |-> "none"]
  /\ daemon = "up"

-----------------------------------------------------------------------------
(* Helpers.                                                                 *)

\* An operation can take pr.mu.
Serving == daemon # "down" /\ ~cleaning

\* A signal reaches the process only while it lives.
Signalled(s, sig) == IF alive[s] THEN [signal EXCEPT ![s] = sig] ELSE signal

\* stopProcess: the stop signal, with a SIGKILL to follow.
StopProcess(s) == IF signal[s] = "none" THEN Signalled(s, "term") ELSE signal

\* LogManager.Close: the cached writer is closed and forgotten.
CloseLog == writer' = NoSup /\ open' = open \ {writer}

CancelledOrStopped(s) == stopCh[s] \/ daemon # "up"

\* Faulty variants, used only to show that the properties notice them: a process that is
\* not waited for, a backoff that only a stop ends.
ReapWithoutWaiting(s) ==
  /\ st[s] = "wait"
  /\ running' = [running EXCEPT ![s] = FALSE]
  /\ st' = [st EXCEPT ![s] = "done"]
  /\ UNCHANGED <<apiVars, target, restarts, launches, askVars, osVars, daemon>>

BackoffOnlyStops(s) ==
  /\ st[s] = "backoff"
  /\ CancelledOrStopped(s)
  /\ st' = [st EXCEPT ![s] = "done"]
  /\ UNCHANGED <<apiVars, target, running, restarts, launches, askVars, osVars, daemon>>

-----------------------------------------------------------------------------
(* The operations of ProcessRuntime.                                        *)

\* StartNode refuses while the registered supervisor reports a running process.
\* Otherwise it forgets that supervisor, closes the log writer, opens a new one
\* and starts a new supervisor; a writer left by nobody's supervisor is reused.
StartNode(s) ==
  /\ Serving
  /\ registered # NoSup => ~running[registered]
  /\ st[s] = "unused"
  /\ LET w == IF registered = NoSup /\ writer # NoSup THEN writer ELSE s
     IN  /\ writer' = w
         /\ open' = IF w = s THEN (open \ {writer}) \cup {s} ELSE open
         /\ logOf' = [logOf EXCEPT ![s] = w]
  /\ registered' = s
  /\ st' = [st EXCEPT ![s] = "loop"]
  /\ UNCHANGED <<stopper, restarter, cleaning, target, running, restarts, launches, askVars,
                 osVars, daemon>>

\* The log writer cannot be opened: the old supervisor is forgotten all the same.
StartNodeFails ==
  /\ Serving
  /\ registered # NoSup
  /\ ~running[registered]
  /\ registered' = NoSup
  /\ CloseLog
  /\ UNCHANGED <<logOf, stopper, restarter, cleaning, loopVars, askVars, osVars, daemon>>

\* StopNode takes the supervisor out of the map and releases pr.mu.
StopNode(graceful) ==
  /\ Serving
  /\ registered # NoSup
  /\ registered' = NoSup
  /\ stopper' = [stopper EXCEPT ![registered] = IF graceful THEN "stop" ELSE "force"]
  /\ UNCHANGED <<writer, open, logOf, restarter, cleaning, loopVars, askVars, osVars, daemon>>

\* forceStop kills the process of the moment; then, like stop, it closes stopCh
\* and waits for the goroutine.  At last the log writer is closed, and Cleanup
\* empties the map and releases pr.mu.
ForceKill(s) ==
  /\ stopper[s] = "force"
  /\ stopper' = [stopper EXCEPT ![s] = "stop"]
  /\ signal' = Signalled(s, "kill")
  /\ UNCHANGED <<registered, writer, open, logOf, restarter, cleaning, loopVars, askVars,
                 alive, exitFailed, daemon>>

CloseStopCh(s) ==
  /\ stopper[s] = "stop"
  /\ stopper' = [stopper EXCEPT ![s] = "wait"]
  /\ stopCh' = [stopCh EXCEPT ![s] = TRUE]
  /\ UNCHANGED <<registered, writer, open, logOf, restarter, cleaning, loopVars, detach,
                 osVars, daemon>>

StopReturns(s) ==
  /\ stopper[s] = "wait"
  /\ st[s] = "done"
  /\ stopper' = [stopper EXCEPT ![s] = "returned"]
  /\ CloseLog
  /\ IF s = registered THEN registered' = NoSup /\ cleaning' = FALSE
                        ELSE UNCHANGED <<registered, cleaning>>
  /\ UNCHANGED <<logOf, restarter, loopVars, askVars, osVars, daemon>>

\* Cleanup stops the supervisor gracefully, holding pr.mu until it is done.
Cleanup ==
  /\ Serving
  /\ registered # NoSup
  /\ cleaning' = TRUE
  /\ stopper' = [stopper EXCEPT ![registered] = "stop"]
  /\ UNCHANGED <<registered, writer, open, logOf, restarter, loopVars, askVars, osVars, daemon>>

\* RestartNode finds the supervisor running and, without pr.mu, signals the
\* process; the supervisor is to launch it again.  A monitor has no command.
RestartNode ==
  /\ Serving
  /\ registered # NoSup
  /\ running[registered]
  /\ restarter = NoSup
  /\ restarter' = registered
  /\ UNCHANGED <<registered, writer, open, logOf, stopper, cleaning, loopVars, askVars,
                 osVars, daemon>>

RestartSignals ==
  /\ restarter # NoSup
  /\ signal' = StopProcess(restarter)
  /\ restarter' = NoSup
  /\ UNCHANGED <<registered, writer, open, logOf, stopper, cleaning, loopVars, askVars,
                 alive, exitFailed, daemon>>

\* Server.Run cancels the context, Shutdown detaches, the daemon exits.  It may
\* also exit at any moment without either.
CancelContext ==
  /\ daemon = "up"
  /\ daemon' = "stopping"
  /\ UNCHANGED <<apiVars, loopVars, askVars, osVars>>

Detach ==
  /\ Serving
  /\ daemon = "stopping"
  /\ registered # NoSup
  /\ registered' = NoSup
  /\ detach' = [detach EXCEPT ![registered] = TRUE]
  /\ CloseLog
  /\ UNCHANGED <<logOf, stopper, restarter, cleaning, loopVars, stopCh, osVars, daemon>>

DaemonExit ==
  /\ daemon # "down"
  /\ daemon' = "down"
  /\ registered' = NoSup /\ writer' = NoSup /\ restarter' = NoSup
  /\ open' = {}
  /\ stopper' = [s \in Sups |-> "none"]
  /\ cleaning' = FALSE
  /\ st' = [s \in Sups |-> IF st[s] \in {"unused", "done"} THEN st[s] ELSE "gone"]
  /\ running' = [s \in Sups |-> FALSE]
  /\ signal' = [s \in Sups |-> IF signal[s] = "kill" THEN "kill" ELSE "none"]
  /\ UNCHANGED <<logOf, target, restarts, launches, askVars, alive, exitFailed>>

\* A new daemon starts.  Before it serves anything it monitors the process whose
\* PID the node record holds, if that process is alive, with a log writer if one can
\* be opened.
DaemonStart ==
  /\ daemon = "down"
  /\ daemon' = "up"
  /\ UNCHANGED <<apiVars, loopVars, askVars, osVars>>

ReconnectNode(s, p) ==
  /\ daemon = "down"
  /\ daemon' = "up"
  /\ alive[p]
  /\ st[s] = "unused"
  /\ registered' = s
  /\ \/ writer' = s /\ open' = open \cup {s} /\ logOf' = [logOf EXCEPT ![s] = s]
     \/ logOf' = [logOf EXCEPT ![s] = NoSup] /\ UNCHANGED <<writer, open>>
  /\ st' = [st EXCEPT ![s] = "monitor"]
  /\ target' = [target EXCEPT ![s] = p]
  /\ running' = [running EXCEPT ![s] = TRUE]
  /\ detach' = [detach EXCEPT ![s] = TRUE]
  /\ UNCHANGED <<stopper, restarter, cleaning, restarts, launches, stopCh, osVars>>

-----------------------------------------------------------------------------
(* The supervisor goroutine.                                                *)

\* Top of run's loop: leave when asked to, stopping the process unless detached,
\* else go on to launch it.
LoopStops(s) ==
  /\ st[s] = "loop"
  /\ CancelledOrStopped(s)
  /\ st' = [st EXCEPT ![s] = "done"]
  /\ signal' = IF detach[s] THEN signal ELSE StopProcess(s)
  /\ UNCHANGED <<apiVars, target, running, restarts, launches, askVars, alive, exitFailed,
                 daemon>>

LoopLaunches(s) ==
  /\ st[s] = "loop"
  /\ ~CancelledOrStopped(s)
  /\ st' = [st EXCEPT ![s] = "launch"]
  /\ UNCHANGED <<apiVars, target, running, restarts, launches, askVars, osVars, daemon>>

\* startAndWait up to cmd.Wait.  When cmd.Start fails the exit code is -1.
Launch(s) ==
  /\ st[s] = "launch"
  /\ st' = [st EXCEPT ![s] = "wait"]
  /\ launches' = [launches EXCEPT ![s] = @ + 1]
  /\ \/ /\ alive' = [alive EXCEPT ![s] = TRUE]
        /\ running' = [running EXCEPT ![s] = TRUE]
        /\ UNCHANGED exitFailed
     \/ /\ exitFailed' = [exitFailed EXCEPT ![s] = TRUE]
        /\ UNCHANGED <<alive, running>>
  /\ UNCHANGED <<apiVars, target, restarts, askVars, signal, daemon>>

ShouldRestart(s) ==
  /\ Policy = "always" \/ (Policy = "on-failure" /\ exitFailed[s])
  /\ MaxRestarts = 0 \/ restarts[s] < MaxRestarts

\* The process is gone: clear the running flag, then restart or give up.
Reap(s) ==
  /\ st[s] = "wait"
  /\ ~alive[s]
  /\ running' = [running EXCEPT ![s] = FALSE]
  /\ IF ShouldRestart(s)
       THEN /\ restarts' = [restarts EXCEPT ![s] = @ + 1]
            /\ st' = [st EXCEPT ![s] = "backoff"]
       ELSE /\ st' = [st EXCEPT ![s] = "done"]
            /\ UNCHANGED restarts
  /\ UNCHANGED <<apiVars, target, launches, askVars, osVars, daemon>>

\* The backoff ends by a stop, by the context or by its timer; when several are
\* ready the select takes any.
BackoffEnds(s) ==
  /\ st[s] = "backoff"
  /\ \/ CancelledOrStopped(s) /\ st' = [st EXCEPT ![s] = "done"]
     \/ st' = [st EXCEPT ![s] = "loop"]
  /\ UNCHANGED <<apiVars, target, running, restarts, launches, askVars, osVars, daemon>>

\* runMonitor ends when asked to, sending SIGTERM only if not detached, or when
\* a tick finds the process dead.
MonitorEnds(s) ==
  /\ st[s] = "monitor"
  /\ \/ /\ CancelledOrStopped(s)
        /\ signal' = IF stopCh[s] /\ ~detach[s] THEN Signalled(target[s], "term") ELSE signal
        /\ UNCHANGED running
     \/ /\ ~alive[target[s]]
        /\ running' = [running EXCEPT ![s] = FALSE]
        /\ UNCHANGED signal
  /\ st' = [st EXCEPT ![s] = "done"]
  /\ UNCHANGED <<apiVars, target, restarts, launches, askVars, alive, exitFailed, daemon>>

-----------------------------------------------------------------------------
(* The operating system: a process ends by itself, well or badly, or of a   *)
(* SIGKILL, which follows a stop signal after the grace period.             *)

ProcessExits(s) ==
  /\ alive[s]
  /\ alive' = [alive EXCEPT ![s] = FALSE]
  /\ \E failed \in BOOLEAN : exitFailed' = [exitFailed EXCEPT ![s] = failed]
  /\ signal' = [signal EXCEPT ![s] = "none"]
  /\ UNCHANGED <<apiVars, loopVars, askVars, daemon>>

ProcessKilled(s) ==
  /\ alive[s]
  /\ signal[s] = "kill"
  /\ alive' = [alive EXCEPT ![s] = FALSE]
  /\ exitFailed' = [exitFailed EXCEPT ![s] = TRUE]
  /\ signal' = [signal EXCEPT ![s] = "none"]
  /\ UNCHANGED <<apiVars, loopVars, askVars, daemon>>

GraceExpires(s) ==
  /\ alive[s]
  /\ signal[s] = "term"
  /\ signal' = [signal EXCEPT ![s] = "kill"]
  /\ UNCHANGED <<apiVars, loopVars, askVars, alive, exitFailed, daemon>>

-----------------------------------------------------------------------------
Goroutine(s) ==
  \/ LoopStops(s) \/ LoopLaunches(s) \/ Launch(s) \/ Reap(s)
  \/ BackoffEnds(s) \/ MonitorEnds(s)

Stopping(s) == ForceKill(s) \/ CloseStopCh(s) \/ StopReturns(s)

Process(s) == ProcessExits(s) \/ ProcessKilled(s) \/ GraceExpires(s)

RuntimeNext ==
  \/ \E s \in Sups : StartNode(s) \/ Stopping(s) \/ Goroutine(s) \/ Process(s)
  \/ \E graceful \in BOOLEAN : StopNode(graceful)
  \/ \E s, p \in Sups : ReconnectNode(s, p)
  \/ StartNodeFails \/ Cleanup \/ RestartNode \/ RestartSignals
  \/ CancelContext \/ Detach \/ DaemonExit \/ DaemonStart

RuntimeSpec == RuntimeInit /\ [][RuntimeNext]_runtimeVars

\* Goroutines run, timers fire and SIGKILL kills.  Nothing makes a process exit
\* by itself or a caller call.
Fairness ==
  \A s \in Sups :
    /\ WF_runtimeVars(Goroutine(s))
    /\ WF_runtimeVars(Stopping(s))
    /\ WF_runtimeVars(ProcessKilled(s))
    /\ WF_runtimeVars(GraceExpires(s))

RuntimeFairSpec == RuntimeSpec /\ Fairness

-----------------------------------------------------------------------------
(* Properties.                                                              *)

\* Who owns what, at any moment: a supervisor that is starting, waiting to restart
\* or finished has no live process (run and startAndWait), one that waits for a
\* live process says it is running (status), so StartNode cannot replace it, and
\* only a monitor looks after a process it did not launch (ReconnectNode).  A
\* supervisor whose StopNode has returned is finished.
Ownership ==
  \A s \in Sups :
    /\ st[s] \in {"unused", "loop", "launch", "backoff", "monitor", "done"} => ~alive[s]
    /\ st[s] = "wait" /\ alive[s] => running[s]
    /\ target[s] # s => st[s] \in {"monitor", "done", "gone"} /\ detach[s]
    /\ stopper[s] = "returned" => st[s] = "done"

\* Where launches and restarts stand in each state of the loop.
Counts ==
  \A s \in Sups :
    /\ MaxRestarts > 0 => restarts[s] <= MaxRestarts
    /\ launches[s] <= restarts[s] + 1
    /\ st[s] \in {"unused", "loop", "launch", "backoff"} => launches[s] = restarts[s]
    /\ st[s] = "wait" => launches[s] = restarts[s] + 1

\* The inductive invariant: types, who owns which process, and the restart count
\* of run and shouldRestart.
RuntimeInv == RuntimeTypeOK /\ Ownership /\ Counts

\* The restart limit (shouldRestart, restartCount): a supervisor never launches
\* more than MaxRestarts + 1 processes, however they end, are restarted on
\* request or fail to launch.
LaunchesBounded == MaxRestarts > 0 => \A s \in Sups : launches[s] <= MaxRestarts + 1

\* Once its stop channel is closed a supervisor launches at most the process it
\* was about to launch at that moment: it never enters the launch anew.
NoRelaunchAfterStop ==
  [][\A s \in Sups : stopCh[s] /\ st[s] # "launch" => st'[s] # "launch"]_runtimeVars

\* When StopNode returns for a supervisor that launched its own process, that
\* process is dead and is never launched again (stoppedCh is closed last).
StopIsFinal ==
  \A s \in Sups : stopper[s] = "returned" /\ target[s] = s => ~alive[s] /\ st[s] = "done"

\* A failed process is not forgotten: a supervisor in its backoff tries again, was
\* told to stop, or its daemon went away.
FailureIsRetried ==
  \A s \in Sups : st[s] = "backoff" ~> st[s] \in {"wait", "done", "gone"}

\* The log manager's cache (GetWriter, Close): the cached writer is open, and as long
\* as no StopNode has ended or is waiting, the supervisor in the map writes to it.  Only
\* the monitor of a process the daemon reconnected to may be without one: it is
\* registered although its log could not be opened.  (A StopNode that ends late closes
\* the writer that a newer supervisor was given.)
LogIsKept ==
  /\ writer # NoSup => writer \in open
  /\ registered # NoSup /\ (\A s \in Sups : s # registered => stopper[s] = "none")
       => logOf[registered] = writer /\ (writer = NoSup => detach[registered])
=============================================================================
