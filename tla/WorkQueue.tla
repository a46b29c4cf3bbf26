------------------------------ MODULE WorkQueue ------------------------------
(***************************************************************************)
(* The deduplicating work queue of one controller                          *)
(* (internal/daemon/controller/queue.go) together with the workers that    *)
(* drain it and the way the manager stops them (manager.go).               *)
(*                                                                         *)
(* A worker alternates between Get, Reconcile and Done.  Every critical    *)
(* section of the queue's mutex is one action.  The condition variable is  *)
(* modelled: a worker that finds the queue empty sleeps ("wait") until a   *)
(* Signal or a Broadcast makes it try again ("get").  When Reconcile       *)
(* fails, processItem calls Requeue and then, from its defer, Done: two    *)
(* critical sections, with the state "requeued" between them.              *)
(***************************************************************************)
EXTENDS Integers, Sequences, FiniteSets

CONSTANTS
  Keys,         \* resource keys, e.g. "ns/devnet"
  Workers,      \* the goroutines Start launches for this controller
  MaxFailures   \* bound on the number of Reconcile errors in a behaviour

ASSUME KeysAssumption == Keys # {}
ASSUME WorkersAssumption == IsFiniteSet(Workers) /\ Workers # {}
ASSUME MaxFailuresAssumption == MaxFailures \in Nat

VARIABLES
  queue,         \* the ordered list of items to process
  dirty,         \* items that need processing
  processing,    \* items the queue believes are being processed
  shuttingDown,  \* set by ShutDown, never cleared
  pc,            \* where each worker is
  item,          \* the key each worker got last
  failures,      \* Reconcile errors so far (bounded by MaxFailures)
  manager,       \* Manager.Start: running, context cancelled, draining, stopped
  stopCall       \* StopWithTimeout: "none", "waiting", "graceful", "timeout"

queueVars == <<queue, dirty, processing, shuttingDown>>
vars == <<queue, dirty, processing, shuttingDown, pc, item, failures, manager,
          stopCall>>

WorkerStates == {"get", "wait", "reconcile", "requeued", "exited"}

\* The one type invariant: the queue holds keys, workers are at a known place.
TypeOK ==
  /\ queue \in Seq(Keys)
  /\ dirty \subseteq Keys
  /\ processing \subseteq Keys
  /\ shuttingDown \in BOOLEAN
  /\ pc \in [Workers -> WorkerStates]
  /\ item \in [Workers -> Keys]
  /\ failures \in 0..MaxFailures
  /\ manager \in {"running", "cancelled", "draining", "stopped"}
  /\ stopCall \in {"none", "waiting", "graceful", "timeout"}

\* Workers that sleep in cond.Wait, and workers about to look at the queue.
Waiting == {w \in Workers : pc[w] = "wait"}
Looking == {w \in Workers : pc[w] = "get"}

\* The keys in a sequence, and the keys in the queue.
KeysOf(s) == {s[i] : i \in DOMAIN s}
Queued == KeysOf(queue)

\* No key occurs twice in a sequence.
NoRepeats(s) == \A i, j \in DOMAIN s : s[i] = s[j] => i = j

\* Workers that took k from the queue and still owe a Done for it.
Holders(k) == {w \in Workers : pc[w] \in {"reconcile", "requeued"} /\ item[w] = k}

-----------------------------------------------------------------------------
\* What a worker's key variable holds before its first Get is never read.
AnyKey == CHOOSE k \in Keys : TRUE

Init ==
  /\ queue = <<>>
  /\ dirty = {}
  /\ processing = {}
  /\ shuttingDown = FALSE
  /\ pc = [w \in Workers |-> "get"]
  /\ item = [w \in Workers |-> AnyKey]
  /\ failures = 0
  /\ manager = "running"
  /\ stopCall = "none"

\* cond.Signal: one sleeping worker, any of them, is made to look again.
Signal(before, after) ==
  \/ /\ \A w \in Workers : before[w] # "wait"
     /\ after = before
  \/ \E w \in Workers :
       /\ before[w] = "wait"
       /\ after = [before EXCEPT ![w] = "get"]

\* Faulty variants of the queue's operations, used only to show that the
\* properties below notice them: an Add that forgets to Signal, an Add that
\* does not look at processing, a Done that does not look at dirty.
AddWithoutSignal(k) ==
  /\ ~shuttingDown
  /\ k \notin dirty \cup processing
  /\ dirty' = dirty \cup {k}
  /\ queue' = Append(queue, k)
  /\ UNCHANGED <<processing, shuttingDown, pc, item, failures, manager, stopCall>>

AddIgnoringProcessing(k) ==
  /\ ~shuttingDown
  /\ k \notin dirty
  /\ dirty' = dirty \cup {k}
  /\ queue' = Append(queue, k)
  /\ Signal(pc, pc')
  /\ UNCHANGED <<processing, shuttingDown, item, failures, manager, stopCall>>

DoneIgnoringDirty(w) ==
  /\ processing' = processing \ {item[w]}
  /\ pc' = [pc EXCEPT ![w] = "get"]
  /\ UNCHANGED <<queue, dirty, shuttingDown, item>>

\* Manager.Enqueue -> WorkQueue.Add, called by services and by controllers.
AddDropped(k) ==        \* shutting down, or already dirty: nothing changes
  /\ shuttingDown \/ k \in dirty
  /\ UNCHANGED vars

AddWhileProcessing(k) ==
  /\ ~shuttingDown
  /\ k \notin dirty
  /\ k \in processing
  /\ dirty' = dirty \cup {k}
  /\ UNCHANGED <<queue, processing, shuttingDown, pc, item, failures, manager,
                 stopCall>>

AddToQueue(k) ==
  /\ ~shuttingDown
  /\ k \notin dirty
  /\ k \notin processing
  /\ dirty' = dirty \cup {k}
  /\ queue' = Append(queue, k)
  /\ Signal(pc, pc')
  /\ UNCHANGED <<processing, shuttingDown, item, failures, manager, stopCall>>

\* Get: sleep while the queue is empty ...
GetWait(w) ==
  /\ pc[w] = "get"
  /\ ~shuttingDown
  /\ queue = <<>>
  /\ pc' = [pc EXCEPT ![w] = "wait"]
  /\ UNCHANGED <<queueVars, item, failures, manager, stopCall>>

\* ... take the oldest item ...
GetItem(w) ==
  /\ pc[w] = "get"
  /\ ~shuttingDown
  /\ queue # <<>>
  /\ queue' = Tail(queue)
  /\ dirty' = dirty \ {Head(queue)}
  /\ processing' = processing \cup {Head(queue)}
  /\ pc' = [pc EXCEPT ![w] = "reconcile"]
  /\ item' = [item EXCEPT ![w] = Head(queue)]
  /\ UNCHANGED <<shuttingDown, failures, manager, stopCall>>

\* ... or leave, even when items are left, once the queue shuts down.
GetShutdown(w) ==
  /\ pc[w] = "get"
  /\ shuttingDown
  /\ pc' = [pc EXCEPT ![w] = "exited"]
  /\ UNCHANGED <<queueVars, item, failures, manager, stopCall>>

\* The body of WorkQueue.Done for worker w, which then loops back to Get.
Done(w) ==
  LET back == [pc EXCEPT ![w] = "get"] IN
  /\ processing' = processing \ {item[w]}
  /\ IF item[w] \in dirty
       THEN queue' = Append(queue, item[w]) /\ Signal(back, pc')
       ELSE queue' = queue /\ pc' = back
  /\ UNCHANGED <<dirty, shuttingDown, item>>

\* processItem when Reconcile returns nil: only the deferred Done runs.
ReconcileOk(w) ==
  /\ pc[w] = "reconcile"
  /\ Done(w)
  /\ UNCHANGED <<failures, manager, stopCall>>

\* The body of WorkQueue.Requeue for worker w, which then runs its defer.
Requeue(w) ==
  LET next == [pc EXCEPT ![w] = "requeued"] IN
  /\ processing' = processing \ {item[w]}
  /\ IF shuttingDown
       THEN UNCHANGED <<queue, dirty>> /\ pc' = next
       ELSE /\ dirty' = dirty \cup {item[w]}
            /\ queue' = Append(queue, item[w])
            /\ Signal(next, pc')
  /\ UNCHANGED <<shuttingDown, item>>

\* processItem when Reconcile returns an error.
ReconcileErr(w) ==
  /\ pc[w] = "reconcile"
  /\ failures < MaxFailures
  /\ failures' = failures + 1
  /\ Requeue(w)
  /\ UNCHANGED <<manager, stopCall>>

\* ... and its deferred Done, in a second critical section.
DeferredDone(w) ==
  /\ pc[w] = "requeued"
  /\ Done(w)
  /\ UNCHANGED <<failures, manager, stopCall>>

\* Faulty variants: a ShutDown that does not Broadcast, a Start that does not
\* wait for its workers.
ShutDownWithoutBroadcast ==
  /\ shuttingDown' = TRUE
  /\ UNCHANGED <<queue, dirty, processing, pc, item>>

AllWorkersDoneUnwaited ==
  /\ manager = "draining"
  /\ manager' = "stopped"
  /\ UNCHANGED <<queueVars, pc, item, failures, stopCall>>

\* WorkQueue.ShutDown: a Broadcast wakes every sleeper.
ShutDown ==
  /\ shuttingDown' = TRUE
  /\ pc' = [w \in Workers |-> IF pc[w] = "wait" THEN "get" ELSE pc[w]]
  /\ UNCHANGED <<queue, dirty, processing, item>>

\* Server.Run cancels the context Manager.Start waits on ...
CancelContext ==
  /\ manager = "running"
  /\ manager' = "cancelled"
  /\ UNCHANGED <<queueVars, pc, item, failures, stopCall>>

\* ... and some time later Start returns from <-ctx.Done() and shuts the queue
\* down; StopWithTimeout may have done so before it.
StartShutsDown ==
  /\ manager = "cancelled"
  /\ manager' = "draining"
  /\ ShutDown
  /\ UNCHANGED <<failures, stopCall>>

\* wg.Wait returns and Start closes m.stopped.
AllWorkersDone ==
  /\ manager = "draining"
  /\ \A w \in Workers : pc[w] = "exited"
  /\ manager' = "stopped"
  /\ UNCHANGED <<queueVars, pc, item, failures, stopCall>>

\* StopWithTimeout: shut the queue down, then wait for m.stopped.  The daemon
\* cancels the context of Start before it calls it (server.go, Run).
StopWithTimeout ==
  /\ stopCall = "none"
  /\ manager # "running"
  /\ stopCall' = "waiting"
  /\ ShutDown
  /\ UNCHANGED <<failures, manager>>

StopReturnsTrue ==
  /\ stopCall = "waiting"
  /\ manager = "stopped"
  /\ stopCall' = "graceful"
  /\ UNCHANGED <<queueVars, pc, item, failures, manager>>

StopTimesOut ==
  /\ stopCall = "waiting"
  /\ stopCall' = "timeout"
  /\ UNCHANGED <<queueVars, pc, item, failures, manager>>

Add(k) == AddDropped(k) \/ AddWhileProcessing(k) \/ AddToQueue(k)
Get(w) == GetWait(w) \/ GetItem(w) \/ GetShutdown(w)
Reconcile(w) == ReconcileOk(w) \/ ReconcileErr(w) \/ DeferredDone(w)
Stopping == \/ CancelContext \/ StartShutsDown \/ AllWorkersDone
            \/ StopWithTimeout \/ StopReturnsTrue \/ StopTimesOut

Next ==
  \/ \E k \in Keys : Add(k)
  \/ \E w \in Workers : Get(w) \/ Reconcile(w)
  \/ Stopping

\* Goroutines run and Reconcile returns; nobody is obliged to enqueue, cancel
\* or stop, and a Stop that has been called waits.
Fairness ==
  /\ \A w \in Workers : WF_vars(Get(w)) /\ WF_vars(Reconcile(w))
  /\ WF_vars(StartShutsDown)
  /\ WF_vars(AllWorkersDone)
  /\ WF_vars(StopReturnsTrue)

Spec == Init /\ [][Next]_vars
FairSpec == Spec /\ Fairness

-----------------------------------------------------------------------------
\* No item is lost (queue.go Add/Get/Done/Requeue): a key marked dirty is in the
\* queue, or a worker holds it and its Done will put it back.
NoLostItem ==
  \A k \in dirty : k \in Queued \/ Holders(k) # {}

\* No lost wake-up (the Signal of Add, Done and Requeue against the Wait of Get):
\* while some worker sleeps, every queued item has an awake worker coming for it,
\* and nobody sleeps once the queue shuts down.
WorkConserving ==
  Waiting # {} => ~shuttingDown /\ Len(queue) <= Cardinality(Looking)

\* Deduplication (queue.go dirty and processing): as long as no Reconcile has
\* failed, a key is queued at most once, never while it is being processed, and
\* at most one worker reconciles it at a time.
SingleFlightUntilFailure ==
  failures = 0 =>
    /\ NoRepeats(queue)
    /\ \A k \in Queued : Holders(k) = {}
    /\ \A v, w \in Workers :
         pc[v] = "reconcile" /\ pc[w] = "reconcile" /\ item[v] = item[w] => v = w

\* A graceful stop (StopWithTimeout returning true, after which the daemon closes
\* its database): every worker has returned and none holds a key.
GracefulStopIsQuiet ==
  stopCall = "graceful" => \A w \in Workers : pc[w] = "exited"

\* The inductive invariant behind NoLostItem and GracefulStopIsQuiet: types, the
\* processing mark is backed by a worker that owes a Done, and m.stopped is closed
\* only after the last worker left.
QueueInv ==
  /\ TypeOK
  /\ \A k \in processing : Holders(k) # {}
  /\ NoLostItem
  /\ manager = "stopped" => \A w \in Workers : pc[w] = "exited"
  /\ stopCall = "graceful" => manager = "stopped"
  /\ (\E w \in Workers : pc[w] = "exited") => shuttingDown

\* The inductive invariant behind SingleFlightUntilFailure: before the first
\* error the queue is exactly the dirty keys that nobody processes, without
\* repetition, and processing is exactly the set of keys the workers hold.
DedupInv ==
  failures = 0 =>
    /\ NoRepeats(queue)
    /\ Queued \subseteq dirty
    /\ Queued \cap processing = {}
    /\ \A w \in Workers :
         /\ pc[w] # "requeued"
         /\ pc[w] = "reconcile" => item[w] \in processing
    /\ \A v, w \in Workers :
         pc[v] = "reconcile" /\ pc[w] = "reconcile" /\ item[v] = item[w] => v = w

\* Every key marked dirty is eventually taken by a worker, unless the queue shuts
\* down first (FIFO order, no starvation by other keys or by retries).
EventuallyServed ==
  \A k \in Keys : (k \in dirty) ~> (k \notin dirty \/ shuttingDown)

\* Cancelling the context always ends with every worker gone and m.stopped closed.
ShutdownCompletes ==
  (manager # "running") ~> (manager = "stopped")
=============================================================================
