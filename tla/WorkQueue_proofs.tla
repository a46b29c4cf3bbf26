-------------------------- MODULE WorkQueue_proofs --------------------------
(***************************************************************************)
(* Proofs about WorkQueue for every set of keys, every finite set of       *)
(* workers and every bound on failures.                                    *)
(***************************************************************************)
EXTENDS WorkQueue, TLAPS, FiniteSetTheorems

USE KeysAssumption, MaxFailuresAssumption

\* Appending a key adds it to the queued keys and forgets none (queue.go append).
LEMMA QueuedAppend ==
  ASSUME NEW s \in Seq(Keys), NEW k \in Keys
  PROVE  /\ Append(s, k) \in Seq(Keys)
         /\ KeysOf(Append(s, k)) = KeysOf(s) \cup {k}
<1>1. DOMAIN Append(s, k) = 1 .. Len(s) + 1
  OBVIOUS
<1>2. \A i \in 1 .. Len(s) : Append(s, k)[i] = s[i]
  OBVIOUS
<1>3. Append(s, k)[Len(s) + 1] = k
  OBVIOUS
<1>4. DOMAIN s = 1 .. Len(s)
  OBVIOUS
<1>5. Len(s) \in Nat
  OBVIOUS
<1>6. {Append(s, k)[i] : i \in DOMAIN Append(s, k)} \subseteq {s[i] : i \in DOMAIN s} \cup {k}
  <2>. SUFFICES ASSUME NEW i \in 1 .. Len(s) + 1
                PROVE  Append(s, k)[i] \in {s[j] : j \in DOMAIN s} \cup {k}
    BY <1>1
  <2>. i \in 1 .. Len(s) \/ i = Len(s) + 1
    BY <1>5
  <2>. QED
    BY <1>2, <1>3, <1>4
<1>7. {s[i] : i \in DOMAIN s} \cup {k} \subseteq {Append(s, k)[i] : i \in DOMAIN Append(s, k)}
  BY <1>1, <1>2, <1>3, <1>4, <1>5
<1>. QED
  BY <1>6, <1>7 DEF KeysOf

\* Popping the head leaves every other queued key in the queue (queue.go Get).
LEMMA QueuedTail ==
  ASSUME NEW s \in Seq(Keys), s # <<>>
  PROVE  /\ Head(s) \in Keys
         /\ Tail(s) \in Seq(Keys)
         /\ KeysOf(s) = KeysOf(Tail(s)) \cup {Head(s)}
<1>1. Len(s) \in Nat /\ Len(s) >= 1 /\ DOMAIN s = 1 .. Len(s)
  OBVIOUS
<1>2. Tail(s) \in Seq(Keys) /\ Len(Tail(s)) = Len(s) - 1
  OBVIOUS
<1>3. DOMAIN Tail(s) = 1 .. Len(s) - 1
  BY <1>2
<1>4. \A i \in 1 .. Len(s) - 1 : Tail(s)[i] = s[i + 1]
  BY <1>1
<1>5. Head(s) = s[1]
  OBVIOUS
<1>6. {s[i] : i \in DOMAIN s} \subseteq {Tail(s)[i] : i \in DOMAIN Tail(s)} \cup {Head(s)}
  <2>. SUFFICES ASSUME NEW i \in 1 .. Len(s)
                PROVE  s[i] \in {Tail(s)[j] : j \in DOMAIN Tail(s)} \cup {Head(s)}
    BY <1>1
  <2>1. CASE i = 1
    BY <2>1, <1>5
  <2>2. CASE i # 1
    <3>. DEFINE j == i - 1
    <3>1. j \in 1 .. Len(s) - 1 /\ i = j + 1
      BY <1>1, <2>2
    <3>2. Tail(s)[j] = s[i]
      BY <3>1, <1>4
    <3>. QED
      BY <3>1, <3>2, <1>3
  <2>. QED
    BY <2>1, <2>2
<1>7. {Tail(s)[i] : i \in DOMAIN Tail(s)} \cup {Head(s)} \subseteq {s[i] : i \in DOMAIN s}
  BY <1>1, <1>3, <1>4, <1>5
<1>. QED
  BY <1>1, <1>2, <1>6, <1>7, <1>5 DEF KeysOf

\* Appending a key that is not queued creates no repetition.
LEMMA NoRepeatsAppend ==
  ASSUME NEW s \in Seq(Keys), NEW k \in Keys, NoRepeats(s), k \notin KeysOf(s)
  PROVE  NoRepeats(Append(s, k))
<1>. DEFINE t == Append(s, k)
<1>1. Len(s) \in Nat /\ DOMAIN s = 1 .. Len(s) /\ DOMAIN t = 1 .. Len(s) + 1
  OBVIOUS
<1>2. t[Len(s) + 1] = k /\ \A i \in 1 .. Len(s) : t[i] = s[i] /\ s[i] # k
  BY DEF KeysOf
<1>. HIDE DEF t
<1>. SUFFICES ASSUME NEW i \in 1 .. Len(s) + 1, NEW j \in 1 .. Len(s) + 1, t[i] = t[j]
              PROVE  i = j
  BY <1>1 DEF NoRepeats, t
<1>3. CASE i = Len(s) + 1 \/ j = Len(s) + 1
  BY <1>1, <1>2, <1>3
<1>4. CASE i \in 1 .. Len(s) /\ j \in 1 .. Len(s)
  BY <1>1, <1>2, <1>4 DEF NoRepeats
<1>. QED
  BY <1>1, <1>3, <1>4

\* Popping the head of a queue without repetitions removes its key from it.
LEMMA NoRepeatsTail ==
  ASSUME NEW s \in Seq(Keys), s # <<>>, NoRepeats(s)
  PROVE  NoRepeats(Tail(s)) /\ Head(s) \notin KeysOf(Tail(s))
<1>. DEFINE t == Tail(s)
<1>1. Len(s) \in Nat /\ Len(s) >= 1 /\ DOMAIN s = 1 .. Len(s) /\ Head(s) = s[1]
  OBVIOUS
<1>2. DOMAIN t = 1 .. Len(s) - 1 /\ \A i \in 1 .. Len(s) - 1 : t[i] = s[i + 1]
  BY <1>1
<1>. HIDE DEF t
<1>3. NoRepeats(t)
  <2>. SUFFICES ASSUME NEW i \in 1 .. Len(s) - 1, NEW j \in 1 .. Len(s) - 1, t[i] = t[j]
                PROVE  i = j
    BY <1>2 DEF NoRepeats
  <2>1. i + 1 \in DOMAIN s /\ j + 1 \in DOMAIN s /\ s[i + 1] = s[j + 1]
    BY <1>1, <1>2
  <2>2. i + 1 = j + 1
    BY <2>1 DEF NoRepeats
  <2>. QED
    BY <2>2
<1>4. s[1] \notin KeysOf(t)
  <2>. SUFFICES ASSUME NEW i \in 1 .. Len(s) - 1, t[i] = s[1] PROVE FALSE
    BY <1>2 DEF KeysOf
  <2>1. i + 1 \in DOMAIN s /\ 1 \in DOMAIN s /\ s[i + 1] = s[1]
    BY <1>1, <1>2
  <2>2. i + 1 = 1
    BY <2>1 DEF NoRepeats
  <2>. QED
    BY <2>2
<1>. QED
  BY <1>1, <1>3, <1>4 DEF t

\* cond.Signal moves at most one sleeping worker, and only from "wait" to "get".
LEMMA SignalEffect ==
  ASSUME NEW before \in [Workers -> WorkerStates], NEW after, Signal(before, after)
  PROVE  /\ after \in [Workers -> WorkerStates]
         /\ \A w \in Workers :
              after[w] = before[w] \/ (before[w] = "wait" /\ after[w] = "get")
BY DEF Signal, WorkerStates
-----------------------------------------------------------------------------
\* What holds of the sets Queued and Holders after each kind of step.
LEMMA InitQueueInv == Init => QueueInv
<1>. SUFFICES ASSUME Init PROVE QueueInv
  OBVIOUS
<1>1. AnyKey \in Keys
  BY Zenon DEF AnyKey
<1>2. TypeOK
  <2>1. queue \in Seq(Keys) /\ failures \in 0..MaxFailures
    BY DEF Init
  <2>2. item \in [Workers -> Keys] /\ pc \in [Workers -> WorkerStates]
    BY <1>1 DEF Init, WorkerStates
  <2>. QED
    BY <2>1, <2>2 DEF Init, TypeOK
<1>. QED
  BY <1>2 DEF Init, QueueInv, NoLostItem

\* One action at a time: each step of the queue, of a worker or of the manager
\* keeps QueueInv.
LEMMA NextQueueInv == QueueInv /\ [Next]_vars => QueueInv'
<1>. SUFFICES ASSUME QueueInv, [Next]_vars PROVE QueueInv'
  OBVIOUS
<1>. USE DEF WorkerStates
<1>1. ASSUME NEW k \in Keys, AddWhileProcessing(k) PROVE QueueInv'
  BY <1>1 DEF QueueInv, TypeOK, NoLostItem, AddWhileProcessing, Queued, Holders
<1>2. ASSUME NEW k \in Keys, AddToQueue(k) PROVE QueueInv'
  <2>1. TypeOK'
    BY <1>2, SignalEffect, QueuedAppend DEF QueueInv, TypeOK, AddToQueue
  <2>2. Queued' = Queued \cup {k}
    BY <1>2, QueuedAppend DEF QueueInv, TypeOK, AddToQueue, Queued
  <2>3. \A j \in Keys : Holders(j)' = Holders(j)
    BY <1>2, SignalEffect DEF QueueInv, TypeOK, AddToQueue, Holders
  <2>4. \A w \in Workers : (pc[w] = "exited") <=> (pc'[w] = "exited")
    BY <1>2, SignalEffect DEF QueueInv, TypeOK, AddToQueue
  <2>. QED
    BY <1>2, <2>1, <2>2, <2>3, <2>4 DEF QueueInv, TypeOK, NoLostItem, AddToQueue
<1>3. ASSUME NEW w \in Workers, GetWait(w) PROVE QueueInv'
  BY <1>3 DEF QueueInv, TypeOK, NoLostItem, GetWait, Queued, Holders, queueVars
<1>4. ASSUME NEW w \in Workers, GetItem(w) PROVE QueueInv'
  <2>. PICK h \in Keys : h = Head(queue)
    BY <1>4, QueuedTail DEF QueueInv, TypeOK, GetItem
  <2>1. TypeOK'
    BY <1>4, QueuedTail DEF QueueInv, TypeOK, GetItem
  <2>2. Queued \subseteq Queued' \cup {h}
    BY <1>4, QueuedTail DEF QueueInv, TypeOK, GetItem, Queued
  <2>3. /\ \A j \in Keys : Holders(j) \subseteq Holders(j)'
        /\ w \in Holders(h)'
    <3>1. /\ pc'[w] = "reconcile" /\ item'[w] = h /\ pc[w] = "get"
          /\ \A v \in Workers \ {w} : pc'[v] = pc[v] /\ item'[v] = item[v]
      BY <1>4 DEF QueueInv, TypeOK, GetItem
    <3>. QED
      BY <3>1 DEF Holders
  <2>4. \A j \in processing' : Holders(j)' # {}
    BY <1>4, <2>3 DEF QueueInv, TypeOK, GetItem
  <2>5. NoLostItem'
    BY <1>4, <2>2, <2>3 DEF QueueInv, TypeOK, NoLostItem, GetItem
  <2>6. \A v \in Workers : pc'[v] = "exited" => pc[v] = "exited"
    BY <1>4 DEF QueueInv, TypeOK, GetItem
  <2>7. manager' # "stopped"
    BY <1>4 DEF QueueInv, TypeOK, GetItem
  <2>. QED
    BY <1>4, <2>1, <2>4, <2>5, <2>6, <2>7 DEF QueueInv, GetItem
<1>5. ASSUME NEW w \in Workers, GetShutdown(w) PROVE QueueInv'
  <2>1. \A j \in Keys : Holders(j)' = Holders(j)
    BY <1>5 DEF QueueInv, TypeOK, GetShutdown, Holders
  <2>. QED
    BY <1>5, <2>1 DEF QueueInv, TypeOK, NoLostItem, GetShutdown, Queued, queueVars
<1>6. ASSUME NEW w \in Workers, pc[w] \in {"reconcile", "requeued"}, Done(w),
             UNCHANGED <<manager, stopCall>>, failures' = failures
      PROVE  QueueInv'
  <2>. DEFINE back == [pc EXCEPT ![w] = "get"]
  <2>0. /\ back \in [Workers -> WorkerStates] /\ back[w] = "get"
        /\ \A v \in Workers \ {w} : back[v] = pc[v]
        /\ item[w] \in Keys /\ queue \in Seq(Keys)
    BY DEF QueueInv, TypeOK
  <2>1. /\ pc' \in [Workers -> WorkerStates]
        /\ \A v \in Workers : pc'[v] = back[v] \/ (back[v] = "wait" /\ pc'[v] = "get")
    <3>1. CASE item[w] \in dirty
      <4>1. Signal(back, pc')
        BY <1>6, <3>1 DEF Done
      <4>. HIDE DEF back
      <4>. QED
        BY <2>0, <4>1, SignalEffect
    <3>2. CASE item[w] \notin dirty
      BY <1>6, <3>2, <2>0 DEF Done
    <3>. QED
      BY <3>1, <3>2
  <2>. HIDE DEF back
  <2>2. /\ queue' \in Seq(Keys)
        /\ Queued \subseteq Queued'
        /\ item[w] \in dirty => item[w] \in Queued'
    <3>1. queue' = queue \/ queue' = Append(queue, item[w])
      BY <1>6 DEF Done
    <3>2. item[w] \in dirty => queue' = Append(queue, item[w])
      BY <1>6 DEF Done
    <3>. QED
      BY <3>1, <3>2, <2>0, QueuedAppend DEF Queued
  <2>3. TypeOK'
    BY <1>6, <2>1, <2>2 DEF QueueInv, TypeOK, Done
  <2>4. \A j \in Keys : j # item[w] => Holders(j)' = Holders(j)
    BY <1>6, <2>0, <2>1 DEF Done, Holders
  <2>5. manager # "stopped" /\ \A v \in Workers : pc'[v] = "exited" => pc[v] = "exited"
    BY <1>6, <2>0, <2>1 DEF QueueInv
  <2>6. NoLostItem'
    BY <1>6, <2>2, <2>4 DEF QueueInv, TypeOK, NoLostItem, Done
  <2>7. \A j \in processing' : Holders(j)' # {}
    BY <1>6, <2>4 DEF QueueInv, TypeOK, Done
  <2>. QED
    BY <1>6, <2>3, <2>5, <2>6, <2>7 DEF QueueInv, Done
<1>7. ASSUME NEW w \in Workers, ReconcileErr(w) PROVE QueueInv'
  <2>. DEFINE next == [pc EXCEPT ![w] = "requeued"]
  <2>0. /\ next \in [Workers -> WorkerStates] /\ next[w] = "requeued"
        /\ \A v \in Workers \ {w} : next[v] = pc[v]
        /\ item[w] \in Keys /\ queue \in Seq(Keys)
    BY DEF QueueInv, TypeOK
  <2>1. /\ pc' \in [Workers -> WorkerStates]
        /\ pc'[w] = "requeued"
        /\ \A v \in Workers \ {w} : pc'[v] = pc[v] \/ (pc[v] = "wait" /\ pc'[v] = "get")
    <3>1. CASE shuttingDown
      BY <1>7, <3>1, <2>0 DEF ReconcileErr, Requeue
    <3>2. CASE ~shuttingDown
      <4>1. Signal(next, pc')
        BY <1>7, <3>2 DEF ReconcileErr, Requeue
      <4>. HIDE DEF next
      <4>. QED
        BY <2>0, <4>1, SignalEffect
    <3>. QED
      BY <3>1, <3>2
  <2>. HIDE DEF next
  <2>2. /\ queue' \in Seq(Keys)
        /\ Queued \subseteq Queued'
    <3>1. queue' = queue \/ queue' = Append(queue, item[w])
      BY <1>7 DEF ReconcileErr, Requeue
    <3>. QED
      BY <3>1, <2>0, QueuedAppend DEF Queued
  <2>3. \A j \in Keys : Holders(j)' = Holders(j)
    BY <1>7, <2>1 DEF ReconcileErr, Requeue, Holders
  <2>4. w \in Holders(item[w])
    BY <1>7 DEF ReconcileErr, Holders
  <2>. QED
    <3>1. TypeOK'
      BY <1>7, <2>0, <2>1, <2>2 DEF QueueInv, TypeOK, ReconcileErr, Requeue
    <3>2. NoLostItem'
      BY <1>7, <2>0, <2>2, <2>3, <2>4 DEF QueueInv, TypeOK, NoLostItem, ReconcileErr, Requeue
    <3>3. \A j \in processing' : Holders(j)' # {}
      BY <1>7, <2>3 DEF QueueInv, TypeOK, ReconcileErr, Requeue
    <3>4. manager # "stopped" /\ \A v \in Workers : pc'[v] = "exited" => pc[v] = "exited"
      BY <1>7, <2>1 DEF QueueInv, ReconcileErr
    <3>. QED
      BY <1>7, <3>1, <3>2, <3>3, <3>4 DEF QueueInv, ReconcileErr, Requeue
<1>8. ASSUME ShutDown, UNCHANGED failures,
             manager' \in {"draining", manager}, manager' # "stopped" \/ manager = "stopped",
             stopCall' \in {"waiting", stopCall}, manager' = "stopped" \/ stopCall' # "graceful"
      PROVE  QueueInv'
  <2>1. TypeOK'
    BY <1>8 DEF QueueInv, TypeOK, ShutDown
  <2>2. \A j \in Keys : Holders(j)' = Holders(j)
    BY <1>8 DEF QueueInv, TypeOK, ShutDown, Holders
  <2>3. Queued' = Queued
    BY <1>8 DEF ShutDown, Queued
  <2>. QED
    BY <1>8, <2>1, <2>2, <2>3 DEF QueueInv, TypeOK, NoLostItem, ShutDown
<1>9. ASSUME UNCHANGED <<queueVars, pc, item, failures>>,
             \/ CancelContext \/ AllWorkersDone \/ StopReturnsTrue \/ StopTimesOut
      PROVE  QueueInv'
  BY <1>9 DEF QueueInv, TypeOK, NoLostItem, Queued, Holders, queueVars,
              CancelContext, AllWorkersDone, StopReturnsTrue, StopTimesOut
<1>10. CASE UNCHANGED vars
  BY <1>10 DEF QueueInv, TypeOK, NoLostItem, Queued, Holders, vars
<1>11. CASE \E k \in Keys : Add(k)
  BY <1>1, <1>2, <1>10, <1>11 DEF Add, AddDropped
<1>12. CASE \E w \in Workers : Get(w) \/ Reconcile(w)
  <2>. PICK w \in Workers : Get(w) \/ Reconcile(w)
    BY <1>12
  <2>1. CASE Get(w)
    BY <2>1, <1>3, <1>4, <1>5 DEF Get
  <2>2. CASE ReconcileOk(w) \/ DeferredDone(w)
    BY <2>2, <1>6 DEF ReconcileOk, DeferredDone
  <2>. QED
    BY <2>1, <2>2, <1>7 DEF Reconcile
<1>13. CASE Stopping
  <2>1. CASE StartShutsDown
    BY <2>1, <1>8 DEF StartShutsDown, QueueInv
  <2>2. CASE StopWithTimeout
    BY <2>2, <1>8 DEF StopWithTimeout, QueueInv
  <2>. QED
    BY <2>1, <2>2, <1>9, <1>13
    DEF Stopping, CancelContext, AllWorkersDone, StopReturnsTrue, StopTimesOut
<1>. QED
  BY <1>10, <1>11, <1>12, <1>13 DEF Next

\* The types and the bookkeeping of queue, workers and manager always hold.
THEOREM QueueInvariant == Spec => []QueueInv
<1>. QED
  BY InitQueueInv, NextQueueInv, PTL DEF Spec

\* No enqueued resource is ever forgotten, whatever fails and in whatever order
\* Add, Get, Done and Requeue run (queue.go).
THEOREM NothingLost == Spec => []NoLostItem
<1>1. QueueInv => NoLostItem
  BY DEF QueueInv
<1>. QED
  BY <1>1, QueueInvariant, PTL

\* When StopWithTimeout returns true no worker is left (manager.go).
THEOREM StopIsGraceful == Spec => []GracefulStopIsQuiet
<1>1. QueueInv => GracefulStopIsQuiet
  BY DEF QueueInv, GracefulStopIsQuiet
<1>. QED
  BY <1>1, QueueInvariant, PTL
-----------------------------------------------------------------------------
\* Deduplication is inductive together with the types: one step per action, for
\* behaviours in which no Reconcile has failed yet.
LEMMA NextDedupInv == QueueInv /\ DedupInv /\ [Next]_vars => DedupInv'
<1>. SUFFICES ASSUME QueueInv, DedupInv, [Next]_vars, failures' = 0 PROVE DedupInv'
  BY DEF DedupInv
<1>. USE DEF WorkerStates
<1>0. failures = 0 /\ \A w \in Workers : ~ReconcileErr(w)
  <2>1. failures \in Nat
    BY DEF QueueInv, TypeOK
  <2>2. failures' = failures \/ \E w \in Workers : ReconcileErr(w)
    BY DEF Next, Add, AddDropped, AddWhileProcessing, AddToQueue, Get, GetWait, GetItem,
           GetShutdown, Reconcile, ReconcileOk, DeferredDone, Stopping, CancelContext,
           StartShutsDown, AllWorkersDone, StopWithTimeout, StopReturnsTrue, StopTimesOut, vars
  <2>3. \A w \in Workers : ReconcileErr(w) => failures' = failures + 1
    BY DEF ReconcileErr
  <2>. QED
    BY <2>1, <2>2, <2>3
<1>1. ASSUME NEW k \in Keys, AddWhileProcessing(k) PROVE DedupInv'
  BY <1>0, <1>1 DEF DedupInv, AddWhileProcessing, Queued
<1>2. ASSUME NEW k \in Keys, AddToQueue(k) PROVE DedupInv'
  <2>1. \A w \in Workers : pc'[w] = pc[w] \/ (pc[w] = "wait" /\ pc'[w] = "get")
    BY <1>2, SignalEffect DEF QueueInv, TypeOK, AddToQueue
  <2>2. Queued' = Queued \cup {k}
    BY <1>2, QueuedAppend DEF QueueInv, TypeOK, AddToQueue, Queued
  <2>3. NoRepeats(queue)'
    BY <1>0, <1>2, NoRepeatsAppend DEF QueueInv, TypeOK, DedupInv, AddToQueue, Queued
  <2>. QED
    BY <1>0, <1>2, <2>1, <2>2, <2>3 DEF DedupInv, AddToQueue
<1>3. ASSUME NEW w \in Workers, GetWait(w) \/ GetShutdown(w) PROVE DedupInv'
  <2>1. \A v \in Workers : pc'[v] = pc[v] \/ pc'[v] \in {"wait", "exited"}
    BY <1>3 DEF QueueInv, TypeOK, GetWait, GetShutdown
  <2>2. UNCHANGED <<queueVars, item>>
    BY <1>3 DEF GetWait, GetShutdown
  <2>. QED
    BY <1>0, <2>1, <2>2 DEF DedupInv, Queued, queueVars
<1>4. ASSUME NEW w \in Workers, GetItem(w) PROVE DedupInv'
  <2>. PICK h \in Keys : h = Head(queue)
    BY <1>4, QueuedTail DEF QueueInv, TypeOK, GetItem
  <2>1. Queued = Queued' \cup {h}
    BY <1>4, QueuedTail DEF QueueInv, TypeOK, GetItem, Queued
  <2>2. NoRepeats(queue') /\ h \notin Queued'
    BY <1>0, <1>4, NoRepeatsTail DEF QueueInv, TypeOK, DedupInv, GetItem, Queued
  <2>3. /\ pc'[w] = "reconcile" /\ item'[w] = h
        /\ \A v \in Workers \ {w} : pc'[v] = pc[v] /\ item'[v] = item[v]
    BY <1>4 DEF QueueInv, TypeOK, GetItem
  <2>4. h \in dirty /\ h \notin processing
    BY <1>0, <2>1 DEF DedupInv
  <2>. QED
    BY <1>0, <1>4, <2>1, <2>2, <2>3, <2>4 DEF DedupInv, GetItem
<1>5. ASSUME NEW w \in Workers, pc[w] = "reconcile", Done(w) PROVE DedupInv'
  <2>. DEFINE back == [pc EXCEPT ![w] = "get"]
  <2>0. /\ back \in [Workers -> WorkerStates] /\ back[w] = "get"
        /\ \A v \in Workers \ {w} : back[v] = pc[v]
        /\ item[w] \in Keys /\ queue \in Seq(Keys)
    BY DEF QueueInv, TypeOK
  <2>1. CASE item[w] \in dirty
    <3>1. Signal(back, pc') /\ queue' = Append(queue, item[w])
      BY <1>5, <2>1 DEF Done
    <3>. HIDE DEF back
    <3>2. \A v \in Workers : pc'[v] = back[v] \/ (back[v] = "wait" /\ pc'[v] = "get")
      BY <2>0, <3>1, SignalEffect
    <3>3. item[w] \in processing /\ item[w] \notin Queued
      BY <1>0, <1>5 DEF DedupInv
    <3>4. Queued' = Queued \cup {item[w]}
      BY <2>0, <3>1, QueuedAppend DEF Queued
    <3>5. NoRepeats(queue')
      BY <1>0, <2>0, <3>1, <3>3, NoRepeatsAppend DEF DedupInv, Queued
    <3>. QED
      BY <1>0, <1>5, <2>0, <2>1, <3>2, <3>3, <3>4, <3>5 DEF DedupInv, Done
  <2>2. CASE item[w] \notin dirty
    <3>1. pc' = back /\ queue' = queue
      BY <1>5, <2>2 DEF Done
    <3>2. Queued' = Queued
      BY <3>1 DEF Queued
    <3>. HIDE DEF back
    <3>. QED
      BY <1>0, <1>5, <2>0, <3>1, <3>2 DEF DedupInv, Done
  <2>. QED
    BY <2>1, <2>2
<1>6. ASSUME UNCHANGED <<queue, dirty, processing, item>>,
             \A v \in Workers : pc'[v] = pc[v] \/ (pc[v] = "wait" /\ pc'[v] = "get")
      PROVE  DedupInv'
  BY <1>0, <1>6 DEF DedupInv, Queued
<1>7. CASE UNCHANGED vars
  BY <1>6, <1>7 DEF vars
<1>8. CASE \E k \in Keys : Add(k)
  BY <1>1, <1>2, <1>7, <1>8 DEF Add, AddDropped
<1>9. CASE \E w \in Workers : Get(w) \/ Reconcile(w)
  <2>. PICK w \in Workers : Get(w) \/ Reconcile(w)
    BY <1>9
  <2>1. CASE Get(w)
    BY <2>1, <1>3, <1>4 DEF Get
  <2>2. CASE ReconcileOk(w)
    BY <2>2, <1>5 DEF ReconcileOk
  <2>3. ~DeferredDone(w)
    BY <1>0 DEF DedupInv, DeferredDone
  <2>. QED
    BY <2>1, <2>2, <2>3, <1>0 DEF Reconcile
<1>10. CASE Stopping
  <2>1. UNCHANGED <<queue, dirty, processing, item>>
    BY <1>10 DEF Stopping, CancelContext, StartShutsDown, AllWorkersDone, StopWithTimeout,
                 StopReturnsTrue, StopTimesOut, ShutDown, queueVars
  <2>2. CASE ShutDown
    BY <2>1, <2>2, <1>6 DEF ShutDown
  <2>3. CASE UNCHANGED pc
    BY <2>1, <2>3, <1>6
  <2>. QED
    BY <1>10, <2>2, <2>3 DEF Stopping, CancelContext, StartShutsDown, AllWorkersDone,
                 StopWithTimeout, StopReturnsTrue, StopTimesOut
<1>. QED
  BY <1>7, <1>8, <1>9, <1>10 DEF Next

\* Until some Reconcile fails, no key is queued twice and no two workers reconcile
\* the same key, however Adds interleave with the workers (queue.go).
THEOREM Deduplicates == Spec => []SingleFlightUntilFailure
<1>1. Init => DedupInv
  BY DEF Init, DedupInv, Queued, KeysOf, NoRepeats
<1>2. QueueInv /\ DedupInv => SingleFlightUntilFailure
  <2>. SUFFICES ASSUME QueueInv, DedupInv, failures = 0
                PROVE  /\ NoRepeats(queue)
                       /\ \A k \in Queued : Holders(k) = {}
                       /\ \A v, w \in Workers :
                            pc[v] = "reconcile" /\ pc[w] = "reconcile" /\ item[v] = item[w] => v = w
    BY DEF SingleFlightUntilFailure
  <2>1. \A k \in Queued : Holders(k) = {}
    BY DEF DedupInv, Holders
  <2>. QED
    BY <2>1 DEF DedupInv
<1>. QED
  BY <1>1, <1>2, NextDedupInv, QueueInvariant, PTL DEF Spec

-----------------------------------------------------------------------------
\* The workers that are about to look at the queue, and those that sleep, when the
\* places of the workers are f.
LookingIn(f) == {w \in Workers : f[w] = "get"}
SleepingIn(f) == {w \in Workers : f[w] = "wait"}

\* There are finitely many workers, so those about to look can be counted.
LEMMA LookingFinite ==
  ASSUME NEW f
  PROVE  IsFiniteSet(LookingIn(f)) /\ Cardinality(LookingIn(f)) \in Nat
<1>1. LookingIn(f) \in SUBSET Workers
  BY DEF LookingIn
<1>. QED
  BY <1>1, WorkersAssumption, FS_Subset, FS_CardinalityType

\* A worker that comes back to Get is one more that will look.
LEMMA OneMoreLooks ==
  ASSUME NEW f \in [Workers -> WorkerStates], NEW w \in Workers, f[w] # "get"
  PROVE  Cardinality(LookingIn([f EXCEPT ![w] = "get"])) = Cardinality(LookingIn(f)) + 1
<1>1. LookingIn([f EXCEPT ![w] = "get"]) = LookingIn(f) \cup {w} /\ w \notin LookingIn(f)
  BY DEF LookingIn
<1>. QED
  BY <1>1, LookingFinite, FS_AddElement

\* cond.Signal makes one more worker look, unless nobody sleeps.
LEMMA SignalAddsALooker ==
  ASSUME NEW before \in [Workers -> WorkerStates], NEW after, Signal(before, after),
         SleepingIn(after) # {}
  PROVE  /\ SleepingIn(before) # {}
         /\ Cardinality(LookingIn(after)) = Cardinality(LookingIn(before)) + 1
<1>1. PICK w \in Workers : before[w] = "wait" /\ after = [before EXCEPT ![w] = "get"]
  BY DEF Signal, SleepingIn
<1>. QED
  BY <1>1, OneMoreLooks DEF SleepingIn

\* Every step that puts an item into the queue while somebody sleeps makes one more
\* worker look, and a worker goes to sleep only in front of an empty queue.
LEMMA NextWorkConserving == QueueInv /\ WorkConserving /\ [Next]_vars => WorkConserving'
<1>. SUFFICES ASSUME QueueInv, WorkConserving, [Next]_vars, Waiting' # {}
              PROVE  ~shuttingDown' /\ Len(queue') <= Cardinality(Looking')
  BY DEF WorkConserving
<1>. USE DEF WorkerStates
<1>0. /\ queue \in Seq(Keys) /\ pc \in [Workers -> WorkerStates] /\ item \in [Workers -> Keys]
      /\ Looking = LookingIn(pc) /\ Looking' = LookingIn(pc')
      /\ Waiting = SleepingIn(pc) /\ Waiting' = SleepingIn(pc')
  BY DEF QueueInv, TypeOK, Looking, LookingIn, Waiting, SleepingIn
<1>a. Cardinality(Looking) \in Nat /\ Cardinality(Looking') \in Nat
  BY <1>0, LookingFinite
<1>1. ASSUME Waiting # {}, ~shuttingDown', Len(queue') - Len(queue) <= Cardinality(Looking') - Cardinality(Looking),
             Len(queue') \in Nat
      PROVE  ~shuttingDown' /\ Len(queue') <= Cardinality(Looking')
  <2>1. Len(queue) <= Cardinality(Looking) /\ Len(queue) \in Nat
    BY <1>0, <1>1 DEF WorkConserving
  <2>. QED
    BY <1>0, <1>a, <1>1, <2>1
<1>2. CASE UNCHANGED <<pc, queue, shuttingDown>>
  BY <1>2 DEF WorkConserving, Waiting, Looking
<1>3. ASSUME NEW k \in Keys, AddToQueue(k) PROVE ~shuttingDown' /\ Len(queue') <= Cardinality(Looking')
  <2>1. Signal(pc, pc') /\ queue' = Append(queue, k) /\ ~shuttingDown'
    BY <1>3 DEF AddToQueue
  <2>2. Len(queue') = Len(queue) + 1 /\ Len(queue) \in Nat
    BY <1>0, <2>1
  <2>3. Waiting # {} /\ Cardinality(Looking') = Cardinality(Looking) + 1
    BY <1>0, <1>a, <2>1, SignalAddsALooker
  <2>. QED
    BY <1>0, <1>a, <1>1, <2>1, <2>2, <2>3
<1>4. ASSUME NEW w \in Workers, GetWait(w) PROVE ~shuttingDown' /\ Len(queue') <= Cardinality(Looking')
  <2>1. ~shuttingDown' /\ queue' = <<>>
    BY <1>4 DEF GetWait, queueVars
  <2>2. Len(queue') = 0
    BY <2>1
  <2>. QED
    BY <1>a, <2>1, <2>2
<1>5. ASSUME NEW w \in Workers, GetItem(w) PROVE ~shuttingDown' /\ Len(queue') <= Cardinality(Looking')
  <2>1. /\ ~shuttingDown' /\ queue # <<>> /\ queue' = Tail(queue)
        /\ pc[w] = "get" /\ pc' = [pc EXCEPT ![w] = "reconcile"]
    BY <1>5 DEF GetItem
  <2>2. Len(queue') = Len(queue) - 1 /\ Len(queue') \in Nat /\ Len(queue) \in Nat
    BY <1>0, <2>1
  <2>3. LookingIn(pc') = LookingIn(pc) \ {w} /\ w \in LookingIn(pc)
    BY <1>0, <2>1 DEF LookingIn
  <2>4. Cardinality(Looking') = Cardinality(Looking) - 1
    BY <1>0, <2>3, LookingFinite, FS_RemoveElement
  <2>5. Waiting # {}
    BY <1>0, <2>1 DEF SleepingIn
  <2>6. Len(queue) <= Cardinality(Looking)
    BY <2>5 DEF WorkConserving
  <2>7. Len(queue') <= Cardinality(Looking')
    BY ONLY <1>a, <2>2, <2>4, <2>6
  <2>. QED
    BY <2>1, <2>7
<1>6. ASSUME NEW w \in Workers, GetShutdown(w) PROVE FALSE
  <2>1. SleepingIn(pc') \subseteq SleepingIn(pc)
    BY <1>0, <1>6 DEF SleepingIn, GetShutdown
  <2>. QED
    BY <1>0, <1>6, <2>1 DEF WorkConserving, GetShutdown
<1>7. ASSUME NEW w \in Workers, pc[w] \in {"reconcile", "requeued"}, Done(w)
      PROVE  ~shuttingDown' /\ Len(queue') <= Cardinality(Looking')
  <2>. DEFINE back == [pc EXCEPT ![w] = "get"]
  <2>1. /\ back \in [Workers -> WorkerStates] /\ SleepingIn(back) = SleepingIn(pc)
        /\ Cardinality(LookingIn(back)) = Cardinality(Looking) + 1
    BY <1>0, <1>7, OneMoreLooks DEF SleepingIn
  <2>2. shuttingDown' = shuttingDown
    BY <1>7 DEF Done
  <2>3. CASE item[w] \in dirty
    <3>1. Signal(back, pc') /\ queue' = Append(queue, item[w])
      BY <1>7, <2>3 DEF Done
    <3>2. Len(queue') = Len(queue) + 1 /\ Len(queue) \in Nat
      BY <1>0, <3>1
    <3>. HIDE DEF back
    <3>3. Waiting # {} /\ Cardinality(Looking') = Cardinality(Looking) + 2
      BY <1>0, <1>a, <2>1, <3>1, SignalAddsALooker
    <3>4. ~shuttingDown
      BY <3>3 DEF WorkConserving
    <3>. QED
      BY <1>0, <1>a, <1>1, <2>2, <3>2, <3>3, <3>4
  <2>4. CASE item[w] \notin dirty
    <3>1. pc' = back /\ queue' = queue
      BY <1>7, <2>4 DEF Done
    <3>. HIDE DEF back
    <3>2. /\ Waiting # {} /\ Cardinality(Looking') = Cardinality(Looking) + 1
          /\ Len(queue') = Len(queue) /\ Len(queue) \in Nat
      BY <1>0, <2>1, <3>1
    <3>3. ~shuttingDown
      BY <3>2 DEF WorkConserving
    <3>. QED
      BY <1>a, <1>1, <2>2, <3>2, <3>3
  <2>. QED
    BY <2>3, <2>4
<1>8. ASSUME NEW w \in Workers, ReconcileErr(w) PROVE ~shuttingDown' /\ Len(queue') <= Cardinality(Looking')
  <2>. DEFINE next == [pc EXCEPT ![w] = "requeued"]
  <2>1. /\ next \in [Workers -> WorkerStates] /\ SleepingIn(next) = SleepingIn(pc)
        /\ LookingIn(next) = LookingIn(pc)
    BY <1>0, <1>8 DEF SleepingIn, LookingIn, ReconcileErr
  <2>2. shuttingDown' = shuttingDown
    BY <1>8 DEF ReconcileErr, Requeue
  <2>3. CASE shuttingDown
    <3>1. pc' = next
      BY <1>8, <2>3 DEF ReconcileErr, Requeue
    <3>. QED
      BY <1>0, <2>1, <2>3, <3>1 DEF WorkConserving
  <2>4. CASE ~shuttingDown
    <3>1. Signal(next, pc') /\ queue' = Append(queue, item[w])
      BY <1>8, <2>4 DEF ReconcileErr, Requeue
    <3>2. Len(queue') = Len(queue) + 1 /\ Len(queue) \in Nat
      BY <1>0, <3>1
    <3>. HIDE DEF next
    <3>3. Waiting # {} /\ Cardinality(Looking') = Cardinality(Looking) + 1
      BY <1>0, <1>a, <2>1, <3>1, SignalAddsALooker
    <3>. QED
      BY <1>0, <1>a, <1>1, <2>2, <2>4, <3>2, <3>3
  <2>. QED
    BY <2>3, <2>4
<1>9. ASSUME ShutDown PROVE FALSE
  BY <1>0, <1>9 DEF ShutDown, SleepingIn
<1>10. CASE \E k \in Keys : Add(k)
  BY <1>2, <1>3, <1>10 DEF Add, AddDropped, AddWhileProcessing, vars
<1>11. CASE \E w \in Workers : Get(w) \/ Reconcile(w)
  BY <1>4, <1>5, <1>6, <1>7, <1>8, <1>11 DEF Get, Reconcile, ReconcileOk, DeferredDone
<1>12. CASE Stopping
  BY <1>2, <1>9, <1>12 DEF Stopping, CancelContext, StartShutsDown, AllWorkersDone, StopWithTimeout,
                           StopReturnsTrue, StopTimesOut, queueVars
<1>13. CASE UNCHANGED vars
  BY <1>2, <1>13 DEF vars
<1>. QED
  BY <1>10, <1>11, <1>12, <1>13 DEF Next

\* No wake-up is lost, for every finite set of workers: while one of them sleeps, each
\* queued item has an awake worker coming for it, and nobody sleeps through a
\* shutdown (the Signal and Broadcast of queue.go against the Wait of Get).
THEOREM NoLostWakeup == Spec => []WorkConserving
<1>1. Init => WorkConserving
  BY DEF Init, WorkConserving, Waiting
<1>. QED
  BY <1>1, NextWorkConserving, QueueInvariant, PTL DEF Spec
=============================================================================
