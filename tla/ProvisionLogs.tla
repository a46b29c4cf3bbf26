---------------------------- MODULE ProvisionLogs ----------------------------
(***************************************************************************)
(* The provision logs of one devnet: the reconciles and step reporters     *)
(* that broadcast entries, and the StreamProvisionLogs calls that          *)
(* subscribe to them.                                                      *)
(*                                                                         *)
(* A broadcast copies the list of subscribers under the lock and then      *)
(* sends to one after the other without it, while streams come and go.  A  *)
(* send never blocks: an entry is dropped when the channel of a subscriber *)
(* is full.  A subscriber that leaves closes its done channel and takes    *)
(* itself off the list; its log channel is never closed.                   *)
(*                                                                         *)
(* An entry is its broadcaster and its number among all the entries.       *)
(***************************************************************************)
EXTENDS Integers, Sequences

CONSTANTS
  Streams,       \* the StreamProvisionLogs calls, each with the subscriber it makes
  Broadcasters,  \* the goroutines that broadcast
  Buffer,        \* capacity of a log channel: logSubscriberBufferSize, 100 in the code
  MaxEntries     \* bound: number of entries

ASSUME SizesAssumption == Buffer \in Nat \ {0} /\ MaxEntries \in Nat

VARIABLES
  subscribers,  \* logSubscribers of the devnet, in the order they came
  done,         \* the subscribers whose done channel is closed
  chan,         \* the log channel of each subscriber
  handler,      \* what each StreamProvisionLogs call is doing
  cancelled,    \* the streams whose context is done
  sent,         \* number of entries broadcast so far
  bcast,        \* what each broadcaster is doing
  owed,         \* history: the entries whose broadcast found the subscriber on the list
  dropped       \* history: the entries dropped because the channel was full

logsVars == <<subscribers, done, chan, handler, cancelled, sent, bcast, owed, dropped>>

Entries == Broadcasters \X (1 .. MaxEntries)

\* out is what the stream has taken from its channel, the last of it on its way to the
\* client while at is "sending".
Handlers == [at : {"new", "reading", "sending", "leaving", "ended"}, out : Seq(Entries)]

\* n is the number of the entry, list the copy of the subscribers, pos the one to be
\* sent to next.
Broadcasts == [at : {"idle", "check", "send"}, n : 0 .. MaxEntries, list : Seq(Streams), pos : Nat]

LogsTypeOK ==
  /\ subscribers \in Seq(Streams) /\ done \subseteq Streams /\ cancelled \subseteq Streams /\ sent \in 0 .. MaxEntries
  /\ chan \in [Streams -> Seq(Entries)]
  /\ \A s \in Streams : Len(chan[s]) <= Buffer
  /\ handler \in [Streams -> Handlers]
  /\ bcast \in [Broadcasters -> Broadcasts]
  /\ owed \in [Streams -> SUBSET Entries] /\ dropped \in [Streams -> SUBSET Entries]

LogsInit ==
  /\ subscribers = <<>> /\ done = {} /\ cancelled = {} /\ sent = 0
  /\ chan = [s \in Streams |-> <<>>]
  /\ handler = [s \in Streams |-> [at |-> "new", out |-> <<>>]]
  /\ bcast = [b \in Broadcasters |-> [at |-> "idle", n |-> 0, list |-> <<>>, pos |-> 1]]
  /\ owed = [s \in Streams |-> {}] /\ dropped = [s \in Streams |-> {}]

Elements(q) == {q[i] : i \in DOMAIN q}

-----------------------------------------------------------------------------
(* The broadcasts.                                                           *)

\* The list is copied under the read lock.
Broadcast(b) ==
  /\ bcast[b].at = "idle" /\ sent < MaxEntries
  /\ sent' = sent + 1
  /\ LET n == sent + 1 IN
       /\ bcast' = [bcast EXCEPT ![b] = [at |-> "check", n |-> n, list |-> subscribers, pos |-> 1]]
       /\ owed' = [s \in Streams |->
                     IF s \in Elements(subscribers) THEN owed[s] \cup {<<b, n>>} ELSE owed[s]]
  /\ UNCHANGED <<subscribers, done, chan, handler, cancelled, dropped>>

NextSubscriber(b) == bcast' = [bcast EXCEPT ![b].at = "check", ![b].pos = @ + 1]

\* Faulty variant, used only to show that the properties notice it: a subscriber that
\* has left ends the broadcast.
CheckReturns(b) ==
  /\ bcast[b].at = "check" /\ bcast[b].pos <= Len(bcast[b].list)
  /\ bcast' = IF bcast[b].list[bcast[b].pos] \in done
              THEN [bcast EXCEPT ![b].pos = Len(bcast[b].list) + 1]
              ELSE [bcast EXCEPT ![b].at = "send"]
  /\ UNCHANGED <<subscribers, done, chan, handler, cancelled, sent, owed, dropped>>

\* A subscriber that has left is skipped.
Check(b) ==
  /\ bcast[b].at = "check" /\ bcast[b].pos <= Len(bcast[b].list)
  /\ IF bcast[b].list[bcast[b].pos] \in done
     THEN NextSubscriber(b)
     ELSE bcast' = [bcast EXCEPT ![b].at = "send"]
  /\ UNCHANGED <<subscribers, done, chan, handler, cancelled, sent, owed, dropped>>

\* Faulty variant, the send waits for
\* room in the channel.
SendBlocking(b) ==
  /\ bcast[b].at = "send"
  /\ LET s == bcast[b].list[bcast[b].pos] IN
       /\ Len(chan[s]) < Buffer
       /\ chan' = [chan EXCEPT ![s] = Append(@, <<b, bcast[b].n>>)]
  /\ NextSubscriber(b)
  /\ UNCHANGED <<subscribers, done, handler, cancelled, sent, owed, dropped>>

\* The select: the send if there is room, nothing if the subscriber has left (either,
\* if both), and else the entry is dropped.
Send(b) ==
  /\ bcast[b].at = "send"
  /\ LET s == bcast[b].list[bcast[b].pos]
         e == <<b, bcast[b].n>>
     IN \/ /\ Len(chan[s]) < Buffer
           /\ chan' = [chan EXCEPT ![s] = Append(@, e)] /\ UNCHANGED dropped
        \/ /\ s \in done
           /\ UNCHANGED <<chan, dropped>>
        \/ /\ Len(chan[s]) = Buffer /\ s \notin done
           /\ dropped' = [dropped EXCEPT ![s] = @ \cup {e}] /\ UNCHANGED chan
  /\ NextSubscriber(b)
  /\ UNCHANGED <<subscribers, done, handler, cancelled, sent, owed>>

BroadcastReturns(b) ==
  /\ bcast[b].at = "check" /\ bcast[b].pos > Len(bcast[b].list)
  /\ bcast' = [bcast EXCEPT ![b].at = "idle", ![b].list = <<>>, ![b].pos = 1]
  /\ UNCHANGED <<subscribers, done, chan, handler, cancelled, sent, owed, dropped>>

-----------------------------------------------------------------------------
(* The streams.                                                              *)

SubscribeProvisionLogs(s) ==
  /\ handler[s].at = "new"
  /\ handler' = [handler EXCEPT ![s].at = "reading"]
  /\ subscribers' = Append(subscribers, s)
  /\ UNCHANGED <<done, chan, cancelled, sent, bcast, owed, dropped>>

Receive(s) ==
  /\ handler[s].at = "reading" /\ chan[s] # <<>>
  /\ handler' = [handler EXCEPT ![s].at = "sending", ![s].out = Append(@, Head(chan[s]))]
  /\ chan' = [chan EXCEPT ![s] = Tail(@)]
  /\ UNCHANGED <<subscribers, done, cancelled, sent, bcast, owed, dropped>>

\* The client gets the entry; or the stream is broken and the call will return.
SendToClient(s) ==
  /\ handler[s].at = "sending" /\ s \notin cancelled
  /\ handler' = [handler EXCEPT ![s].at = "reading"]
  /\ UNCHANGED <<subscribers, done, chan, cancelled, sent, bcast, owed, dropped>>

SendFails(s) ==
  /\ handler[s].at = "sending"
  /\ handler' = [handler EXCEPT ![s].at = "leaving"]
  /\ cancelled' = cancelled \cup {s}
  /\ UNCHANGED <<subscribers, done, chan, sent, bcast, owed, dropped>>

\* The client ends the stream.
Cancel(s) ==
  /\ handler[s].at \in {"reading", "sending"} /\ s \notin cancelled
  /\ cancelled' = cancelled \cup {s}
  /\ UNCHANGED <<subscribers, done, chan, handler, sent, bcast, owed, dropped>>

ContextDone(s) ==
  /\ handler[s].at = "reading" /\ s \in cancelled
  /\ handler' = [handler EXCEPT ![s].at = "leaving"]
  /\ UNCHANGED <<subscribers, done, chan, cancelled, sent, bcast, owed, dropped>>

\* The call has returned; what it was owed and given no longer matters.
Forget(s) ==
  /\ handler' = [handler EXCEPT ![s] = [at |-> "ended", out |-> <<>>]]
  /\ owed' = [owed EXCEPT ![s] = {}] /\ dropped' = [dropped EXCEPT ![s] = {}]

\* The array of list q once the removal of s has moved its later elements one place
\* down.
Shifted(q, s) ==
  [k \in 1 .. Len(q) |-> IF k < Len(q) /\ s \in Elements(SubSeq(q, 1, k)) THEN q[k + 1] ELSE q[k]]

\* Faulty variant: the broadcasts work on the list itself instead of a copy.
UnsubscribeShared(s) ==
  /\ handler[s].at = "leaving"
  /\ Forget(s)
  /\ done' = done \cup {s}
  /\ subscribers' = SelectSeq(subscribers, LAMBDA x : x # s)
  /\ bcast' = [b \in Broadcasters |->
                 [bcast[b] EXCEPT !.list = Shifted(@, s)]]
  /\ UNCHANGED <<chan, cancelled, sent>>

\* Faulty variant: the subscriber stays on the list.
UnsubscribeStays(s) ==
  /\ handler[s].at = "leaving"
  /\ Forget(s)
  /\ done' = done \cup {s}
  /\ UNCHANGED <<subscribers, chan, cancelled, sent, bcast>>

\* List q without its i-th element.
Without(q, i) == SubSeq(q, 1, i - 1) \o SubSeq(q, i + 1, Len(q))

\* The first subscriber with the channel of this stream is closed and taken off the list.
UnsubscribeProvisionLogs(s) ==
  /\ handler[s].at = "leaving"
  /\ Forget(s)
  /\ done' = done \cup {s}
  /\ \E i \in DOMAIN subscribers :
       /\ subscribers[i] = s /\ \A j \in 1 .. i - 1 : subscribers[j] # s
       /\ subscribers' = Without(subscribers, i)
  /\ UNCHANGED <<chan, cancelled, sent, bcast>>

BroadcasterStep(b) == Check(b) \/ Send(b) \/ BroadcastReturns(b)

\* What the call does by itself; whether and when the client takes an entry is not up
\* to it, but a send on a stream that has ended does return.
HandlerStep(s) ==
  \/ Receive(s) \/ SendToClient(s) \/ ContextDone(s) \/ UnsubscribeProvisionLogs(s)
  \/ s \in cancelled /\ SendFails(s)

LogsNext ==
  \/ \E b \in Broadcasters : Broadcast(b) \/ BroadcasterStep(b)
  \/ \E s \in Streams : SubscribeProvisionLogs(s) \/ HandlerStep(s) \/ SendFails(s) \/ Cancel(s)

\* A goroutine that can go on does; a client need not read what it is sent, so that
\* SendToClient of a stream that is not ended need never happen.
LogsSpec ==
  /\ LogsInit /\ [][LogsNext]_logsVars
  /\ \A b \in Broadcasters : WF_logsVars(BroadcasterStep(b))
  /\ \A s \in Streams :
       WF_logsVars(ContextDone(s) \/ UnsubscribeProvisionLogs(s) \/ (s \in cancelled /\ SendFails(s)))

-----------------------------------------------------------------------------
(* Properties.                                                               *)

\* Everything that has reached a subscriber, in the order it came.
Reached(s) == handler[s].out \o chan[s]

\* A subscriber gets the entries of one broadcaster in the order they were broadcast
\* and none of them twice, whatever joins and leaves during a broadcast.
LogsInOrder ==
  \A s \in Streams : \A i, j \in DOMAIN Reached(s) :
    i < j /\ Reached(s)[i][1] = Reached(s)[j][1] => Reached(s)[i][2] < Reached(s)[j][2]

\* What the broadcaster of e has still to do for subscriber s.
ToCome(e, s) ==
  LET b == bcast[e[1]] IN b.at # "idle" /\ b.n = e[2] /\ \E i \in b.pos .. Len(b.list) : b.list[i] = s

\* No entry is lost in silence: one broadcast while a stream was subscribed has
\* reached it, is about to, or was dropped because its channel was full, unless the
\* stream has left; another one that leaves takes none with it.
NoSilentLoss ==
  \A s \in Streams \ done : \A e \in owed[s] :
    e \in Elements(Reached(s)) \/ e \in dropped[s] \/ ToCome(e, s)

\* The list holds the open streams, each once, and nothing else: a stream that has
\* returned, however it ended, is not kept and gets no later broadcast.
ListIsOpenStreams ==
  /\ Elements(subscribers) = {s \in Streams : handler[s].at \in {"reading", "sending", "leaving"}}
  /\ \A i, j \in DOMAIN subscribers : subscribers[i] = subscribers[j] => i = j
  /\ Elements(subscribers) \cap done = {}

LogsInv == LogsTypeOK /\ ListIsOpenStreams

\* A broadcast ends, whether or not anybody reads: a client that hangs cannot hold up
\* the provisioning.
BroadcastEnds == \A b \in Broadcasters : bcast[b].at # "idle" ~> bcast[b].at = "idle"

=============================================================================
