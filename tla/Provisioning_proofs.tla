------------------------- MODULE Provisioning_proofs -------------------------
(***************************************************************************)
(* Proofs about the provisioning of devnets: ProvisionLogs for every set   *)
(* of streams and broadcasters and every size of the channels, and         *)
(* DevnetLifecycle for every number of workers, nodes, subnets and stages  *)
(* and all bounds.                                                         *)
(***************************************************************************)
EXTENDS ProvisionLogs, DevnetLifecycle, TLAPS

-----------------------------------------------------------------------------
(* The logs.                                                                *)

\* Where a broadcast stands: its entry has a number that was given out, its next
\* subscriber is on its copy of the list, and that copy names nobody twice.
BroadcastPlaces ==
  \A b \in Broadcasters :
    /\ bcast[b].pos >= 1 /\ bcast[b].n <= sent
    /\ bcast[b].at # "idle" => bcast[b].n >= 1
    /\ bcast[b].at = "send" => bcast[b].pos <= Len(bcast[b].list)
    /\ \A i, j \in DOMAIN bcast[b].list : bcast[b].list[i] = bcast[b].list[j] => i = j

\* The done channel of a subscriber is closed exactly when its call has returned.
DoneIsEnded == \A s \in Streams : s \in done <=> handler[s].at = "ended"

\* The broadcast of b has still to deal with subscriber s.
Coming(b, s) ==
  bcast[b].at # "idle" /\ \E i \in bcast[b].pos .. Len(bcast[b].list) : bcast[b].list[i] = s

\* What has reached a subscriber is not newer than the last entry of its broadcaster,
\* and older than one that is still to come.
NumbersPast ==
  \A s \in Streams : \A e \in Elements(Reached(s)) :
    /\ e[2] <= bcast[e[1]].n
    /\ Coming(e[1], s) => e[2] < bcast[e[1]].n

LogsCore == LogsInv /\ BroadcastPlaces /\ DoneIsEnded

\* The members of a list with one more element.
LEMMA ElementsOfAppend ==
  ASSUME NEW S, NEW q \in Seq(S), NEW x \in S
  PROVE  Elements(Append(q, x)) = Elements(q) \cup {x}
<1>1. /\ Append(q, x) \in Seq(S) /\ DOMAIN Append(q, x) = 1 .. Len(q) + 1
      /\ DOMAIN q = 1 .. Len(q) /\ Len(q) \in Nat
  OBVIOUS
<1>2. \A i \in 1 .. Len(q) : Append(q, x)[i] = q[i]
  OBVIOUS
<1>3. Append(q, x)[Len(q) + 1] = x
  OBVIOUS
<1>. QED
  BY <1>1, <1>2, <1>3 DEF Elements

\* A list without one of its elements: what is left, in the order it had.
LEMMA WithoutElement ==
  ASSUME NEW S, NEW q \in Seq(S), NEW i \in DOMAIN q
  PROVE  /\ Without(q, i) \in Seq(S) /\ Len(Without(q, i)) = Len(q) - 1
         /\ \A j \in DOMAIN Without(q, i) :
              Without(q, i)[j] = IF j < i THEN q[j] ELSE q[j + 1]
<1>1. Len(q) \in Nat /\ DOMAIN q = 1 .. Len(q) /\ i \in 1 .. Len(q)
  OBVIOUS
<1>2. /\ SubSeq(q, 1, i - 1) \in Seq(S) /\ Len(SubSeq(q, 1, i - 1)) = i - 1
      /\ \A j \in 1 .. i - 1 : SubSeq(q, 1, i - 1)[j] = q[j]
  BY <1>1
<1>3. /\ SubSeq(q, i + 1, Len(q)) \in Seq(S) /\ Len(SubSeq(q, i + 1, Len(q))) = Len(q) - i
      /\ \A j \in 1 .. Len(q) - i : SubSeq(q, i + 1, Len(q))[j] = q[i + j]
  BY <1>1
<1>4. ASSUME NEW a \in Seq(S), NEW b \in Seq(S)
      PROVE  /\ a \o b \in Seq(S) /\ Len(a \o b) = Len(a) + Len(b) /\ Len(a) \in Nat /\ Len(b) \in Nat
             /\ \A j \in 1 .. Len(a) + Len(b) : (a \o b)[j] = IF j <= Len(a) THEN a[j] ELSE b[j - Len(a)]
  OBVIOUS
<1>5. PICK a \in Seq(S), b \in Seq(S) :
        /\ Without(q, i) = a \o b /\ Len(a) = i - 1 /\ Len(b) = Len(q) - i
        /\ \A j \in 1 .. i - 1 : a[j] = q[j]
        /\ \A j \in 1 .. Len(q) - i : b[j] = q[i + j]
  <2>. WITNESS SubSeq(q, 1, i - 1) \in Seq(S), SubSeq(q, i + 1, Len(q)) \in Seq(S)
  <2>. QED
    BY <1>2, <1>3 DEF Without
<1>7. a \o b \in Seq(S) /\ Len(a \o b) = Len(q) - 1 /\ DOMAIN (a \o b) = 1 .. Len(q) - 1
  <2>1. Len(a \o b) = (i - 1) + (Len(q) - i)
    BY <1>4, <1>5
  <2>2. (i - 1) + (Len(q) - i) = Len(q) - 1
    BY <1>1
  <2>3. a \o b \in Seq(S)
    BY <1>4
  <2>. QED
    BY <2>1, <2>2, <2>3
<1>8. ASSUME NEW j \in 1 .. Len(q) - 1
      PROVE  (a \o b)[j] = IF j < i THEN q[j] ELSE q[j + 1]
  <2>1. (a \o b)[j] = IF j <= i - 1 THEN a[j] ELSE b[j - (i - 1)]
    BY <1>1, <1>4, <1>5
  <2>2. CASE j < i
    BY <1>1, <1>5, <2>1, <2>2
  <2>3. CASE ~(j < i)
    <3>1. j - (i - 1) \in 1 .. Len(q) - i /\ i + (j - (i - 1)) = j + 1
      BY <1>1, <2>3
    <3>. QED
      BY <1>5, <2>1, <2>3, <3>1
  <2>. QED
    BY <2>2, <2>3
<1>. QED
  BY <1>5, <1>7, <1>8

\* In a list that names nobody twice, one element less is one name less.
LEMMA WithoutName ==
  ASSUME NEW S, NEW q \in Seq(S), NEW i \in DOMAIN q,
         \A j, k \in DOMAIN q : q[j] = q[k] => j = k
  PROVE  /\ Without(q, i) \in Seq(S)
         /\ Elements(Without(q, i)) = Elements(q) \ {q[i]}
         /\ \A j, k \in DOMAIN Without(q, i) : Without(q, i)[j] = Without(q, i)[k] => j = k
<1>1. Len(q) \in Nat /\ DOMAIN q = 1 .. Len(q) /\ i \in 1 .. Len(q)
  OBVIOUS
<1>2. /\ Without(q, i) \in Seq(S) /\ DOMAIN Without(q, i) = 1 .. Len(q) - 1
      /\ \A j \in 1 .. Len(q) - 1 : Without(q, i)[j] = IF j < i THEN q[j] ELSE q[j + 1]
  BY <1>1, WithoutElement
<1>3. ASSUME NEW x \in Elements(Without(q, i)) PROVE x \in Elements(q) \ {q[i]}
  <2>1. PICK j \in 1 .. Len(q) - 1 : x = Without(q, i)[j]
    BY <1>2, <1>3 DEF Elements
  <2>2. CASE j < i
    BY <1>1, <1>2, <2>1, <2>2 DEF Elements
  <2>3. CASE ~(j < i)
    <3>1. j + 1 \in 1 .. Len(q) /\ j + 1 # i /\ x = q[j + 1]
      BY <1>1, <1>2, <2>1, <2>3
    <3>. QED
      BY <1>1, <3>1 DEF Elements
  <2>. QED
    BY <2>2, <2>3
<1>4. ASSUME NEW x \in Elements(q) \ {q[i]} PROVE x \in Elements(Without(q, i))
  <2>1. PICK j \in 1 .. Len(q) : x = q[j] /\ j # i
    BY <1>1, <1>4 DEF Elements
  <2>2. CASE j < i
    <3>1. j \in 1 .. Len(q) - 1 /\ Without(q, i)[j] = x
      BY <1>1, <1>2, <2>1, <2>2
    <3>. QED
      BY <1>2, <3>1 DEF Elements
  <2>3. CASE ~(j < i)
    <3>1. j - 1 \in 1 .. Len(q) - 1 /\ Without(q, i)[j - 1] = x
      BY <1>1, <1>2, <2>1, <2>3
    <3>. QED
      BY <1>2, <3>1 DEF Elements
  <2>. QED
    BY <2>1, <2>2, <2>3
<1>5. ASSUME NEW j \in 1 .. Len(q) - 1, NEW k \in 1 .. Len(q) - 1, Without(q, i)[j] = Without(q, i)[k]
      PROVE  j = k
  <2>. DEFINE f(n) == IF n < i THEN n ELSE n + 1
  <2>1. Without(q, i)[j] = q[f(j)] /\ Without(q, i)[k] = q[f(k)]
    BY <1>2
  <2>2. f(j) \in 1 .. Len(q) /\ f(k) \in 1 .. Len(q)
    BY <1>1
  <2>3. f(j) = f(k)
    BY <1>1, <1>5, <2>1, <2>2
  <2>. QED
    BY <1>1, <2>3
<1>. QED
  BY <1>2, <1>3, <1>4, <1>5

\* An entry that is taken from the channel stays where it was in what has reached the
\* subscriber; one that is sent comes last.
LEMMA ReachedMoves ==
  ASSUME NEW S, NEW out \in Seq(S), NEW ch \in Seq(S), NEW e \in S
  PROVE  /\ ch # <<>> => Append(out, Head(ch)) \o Tail(ch) = out \o ch
         /\ out \o Append(ch, e) = Append(out \o ch, e)
<1>1. ASSUME ch # <<>> PROVE Append(out, Head(ch)) \o Tail(ch) = out \o ch
  <2>1. /\ Tail(ch) \in Seq(S) /\ Len(Tail(ch)) = Len(ch) - 1 /\ Head(ch) = ch[1] /\ Len(ch) \in Nat \ {0}
        /\ \A k \in 1 .. Len(ch) - 1 : Tail(ch)[k] = ch[k + 1]
    BY <1>1
  <2>2. /\ Append(out, Head(ch)) \in Seq(S) /\ Len(Append(out, Head(ch))) = Len(out) + 1
        /\ Append(out, Head(ch))[Len(out) + 1] = ch[1] /\ Len(out) \in Nat
        /\ \A k \in 1 .. Len(out) : Append(out, Head(ch))[k] = out[k]
    BY <1>1, <2>1
  <2>3. /\ Append(out, Head(ch)) \o Tail(ch) \in Seq(S) /\ out \o ch \in Seq(S)
        /\ Len(Append(out, Head(ch)) \o Tail(ch)) = Len(out) + Len(ch) /\ Len(out \o ch) = Len(out) + Len(ch)
    BY <2>1, <2>2
  <2>4. ASSUME NEW k \in 1 .. Len(out) + Len(ch)
        PROVE  (Append(out, Head(ch)) \o Tail(ch))[k] = (out \o ch)[k]
    <3>1. CASE k <= Len(out)
      BY <2>1, <2>2, <3>1
    <3>2. CASE k = Len(out) + 1
      BY <2>1, <2>2, <3>2
    <3>3. CASE k > Len(out) + 1
      BY <2>1, <2>2, <3>3
    <3>. QED
      BY <2>1, <2>2, <3>1, <3>2, <3>3
  <2>. QED
    BY <2>3, <2>4
<1>2. out \o Append(ch, e) = Append(out \o ch, e)
  <2>1. /\ out \o Append(ch, e) \in Seq(S) /\ Append(out \o ch, e) \in Seq(S)
        /\ Len(out \o Append(ch, e)) = Len(out) + Len(ch) + 1 /\ Len(out) \in Nat /\ Len(ch) \in Nat
        /\ Len(Append(out \o ch, e)) = Len(out) + Len(ch) + 1
    OBVIOUS
  <2>2. ASSUME NEW k \in 1 .. Len(out) + Len(ch) + 1
        PROVE  (out \o Append(ch, e))[k] = Append(out \o ch, e)[k]
    BY <2>1
  <2>. QED
    BY <2>1, <2>2
<1>. QED
  BY <1>1, <1>2

\* A broadcast with other values for its place, its list and its position.
LEMMA BroadcastWith ==
  ASSUME NEW r \in Broadcasts, NEW a \in {"idle", "check", "send"}, NEW l \in Seq(Streams), NEW p \in Nat
  PROVE  /\ [r EXCEPT !.at = a, !.pos = p] \in Broadcasts
         /\ [r EXCEPT !.at = a, !.list = l, !.pos = p] \in Broadcasts
<1>1. [r EXCEPT !.at = a, !.pos = p] \in Broadcasts
  BY DEF Broadcasts
<1>2. [r EXCEPT !.at = a, !.list = l, !.pos = p] \in Broadcasts
  BY DEF Broadcasts
<1>. QED
  BY <1>1, <1>2

\* The step to the next subscriber, and where a broadcast may stand.
LEMMA NextSubscriberEffect ==
  ASSUME LogsTypeOK, BroadcastPlaces, NEW b \in Broadcasters, NextSubscriber(b)
  PROVE  /\ bcast' \in [Broadcasters -> Broadcasts]
         /\ \A v \in Broadcasters \ {b} : bcast'[v] = bcast[v]
         /\ bcast'[b].at = "check" /\ bcast'[b].n = bcast[b].n
         /\ bcast'[b].list = bcast[b].list /\ bcast'[b].pos = bcast[b].pos + 1
<1>1. bcast[b] \in Broadcasts /\ bcast[b].pos \in Nat
  BY DEF LogsTypeOK, Broadcasts
<1>2. bcast' = [bcast EXCEPT ![b] = [bcast[b] EXCEPT !.at = "check", !.pos = bcast[b].pos + 1]]
  BY DEF NextSubscriber, LogsTypeOK
<1>3. [bcast[b] EXCEPT !.at = "check", !.pos = bcast[b].pos + 1] \in Broadcasts
  <2>1. \A l \in Seq(Streams), p \in Nat : [bcast[b] EXCEPT !.at = "check", !.pos = p] \in Broadcasts
    BY <1>1, BroadcastWith
  <2>2. bcast[b].pos + 1 \in Nat /\ bcast[b].list \in Seq(Streams)
    BY <1>1 DEF Broadcasts
  <2>. QED
    BY <2>1, <2>2
<1>4. /\ bcast' \in [Broadcasters -> Broadcasts] /\ \A v \in Broadcasters \ {b} : bcast'[v] = bcast[v]
      /\ bcast'[b] = [bcast[b] EXCEPT !.at = "check", !.pos = bcast[b].pos + 1]
  BY <1>2, <1>3 DEF LogsTypeOK
<1>. QED
  BY <1>1, <1>4 DEF Broadcasts

\* The entry under way is one of the entries.
LEMMA EntryUnderWay ==
  ASSUME LogsTypeOK, BroadcastPlaces, NEW b \in Broadcasters, bcast[b].at # "idle"
  PROVE  <<b, bcast[b].n>> \in Entries /\ bcast[b].n \in 1 .. MaxEntries
<1>1. bcast[b] \in Broadcasts /\ bcast[b].n >= 1
  BY DEF LogsTypeOK, BroadcastPlaces
<1>. QED
  BY <1>1, SizesAssumption DEF Broadcasts, Entries

\* The subscriber that a send is for.
LEMMA SendTarget ==
  ASSUME LogsTypeOK, BroadcastPlaces, NEW b \in Broadcasters, bcast[b].at = "send"
  PROVE  bcast[b].pos \in DOMAIN bcast[b].list /\ bcast[b].list[bcast[b].pos] \in Streams
<1>1. /\ bcast[b].list \in Seq(Streams) /\ bcast[b].pos \in Nat
      /\ bcast[b].pos >= 1 /\ bcast[b].pos <= Len(bcast[b].list)
  BY DEF LogsTypeOK, BroadcastPlaces, Broadcasts
<1>. QED
  BY <1>1

\* A send: the entry comes last in one channel with room for it, or nothing is sent.
LEMMA SendEffect ==
  ASSUME LogsTypeOK, BroadcastPlaces, NEW b \in Broadcasters, Send(b),
         NEW t, t = bcast[b].list[bcast[b].pos]
  PROVE  \/ /\ Len(chan[t]) < Buffer /\ chan'[t] = Append(chan[t], <<b, bcast[b].n>>)
            /\ chan' = [chan EXCEPT ![t] = Append(chan[t], <<b, bcast[b].n>>)] /\ dropped' = dropped
         \/ t \in done /\ chan' = chan /\ dropped' = dropped
         \/ /\ dropped' = [dropped EXCEPT ![t] = dropped[t] \cup {<<b, bcast[b].n>>}]
            /\ chan' = chan
<1>1. t \in Streams
  BY SendTarget DEF Send
<1>. QED
  BY <1>1 DEF Send, LogsTypeOK

LEMMA LogsTypeStep ==
  ASSUME LogsTypeOK, BroadcastPlaces, LogsNext \/ UNCHANGED logsVars
  PROVE  LogsTypeOK'
<1>. USE SizesAssumption
<1>1. ASSUME NEW b \in Broadcasters, Broadcast(b) PROVE LogsTypeOK'
  <2>1. sent' \in 0 .. MaxEntries /\ sent + 1 \in 1 .. MaxEntries
    BY <1>1 DEF Broadcast, LogsTypeOK
  <2>2. [at |-> "check", n |-> sent + 1, list |-> subscribers, pos |-> 1] \in Broadcasts
    BY <2>1 DEF LogsTypeOK, Broadcasts
  <2>3. bcast' \in [Broadcasters -> Broadcasts]
    BY <1>1, <2>2 DEF Broadcast, LogsTypeOK
  <2>4. <<b, sent + 1>> \in Entries
    BY <2>1 DEF Entries
  <2>5. owed' \in [Streams -> SUBSET Entries]
    BY <1>1, <2>4 DEF Broadcast, LogsTypeOK
  <2>. QED
    BY <1>1, <2>1, <2>3, <2>5 DEF Broadcast, LogsTypeOK
<1>2. ASSUME NEW b \in Broadcasters, Check(b) PROVE LogsTypeOK'
  <2>1. NextSubscriber(b) \/ bcast' = [bcast EXCEPT ![b].at = "send"]
    BY <1>2 DEF Check
  <2>2. bcast' \in [Broadcasters -> Broadcasts]
    <3>1. CASE NextSubscriber(b)
      BY <3>1, NextSubscriberEffect
    <3>2. CASE bcast' = [bcast EXCEPT ![b].at = "send"]
      BY <3>2 DEF LogsTypeOK, Broadcasts
    <3>. QED
      BY <2>1, <3>1, <3>2
  <2>. QED
    BY <1>2, <2>2 DEF Check, LogsTypeOK
<1>3. ASSUME NEW b \in Broadcasters, Send(b) PROVE LogsTypeOK'
  <2>. DEFINE t == bcast[b].list[bcast[b].pos]
  <2>1. bcast' \in [Broadcasters -> Broadcasts]
    BY <1>3, NextSubscriberEffect DEF Send
  <2>2. t \in Streams /\ <<b, bcast[b].n>> \in Entries
    BY <1>3, SendTarget, EntryUnderWay DEF Send
  <2>3. chan[t] \in Seq(Entries) /\ dropped[t] \in SUBSET Entries
    BY <2>2 DEF LogsTypeOK
  <2>4. Append(chan[t], <<b, bcast[b].n>>) \in Seq(Entries) /\ Len(Append(chan[t], <<b, bcast[b].n>>)) = Len(chan[t]) + 1
    BY <2>2, <2>3
  <2>5. Len(chan[t]) < Buffer => Len(Append(chan[t], <<b, bcast[b].n>>)) <= Buffer
    BY <2>3, <2>4
  <2>6. chan' \in [Streams -> Seq(Entries)] /\ \A s \in Streams : Len(chan'[s]) <= Buffer
    <3>. HIDE DEF t
    <3>1. \/ Len(chan[t]) < Buffer /\ chan' = [chan EXCEPT ![t] = Append(chan[t], <<b, bcast[b].n>>)]
          \/ chan' = chan
      BY <1>3, SendEffect DEF t
    <3>. QED
      BY <2>2, <2>4, <2>5, <3>1 DEF LogsTypeOK
  <2>7. dropped' \in [Streams -> SUBSET Entries]
    <3>. HIDE DEF t
    <3>1. dropped' = [dropped EXCEPT ![t] = dropped[t] \cup {<<b, bcast[b].n>>}] \/ dropped' = dropped
      BY <1>3, SendEffect DEF t
    <3>. QED
      BY <2>2, <2>3, <3>1 DEF LogsTypeOK
  <2>. QED
    BY <1>3, <2>1, <2>6, <2>7 DEF Send, LogsTypeOK
<1>4. ASSUME NEW b \in Broadcasters, BroadcastReturns(b) PROVE LogsTypeOK'
  <2>1. bcast' \in [Broadcasters -> Broadcasts]
    <3>1. bcast[b] \in Broadcasts
      BY DEF LogsTypeOK
    <3>2. <<>> \in Seq(Streams)
      OBVIOUS
    <3>3. [bcast[b] EXCEPT !.at = "idle", !.list = <<>>, !.pos = 1] \in Broadcasts
      BY <3>1, <3>2, BroadcastWith
    <3>5. bcast' = [bcast EXCEPT ![b] = [bcast[b] EXCEPT !.at = "idle", !.list = <<>>, !.pos = 1]]
      BY <1>4 DEF BroadcastReturns, LogsTypeOK
    <3>. QED
      BY <3>3, <3>5 DEF LogsTypeOK
  <2>. QED
    BY <1>4, <2>1 DEF BroadcastReturns, LogsTypeOK
<1>5. ASSUME NEW s \in Streams, SubscribeProvisionLogs(s) PROVE LogsTypeOK'
  <2>1. subscribers' \in Seq(Streams) /\ handler' \in [Streams -> Handlers]
    <3>1. handler[s] \in Handlers /\ subscribers \in Seq(Streams)
      BY DEF LogsTypeOK
    <3>2. Append(subscribers, s) \in Seq(Streams)
      BY <3>1
    <3>3. [handler[s] EXCEPT !.at = "reading"] \in Handlers
      BY <3>1 DEF Handlers
    <3>. QED
      BY <1>5, <3>2, <3>3 DEF SubscribeProvisionLogs, LogsTypeOK
  <2>. QED
    BY <1>5, <2>1 DEF SubscribeProvisionLogs, LogsTypeOK
<1>6. ASSUME NEW s \in Streams, Receive(s) PROVE LogsTypeOK'
  <2>1. /\ chan[s] \in Seq(Entries) /\ chan[s] # <<>> /\ handler[s].out \in Seq(Entries)
        /\ handler[s] \in Handlers /\ Len(chan[s]) <= Buffer
    BY <1>6 DEF Receive, LogsTypeOK, Handlers
  <2>2. /\ Head(chan[s]) \in Entries /\ Tail(chan[s]) \in Seq(Entries) /\ Len(Tail(chan[s])) <= Buffer
    BY <2>1
  <2>3. Append(handler[s].out, Head(chan[s])) \in Seq(Entries)
    BY <2>1, <2>2
  <2>4. [handler[s] EXCEPT !.at = "sending", !.out = Append(handler[s].out, Head(chan[s]))] \in Handlers
    BY <2>1, <2>3 DEF Handlers
  <2>5. handler' = [handler EXCEPT ![s] = [handler[s] EXCEPT !.at = "sending", !.out = Append(handler[s].out, Head(chan[s]))]]
    BY <1>6 DEF Receive, LogsTypeOK
  <2>6. handler' \in [Streams -> Handlers]
    BY <2>4, <2>5 DEF LogsTypeOK
  <2>7. chan' \in [Streams -> Seq(Entries)] /\ \A t \in Streams : Len(chan'[t]) <= Buffer
    BY <1>6, <2>2 DEF Receive, LogsTypeOK
  <2>. QED
    BY <1>6, <2>6, <2>7 DEF Receive, LogsTypeOK
<1>7. ASSUME NEW s \in Streams, SendToClient(s) \/ SendFails(s) \/ Cancel(s) \/ ContextDone(s) PROVE LogsTypeOK'
  <2>1. handler' \in [Streams -> Handlers] /\ cancelled' \subseteq Streams
    BY <1>7 DEF SendToClient, SendFails, Cancel, ContextDone, LogsTypeOK, Handlers
  <2>. QED
    BY <1>7, <2>1 DEF SendToClient, SendFails, Cancel, ContextDone, LogsTypeOK
<1>8. ASSUME NEW s \in Streams, UnsubscribeProvisionLogs(s) PROVE LogsTypeOK'
  <2>1. subscribers' \in Seq(Streams)
    BY <1>8, WithoutElement DEF UnsubscribeProvisionLogs, LogsTypeOK
  <2>2. [at |-> "ended", out |-> <<>>] \in Handlers
    BY DEF Handlers
  <2>3. handler' \in [Streams -> Handlers] /\ owed' \in [Streams -> SUBSET Entries] /\ dropped' \in [Streams -> SUBSET Entries]
    BY <1>8, <2>2 DEF UnsubscribeProvisionLogs, Forget, LogsTypeOK
  <2>. QED
    BY <1>8, <2>1, <2>3 DEF UnsubscribeProvisionLogs, LogsTypeOK
<1>9. CASE UNCHANGED logsVars
  BY <1>9 DEF logsVars, LogsTypeOK
<1>. QED
  BY <1>1, <1>2, <1>3, <1>4, <1>5, <1>6, <1>7, <1>8, <1>9 DEF LogsNext, BroadcasterStep, HandlerStep

\* The core holds at first and is kept.
LEMMA LogsInitCore == LogsInit => LogsCore
<1>. SUFFICES ASSUME LogsInit PROVE LogsCore
  OBVIOUS
<1>1. LogsTypeOK
  <2>1. [at |-> "new", out |-> <<>>] \in Handlers
    BY DEF Handlers
  <2>2. [at |-> "idle", n |-> 0, list |-> <<>>, pos |-> 1] \in Broadcasts
    BY SizesAssumption DEF Broadcasts
  <2>3. /\ handler \in [Streams -> Handlers] /\ bcast \in [Broadcasters -> Broadcasts]
        /\ chan \in [Streams -> Seq(Entries)] /\ \A s \in Streams : Len(chan[s]) <= Buffer
    BY <2>1, <2>2, SizesAssumption DEF LogsInit
  <2>. QED
    BY <2>3, SizesAssumption DEF LogsInit, LogsTypeOK
<1>2. ListIsOpenStreams
  BY DEF LogsInit, ListIsOpenStreams, Elements
<1>3. BroadcastPlaces /\ DoneIsEnded
  BY DEF LogsInit, BroadcastPlaces, DoneIsEnded
<1>. QED
  BY <1>1, <1>2, <1>3 DEF LogsCore, LogsInv

LEMMA LogsCoreStep ==
  ASSUME LogsCore, LogsNext \/ UNCHANGED logsVars
  PROVE  LogsCore'
<1>0. LogsTypeOK /\ ListIsOpenStreams /\ BroadcastPlaces /\ DoneIsEnded /\ LogsTypeOK'
  BY LogsTypeStep DEF LogsCore, LogsInv
<1>. SUFFICES ListIsOpenStreams' /\ BroadcastPlaces' /\ DoneIsEnded'
  BY <1>0 DEF LogsCore, LogsInv
<1>1. ASSUME NEW b \in Broadcasters, Broadcast(b) PROVE ListIsOpenStreams' /\ BroadcastPlaces' /\ DoneIsEnded'
  <2>1. UNCHANGED <<subscribers, done, handler>>
    BY <1>1 DEF Broadcast
  <2>2. /\ sent \in Nat /\ sent' = sent + 1 /\ \A v \in Broadcasters \ {b} : bcast'[v] = bcast[v]
        /\ bcast'[b] = [at |-> "check", n |-> sent + 1, list |-> subscribers, pos |-> 1]
    BY <1>0, <1>1, SizesAssumption DEF Broadcast, LogsTypeOK
  <2>3. \A v \in Broadcasters : bcast[v].n \in Nat
    BY <1>0, SizesAssumption DEF LogsTypeOK, Broadcasts
  <2>4. BroadcastPlaces'
    BY <1>0, <2>1, <2>2, <2>3 DEF BroadcastPlaces, ListIsOpenStreams
  <2>. QED
    BY <1>0, <2>1, <2>4 DEF ListIsOpenStreams, DoneIsEnded
<1>2. ASSUME NEW b \in Broadcasters, BroadcasterStep(b) PROVE ListIsOpenStreams' /\ BroadcastPlaces' /\ DoneIsEnded'
  <2>1. UNCHANGED <<subscribers, done, handler, sent>>
    BY <1>2 DEF BroadcasterStep, Check, Send, BroadcastReturns
  <2>2. bcast[b] \in Broadcasts /\ bcast[b].pos \in Nat /\ bcast[b].list \in Seq(Streams) /\ Len(bcast[b].list) \in Nat
    BY <1>0 DEF LogsTypeOK, Broadcasts
  <2>3. CASE NextSubscriber(b) /\ bcast[b].at # "idle"
    BY <1>0, <2>1, <2>2, <2>3, NextSubscriberEffect DEF BroadcastPlaces, ListIsOpenStreams, DoneIsEnded
  <2>4. CASE bcast' = [bcast EXCEPT ![b].at = "send"] /\ bcast[b].at = "check" /\ bcast[b].pos <= Len(bcast[b].list)
    <3>1. /\ bcast'[b].at = "send" /\ bcast'[b].n = bcast[b].n /\ bcast'[b].list = bcast[b].list
          /\ bcast'[b].pos = bcast[b].pos /\ \A v \in Broadcasters \ {b} : bcast'[v] = bcast[v]
      BY <1>0, <2>2, <2>4 DEF LogsTypeOK, Broadcasts
    <3>. QED
      BY <1>0, <2>1, <2>4, <3>1 DEF BroadcastPlaces, ListIsOpenStreams, DoneIsEnded
  <2>5. CASE BroadcastReturns(b)
    <3>1. /\ bcast'[b].at = "idle" /\ bcast'[b].n = bcast[b].n /\ bcast'[b].list = <<>>
          /\ bcast'[b].pos = 1 /\ \A v \in Broadcasters \ {b} : bcast'[v] = bcast[v]
      BY <1>0, <2>2, <2>5 DEF BroadcastReturns, LogsTypeOK, Broadcasts
    <3>. QED
      BY <1>0, <2>1, <3>1 DEF BroadcastPlaces, ListIsOpenStreams, DoneIsEnded
  <2>. QED
    BY <1>2, <2>3, <2>4, <2>5 DEF BroadcasterStep, Check, Send
<1>3. ASSUME NEW s \in Streams, SubscribeProvisionLogs(s) PROVE ListIsOpenStreams' /\ BroadcastPlaces' /\ DoneIsEnded'
  <2>1. /\ handler[s].at = "new" /\ handler'[s].at = "reading" /\ \A t \in Streams \ {s} : handler'[t] = handler[t]
        /\ subscribers' = Append(subscribers, s) /\ UNCHANGED <<done, bcast, sent>>
    BY <1>0, <1>3 DEF SubscribeProvisionLogs, LogsTypeOK, Handlers
  <2>2. Elements(subscribers') = Elements(subscribers) \cup {s}
    BY <1>0, <2>1, ElementsOfAppend DEF LogsTypeOK
  <2>3. s \notin Elements(subscribers) /\ s \notin done
    BY <1>0, <2>1 DEF ListIsOpenStreams, DoneIsEnded
  <2>4. \A i, j \in DOMAIN subscribers' : subscribers'[i] = subscribers'[j] => i = j
    <3>1. /\ DOMAIN subscribers' = 1 .. Len(subscribers) + 1 /\ DOMAIN subscribers = 1 .. Len(subscribers)
          /\ Len(subscribers) \in Nat /\ subscribers'[Len(subscribers) + 1] = s
          /\ \A i \in 1 .. Len(subscribers) : subscribers'[i] = subscribers[i]
      BY <1>0, <2>1 DEF LogsTypeOK
    <3>2. \A i \in 1 .. Len(subscribers) : subscribers[i] # s
      BY <2>3, <3>1 DEF Elements
    <3>. QED
      BY <1>0, <3>1, <3>2 DEF ListIsOpenStreams
  <2>5. ListIsOpenStreams'
    BY <1>0, <2>1, <2>2, <2>3, <2>4 DEF ListIsOpenStreams
  <2>. QED
    BY <1>0, <2>1, <2>5 DEF BroadcastPlaces, DoneIsEnded
<1>4. ASSUME NEW s \in Streams, Receive(s) \/ SendToClient(s) \/ SendFails(s) \/ Cancel(s) \/ ContextDone(s)
      PROVE  ListIsOpenStreams' /\ BroadcastPlaces' /\ DoneIsEnded'
  <2>1. /\ UNCHANGED <<subscribers, done, bcast, sent>> /\ \A t \in Streams \ {s} : handler'[t] = handler[t]
        /\ handler[s].at \in {"reading", "sending"} /\ handler'[s].at \in {"reading", "sending", "leaving"}
    BY <1>0, <1>4 DEF Receive, SendToClient, SendFails, Cancel, ContextDone, LogsTypeOK, Handlers
  <2>. QED
    BY <1>0, <2>1 DEF ListIsOpenStreams, BroadcastPlaces, DoneIsEnded
<1>5. ASSUME NEW s \in Streams, UnsubscribeProvisionLogs(s) PROVE ListIsOpenStreams' /\ BroadcastPlaces' /\ DoneIsEnded'
  <2>1. /\ handler[s].at = "leaving" /\ handler'[s].at = "ended" /\ \A t \in Streams \ {s} : handler'[t] = handler[t]
        /\ done' = done \cup {s} /\ UNCHANGED <<bcast, sent>>
    BY <1>0, <1>5 DEF UnsubscribeProvisionLogs, Forget, LogsTypeOK
  <2>2. PICK i \in DOMAIN subscribers : subscribers[i] = s /\ subscribers' = Without(subscribers, i)
    BY <1>5 DEF UnsubscribeProvisionLogs
  <2>3. /\ Elements(subscribers') = Elements(subscribers) \ {s}
        /\ \A j, k \in DOMAIN subscribers' : subscribers'[j] = subscribers'[k] => j = k
    <3>1. subscribers \in Seq(Streams) /\ \A j, k \in DOMAIN subscribers : subscribers[j] = subscribers[k] => j = k
      BY <1>0 DEF LogsTypeOK, ListIsOpenStreams
    <3>. QED
      BY <2>2, <3>1, WithoutName
  <2>4. ListIsOpenStreams'
    BY <1>0, <2>1, <2>3 DEF ListIsOpenStreams
  <2>. QED
    BY <1>0, <2>1, <2>4 DEF BroadcastPlaces, DoneIsEnded
<1>6. CASE UNCHANGED logsVars
  BY <1>0, <1>6 DEF logsVars, ListIsOpenStreams, BroadcastPlaces, DoneIsEnded
<1>. QED
  BY <1>1, <1>2, <1>3, <1>4, <1>5, <1>6 DEF LogsNext, HandlerStep

\* A list of entries in which those of one broadcaster have ascending numbers.
Ordered(q) == \A i, j \in DOMAIN q : i < j /\ q[i][1] = q[j][1] => q[i][2] < q[j][2]

LEMMA OrderedAppend ==
  ASSUME NEW q \in Seq(Entries), NEW e \in Entries, Ordered(q),
         \A x \in Elements(q) : x[1] = e[1] => x[2] < e[2]
  PROVE  Ordered(Append(q, e))
<1>1. /\ DOMAIN q = 1 .. Len(q) /\ Len(q) \in Nat /\ DOMAIN Append(q, e) = 1 .. Len(q) + 1
      /\ Append(q, e)[Len(q) + 1] = e /\ \A i \in 1 .. Len(q) : Append(q, e)[i] = q[i]
  OBVIOUS
<1>2. ASSUME NEW i \in 1 .. Len(q) + 1, NEW j \in 1 .. Len(q) + 1, i < j, Append(q, e)[i][1] = Append(q, e)[j][1]
      PROVE  Append(q, e)[i][2] < Append(q, e)[j][2]
  <2>1. i \in 1 .. Len(q) /\ Append(q, e)[i] = q[i] /\ q[i] \in Elements(q)
    BY <1>1, <1>2 DEF Elements
  <2>2. CASE j = Len(q) + 1
    BY <1>1, <1>2, <2>1, <2>2
  <2>3. CASE j # Len(q) + 1
    <3>1. j \in 1 .. Len(q) /\ Append(q, e)[j] = q[j]
      BY <1>1, <2>3
    <3>. QED
      BY <1>1, <1>2, <2>1, <3>1 DEF Ordered
  <2>. QED
    BY <2>2, <2>3
<1>. QED
  BY <1>1, <1>2 DEF Ordered

\* What is left of a list when its beginning is forgotten.
LEMMA RestOfList ==
  ASSUME NEW out \in Seq(Entries), NEW ch \in Seq(Entries)
  PROVE  /\ Elements(ch) \subseteq Elements(out \o ch)
         /\ Ordered(out \o ch) => Ordered(ch)
<1>1. /\ out \o ch \in Seq(Entries) /\ DOMAIN (out \o ch) = 1 .. Len(out) + Len(ch)
      /\ DOMAIN ch = 1 .. Len(ch) /\ Len(ch) \in Nat /\ Len(out) \in Nat
  OBVIOUS
<1>2. ASSUME NEW i \in 1 .. Len(ch)
      PROVE  Len(out) + i \in 1 .. Len(out) + Len(ch) /\ (out \o ch)[Len(out) + i] = ch[i]
  BY <1>1
<1>3. Elements(ch) \subseteq Elements(out \o ch)
  BY <1>1, <1>2 DEF Elements
<1>4. ASSUME Ordered(out \o ch), NEW i \in 1 .. Len(ch), NEW j \in 1 .. Len(ch), i < j, ch[i][1] = ch[j][1]
      PROVE  ch[i][2] < ch[j][2]
  <2>. DEFINE q == out \o ch
  <2>1. /\ Len(out) + i \in DOMAIN q /\ Len(out) + j \in DOMAIN q /\ Len(out) + i < Len(out) + j
        /\ q[Len(out) + i] = ch[i] /\ q[Len(out) + j] = ch[j]
    BY <1>1, <1>2, <1>4
  <2>. HIDE DEF q
  <2>2. q[Len(out) + i][2] < q[Len(out) + j][2]
    BY <1>4, <2>1 DEF Ordered, q
  <2>. QED
    BY <2>1, <2>2
<1>. QED
  BY <1>1, <1>3, <1>4 DEF Ordered

\* What a step does to what has reached a subscriber: a send adds its entry at the end,
\* the end of a call forgets the beginning, nothing else changes it.
LEMMA ReachedStep ==
  ASSUME LogsCore, LogsNext \/ UNCHANGED logsVars, NEW s \in Streams
  PROVE  /\ Reached(s) \in Seq(Entries)
         /\ \/ Reached(s)' = Reached(s)
            \/ \E b \in Broadcasters :
                 Send(b) /\ s = bcast[b].list[bcast[b].pos] /\ Reached(s)' = Append(Reached(s), <<b, bcast[b].n>>)
            \/ UnsubscribeProvisionLogs(s) /\ Reached(s)' = chan[s]
<1>0. LogsTypeOK /\ BroadcastPlaces
  BY DEF LogsCore, LogsInv
<1>1. chan[s] \in Seq(Entries) /\ handler[s] \in Handlers /\ handler[s].out \in Seq(Entries)
  BY <1>0 DEF LogsTypeOK, Handlers
<1>2. Reached(s) \in Seq(Entries)
  BY <1>1 DEF Reached
<1>3. ASSUME NEW b \in Broadcasters, Broadcast(b) \/ Check(b) \/ BroadcastReturns(b)
      PROVE  Reached(s)' = Reached(s)
  BY <1>3 DEF Broadcast, Check, BroadcastReturns, Reached
<1>4. ASSUME NEW b \in Broadcasters, Send(b)
      PROVE  \/ Reached(s)' = Reached(s)
             \/ s = bcast[b].list[bcast[b].pos] /\ Reached(s)' = Append(Reached(s), <<b, bcast[b].n>>)
  <2>1. PICK t : t = bcast[b].list[bcast[b].pos]
    OBVIOUS
  <2>2. t \in Streams /\ <<b, bcast[b].n>> \in Entries /\ UNCHANGED handler
    BY <1>0, <1>4, <2>1, SendTarget, EntryUnderWay DEF Send
  <2>3. \/ chan'[s] = chan[s]
        \/ t = s /\ chan'[s] = Append(chan[s], <<b, bcast[b].n>>)
    BY <1>0, <1>4, <2>1, <2>2, SendEffect DEF LogsTypeOK
  <2>4. CASE chan'[s] = chan[s]
    BY <2>2, <2>4 DEF Reached
  <2>5. CASE t = s /\ chan'[s] = Append(chan[s], <<b, bcast[b].n>>)
    <3>1. handler[s].out \o Append(chan[s], <<b, bcast[b].n>>) = Append(handler[s].out \o chan[s], <<b, bcast[b].n>>)
      BY <1>1, <2>2, ReachedMoves
    <3>2. Reached(s)' = handler[s].out \o Append(chan[s], <<b, bcast[b].n>>)
      BY <2>2, <2>5 DEF Reached
    <3>. QED
      BY <2>1, <2>5, <3>1, <3>2 DEF Reached
  <2>. QED
    BY <2>3, <2>4, <2>5
<1>5. ASSUME NEW t \in Streams, SubscribeProvisionLogs(t) \/ SendToClient(t) \/ SendFails(t) \/ Cancel(t) \/ ContextDone(t)
      PROVE  Reached(s)' = Reached(s)
  <2>1. chan' = chan /\ handler'[s].out = handler[s].out
    <3>1. /\ chan' = chan
          /\ \/ handler' = handler \/ handler' = [handler EXCEPT ![t].at = "reading"]
             \/ handler' = [handler EXCEPT ![t].at = "leaving"]
      BY <1>5 DEF SubscribeProvisionLogs, SendToClient, SendFails, Cancel, ContextDone
    <3>2. CASE handler' = handler
      BY <3>1, <3>2
    <3>3. CASE handler' = [handler EXCEPT ![t].at = "reading"]
      BY <1>0, <1>1, <3>1, <3>3 DEF LogsTypeOK, Handlers
    <3>4. CASE handler' = [handler EXCEPT ![t].at = "leaving"]
      BY <1>0, <1>1, <3>1, <3>4 DEF LogsTypeOK, Handlers
    <3>. QED
      BY <3>1, <3>2, <3>3, <3>4
  <2>. QED
    BY <2>1 DEF Reached
<1>6. ASSUME NEW t \in Streams, Receive(t)
      PROVE  Reached(s)' = Reached(s)
  <2>1. CASE t = s
    <3>1. /\ chan[s] # <<>> /\ chan'[s] = Tail(chan[s])
          /\ handler'[s].out = Append(handler[s].out, Head(chan[s]))
      BY <1>0, <1>1, <1>6, <2>1 DEF Receive, LogsTypeOK, Handlers
    <3>2. Head(chan[s]) \in Entries
      BY <1>1, <3>1
    <3>. QED
      BY <1>1, <3>1, <3>2, ReachedMoves DEF Reached
  <2>2. CASE t # s
    BY <1>0, <1>6, <2>2 DEF Receive, LogsTypeOK, Reached
  <2>. QED
    BY <2>1, <2>2
<1>7. ASSUME NEW t \in Streams, UnsubscribeProvisionLogs(t)
      PROVE  IF t = s THEN Reached(s)' = chan[s] ELSE Reached(s)' = Reached(s)
  <2>1. chan' = chan /\ handler' = [handler EXCEPT ![t] = [at |-> "ended", out |-> <<>>]]
    BY <1>7 DEF UnsubscribeProvisionLogs, Forget
  <2>2. CASE t = s
    <3>1. handler'[s].out = <<>> /\ <<>> \o chan[s] = chan[s]
      BY <1>0, <1>1, <2>1, <2>2 DEF LogsTypeOK
    <3>. QED
      BY <2>1, <2>2, <3>1 DEF Reached
  <2>3. CASE t # s
    BY <1>0, <2>1, <2>3 DEF LogsTypeOK, Reached
  <2>. QED
    BY <2>2, <2>3
<1>8. CASE UNCHANGED logsVars
  BY <1>2, <1>8 DEF logsVars, Reached
<1>9. CASE \E b \in Broadcasters : Broadcast(b) \/ BroadcasterStep(b)
  BY <1>2, <1>3, <1>4, <1>9 DEF BroadcasterStep
<1>10. CASE \E t \in Streams : SubscribeProvisionLogs(t) \/ HandlerStep(t) \/ SendFails(t) \/ Cancel(t)
  BY <1>2, <1>5, <1>6, <1>7, <1>10 DEF HandlerStep
<1>. QED
  BY <1>2, <1>8, <1>9, <1>10 DEF LogsNext

\* What a step does to the broadcasts: one starts with the next number and the list as
\* it is, or goes on to the next subscriber, or is about to send, or returns.
LEMMA BroadcastStep ==
  ASSUME LogsCore, LogsNext \/ UNCHANGED logsVars
  PROVE  \/ bcast' = bcast /\ ~\E b \in Broadcasters : Send(b)
         \/ \E b \in Broadcasters :
              /\ \A v \in Broadcasters \ {b} : bcast'[v] = bcast[v]
              /\ \/ Broadcast(b) /\ bcast'[b] = [at |-> "check", n |-> sent + 1, list |-> subscribers, pos |-> 1]
                 \/ /\ \/ Send(b) \/ (Check(b) /\ bcast[b].list[bcast[b].pos] \in done)
                    /\ bcast[b].at # "idle" /\ bcast'[b].at = "check" /\ bcast'[b].n = bcast[b].n
                    /\ bcast'[b].list = bcast[b].list /\ bcast'[b].pos = bcast[b].pos + 1
                 \/ /\ Check(b) /\ bcast[b].at # "idle" /\ bcast'[b].at = "send" /\ bcast'[b].n = bcast[b].n
                    /\ bcast'[b].list = bcast[b].list /\ bcast'[b].pos = bcast[b].pos
                 \/ /\ BroadcastReturns(b) /\ bcast[b].pos > Len(bcast[b].list)
                    /\ bcast'[b].at = "idle" /\ bcast'[b].n = bcast[b].n
<1>0. LogsTypeOK /\ BroadcastPlaces
  BY DEF LogsCore, LogsInv
<1>1. ASSUME NEW b \in Broadcasters, Broadcast(b)
      PROVE  /\ \A v \in Broadcasters \ {b} : bcast'[v] = bcast[v]
             /\ bcast'[b] = [at |-> "check", n |-> sent + 1, list |-> subscribers, pos |-> 1]
  BY <1>0, <1>1 DEF Broadcast, LogsTypeOK
<1>2. ASSUME NEW b \in Broadcasters, NextSubscriber(b)
      PROVE  /\ \A v \in Broadcasters \ {b} : bcast'[v] = bcast[v]
             /\ bcast'[b].at = "check" /\ bcast'[b].n = bcast[b].n
             /\ bcast'[b].list = bcast[b].list /\ bcast'[b].pos = bcast[b].pos + 1
  BY <1>0, <1>2, NextSubscriberEffect
<1>3. ASSUME NEW b \in Broadcasters, bcast' = [bcast EXCEPT ![b].at = "send"]
      PROVE  /\ \A v \in Broadcasters \ {b} : bcast'[v] = bcast[v]
             /\ bcast'[b].at = "send" /\ bcast'[b].n = bcast[b].n
             /\ bcast'[b].list = bcast[b].list /\ bcast'[b].pos = bcast[b].pos
  BY <1>0, <1>3 DEF LogsTypeOK, Broadcasts
<1>4. ASSUME NEW b \in Broadcasters, BroadcastReturns(b)
      PROVE  /\ \A v \in Broadcasters \ {b} : bcast'[v] = bcast[v]
             /\ bcast'[b].at = "idle" /\ bcast'[b].n = bcast[b].n /\ bcast[b].pos > Len(bcast[b].list)
  BY <1>0, <1>4 DEF BroadcastReturns, LogsTypeOK, Broadcasts
<1>5. ASSUME NEW b \in Broadcasters, Broadcast(b) \/ BroadcasterStep(b)
      PROVE  \/ Broadcast(b) \/ BroadcastReturns(b)
             \/ NextSubscriber(b) /\ bcast[b].at # "idle" /\ (Send(b) \/ (Check(b) /\ bcast[b].list[bcast[b].pos] \in done))
             \/ Check(b) /\ bcast[b].at # "idle" /\ bcast' = [bcast EXCEPT ![b].at = "send"]
  <2>1. ASSUME Send(b) PROVE NextSubscriber(b) /\ bcast[b].at # "idle"
    BY <2>1 DEF Send
  <2>2. ASSUME Check(b)
        PROVE  /\ bcast[b].at # "idle"
               /\ \/ bcast[b].list[bcast[b].pos] \in done /\ NextSubscriber(b)
                  \/ bcast' = [bcast EXCEPT ![b].at = "send"]
    BY <2>2 DEF Check
  <2>3. CASE Send(b)
    BY <2>1, <2>3
  <2>4. CASE Check(b)
    BY <2>2, <2>4
  <2>5. Broadcast(b) \/ BroadcastReturns(b) \/ Send(b) \/ Check(b)
    BY <1>5 DEF BroadcasterStep
  <2>. QED
    BY <2>3, <2>4, <2>5
<1>6. CASE \E b \in Broadcasters : Broadcast(b) \/ BroadcasterStep(b)
  <2>1. PICK b \in Broadcasters : Broadcast(b) \/ BroadcasterStep(b)
    BY <1>6
  <2>2. CASE Broadcast(b)
    BY <1>1, <2>2
  <2>3. CASE BroadcastReturns(b)
    BY <1>4, <2>3
  <2>4. CASE NextSubscriber(b) /\ bcast[b].at # "idle" /\ (Send(b) \/ (Check(b) /\ bcast[b].list[bcast[b].pos] \in done))
    BY <1>2, <2>4
  <2>5. CASE Check(b) /\ bcast[b].at # "idle" /\ bcast' = [bcast EXCEPT ![b].at = "send"]
    BY <1>3, <2>5
  <2>. QED
    BY <1>5, <2>1, <2>2, <2>3, <2>4, <2>5
<1>7. ASSUME bcast' = bcast, NEW b \in Broadcasters, Send(b) PROVE FALSE
  <2>1. bcast'[b].pos = bcast[b].pos + 1 /\ bcast[b].pos \in Nat
    BY <1>0, <1>2, <1>7 DEF Send, LogsTypeOK, Broadcasts
  <2>. QED
    BY <1>7, <2>1
<1>8. CASE \E t \in Streams : SubscribeProvisionLogs(t) \/ HandlerStep(t) \/ SendFails(t) \/ Cancel(t)
  <2>1. bcast' = bcast
    BY <1>8 DEF SubscribeProvisionLogs, HandlerStep, Receive, SendToClient, SendFails, Cancel, ContextDone, UnsubscribeProvisionLogs
  <2>. QED
    BY <1>7, <2>1
<1>9. CASE UNCHANGED logsVars
  BY <1>7, <1>9 DEF logsVars
<1>. QED
  BY <1>6, <1>8, <1>9 DEF LogsNext

\* What is still to come for a subscriber was already to come before, unless the
\* broadcast is new; and the send to it was the last of its broadcast for it.
LEMMA ComingStep ==
  ASSUME LogsCore, LogsNext \/ UNCHANGED logsVars, NEW v \in Broadcasters, NEW s \in Streams
  PROVE  \/ /\ bcast'[v].n = bcast[v].n /\ (Coming(v, s)' => Coming(v, s))
            /\ Send(v) /\ s = bcast[v].list[bcast[v].pos] => ~Coming(v, s)'
         \/ bcast'[v].n = sent + 1 /\ Broadcast(v)
<1>0. LogsTypeOK /\ BroadcastPlaces
  BY DEF LogsCore, LogsInv
<1>1. /\ bcast[v] \in Broadcasts /\ bcast[v].pos \in Nat /\ bcast[v].pos >= 1 /\ bcast[v].list \in Seq(Streams)
      /\ Len(bcast[v].list) \in Nat /\ DOMAIN bcast[v].list = 1 .. Len(bcast[v].list)
      /\ \A i, j \in DOMAIN bcast[v].list : bcast[v].list[i] = bcast[v].list[j] => i = j
  BY <1>0 DEF LogsTypeOK, Broadcasts, BroadcastPlaces
<1>2. Send(v) => bcast[v].pos \in DOMAIN bcast[v].list /\ bcast[v].at = "send" /\ bcast'[v].pos = bcast[v].pos + 1
  BY <1>0, SendTarget, NextSubscriberEffect DEF Send
<1>3. CASE bcast'[v] = bcast[v]
  BY <1>1, <1>2, <1>3 DEF Coming
<1>4. CASE Broadcast(v) /\ bcast'[v] = [at |-> "check", n |-> sent + 1, list |-> subscribers, pos |-> 1]
  BY <1>4
<1>5. CASE /\ bcast[v].at # "idle" /\ bcast'[v].at = "check" /\ bcast'[v].n = bcast[v].n
           /\ bcast'[v].list = bcast[v].list /\ bcast'[v].pos = bcast[v].pos + 1
  <2>1. ASSUME NEW i \in bcast[v].pos + 1 .. Len(bcast[v].list)
        PROVE  i \in bcast[v].pos .. Len(bcast[v].list) /\ i \in DOMAIN bcast[v].list /\ i # bcast[v].pos
    BY <1>1, <2>1
  <2>2. Coming(v, s)' => Coming(v, s)
    BY <1>5, <2>1 DEF Coming
  <2>3. ASSUME Send(v), s = bcast[v].list[bcast[v].pos], Coming(v, s)' PROVE FALSE
    BY <1>1, <1>2, <1>5, <2>1, <2>3 DEF Coming
  <2>. QED
    BY <1>5, <2>2, <2>3
<1>6. CASE /\ Check(v) /\ bcast[v].at # "idle" /\ bcast'[v].at = "send" /\ bcast'[v].n = bcast[v].n
           /\ bcast'[v].list = bcast[v].list /\ bcast'[v].pos = bcast[v].pos
  BY <1>1, <1>2, <1>6 DEF Coming
<1>7. CASE bcast'[v].at = "idle" /\ bcast'[v].n = bcast[v].n
  BY <1>7 DEF Coming
<1>. QED
  BY <1>3, <1>4, <1>5, <1>6, <1>7, BroadcastStep

\* The numbers of what has reached a subscriber stay behind those to come, and so the
\* entries of one broadcaster stay in order.
LEMMA OrderStep ==
  ASSUME LogsCore, LogsInOrder, NumbersPast, LogsNext \/ UNCHANGED logsVars
  PROVE  LogsInOrder' /\ NumbersPast'
<1>0. LogsTypeOK /\ BroadcastPlaces
  BY DEF LogsCore, LogsInv
<1>1. ASSUME NEW e \in Entries PROVE e[1] \in Broadcasters /\ e[2] \in Nat
  BY SizesAssumption DEF Entries
<1>2. ASSUME NEW q \in Seq(Entries), NEW e \in Elements(q) PROVE e \in Entries
  BY DEF Elements
<1>3. ASSUME NEW s \in Streams PROVE Ordered(Reached(s)) /\ Reached(s) \in Seq(Entries)
  BY ReachedStep DEF LogsInOrder, Ordered
<1>4. ASSUME NEW v \in Broadcasters PROVE bcast[v].n \in Nat /\ bcast[v].n <= sent /\ sent \in Nat
  BY <1>0, SizesAssumption DEF LogsTypeOK, Broadcasts, BroadcastPlaces
<1>5. ASSUME NEW s \in Streams, NEW e \in Elements(Reached(s))
      PROVE  /\ e[2] <= bcast'[e[1]].n /\ (Coming(e[1], s)' => e[2] < bcast'[e[1]].n)
  <2>1. e[1] \in Broadcasters /\ e[2] \in Nat
    BY <1>1, <1>2, <1>3
  <2>2. e[2] <= bcast[e[1]].n /\ (Coming(e[1], s) => e[2] < bcast[e[1]].n)
    BY DEF NumbersPast
  <2>. QED
    BY <1>4, <2>1, <2>2, ComingStep
<1>6. ASSUME NEW s \in Streams
      PROVE  /\ Ordered(Reached(s)')
             /\ \A e \in Elements(Reached(s)') :
                  e[2] <= bcast'[e[1]].n /\ (Coming(e[1], s)' => e[2] < bcast'[e[1]].n)
  <2>1. CASE Reached(s)' = Reached(s)
    BY <1>3, <1>5, <2>1
  <2>2. CASE UnsubscribeProvisionLogs(s) /\ Reached(s)' = chan[s]
    <3>1. chan[s] \in Seq(Entries) /\ handler[s].out \in Seq(Entries) /\ Reached(s) = handler[s].out \o chan[s]
      BY <1>0 DEF LogsTypeOK, Handlers, Reached
    <3>2. Elements(chan[s]) \subseteq Elements(Reached(s)) /\ Ordered(chan[s])
      BY <1>3, <3>1, RestOfList
    <3>. QED
      BY <1>5, <2>2, <3>2
  <2>3. ASSUME NEW b \in Broadcasters, Send(b), s = bcast[b].list[bcast[b].pos],
               Reached(s)' = Append(Reached(s), <<b, bcast[b].n>>)
        PROVE  /\ Ordered(Reached(s)')
               /\ \A e \in Elements(Reached(s)') :
                    e[2] <= bcast'[e[1]].n /\ (Coming(e[1], s)' => e[2] < bcast'[e[1]].n)
    <3>1. /\ bcast[b].at # "idle" /\ <<b, bcast[b].n>> \in Entries
          /\ bcast[b].pos \in DOMAIN bcast[b].list /\ bcast[b].list \in Seq(Streams) /\ bcast[b].pos \in Nat
      BY <1>0, <2>3, SendTarget, EntryUnderWay DEF Send, LogsTypeOK, Broadcasts
    <3>2. Coming(b, s)
      <4>1. bcast[b].pos \in bcast[b].pos .. Len(bcast[b].list)
        BY <3>1
      <4>. QED
        BY <2>3, <3>1, <4>1 DEF Coming
    <3>3. \A x \in Elements(Reached(s)) : x[1] = b => x[2] < bcast[b].n
      <4>1. \A x \in Elements(Reached(s)) : Coming(x[1], s) => x[2] < bcast[x[1]].n
        BY DEF NumbersPast
      <4>. QED
        BY <3>2, <4>1
    <3>4. Ordered(Reached(s)')
      <4>1. \A x \in Elements(Reached(s)) : x[1] = <<b, bcast[b].n>>[1] => x[2] < <<b, bcast[b].n>>[2]
        BY <3>3
      <4>. QED
        BY <1>3, <2>3, <3>1, <4>1, OrderedAppend
    <3>5. Elements(Reached(s)') = Elements(Reached(s)) \cup {<<b, bcast[b].n>>}
      <4>1. Elements(Append(Reached(s), <<b, bcast[b].n>>)) = Elements(Reached(s)) \cup {<<b, bcast[b].n>>}
        BY <1>3, <3>1, ElementsOfAppend
      <4>. QED
        BY <2>3, <4>1
    <3>6. ~Broadcast(b)
      BY <3>1 DEF Broadcast
    <3>7. bcast'[b].n = bcast[b].n /\ ~Coming(b, s)'
      BY <2>3, <3>6, ComingStep
    <3>. QED
      BY <1>4, <1>5, <3>4, <3>5, <3>7
  <2>. QED
    BY <2>1, <2>2, <2>3, ReachedStep
<1>. QED
  BY <1>6 DEF LogsInOrder, NumbersPast, Ordered

\* What is owed to a subscriber after a step was owed before, or its broadcast starts.
LEMMA OwedStep ==
  ASSUME LogsCore, LogsNext \/ UNCHANGED logsVars, NEW s \in Streams, s \notin done', NEW e \in owed'[s]
  PROVE  /\ s \notin done /\ e \in Entries
         /\ \/ e \in owed[s] /\ dropped[s] \subseteq dropped'[s]
            \/ e[2] = sent + 1 /\ Broadcast(e[1]) /\ s \in Elements(subscribers) /\ e[1] \in Broadcasters
<1>0. LogsTypeOK /\ BroadcastPlaces /\ LogsTypeOK'
  BY LogsCoreStep DEF LogsCore, LogsInv
<1>1. e \in Entries
  BY <1>0 DEF LogsTypeOK
<1>2. ASSUME NEW b \in Broadcasters, Broadcast(b)
      PROVE  /\ s \notin done
             /\ \/ e \in owed[s] /\ dropped[s] \subseteq dropped'[s]
                \/ e[2] = sent + 1 /\ Broadcast(e[1]) /\ s \in Elements(subscribers) /\ e[1] \in Broadcasters
  <2>1. /\ done' = done /\ dropped' = dropped
        /\ e \in owed[s] \/ (e = <<b, sent + 1>> /\ s \in Elements(subscribers))
    BY <1>0, <1>2 DEF Broadcast, LogsTypeOK
  <2>2. CASE e = <<b, sent + 1>>
    <3>1. e[1] = b /\ e[2] = sent + 1
      BY <2>2
    <3>. QED
      BY <1>2, <2>1, <3>1
  <2>. QED
    BY <2>1, <2>2
<1>3. ASSUME NEW b \in Broadcasters, Send(b)
      PROVE  s \notin done /\ e \in owed[s] /\ dropped[s] \subseteq dropped'[s]
  <2>1. PICK t : t = bcast[b].list[bcast[b].pos]
    OBVIOUS
  <2>2. t \in Streams /\ (dropped' = dropped \/ dropped' = [dropped EXCEPT ![t] = dropped[t] \cup {<<b, bcast[b].n>>}])
    BY <1>0, <1>3, <2>1, SendTarget, SendEffect DEF Send
  <2>. QED
    BY <1>0, <1>3, <2>2 DEF Send, LogsTypeOK
<1>4. ASSUME NEW t \in Streams, UnsubscribeProvisionLogs(t)
      PROVE  s \notin done /\ e \in owed[s] /\ dropped[s] \subseteq dropped'[s]
  BY <1>0, <1>4 DEF UnsubscribeProvisionLogs, Forget, LogsTypeOK
<1>5. CASE UNCHANGED <<done, owed, dropped>>
  BY <1>1, <1>5
<1>6. CASE \E b \in Broadcasters : Broadcast(b) \/ BroadcasterStep(b)
  BY <1>1, <1>2, <1>3, <1>5, <1>6 DEF BroadcasterStep, Check, BroadcastReturns
<1>7. CASE \E t \in Streams : SubscribeProvisionLogs(t) \/ HandlerStep(t) \/ SendFails(t) \/ Cancel(t)
  BY <1>1, <1>4, <1>5, <1>7 DEF SubscribeProvisionLogs, HandlerStep, Receive, SendToClient, SendFails, Cancel, ContextDone
<1>. QED
  BY <1>5, <1>6, <1>7 DEF LogsNext, logsVars

\* An entry that is owed is never lost on the way from the broadcast to the channel.
LEMMA LossStep ==
  ASSUME LogsCore, NoSilentLoss, LogsNext \/ UNCHANGED logsVars
  PROVE  NoSilentLoss'
<1>0. LogsTypeOK /\ BroadcastPlaces /\ ListIsOpenStreams
  BY DEF LogsCore, LogsInv
<1>. SUFFICES ASSUME NEW s \in Streams, s \notin done', NEW e \in owed'[s]
              PROVE  e \in Elements(Reached(s)') \/ e \in dropped'[s] \/ ToCome(e, s)'
  BY DEF NoSilentLoss
<1>1. s \notin done /\ e \in Entries /\ e[1] \in Broadcasters
  BY OwedStep DEF Entries
<1>2. CASE e[2] = sent + 1 /\ Broadcast(e[1]) /\ s \in Elements(subscribers)
  <2>1. bcast'[e[1]] = [at |-> "check", n |-> sent + 1, list |-> subscribers, pos |-> 1]
    BY <1>0, <1>1, <1>2 DEF Broadcast, LogsTypeOK
  <2>2. \E i \in 1 .. Len(subscribers) : subscribers[i] = s
    <3>1. DOMAIN subscribers = 1 .. Len(subscribers)
      BY <1>0 DEF LogsTypeOK
    <3>2. \E i \in DOMAIN subscribers : s = subscribers[i]
      BY <1>2 DEF Elements
    <3>. QED
      BY <3>1, <3>2
  <2>. QED
    BY <1>2, <2>1, <2>2 DEF ToCome
<1>3. CASE e \in owed[s] /\ dropped[s] \subseteq dropped'[s]
  <2>1. e \in Elements(Reached(s)) \/ e \in dropped[s] \/ ToCome(e, s)
    BY <1>1, <1>3 DEF NoSilentLoss
  <2>2. CASE e \in dropped[s]
    BY <1>3, <2>2
  <2>3. CASE e \in Elements(Reached(s))
    <3>1. ~UnsubscribeProvisionLogs(s)
      BY DEF UnsubscribeProvisionLogs
    <3>2. CASE Reached(s)' = Reached(s)
      BY <2>3, <3>2
    <3>3. ASSUME NEW b \in Broadcasters, Send(b), Reached(s)' = Append(Reached(s), <<b, bcast[b].n>>)
          PROVE  e \in Elements(Reached(s)')
      <4>1. Reached(s) \in Seq(Entries) /\ <<b, bcast[b].n>> \in Entries
        BY <1>0, <3>3, ReachedStep, EntryUnderWay DEF Send
      <4>. QED
        BY <2>3, <3>3, <4>1, ElementsOfAppend
    <3>. QED
      BY <3>1, <3>2, <3>3, ReachedStep
  <2>4. CASE ToCome(e, s)
    <3>. DEFINE b == e[1]
    <3>1. /\ bcast[b].at # "idle" /\ bcast[b].n = e[2]
          /\ \E i \in bcast[b].pos .. Len(bcast[b].list) : bcast[b].list[i] = s
      BY <2>4 DEF ToCome
    <3>2. /\ bcast[b] \in Broadcasts /\ bcast[b].pos \in Nat /\ bcast[b].list \in Seq(Streams)
          /\ Len(bcast[b].list) \in Nat
      BY <1>0, <1>1 DEF LogsTypeOK, Broadcasts
    <3>3. e = <<b, bcast[b].n>>
      BY <1>1, <3>1 DEF Entries
    <3>. HIDE DEF b
    <3>4. CASE bcast'[b] = bcast[b]
      BY <3>1, <3>4 DEF ToCome, b
    <3>5. CASE bcast'[b].at = "send" /\ bcast'[b].n = bcast[b].n /\ bcast'[b].list = bcast[b].list /\ bcast'[b].pos = bcast[b].pos
      BY <3>1, <3>5 DEF ToCome, b
    <3>6. CASE /\ bcast[b].list[bcast[b].pos] # s /\ bcast'[b].at = "check" /\ bcast'[b].n = bcast[b].n
               /\ bcast'[b].list = bcast[b].list /\ bcast'[b].pos = bcast[b].pos + 1
      <4>1. PICK i \in bcast[b].pos .. Len(bcast[b].list) : bcast[b].list[i] = s
        BY <3>1
      <4>2. i \in bcast[b].pos + 1 .. Len(bcast[b].list)
        BY <3>2, <3>6, <4>1
      <4>. QED
        BY <3>1, <3>6, <4>1, <4>2 DEF ToCome, b
    <3>7. CASE Send(b) /\ bcast[b].list[bcast[b].pos] = s
      <4>1. chan[s] \in Seq(Entries) /\ handler[s].out \in Seq(Entries) /\ e \in Entries
        BY <1>0, <1>1 DEF LogsTypeOK, Handlers
      <4>2. \/ chan'[s] = Append(chan[s], e) /\ handler' = handler
            \/ e \in dropped'[s]
        BY <1>0, <1>1, <3>3, <3>7, SendEffect DEF Send, LogsTypeOK, b
      <4>3. ASSUME chan'[s] = Append(chan[s], e), handler' = handler PROVE e \in Elements(Reached(s)')
        <5>1. Reached(s)' = Append(Reached(s), e)
          <6>1. handler[s].out \o Append(chan[s], e) = Append(handler[s].out \o chan[s], e)
            BY <4>1, ReachedMoves
          <6>2. Reached(s)' = handler[s].out \o Append(chan[s], e)
            BY <4>3 DEF Reached
          <6>. QED
            BY <6>1, <6>2 DEF Reached
        <5>2. Reached(s) \in Seq(Entries)
          BY <4>1 DEF Reached
        <5>. QED
          BY <4>1, <5>1, <5>2, ElementsOfAppend
      <4>. QED
        BY <4>2, <4>3
    <3>8. ~Broadcast(b) /\ ~BroadcastReturns(b)
      BY <3>1, <3>2 DEF Broadcast, BroadcastReturns
    <3>9. b \in Broadcasters
      BY <1>1 DEF b
    <3>. QED
      BY <1>1, <3>4, <3>5, <3>6, <3>7, <3>8, <3>9, BroadcastStep
  <2>. QED
    BY <2>1, <2>2, <2>3, <2>4
<1>. QED
  BY <1>2, <1>3, OwedStep

\* The list of subscribers is that of the open streams (SubscribeProvisionLogs and
\* UnsubscribeProvisionLogs in provision_logs.go, the defer in StreamProvisionLogs).
THEOREM ListOfOpenStreams == LogsSpec => []LogsInv
<1>1. LogsCore /\ [LogsNext]_logsVars => LogsCore'
  BY LogsCoreStep
<1>2. LogsCore => LogsInv
  BY DEF LogsCore
<1>. QED
  BY <1>1, <1>2, LogsInitCore, PTL DEF LogsSpec

\* Entries arrive in order and once, for every number of streams and broadcasters and
\* every size of the channels (broadcastLog in provision_logs.go).
THEOREM EntriesInOrder == LogsSpec => []LogsInOrder
<1>1. LogsInit => LogsInOrder /\ NumbersPast
  BY DEF LogsInit, LogsInOrder, NumbersPast, Reached, Elements
<1>2. LogsCore /\ [LogsNext]_logsVars => LogsCore'
  BY LogsCoreStep
<1>3. LogsCore /\ LogsInOrder /\ NumbersPast /\ [LogsNext]_logsVars => LogsInOrder' /\ NumbersPast'
  BY OrderStep
<1>. QED
  BY <1>1, <1>2, <1>3, LogsInitCore, PTL DEF LogsSpec

\* An entry that a stream was subscribed for reaches it, or was dropped at its full
\* channel, whatever other streams do during the broadcast.
THEOREM NothingLostInSilence == LogsSpec => []NoSilentLoss
<1>1. LogsInit => NoSilentLoss
  BY DEF LogsInit, NoSilentLoss
<1>2. LogsCore /\ [LogsNext]_logsVars => LogsCore'
  BY LogsCoreStep
<1>3. LogsCore /\ NoSilentLoss /\ [LogsNext]_logsVars => NoSilentLoss'
  BY LossStep
<1>. QED
  BY <1>1, <1>2, <1>3, LogsInitCore, PTL DEF LogsSpec

-----------------------------------------------------------------------------
(* The life of a devnet.                                                    *)

USE SubnetsAssumption, BoundsAssumption

-----------------------------------------------------------------------------
(* The inductive invariant.                                                  *)

\* A progress callback names a reconcile under way or has the copy that one left, and
\* every copy in use was read from a devnet that existed.
CopiesAreReal ==
  /\ \A w \in Workers :
       /\ work[w].at # "idle" => work[w].copy.uid # 0
       /\ work[w].cb # NoWorker => work[work[w].cb].at # "idle"
       /\ work[w].at \in {"provision", "orchestrate"} /\ work[w].cb = NoWorker => work[w].late.uid # 0
  /\ call.at \in {"startNodes", "startDevnet"} => call.copy.uid # 0

\* The copies that ended reconciles left are of this devnet too.
LateCopies == ~overlap => \A w \in Workers : work[w].at # "idle" => work[w].late.uid \in {0, dev.uid}

\* While DeleteDevnet is under way no worker is, or it counts as an overlap.
DeletionIsAlone == Deleting /\ ~overlap => ~Busy

\* Does node record n exist, and has its controller been told of it, or could it not be.
There(n) == n.phase # "none"
Told(n) == n.phase \notin {"none", "created"}
AllThere(ns, k) == \A i \in Index : i < k => There(ns[i])
AllTold(ns, k) == \A i \in Index : i < k => Told(ns[i])

\* The records of the nodes are of the subnet held, unless an earlier deletion left them;
\* a worker past the allocation has it, and has the records below the one it creates next;
\* it lists all of them and has told their controllers before the write.
WorkerProgress ==
  ~overlap =>
    /\ "nodes" \in left \/ \A i \in Index : There(nodes[i]) => nodes[i].subnet = subnet /\ subnet # 0
    /\ \A w \in Workers :
         /\ work[w].at \in {"orchestrate", "create"} => work[w].sub = subnet /\ subnet # 0
         /\ work[w].at = "create" => work[w].next < work[w].copy.spec /\ AllThere(nodes, work[w].next)
         /\ work[w].at \in {"complete", "queue"} => AllThere(nodes, work[w].copy.spec)
         /\ work[w].at = "queue" => \A i \in Index : i < work[w].copy.spec => i \in work[w].list
         /\ work[w].at = "write" => AllTold(nodes, work[w].copy.spec)

\* What a copy reports is true of it, whichever copy is written in the end.
CopiesTold ==
  ~overlap /\ "devnet" \notin left =>
    \A w \in Workers : work[w].at # "idle" =>
      AllTold(nodes, work[w].copy.total) /\ AllTold(nodes, work[w].late.total)

\* What DeleteDevnet has removed so far stays away.
DeletionProgress ==
  ~overlap =>
    /\ call.at \in {"release", "eraseDir", "deleteDevnet"} => "nodes" \in left \/ Records = {}
    /\ call.at \in {"eraseDir", "deleteDevnet"} => "subnet" \in left \/ subnet = 0
    /\ call.at = "deleteDevnet" => "dir" \in left \/ dir = "none"

ProgressInv == WorkerProgress /\ CopiesTold /\ DeletionProgress /\ ReportedNodesAreThere /\ DeletedLeavesNothing

\* Together with types and copies.
DevnetIInv == DevnetInv /\ CopiesAreReal /\ LateCopies /\ DeletionIsAlone /\ ProgressInv

-----------------------------------------------------------------------------
(* The operators of the model.                                               *)

\* A write counts one generation on and changes nothing else (bolt_devnet.go).
LEMMA StoredEffect ==
  ASSUME NEW c \in Devnets
  PROVE  /\ Stored(c) \in Devnets /\ Stored(c).gen = c.gen + 1
         /\ Stored(c).uid = c.uid /\ Stored(c).phase = c.phase
         /\ Stored(c).spec = c.spec /\ Stored(c).total = c.total
BY DEF Stored, Devnets

\* What an idle worker and an idle call hold.
LEMMA IdleTypes ==
  /\ NoDevnet \in Devnets /\ IdleWork \in Works /\ IdleCall \in Calls /\ NoNode \in Nodes
  /\ IdleWork.at = "idle" /\ IdleWork.cb = NoWorker /\ IdleWork.late = NoDevnet
  /\ NoDevnet.uid = 0 /\ NoDevnet.total = 0
<1>1. NoDevnet \in Devnets /\ NoNode \in Nodes
  BY DEF NoDevnet, Devnets, Phases, NoNode, Nodes, NodePhases
<1>. QED
  BY <1>1 DEF IdleWork, Works, Places, Provisioning, IdleCall, Calls, NoDevnet

\* When the reconcile of w ends, the other workers lose at most their callback to w, and
\* get the copy it left for it.
LEMMA EndedEffect ==
  ASSUME TypeOK, NEW w \in Workers, NEW c \in Devnets
  PROVE  /\ Ended(w, c) \in [Workers -> Works] /\ Ended(w, c)[w] = IdleWork
         /\ \A v \in Workers \ {w} :
              /\ Ended(w, c)[v].at = work[v].at /\ Ended(w, c)[v].copy = work[v].copy
              /\ Ended(w, c)[v].ahead = work[v].ahead /\ Ended(w, c)[v].list = work[v].list
              /\ Ended(w, c)[v].sub = work[v].sub /\ Ended(w, c)[v].next = work[v].next
              /\ Ended(w, c)[v].cb # w
              /\ \/ Ended(w, c)[v].cb = work[v].cb /\ Ended(w, c)[v].late = work[v].late
                 \/ Ended(w, c)[v].cb = NoWorker /\ Ended(w, c)[v].late = c
<1>1. \A v \in Workers : work[v] \in Works
  BY DEF TypeOK
<1>2. ASSUME NEW v \in Workers PROVE [work[v] EXCEPT !.cb = NoWorker, !.late = c] \in Works
  BY <1>1 DEF Works
<1>3. w # NoWorker
  BY WorkersAssumption
<1>. QED
  BY <1>1, <1>2, <1>3, IdleTypes DEF Ended, Works

\* When w begins to provision with copy c, the others change at most their callback,
\* and then to w.
LEMMA ProvisionEffect ==
  ASSUME TypeOK, NEW w \in Workers, NEW c \in Devnets, Provision(w, c)
  PROVE  /\ work' \in [Workers -> Works]
         /\ work'[w].at = "provision" /\ work'[w].copy = c /\ work'[w].cb = w /\ work'[w].late = NoDevnet
         /\ \A v \in Workers \ {w} :
              /\ work'[v].at = work[v].at /\ work'[v].copy = work[v].copy
              /\ work'[v].ahead = work[v].ahead /\ work'[v].late = work[v].late
              /\ work'[v].sub = work[v].sub /\ work'[v].next = work[v].next /\ work'[v].list = work[v].list
              /\ work'[v].cb \in {work[v].cb, w}
<1>1. \A v \in Workers : work[v] \in Works
  BY DEF TypeOK
<1>2. ASSUME NEW v \in Workers PROVE [work[v] EXCEPT !.cb = w] \in Works
  BY <1>1 DEF Works
<1>3. [IdleWork EXCEPT !.at = "provision", !.copy = c, !.cb = w] \in Works
  BY IdleTypes DEF Works, Places, Provisioning
<1>. QED
  BY <1>1, <1>2, <1>3, IdleTypes DEF Provision, Works

\* A worker that goes on keeps its copy; the others are left alone.
LEMMA GoToEffect ==
  ASSUME TypeOK, NEW w \in Workers, NEW p \in Places, GoTo(w, p)
  PROVE  /\ work' \in [Workers -> Works]
         /\ work'[w].at = p /\ work'[w].copy = work[w].copy /\ work'[w].ahead = work[w].ahead
         /\ work'[w].cb = NoWorker /\ work'[w].late = NoDevnet
         /\ \A v \in Workers \ {w} : work'[v] = work[v]
<1>1. \A v \in Workers : work[v] \in Works
  BY DEF TypeOK
<1>2. [IdleWork EXCEPT !.at = p, !.copy = work[w].copy, !.ahead = work[w].ahead] \in Works
  BY <1>1, IdleTypes DEF Works
<1>. QED
  BY <1>1, <1>2, IdleTypes DEF GoTo, Works, TypeOK

\* A worker that takes the devnet holds the record, and no callback.
LEMMA TakenEffect ==
  ASSUME TypeOK, NEW w \in Workers, NEW p \in {"pending", "status"},
         work' = [work EXCEPT ![w] = [IdleWork EXCEPT !.at = p, !.copy = dev]]
  PROVE  /\ work' \in [Workers -> Works]
         /\ work'[w].at = p /\ work'[w].copy = dev /\ work'[w].cb = NoWorker /\ work'[w].late = NoDevnet
         /\ \A v \in Workers \ {w} : work'[v] = work[v]
<1>1. [IdleWork EXCEPT !.at = p, !.copy = dev] \in Works
  BY IdleTypes DEF Works, Places, TypeOK
<1>. QED
  BY <1>1, IdleTypes DEF TypeOK, Works

\* The report counts up the copy of one reconcile, or the copy that an ended one left.
LEMMA CountedEffect ==
  ASSUME TypeOK, NEW w \in Workers, NEW b \in BOOLEAN, NEW moved \in [Workers -> Works]
  PROVE  /\ Reported(w) \in Devnets
         /\ WithCounted(w, moved, b) \in [Workers -> Works]
         /\ \A v \in Workers :
              LET x == WithCounted(w, moved, b)[v] IN
              /\ x.at = moved[v].at /\ x.cb = moved[v].cb /\ x.sub = moved[v].sub
              /\ x.next = moved[v].next /\ x.list = moved[v].list
              /\ IF v = work[w].cb THEN x.copy = Stored(Reported(w)) /\ x.ahead = ~b
                 ELSE x.copy = moved[v].copy /\ x.ahead = moved[v].ahead
              /\ x.late = moved[v].late \/ (x.late = Stored(Reported(w)) /\ work[w].cb = NoWorker)
<1>1. \A v \in Workers : work[v] \in Works /\ moved[v] \in Works
  BY DEF TypeOK
<1>2. Reported(w) \in Devnets
  BY <1>1 DEF Reported, Works
<1>. DEFINE c == Stored(Reported(w))
<1>3. c \in Devnets
  BY <1>2, StoredEffect
<1>4. \A v \in Workers : WithCounted(w, moved, b)[v] =
        IF v = work[w].cb THEN [moved[v] EXCEPT !.copy = c, !.ahead = ~b]
        ELSE IF work[w].cb = NoWorker /\ moved[v].cb = NoWorker /\ moved[v].late = Reported(w)
             THEN [moved[v] EXCEPT !.late = c] ELSE moved[v]
  BY DEF WithCounted
<1>. HIDE DEF c
<1>5. ASSUME NEW v \in Workers
      PROVE  [moved[v] EXCEPT !.copy = c, !.ahead = ~b] \in Works /\ [moved[v] EXCEPT !.late = c] \in Works
  BY <1>1, <1>3 DEF Works
<1>6. WithCounted(w, moved, b) \in [Workers -> Works]
  BY <1>1, <1>4, <1>5 DEF WithCounted
<1>7. ASSUME NEW v \in Workers
      PROVE  LET x == WithCounted(w, moved, b)[v] IN
              /\ x.at = moved[v].at /\ x.cb = moved[v].cb /\ x.sub = moved[v].sub
              /\ x.next = moved[v].next /\ x.list = moved[v].list
              /\ IF v = work[w].cb THEN x.copy = c /\ x.ahead = ~b
                 ELSE x.copy = moved[v].copy /\ x.ahead = moved[v].ahead
              /\ x.late = moved[v].late \/ (x.late = c /\ work[w].cb = NoWorker)
  <2>1. moved[v] \in Works
    BY <1>1
  <2>2. CASE v = work[w].cb
    <3>1. WithCounted(w, moved, b)[v] = [moved[v] EXCEPT !.copy = c, !.ahead = ~b]
      BY <1>4, <2>2
    <3>. QED
      BY <2>1, <2>2, <3>1 DEF Works
  <2>3. CASE v # work[w].cb
    <3>1. \/ WithCounted(w, moved, b)[v] = moved[v]
          \/ work[w].cb = NoWorker /\ WithCounted(w, moved, b)[v] = [moved[v] EXCEPT !.late = c]
      BY <1>4, <2>3
    <3>. QED
      BY <2>1, <2>3, <3>1 DEF Works
  <2>. QED
    BY <2>2, <2>3
<1>. QED
  BY <1>2, <1>6, <1>7 DEF c

\* The parts of the step of an orchestrator phase: where the worker goes, and what the
\* progress callback wrote, or counted without writing it.
LEMMA PhaseEffect ==
  ASSUME TypeOK, NEW w \in Workers, OrchestratorPhase(w)
  PROVE  /\ work[w].at = "orchestrate" /\ Reported(w) \in Devnets
         /\ work' \in [Workers -> Works]
         /\ work'[w].at \in {"orchestrate", "create"} /\ work'[w].sub = work[w].sub
         /\ work'[w].at = "create" => work'[w].next = 0 /\ work'[w].cb = NoWorker
         /\ work'[w].at = "orchestrate" => work'[w].cb = work[w].cb
         /\ \A v \in Workers \ {w} :
              /\ work'[v].at = work[v].at /\ work'[v].cb = work[v].cb /\ work'[v].list = work[v].list
              /\ work'[v].sub = work[v].sub /\ work'[v].next = work[v].next
         /\ \A v \in Workers :
              \/ work'[v].late = work[v].late
              \/ work'[v].late = NoDevnet /\ work'[v].at = "create"
              \/ work'[v].late = Stored(Reported(w)) /\ work[w].cb = NoWorker /\ Accepts(Reported(w))
         /\ \/ /\ dev' = dev /\ count' = count
               /\ \A v \in Workers : work'[v].copy = work[v].copy /\ work'[v].ahead = work[v].ahead
            \/ /\ Accepts(Reported(w))
               /\ (dev' = Stored(Reported(w)) /\ count' = count) \/ (dev' = dev /\ Counts(Upset))
               /\ \A v \in Workers :
                    IF v = work[w].cb
                    THEN work'[v].copy = Stored(Reported(w)) /\ (dev' = Stored(Reported(w)) \/ work'[v].ahead)
                    ELSE work'[v].copy = work[v].copy /\ work'[v].ahead = work[v].ahead
<1>. DEFINE last == work[w].next + 1 = Stages
            moved == IF last
                     THEN [work EXCEPT ![w].at = "create", ![w].cb = NoWorker, ![w].late = NoDevnet, ![w].next = 0]
                     ELSE [work EXCEPT ![w].next = @ + 1]
<1>1. work[w].at = "orchestrate" /\ HandleProgress(w, moved)
  BY DEF OrchestratorPhase
<1>2. \A v \in Workers : work[v] \in Works
  BY DEF TypeOK
<1>3. /\ moved \in [Workers -> Works]
      /\ moved[w].at \in {"orchestrate", "create"} /\ moved[w].sub = work[w].sub
      /\ moved[w].copy = work[w].copy /\ moved[w].ahead = work[w].ahead
      /\ moved[w].at = "create" => moved[w].next = 0 /\ moved[w].cb = NoWorker /\ moved[w].late = NoDevnet
      /\ moved[w].at = "orchestrate" => moved[w].cb = work[w].cb /\ moved[w].late = work[w].late
      /\ \A v \in Workers \ {w} : moved[v] = work[v]
  <2>1. [work[w] EXCEPT !.at = "create", !.cb = NoWorker, !.late = NoDevnet, !.next = 0] \in Works
    BY <1>2, IdleTypes DEF Works, Places, Provisioning
  <2>2. [work[w] EXCEPT !.next = @ + 1] \in Works
    BY <1>2 DEF Works
  <2>3. CASE last
    <3>1. moved = [work EXCEPT ![w].at = "create", ![w].cb = NoWorker, ![w].late = NoDevnet, ![w].next = 0]
      BY <2>3
    <3>2. moved[w] = [work[w] EXCEPT !.at = "create", !.cb = NoWorker, !.late = NoDevnet, !.next = 0]
      BY <3>1 DEF TypeOK
    <3>3. moved \in [Workers -> Works] /\ \A v \in Workers \ {w} : moved[v] = work[v]
      BY <2>1, <3>1 DEF TypeOK
    <3>. HIDE DEF moved, last
    <3>. QED
      BY <1>2, <3>2, <3>3 DEF Works
  <2>4. CASE ~last
    <3>1. moved = [work EXCEPT ![w].next = @ + 1]
      BY <2>4
    <3>2. moved[w] = [work[w] EXCEPT !.next = @ + 1]
      BY <3>1 DEF TypeOK
    <3>3. moved \in [Workers -> Works] /\ \A v \in Workers \ {w} : moved[v] = work[v]
      BY <2>2, <3>1 DEF TypeOK
    <3>. HIDE DEF moved, last
    <3>. QED
      BY <1>1, <1>2, <3>2, <3>3 DEF Works
  <2>. QED
    BY <2>3, <2>4
<1>. HIDE DEF moved
<1>4. \/ dev' = dev /\ count' = count /\ work' = moved
      \/ /\ Accepts(Reported(w))
         /\ \E b \in BOOLEAN : /\ work' = WithCounted(w, moved, b)
                               /\ IF b THEN dev' = Stored(Reported(w)) /\ count' = count
                                       ELSE dev' = dev /\ Counts(Upset)
  BY <1>1 DEF HandleProgress
<1>5. Reported(w) \in Devnets
  BY <1>3, CountedEffect
<1>7. ASSUME Accepts(Reported(w)), NEW b \in BOOLEAN, work' = WithCounted(w, moved, b),
             IF b THEN dev' = Stored(Reported(w)) /\ count' = count ELSE dev' = dev /\ Counts(Upset)
      PROVE  /\ work' \in [Workers -> Works]
             /\ \A v \in Workers :
                  /\ work'[v].at = moved[v].at /\ work'[v].cb = moved[v].cb /\ work'[v].sub = moved[v].sub
                  /\ work'[v].next = moved[v].next /\ work'[v].list = moved[v].list
                  /\ work'[v].late = moved[v].late \/ (work'[v].late = Stored(Reported(w)) /\ work[w].cb = NoWorker)
                  /\ IF v = work[w].cb
                     THEN work'[v].copy = Stored(Reported(w)) /\ (dev' = Stored(Reported(w)) \/ work'[v].ahead)
                     ELSE work'[v].copy = moved[v].copy /\ work'[v].ahead = moved[v].ahead
  <2>1. /\ WithCounted(w, moved, b) \in [Workers -> Works]
        /\ \A v \in Workers :
             LET x == WithCounted(w, moved, b)[v] IN
             /\ x.at = moved[v].at /\ x.cb = moved[v].cb /\ x.sub = moved[v].sub
             /\ x.next = moved[v].next /\ x.list = moved[v].list
             /\ IF v = work[w].cb THEN x.copy = Stored(Reported(w)) /\ x.ahead = ~b
                ELSE x.copy = moved[v].copy /\ x.ahead = moved[v].ahead
             /\ x.late = moved[v].late \/ (x.late = Stored(Reported(w)) /\ work[w].cb = NoWorker)
    BY <1>3, CountedEffect
  <2>2. dev' = Stored(Reported(w)) \/ b = FALSE
    BY <1>7
  <2>3. \A v \in Workers : work'[v] = WithCounted(w, moved, b)[v]
    BY <1>7
  <2>4. work' \in [Workers -> Works]
    BY <1>7, <2>1
  <2>5. ASSUME NEW v \in Workers, v = work[w].cb
        PROVE  dev' = Stored(Reported(w)) \/ work'[v].ahead
    <3>1. work'[v].ahead = ~b
      BY <2>1, <2>3, <2>5
    <3>. QED
      BY <2>2, <3>1, Zenon
  <2>6. \A v \in Workers :
          /\ work'[v].at = moved[v].at /\ work'[v].cb = moved[v].cb /\ work'[v].sub = moved[v].sub
          /\ work'[v].next = moved[v].next /\ work'[v].list = moved[v].list
          /\ work'[v].late = moved[v].late \/ (work'[v].late = Stored(Reported(w)) /\ work[w].cb = NoWorker)
          /\ v = work[w].cb => work'[v].copy = Stored(Reported(w))
          /\ v # work[w].cb => work'[v].copy = moved[v].copy /\ work'[v].ahead = moved[v].ahead
    BY <2>1, <2>3
  <2>. QED
    BY <2>4, <2>5, <2>6, Zenon
<1>8. \A v \in Workers : moved[v].copy = work[v].copy /\ moved[v].ahead = work[v].ahead
  BY <1>3
<1>9. \A v \in Workers : moved[v].late = work[v].late \/ (moved[v].late = NoDevnet /\ moved[v].at = "create")
  BY <1>3
<1>10. ASSUME Accepts(Reported(w)), NEW b \in BOOLEAN, work' = WithCounted(w, moved, b),
             IF b THEN dev' = Stored(Reported(w)) /\ count' = count ELSE dev' = dev /\ Counts(Upset)
      PROVE  /\ work' \in [Workers -> Works]
             /\ work'[w].at \in {"orchestrate", "create"} /\ work'[w].sub = work[w].sub
             /\ work'[w].at = "create" => work'[w].next = 0 /\ work'[w].cb = NoWorker
             /\ work'[w].at = "orchestrate" => work'[w].cb = work[w].cb
             /\ \A v \in Workers \ {w} :
                  /\ work'[v].at = work[v].at /\ work'[v].cb = work[v].cb /\ work'[v].list = work[v].list
                  /\ work'[v].sub = work[v].sub /\ work'[v].next = work[v].next
             /\ \A v \in Workers :
                  \/ work'[v].late = work[v].late
                  \/ work'[v].late = NoDevnet /\ work'[v].at = "create"
                  \/ work'[v].late = Stored(Reported(w)) /\ work[w].cb = NoWorker /\ Accepts(Reported(w))
             /\ (dev' = Stored(Reported(w)) /\ count' = count) \/ (dev' = dev /\ Counts(Upset))
             /\ \A v \in Workers :
                  IF v = work[w].cb
                  THEN work'[v].copy = Stored(Reported(w)) /\ (dev' = Stored(Reported(w)) \/ work'[v].ahead)
                  ELSE work'[v].copy = work[v].copy /\ work'[v].ahead = work[v].ahead
  BY <1>3, <1>7, <1>8, <1>9, <1>10
<1>11. CASE dev' = dev /\ count' = count /\ work' = moved
  BY <1>1, <1>3, <1>5, <1>8, <1>9, <1>11
<1>12. CASE Accepts(Reported(w)) /\ \E b \in BOOLEAN :
              /\ work' = WithCounted(w, moved, b)
              /\ IF b THEN dev' = Stored(Reported(w)) /\ count' = count ELSE dev' = dev /\ Counts(Upset)
  BY <1>1, <1>5, <1>10, <1>12
<1>. QED
  BY <1>4, <1>11, <1>12

-----------------------------------------------------------------------------
(* Types.                                                                    *)

\* Counting keeps the counters natural numbers.
LEMMA CountsType ==
  ASSUME TypeOK, NEW C \in SUBSET Counted, Counts(C)
  PROVE  count' \in [Counted -> Nat]
<1>1. \A c \in Counted : count[c] \in Nat /\ count[c] + 1 \in Nat
  BY DEF TypeOK
<1>. QED
  BY <1>1 DEF Counts

\* Every write of the record writes a devnet.
LEMMA UpdateTypes ==
  ASSUME TypeOK, NEW w \in Workers, NEW c \in Devnets, ReturnUpdate(w, c)
  PROVE  /\ dev' \in Devnets /\ \E e \in {c, Stored(c)} : work' = Ended(w, e)
         /\ queued' \in Nat /\ dirty' \in BOOLEAN /\ handled' \in BOOLEAN
         /\ count' \in [Counted -> Nat]
         /\ dev' = dev \/ (Accepts(c) /\ dev' = Stored(c))
<1>1. {"retries"} \subseteq Counted /\ Upset \subseteq Counted
  BY DEF Counted, Upset
<1>2. /\ \E e \in {c, Stored(c)} : ReturnNil(w, e) \/ ReturnError(w, e)
      /\ dev' = dev \/ (Accepts(c) /\ dev' = Stored(c))
      /\ (\E e \in {c, Stored(c)} : ReturnNil(w, e)) \/ Counts({"retries"}) \/ Counts(Upset)
  BY DEF ReturnUpdate, UpdateFails
<1>3. dev' \in Devnets
  BY <1>2, StoredEffect DEF TypeOK
<1>4. count' \in [Counted -> Nat]
  <2>1. count' = count \/ Counts({"retries"}) \/ Counts(Upset)
    BY <1>2 DEF ReturnNil
  <2>. QED
    BY <1>1, <2>1, CountsType DEF TypeOK
<1>5. queued' \in Nat /\ dirty' \in BOOLEAN /\ handled' \in BOOLEAN
  <2>1. \E n \in 0 .. 2 : Copies(n)
    BY <1>2 DEF ReturnNil, ReturnError
  <2>2. dirty' \in {dirty, TRUE} /\ handled' = FALSE
    BY <1>2 DEF ReturnNil, ReturnError
  <2>3. queued' \in Nat
    BY <2>1 DEF Copies, TypeOK
  <2>. QED
    BY <2>2, <2>3 DEF TypeOK
<1>6. \E e \in {c, Stored(c)} : work' = Ended(w, e)
  BY <1>2 DEF ReturnNil, ReturnError
<1>. QED
  BY <1>2, <1>3, <1>4, <1>5, <1>6

\* So the workers stay what they are.
LEMMA UpdateWorks ==
  ASSUME TypeOK, NEW w \in Workers, NEW c \in Devnets, ReturnUpdate(w, c)
  PROVE  work' \in [Workers -> Works]
<1>1. \A e \in {c, Stored(c)} : e \in Devnets
  BY StoredEffect
<1>. QED
  BY <1>1, UpdateTypes, EndedEffect

\* Every step keeps the types.
LEMMA TypeStep == TypeOK /\ [Next]_vars => TypeOK'
<1>. SUFFICES ASSUME TypeOK, [Next]_vars PROVE TypeOK'
  OBVIOUS
<1>. USE DEF outside, queueVars
<1>1. /\ \A w \in Workers : work[w] \in Works /\ work[w].copy \in Devnets
      /\ call.copy \in Devnets /\ \A i \in Index : nodes[i] \in Nodes
      /\ {"events"} \subseteq Counted /\ {"upsets"} \subseteq Counted /\ Upset \subseteq Counted
  BY DEF TypeOK, Works, Calls, Counted, Upset
<1>2. /\ \A c \in Devnets, p \in Phases : [c EXCEPT !.phase = p] \in Devnets
      /\ \A c \in Devnets, n \in 1 .. MaxNodes : [c EXCEPT !.spec = n] \in Devnets
      /\ \A c \in Devnets, p \in Phases, n \in 1 .. MaxNodes : [c EXCEPT !.phase = p, !.total = n] \in Devnets
  <2>1. 1 .. MaxNodes \subseteq 0 .. MaxNodes
    OBVIOUS
  <2>. QED
    BY <2>1 DEF Devnets
<1>3. ASSUME Enqueue PROVE queued' \in Nat /\ dirty' \in BOOLEAN /\ handled' \in BOOLEAN
  BY <1>3 DEF Enqueue, Copies, TypeOK
<1>4. ASSUME NEW w \in Workers, Take(w) PROVE TypeOK'
  <2>1. work' \in [Workers -> Works]
    <3>1. \/ work' = work \/ Provision(w, dev)
          \/ \E p \in {"pending", "status"} : work' = [work EXCEPT ![w] = [IdleWork EXCEPT !.at = p, !.copy = dev]]
      BY <1>4 DEF Take
    <3>. QED
      BY <3>1, ProvisionEffect, TakenEffect DEF TypeOK
  <2>2. queued' \in Nat
    BY <1>4 DEF Take, TypeOK
  <2>3. dirty' \in BOOLEAN /\ handled' \in BOOLEAN /\ overlap' \in BOOLEAN
    BY <1>4 DEF Take, TypeOK
  <2>. QED
    BY <1>4, <2>1, <2>2, <2>3 DEF Take, TypeOK
<1>5. ASSUME NEW w \in Workers, ReconcilePending(w) PROVE TypeOK'
  <2>. DEFINE c == [work[w].copy EXCEPT !.phase = "Provisioning"]
  <2>1. c \in Devnets /\ Stored(c) \in Devnets
    BY <1>1, <1>2, StoredEffect DEF Phases
  <2>. HIDE DEF c
  <2>2. \/ dev' = Stored(c) /\ Provision(w, Stored(c)) /\ UNCHANGED <<queueVars, count>>
        \/ ReturnUpdate(w, c)
    BY <1>5 DEF ReconcilePending, ReturnUpdate, UpdateFails, c
  <2>3. UNCHANGED <<made, outside, call, overlap, crashed, left>>
    BY <1>5 DEF ReconcilePending
  <2>4. CASE dev' = Stored(c) /\ Provision(w, Stored(c)) /\ UNCHANGED <<queueVars, count>>
    BY <2>1, <2>3, <2>4, ProvisionEffect DEF TypeOK
  <2>5. CASE ReturnUpdate(w, c)
    BY <2>1, <2>3, <2>5, UpdateTypes, UpdateWorks DEF TypeOK
  <2>. QED
    BY <2>2, <2>4, <2>5
<1>6. ASSUME NEW w \in Workers, Fails(w) PROVE TypeOK'
  <2>1. work' \in [Workers -> Works]
    BY <1>6, GoToEffect DEF Fails, Places, Provisioning
  <2>2. count' \in [Counted -> Nat]
    BY <1>1, <1>6, CountsType DEF Fails
  <2>3. dir' \in {"none", "ready"}
    BY <1>6 DEF Fails, TypeOK
  <2>. QED
    BY <1>6, <2>1, <2>2, <2>3 DEF Fails, TypeOK
<1>7. ASSUME NEW w \in Workers, EraseAndAllocate(w) PROVE TypeOK'
  <2>1. PICK s \in Subnets : subnet' = s /\ work' = [work EXCEPT ![w].at = "orchestrate", ![w].sub = s]
    BY <1>7 DEF EraseAndAllocate
  <2>2. [work[w] EXCEPT !.at = "orchestrate", !.sub = s] \in Works
    BY <1>1 DEF Works, Places, Provisioning
  <2>3. work' \in [Workers -> Works]
    BY <2>1, <2>2 DEF TypeOK
  <2>. QED
    BY <1>7, <2>1, <2>3 DEF EraseAndAllocate, TypeOK
<1>8. ASSUME NEW w \in Workers, OrchestratorPhase(w) PROVE TypeOK'
  <2>1. dir' \in {"none", "ready"}
    BY <1>8 DEF OrchestratorPhase, TypeOK
  <2>2. UNCHANGED <<made, nodes, subnet, queueVars, call, overlap, crashed, left>>
    BY <1>8 DEF OrchestratorPhase
  <2>3. count' \in [Counted -> Nat] /\ dev' \in Devnets
    <3>1. Reported(w) \in Devnets /\ (count' = count \/ Counts(Upset)) /\ (dev' = dev \/ dev' = Stored(Reported(w)))
      BY <1>8, PhaseEffect
    <3>. QED
      BY <1>1, <3>1, CountsType, StoredEffect DEF TypeOK
  <2>4. work' \in [Workers -> Works]
    BY <1>8, PhaseEffect
  <2>. QED
    BY <2>1, <2>2, <2>3, <2>4 DEF TypeOK
<1>9. ASSUME NEW w \in Workers, CreateNode(w) PROVE TypeOK'
  <2>1. [work[w] EXCEPT !.next = @ + 1] \in Works
    BY <1>1 DEF Works
  <2>2. work' \in [Workers -> Works]
    BY <1>9, <2>1, GoToEffect DEF CreateNode, TypeOK, Places, Provisioning
  <2>3. [phase |-> "created", subnet |-> work[w].sub] \in Nodes
    BY <1>1 DEF Works, Nodes, NodePhases
  <2>4. nodes' \in [Index -> Nodes]
    BY <1>9, <2>3 DEF CreateNode, TypeOK
  <2>. QED
    BY <1>9, <2>2, <2>4 DEF CreateNode, TypeOK
<1>10. ASSUME NEW w \in Workers, Complete(w) PROVE TypeOK'
  <2>1. Completed(work[w].copy) \in Devnets
    <3>1. work[w].copy.spec \in 1 .. MaxNodes
      BY <1>1 DEF Devnets
    <3>. QED
      BY <1>1, <1>2, <3>1 DEF Phases, Completed
  <2>2. ReturnUpdate(w, Completed(work[w].copy)) /\ UNCHANGED <<made, outside, call, overlap, crashed, left>>
    BY <1>10 DEF Complete
  <2>. QED
    BY <2>1, <2>2, UpdateTypes, UpdateWorks DEF TypeOK
<1>11. ASSUME NEW w \in Workers, MarkDegraded(w) PROVE TypeOK'
  <2>. DEFINE c == [work[w].copy EXCEPT !.phase = "Degraded"]
  <2>1. c \in Devnets
    BY <1>1, <1>2 DEF Phases
  <2>. HIDE DEF c
  <2>2. ReturnUpdate(w, c) /\ UNCHANGED <<made, outside, call, overlap, crashed, left>>
    BY <1>11 DEF MarkDegraded, c
  <2>. QED
    BY <2>1, <2>2, UpdateTypes, UpdateWorks DEF TypeOK
<1>12. ASSUME NEW w \in Workers, ReconcileStatus(w) PROVE TypeOK'
  <2>1. UNCHANGED <<made, outside, call, overlap, crashed, left>>
    BY <1>12 DEF ReconcileStatus
  <2>2. \/ ReturnNil(w, work[w].copy) /\ UNCHANGED dev
        \/ \E p \in {"Running", "Degraded"} : ReturnUpdate(w, [work[w].copy EXCEPT !.phase = p])
    BY <1>12 DEF ReconcileStatus, Observed
  <2>3. CASE ReturnNil(w, work[w].copy) /\ UNCHANGED dev
    <3>1. queued' \in Nat
      BY <2>3 DEF ReturnNil, Copies, TypeOK
    <3>. QED
      BY <1>1, <2>1, <2>3, <3>1, EndedEffect DEF TypeOK, ReturnNil
  <2>4. ASSUME NEW p \in {"Running", "Degraded"}, ReturnUpdate(w, [work[w].copy EXCEPT !.phase = p]) PROVE TypeOK'
    <3>1. [work[w].copy EXCEPT !.phase = p] \in Devnets
      BY <1>1, <1>2 DEF Phases
    <3>. QED
      BY <2>1, <2>4, <3>1, UpdateTypes, UpdateWorks DEF TypeOK
  <2>. QED
    BY <2>2, <2>3, <2>4
<1>13. CASE Commands
  <2>1. count' \in [Counted -> Nat]
    BY <1>1, <1>13, CountsType DEF Commands, CreateDevnet, UpdateDevnet, StopDevnet, StartDevnet, DeleteDevnet
  <2>2. CASE CreateDevnet
    <3>1. dev' \in Devnets /\ made' \in Nat
      BY <2>2 DEF CreateDevnet, TypeOK, Devnets, Phases
    <3>. QED
      BY <1>3, <2>1, <2>2, <3>1 DEF CreateDevnet, TypeOK
  <2>3. CASE UpdateDevnet \/ StopDevnet
    <3>1. dev' \in Devnets
      BY <1>2, <2>3, StoredEffect DEF UpdateDevnet, StopDevnet, TypeOK, Phases
    <3>2. Enqueue /\ UNCHANGED <<made, outside, work, call, overlap, crashed, left>>
      BY <2>3 DEF UpdateDevnet, StopDevnet
    <3>. QED
      BY <1>3, <2>1, <3>1, <3>2 DEF TypeOK
  <2>4. CASE StartDevnet
    <3>1. call' \in Calls
      BY <2>4 DEF StartDevnet, TypeOK, Calls, Records
    <3>. QED
      BY <2>1, <2>4, <3>1 DEF StartDevnet, TypeOK
  <2>5. CASE DeleteDevnet
    <3>1. call' \in Calls /\ overlap' \in BOOLEAN
      BY <2>5, IdleTypes DEF DeleteDevnet, TypeOK, Calls
    <3>. QED
      BY <2>1, <2>5, <3>1 DEF DeleteDevnet, TypeOK
  <2>. QED
    BY <1>13, <2>2, <2>3, <2>4, <2>5 DEF Commands
<1>14. CASE StartNodes \/ StartReturns
  <2>1. ASSUME NEW n \in Nodes PROVE Queue(n) \in Nodes /\ [n EXCEPT !.phase = "reset"] \in Nodes
    BY DEF Queue, Nodes, NodePhases
  <2>2. nodes' \in [Index -> Nodes]
    BY <1>1, <1>14, <2>1 DEF StartNodes, StartReturns, TypeOK
  <2>3. call' \in Calls
    BY <1>14, IdleTypes DEF StartNodes, StartReturns, TypeOK, Calls
  <2>4. dev' \in Devnets
    <3>1. [call.copy EXCEPT !.phase = "Running"] \in Devnets
      BY <1>1, <1>2 DEF Phases
    <3>2. dev' \in {dev, Stored([call.copy EXCEPT !.phase = "Running"])}
      BY <1>14 DEF StartNodes, StartReturns
    <3>. QED
      BY <3>1, <3>2, StoredEffect DEF TypeOK
  <2>5. UNCHANGED <<made, subnet, dir, queueVars, work, overlap, crashed, left, count>>
    BY <1>14 DEF StartNodes, StartReturns
  <2>. QED
    BY <2>2, <2>3, <2>4, <2>5 DEF TypeOK
<1>15. ASSUME NEW x \in Removed, Succeeds(x) \/ Remains(x)
       PROVE  left' \subseteq Removed /\ count' \in [Counted -> Nat]
  <2>1. count' = count \/ Counts({"upsets"})
    BY <1>15 DEF Succeeds, Remains
  <2>2. count' \in [Counted -> Nat]
    BY <1>1, <2>1, CountsType DEF TypeOK
  <2>. QED
    BY <1>15, <2>2 DEF Succeeds, Remains, TypeOK
<1>16. CASE DeleteNodes \/ ReleaseSubnet \/ EraseDeletedDir
  <2>1. call' \in Calls
    BY <1>16 DEF DeleteNodes, ReleaseSubnet, EraseDeletedDir, TypeOK, Calls
  <2>2. nodes' \in [Index -> Nodes]
    BY <1>16, IdleTypes DEF DeleteNodes, ReleaseSubnet, EraseDeletedDir, TypeOK
  <2>3. left' \subseteq Removed /\ count' \in [Counted -> Nat]
    BY <1>15, <1>16 DEF DeleteNodes, ReleaseSubnet, EraseDeletedDir, Removed
  <2>4. subnet' \in Subnets \cup {0} /\ dir' \in {"none", "ready"}
    BY <1>16 DEF DeleteNodes, ReleaseSubnet, EraseDeletedDir, TypeOK
  <2>5. UNCHANGED <<dev, made, queueVars, work, overlap, crashed>>
    BY <1>16 DEF DeleteNodes, ReleaseSubnet, EraseDeletedDir
  <2>. QED
    BY <2>1, <2>2, <2>3, <2>4, <2>5 DEF TypeOK
<1>17. CASE DeleteReturns
  <2>1. queued' \in Nat /\ dirty' \in BOOLEAN /\ handled' \in BOOLEAN
    BY <1>3, <1>17 DEF DeleteReturns, TypeOK
  <2>2. left' \subseteq Removed /\ count' \in [Counted -> Nat]
    BY <1>15, <1>17 DEF DeleteReturns, Removed
  <2>3. dev' \in Devnets /\ call' \in Calls /\ UNCHANGED <<made, outside, work, overlap, crashed>>
    BY <1>17, IdleTypes DEF DeleteReturns, TypeOK
  <2>. QED
    BY <2>1, <2>2, <2>3 DEF TypeOK
<1>18. CASE CheckHealth
  <2>1. count' \in [Counted -> Nat]
    BY <1>1, <1>18, CountsType DEF CheckHealth
  <2>2. PICK p \in Phases : dev' = Stored([dev EXCEPT !.phase = p])
    <3>1. dev.phase \in Phases
      BY DEF TypeOK, Devnets
    <3>. QED
      BY <1>18, <3>1 DEF CheckHealth, Phases, Observed
  <2>3. dev' \in Devnets
    BY <1>2, <2>2, StoredEffect DEF TypeOK
  <2>. QED
    BY <1>18, <2>1, <2>3 DEF CheckHealth, TypeOK
<1>19. CASE DaemonRestart
  <2>1. count' \in [Counted -> Nat]
    BY <1>1, <1>19, CountsType DEF DaemonRestart
  <2>. QED
    BY <1>19, <2>1, IdleTypes DEF DaemonRestart, TypeOK
<1>20. CASE UNCHANGED vars
  BY <1>20 DEF vars, TypeOK
<1>21. ASSUME NEW w \in Workers, ListNodes(w) PROVE TypeOK'
  <2>1. [work[w] EXCEPT !.at = "queue", !.list = Records] \in Works
    BY <1>1 DEF Works, Places, Provisioning, Records
  <2>2. work' \in [Workers -> Works]
    BY <1>21, <2>1, GoToEffect DEF ListNodes, TypeOK, Places, Provisioning
  <2>3. nodes' \in [Index -> Nodes]
    <3>1. ASSUME NEW n \in Nodes PROVE [n EXCEPT !.phase = "missed"] \in Nodes
      BY DEF Nodes, NodePhases
    <3>. QED
      BY <1>1, <1>21, <3>1 DEF ListNodes, TypeOK
  <2>4. count' \in [Counted -> Nat]
    BY <1>1, <1>21, CountsType DEF ListNodes, TypeOK
  <2>. QED
    BY <1>21, <2>2, <2>3, <2>4 DEF ListNodes, TypeOK
<1>22. ASSUME NEW w \in Workers, QueueNodes(w) PROVE TypeOK'
  <2>1. work' \in [Workers -> Works]
    BY <1>22, GoToEffect DEF QueueNodes, Places, Provisioning
  <2>2. nodes' \in [Index -> Nodes]
    <3>1. ASSUME NEW n \in Nodes PROVE Queue(n) \in Nodes
      BY DEF Queue, Nodes, NodePhases
    <3>. QED
      BY <1>1, <1>22, <3>1 DEF QueueNodes
  <2>. QED
    BY <1>22, <2>1, <2>2 DEF QueueNodes, TypeOK
<1>. QED
  BY <1>4, <1>5, <1>6, <1>7, <1>8, <1>9, <1>10, <1>11, <1>12, <1>13, <1>14, <1>16, <1>17, <1>18, <1>21, <1>22, <1>19, <1>20
  DEF Next, WorkerStep, CallStep

-----------------------------------------------------------------------------
(* Copies and the record.                                                    *)

\* What CopiesMatch says of copy c and record d, and of what worker x has.
Tracks(c, d) == c.uid = d.uid /\ c.gen <= d.gen /\ (c.gen = d.gen => c = d)
Holds(x, d) == x.copy.uid = d.uid /\ (x.ahead \/ Tracks(x.copy, d))
Starting == call.at \in {"startNodes", "startDevnet"}
CopyInv == CopiesMatch /\ CopiesAreReal /\ LateCopies /\ DeletionIsAlone

LEMMA MatchIsTracks ==
  CopiesMatch <=> (~overlap => /\ \A w \in Workers : work[w].at # "idle" => Holds(work[w], dev)
                               /\ Starting => Tracks(call.copy, dev))
BY DEF CopiesMatch, Tracks, Holds, Starting

\* A copy in use that nothing is known to have passed by is of a devnet that exists.
LEMMA BusyExists ==
  ASSUME CopyInv, ~overlap, Busy \/ Starting
  PROVE  Exists
BY MatchIsTracks DEF CopyInv, CopiesAreReal, Busy, Exists, Starting, Tracks, Holds

\* A step that only advances the record, and only touches copies to make them the
\* record or to count them ahead, keeps the copies in order.
LEMMA CopiesKept ==
  ASSUME TypeOK, TypeOK', CopyInv,
         overlap => overlap',
         ~overlap' => \/ dev' = dev \/ (dev'.uid = dev.uid /\ dev'.gen > dev.gen)
                      \/ ~Busy' /\ ~Starting',
         \A v \in Workers : work'[v].at # "idle" =>
           \/ work[v].at # "idle" /\ work'[v].copy = work[v].copy /\ work'[v].ahead = work[v].ahead
           \/ work'[v].copy.uid # 0 /\ (~overlap' => Holds(work'[v], dev')),
         \A v \in Workers : work'[v].at # "idle" =>
           \/ work[v].at # "idle" /\ work'[v].late.uid = work[v].late.uid
           \/ work'[v].late.uid = 0
           \/ ~overlap' => work'[v].late.uid = dev'.uid,
         \A v \in Workers : work'[v].cb # NoWorker => work'[work'[v].cb].at # "idle",
         \A v \in Workers : work'[v].at \in {"provision", "orchestrate"} /\ work'[v].cb = NoWorker =>
           work'[v].late.uid # 0,
         Starting' => \/ Starting /\ call'.copy = call.copy
                      \/ call'.copy.uid # 0 /\ (~overlap' => Tracks(call'.copy, dev')),
         Deleting' /\ ~overlap' => ~Busy'
  PROVE  CopyInv'
<1>1. \A v \in Workers : work[v].copy \in Devnets /\ work'[v].copy \in Devnets
  BY DEF TypeOK, Works
<1>2. call.copy \in Devnets /\ call'.copy \in Devnets /\ dev \in Devnets /\ dev' \in Devnets
  BY DEF TypeOK, Calls
<1>3. ASSUME NEW c \in Devnets, Tracks(c, dev), dev' = dev \/ (dev'.uid = dev.uid /\ dev'.gen > dev.gen)
      PROVE  Tracks(c, dev')
  <2>1. c.gen \in Nat /\ dev.gen \in Nat /\ dev'.gen \in Nat
    BY <1>2, <1>3 DEF Devnets
  <2>. QED
    BY <1>3, <2>1 DEF Tracks
<1>4. CopiesMatch'
  <2>. SUFFICES ASSUME ~overlap' PROVE /\ \A w \in Workers : work'[w].at # "idle" => Holds(work'[w], dev')
                                       /\ Starting' => Tracks(call'.copy, dev')
    BY DEF CopiesMatch, Tracks, Holds, Starting
  <2>1. \A w \in Workers : work[w].at # "idle" => Holds(work[w], dev)
    BY MatchIsTracks DEF CopyInv
  <2>2. Starting => Tracks(call.copy, dev)
    BY MatchIsTracks DEF CopyInv
  <2>3. CASE ~Busy' /\ ~Starting'
    BY <2>3 DEF Busy
  <2>4. CASE dev' = dev \/ (dev'.uid = dev.uid /\ dev'.gen > dev.gen)
    <3>1. ASSUME NEW v \in Workers, work'[v].at # "idle" PROVE Holds(work'[v], dev')
      <4>1. CASE work[v].at # "idle" /\ work'[v].copy = work[v].copy /\ work'[v].ahead = work[v].ahead
        BY <1>1, <1>3, <2>1, <2>4, <4>1 DEF Holds
      <4>2. CASE Holds(work'[v], dev')
        BY <4>2
      <4>. QED
        BY <3>1, <4>1, <4>2
    <3>. QED
      BY <1>2, <1>3, <2>2, <2>4, <3>1
  <2>. QED
    BY <2>3, <2>4
<1>5. CopiesAreReal'
  BY DEF CopyInv, CopiesAreReal, Starting
<1>6. LateCopies'
  BY DEF CopyInv, LateCopies, Busy
<1>. QED
  BY <1>4, <1>5, <1>6 DEF CopyInv, DeletionIsAlone

\* Writing a copy of this devnet that the store accepts advances the record.
LEMMA AcceptedAdvances ==
  ASSUME TypeOK, NEW c \in Devnets, c.uid = dev.uid, Accepts(c)
  PROVE  Stored(c).uid = dev.uid /\ Stored(c).gen > dev.gen
<1>1. c.gen \in Nat /\ dev.gen \in Nat
  BY DEF TypeOK, Devnets
<1>. QED
  BY <1>1, StoredEffect DEF Accepts

\* The reconcile of w ends with the write of its copy, changed in fields that are
\* neither identity nor generation.
LEMMA UpdateCopies ==
  ASSUME TypeOK, TypeOK', CopyInv, NEW w \in Workers, work[w].at # "idle",
         NEW c \in Devnets, c.uid = work[w].copy.uid,
         NEW e \in Devnets, e.uid = c.uid, work' = Ended(w, e),
         dev' = dev \/ (Accepts(c) /\ dev' = Stored(c)),
         call' = call, overlap' = overlap
  PROVE  CopyInv'
<1>1. e.uid # 0 /\ (~overlap => e.uid = dev.uid)
  BY MatchIsTracks DEF CopyInv, CopiesAreReal, Holds
<1>2. ~overlap' => dev' = dev \/ (dev'.uid = dev.uid /\ dev'.gen > dev.gen)
  BY <1>1, AcceptedAdvances
<1>3. \A v \in Workers : work'[v].at # "idle" =>
        /\ v # w /\ work[v].at # "idle" /\ work'[v].copy = work[v].copy /\ work'[v].ahead = work[v].ahead
        /\ work'[v].at = work[v].at /\ work'[v].cb # w
        /\ \/ work'[v].cb = work[v].cb /\ work'[v].late = work[v].late
           \/ work'[v].cb = NoWorker /\ work'[v].late = e
  BY EndedEffect, IdleTypes
<1>4. \A v \in Workers : work'[v].cb # NoWorker => work'[work'[v].cb].at # "idle"
  <2>. SUFFICES ASSUME NEW v \in Workers, work'[v].cb # NoWorker PROVE work'[work'[v].cb].at # "idle"
    OBVIOUS
  <2>1. v # w /\ work'[v].cb = work[v].cb /\ work[v].cb # w /\ work[v].cb # NoWorker
    BY EndedEffect, IdleTypes
  <2>2. work[v].cb \in Workers
    BY <2>1 DEF TypeOK, Works
  <2>. QED
    BY <2>1, <2>2, EndedEffect DEF CopyInv, CopiesAreReal
<1>5. Busy' => Busy
  BY <1>3 DEF Busy
<1>6. \A v \in Workers : work'[v].at \in {"provision", "orchestrate"} /\ work'[v].cb = NoWorker =>
        work'[v].late.uid # 0
  BY <1>1, <1>3 DEF CopyInv, CopiesAreReal
<1>7. \A v \in Workers : work'[v].at # "idle" =>
        \/ work[v].at # "idle" /\ work'[v].late.uid = work[v].late.uid
        \/ ~overlap' => work'[v].late.uid = dev'.uid
  BY <1>1, <1>2, <1>3
<1>. QED
  BY <1>2, <1>3, <1>4, <1>5, <1>6, <1>7, CopiesKept DEF CopyInv, DeletionIsAlone, Deleting, Starting

\* The same for a ReturnUpdate.
LEMMA ReturnCopies ==
  ASSUME TypeOK, TypeOK', CopyInv, NEW w \in Workers, work[w].at # "idle",
         NEW c \in Devnets, c.uid = work[w].copy.uid, ReturnUpdate(w, c),
         call' = call, overlap' = overlap
  PROVE  CopyInv'
<1>1. PICK e \in {c, Stored(c)} : work' = Ended(w, e)
  BY UpdateTypes
<1>2. e \in Devnets /\ e.uid = c.uid
  BY StoredEffect
<1>3. dev' = dev \/ (Accepts(c) /\ dev' = Stored(c))
  BY UpdateTypes
<1>. QED
  BY <1>1, <1>2, <1>3, UpdateCopies

\* A step that moves workers on, without beginning or ending a reconcile.
LEMMA MoveCopies ==
  ASSUME TypeOK, TypeOK', CopyInv, dev' = dev, call' = call, overlap' = overlap,
         \A v \in Workers :
           /\ work'[v].copy = work[v].copy /\ work'[v].ahead = work[v].ahead
           /\ work'[v].at = "idle" <=> work[v].at = "idle"
           /\ \/ /\ work'[v].cb = work[v].cb /\ work'[v].late = work[v].late
                 /\ work'[v].at \in {"provision", "orchestrate"} => work[v].at \in {"provision", "orchestrate"}
              \/ /\ work'[v].cb = NoWorker /\ work'[v].late = NoDevnet
                 /\ work'[v].at \notin {"provision", "orchestrate"}
  PROVE  CopyInv'
<1>1. \A v \in Workers : work'[v].cb # NoWorker => work'[work'[v].cb].at # "idle"
  <2>. SUFFICES ASSUME NEW v \in Workers, work'[v].cb # NoWorker PROVE work'[work'[v].cb].at # "idle"
    OBVIOUS
  <2>1. work'[v].cb = work[v].cb /\ work[v].cb \in Workers
    BY DEF TypeOK, Works
  <2>. QED
    BY <2>1 DEF CopyInv, CopiesAreReal
<1>2. Busy' => Busy
  BY DEF Busy
<1>3. \A v \in Workers : work'[v].at \in {"provision", "orchestrate"} /\ work'[v].cb = NoWorker =>
        work'[v].late.uid # 0
  BY DEF CopyInv, CopiesAreReal
<1>. QED
  BY <1>1, <1>2, <1>3, IdleTypes, CopiesKept DEF CopyInv, DeletionIsAlone, Deleting, Starting

\* w begins to provision with a copy of the record as it is now.
LEMMA ProvisionCopies ==
  ASSUME TypeOK, TypeOK', CopyInv, NEW w \in Workers, Provision(w, dev'), dev'.uid # 0,
         overlap => overlap', ~overlap' => dev' = dev \/ (dev'.uid = dev.uid /\ dev'.gen > dev.gen),
         call' = call, Deleting /\ ~overlap' => work[w].at # "idle"
  PROVE  CopyInv'
<1>. DEFINE d == dev'
<1>0. d \in Devnets /\ Provision(w, d)
  BY DEF TypeOK
<1>. HIDE DEF d
<1>1. \A v \in Workers : work'[v].at # "idle" =>
           \/ work[v].at # "idle" /\ work'[v].copy = work[v].copy /\ work'[v].ahead = work[v].ahead
           \/ work'[v].copy = d
  BY <1>0, ProvisionEffect
<1>2. Tracks(d, d)
  <2>1. d.gen \in Nat
    BY <1>0 DEF Devnets
  <2>. QED
    BY <2>1 DEF Tracks
<1>3. \A v \in Workers : work'[v].cb # NoWorker => work'[work'[v].cb].at # "idle"
  <2>. SUFFICES ASSUME NEW v \in Workers, work'[v].cb # NoWorker, work'[v].cb # w
                PROVE  work'[work'[v].cb].at # "idle"
    BY <1>0, ProvisionEffect
  <2>1. work'[v].cb = work[v].cb /\ work[v].cb \in Workers
    BY <1>0, ProvisionEffect DEF TypeOK, Works
  <2>. QED
    BY <1>0, <2>1, ProvisionEffect DEF CopyInv, CopiesAreReal
<1>4. Deleting' /\ ~overlap' => ~Busy'
  BY DEF CopyInv, DeletionIsAlone, Deleting, Busy
<1>5. \A v \in Workers : work'[v].at # "idle" =>
        (work[v].at # "idle" /\ work'[v].late.uid = work[v].late.uid) \/ work'[v].late.uid = 0
  BY <1>0, ProvisionEffect, IdleTypes
<1>6. \A v \in Workers : work'[v].at \in {"provision", "orchestrate"} /\ work'[v].cb = NoWorker =>
        work'[v].late.uid # 0
  BY <1>0, ProvisionEffect, WorkersAssumption DEF CopyInv, CopiesAreReal
<1>7. \A v \in Workers : work'[v].copy = d => Holds(work'[v], d)
  BY <1>2 DEF Holds
<1>. QED
  BY <1>1, <1>3, <1>4, <1>5, <1>6, <1>7, CopiesKept DEF Starting, d

\* The steps of a worker keep the copies in order.
LEMMA WorkerCopies ==
  ASSUME TypeOK, TypeOK', CopyInv, NEW w \in Workers, WorkerStep(w) \/ Fails(w)
  PROVE  CopyInv'
<1>0. work[w] \in Works /\ work[w].copy \in Devnets
  BY DEF TypeOK, Works
<1>1. CASE Take(w)
  <2>1. /\ work[w].at = "idle" /\ UNCHANGED <<dev, call>> /\ overlap' = (overlap \/ Deleting)
        /\ \/ work' = work
           \/ Exists /\ Provision(w, dev)
           \/ Exists /\ \E p \in {"pending", "status"} :
                work' = [work EXCEPT ![w] = [IdleWork EXCEPT !.at = p, !.copy = dev]]
    BY <1>1 DEF Take
  <2>2. CASE work' = work
    BY <2>1, <2>2, CopiesKept DEF CopyInv, CopiesAreReal, DeletionIsAlone, Deleting, Busy, Starting
  <2>3. CASE Exists /\ Provision(w, dev)
    BY <2>1, <2>3, ProvisionCopies DEF Exists
  <2>4. ASSUME Exists, NEW p \in {"pending", "status"},
               work' = [work EXCEPT ![w] = [IdleWork EXCEPT !.at = p, !.copy = dev]]
        PROVE  CopyInv'
    <3>1. /\ work'[w].at = p /\ work'[w].copy = dev /\ work'[w].cb = NoWorker /\ work'[w].late = NoDevnet
          /\ \A v \in Workers \ {w} : work'[v] = work[v]
      BY <2>4, TakenEffect
    <3>2. Tracks(dev, dev)
      BY DEF Tracks, TypeOK, Devnets
    <3>3. \A v \in Workers : work'[v].cb # NoWorker => work'[work'[v].cb].at # "idle"
      <4>1. \A v \in Workers : work[v].cb # NoWorker => work[v].cb \in Workers
        BY DEF TypeOK, Works
      <4>. QED
        BY <3>1, <4>1, <2>1 DEF CopyInv, CopiesAreReal
    <3>4. \A v \in Workers : work'[v].at # "idle" =>
            \/ work[v].at # "idle" /\ work'[v].copy = work[v].copy /\ work'[v].ahead = work[v].ahead
            \/ work'[v].copy.uid # 0 /\ Holds(work'[v], dev')
      BY <2>1, <2>4, <3>1, <3>2 DEF Holds, Exists
    <3>5. \A v \in Workers : work'[v].at # "idle" =>
            (work[v].at # "idle" /\ work'[v].late.uid = work[v].late.uid) \/ work'[v].late.uid = 0
      BY <3>1, IdleTypes
    <3>6. \A v \in Workers : work'[v].at \in {"provision", "orchestrate"} /\ work'[v].cb = NoWorker =>
            work'[v].late.uid # 0
      BY <3>1 DEF CopyInv, CopiesAreReal
    <3>. QED
      BY <2>1, <3>3, <3>4, <3>5, <3>6, CopiesKept DEF Deleting, Starting
  <2>. QED
    BY <2>1, <2>2, <2>3, <2>4
<1>2. CASE ReconcilePending(w)
  <2>. DEFINE c == [work[w].copy EXCEPT !.phase = "Provisioning"]
  <2>1. c \in Devnets /\ c.uid = work[w].copy.uid
    BY <1>0 DEF Devnets, Phases
  <2>. HIDE DEF c
  <2>2. /\ work[w].at = "pending" /\ UNCHANGED <<call, overlap>>
        /\ \/ Accepts(c) /\ dev' = Stored(c) /\ Provision(w, Stored(c))
           \/ ReturnUpdate(w, c)
    BY <1>2 DEF ReconcilePending, ReturnUpdate, UpdateFails, c
  <2>3. CASE Accepts(c) /\ dev' = Stored(c) /\ Provision(w, Stored(c))
    <3>1. dev'.uid # 0
      BY <2>1, <2>2, <2>3, StoredEffect DEF CopyInv, CopiesAreReal
    <3>2. ~overlap' => dev'.uid = dev.uid /\ dev'.gen > dev.gen
      BY <2>1, <2>2, <2>3, AcceptedAdvances, MatchIsTracks DEF CopyInv, Holds
    <3>. QED
      BY <2>2, <2>3, <3>1, <3>2, ProvisionCopies
  <2>4. CASE ReturnUpdate(w, c)
    BY <2>1, <2>2, <2>4, ReturnCopies
  <2>. QED
    BY <2>2, <2>3, <2>4
<1>3. CASE Fails(w)
  <2>1. work[w].at # "idle" /\ GoTo(w, "failed") /\ UNCHANGED <<dev, call, overlap>>
    BY <1>3 DEF Fails, Provisioning
  <2>2. "failed" \in Places
    BY DEF Places, Provisioning
  <2>. QED
    BY <2>1, <2>2, GoToEffect, MoveCopies
<1>4. CASE EraseAndAllocate(w)
  <2>1. PICK s \in Subnets : work' = [work EXCEPT ![w].at = "orchestrate", ![w].sub = s]
    BY <1>4 DEF EraseAndAllocate
  <2>2. work[w].at = "provision" /\ UNCHANGED <<dev, call, overlap>>
    BY <1>4 DEF EraseAndAllocate
  <2>3. /\ work'[w].at = "orchestrate" /\ work'[w].copy = work[w].copy /\ work'[w].cb = work[w].cb
        /\ work'[w].ahead = work[w].ahead /\ work'[w].late = work[w].late
        /\ \A v \in Workers \ {w} : work'[v] = work[v]
    BY <1>0, <2>1 DEF TypeOK, Works
  <2>. QED
    BY <2>2, <2>3, MoveCopies
<1>5. CASE OrchestratorPhase(w)
  <2>. DEFINE c == Reported(w)
  <2>0. UNCHANGED <<call, overlap>> /\ c \in Devnets /\ work[w].at = "orchestrate"
    BY <1>5, PhaseEffect DEF OrchestratorPhase
  <2>1. /\ \A v \in Workers : work'[v].at = "idle" <=> work[v].at = "idle"
        /\ \A v \in Workers : work'[v].cb \in {work[v].cb, NoWorker}
        /\ \A v \in Workers : work'[v].at \in {"provision", "orchestrate"} =>
             work[v].at \in {"provision", "orchestrate"} /\ work'[v].cb = work[v].cb
    BY <1>5, PhaseEffect
  <2>2. work[w].cb \in Workers => work[work[w].cb].at # "idle" /\ c = work[work[w].cb].copy
    BY WorkersAssumption DEF CopyInv, CopiesAreReal, Reported
  <2>3. work[w].cb = NoWorker => c = work[w].late
    BY DEF Reported
  <2>4. work[w].cb \in Workers \cup {NoWorker}
    BY <1>0 DEF Works
  <2>5. c.uid # 0 /\ (~overlap => c.uid = dev.uid)
    <3>1. CASE work[w].cb \in Workers
      BY <2>2, <3>1, MatchIsTracks DEF CopyInv, CopiesAreReal, Holds
    <3>2. CASE work[w].cb = NoWorker
      BY <2>0, <2>3, <3>2 DEF CopyInv, CopiesAreReal, LateCopies
    <3>. QED
      BY <2>4, <3>1, <3>2
  <2>6. \A v \in Workers : work'[v].cb # NoWorker => work'[work'[v].cb].at # "idle"
    <3>. SUFFICES ASSUME NEW v \in Workers, work'[v].cb # NoWorker PROVE work'[work'[v].cb].at # "idle"
      OBVIOUS
    <3>1. work'[v].cb = work[v].cb /\ work[v].cb \in Workers
      BY <2>1 DEF TypeOK, Works
    <3>. QED
      BY <2>1, <3>1 DEF CopyInv, CopiesAreReal
  <2>7. Deleting' /\ ~overlap' => ~Busy'
    BY <2>0, <2>1 DEF CopyInv, DeletionIsAlone, Deleting, Busy
  <2>. HIDE DEF c
  <2>8. ~overlap' => dev' = dev \/ (dev'.uid = dev.uid /\ dev'.gen > dev.gen)
    <3>1. dev' = dev \/ (Accepts(c) /\ dev' = Stored(c))
      BY <1>5, PhaseEffect DEF c
    <3>. QED
      BY <2>0, <2>5, <3>1, AcceptedAdvances
  <2>9. \A v \in Workers :
          \/ work'[v].late = work[v].late
          \/ work'[v].late = NoDevnet /\ work'[v].at = "create"
          \/ work'[v].late = Stored(c)
    BY <1>5, PhaseEffect DEF c
  <2>10. Stored(c) \in Devnets /\ Stored(c).uid = c.uid
    BY <2>0, StoredEffect
  <2>11. \A v \in Workers : work'[v].at # "idle" =>
          \/ work[v].at # "idle" /\ work'[v].late.uid = work[v].late.uid
          \/ work'[v].late.uid = 0
          \/ ~overlap' => work'[v].late.uid = dev'.uid
    BY <2>0, <2>1, <2>5, <2>8, <2>9, <2>10, IdleTypes
  <2>12. \A v \in Workers : work'[v].at \in {"provision", "orchestrate"} /\ work'[v].cb = NoWorker =>
          work'[v].late.uid # 0
    BY <2>1, <2>5, <2>9, <2>10 DEF CopyInv, CopiesAreReal
  <2>13. \A v \in Workers : work'[v].at # "idle" =>
          \/ work[v].at # "idle" /\ work'[v].copy = work[v].copy /\ work'[v].ahead = work[v].ahead
          \/ work'[v].copy = Stored(c) /\ (dev' = Stored(c) \/ work'[v].ahead)
    BY <1>5, <2>1, PhaseEffect DEF c
  <2>14. Tracks(Stored(c), Stored(c))
    BY <2>10 DEF Tracks, Devnets
  <2>15. \A v \in Workers : work'[v].copy = Stored(c) /\ (dev' = Stored(c) \/ work'[v].ahead) =>
           work'[v].copy.uid # 0 /\ (~overlap' => Holds(work'[v], dev'))
    BY <2>0, <2>5, <2>8, <2>10, <2>14 DEF Holds
  <2>. QED
    BY <2>0, <2>6, <2>7, <2>8, <2>11, <2>12, <2>13, <2>15, CopiesKept DEF Starting
<1>6. CASE CreateNode(w)
  <2>1. /\ work[w].at = "create" /\ UNCHANGED <<dev, call, overlap>>
        /\ work' = [work EXCEPT ![w].next = @ + 1] \/ GoTo(w, "complete")
    BY <1>6 DEF CreateNode
  <2>2. "complete" \in Places
    BY DEF Places, Provisioning
  <2>3. CASE work' = [work EXCEPT ![w].next = @ + 1]
    <3>1. /\ work'[w].at = work[w].at /\ work'[w].copy = work[w].copy /\ work'[w].cb = work[w].cb
          /\ work'[w].ahead = work[w].ahead /\ work'[w].late = work[w].late
          /\ \A v \in Workers \ {w} : work'[v] = work[v]
      BY <1>0, <2>3 DEF TypeOK, Works
    <3>. QED
      BY <2>1, <3>1, MoveCopies
  <2>4. CASE GoTo(w, "complete")
    BY <2>1, <2>2, <2>4, GoToEffect, MoveCopies
  <2>. QED
    BY <2>1, <2>3, <2>4
<1>7. CASE Complete(w)
  <2>1. Completed(work[w].copy) \in Devnets /\ Completed(work[w].copy).uid = work[w].copy.uid
    <3>1. work[w].copy.spec \in 0 .. MaxNodes
      BY <1>0 DEF Devnets
    <3>. QED
      BY <1>0, <3>1 DEF Devnets, Phases, Completed
  <2>2. work[w].at = "write" /\ ReturnUpdate(w, Completed(work[w].copy)) /\ UNCHANGED <<call, overlap>>
    BY <1>7 DEF Complete
  <2>. QED
    BY <2>1, <2>2, ReturnCopies
<1>8. CASE MarkDegraded(w) \/ ReconcileStatus(w)
  <2>1. work[w].at # "idle" /\ UNCHANGED <<call, overlap>>
    BY <1>8 DEF MarkDegraded, ReconcileStatus
  <2>2. \/ dev' = dev /\ work' = Ended(w, work[w].copy)
        \/ \E p \in {"Running", "Degraded"} : ReturnUpdate(w, [work[w].copy EXCEPT !.phase = p])
    BY <1>8 DEF MarkDegraded, ReconcileStatus, ReturnNil, Observed
  <2>3. CASE dev' = dev /\ work' = Ended(w, work[w].copy)
    BY <1>0, <2>1, <2>3, UpdateCopies
  <2>4. ASSUME NEW p \in {"Running", "Degraded"}, ReturnUpdate(w, [work[w].copy EXCEPT !.phase = p])
        PROVE  CopyInv'
    <3>. DEFINE c == [work[w].copy EXCEPT !.phase = p]
    <3>1. c \in Devnets /\ c.uid = work[w].copy.uid
      BY <1>0 DEF Devnets, Phases
    <3>2. ReturnUpdate(w, c)
      BY <2>4
    <3>. HIDE DEF c
    <3>. QED
      BY <2>1, <3>1, <3>2, ReturnCopies
  <2>. QED
    BY <2>2, <2>3, <2>4
<1>9. CASE ListNodes(w) \/ QueueNodes(w)
  <2>1. /\ work[w].at \in {"complete", "queue"} /\ UNCHANGED <<dev, call, overlap>>
        /\ work' = [work EXCEPT ![w].at = "queue", ![w].list = Records] \/ GoTo(w, "write")
    BY <1>9 DEF ListNodes, QueueNodes
  <2>2. "write" \in Places
    BY DEF Places, Provisioning
  <2>3. CASE work' = [work EXCEPT ![w].at = "queue", ![w].list = Records]
    <3>1. /\ work'[w].at = "queue" /\ work'[w].copy = work[w].copy /\ work'[w].cb = work[w].cb
          /\ work'[w].ahead = work[w].ahead /\ work'[w].late = work[w].late
          /\ \A v \in Workers \ {w} : work'[v] = work[v]
      BY <1>0, <2>3 DEF TypeOK, Works
    <3>. QED
      BY <2>1, <3>1, MoveCopies
  <2>4. CASE GoTo(w, "write")
    BY <2>1, <2>2, <2>4, GoToEffect, MoveCopies
  <2>. QED
    BY <2>1, <2>3, <2>4
<1>. QED
  BY <1>1, <1>2, <1>3, <1>4, <1>5, <1>6, <1>7, <1>8, <1>9 DEF WorkerStep

\* The commands, the calls and the rest of the daemon keep the copies in order.
LEMMA OtherCopies ==
  ASSUME TypeOK, TypeOK', CopyInv,
         Commands \/ CallStep \/ CheckHealth \/ DaemonRestart \/ UNCHANGED vars
  PROVE  CopyInv'
<1>0. dev \in Devnets /\ call.copy \in Devnets
  BY DEF TypeOK, Calls
<1>1. ASSUME NEW c \in Devnets, c.uid = dev.uid, c.gen = dev.gen, dev' = Stored(c)
      PROVE  dev'.uid = dev.uid /\ dev'.gen > dev.gen
  BY <1>1, StoredEffect DEF TypeOK, Devnets
<1>2. /\ \A v \in Workers : work[v].cb # NoWorker => work[work[v].cb].at # "idle"
      /\ \A v \in Workers : work[v].at \in {"provision", "orchestrate"} /\ work[v].cb = NoWorker => work[v].late.uid # 0
      /\ Deleting /\ ~overlap => ~Busy
  BY DEF CopyInv, CopiesAreReal, DeletionIsAlone
<1>3. ASSUME UNCHANGED <<work, overlap, call>>, dev' = dev \/ (dev'.uid = dev.uid /\ dev'.gen > dev.gen)
      PROVE  CopyInv'
  BY <1>2, <1>3, CopiesKept DEF Deleting, Busy, Starting
<1>4. CASE CreateDevnet
  <2>1. UNCHANGED <<work, overlap, call>> /\ ~Exists
    BY <1>4 DEF CreateDevnet
  <2>2. ~overlap' => ~Busy' /\ ~Starting'
    BY <2>1, BusyExists DEF Busy, Starting
  <2>. QED
    BY <1>2, <2>1, <2>2, CopiesKept DEF Deleting, Busy, Starting
<1>5. CASE UpdateDevnet \/ StopDevnet \/ CheckHealth
  <2>1. PICK n \in 1 .. MaxNodes, p \in Phases :
          dev' = Stored([dev EXCEPT !.spec = n]) \/ dev' = Stored([dev EXCEPT !.phase = p])
    <3>1. dev.phase \in Phases /\ dev.spec \in 1 .. MaxNodes
      BY <1>0 DEF Devnets
    <3>2. \/ \E n \in 1 .. MaxNodes : dev' = Stored([dev EXCEPT !.spec = n])
          \/ \E p \in Phases : dev' = Stored([dev EXCEPT !.phase = p])
      BY <1>5, <3>1 DEF UpdateDevnet, StopDevnet, CheckHealth, Phases, Observed
    <3>. QED
      BY <3>1, <3>2
  <2>2. /\ [dev EXCEPT !.spec = n] \in Devnets /\ [dev EXCEPT !.phase = p] \in Devnets
        /\ [dev EXCEPT !.spec = n].uid = dev.uid /\ [dev EXCEPT !.phase = p].uid = dev.uid
        /\ [dev EXCEPT !.spec = n].gen = dev.gen /\ [dev EXCEPT !.phase = p].gen = dev.gen
    BY <1>0 DEF Devnets
  <2>3. UNCHANGED <<work, overlap, call>>
    BY <1>5 DEF UpdateDevnet, StopDevnet, CheckHealth
  <2>. QED
    BY <1>1, <1>3, <2>1, <2>2, <2>3
<1>6. CASE StartDevnet
  <2>1. /\ UNCHANGED <<work, overlap, dev>> /\ dev.uid # 0
        /\ call'.at = "startNodes" /\ call'.copy = dev
    BY <1>6 DEF StartDevnet, Exists
  <2>2. Tracks(dev, dev)
    BY <1>0 DEF Tracks, Devnets
  <2>. QED
    BY <1>2, <2>1, <2>2, CopiesKept DEF Deleting, Busy, Starting
<1>7. CASE DeleteDevnet
  <2>1. UNCHANGED <<work, dev>> /\ overlap' = (overlap \/ Busy) /\ call'.at = "deleteNodes"
    BY <1>7, IdleTypes DEF DeleteDevnet, Calls, IdleCall
  <2>. QED
    BY <1>2, <2>1, CopiesKept DEF Busy, Starting
<1>8. CASE StartNodes
  <2>1. UNCHANGED <<work, overlap, dev>> /\ call.at = "startNodes"
    BY <1>8 DEF StartNodes
  <2>2. \/ call'.at = "startDevnet" /\ call'.copy = call.copy
        \/ call'.at = "idle"
    BY <1>8 DEF StartNodes, IdleCall, TypeOK, Calls
  <2>. QED
    BY <1>2, <2>1, <2>2, CopiesKept DEF Deleting, Busy, Starting
<1>9. CASE StartReturns
  <2>. DEFINE c == [call.copy EXCEPT !.phase = "Running"]
  <2>1. c \in Devnets /\ c.uid = call.copy.uid /\ c.gen = call.copy.gen
    BY <1>0 DEF Devnets, Phases
  <2>2. Accepts(call.copy) <=> Accepts(c)
    BY <2>1 DEF Accepts
  <2>3. UNCHANGED <<work, overlap>> /\ call'.at = "idle" /\ (dev' = dev \/ (Accepts(c) /\ dev' = Stored(c)))
    BY <1>9, <2>2 DEF StartReturns, IdleCall
  <2>. HIDE DEF c
  <2>4. ~overlap' => dev' = dev \/ (dev'.uid = dev.uid /\ dev'.gen > dev.gen)
    <3>1. ~overlap' => Tracks(call.copy, dev)
      BY <1>9, <2>3, MatchIsTracks DEF CopyInv, StartReturns, Starting
    <3>. QED
      BY <2>1, <2>3, <3>1, AcceptedAdvances DEF Tracks
  <2>. QED
    BY <1>2, <2>3, <2>4, CopiesKept DEF Deleting, Busy, Starting
<1>10. CASE DeleteNodes \/ ReleaseSubnet \/ EraseDeletedDir
  <2>1. UNCHANGED <<work, overlap, dev>> /\ Deleting /\ ~Starting'
    BY <1>10 DEF DeleteNodes, ReleaseSubnet, EraseDeletedDir, Deleting, Starting, TypeOK, Calls
  <2>. QED
    BY <1>2, <2>1, CopiesKept DEF Busy
<1>11. CASE DeleteReturns
  <2>1. UNCHANGED <<work, overlap>> /\ Deleting /\ call'.at = "idle"
    BY <1>11 DEF DeleteReturns, Deleting, IdleCall
  <2>. QED
    BY <1>2, <2>1, CopiesKept DEF Deleting, Busy, Starting
<1>12. CASE UNCHANGED vars
  BY <1>3, <1>12 DEF vars
<1>13. CASE DaemonRestart
  <2>1. /\ dev' = dev /\ (overlap => overlap') /\ call'.at = "idle"
        /\ \A v \in Workers : work'[v].at = "idle" /\ work'[v].cb = NoWorker
    BY <1>13, IdleTypes DEF DaemonRestart, IdleCall
  <2>. QED
    BY <2>1, CopiesKept DEF Deleting, Busy, Starting
<1>. QED
  BY <1>4, <1>5, <1>6, <1>7, <1>8, <1>9, <1>10, <1>11, <1>12, <1>13 DEF Commands, CallStep

LEMMA CopyStep == TypeOK /\ CopyInv /\ [Next]_vars => CopyInv'
BY TypeStep, WorkerCopies, OtherCopies DEF Next

LEMMA CopyInit == Init => TypeOK /\ CopyInv
<1>. SUFFICES ASSUME Init PROVE TypeOK /\ CopyInv
  OBVIOUS
<1>1. TypeOK
  BY IdleTypes DEF Init, TypeOK
<1>2. call.at = "idle" /\ \A w \in Workers : work[w].at = "idle" /\ work[w].cb = NoWorker
  BY IdleTypes DEF Init, IdleCall
<1>. QED
  BY <1>1, <1>2 DEF CopyInv, CopiesMatch, CopiesAreReal, LateCopies, DeletionIsAlone, Busy

\* A copy that a reconcile or a StartDevnet works on, for however long, is never ahead
\* of the record, and an update that is accepted takes nothing back (devnet.go with
\* bolt_devnet.go), unless the devnet was deleted under a worker or the last report of
\* that reconcile was counted and not committed; even then the copy is of this devnet.
THEOREM DevnetInvariant == Spec => []DevnetInv
<1>1. TypeOK /\ CopyInv /\ [Next]_vars => (TypeOK /\ CopyInv)'
  BY TypeStep, CopyStep
<1>2. TypeOK /\ CopyInv => DevnetInv
  BY DEF CopyInv, DevnetInv
<1>. QED
  BY <1>1, <1>2, CopyInit, PTL DEF Spec

-----------------------------------------------------------------------------
(* What provisioning and deletion leave behind.                              *)

\* Nothing is claimed of no nodes.
LEMMA NoneTold ==
  ASSUME NEW ns
  PROVE  AllTold(ns, 0) /\ AllThere(ns, 0)
BY DEF AllTold, AllThere, Index

\* What the record reports is true of it.
LEMMA ReportedTold ==
  ASSUME TypeOK, ReportedNodesAreThere, ~overlap, ~Deleting, "devnet" \notin left
  PROVE  AllTold(nodes, dev.total)
<1>1. dev.total \in 0 .. MaxNodes
  BY DEF TypeOK, Devnets
<1>2. \A i \in Index : i < dev.total => dev.total > 0 /\ i \in 0 .. dev.total - 1
  BY <1>1 DEF Index
<1>. QED
  BY <1>2 DEF ReportedNodesAreThere, AllTold, Told

\* What has to be seen to of a step of a busy worker: records stay and are of the
\* subnet held, which is given once; each worker has what it says it has, and so do the
\* copies it may write.
LEMMA WorkersKeep ==
  ASSUME TypeOK, TypeOK', CopyInv, CopyInv', ProgressInv, ~overlap, ~overlap', Busy, call' = call,
         dev'.uid = dev.uid, left' = left,
         subnet' = subnet \/ subnet = 0,
         \A i \in Index :
           /\ There(nodes[i]) => There(nodes'[i]) /\ nodes'[i].subnet = nodes[i].subnet
           /\ Told(nodes[i]) => Told(nodes'[i])
           /\ ~There(nodes[i]) /\ There(nodes'[i]) => nodes'[i].subnet = subnet' /\ subnet' # 0,
         \A v \in Workers :
           /\ work'[v].at \in {"orchestrate", "create"} =>
                \/ work[v].at \in {"orchestrate", "create"} /\ work'[v].sub = work[v].sub
                \/ work'[v].sub = subnet' /\ subnet' # 0
           /\ work'[v].at = "create" =>
                \/ work[v].at = "create" /\ work'[v].next = work[v].next /\ work'[v].copy.spec = work[v].copy.spec
                \/ work'[v].next < work'[v].copy.spec /\ AllThere(nodes', work'[v].next)
           /\ work'[v].at \in {"complete", "queue"} =>
                \/ work[v].at \in {"complete", "queue"} /\ work'[v].copy.spec = work[v].copy.spec
                \/ AllThere(nodes', work'[v].copy.spec)
           /\ work'[v].at = "queue" =>
                \/ /\ work[v].at = "queue" /\ work'[v].copy.spec = work[v].copy.spec
                   /\ work'[v].list = work[v].list
                \/ \A i \in Index : i < work'[v].copy.spec => i \in work'[v].list
           /\ work'[v].at = "write" =>
                \/ work[v].at = "write" /\ work'[v].copy.spec = work[v].copy.spec
                \/ AllTold(nodes', work'[v].copy.spec),
         "devnet" \notin left => \A v \in Workers : work'[v].at # "idle" =>
           /\ \/ work[v].at # "idle" /\ work'[v].copy.total = work[v].copy.total
              \/ AllTold(nodes', work'[v].copy.total)
           /\ \/ work[v].at # "idle" /\ work'[v].late.total = work[v].late.total
              \/ AllTold(nodes', work'[v].late.total),
         "devnet" \in left \/ dev'.total = dev.total \/ AllTold(nodes', dev'.total)
  PROVE  ProgressInv'
<1>1. Exists /\ Exists' /\ ~Deleting /\ ~Deleting'
  BY BusyExists DEF CopyInv, DeletionIsAlone, Deleting, Exists
<1>2. \A k : (AllThere(nodes, k) => AllThere(nodes', k)) /\ (AllTold(nodes, k) => AllTold(nodes', k))
  BY DEF AllThere, AllTold
<1>3. "nodes" \in left \/ \A i \in Index : There(nodes'[i]) => nodes'[i].subnet = subnet' /\ subnet' # 0
  BY DEF ProgressInv, WorkerProgress, There
<1>4. WorkerProgress'
  <2>1. \A v \in Workers : work'[v].at \in {"orchestrate", "create"} => work'[v].sub = subnet' /\ subnet' # 0
    BY DEF ProgressInv, WorkerProgress
  <2>2. \A v \in Workers : work'[v].at = "create" =>
          work'[v].next < work'[v].copy.spec /\ AllThere(nodes', work'[v].next)
    BY <1>2 DEF ProgressInv, WorkerProgress
  <2>3. \A v \in Workers : work'[v].at \in {"complete", "queue"} => AllThere(nodes', work'[v].copy.spec)
    BY <1>2 DEF ProgressInv, WorkerProgress
  <2>4. \A v \in Workers : work'[v].at = "queue" => \A i \in Index : i < work'[v].copy.spec => i \in work'[v].list
    BY DEF ProgressInv, WorkerProgress
  <2>5. \A v \in Workers : work'[v].at = "write" => AllTold(nodes', work'[v].copy.spec)
    BY <1>2 DEF ProgressInv, WorkerProgress
  <2>. QED
    BY <1>3, <2>1, <2>2, <2>3, <2>4, <2>5 DEF WorkerProgress
<1>5. CopiesTold'
  BY <1>2 DEF ProgressInv, CopiesTold
<1>6. ReportedNodesAreThere'
  <2>. SUFFICES ASSUME "devnet" \notin left
                PROVE  dev'.total > 0 => \A i \in 0 .. dev'.total - 1 :
                         /\ nodes'[i].phase # "created" /\ nodes'[i].phase # "none"
                         /\ "nodes" \in left \/ nodes'[i].subnet = subnet'
    BY DEF ReportedNodesAreThere
  <2>1. /\ dev.total \in 0 .. MaxNodes /\ dev'.total \in 0 .. MaxNodes
        /\ \A i \in 0 .. dev'.total - 1 : i \in Index /\ i < dev'.total
    <3>1. dev.total \in 0 .. MaxNodes /\ dev'.total \in 0 .. MaxNodes
      BY DEF TypeOK, Devnets
    <3>. QED
      BY <3>1 DEF Index
  <2>2. AllTold(nodes, dev.total)
    BY <1>1, ReportedTold DEF ProgressInv
  <2>3. \A i \in 0 .. dev'.total - 1 : i \in Index /\ Told(nodes'[i])
    BY <1>2, <2>1, <2>2 DEF AllTold
  <2>4. \A i \in Index : Told(nodes'[i]) =>
          /\ nodes'[i].phase # "created" /\ nodes'[i].phase # "none"
          /\ "nodes" \in left \/ nodes'[i].subnet = subnet'
    BY <1>3 DEF Told, There
  <2>. QED
    BY <2>3, <2>4
<1>. QED
  BY <1>1, <1>4, <1>5, <1>6 DEF ProgressInv, DeletionProgress, DeletedLeavesNothing, Deleting

\* What has to be seen to of a step outside the workers that neither creates nor
\* removes anything.
LEMMA OthersKeep ==
  ASSUME TypeOK, TypeOK', CopyInv, CopyInv', ProgressInv, ~overlap, ~overlap', left' = left,
         work' = work \/ \A w \in Workers : work'[w].at = "idle",
         subnet' = subnet, dir' = dir,
         \A i \in Index :
           /\ There(nodes'[i]) = There(nodes[i]) /\ nodes'[i].subnet = nodes[i].subnet
           /\ nodes[i].phase # "created" => nodes'[i].phase # "created",
         call'.at = call.at \/ (~Deleting /\ ~Deleting'),
         dev'.total = dev.total \/ dev'.total = 0,
         Exists => Exists'
  PROVE  ProgressInv'
<1>2. /\ dev.total \in 0 .. MaxNodes /\ dev'.total \in 0 .. MaxNodes
      /\ 0 .. dev.total - 1 \subseteq Index
  <2>1. dev.total \in 0 .. MaxNodes /\ dev'.total \in 0 .. MaxNodes
    BY DEF TypeOK, Devnets
  <2>. QED
    BY <2>1 DEF Index
<1>1. \A k : AllThere(nodes, k) = AllThere(nodes', k) /\ (AllTold(nodes, k) => AllTold(nodes', k))
  BY DEF AllThere, AllTold, Told, There
<1>3. WorkerProgress' /\ CopiesTold'
  BY <1>1 DEF ProgressInv, WorkerProgress, CopiesTold
<1>4. Records' = Records
  BY DEF Records, There
<1>5. DeletionProgress' /\ DeletedLeavesNothing'
  BY <1>4 DEF ProgressInv, DeletionProgress, DeletedLeavesNothing, Deleting
<1>6. ReportedNodesAreThere'
  <2>. SUFFICES ASSUME dev'.total > 0, "devnet" \notin left, NEW i \in 0 .. dev'.total - 1
                PROVE  /\ nodes'[i].phase # "created"
                       /\ ~Deleting' => /\ nodes'[i].phase # "none"
                                        /\ "nodes" \in left \/ nodes'[i].subnet = subnet'
    BY DEF ReportedNodesAreThere
  <2>1. dev.total > 0 /\ i \in 0 .. dev.total - 1 /\ i \in Index
    BY <1>2
  <2>2. Deleting' = Deleting
    BY DEF Deleting
  <2>. QED
    BY <2>1, <2>2 DEF ProgressInv, ReportedNodesAreThere, There
<1>. QED
  BY <1>3, <1>5, <1>6 DEF ProgressInv

\* Ending a reconcile leaves no worker with more than it had.
LEMMA EndingKeeps ==
  ASSUME TypeOK, TypeOK', CopyInv, CopyInv', ProgressInv, ~overlap, ~overlap',
         NEW w \in Workers, work[w].at # "idle", NEW e \in Devnets, work' = Ended(w, e),
         UNCHANGED <<nodes, subnet, call, left>>, dev'.uid = dev.uid,
         "devnet" \in left \/ AllTold(nodes, e.total),
         "devnet" \in left \/ dev'.total = dev.total \/ AllTold(nodes, dev'.total)
  PROVE  ProgressInv'
<1>1. \A v \in Workers : work'[v].at # "idle" =>
        /\ work'[v].at = work[v].at /\ work'[v].copy = work[v].copy /\ work'[v].list = work[v].list
        /\ work'[v].sub = work[v].sub /\ work'[v].next = work[v].next
        /\ work'[v].late \in {work[v].late, e}
  BY EndedEffect, IdleTypes
<1>2. Busy
  BY DEF Busy
<1>. QED
  BY <1>1, <1>2, WorkersKeep

\* The same for a ReturnUpdate; the write leaves the identity, and the number of nodes
\* reported is the one written.
LEMMA ReturnKeeps ==
  ASSUME TypeOK, TypeOK', CopyInv, CopyInv', ProgressInv, ~overlap, ~overlap',
         NEW w \in Workers, work[w].at # "idle", NEW c \in Devnets, c.uid = work[w].copy.uid,
         ReturnUpdate(w, c), UNCHANGED <<nodes, subnet, call, left>>,
         "devnet" \in left \/ AllTold(nodes, c.total)
  PROVE  ProgressInv'
<1>1. PICK e \in {c, Stored(c)} : work' = Ended(w, e)
  BY UpdateTypes
<1>2. e \in Devnets /\ e.total = c.total /\ Stored(c).total = c.total /\ Stored(c).uid = c.uid
  BY StoredEffect
<1>3. c.uid = dev.uid
  BY MatchIsTracks DEF CopyInv, Holds
<1>4. dev' = dev \/ dev' = Stored(c)
  BY UpdateTypes
<1>5. dev'.uid = dev.uid /\ ("devnet" \in left \/ dev'.total = dev.total \/ AllTold(nodes, dev'.total))
  BY <1>2, <1>3, <1>4
<1>. QED
  BY <1>1, <1>2, <1>5, EndingKeeps

\* Every step of a worker keeps what provisioning and deletion promise.
LEMMA WorkerProgressStep ==
  ASSUME TypeOK, TypeOK', CopyInv, CopyInv', ProgressInv, ~overlap, ~overlap',
         NEW w \in Workers, WorkerStep(w) \/ Fails(w)
  PROVE  ProgressInv'
<1>0. work[w] \in Works /\ work[w].copy \in Devnets /\ \A v \in Workers : work[v] \in Works
  BY DEF TypeOK, Works
<1>. USE DEF outside
<1>1. CASE Take(w)
  <2>1. /\ work[w].at = "idle" /\ UNCHANGED <<dev, call, nodes, subnet, dir, left>> /\ ~Deleting
        /\ \/ work' = work
           \/ Provision(w, dev)
           \/ \E p \in {"pending", "status"} : work' = [work EXCEPT ![w] = [IdleWork EXCEPT !.at = p, !.copy = dev]]
    BY <1>1 DEF Take
  <2>2. \A v \in Workers : work'[v].at # "idle" =>
          \/ /\ work'[v].at = work[v].at /\ work'[v].copy = work[v].copy /\ work'[v].list = work[v].list
             /\ work'[v].sub = work[v].sub /\ work'[v].next = work[v].next /\ work'[v].late = work[v].late
          \/ work'[v].at \in {"provision", "pending", "status"} /\ work'[v].copy = dev /\ work'[v].late = NoDevnet
    <3>1. CASE work' = work
      BY <3>1
    <3>2. CASE Provision(w, dev)
      BY <3>2, ProvisionEffect DEF TypeOK
    <3>3. CASE \E p \in {"pending", "status"} : work' = [work EXCEPT ![w] = [IdleWork EXCEPT !.at = p, !.copy = dev]]
      BY <3>3, TakenEffect
    <3>. QED
      BY <2>1, <3>1, <3>2, <3>3
  <2>3. WorkerProgress'
    BY <2>1, <2>2 DEF ProgressInv, WorkerProgress
  <2>4. CopiesTold'
    <3>1. "devnet" \notin left => AllTold(nodes, dev.total)
      BY <2>1, ReportedTold DEF ProgressInv
    <3>. QED
      BY <2>1, <2>2, <3>1, NoneTold, IdleTypes DEF ProgressInv, CopiesTold
  <2>5. DeletionProgress' /\ ReportedNodesAreThere' /\ DeletedLeavesNothing'
    BY <2>1 DEF ProgressInv, DeletionProgress, ReportedNodesAreThere, DeletedLeavesNothing, Deleting, Exists, Records
  <2>. QED
    BY <2>3, <2>4, <2>5 DEF ProgressInv
<1>2. work[w].at # "idle" => "devnet" \in left \/ AllTold(nodes, work[w].copy.total)
  BY DEF ProgressInv, CopiesTold
<1>3. ASSUME NEW p \in Phases
      PROVE  LET c == [work[w].copy EXCEPT !.phase = p] IN
               c \in Devnets /\ c.uid = work[w].copy.uid /\ c.total = work[w].copy.total
  BY <1>0 DEF Devnets
<1>4. CASE ReconcilePending(w)
  <2>. DEFINE c == [work[w].copy EXCEPT !.phase = "Provisioning"]
  <2>1. c \in Devnets /\ c.uid = work[w].copy.uid /\ c.total = work[w].copy.total
    BY <1>3 DEF Phases
  <2>. HIDE DEF c
  <2>2. /\ work[w].at = "pending" /\ UNCHANGED <<nodes, subnet, call, left>>
        /\ \/ dev' = Stored(c) /\ Provision(w, Stored(c))
           \/ ReturnUpdate(w, c)
    BY <1>4 DEF ReconcilePending, ReturnUpdate, UpdateFails, c
  <2>3. CASE dev' = Stored(c) /\ Provision(w, Stored(c))
    <3>1. Stored(c) \in Devnets /\ Stored(c).total = work[w].copy.total /\ Stored(c).uid = work[w].copy.uid
      BY <2>1, StoredEffect
    <3>2. dev'.uid = dev.uid
      BY <2>2, <2>3, <3>1, MatchIsTracks DEF CopyInv, Holds
    <3>3. \A v \in Workers :
            \/ /\ work'[v].at = work[v].at /\ work'[v].copy = work[v].copy /\ work'[v].list = work[v].list
               /\ work'[v].sub = work[v].sub /\ work'[v].next = work[v].next /\ work'[v].late = work[v].late
            \/ work'[v].at = "provision" /\ work'[v].copy = Stored(c) /\ work'[v].late = NoDevnet
      BY <2>3, <3>1, ProvisionEffect
    <3>4. Busy
      BY <2>2 DEF Busy
    <3>. QED
      BY <1>2, <2>2, <2>3, <3>1, <3>2, <3>3, <3>4, NoneTold, IdleTypes, WorkersKeep
  <2>4. CASE ReturnUpdate(w, c)
    BY <1>2, <2>1, <2>2, <2>4, ReturnKeeps
  <2>. QED
    BY <2>2, <2>3, <2>4
<1>5. CASE Fails(w)
  <2>1. work[w].at # "idle" /\ GoTo(w, "failed") /\ UNCHANGED <<dev, call, nodes, subnet, left>>
    BY <1>5 DEF Fails, Provisioning
  <2>2. "failed" \in Places
    BY DEF Places, Provisioning
  <2>3. /\ work'[w].at = "failed" /\ work'[w].copy = work[w].copy /\ work'[w].late = NoDevnet
        /\ \A v \in Workers \ {w} : work'[v] = work[v]
    BY <2>1, <2>2, GoToEffect
  <2>4. Busy
    BY <2>1 DEF Busy
  <2>. QED
    BY <2>1, <2>3, <2>4, NoneTold, IdleTypes, WorkersKeep
<1>6. CASE EraseAndAllocate(w)
  <2>1. PICK s \in Subnets : /\ subnet # 0 => s = subnet
                             /\ subnet' = s /\ work' = [work EXCEPT ![w].at = "orchestrate", ![w].sub = s]
    BY <1>6 DEF EraseAndAllocate
  <2>2. work[w].at = "provision" /\ UNCHANGED <<dev, call, nodes, left>>
    BY <1>6 DEF EraseAndAllocate
  <2>3. /\ work'[w].at = "orchestrate" /\ work'[w].sub = s
        /\ work'[w].copy = work[w].copy /\ work'[w].late = work[w].late
        /\ \A v \in Workers \ {w} : work'[v] = work[v]
    BY <1>0, <2>1 DEF TypeOK, Works
  <2>4. Busy /\ s # 0
    BY <2>2 DEF Busy
  <2>. QED
    BY <2>1, <2>2, <2>3, <2>4, WorkersKeep
<1>7. CASE OrchestratorPhase(w)
  <2>. DEFINE c == Reported(w)
  <2>1. work[w].at = "orchestrate" /\ UNCHANGED <<call, nodes, subnet, left>> /\ c \in Devnets
    BY <1>7, PhaseEffect DEF OrchestratorPhase
  <2>2. Busy
    BY <2>1 DEF Busy
  <2>3. work[w].cb \in Workers \cup {NoWorker} /\ NoWorker \notin Workers
    BY <1>0, WorkersAssumption DEF Works
  <2>4. c.uid = dev.uid /\ ("devnet" \in left \/ AllTold(nodes, c.total))
    <3>1. CASE work[w].cb \in Workers
      <4>1. work[work[w].cb].at # "idle" /\ c = work[work[w].cb].copy
        BY <2>3, <3>1 DEF CopyInv, CopiesAreReal, Reported
      <4>. QED
        BY <3>1, <4>1, MatchIsTracks DEF CopyInv, Holds, ProgressInv, CopiesTold
    <3>2. CASE work[w].cb = NoWorker
      <4>1. c = work[w].late /\ work[w].late.uid # 0
        BY <2>1, <3>2 DEF CopyInv, CopiesAreReal, Reported
      <4>. QED
        BY <2>1, <4>1 DEF CopyInv, LateCopies, ProgressInv, CopiesTold
    <3>. QED
      BY <2>3, <3>1, <3>2
  <2>5. \A v \in Workers : v = work[w].cb => c = work[v].copy
    BY <2>3 DEF Reported
  <2>. HIDE DEF c
  <2>6. Stored(c).uid = c.uid /\ Stored(c).total = c.total /\ Stored(c).spec = c.spec
    BY <2>1, StoredEffect
  <2>7. dev'.uid = dev.uid /\ ("devnet" \in left \/ dev'.total = dev.total \/ AllTold(nodes, dev'.total))
    <3>1. dev' = dev \/ dev' = Stored(c)
      BY <1>7, PhaseEffect DEF c
    <3>. QED
      BY <2>4, <2>6, <3>1
  <2>8. \A v \in Workers : work'[v].copy.spec = work[v].copy.spec /\ work'[v].copy.total = work[v].copy.total
    <3>1. \A v \in Workers : work'[v].copy = work[v].copy \/ (v = work[w].cb /\ work'[v].copy = Stored(c))
      BY <1>7, PhaseEffect DEF c
    <3>. QED
      BY <2>5, <2>6, <3>1
  <2>9. \A v \in Workers : work'[v].late \in {work[v].late, NoDevnet, Stored(c)}
    BY <1>7, PhaseEffect DEF c
  <2>10. \A v \in Workers :
          /\ work'[v].at = "idle" <=> work[v].at = "idle"
          /\ work'[v].at \in {"orchestrate", "create"} =>
               work[v].at \in {"orchestrate", "create"} /\ work'[v].sub = work[v].sub
          /\ work'[v].at = "create" => (work[v].at = "create" /\ work'[v].next = work[v].next) \/ work'[v].next = 0
          /\ work'[v].at \in {"complete", "queue", "write"} => work'[v].at = work[v].at /\ work'[v].list = work[v].list
    BY <1>7, <2>1, PhaseEffect
  <2>11. \A v \in Workers : 0 < work'[v].copy.spec
    BY DEF TypeOK, Works, Devnets
  <2>12. "devnet" \notin left => \A v \in Workers : work'[v].at # "idle" =>
          /\ \/ work[v].at # "idle" /\ work'[v].copy.total = work[v].copy.total
             \/ AllTold(nodes', work'[v].copy.total)
          /\ \/ work[v].at # "idle" /\ work'[v].late.total = work[v].late.total
             \/ AllTold(nodes', work'[v].late.total)
    BY <2>1, <2>4, <2>6, <2>8, <2>9, <2>10, NoneTold, IdleTypes
  <2>13. \A v \in Workers :
           /\ work'[v].at \in {"orchestrate", "create"} =>
                work[v].at \in {"orchestrate", "create"} /\ work'[v].sub = work[v].sub
           /\ work'[v].at = "create" =>
                \/ work[v].at = "create" /\ work'[v].next = work[v].next /\ work'[v].copy.spec = work[v].copy.spec
                \/ work'[v].next < work'[v].copy.spec /\ AllThere(nodes', work'[v].next)
           /\ work'[v].at \in {"complete", "queue", "write"} =>
                work'[v].at = work[v].at /\ work'[v].copy.spec = work[v].copy.spec /\ work'[v].list = work[v].list
    BY <2>8, <2>10, <2>11, NoneTold
  <2>. QED
    BY <2>1, <2>2, <2>7, <2>12, <2>13, WorkersKeep
<1>8. CASE CreateNode(w)
  <2>. DEFINE k == work[w].next
  <2>1. /\ work[w].at = "create" /\ UNCHANGED <<dev, call, subnet, left>>
        /\ nodes' = [nodes EXCEPT ![k] =
                       IF @.phase = "none" THEN [phase |-> "created", subnet |-> work[w].sub] ELSE @]
        /\ IF k + 1 = work[w].copy.spec THEN GoTo(w, "complete") ELSE work' = [work EXCEPT ![w].next = @ + 1]
    BY <1>8 DEF CreateNode
  <2>2. Busy /\ work[w].sub = subnet /\ subnet # 0 /\ k < work[w].copy.spec /\ AllThere(nodes, k)
    BY <2>1 DEF Busy, ProgressInv, WorkerProgress
  <2>3. k \in Index /\ k \in Nat /\ work[w].copy.spec \in Nat
    BY <1>0, <2>2 DEF Works, Devnets, Index
  <2>4. /\ nodes'[k] = IF nodes[k].phase = "none" THEN [phase |-> "created", subnet |-> work[w].sub] ELSE nodes[k]
        /\ \A i \in Index \ {k} : nodes'[i] = nodes[i]
    BY <2>1, <2>3 DEF TypeOK
  <2>5. \A i \in Index : /\ There(nodes[i]) => nodes'[i] = nodes[i]
                         /\ ~There(nodes[i]) /\ There(nodes'[i]) => nodes'[i].subnet = subnet
    BY <2>2, <2>4 DEF There
  <2>6. AllThere(nodes', k + 1)
    <3>. SUFFICES ASSUME NEW i \in Index, i < k + 1 PROVE There(nodes'[i])
      BY DEF AllThere
    <3>1. i < k \/ i = k
      BY <2>3 DEF Index
    <3>. QED
      BY <2>2, <2>4, <3>1 DEF There, AllThere
  <2>7. \A i \in Index : Told(nodes[i]) => Told(nodes'[i])
    BY <2>5 DEF Told, There
  <2>8. CASE k + 1 = work[w].copy.spec
    <3>1. "complete" \in Places
      BY DEF Places, Provisioning
    <3>2. /\ work'[w].at = "complete" /\ work'[w].copy = work[w].copy /\ work'[w].late = NoDevnet
          /\ \A v \in Workers \ {w} : work'[v] = work[v]
      BY <2>1, <2>8, <3>1, GoToEffect
    <3>3. AllThere(nodes', work'[w].copy.spec)
      BY <2>6, <2>8, <3>2
    <3>4. AllTold(nodes', work'[w].late.total)
      BY <3>2, NoneTold DEF NoDevnet
    <3>5. subnet' # 0 /\ \A i \in Index :
            /\ There(nodes[i]) => There(nodes'[i]) /\ nodes'[i].subnet = nodes[i].subnet
            /\ ~There(nodes[i]) /\ There(nodes'[i]) => nodes'[i].subnet = subnet'
      BY <2>1, <2>2, <2>5
    <3>. HIDE DEF k
    <3>. QED
      BY <2>1, <2>2, <2>7, <3>2, <3>3, <3>4, <3>5, WorkersKeep
  <2>9. CASE k + 1 # work[w].copy.spec
    <3>1. /\ work'[w].at = "create" /\ work'[w].copy = work[w].copy /\ work'[w].sub = work[w].sub
          /\ work'[w].late = work[w].late
          /\ work'[w].next = k + 1 /\ \A v \in Workers \ {w} : work'[v] = work[v]
      BY <1>0, <2>1, <2>9 DEF TypeOK, Works
    <3>2. work'[w].next < work'[w].copy.spec /\ AllThere(nodes', work'[w].next)
      BY <2>2, <2>3, <2>6, <2>9, <3>1
    <3>. QED
      BY <2>1, <2>2, <2>5, <2>7, <3>1, <3>2, WorkersKeep
  <2>. QED
    BY <2>8, <2>9
<1>9. CASE ListNodes(w)
  <2>1. work[w].at = "complete" /\ UNCHANGED <<dev, call, subnet, left>>
    BY <1>9 DEF ListNodes
  <2>2. Busy /\ AllThere(nodes, work[w].copy.spec)
    BY <2>1 DEF Busy, ProgressInv, WorkerProgress
  <2>3. CASE work' = [work EXCEPT ![w].at = "queue", ![w].list = Records] /\ UNCHANGED nodes
    <3>1. /\ work'[w].at = "queue" /\ work'[w].copy = work[w].copy /\ work'[w].list = Records
          /\ work'[w].late = work[w].late /\ \A v \in Workers \ {w} : work'[v] = work[v]
      BY <1>0, <2>3 DEF TypeOK, Works
    <3>2. \A i \in Index : i < work'[w].copy.spec => i \in work'[w].list
      BY <2>2, <3>1 DEF AllThere, There, Records
    <3>. QED
      BY <2>1, <2>2, <2>3, <3>1, <3>2, WorkersKeep
  <2>4. CASE /\ GoTo(w, "write")
             /\ nodes' = [i \in Index |-> IF i < work[w].copy.spec /\ nodes[i].phase = "created"
                                          THEN [nodes[i] EXCEPT !.phase = "missed"] ELSE nodes[i]]
    <3>1. "write" \in Places
      BY DEF Places, Provisioning
    <3>2. /\ work'[w].at = "write" /\ work'[w].copy = work[w].copy /\ work'[w].late = NoDevnet
          /\ \A v \in Workers \ {w} : work'[v] = work[v]
      BY <2>4, <3>1, GoToEffect
    <3>3. \A i \in Index : /\ There(nodes'[i]) = There(nodes[i]) /\ nodes'[i].subnet = nodes[i].subnet
                           /\ Told(nodes[i]) => Told(nodes'[i])
                           /\ There(nodes[i]) /\ i < work[w].copy.spec => Told(nodes'[i])
      <4>1. \A i \in Index : nodes[i] \in Nodes
        BY DEF TypeOK
      <4>. QED
        BY <2>4, <4>1 DEF There, Told, Nodes
    <3>4. AllTold(nodes', work'[w].copy.spec)
      BY <2>2, <3>2, <3>3 DEF AllThere, AllTold
    <3>. QED
      BY <2>1, <2>2, <3>2, <3>3, <3>4, NoneTold, IdleTypes, WorkersKeep
  <2>. QED
    BY <1>9, <2>3, <2>4 DEF ListNodes
<1>10. CASE QueueNodes(w)
  <2>1. work[w].at = "queue" /\ GoTo(w, "write") /\ UNCHANGED <<dev, call, subnet, left>>
    BY <1>10 DEF QueueNodes
  <2>2. "write" \in Places
    BY DEF Places, Provisioning
  <2>3. /\ work'[w].at = "write" /\ work'[w].copy = work[w].copy /\ work'[w].late = NoDevnet
        /\ \A v \in Workers \ {w} : work'[v] = work[v]
    BY <2>1, <2>2, GoToEffect
  <2>4. \A i \in Index : nodes'[i] = IF i \in work[w].list THEN Queue(nodes[i]) ELSE nodes[i]
    BY <1>10 DEF QueueNodes
  <2>5. ASSUME NEW n \in Nodes PROVE /\ There(Queue(n)) = There(n) /\ Queue(n).subnet = n.subnet
                                     /\ There(n) => Told(Queue(n))
    BY DEF There, Told, Queue, Nodes, NodePhases
  <2>6. \A i \in Index : /\ There(nodes'[i]) = There(nodes[i]) /\ nodes'[i].subnet = nodes[i].subnet
                         /\ Told(nodes[i]) => Told(nodes'[i])
                         /\ There(nodes[i]) /\ i \in work[w].list => Told(nodes'[i])
    <3>1. \A i \in Index : nodes[i] \in Nodes /\ (Told(nodes[i]) => There(nodes[i]))
      BY DEF TypeOK, Told, There
    <3>. QED
      BY <2>4, <2>5, <3>1
  <2>7. Busy /\ AllTold(nodes', work'[w].copy.spec)
    BY <2>1, <2>3, <2>6 DEF Busy, ProgressInv, WorkerProgress, AllThere, AllTold
  <2>. QED
    BY <2>1, <2>3, <2>6, <2>7, NoneTold, IdleTypes, WorkersKeep
<1>11. CASE Complete(w)
  <2>1. /\ Completed(work[w].copy) \in Devnets /\ Completed(work[w].copy).uid = work[w].copy.uid
        /\ Completed(work[w].copy).total = work[w].copy.spec
    <3>1. work[w].copy.spec \in 0 .. MaxNodes
      BY <1>0 DEF Devnets
    <3>. QED
      BY <1>0, <3>1 DEF Devnets, Phases, Completed
  <2>2. work[w].at = "write" /\ ReturnUpdate(w, Completed(work[w].copy)) /\ UNCHANGED <<nodes, subnet, call, left>>
    BY <1>11 DEF Complete
  <2>3. AllTold(nodes, work[w].copy.spec)
    BY <2>2 DEF ProgressInv, WorkerProgress
  <2>. QED
    BY <2>1, <2>2, <2>3, ReturnKeeps
<1>12. CASE MarkDegraded(w) \/ ReconcileStatus(w)
  <2>1. work[w].at # "idle" /\ UNCHANGED <<nodes, subnet, call, left>>
    BY <1>12 DEF MarkDegraded, ReconcileStatus
  <2>2. \/ dev' = dev /\ work' = Ended(w, work[w].copy)
        \/ \E p \in {"Running", "Degraded"} : ReturnUpdate(w, [work[w].copy EXCEPT !.phase = p])
    BY <1>12 DEF MarkDegraded, ReconcileStatus, ReturnNil, Observed
  <2>3. CASE dev' = dev /\ work' = Ended(w, work[w].copy)
    BY <1>0, <1>2, <2>1, <2>3, EndingKeeps
  <2>4. ASSUME NEW p \in {"Running", "Degraded"}, ReturnUpdate(w, [work[w].copy EXCEPT !.phase = p])
        PROVE  ProgressInv'
    <3>. DEFINE c == [work[w].copy EXCEPT !.phase = p]
    <3>1. c \in Devnets /\ c.uid = work[w].copy.uid /\ c.total = work[w].copy.total
      BY <1>3 DEF Phases
    <3>2. ReturnUpdate(w, c)
      BY <2>4
    <3>. HIDE DEF c
    <3>. QED
      BY <1>2, <2>1, <3>1, <3>2, ReturnKeeps
  <2>. QED
    BY <2>2, <2>3, <2>4
<1>. QED
  BY <1>1, <1>4, <1>5, <1>6, <1>7, <1>8, <1>9, <1>10, <1>11, <1>12 DEF WorkerStep

\* So do the commands, the calls and the rest of the daemon.
LEMMA OtherProgressStep ==
  ASSUME TypeOK, TypeOK', CopyInv, CopyInv', ProgressInv, ~overlap, ~overlap',
         Commands \/ CallStep \/ CheckHealth \/ DaemonRestart \/ UNCHANGED vars
  PROVE  ProgressInv'
<1>. USE DEF outside
<1>0. dev \in Devnets /\ call.copy \in Devnets /\ \A i \in Index : nodes[i] \in Nodes
  BY DEF TypeOK, Calls
<1>1. CASE CreateDevnet
  <2>1. UNCHANGED <<nodes, subnet, dir, work, call, left>> /\ dev'.total = 0 /\ dev'.uid = made + 1
    BY <1>1 DEF CreateDevnet
  <2>2. Exists'
    BY <2>1 DEF Exists, TypeOK
  <2>. QED
    BY <2>1, <2>2, OthersKeep
<1>2. CASE UpdateDevnet \/ StopDevnet \/ CheckHealth
  <2>1. \/ \E n \in 1 .. MaxNodes : dev' = Stored([dev EXCEPT !.spec = n])
        \/ \E p \in Phases : dev' = Stored([dev EXCEPT !.phase = p])
    <3>1. dev.phase \in Phases
      BY <1>0 DEF Devnets
    <3>. QED
      BY <1>2, <3>1 DEF UpdateDevnet, StopDevnet, CheckHealth, Phases, Observed
  <2>2. dev'.total = dev.total /\ dev'.uid = dev.uid
    <3>1. ASSUME NEW n \in 1 .. MaxNodes, dev' = Stored([dev EXCEPT !.spec = n])
          PROVE  dev'.total = dev.total /\ dev'.uid = dev.uid
      <4>1. [dev EXCEPT !.spec = n] \in Devnets
        BY <1>0 DEF Devnets
      <4>2. [dev EXCEPT !.spec = n].total = dev.total /\ [dev EXCEPT !.spec = n].uid = dev.uid
        BY <1>0 DEF Devnets
      <4>. QED
        BY <1>0, <3>1, <4>1, <4>2, StoredEffect
    <3>2. ASSUME NEW p \in Phases, dev' = Stored([dev EXCEPT !.phase = p])
          PROVE  dev'.total = dev.total /\ dev'.uid = dev.uid
      <4>1. [dev EXCEPT !.phase = p] \in Devnets
        BY <1>0 DEF Devnets
      <4>2. [dev EXCEPT !.phase = p].total = dev.total /\ [dev EXCEPT !.phase = p].uid = dev.uid
        BY <1>0 DEF Devnets
      <4>. QED
        BY <1>0, <3>2, <4>1, <4>2, StoredEffect
    <3>. QED
      BY <2>1, <3>1, <3>2
  <2>3. UNCHANGED <<nodes, subnet, dir, work, call, left>>
    BY <1>2 DEF UpdateDevnet, StopDevnet, CheckHealth
  <2>. QED
    BY <2>2, <2>3, OthersKeep DEF Exists
<1>3. CASE StartDevnet
  <2>1. UNCHANGED <<dev, nodes, subnet, dir, work, left>> /\ call.at = "idle" /\ call'.at = "startNodes"
    BY <1>3 DEF StartDevnet
  <2>. QED
    BY <2>1, OthersKeep DEF Exists, Deleting
<1>4. CASE StartNodes
  <2>1. /\ UNCHANGED <<dev, subnet, dir, work, left>> /\ call.at = "startNodes" /\ call'.at \in {"idle", "startDevnet"}
    BY <1>4 DEF StartNodes, IdleCall, TypeOK, Calls
  <2>2. \A i \in Index : nodes'[i] = nodes[i] \/ (nodes[i].phase = "managed" /\ nodes'[i] = [nodes[i] EXCEPT !.phase = "reset"])
    BY <1>4 DEF StartNodes
  <2>3. \A i \in Index : /\ There(nodes'[i]) = There(nodes[i]) /\ nodes'[i].subnet = nodes[i].subnet
                         /\ nodes[i].phase # "created" => nodes'[i].phase # "created"
    BY <1>0, <2>2 DEF There, Nodes
  <2>. QED
    BY <2>1, <2>3, OthersKeep DEF Exists, Deleting
<1>5. CASE StartReturns
  <2>. DEFINE c == [call.copy EXCEPT !.phase = "Running"]
  <2>1. c \in Devnets /\ c.uid = call.copy.uid /\ c.gen = call.copy.gen /\ c.total = call.copy.total
    BY <1>0 DEF Devnets, Phases
  <2>2. Accepts(call.copy) <=> Accepts(c)
    BY <2>1 DEF Accepts
  <2>3. /\ UNCHANGED <<subnet, dir, work, left>> /\ call.at = "startDevnet" /\ call'.at = "idle"
        /\ dev' = dev \/ (Accepts(c) /\ dev' = Stored(c))
    BY <1>5, <2>2 DEF StartReturns, IdleCall
  <2>. HIDE DEF c
  <2>4. dev'.uid = dev.uid /\ dev'.total = dev.total
    <3>1. Tracks(call.copy, dev)
      BY <2>3, MatchIsTracks DEF CopyInv, Starting
    <3>. QED
      BY <2>1, <2>3, <3>1, StoredEffect DEF Accepts, Tracks
  <2>5. \A i \in Index : nodes'[i] \in {nodes[i], Queue(nodes[i])}
    BY <1>5 DEF StartReturns
  <2>6. ASSUME NEW n \in Nodes PROVE /\ There(Queue(n)) = There(n) /\ Queue(n).subnet = n.subnet
                                     /\ n.phase # "created" => Queue(n).phase # "created"
    BY DEF There, Queue, Nodes, NodePhases
  <2>7. \A i \in Index : /\ There(nodes'[i]) = There(nodes[i]) /\ nodes'[i].subnet = nodes[i].subnet
                         /\ nodes[i].phase # "created" => nodes'[i].phase # "created"
    BY <1>0, <2>5, <2>6
  <2>. QED
    BY <2>3, <2>4, <2>7, OthersKeep DEF Exists, Deleting
<1>6. CASE DeleteDevnet
  <2>1. UNCHANGED <<dev, nodes, subnet, dir, work, left>> /\ call.at = "idle" /\ call'.at = "deleteNodes"
    BY <1>6 DEF DeleteDevnet, IdleCall
  <2>. QED
    BY <2>1 DEF ProgressInv, WorkerProgress, CopiesTold, DeletionProgress, ReportedNodesAreThere,
                DeletedLeavesNothing, Deleting
<1>7. ASSUME DeleteNodes \/ ReleaseSubnet \/ EraseDeletedDir
      PROVE  /\ ~Busy /\ UNCHANGED <<dev, work>> /\ Deleting /\ Deleting'
             /\ "devnet" \in left' <=> "devnet" \in left
             /\ CopiesTold' /\ DeletedLeavesNothing'
             /\ 0 .. dev'.total - 1 \subseteq Index
  <2>1. UNCHANGED <<dev, work>> /\ Deleting /\ Deleting' /\ ("devnet" \in left' <=> "devnet" \in left)
    BY <1>7 DEF DeleteNodes, ReleaseSubnet, EraseDeletedDir, Deleting, TypeOK, Calls, Succeeds, Remains
  <2>2. ~Busy
    BY <2>1 DEF CopyInv, DeletionIsAlone
  <2>3. 0 .. dev'.total - 1 \subseteq Index
    BY <1>0, <2>1 DEF Devnets, Index
  <2>. QED
    BY <2>1, <2>2, <2>3 DEF Busy, CopiesTold, DeletedLeavesNothing
<1>8. CASE DeleteNodes
  <2>1. /\ UNCHANGED <<subnet, dir>> /\ call'.at = "release"
        /\ \/ "nodes" \in left' /\ UNCHANGED nodes
           \/ \A i \in Index : nodes'[i].phase = "none"
    BY <1>8 DEF DeleteNodes, TypeOK, Calls, NoNode, Remains
  <2>2. "nodes" \in left' \/ Records' = {}
    BY <2>1 DEF Records
  <2>3. WorkerProgress'
    BY <1>7, <1>8, <2>1 DEF Busy, WorkerProgress, There
  <2>4. DeletionProgress'
    BY <2>1, <2>2 DEF DeletionProgress
  <2>5. ReportedNodesAreThere'
    BY <1>7, <1>8, <2>1 DEF ProgressInv, ReportedNodesAreThere
  <2>. QED
    BY <1>7, <1>8, <2>3, <2>4, <2>5 DEF ProgressInv
<1>9. CASE ReleaseSubnet \/ EraseDeletedDir
  <2>1. /\ UNCHANGED nodes /\ ("nodes" \in left' <=> "nodes" \in left)
        /\ \/ /\ call.at = "release" /\ call'.at = "eraseDir" /\ dir' = dir
              /\ "subnet" \in left' \/ subnet' = 0
           \/ /\ call.at = "eraseDir" /\ call'.at = "deleteDevnet" /\ subnet' = subnet
              /\ "subnet" \in left' <=> "subnet" \in left
              /\ "dir" \in left' \/ dir' = "none"
    BY <1>9 DEF ReleaseSubnet, EraseDeletedDir, TypeOK, Calls, Succeeds, Remains
  <2>2. "nodes" \in left' \/ (Records' = {} /\ \A i \in Index : ~There(nodes'[i]))
    BY <2>1 DEF ProgressInv, DeletionProgress, Records, There
  <2>3. WorkerProgress'
    BY <1>7, <1>9, <2>1, <2>2 DEF Busy, WorkerProgress
  <2>4. DeletionProgress'
    BY <2>1, <2>2 DEF ProgressInv, DeletionProgress
  <2>5. ReportedNodesAreThere'
    BY <1>7, <1>9, <2>1 DEF ProgressInv, ReportedNodesAreThere
  <2>. QED
    BY <1>7, <1>9, <2>3, <2>4, <2>5 DEF ProgressInv
<1>10. CASE DeleteReturns
  <2>1. /\ UNCHANGED <<nodes, subnet, dir, work>> /\ call.at = "deleteDevnet" /\ call'.at = "idle"
        /\ \A x \in {"nodes", "subnet", "dir"} : x \in left' <=> x \in left
        /\ \/ dev' = NoDevnet
           \/ Exists /\ dev' = dev /\ "devnet" \in left'
    BY <1>10 DEF DeleteReturns, IdleCall, Succeeds, Remains
  <2>2. ~Busy
    BY <2>1 DEF CopyInv, DeletionIsAlone, Deleting
  <2>3. WorkerProgress' /\ CopiesTold' /\ DeletionProgress'
    BY <2>1, <2>2 DEF ProgressInv, WorkerProgress, CopiesTold, DeletionProgress, Busy
  <2>4. ReportedNodesAreThere'
    BY <2>1, IdleTypes DEF ReportedNodesAreThere
  <2>5. DeletedLeavesNothing'
    BY <2>1 DEF ProgressInv, DeletionProgress, DeletedLeavesNothing, Records, Exists
  <2>. QED
    BY <2>3, <2>4, <2>5 DEF ProgressInv
<1>11. CASE DaemonRestart
  <2>1. /\ UNCHANGED <<dev, nodes, subnet, dir, left>> /\ call'.at = "idle" /\ ~Deleting
        /\ \A v \in Workers : work'[v].at = "idle"
    BY <1>11, IdleTypes DEF DaemonRestart, IdleCall
  <2>. QED
    BY <2>1, OthersKeep DEF Exists, Deleting
<1>12. CASE UNCHANGED vars
  BY <1>12, OthersKeep DEF vars, Exists
<1>. QED
  BY <1>1, <1>2, <1>3, <1>4, <1>5, <1>6, <1>8, <1>9, <1>10, <1>11, <1>12 DEF Commands, CallStep

\* Whether a deletion and a worker were busy at once is never forgotten.
LEMMA OverlapStays == [Next]_vars /\ overlap => overlap'
BY DEF Next, vars, WorkerStep, Take, ReconcilePending, EraseAndAllocate, OrchestratorPhase, CreateNode, ListNodes,
       QueueNodes, Complete, MarkDegraded, ReconcileStatus, Fails, Commands, CreateDevnet, UpdateDevnet, StopDevnet, StartDevnet,
       DeleteDevnet, CallStep, StartNodes, StartReturns, DeleteNodes, ReleaseSubnet, EraseDeletedDir,
       DeleteReturns, CheckHealth, DaemonRestart

LEMMA DevnetInductive == Spec => [](TypeOK /\ CopyInv /\ ProgressInv)
<1>1. Init => ProgressInv
  <2>. SUFFICES ASSUME Init PROVE ProgressInv
    OBVIOUS
  <2>1. /\ call.at = "idle" /\ \A w \in Workers : work[w].at = "idle"
        /\ \A i \in Index : nodes[i].phase = "none"
        /\ subnet = 0 /\ dir = "none" /\ dev.total = 0 /\ ~(0 > 0)
    BY IdleTypes DEF Init, IdleCall, NoNode, NoDevnet
  <2>2. Records = {}
    BY <2>1 DEF Records
  <2>. QED
    BY <2>1, <2>2
    DEF ProgressInv, WorkerProgress, CopiesTold, DeletionProgress, ReportedNodesAreThere, DeletedLeavesNothing, There
<1>2. TypeOK /\ CopyInv /\ ProgressInv /\ [Next]_vars => (TypeOK /\ CopyInv /\ ProgressInv)'
  <2>. SUFFICES ASSUME TypeOK, CopyInv, ProgressInv, [Next]_vars PROVE TypeOK' /\ CopyInv' /\ ProgressInv'
    OBVIOUS
  <2>1. TypeOK' /\ CopyInv'
    BY TypeStep, CopyStep
  <2>2. CASE overlap'
    BY <2>1, <2>2 DEF ProgressInv, WorkerProgress, CopiesTold, DeletionProgress, ReportedNodesAreThere,
                      DeletedLeavesNothing
  <2>3. CASE ~overlap'
    BY <2>1, <2>3, OverlapStays, WorkerProgressStep, OtherProgressStep DEF Next
  <2>. QED
    BY <2>1, <2>2, <2>3
<1>. QED
  BY <1>1, <1>2, CopyInit, PTL DEF Spec

\* A devnet that reports nodes has them, told to their controller and in the subnet it
\* holds, whatever was stopped, updated, started, provisioned twice, restarted or not
\* committed in between (devnet.go, provisioner/devnet.go); but for nodes that could not be
\* listed, records that an earlier deletion left, and a devnet that its own deletion left.
THEOREM NodesAreThere == Spec => []ReportedNodesAreThere
<1>1. ProgressInv => ReportedNodesAreThere
  BY DEF ProgressInv
<1>. QED
  BY <1>1, DevnetInductive, PTL

\* A DeleteDevnet that no worker ran into leaves nothing of the devnet behind but what one
\* of its own steps failed to remove, whatever became of the others (devnet_service.go).
THEOREM DeletionIsComplete == Spec => []DeletedLeavesNothing
<1>1. ProgressInv => DeletedLeavesNothing
  BY DEF ProgressInv
<1>. QED
  BY <1>1, DevnetInductive, PTL

=============================================================================
