--------------------------- MODULE PipelineProofs ---------------------------
(***************************************************************************)
(* For any number of actors and any number of calls: calls are executed    *)
(* once each and in the order of their keys, whoever is listed for a       *)
(* result is served when it comes, and the runtime implements the active   *)
(* objects of ActiveObjects.tla.                                           *)
(*                                                                         *)
(* PipelineInv of Futures.tla is inductive relative to IndInv, which       *)
(* FuturesProofs.tla proves.                                               *)
(***************************************************************************)
EXTENDS FuturesProofs, WellFoundedInduction

-----------------------------------------------------------------------------
(***************************************************************************)
(* What a message does to the results under way.                           *)
(***************************************************************************)

\* The results under way are where they were and in the same order.
SentAsBefore(a) ==
    /\ \A k \in Keys : IsSent(a, k)' <=> IsSent(a, k)
    /\ SentOrder(a) => SentOrder(a)'

\* A channel that does not change keeps its results.
LEMMA ChannelSame ==
    ASSUME NEW a \in Actors, mgmt'[a][a] = mgmt[a][a]
    PROVE  SentAsBefore(a)
  BY DEF SentAsBefore, IsSent, IsRegister, SentOrder

\* Sending anything but a result leaves the results under way alone.
LEMMA SendNotResult ==
    ASSUME TypeOK, NEW c \in Procs, NEW x \in Actors, NEW m \in Messages, Send(c, x, m),
           m.type # "REGISTER"
    PROVE  \A a \in Actors : SentAsBefore(a)
  <1>. SUFFICES ASSUME NEW a \in Actors PROVE SentAsBefore(a)
    OBVIOUS
  <1>0. Actors \subseteq Procs
    BY DEF Procs
  <1>1. CASE ~(c = a /\ x = a)
    <2>1. mgmt'[a][a] = mgmt[a][a]
      BY <1>0, <1>1, SendEffect
    <2>. QED
      BY <2>1, ChannelSame
  <1>2. CASE c = a /\ x = a
    <2>1. /\ Len(mgmt'[a][a]) = Len(mgmt[a][a]) + 1
          /\ mgmt'[a][a][Len(mgmt[a][a]) + 1] = m
          /\ \A i \in 1..Len(mgmt[a][a]) : mgmt'[a][a][i] = mgmt[a][a][i]
      BY <1>2, SendEffect
    <2>2. Len(mgmt[a][a]) \in Nat
      BY <1>0, EmptyFacts DEF TypeOK
    <2>3. \A i \in 1..Len(mgmt'[a][a]) : IsRegister(a, i)' => i \in 1..Len(mgmt[a][a]) /\ IsRegister(a, i)
      <3>. SUFFICES ASSUME NEW i \in 1..Len(mgmt'[a][a]), mgmt'[a][a][i].type = "REGISTER"
                    PROVE  i \in 1..Len(mgmt[a][a]) /\ mgmt[a][a][i].type = "REGISTER"
        BY DEF IsRegister
      <3>1. i # Len(mgmt[a][a]) + 1
        BY <2>1
      <3>2. i \in 1..Len(mgmt[a][a])
        BY <2>1, <2>2, <3>1
      <3>. QED
        BY <2>1, <3>2
    <2>4. \A i \in 1..Len(mgmt[a][a]) : i \in 1..Len(mgmt'[a][a]) /\ (IsRegister(a, i)' <=> IsRegister(a, i))
      <3>1. \A i \in 1..Len(mgmt[a][a]) : i \in 1..Len(mgmt'[a][a])
        BY <2>1, <2>2
      <3>. QED
        BY <2>1, <3>1, Zenon DEF IsRegister
    <2>5. \A k \in Keys : IsSent(a, k)' <=> IsSent(a, k)
      BY <2>1, <2>3, <2>4 DEF IsSent
    <2>6. SentOrder(a) => SentOrder(a)'
      BY <2>1, <2>3, <2>4 DEF SentOrder
    <2>. QED
      BY <2>5, <2>6 DEF SentAsBefore
  <1>. QED
    BY <1>1, <1>2

\* Receiving anything but a result leaves the results under way alone.
LEMMA ReceiveNotResult ==
    ASSUME TypeOK, NEW c \in Procs, NEW x \in Actors, NEW t, Receive(x, c, t), t # "REGISTER"
    PROVE  \A a \in Actors : SentAsBefore(a)
  <1>. SUFFICES ASSUME NEW a \in Actors PROVE SentAsBefore(a)
    OBVIOUS
  <1>0. Actors \subseteq Procs
    BY DEF Procs
  <1>1. CASE ~(c = a /\ x = a)
    <2>1. mgmt'[a][a] = mgmt[a][a]
      BY <1>0, <1>1, ReceiveEffect
    <2>. QED
      BY <2>1, ChannelSame
  <1>2. CASE c = a /\ x = a
    <2>1. /\ Len(mgmt[a][a]) \in Nat /\ Len(mgmt[a][a]) >= 1
          /\ Len(mgmt'[a][a]) = Len(mgmt[a][a]) - 1
          /\ \A i \in 1..Len(mgmt'[a][a]) : mgmt'[a][a][i] = mgmt[a][a][i + 1]
          /\ mgmt[a][a][1].type = t
      BY <1>2, ReceiveEffect
    <2>2. \A i \in 1..Len(mgmt'[a][a]) : i + 1 \in 1..Len(mgmt[a][a]) /\ (IsRegister(a, i)' <=> IsRegister(a, i + 1))
      BY <2>1 DEF IsRegister
    <2>3. \A i \in 1..Len(mgmt[a][a]) : IsRegister(a, i) => i - 1 \in 1..Len(mgmt'[a][a]) /\ IsRegister(a, i - 1)'
                                                         /\ mgmt'[a][a][i - 1] = mgmt[a][a][i]
      <3>. SUFFICES ASSUME NEW i \in 1..Len(mgmt[a][a]), IsRegister(a, i)
                    PROVE  i - 1 \in 1..Len(mgmt'[a][a]) /\ IsRegister(a, i - 1)' /\ mgmt'[a][a][i - 1] = mgmt[a][a][i]
        OBVIOUS
      <3>1. i # 1
        BY <2>1 DEF IsRegister
      <3>2. i - 1 \in 1..Len(mgmt'[a][a]) /\ (i - 1) + 1 = i
        BY <2>1, <3>1
      <3>3. mgmt'[a][a][i - 1] = mgmt[a][a][i]
        BY <2>1, <3>2
      <3>. QED
        BY <3>2, <3>3 DEF IsRegister
    <2>5. \A k \in Keys : IsSent(a, k)' <=> IsSent(a, k)
      <3>1. ASSUME NEW k \in Keys, IsSent(a, k)' PROVE IsSent(a, k)
        BY <2>1, <2>2, <3>1 DEF IsSent
      <3>2. ASSUME NEW k \in Keys, IsSent(a, k) PROVE IsSent(a, k)'
        <4>1. PICK i \in 1..Len(mgmt[a][a]) : IsRegister(a, i) /\ mgmt[a][a][i].key = k
          BY <3>2 DEF IsSent
        <4>. QED
          BY <2>3, <4>1 DEF IsSent
      <3>. QED
        BY <3>1, <3>2
    <2>6. SentOrder(a) => SentOrder(a)'
      <3>. SUFFICES ASSUME SentOrder(a), NEW i \in 1..Len(mgmt'[a][a]), NEW j \in 1..Len(mgmt'[a][a]),
                           i < j, IsRegister(a, i)', IsRegister(a, j)'
                    PROVE  mgmt'[a][a][i].key < mgmt'[a][a][j].key
        BY DEF SentOrder
      <3>1. i + 1 < j + 1
        BY <2>1
      <3>. QED
        BY <2>1, <2>2, <3>1 DEF SentOrder
    <2>. QED
      BY <2>5, <2>6 DEF SentAsBefore
  <1>. QED
    BY <1>1, <1>2

\* A result that is sent comes after the results under way.
LEMMA SendResult ==
    ASSUME TypeOK, NEW a \in Actors, NEW m \in RegisterMsgs, Send(a, a, m),
           SentOrder(a), \A k \in Keys : IsSent(a, k) => k < m.key
    PROVE  /\ SentOrder(a)'
           /\ \A k \in Keys : IsSent(a, k)' <=> (IsSent(a, k) \/ k = m.key)
           /\ \A b \in Actors : b # a => SentAsBefore(b)
  <1>0. Actors \subseteq Procs /\ m \in Messages /\ m.type = "REGISTER" /\ m.key \in Keys
    BY DEF Procs, Messages, RegisterMsgs
  <1>1. /\ Len(mgmt'[a][a]) = Len(mgmt[a][a]) + 1
        /\ mgmt'[a][a][Len(mgmt[a][a]) + 1] = m
        /\ \A i \in 1..Len(mgmt[a][a]) : mgmt'[a][a][i] = mgmt[a][a][i]
        /\ \A b \in Actors : b # a => mgmt'[b][b] = mgmt[b][b]
    BY <1>0, SendEffect
  <1>2. Len(mgmt[a][a]) \in Nat /\ mgmt[a][a] \in Seq(Messages)
    BY <1>0, EmptyFacts DEF TypeOK
  <1>3. \A i \in 1..Len(mgmt[a][a]) : i \in 1..Len(mgmt'[a][a]) /\ (IsRegister(a, i)' <=> IsRegister(a, i))
    <2>1. \A i \in 1..Len(mgmt[a][a]) : i \in 1..Len(mgmt'[a][a])
      BY <1>1, <1>2
    <2>. QED
      BY <1>1, <2>1, Zenon DEF IsRegister
  <1>4. \A i \in 1..Len(mgmt'[a][a]) : i \in 1..Len(mgmt[a][a]) \/ i = Len(mgmt[a][a]) + 1
    BY <1>1, <1>2
  <1>5. Len(mgmt[a][a]) + 1 \in 1..Len(mgmt'[a][a])
    BY <1>1, <1>2
  <1>6. \A i \in 1..Len(mgmt[a][a]) : IsRegister(a, i) => mgmt[a][a][i].key \in Keys /\ mgmt[a][a][i].key < m.key
    <2>. SUFFICES ASSUME NEW i \in 1..Len(mgmt[a][a]), IsRegister(a, i)
                  PROVE  mgmt[a][a][i].key \in Keys /\ mgmt[a][a][i].key < m.key
      OBVIOUS
    <2>1. mgmt[a][a][i] \in RegisterMsgs
      BY <1>2, MessageTypes DEF IsRegister
    <2>2. mgmt[a][a][i].key \in Keys
      BY <2>1 DEF RegisterMsgs
    <2>. QED
      BY <2>2 DEF IsSent
  <1>7. \A k \in Keys : IsSent(a, k)' <=> (IsSent(a, k) \/ k = m.key)
    <2>1. ASSUME NEW k \in Keys, IsSent(a, k)' PROVE IsSent(a, k) \/ k = m.key
      BY <1>1, <1>3, <1>4, <2>1 DEF IsSent
    <2>2. ASSUME NEW k \in Keys, IsSent(a, k) PROVE IsSent(a, k)'
      BY <1>1, <1>3, <2>2 DEF IsSent
    <2>3. ASSUME NEW k \in Keys, k = m.key PROVE IsSent(a, k)'
      BY <1>0, <1>1, <1>5, <2>3 DEF IsSent, IsRegister
    <2>. QED
      BY <2>1, <2>2, <2>3
  <1>8. SentOrder(a)'
    <2>. SUFFICES ASSUME NEW i \in 1..Len(mgmt'[a][a]), NEW j \in 1..Len(mgmt'[a][a]),
                         i < j, IsRegister(a, i)', IsRegister(a, j)'
                  PROVE  mgmt'[a][a][i].key < mgmt'[a][a][j].key
      BY DEF SentOrder
    <2>1. i \in 1..Len(mgmt[a][a])
      BY <1>1, <1>2
    <2>2. CASE j = Len(mgmt[a][a]) + 1
      BY <1>1, <1>3, <1>6, <2>1, <2>2
    <2>3. CASE j \in 1..Len(mgmt[a][a])
      BY <1>1, <1>3, <2>1, <2>3 DEF SentOrder
    <2>. QED
      BY <1>4, <2>2, <2>3
  <1>. QED
    BY <1>1, <1>7, <1>8, ChannelSame

\* A result that is received is the first of the results under way.
LEMMA ReceiveResult ==
    ASSUME IndInv, NEW c \in Procs, NEW a \in Actors, Receive(a, c, "REGISTER"), SentOrder(a),
           NEW h, h = Head(mgmt[c][a]).key
    PROVE  /\ c = a
           /\ h \in Keys
           /\ IsSent(a, h)
           /\ \A k \in Keys : IsSent(a, k) => h <= k
           /\ SentOrder(a)'
           /\ \A k \in Keys : IsSent(a, k)' <=> (IsSent(a, k) /\ k # h)
           /\ \A b \in Actors : b # a => SentAsBefore(b)
  <1>0. Actors \subseteq Procs /\ TypeOK /\ ChannelInv
    BY DEF Procs, IndInv
  <1>r. /\ mgmt[c][a] \in Seq(Messages) /\ mgmt[c][a] # << >>
        /\ Head(mgmt[c][a]).type = "REGISTER"
        /\ mgmt' = [mgmt EXCEPT ![c][a] = Tail(@)]
    BY <1>0 DEF TypeOK, Receive
  <1>t. mgmt'[c][a] = Tail(mgmt[c][a]) /\ \A b \in Actors : ~(b = c /\ b = a) => mgmt'[b][b] = mgmt[b][b]
    BY <1>0, <1>r DEF TypeOK
  <1>1. /\ Len(mgmt[c][a]) \in Nat /\ Len(mgmt[c][a]) >= 1
        /\ Len(mgmt'[c][a]) = Len(mgmt[c][a]) - 1
        /\ \A i \in 1..Len(mgmt'[c][a]) : mgmt'[c][a][i] = mgmt[c][a][i + 1]
    <2>. DEFINE ch == mgmt[c][a]
    <2>1. ch \in Seq(Messages) /\ ch # << >>
      BY <1>r
    <2>. HIDE DEF ch
    <2>2. /\ Len(ch) \in Nat /\ Len(ch) >= 1 /\ Len(Tail(ch)) = Len(ch) - 1
          /\ \A i \in 1..Len(Tail(ch)) : Tail(ch)[i] = ch[i + 1]
      BY <2>1, TailFacts
    <2>. QED
      BY <1>t, <2>2, Zenon DEF ch
  <1>h. Head(mgmt[c][a]) = mgmt[c][a][1] /\ Head(mgmt[c][a]).type = "REGISTER"
    BY <1>r, TailFacts
  <1>2. c = a
    <2>1. 1 \in 1..Len(mgmt[c][a]) /\ mgmt[c][a][1].type = "REGISTER"
      BY <1>1, <1>h
    <2>. QED
      BY <1>0, <2>1 DEF ChannelInv
  <1>3. \A b \in Actors : b # a => mgmt'[b][b] = mgmt[b][b]
    BY <1>2, <1>t
  <1>4. mgmt[a][a] \in Seq(Messages)
    BY <1>0 DEF TypeOK
  <1>5. \A i \in 1..Len(mgmt[a][a]) : IsRegister(a, i) => mgmt[a][a][i].key \in Keys
    <2>. SUFFICES ASSUME NEW i \in 1..Len(mgmt[a][a]), IsRegister(a, i) PROVE mgmt[a][a][i].key \in Keys
      OBVIOUS
    <2>1. mgmt[a][a][i] \in RegisterMsgs
      BY <1>4, MessageTypes DEF IsRegister
    <2>. QED
      BY <2>1 DEF RegisterMsgs
  <1>6. 1 \in 1..Len(mgmt[a][a]) /\ IsRegister(a, 1) /\ h = mgmt[a][a][1].key
    BY <1>1, <1>2, <1>h DEF IsRegister
  <1>7. h \in Keys /\ IsSent(a, h)
    BY <1>5, <1>6 DEF IsSent
  <1>8. \A i \in 1..Len(mgmt[a][a]) : IsRegister(a, i) => i = 1 \/ h < mgmt[a][a][i].key
    BY <1>1, <1>2, <1>6 DEF SentOrder
  <1>9. \A k \in Keys : IsSent(a, k) => h <= k
    BY SMTT(20), <1>6, <1>7, <1>8 DEF IsSent, Keys
  <1>10. \A i \in 1..Len(mgmt'[a][a]) : i + 1 \in 1..Len(mgmt[a][a]) /\ i + 1 # 1 /\ (IsRegister(a, i)' <=> IsRegister(a, i + 1))
    <2>1. \A i \in 1..Len(mgmt'[a][a]) : i + 1 \in 1..Len(mgmt[a][a]) /\ i + 1 # 1
      BY <1>1, <1>2
    <2>2. \A i \in 1..Len(mgmt'[a][a]) : mgmt'[a][a][i] = mgmt[a][a][i + 1]
      BY <1>1, <1>2
    <2>. QED
      BY <2>1, <2>2 DEF IsRegister
  <1>11. \A i \in 1..Len(mgmt[a][a]) : i # 1 /\ IsRegister(a, i) =>
            i - 1 \in 1..Len(mgmt'[a][a]) /\ IsRegister(a, i - 1)' /\ mgmt'[a][a][i - 1] = mgmt[a][a][i]
    <2>. SUFFICES ASSUME NEW i \in 1..Len(mgmt[a][a]), i # 1, IsRegister(a, i)
                  PROVE  i - 1 \in 1..Len(mgmt'[a][a]) /\ IsRegister(a, i - 1)' /\ mgmt'[a][a][i - 1] = mgmt[a][a][i]
      OBVIOUS
    <2>1. i - 1 \in 1..Len(mgmt'[a][a]) /\ (i - 1) + 1 = i
      BY <1>1, <1>2
    <2>2. mgmt'[a][a][i - 1] = mgmt[a][a][i]
      BY <1>1, <1>2, <2>1
    <2>. QED
      BY <2>1, <2>2 DEF IsRegister
  <1>12. \A k \in Keys : IsSent(a, k)' <=> (IsSent(a, k) /\ k # h)
    <2>1. ASSUME NEW k \in Keys, IsSent(a, k)' PROVE IsSent(a, k) /\ k # h
      <3>1. PICK i \in 1..Len(mgmt'[a][a]) : IsRegister(a, i)' /\ mgmt'[a][a][i].key = k
        BY <2>1 DEF IsSent
      <3>2. i + 1 \in 1..Len(mgmt[a][a]) /\ i + 1 # 1 /\ IsRegister(a, i + 1) /\ mgmt[a][a][i + 1].key = k
        BY <1>1, <1>2, <1>10, <3>1
      <3>. QED
        BY <1>7, <1>8, <3>2 DEF IsSent, Keys
    <2>2. ASSUME NEW k \in Keys, IsSent(a, k), k # h PROVE IsSent(a, k)'
      <3>1. PICK i \in 1..Len(mgmt[a][a]) : IsRegister(a, i) /\ mgmt[a][a][i].key = k
        BY <2>2 DEF IsSent
      <3>2. i # 1
        BY <1>6, <2>2, <3>1
      <3>. QED
        BY <1>11, <3>1, <3>2 DEF IsSent
    <2>. QED
      BY <2>1, <2>2
  <1>13. SentOrder(a)'
    <2>. SUFFICES ASSUME NEW i \in 1..Len(mgmt'[a][a]), NEW j \in 1..Len(mgmt'[a][a]),
                         i < j, IsRegister(a, i)', IsRegister(a, j)'
                  PROVE  mgmt'[a][a][i].key < mgmt'[a][a][j].key
      BY DEF SentOrder
    <2>1. i + 1 < j + 1
      BY <1>1
    <2>. QED
      BY <1>1, <1>2, <1>10, <2>1 DEF SentOrder
  <1>. QED
    BY <1>2, <1>3, <1>7, <1>9, <1>12, <1>13, ChannelSame

-----------------------------------------------------------------------------
(***************************************************************************)
(* Each part of the invariant under the changes that leave it alone.       *)
(***************************************************************************)
USE ClientAssumption, BoundAssumption, KindsAssumption, NoneAssumption

\* The order of the calls of one actor.
Pipelined(a) ==
    /\ QueueOrder(a)
    /\ SentOrder(a)
    /\ \E r \in 0..Executed(a) : RegisteredUpTo(a, r)

\* A release is never taken back.
LEMMA ReleasedStay ==
    ASSUME released \subseteq released', NEW f, ReleasedBySomebody(f)
    PROVE  ReleasedBySomebody(f)'
  BY DEF ReleasedBySomebody

\* The order of an actor's calls is kept when no call is executed and no
\* result registered, whatever is released.
LEMMA PipelineKept ==
    ASSUME NEW a \in Actors, Pipelined(a), SentAsBefore(a),
           QueueOrder(a)', Executed(a)' = Executed(a), released \subseteq released',
           \A k \in Keys : \/ store'[a][k] = store[a][k]
                           \/ store'[a][k] = None /\ ReleasedBySomebody([at |-> a, key |-> k])
    PROVE  Pipelined(a)'
  <1>1. PICK r \in 0..Executed(a) : RegisteredUpTo(a, r)
    BY DEF Pipelined
  <1>2. ASSUME NEW k \in Keys PROVE IsSent(a, k)' <=> (r <= k /\ k < Executed(a)')
    BY <1>1 DEF RegisteredUpTo, SentAsBefore
  <1>3. ASSUME NEW k \in Keys, k < r, store'[a][k] = None
        PROVE  ReleasedBySomebody([at |-> a, key |-> k])'
    <2>1. ReleasedBySomebody([at |-> a, key |-> k])
      BY <1>1, <1>3 DEF RegisteredUpTo
    <2>. QED
      BY <2>1, ReleasedStay
  <1>4. ASSUME NEW k \in Keys, r <= k PROVE store'[a][k] = None
    BY <1>1, <1>4 DEF RegisteredUpTo
  <1>5. RegisteredUpTo(a, r)'
    BY <1>2, <1>3, <1>4 DEF RegisteredUpTo
  <1>6. SentOrder(a)'
    BY DEF Pipelined, SentAsBefore
  <1>7. r \in 0..Executed(a)'
    OBVIOUS
  <1>. QED
    BY <1>5, <1>6, <1>7 DEF Pipelined

\* The queue and the running request do not change.
LEMMA QueueKept ==
    ASSUME NEW a \in Actors, QueueOrder(a), nextKey'[a] = nextKey[a], queue'[a] = queue[a],
           worker'[a].pc = "idle" <=> worker[a].pc = "idle", worker'[a].req = worker[a].req
    PROVE  QueueOrder(a)' /\ Executed(a)' = Executed(a)
  <1>1. Executed(a)' = Executed(a)
    BY DEF Executed
  <1>. QED
    BY <1>1 DEF QueueOrder

\* Steps that touch neither the calls of an actor nor its tables.
LEMMA QuietPipeline ==
    ASSUME IndInv, PipelineInv, \A a \in Actors : SentAsBefore(a),
           nextKey' = nextKey, queue' = queue, store' = store, pending' = pending,
           \A a \in Actors : /\ worker'[a].pc = "idle" <=> worker[a].pc = "idle"
                             /\ worker'[a].req = worker[a].req,
           released \subseteq released'
    PROVE  /\ PipelineOrder' /\ ListedInv'
           /\ \A a \in Actors : Executed(a)' = Executed(a)
  <1>1. ListedInv'
    BY DEF PipelineInv, ListedInv
  <1>2. ASSUME NEW a \in Actors PROVE Pipelined(a)' /\ Executed(a)' = Executed(a)
    <2>1. Pipelined(a)
      BY DEF PipelineInv, PipelineOrder, Pipelined
    <2>2. QueueOrder(a)' /\ Executed(a)' = Executed(a)
      BY <2>1, QueueKept DEF Pipelined
    <2>. QED
      BY <2>1, <2>2, PipelineKept
  <1>. QED
    BY <1>1, <1>2 DEF PipelineOrder, Pipelined

\* Sending a release that is recorded, or anything else, keeps ReleaseInv.
LEMMA SendRelease ==
    ASSUME IndInv, ReleaseInv, NEW c \in Procs, NEW x \in Actors, NEW m \in Messages, Send(c, x, m),
           m.type = "RELEASE" => <<c, [at |-> x, key |-> m.key]>> \in released',
           askedDelete' = askedDelete, released \subseteq released'
    PROVE  ReleaseInv'
  <1>1. ASSUME NEW d \in Procs, NEW b \in Actors, NEW i \in 1..Len(mgmt'[d][b]), mgmt'[d][b][i].type = "RELEASE"
        PROVE  <<d, [at |-> b, key |-> mgmt'[d][b][i].key]>> \in released'
    <2>1. CASE ~(d = c /\ b = x)
      <3>1. mgmt'[d][b] = mgmt[d][b]
        BY <2>1, SendEffect DEF IndInv
      <3>. QED
        BY <1>1, <3>1 DEF ReleaseInv
    <2>2. CASE d = c /\ b = x
      <3>1. /\ Len(mgmt'[c][x]) = Len(mgmt[c][x]) + 1
            /\ mgmt'[c][x][Len(mgmt[c][x]) + 1] = m
            /\ \A j \in 1..Len(mgmt[c][x]) : mgmt'[c][x][j] = mgmt[c][x][j]
        BY SendEffect DEF IndInv
      <3>2. Len(mgmt[c][x]) \in Nat
        BY EmptyFacts DEF IndInv, TypeOK
      <3>3. CASE i = Len(mgmt[c][x]) + 1
        BY <1>1, <2>2, <3>1, <3>3
      <3>4. CASE i # Len(mgmt[c][x]) + 1
        <4>1. i \in 1..Len(mgmt[c][x])
          BY <2>2, <3>1, <3>2, <3>4
        <4>2. mgmt'[d][b][i] = mgmt[d][b][i]
          BY <2>2, <3>1, <4>1
        <4>. QED
          BY <1>1, <2>2, <4>1, <4>2 DEF ReleaseInv
      <3>. QED
        BY <3>3, <3>4
    <2>. QED
      BY <2>1, <2>2
  <1>2. ASSUME NEW a \in Actors, NEW k \in askedDelete'[a] PROVE ReleasedBySomebody([at |-> a, key |-> k])'
    BY ReleasedStay DEF ReleaseInv
  <1>. QED
    BY <1>1, <1>2 DEF ReleaseInv

\* Receiving a message keeps ReleaseInv if what is marked was released.
LEMMA ReceiveRelease ==
    ASSUME IndInv, ReleaseInv, NEW c \in Procs, NEW x \in Actors, NEW t, Receive(x, c, t),
           released' = released,
           \A a \in Actors : \A k \in askedDelete'[a] : ReleasedBySomebody([at |-> a, key |-> k])
    PROVE  ReleaseInv'
  <1>1. ASSUME NEW d \in Procs, NEW b \in Actors, NEW i \in 1..Len(mgmt'[d][b]), mgmt'[d][b][i].type = "RELEASE"
        PROVE  <<d, [at |-> b, key |-> mgmt'[d][b][i].key]>> \in released'
    <2>1. CASE ~(d = c /\ b = x)
      <3>1. mgmt'[d][b] = mgmt[d][b]
        BY <2>1, ReceiveEffect DEF IndInv
      <3>. QED
        BY <1>1, <3>1 DEF ReleaseInv
    <2>2. CASE d = c /\ b = x
      <3>1. /\ Len(mgmt[c][x]) \in Nat
            /\ Len(mgmt'[c][x]) = Len(mgmt[c][x]) - 1
            /\ \A j \in 1..Len(mgmt'[c][x]) : mgmt'[c][x][j] = mgmt[c][x][j + 1]
        BY ReceiveEffect DEF IndInv
      <3>2. i + 1 \in 1..Len(mgmt[d][b]) /\ mgmt'[d][b][i] = mgmt[d][b][i + 1]
        BY <2>2, <3>1
      <3>. QED
        BY <1>1, <3>2 DEF ReleaseInv
    <2>. QED
      BY <2>1, <2>2
  <1>2. ASSUME NEW a \in Actors, NEW k \in askedDelete'[a] PROVE ReleasedBySomebody([at |-> a, key |-> k])'
    BY DEF ReleasedBySomebody
  <1>. QED
    BY <1>1, <1>2 DEF ReleaseInv

\* No call is made and none is accepted.
LEMMA ArgumentsKept ==
    ASSUME ArgumentInv, nextKey' = nextKey, calls' = calls,
           wait'[Client] = wait[Client] \/ wait'[Client] = None \/ wait'[Client].msg.type # "CALL"
    PROVE  ArgumentInv'
  <1>1. \A f : KnownKey(f)' <=> KnownKey(f)
    BY DEF KnownKey
  <1>. QED
    BY <1>1 DEF ArgumentInv

\* No answer is sent.
LEMMA ServedKept ==
    ASSUME ServedInv, \A a \in Actors : Executed(a)' = Executed(a),
           \A a \in Actors, c \in Procs : reply'[a][c] # << >> => reply[a][c] # << >> /\ wait'[c] = wait[c]
    PROVE  ServedInv'
  <1>. SUFFICES ASSUME NEW a \in Actors, NEW c \in Procs, reply'[a][c] # << >>, wait'[c].msg.type = "GET"
                PROVE  wait'[c].msg.key < Executed(a)'
    BY DEF ServedInv
  <1>. QED
    BY DEF ServedInv

\* The future a process asks for is the one of an accepted call.
LEMMA AskedIsKnown ==
    ASSUME IndInv, ArgumentInv, NEW c \in Procs, wait[c] # None, wait[c].msg.type = "GET"
    PROVE  wait[c].msg.key < nextKey[wait[c].to]
  <1>1. CASE c = Client
    <2>. DEFINE f == [at |-> wait[Client].to, key |-> wait[Client].msg.key]
    <2>1. wait[Client] \in Questions
      BY <1>1 DEF IndInv, TypeOK
    <2>2. wait[Client].to \in Actors /\ wait[Client].msg \in GetMsgs
      BY <1>1, <2>1 DEF Questions, CallMsgs
    <2>3. f \in FutureRefs
      BY <2>2 DEF FutureRefs, GetMsgs
    <2>4. ticketOf[f] # None
      BY <1>1 DEF IndInv, HoldsInv
    <2>5. f.key < Len(calls[f.at])
      BY <2>3, <2>4 DEF IndInv, ValueInv, TicketInv
    <2>. QED
      BY <1>1, <2>2, <2>5 DEF IndInv, KeyInv
  <1>2. CASE c # Client
    <2>1. c \in Actors
      BY <1>2 DEF Procs
    <2>2. /\ worker[c].pc = "blocked"
          /\ worker[c].req.msg.kind \in UsesFuture
          /\ wait[c] = [to |-> worker[c].req.msg.arg.at,
                        msg |-> [type |-> "GET", key |-> worker[c].req.msg.arg.key]]
      BY <2>1 DEF IndInv, WorkerInv
    <2>3. /\ worker[c].req.key + 1 \in 1..Len(calls[c])
          /\ calls[c][worker[c].req.key + 1] = worker[c].req.msg
          /\ worker[c].req.msg \in CallMsgs
      <3>1. IsCall(c, worker[c].req.key, worker[c].req.msg)
        BY <2>1, <2>2 DEF IndInv, ValueInv, RunningInv
      <3>2. worker[c].req \in Requests
        BY <2>1, <2>2 DEF IndInv, TypeOK, WorkerStates, WorkerInv
      <3>3. calls[c] \in Seq(CallMsgs)
        BY <2>1 DEF IndInv, TypeOK
      <3>4. worker[c].req.key \in Keys /\ worker[c].req.msg \in CallMsgs
        BY <3>2 DEF Requests
      <3>5. worker[c].req.key \in Nat /\ Len(calls[c]) \in Nat
        BY <3>3, <3>4, EmptyFacts DEF Keys
      <3>. QED
        BY <3>1, <3>4, <3>5 DEF IsCall
    <2>4. worker[c].req.msg.arg # None
      BY <2>2, <2>3 DEF CallMsgs
    <2>5. KnownKey(worker[c].req.msg.arg)
      BY <2>1, <2>3, <2>4 DEF ArgumentInv
    <2>. QED
      BY <2>2, <2>5 DEF KnownKey
  <1>. QED
    BY <1>1, <1>2

-----------------------------------------------------------------------------
(***************************************************************************)
(* The program's steps.                                                    *)
(***************************************************************************)

\* A process that asks was not blocked, so nothing is under way to it.
LEMMA AskServed ==
    ASSUME IndInv, ServedInv, NEW c \in Procs, NEW x \in Actors, NEW m \in CallMsgs \cup GetMsgs,
           Ask(c, x, m), wait[c] = None, reply' = reply, \A a \in Actors : Executed(a)' = Executed(a)
    PROVE  ServedInv'
  <1>1. \A a \in Actors, d \in Procs : reply[a][d] # << >> => wait[d] # None
    BY DEF IndInv, ReplyInv
  <1>2. \A d \in Procs : d # c => wait'[d] = wait[d]
    BY AskEffect DEF IndInv
  <1>. QED
    BY <1>1, <1>2, ServedKept

\* A process that takes its answer leaves no other one behind.
LEMMA TakeServed ==
    ASSUME IndInv, ServedInv, NEW c \in Procs, TakeAnswer(c),
           \A a \in Actors : Executed(a)' = Executed(a)
    PROVE  ServedInv'
  <1>1. /\ \A a \in Actors : reply'[a][c] = << >>
        /\ \A a \in Actors, d \in Procs : d # c => reply'[a][d] = reply[a][d] /\ wait'[d] = wait[d]
    BY TakeAnswerEffect
  <1>. QED
    BY <1>1, ServedKept

LEMMA ActiveCallPipeline ==
    ASSUME IndInv, PipelineInv, NEW a \in Actors, NEW kind \in Kinds, NEW arg \in FutureRefs \cup {None},
           ActiveCall(a, kind, arg)
    PROVE  PipelineInv' /\ \A b \in Actors : Executed(b)' = Executed(b)
  <1>. DEFINE m == [type |-> "CALL", ticket |-> ncalls + 1, kind |-> kind, arg |-> arg]
  <1>1. /\ Ask(Client, a, m) /\ wait[Client] = None /\ ncalls < MaxCalls
        /\ IF kind \in UsesFuture THEN arg # None /\ Holds(arg) ELSE arg = None
        /\ reply' = reply /\ nextKey' = nextKey /\ queue' = queue /\ store' = store /\ pending' = pending
        /\ askedDelete' = askedDelete /\ worker' = worker /\ released' = released /\ calls' = calls
    BY DEF ActiveCall, tables, ProgramRunning
  <1>2. m \in CallMsgs
    <2>1. ncalls + 1 \in Tickets
      <3>1. ncalls \in 0..MaxCalls /\ ncalls < MaxCalls
        BY <1>1 DEF IndInv, TypeOK
      <3>. QED
        BY <3>1 DEF Tickets
    <2>2. kind \in UsesFuture <=> arg # None
      BY <1>1
    <2>. QED
      BY <2>1, <2>2 DEF CallMsgs
  <1>3. /\ Client \in Procs /\ m \in Messages /\ m.type = "CALL" /\ Send(Client, a, m)
        /\ wait'[Client] = [to |-> a, msg |-> m]
    BY <1>1, <1>2, AskEffect DEF Procs, IndInv
  <1>4. \A b \in Actors : SentAsBefore(b)
    BY <1>3, SendNotResult DEF IndInv
  <1>5. PipelineOrder' /\ ListedInv' /\ \A b \in Actors : Executed(b)' = Executed(b)
    BY <1>1, <1>4, QuietPipeline
  <1>6. ReleaseInv'
    BY <1>1, <1>3, SendRelease DEF PipelineInv
  <1>7. ServedInv'
    BY <1>1, <1>2, <1>3, <1>5, AskServed DEF PipelineInv
  <1>8. ArgumentInv'
    <2>1. arg # None => KnownKey(arg)
      <3>. SUFFICES ASSUME arg # None PROVE KnownKey(arg)
        OBVIOUS
      <3>1. arg \in FutureRefs /\ ticketOf[arg] # None
        BY <1>1 DEF Holds
      <3>2. arg.key < Len(calls[arg.at])
        BY <3>1 DEF IndInv, ValueInv, TicketInv
      <3>. QED
        BY <3>1, <3>2 DEF KnownKey, FutureRefs, IndInv, KeyInv
    <2>2. \A f : KnownKey(f)' <=> KnownKey(f)
      BY <1>1 DEF KnownKey
    <2>3. wait'[Client].msg.arg = arg
      BY <1>3
    <2>. QED
      BY <1>1, <2>1, <2>2, <2>3 DEF ArgumentInv, PipelineInv
  <1>. QED
    BY <1>5, <1>6, <1>7, <1>8 DEF PipelineInv

LEMMA GetFuturePipeline ==
    ASSUME IndInv, PipelineInv, NEW f \in FutureRefs, GetFuture(f)
    PROVE  PipelineInv' /\ \A b \in Actors : Executed(b)' = Executed(b)
  <1>. DEFINE m == [type |-> "GET", key |-> f.key]
  <1>1. /\ Ask(Client, f.at, m) /\ wait[Client] = None
        /\ reply' = reply /\ nextKey' = nextKey /\ queue' = queue /\ store' = store /\ pending' = pending
        /\ askedDelete' = askedDelete /\ worker' = worker /\ released' = released /\ calls' = calls
    BY DEF GetFuture, tables, ProgramRunning
  <1>2. f.at \in Actors /\ m \in GetMsgs /\ Client \in Procs
    BY DEF FutureRefs, GetMsgs, Procs
  <1>3. /\ m \in Messages /\ m.type = "GET" /\ Send(Client, f.at, m)
        /\ wait'[Client] = [to |-> f.at, msg |-> m]
    BY <1>1, <1>2, AskEffect DEF IndInv
  <1>4. \A b \in Actors : SentAsBefore(b)
    BY <1>2, <1>3, SendNotResult DEF IndInv
  <1>5. PipelineOrder' /\ ListedInv' /\ \A b \in Actors : Executed(b)' = Executed(b)
    BY <1>1, <1>4, QuietPipeline
  <1>6. ReleaseInv'
    BY <1>1, <1>2, <1>3, SendRelease DEF PipelineInv
  <1>7. ServedInv'
    BY <1>1, <1>2, <1>5, AskServed DEF PipelineInv
  <1>8. ArgumentInv'
    BY <1>1, <1>3, ArgumentsKept DEF PipelineInv
  <1>. QED
    BY <1>5, <1>6, <1>7, <1>8 DEF PipelineInv

\* A process that takes its answer changes nothing of the actors' calls.
LEMMA TakePipeline ==
    ASSUME IndInv, PipelineInv, NEW c \in Procs, TakeAnswer(c),
           mgmt' = mgmt, nextKey' = nextKey, queue' = queue, store' = store, pending' = pending,
           askedDelete' = askedDelete, released' = released, calls' = calls,
           \A a \in Actors : /\ worker'[a].pc = "idle" <=> worker[a].pc = "idle"
                             /\ worker'[a].req = worker[a].req
    PROVE  PipelineInv' /\ \A a \in Actors : Executed(a)' = Executed(a)
  <1>1. \A b \in Actors : SentAsBefore(b)
    BY ChannelSame
  <1>2. PipelineOrder' /\ ListedInv' /\ \A b \in Actors : Executed(b)' = Executed(b)
    BY <1>1, QuietPipeline
  <1>3. ReleaseInv'
    BY DEF PipelineInv, ReleaseInv, ReleasedBySomebody
  <1>4. ServedInv'
    BY <1>2, TakeServed DEF PipelineInv
  <1>5. ArgumentInv'
    <2>1. wait'[Client] = None \/ wait'[Client] = wait[Client]
      BY TakeAnswerEffect DEF Procs
    <2>. QED
      BY <2>1, ArgumentsKept DEF PipelineInv
  <1>. QED
    BY <1>2, <1>3, <1>4, <1>5 DEF PipelineInv

LEMMA ReceiveKeyPipeline ==
    ASSUME IndInv, PipelineInv, ReceiveKey
    PROVE  PipelineInv' /\ \A a \in Actors : Executed(a)' = Executed(a)
  <1>1. /\ TakeAnswer(Client) /\ mgmt' = mgmt /\ nextKey' = nextKey /\ queue' = queue
        /\ store' = store /\ pending' = pending /\ askedDelete' = askedDelete
        /\ worker' = worker /\ released' = released /\ calls' = calls
    BY DEF ReceiveKey, tables
  <1>2. Client \in Procs
    BY DEF Procs
  <1>. QED
    BY <1>1, <1>2, TakePipeline

LEMMA ReceiveDataPipeline ==
    ASSUME IndInv, PipelineInv, ReceiveData
    PROVE  PipelineInv' /\ \A a \in Actors : Executed(a)' = Executed(a)
  <1>1. /\ TakeAnswer(Client) /\ mgmt' = mgmt /\ nextKey' = nextKey /\ queue' = queue
        /\ store' = store /\ pending' = pending /\ askedDelete' = askedDelete
        /\ worker' = worker /\ released' = released /\ calls' = calls
    BY DEF ReceiveData, tables
  <1>2. Client \in Procs
    BY DEF Procs
  <1>. QED
    BY <1>1, <1>2, TakePipeline

\* A process sends a release and records it.
LEMMA SendReleasePipeline ==
    ASSUME IndInv, PipelineInv, NEW c \in Procs, NEW f \in FutureRefs,
           Send(c, f.at, [type |-> "RELEASE", key |-> f.key]),
           released' = released \cup {<<c, f>>},
           reply' = reply, wait' = wait, nextKey' = nextKey, queue' = queue, store' = store,
           pending' = pending, askedDelete' = askedDelete, calls' = calls,
           \A a \in Actors : /\ worker'[a].pc = "idle" <=> worker[a].pc = "idle"
                             /\ worker'[a].req = worker[a].req
    PROVE  PipelineInv' /\ \A a \in Actors : Executed(a)' = Executed(a)
  <1>. DEFINE m == [type |-> "RELEASE", key |-> f.key]
  <1>1. f.at \in Actors /\ m \in Messages /\ m.type = "RELEASE" /\ f = [at |-> f.at, key |-> m.key]
    BY DEF FutureRefs, Messages, ReleaseMsgs
  <1>2. \A b \in Actors : SentAsBefore(b)
    BY <1>1, SendNotResult DEF IndInv
  <1>3. PipelineOrder' /\ ListedInv' /\ \A b \in Actors : Executed(b)' = Executed(b)
    BY <1>2, QuietPipeline
  <1>4. ReleaseInv'
    BY <1>1, SendRelease DEF PipelineInv
  <1>5. ServedInv'
    BY <1>3, ServedKept DEF PipelineInv
  <1>6. ArgumentInv'
    BY ArgumentsKept DEF PipelineInv
  <1>. QED
    BY <1>3, <1>4, <1>5, <1>6 DEF PipelineInv

LEMMA ReleaseFuturePipeline ==
    ASSUME IndInv, PipelineInv, NEW f \in FutureRefs, ReleaseFuture(f)
    PROVE  PipelineInv' /\ \A a \in Actors : Executed(a)' = Executed(a)
  <1>1. /\ Send(Client, f.at, [type |-> "RELEASE", key |-> f.key])
        /\ released' = released \cup {<<Client, f>>}
        /\ reply' = reply /\ wait' = wait /\ nextKey' = nextKey /\ queue' = queue /\ store' = store
        /\ pending' = pending /\ askedDelete' = askedDelete /\ worker' = worker /\ calls' = calls
    BY DEF ReleaseFuture, tables
  <1>2. Client \in Procs
    BY DEF Procs
  <1>. QED
    BY <1>1, <1>2, SendReleasePipeline

-----------------------------------------------------------------------------
(***************************************************************************)
(* The worker's steps.                                                     *)
(***************************************************************************)

LEMMA WorkerGetPipeline ==
    ASSUME IndInv, PipelineInv, NEW a \in Actors, WorkerGet(a)
    PROVE  PipelineInv' /\ \A b \in Actors : Executed(b)' = Executed(b)
  <1>. DEFINE f == worker[a].req.msg.arg
              m == [type |-> "GET", key |-> f.key]
  <1>1. /\ worker[a].pc = "run" /\ worker[a].req.msg.kind \in UsesFuture
        /\ Ask(a, f.at, m)
        /\ worker' = [worker EXCEPT ![a].pc = "blocked"]
        /\ reply' = reply /\ nextKey' = nextKey /\ queue' = queue /\ store' = store /\ pending' = pending
        /\ askedDelete' = askedDelete /\ released' = released /\ calls' = calls
    BY DEF WorkerGet, tables
  <1>2. f \in FutureRefs
    <2>1. worker[a].req \in Requests
      BY <1>1 DEF IndInv, TypeOK, WorkerStates, WorkerInv
    <2>. QED
      BY <1>1, <2>1 DEF Requests, CallMsgs
  <1>3. f.at \in Actors /\ m \in GetMsgs /\ a \in Procs /\ a # Client
    BY <1>2 DEF FutureRefs, GetMsgs, Procs
  <1>4. wait[a] = None
    BY <1>1 DEF IndInv, WorkerInv
  <1>5. /\ m \in Messages /\ m.type = "GET" /\ Send(a, f.at, m)
        /\ \A d \in Procs : d # a => wait'[d] = wait[d]
    BY <1>1, <1>3, AskEffect DEF IndInv
  <1>6. \A b \in Actors : SentAsBefore(b)
    BY <1>3, <1>5, SendNotResult DEF IndInv
  <1>7. \A b \in Actors : /\ worker'[b].pc = "idle" <=> worker[b].pc = "idle"
                          /\ worker'[b].req = worker[b].req
    BY <1>1 DEF IndInv, TypeOK, WorkerStates
  <1>8. PipelineOrder' /\ ListedInv' /\ \A b \in Actors : Executed(b)' = Executed(b)
    BY <1>1, <1>6, <1>7, QuietPipeline
  <1>9. ReleaseInv'
    BY <1>1, <1>3, <1>5, SendRelease DEF PipelineInv
  <1>10. ServedInv'
    BY <1>1, <1>3, <1>4, <1>8, AskServed DEF PipelineInv
  <1>11. ArgumentInv'
    <2>1. wait'[Client] = wait[Client]
      BY <1>3, <1>5 DEF Procs
    <2>. QED
      BY <1>1, <2>1, ArgumentsKept DEF PipelineInv
  <1>. QED
    BY <1>8, <1>9, <1>10, <1>11 DEF PipelineInv

LEMMA WorkerReceivePipeline ==
    ASSUME IndInv, PipelineInv, NEW a \in Actors, WorkerReceive(a)
    PROVE  PipelineInv' /\ \A b \in Actors : Executed(b)' = Executed(b)
  <1>1. /\ TakeAnswer(a) /\ mgmt' = mgmt /\ nextKey' = nextKey /\ queue' = queue
        /\ store' = store /\ pending' = pending /\ askedDelete' = askedDelete
        /\ worker[a].pc = "blocked"
        /\ worker' = [worker EXCEPT ![a] = [pc |-> "got", req |-> @.req, got |-> Answer(a)]]
        /\ released' = released /\ calls' = calls
    BY DEF WorkerReceive, tables
  <1>2. a \in Procs
    BY DEF Procs
  <1>3. \A b \in Actors : /\ worker'[b].pc = "idle" <=> worker[b].pc = "idle"
                          /\ worker'[b].req = worker[b].req
    BY <1>1 DEF IndInv, TypeOK
  <1>. QED
    BY <1>1, <1>2, <1>3, TakePipeline

LEMMA WorkerReleasePipeline ==
    ASSUME IndInv, PipelineInv, NEW a \in Actors, WorkerRelease(a)
    PROVE  PipelineInv' /\ \A b \in Actors : Executed(b)' = Executed(b)
  <1>. DEFINE f == worker[a].req.msg.arg
  <1>1. /\ worker[a].pc = "got" /\ worker[a].req.msg.kind = "consume"
        /\ Send(a, f.at, [type |-> "RELEASE", key |-> f.key])
        /\ worker' = [worker EXCEPT ![a].pc = "released"]
        /\ released' = released \cup {<<a, f>>}
        /\ reply' = reply /\ wait' = wait /\ nextKey' = nextKey /\ queue' = queue /\ store' = store
        /\ pending' = pending /\ askedDelete' = askedDelete /\ calls' = calls
    BY DEF WorkerRelease, tables
  <1>2. f \in FutureRefs /\ a \in Procs
    <2>1. worker[a].req \in Requests
      BY <1>1 DEF IndInv, TypeOK, WorkerStates, WorkerInv
    <2>. QED
      BY <1>1, <2>1 DEF Requests, CallMsgs, UsesFuture, Procs
  <1>3. \A b \in Actors : /\ worker'[b].pc = "idle" <=> worker[b].pc = "idle"
                          /\ worker'[b].req = worker[b].req
    BY <1>1 DEF IndInv, TypeOK, WorkerStates
  <1>. HIDE DEF f
  <1>. QED
    BY <1>1, <1>2, <1>3, SendReleasePipeline

\* Taking a request makes the first queued call the running one.
LEMMA TakeRequestPipeline ==
    ASSUME IndInv, PipelineInv, NEW a \in Actors, TakeRequest(a)
    PROVE  PipelineInv' /\ \A b \in Actors : Executed(b)' = Executed(b)
  <1>1. /\ worker[a].pc = "idle" /\ queue[a] # << >>
        /\ worker' = [worker EXCEPT ![a] = [pc |-> "run", req |-> Head(queue[a]), got |-> None]]
        /\ queue' = [queue EXCEPT ![a] = Tail(@)]
        /\ mgmt' = mgmt /\ reply' = reply /\ wait' = wait /\ nextKey' = nextKey
        /\ store' = store /\ pending' = pending /\ askedDelete' = askedDelete
        /\ released' = released /\ calls' = calls
    BY DEF TakeRequest, NextRequest, Removed, tables
  <1>2. queue[a] \in Seq(Requests) /\ nextKey[a] \in Nat
    BY DEF IndInv, TypeOK
  <1>3. /\ Head(queue[a]) = queue[a][1] /\ Len(queue[a]) \in Nat /\ Len(queue[a]) >= 1
        /\ Len(Tail(queue[a])) = Len(queue[a]) - 1
        /\ \A i \in 1..Len(Tail(queue[a])) : Tail(queue[a])[i] = queue[a][i + 1]
    BY <1>1, <1>2, TailFacts
  <1>4. /\ worker'[a].pc = "run" /\ worker'[a].req = queue[a][1] /\ queue'[a] = Tail(queue[a])
        /\ \A b \in Actors : b # a => worker'[b] = worker[b] /\ queue'[b] = queue[b]
    BY <1>1, <1>3 DEF IndInv, TypeOK
  <1>5. \A b \in Actors : Pipelined(b)
    BY DEF PipelineInv, PipelineOrder, Pipelined
  <1>6. Executed(a)' = Executed(a) /\ Executed(a) = nextKey[a] - Len(queue[a])
    <2>1. Executed(a) = nextKey[a] - Len(queue[a])
      BY <1>1, <1>2, <1>3 DEF Executed
    <2>2. Executed(a)' = nextKey[a] - (Len(queue[a]) - 1) - 1
      BY <1>1, <1>3, <1>4 DEF Executed
    <2>. QED
      BY <1>2, <1>3, <2>1, <2>2
  <1>7. QueueOrder(a)'
    <2>1. /\ Executed(a) \in Nat
          /\ \A i \in 1..Len(queue[a]) : queue[a][i].key = nextKey[a] - Len(queue[a]) + i - 1
      BY <1>5 DEF Pipelined, QueueOrder
    <2>2. worker'[a].req.key = Executed(a)'
      <3>1. queue[a][1].key = nextKey[a] - Len(queue[a]) + 1 - 1
        BY <1>3, <2>1
      <3>. QED
        BY <1>2, <1>3, <1>4, <1>6, <3>1
    <2>3. ASSUME NEW i \in 1..Len(queue'[a]) PROVE queue'[a][i].key = nextKey'[a] - Len(queue'[a]) + i - 1
      <3>1. i + 1 \in 1..Len(queue[a]) /\ queue'[a][i] = queue[a][i + 1]
        BY <1>3, <1>4
      <3>2. queue[a][i + 1].key = nextKey[a] - Len(queue[a]) + (i + 1) - 1
        BY <2>1, <3>1
      <3>3. Len(queue'[a]) = Len(queue[a]) - 1 /\ nextKey'[a] = nextKey[a]
        BY <1>1, <1>3, <1>4
      <3>. QED
        BY <1>2, <1>3, <3>1, <3>2, <3>3
    <2>. QED
      BY <1>6, <2>1, <2>2, <2>3 DEF QueueOrder
  <1>8. \A b \in Actors : QueueOrder(b)' /\ Executed(b)' = Executed(b)
    <2>. SUFFICES ASSUME NEW b \in Actors, b # a PROVE QueueOrder(b)' /\ Executed(b)' = Executed(b)
      BY <1>6, <1>7
    <2>. QED
      BY <1>1, <1>4, <1>5, QueueKept DEF Pipelined
  <1>9. PipelineOrder'
    <2>1. \A b \in Actors : SentAsBefore(b)
      BY <1>1, ChannelSame
    <2>2. \A b \in Actors : Pipelined(b)'
      BY <1>1, <1>5, <1>8, <2>1, PipelineKept
    <2>. QED
      BY <2>2 DEF PipelineOrder, Pipelined
  <1>10. ReleaseInv' /\ ListedInv'
    BY <1>1 DEF PipelineInv, ReleaseInv, ListedInv, ReleasedBySomebody
  <1>11. ServedInv'
    BY <1>1, <1>8, ServedKept DEF PipelineInv
  <1>12. ArgumentInv'
    BY <1>1, ArgumentsKept DEF PipelineInv
  <1>. QED
    BY <1>8, <1>9, <1>10, <1>11, <1>12 DEF PipelineInv

\* Publishing a result executes the oldest call that is not executed.
LEMMA PublishPipeline ==
    ASSUME IndInv, PipelineInv, NEW a \in Actors, Publish(a)
    PROVE  /\ PipelineInv'
           /\ Executed(a)' = Executed(a) + 1 /\ Executed(a) < nextKey[a]
           /\ \A k \in Keys : k = Executed(a) => IsSent(a, k)'
           /\ \A b \in Actors : b # a => Executed(b)' = Executed(b)
  <1>. DEFINE r == worker[a].req
              m == [type |-> "REGISTER", key |-> r.key, value |-> ResultOf(r.msg)]
  <1>1. /\ worker[a].pc # "idle"
        /\ Send(a, a, m)
        /\ worker' = [worker EXCEPT ![a] = NotRunning]
        /\ reply' = reply /\ wait' = wait /\ nextKey' = nextKey /\ queue' = queue
        /\ store' = store /\ pending' = pending /\ askedDelete' = askedDelete
        /\ released' = released /\ calls' = calls
    BY DEF Publish, ResultKey, tables
  <1>2. r \in Requests
    BY <1>1 DEF IndInv, TypeOK, WorkerStates, WorkerInv
  <1>3. m \in RegisterMsgs /\ r.key \in Keys
    BY <1>2 DEF Requests, CallMsgs, RegisterMsgs, ResultOf, Values
  <1>4. queue[a] \in Seq(Requests) /\ nextKey[a] \in Nat /\ Len(queue[a]) \in Nat
    BY DEF IndInv, TypeOK
  <1>5. /\ worker'[a].pc = "idle"
        /\ \A b \in Actors : b # a => worker'[b] = worker[b]
    BY <1>1 DEF IndInv, TypeOK, NotRunning
  <1>6. \A b \in Actors : Pipelined(b)
    BY DEF PipelineInv, PipelineOrder, Pipelined
  <1>7. /\ Executed(a) \in Nat /\ r.key = Executed(a)
        /\ \A i \in 1..Len(queue[a]) : queue[a][i].key = nextKey[a] - Len(queue[a]) + i - 1
        /\ SentOrder(a)
    BY <1>1, <1>6 DEF Pipelined, QueueOrder
  <1>8. Executed(a)' = Executed(a) + 1 /\ Executed(a) < nextKey[a]
    <2>1. Executed(a) = nextKey[a] - Len(queue[a]) - 1
      BY <1>1 DEF Executed
    <2>2. Executed(a)' = nextKey[a] - Len(queue[a]) - 0
      BY <1>1, <1>5 DEF Executed
    <2>. QED
      BY <1>4, <2>1, <2>2
  <1>9. QueueOrder(a)'
    BY <1>1, <1>5, <1>7, <1>8 DEF QueueOrder
  <1>10. PICK s \in 0..Executed(a) : RegisteredUpTo(a, s)
    BY <1>6 DEF Pipelined
  <1>11. /\ SentOrder(a)'
         /\ \A k \in Keys : IsSent(a, k)' <=> (IsSent(a, k) \/ k = r.key)
         /\ \A b \in Actors : b # a => SentAsBefore(b)
    <2>1. \A k \in Keys : IsSent(a, k) => k < m.key
      BY <1>7, <1>10 DEF RegisteredUpTo
    <2>. HIDE DEF m
    <2>2. /\ SentOrder(a)'
          /\ \A k \in Keys : IsSent(a, k)' <=> (IsSent(a, k) \/ k = m.key)
          /\ \A b \in Actors : b # a => SentAsBefore(b)
      BY <1>1, <1>3, <1>7, <2>1, SendResult DEF IndInv
    <2>. QED
      BY <2>2 DEF m
  <1>12. RegisteredUpTo(a, s)'
    <2>1. ASSUME NEW k \in Keys PROVE IsSent(a, k)' <=> (s <= k /\ k < Executed(a)')
      <3>1. IsSent(a, k) <=> (s <= k /\ k < Executed(a))
        BY <1>10 DEF RegisteredUpTo
      <3>2. k \in Nat /\ s \in Nat
        BY <1>7 DEF Keys
      <3>. QED
        BY <1>7, <1>8, <1>11, <3>1, <3>2
    <2>2. \A k \in Keys : k < s /\ store'[a][k] = None => ReleasedBySomebody([at |-> a, key |-> k])'
      BY <1>1, <1>10 DEF RegisteredUpTo, ReleasedBySomebody
    <2>3. \A k \in Keys : s <= k => store'[a][k] = None
      BY <1>1, <1>10 DEF RegisteredUpTo
    <2>. QED
      BY <2>1, <2>2, <2>3 DEF RegisteredUpTo
  <1>13. s \in 0..Executed(a)'
    BY <1>7, <1>8
  <1>14. Pipelined(a)'
    BY <1>9, <1>11, <1>12, <1>13 DEF Pipelined
  <1>15. \A b \in Actors : b # a => Pipelined(b)' /\ Executed(b)' = Executed(b)
    <2>. SUFFICES ASSUME NEW b \in Actors, b # a PROVE Pipelined(b)' /\ Executed(b)' = Executed(b)
      OBVIOUS
    <2>1. QueueOrder(b)' /\ Executed(b)' = Executed(b)
      BY <1>1, <1>5, <1>6, QueueKept DEF Pipelined
    <2>. QED
      BY <1>1, <1>6, <1>11, <2>1, PipelineKept
  <1>16. PipelineOrder'
    BY <1>14, <1>15 DEF PipelineOrder, Pipelined
  <1>17. ReleaseInv'
    <2>1. m \in Messages /\ m.type # "RELEASE" /\ a \in Procs
      BY <1>3 DEF Messages, Procs
    <2>. QED
      BY <1>1, <2>1, SendRelease DEF PipelineInv
  <1>18. ListedInv'
    BY <1>1 DEF PipelineInv, ListedInv
  <1>19. ServedInv'
    <2>. SUFFICES ASSUME NEW b \in Actors, NEW c \in Procs, reply[b][c] # << >>, wait[c].msg.type = "GET"
                  PROVE  wait[c].msg.key < Executed(b)'
      BY <1>1 DEF ServedInv
    <2>1. wait[c].msg.key < Executed(b)
      BY DEF PipelineInv, ServedInv
    <2>2. wait[c].msg.key \in Nat
      <3>1. wait[c] \in Questions
        BY DEF IndInv, ReplyInv, TypeOK
      <3>2. wait[c].msg \in GetMsgs
        BY <3>1 DEF Questions, CallMsgs
      <3>. QED
        BY <3>2 DEF GetMsgs, Keys
    <2>. QED
      BY <1>7, <1>8, <1>15, <2>1, <2>2
  <1>20. ArgumentInv'
    BY <1>1, ArgumentsKept DEF PipelineInv
  <1>21. \A k \in Keys : k = Executed(a) => IsSent(a, k)'
    BY <1>7, <1>11
  <1>. QED
    BY <1>8, <1>15, <1>16, <1>17, <1>18, <1>19, <1>20, <1>21 DEF PipelineInv

-----------------------------------------------------------------------------
(***************************************************************************)
(* The management thread's steps.                                          *)
(***************************************************************************)

\* The first message of a channel, where it is.
LEMMA FirstMessage ==
    ASSUME IndInv, NEW c \in Procs, NEW a \in Actors, NEW t, Receive(a, c, t)
    PROVE  /\ 1 \in 1..Len(mgmt[c][a])
           /\ Head(mgmt[c][a]) = mgmt[c][a][1]
           /\ mgmt[c][a][1].type = t
           /\ mgmt[c][a][1] \in Messages
  <1>1. mgmt[c][a] \in Seq(Messages) /\ mgmt[c][a] # << >> /\ Head(mgmt[c][a]).type = t
    BY DEF IndInv, TypeOK, Receive
  <1>2. /\ Head(mgmt[c][a]) \in Messages /\ Head(mgmt[c][a]) = mgmt[c][a][1]
        /\ Len(mgmt[c][a]) \in Nat /\ Len(mgmt[c][a]) >= 1
    BY <1>1, TailFacts
  <1>3. 1 \in 1..Len(mgmt[c][a])
    BY <1>2
  <1>. QED
    BY <1>1, <1>2, <1>3

\* A call that is accepted is queued last.
LEMMA HandleCallPipeline ==
    ASSUME IndInv, PipelineInv, NEW a \in Actors, NEW c \in Procs, HandleCall(a, c)
    PROVE  PipelineInv' /\ \A b \in Actors : Executed(b)' = Executed(b)
  <1>. DEFINE m == Head(mgmt[c][a])
              q == [key |-> nextKey[a], msg |-> m]
  <1>1. /\ Receive(a, c, "CALL")
        /\ nextKey' = [nextKey EXCEPT ![a] = @ + 1]
        /\ queue' = [queue EXCEPT ![a] = Append(@, q)]
        /\ reply' = [reply EXCEPT ![a][c] = Append(@, [type |-> "KEY", value |-> nextKey[a]])]
        /\ calls' = [calls EXCEPT ![a] = Append(@, m)]
        /\ wait' = wait /\ store' = store /\ pending' = pending /\ askedDelete' = askedDelete
        /\ worker' = worker /\ released' = released
    BY DEF HandleCall, TakeKey, ResponseCode, tables
  <1>2. m = mgmt[c][a][1] /\ m.type = "CALL" /\ m \in Messages /\ 1 \in 1..Len(mgmt[c][a])
    BY <1>1, FirstMessage
  <1>3. c = Client /\ wait[Client] = [to |-> a, msg |-> m]
    BY <1>2 DEF IndInv, ChannelInv, IsQuestion
  <1>4. m \in CallMsgs
    BY <1>2, MessageTypes
  <1>. HIDE DEF m
  <1>5. nextKey[a] \in Keys
    <2>1. InChannel(c, a)
      BY <1>1, ReceiveQuestion DEF QuestionTypes
    <2>2. nextKey[a] < ncalls
      BY <1>2, <1>3, <2>1 DEF IndInv, KeyInv
    <2>3. nextKey[a] \in 0..MaxCalls /\ ncalls \in 0..MaxCalls
      BY DEF IndInv, TypeOK
    <2>. QED
      BY <2>2, <2>3 DEF Keys
  <1>6. q \in Requests
    BY <1>4, <1>5 DEF Requests
  <1>. HIDE DEF q
  <1>7. /\ nextKey'[a] = nextKey[a] + 1 /\ queue'[a] = Append(queue[a], q)
        /\ calls'[a] = Append(calls[a], m)
        /\ \A b \in Actors : b # a => nextKey'[b] = nextKey[b] /\ queue'[b] = queue[b] /\ calls'[b] = calls[b]
    BY <1>1 DEF IndInv, TypeOK
  <1>8. /\ queue[a] \in Seq(Requests) /\ nextKey[a] \in Nat
        /\ Len(queue[a]) \in Nat /\ Len(queue'[a]) = Len(queue[a]) + 1
        /\ queue'[a][Len(queue[a]) + 1] = q
        /\ \A i \in 1..Len(queue[a]) : queue'[a][i] = queue[a][i]
    <2>1. queue[a] \in Seq(Requests) /\ nextKey[a] \in Nat
      BY DEF IndInv, TypeOK
    <2>. QED
      BY <1>6, <1>7, <2>1, AppendFacts
  <1>9. \A b \in Actors : Pipelined(b)
    BY DEF PipelineInv, PipelineOrder, Pipelined
  <1>10. Executed(a)' = Executed(a)
    <2>. DEFINE running == IF worker[a].pc = "idle" THEN 0 ELSE 1
    <2>1. Executed(a) = nextKey[a] - Len(queue[a]) - running
      BY DEF Executed
    <2>2. Executed(a)' = (nextKey[a] + 1) - (Len(queue[a]) + 1) - running
      BY <1>1, <1>7, <1>8 DEF Executed
    <2>3. running \in Nat
      OBVIOUS
    <2>. HIDE DEF running
    <2>. QED
      BY <1>8, <2>1, <2>2, <2>3
  <1>11. QueueOrder(a)'
    <2>1. /\ Executed(a) \in Nat
          /\ worker[a].pc # "idle" => worker[a].req.key = Executed(a)
          /\ \A i \in 1..Len(queue[a]) : queue[a][i].key = nextKey[a] - Len(queue[a]) + i - 1
      BY <1>9 DEF Pipelined, QueueOrder
    <2>2. ASSUME NEW i \in 1..Len(queue'[a]) PROVE queue'[a][i].key = nextKey'[a] - Len(queue'[a]) + i - 1
      <3>1. CASE i = Len(queue[a]) + 1
        <4>1. queue'[a][i].key = nextKey[a]
          BY <1>8, <3>1 DEF q
        <4>2. nextKey'[a] - Len(queue'[a]) + i - 1 = (nextKey[a] + 1) - (Len(queue[a]) + 1) + (Len(queue[a]) + 1) - 1
          BY <1>7, <1>8, <3>1
        <4>3. \A n, l \in Nat : (n + 1) - (l + 1) + (l + 1) - 1 = n
          OBVIOUS
        <4>. QED
          BY <1>8, <4>1, <4>2, <4>3, Zenon
      <3>2. CASE i \in 1..Len(queue[a])
        <4>1. queue'[a][i].key = nextKey[a] - Len(queue[a]) + i - 1
          BY <1>8, <2>1, <3>2
        <4>. QED
          BY <1>7, <1>8, <3>2, <4>1
      <3>. QED
        BY <1>8, <3>1, <3>2
    <2>. QED
      BY <1>1, <1>10, <2>1, <2>2 DEF QueueOrder
  <1>12. \A b \in Actors : QueueOrder(b)' /\ Executed(b)' = Executed(b)
    <2>. SUFFICES ASSUME NEW b \in Actors, b # a PROVE QueueOrder(b)' /\ Executed(b)' = Executed(b)
      BY <1>10, <1>11
    <2>. QED
      BY <1>1, <1>7, <1>9, QueueKept DEF Pipelined
  <1>13. PipelineOrder'
    <2>1. \A b \in Actors : SentAsBefore(b)
      BY <1>1, ReceiveNotResult DEF IndInv
    <2>2. \A b \in Actors : Pipelined(b)'
      BY <1>1, <1>9, <1>12, <2>1, PipelineKept
    <2>. QED
      BY <2>2 DEF PipelineOrder, Pipelined
  <1>14. ReleaseInv'
    BY <1>1, ReceiveRelease DEF PipelineInv, ReleaseInv
  <1>15. ListedInv'
    BY <1>1 DEF PipelineInv, ListedInv
  <1>16. ServedInv'
    <2>. SUFFICES ASSUME NEW b \in Actors, NEW d \in Procs, reply'[b][d] # << >>, wait[d].msg.type = "GET"
                  PROVE  wait[d].msg.key < Executed(b)'
      BY <1>1 DEF ServedInv
    <2>1. d # Client
      BY <1>2, <1>3
    <2>2. reply'[b][d] = reply[b][d]
      BY <1>1, <1>3, <2>1 DEF IndInv, TypeOK
    <2>. QED
      BY <1>12, <2>2 DEF PipelineInv, ServedInv
  <1>17. ArgumentInv'
    <2>1. ASSUME NEW f \in FutureRefs, KnownKey(f) PROVE f.key < nextKey'[f.at]
      <3>1. f.at \in Actors /\ f.key \in Nat
        BY DEF FutureRefs, Keys
      <3>2. nextKey[f.at] \in Nat
        BY <3>1 DEF IndInv, TypeOK
      <3>. QED
        BY <1>7, <2>1, <3>1, <3>2 DEF KnownKey
    <2>2. \A x \in CallMsgs : x.arg # None => x.arg \in FutureRefs
      BY DEF CallMsgs
    <2>3. m.arg # None => KnownKey(m.arg)
      <3>1. wait[Client] # None
        BY <1>1, <1>3, ReceiveQuestion DEF QuestionTypes
      <3>. QED
        BY <1>2, <1>3, <3>1 DEF PipelineInv, ArgumentInv
    <2>4. ASSUME NEW b \in Actors, NEW i \in 1..Len(calls'[b]), calls'[b][i].arg # None
          PROVE  calls'[b][i].arg.key < nextKey'[calls'[b][i].arg.at]
      <3>1. \A x \in Actors : calls[x] \in Seq(CallMsgs)
        BY DEF IndInv, TypeOK
      <3>2. CASE i \in 1..Len(calls[b]) /\ calls'[b][i] = calls[b][i]
        <4>1. calls[b][i] \in CallMsgs /\ KnownKey(calls[b][i].arg)
          BY <2>4, <3>1, <3>2 DEF PipelineInv, ArgumentInv
        <4>2. calls[b][i].arg \in FutureRefs
          BY <2>2, <2>4, <3>2, <4>1
        <4>. QED
          BY <2>1, <3>2, <4>1, <4>2
      <3>3. CASE calls'[b][i] = m
        <4>1. m.arg \in FutureRefs /\ KnownKey(m.arg)
          BY <1>4, <2>2, <2>3, <2>4, <3>3
        <4>. QED
          BY <2>1, <3>3, <4>1
      <3>4. CASE b # a
        BY <1>7, <3>2, <3>4
      <3>5. CASE b = a
        <4>1. /\ Len(calls[a]) \in Nat /\ Len(calls'[a]) = Len(calls[a]) + 1
              /\ calls'[a][Len(calls[a]) + 1] = m
              /\ \A j \in 1..Len(calls[a]) : calls'[a][j] = calls[a][j]
          BY <1>4, <1>7, <3>1, AppendFacts
        <4>2. i \in 1..Len(calls[a]) \/ i = Len(calls[a]) + 1
          BY <3>5, <4>1
        <4>. QED
          BY <3>2, <3>3, <3>5, <4>1, <4>2
      <3>. QED
        BY <3>4, <3>5
    <2>5. m.arg # None => m.arg.key < nextKey'[m.arg.at]
      BY <1>4, <2>1, <2>2, <2>3
    <2>6. wait'[Client].msg = m
      BY <1>1, <1>3
    <2>. QED
      BY <2>4, <2>5, <2>6 DEF ArgumentInv, KnownKey
  <1>. QED
    BY <1>12, <1>13, <1>14, <1>15, <1>16, <1>17 DEF PipelineInv

\* The data that is sent from the store is the one of an executed call.
LEMMA ServeGetPipeline ==
    ASSUME IndInv, PipelineInv, NEW a \in Actors, NEW c \in Procs, ServeGet(a, c)
    PROVE  PipelineInv' /\ \A b \in Actors : Executed(b)' = Executed(b)
  <1>. DEFINE k == Head(mgmt[c][a]).key
              r == [type |-> "DATA", value |-> store[a][k]]
  <1>1. /\ Receive(a, c, "GET") /\ store[a][k] # None
        /\ reply' = [reply EXCEPT ![a][c] = Append(@, r)]
        /\ wait' = wait /\ nextKey' = nextKey /\ queue' = queue /\ store' = store /\ pending' = pending
        /\ askedDelete' = askedDelete /\ worker' = worker /\ released' = released /\ calls' = calls
    BY DEF ServeGet, tables
  <1>2. wait[c] = [to |-> a, msg |-> Head(mgmt[c][a])]
    BY <1>1, ReceiveQuestion DEF QuestionTypes
  <1>3. Head(mgmt[c][a]) \in GetMsgs
    BY <1>1, FirstMessage, MessageTypes
  <1>4. k \in Keys
    BY <1>3 DEF GetMsgs
  <1>5. \A b \in Actors : SentAsBefore(b)
    BY <1>1, ReceiveNotResult DEF IndInv
  <1>6. PipelineOrder' /\ ListedInv' /\ \A b \in Actors : Executed(b)' = Executed(b)
    BY <1>1, <1>5, QuietPipeline
  <1>7. ReleaseInv'
    BY <1>1, ReceiveRelease DEF PipelineInv, ReleaseInv
  <1>8. ArgumentInv'
    BY <1>1, ArgumentsKept DEF PipelineInv
  <1>9. k < Executed(a)
    <2>1. Executed(a) \in Nat /\ \E s \in 0..Executed(a) : RegisteredUpTo(a, s)
      BY DEF PipelineInv, PipelineOrder, QueueOrder
    <2>2. PICK s \in 0..Executed(a) : RegisteredUpTo(a, s)
      BY <2>1
    <2>3. ~(s <= k)
      BY <1>1, <1>4, <2>2 DEF RegisteredUpTo
    <2>4. s \in Nat /\ s <= Executed(a) /\ k \in Nat
      BY <1>4, <2>1 DEF Keys
    <2>. HIDE DEF k
    <2>. QED
      BY <2>1, <2>3, <2>4
  <1>10. ServedInv'
    <2>. SUFFICES ASSUME NEW b \in Actors, NEW d \in Procs, reply'[b][d] # << >>, wait[d].msg.type = "GET"
                  PROVE  wait[d].msg.key < Executed(b)'
      BY <1>1 DEF ServedInv
    <2>1. CASE b = a /\ d = c
      BY <1>2, <1>6, <1>9, <2>1
    <2>2. CASE ~(b = a /\ d = c)
      <3>1. reply'[b][d] = reply[b][d]
        BY <1>1, <2>2 DEF IndInv, TypeOK
      <3>. QED
        BY <1>6, <3>1 DEF PipelineInv, ServedInv
    <2>. QED
      BY <2>1, <2>2
  <1>. QED
    BY <1>6, <1>7, <1>8, <1>10 DEF PipelineInv

\* A process is only listed for data that is not there.
LEMMA DeferGetPipeline ==
    ASSUME IndInv, PipelineInv, NEW a \in Actors, NEW c \in Procs, DeferGet(a, c)
    PROVE  PipelineInv' /\ \A b \in Actors : Executed(b)' = Executed(b)
  <1>. DEFINE k == Head(mgmt[c][a]).key
  <1>1. /\ Receive(a, c, "GET") /\ store[a][k] = None
        /\ pending' = [pending EXCEPT ![a][k] = Append(@, c)]
        /\ reply' = reply
        /\ wait' = wait /\ nextKey' = nextKey /\ queue' = queue /\ store' = store
        /\ askedDelete' = askedDelete /\ worker' = worker /\ released' = released /\ calls' = calls
    BY DEF DeferGet
  <1>2. ASSUME NEW b \in Actors PROVE Pipelined(b)' /\ Executed(b)' = Executed(b)
    <2>1. SentAsBefore(b)
      BY <1>1, ReceiveNotResult DEF IndInv
    <2>2. Pipelined(b)
      BY DEF PipelineInv, PipelineOrder, Pipelined
    <2>3. QueueOrder(b)' /\ Executed(b)' = Executed(b)
      BY <1>1, <2>2, QueueKept DEF Pipelined
    <2>. QED
      BY <1>1, <2>1, <2>2, <2>3, PipelineKept
  <1>3. PipelineOrder'
    BY <1>2 DEF PipelineOrder, Pipelined
  <1>. HIDE DEF k
  <1>4. ListedInv'
    <2>. SUFFICES ASSUME NEW b \in Actors, NEW j \in Keys, pending'[b][j] # << >>
                  PROVE  store'[b][j] = None
      BY DEF ListedInv
    <2>1. CASE b = a /\ j = k
      BY <1>1, <2>1
    <2>2. CASE ~(b = a /\ j = k)
      <3>1. pending \in [Actors -> [Keys -> Seq(Procs)]]
        BY DEF IndInv, TypeOK
      <3>2. pending'[b][j] = pending[b][j]
        BY <1>1, <2>2, <3>1
      <3>. QED
        BY <1>1, <3>2 DEF PipelineInv, ListedInv
    <2>. QED
      BY <2>1, <2>2
  <1>5. ReleaseInv'
    BY <1>1, ReceiveRelease DEF PipelineInv, ReleaseInv
  <1>6. ArgumentInv'
    BY <1>1, ArgumentsKept DEF PipelineInv
  <1>7. ServedInv'
    BY <1>1, <1>2, ServedKept DEF PipelineInv
  <1>. QED
    BY <1>2, <1>3, <1>4, <1>5, <1>6, <1>7 DEF PipelineInv

\* Data is only dropped once its release was sent.
LEMMA HandleReleasePipeline ==
    ASSUME IndInv, PipelineInv, NEW a \in Actors, NEW c \in Procs, HandleRelease(a, c)
    PROVE  PipelineInv' /\ \A b \in Actors : Executed(b)' = Executed(b)
  <1>. DEFINE k == Head(mgmt[c][a]).key
  <1>1. /\ Receive(a, c, "RELEASE")
        /\ store' = [store EXCEPT ![a][k] = None]
        /\ \/ askedDelete' = askedDelete
           \/ askedDelete' = [askedDelete EXCEPT ![a] = @ \cup {k}]
        /\ reply' = reply /\ pending' = pending
        /\ wait' = wait /\ nextKey' = nextKey /\ queue' = queue
        /\ worker' = worker /\ released' = released /\ calls' = calls
    BY DEF HandleRelease
  <1>2. Head(mgmt[c][a]) \in ReleaseMsgs /\ 1 \in 1..Len(mgmt[c][a])
        /\ Head(mgmt[c][a]) = mgmt[c][a][1] /\ mgmt[c][a][1].type = "RELEASE"
    BY <1>1, FirstMessage, MessageTypes
  <1>3. k \in Keys
    BY <1>2 DEF ReleaseMsgs
  <1>4. ReleasedBySomebody([at |-> a, key |-> k])
    BY <1>2 DEF PipelineInv, ReleaseInv, ReleasedBySomebody
  <1>5. \A b \in Actors, j \in Keys : \/ store'[b][j] = store[b][j]
                                      \/ store'[b][j] = None /\ ReleasedBySomebody([at |-> b, key |-> j])
    BY <1>1, <1>3, <1>4 DEF IndInv, TypeOK
  <1>6. ASSUME NEW b \in Actors PROVE Pipelined(b)' /\ Executed(b)' = Executed(b)
    <2>1. SentAsBefore(b)
      BY <1>1, ReceiveNotResult DEF IndInv
    <2>2. Pipelined(b)
      BY DEF PipelineInv, PipelineOrder, Pipelined
    <2>3. QueueOrder(b)' /\ Executed(b)' = Executed(b)
      BY <1>1, <2>2, QueueKept DEF Pipelined
    <2>. QED
      BY <1>1, <1>5, <2>1, <2>2, <2>3, PipelineKept
  <1>7. PipelineOrder'
    BY <1>6 DEF PipelineOrder, Pipelined
  <1>8. ListedInv'
    BY <1>1, <1>5 DEF PipelineInv, ListedInv
  <1>9. ReleaseInv'
    <2>1. ASSUME NEW b \in Actors, NEW j \in askedDelete'[b] PROVE ReleasedBySomebody([at |-> b, key |-> j])
      <3>1. j \in askedDelete[b] \/ (b = a /\ j = k)
        BY <1>1 DEF IndInv, TypeOK
      <3>. QED
        BY <1>4, <3>1 DEF PipelineInv, ReleaseInv
    <2>. QED
      BY <1>1, <2>1, ReceiveRelease DEF PipelineInv
  <1>10. ArgumentInv'
    BY <1>1, ArgumentsKept DEF PipelineInv
  <1>11. ServedInv'
    BY <1>1, <1>6, ServedKept DEF PipelineInv
  <1>. QED
    BY <1>6, <1>7, <1>8, <1>9, <1>10, <1>11 DEF PipelineInv

\* A result that is registered is the one of the oldest call that was not
\* registered; what is left of it in the store, if it is dropped, was released.
LEMMA RegisterPipeline ==
    ASSUME IndInv, PipelineInv, NEW a \in Actors, NEW c \in Procs, Receive(a, c, "REGISTER"),
           NEW h, h = Head(mgmt[c][a]).key, NEW w,
           store' = [store EXCEPT ![a][h] = w], w = None => h \in askedDelete[a],
           askedDelete' = [askedDelete EXCEPT ![a] = @ \ {h}],
           nextKey' = nextKey, queue' = queue, worker' = worker, released' = released
    PROVE  /\ PipelineOrder' /\ ReleaseInv'
           /\ \A b \in Actors : Executed(b)' = Executed(b)
           /\ h \in Keys /\ h < Executed(a)
  <1>1. \A b \in Actors : Pipelined(b)
    BY DEF PipelineInv, PipelineOrder, Pipelined
  <1>2. PICK r \in 0..Executed(a) : RegisteredUpTo(a, r)
    BY <1>1 DEF Pipelined
  <1>3. Executed(a) \in Nat /\ SentOrder(a)
    BY <1>1 DEF Pipelined, QueueOrder
  <1>4. /\ c = a /\ h \in Keys /\ IsSent(a, h)
        /\ \A k \in Keys : IsSent(a, k) => h <= k
        /\ SentOrder(a)'
        /\ \A k \in Keys : IsSent(a, k)' <=> (IsSent(a, k) /\ k # h)
        /\ \A b \in Actors : b # a => SentAsBefore(b)
    BY <1>3, ReceiveResult
  <1>5. h = r /\ r < Executed(a)
    <2>1. r <= h /\ h < Executed(a) /\ h \in Nat /\ r \in Nat
      BY <1>2, <1>3, <1>4 DEF RegisteredUpTo, Keys
    <2>2. r \in Keys
      BY <1>4, <2>1 DEF Keys
    <2>3. IsSent(a, r)
      BY <1>2, <1>3, <2>1, <2>2 DEF RegisteredUpTo
    <2>4. h <= r
      BY <1>4, <2>2, <2>3
    <2>. QED
      BY <2>1, <2>4
  <1>6. \A b \in Actors : QueueOrder(b)' /\ Executed(b)' = Executed(b)
    BY <1>1, QueueKept DEF Pipelined
  <1>7. store'[a][h] = w /\ \A b \in Actors, k \in Keys : ~(b = a /\ k = h) => store'[b][k] = store[b][k]
    <2>1. store \in [Actors -> [Keys -> Values \cup {None}]]
      BY DEF IndInv, TypeOK
    <2>. QED
      BY <1>4, <2>1
  <1>8. RegisteredUpTo(a, r + 1)'
    <2>0. r \in Nat /\ r + 1 \in Nat /\ Keys \subseteq Nat
      BY <1>3 DEF Keys
    <2>1. ASSUME NEW k \in Keys PROVE IsSent(a, k)' <=> (r + 1 <= k /\ k < Executed(a)')
      <3>1. IsSent(a, k)' <=> (r <= k /\ k < Executed(a) /\ k # r)
        BY <1>2, <1>4, <1>5 DEF RegisteredUpTo
      <3>2. k \in Nat
        BY <2>0
      <3>. QED
        BY <1>3, <1>6, <2>0, <3>1, <3>2
    <2>2. ASSUME NEW k \in Keys, k < r + 1, store'[a][k] = None
          PROVE  ReleasedBySomebody([at |-> a, key |-> k])'
      <3>1. ReleasedBySomebody([at |-> a, key |-> k])
        <4>1. CASE k = h
          BY <1>7, <2>2, <4>1 DEF PipelineInv, ReleaseInv
        <4>2. CASE k # h
          <5>1. k < r /\ store[a][k] = None
            BY <1>5, <1>7, <2>0, <2>2, <4>2
          <5>. QED
            BY <1>2, <5>1 DEF RegisteredUpTo
        <4>. QED
          BY <4>1, <4>2
      <3>. QED
        BY <3>1, ReleasedStay
    <2>3. ASSUME NEW k \in Keys, r + 1 <= k PROVE store'[a][k] = None
      <3>1. k # h /\ r <= k
        BY <1>5, <2>0, <2>3
      <3>. QED
        BY <1>2, <1>7, <3>1 DEF RegisteredUpTo
    <2>4. ASSUME NEW s, s = r + 1 PROVE RegisteredUpTo(a, s)'
      BY <2>1, <2>2, <2>3, <2>4 DEF RegisteredUpTo
    <2>. QED
      BY <2>4
  <1>9. r + 1 \in 0..Executed(a)'
    BY <1>3, <1>5, <1>6
  <1>10. Pipelined(a)'
    BY <1>4, <1>6, <1>8, <1>9 DEF Pipelined
  <1>11. \A b \in Actors : b # a => Pipelined(b)'
    BY <1>1, <1>4, <1>6, <1>7, PipelineKept
  <1>12. PipelineOrder'
    BY <1>10, <1>11 DEF PipelineOrder, Pipelined
  <1>13. ReleaseInv'
    <2>1. \A b \in Actors : askedDelete'[b] \subseteq askedDelete[b]
      BY DEF IndInv, TypeOK
    <2>2. \A b \in Actors : \A k \in askedDelete'[b] : ReleasedBySomebody([at |-> b, key |-> k])
      BY <2>1 DEF PipelineInv, ReleaseInv
    <2>. QED
      BY <2>2, ReceiveRelease DEF PipelineInv
  <1>. QED
    BY <1>4, <1>5, <1>6, <1>12, <1>13

LEMMA ForgetResultPipeline ==
    ASSUME IndInv, PipelineInv, NEW a \in Actors, NEW c \in Procs, ForgetResult(a, c)
    PROVE  PipelineInv' /\ \A b \in Actors : Executed(b)' = Executed(b)
  <1>. DEFINE k == Head(mgmt[c][a]).key
  <1>1. /\ Receive(a, c, "REGISTER") /\ k \in askedDelete[a]
        /\ askedDelete' = [askedDelete EXCEPT ![a] = @ \ {k}]
        /\ reply' = reply /\ pending' = pending /\ store' = store
        /\ wait' = wait /\ nextKey' = nextKey /\ queue' = queue
        /\ worker' = worker /\ released' = released /\ calls' = calls
    BY DEF ForgetResult, Forgotten
  <1>2. store' = [store EXCEPT ![a][k] = None]
    <2>1. \A b \in Actors : Pipelined(b)
      BY DEF PipelineInv, PipelineOrder, Pipelined
    <2>2. Executed(a) \in Nat /\ SentOrder(a)
      BY <2>1 DEF Pipelined, QueueOrder
    <2>3. k \in Keys /\ IsSent(a, k)
      BY <1>1, <2>2, ReceiveResult
    <2>4. store[a][k] = None
      BY <2>1, <2>3 DEF Pipelined, RegisteredUpTo
    <2>5. store \in [Actors -> [Keys -> Values \cup {None}]]
      BY DEF IndInv, TypeOK
    <2>. HIDE DEF k
    <2>. QED
      BY <1>1, <2>3, <2>4, <2>5
  <1>. HIDE DEF k
  <1>3. PipelineOrder' /\ ReleaseInv' /\ \A b \in Actors : Executed(b)' = Executed(b)
    BY <1>1, <1>2, RegisterPipeline DEF k
  <1>4. ListedInv'
    BY <1>1 DEF PipelineInv, ListedInv
  <1>5. ArgumentInv'
    BY <1>1, ArgumentsKept DEF PipelineInv
  <1>6. ServedInv'
    BY <1>1, <1>3, ServedKept DEF PipelineInv
  <1>. QED
    BY <1>3, <1>4, <1>5, <1>6 DEF PipelineInv

LEMMA StoreResultPipeline ==
    ASSUME IndInv, PipelineInv, NEW a \in Actors, NEW c \in Procs, StoreResult(a, c)
    PROVE  PipelineInv' /\ \A b \in Actors : Executed(b)' = Executed(b)
  <1>. DEFINE m == Head(mgmt[c][a])
              k == m.key
              w == Kept(a, k, m.value)
  <1>1. /\ Receive(a, c, "REGISTER")
        /\ reply' = SendToWaiting(a, pending[a][k], m.value)
        /\ pending' = [pending EXCEPT ![a][k] = << >>]
        /\ store' = [store EXCEPT ![a][k] = w]
        /\ askedDelete' = [askedDelete EXCEPT ![a] = @ \ {k}]
        /\ wait' = wait /\ nextKey' = nextKey /\ queue' = queue
        /\ worker' = worker /\ released' = released /\ calls' = calls
    BY DEF StoreResult, Unlisted
  <1>2. m \in RegisterMsgs
    BY SMTT(20), <1>1, FirstMessage, MessageTypes
  <1>3. k \in Keys /\ m.value \in Values /\ m.value # None
    BY SMTT(20), <1>2 DEF RegisterMsgs
  <1>4. w = None => k \in askedDelete[a]
    BY SMTT(20), <1>3 DEF Kept
  <1>. HIDE DEF w, k, m
  <1>5. PipelineOrder' /\ ReleaseInv' /\ k < Executed(a) /\ \A b \in Actors : Executed(b)' = Executed(b)
    BY <1>1, <1>4, RegisterPipeline DEF k, m
  <1>6. ListedInv'
    <2>. SUFFICES ASSUME NEW b \in Actors, NEW j \in Keys, pending'[b][j] # << >>
                  PROVE  store'[b][j] = None
      BY DEF ListedInv
    <2>1. pending \in [Actors -> [Keys -> Seq(Procs)]] /\ store \in [Actors -> [Keys -> Values \cup {None}]]
      BY DEF IndInv, TypeOK
    <2>2. ~(b = a /\ j = k) /\ pending'[b][j] = pending[b][j]
      BY <1>1, <1>3, <2>1
    <2>3. store'[b][j] = store[b][j]
      BY <1>1, <2>1, <2>2
    <2>. QED
      BY <2>2, <2>3 DEF PipelineInv, ListedInv
  <1>7. ArgumentInv'
    BY <1>1, ArgumentsKept DEF PipelineInv
  <1>8. ServedInv'
    <2>. SUFFICES ASSUME NEW b \in Actors, NEW d \in Procs, reply'[b][d] # << >>, wait[d].msg.type = "GET"
                  PROVE  wait[d].msg.key < Executed(b)
      BY <1>1, <1>5 DEF ServedInv
    <2>1. CASE b = a /\ \E i \in 1..Len(pending[a][k]) : pending[a][k][i] = d
      <3>0. PICK i \in 1..Len(pending[a][k]) : pending[a][k][i] = d
        BY <2>1
      <3>1. wait[d] = [to |-> a, msg |-> [type |-> "GET", key |-> k]]
        <4>1. \A j \in 1..Len(pending[a][k]) :
                wait[pending[a][k][j]] = [to |-> a, msg |-> [type |-> "GET", key |-> k]]
          BY <1>3 DEF IndInv, PendingInv
        <4>. QED
          BY <3>0, <4>1
      <3>. QED
        BY <1>5, <2>1, <3>1
    <2>2. CASE ~(b = a /\ \E i \in 1..Len(pending[a][k]) : pending[a][k][i] = d)
      <3>0. /\ \A e \in Procs : (\A i \in 1..Len(pending[a][k]) : pending[a][k][i] # e)
                                    => reply'[a][e] = reply[a][e]
            /\ \A x \in Actors, e \in Procs : x # a => reply'[x][e] = reply[x][e]
        BY <1>1, <1>3, SendToWaitingEffect
      <3>1. reply'[b][d] = reply[b][d]
        BY <2>2, <3>0
      <3>. QED
        BY <3>1 DEF PipelineInv, ServedInv
    <2>. QED
      BY <2>1, <2>2
  <1>. QED
    BY <1>5, <1>6, <1>7, <1>8 DEF PipelineInv

-----------------------------------------------------------------------------
(***************************************************************************)
(* The invariant.                                                          *)
(***************************************************************************)

LEMMA InitPipeline == Init => PipelineInv
  <1>. SUFFICES ASSUME Init PROVE PipelineInv
    OBVIOUS
  <1>2. ASSUME NEW a \in Actors PROVE Pipelined(a)
    <2>1. /\ queue[a] = << >> /\ nextKey[a] = 0 /\ worker[a].pc = "idle"
          /\ \A k \in Keys : store[a][k] = None
      BY DEF Init, NotRunning
    <2>2. mgmt[a][a] = << >>
      BY DEF Init, Procs
    <2>3. Executed(a) = 0
      <3>1. Len(queue[a]) = 0
        BY <2>1
      <3>2. Executed(a) = nextKey[a] - Len(queue[a]) - 0
        BY <2>1 DEF Executed
      <3>. QED
        BY <2>1, <3>1, <3>2
    <2>4. QueueOrder(a)
      BY <2>1, <2>3 DEF QueueOrder
    <2>5. SentOrder(a) /\ \A k \in Keys : ~IsSent(a, k)
      BY <2>2 DEF SentOrder, IsSent
    <2>6. RegisteredUpTo(a, 0)
      BY <2>1, <2>3, <2>5 DEF RegisteredUpTo, Keys
    <2>. QED
      BY <2>3, <2>4, <2>5, <2>6 DEF Pipelined
  <1>3. PipelineOrder
    BY <1>2 DEF PipelineOrder, Pipelined
  <1>4. ReleaseInv
    <2>1. \A c \in Procs, a \in Actors : Len(mgmt[c][a]) = 0
      BY DEF Init
    <2>2. \A a \in Actors : askedDelete[a] = {}
      BY DEF Init
    <2>. QED
      BY <2>1, <2>2 DEF ReleaseInv
  <1>5. ArgumentInv
    <2>1. \A a \in Actors : Len(calls[a]) = 0
      BY DEF Init
    <2>2. wait[Client] = None
      BY DEF Init, Procs
    <2>. QED
      BY <2>1, <2>2 DEF ArgumentInv
  <1>6. ListedInv
    BY DEF Init, ListedInv
  <1>7. ServedInv
    BY DEF Init, ServedInv
  <1>. QED
    BY <1>3, <1>4, <1>5, <1>6, <1>7 DEF PipelineInv

LEMMA StutterPipeline ==
    ASSUME IndInv, PipelineInv, UNCHANGED vars
    PROVE  PipelineInv' /\ \A b \in Actors : Executed(b)' = Executed(b)
  <1>1. /\ mgmt' = mgmt /\ reply' = reply /\ wait' = wait /\ nextKey' = nextKey /\ queue' = queue
        /\ store' = store /\ pending' = pending /\ askedDelete' = askedDelete /\ worker' = worker
        /\ released' = released /\ calls' = calls
    BY DEF vars
  <1>2. \A b \in Actors : SentAsBefore(b)
    BY <1>1, ChannelSame
  <1>3. PipelineOrder' /\ ListedInv' /\ \A b \in Actors : Executed(b)' = Executed(b)
    BY <1>1, <1>2, QuietPipeline
  <1>4. ReleaseInv'
    BY <1>1 DEF PipelineInv, ReleaseInv, ReleasedBySomebody
  <1>5. ServedInv'
    BY <1>1, <1>3, ServedKept DEF PipelineInv
  <1>6. ArgumentInv'
    BY <1>1, ArgumentsKept DEF PipelineInv
  <1>. QED
    BY <1>3, <1>4, <1>5, <1>6 DEF PipelineInv

\* Every step preserves the invariant.
LEMMA NextPipeline == IndInv /\ PipelineInv /\ [Next]_vars => PipelineInv'
  <1>. SUFFICES ASSUME IndInv, PipelineInv, [Next]_vars PROVE PipelineInv'
    OBVIOUS
  <1>1. CASE ProgramAsks
    BY <1>1, ActiveCallPipeline, GetFuturePipeline, ReleaseFuturePipeline DEF ProgramAsks
  <1>2. CASE ProgramReceives
    BY <1>2, ReceiveKeyPipeline, ReceiveDataPipeline DEF ProgramReceives
  <1>3. ASSUME NEW a \in Actors, ServerStep(a) PROVE PipelineInv'
    BY <1>3, HandleCallPipeline, ServeGetPipeline, DeferGetPipeline, HandleReleasePipeline,
       ForgetResultPipeline, StoreResultPipeline DEF ServerStep
  <1>4. ASSUME NEW a \in Actors, WorkerStep(a) PROVE PipelineInv'
    BY <1>4, TakeRequestPipeline, WorkerGetPipeline, WorkerReceivePipeline, WorkerReleasePipeline,
       PublishPipeline DEF WorkerStep
  <1>5. CASE UNCHANGED vars
    BY <1>5, StutterPipeline
  <1>. QED
    BY <1>1, <1>2, <1>3, <1>4, <1>5 DEF Next

\* Where the request with key k is in a queue of l requests that ends with the
\* key n - 1.
LEMMA PlaceInQueue ==
    ASSUME NEW n \in Nat, NEW l \in Nat, NEW k \in Nat, n - l <= k, k < n
    PROVE  k - (n - l) + 1 \in 1..l /\ n - l + (k - (n - l) + 1) - 1 = k
  OBVIOUS

\* The keys of the queued calls, when the queue holds the last keys taken.
LEMMA QueuedKeys ==
    ASSUME NEW a \in Actors, nextKey[a] \in Nat, Len(queue[a]) \in Nat, NEW k \in Nat,
           \A i \in 1..Len(queue[a]) : queue[a][i].key = nextKey[a] - Len(queue[a]) + i - 1
    PROVE  IsQueued(a, k) <=> (nextKey[a] - Len(queue[a]) <= k /\ k < nextKey[a])
  <1>1. ASSUME IsQueued(a, k) PROVE nextKey[a] - Len(queue[a]) <= k /\ k < nextKey[a]
    <2>1. PICK i \in 1..Len(queue[a]) : queue[a][i].key = k
      BY <1>1 DEF IsQueued
    <2>2. k = nextKey[a] - Len(queue[a]) + i - 1 /\ i \in Nat /\ 1 <= i /\ i <= Len(queue[a])
      BY <2>1
    <2>. QED
      BY <2>2
  <1>2. ASSUME nextKey[a] - Len(queue[a]) <= k, k < nextKey[a] PROVE IsQueued(a, k)
    <2>. DEFINE i == k - (nextKey[a] - Len(queue[a])) + 1
    <2>1. i \in 1..Len(queue[a]) /\ nextKey[a] - Len(queue[a]) + i - 1 = k
      BY <1>2, PlaceInQueue
    <2>. HIDE DEF i
    <2>2. queue[a][i].key = k
      BY <2>1
    <2>. QED
      BY <2>1, <2>2 DEF IsQueued
  <1>. QED
    BY <1>1, <1>2

\* The keys that are to be registered are the last ones taken.
LEMMA ToBeRegisteredFrom ==
    ASSUME IndInv, NEW a \in Actors, Pipelined(a), NEW r \in 0..Executed(a), RegisteredUpTo(a, r), NEW k \in Keys
    PROVE  ToBeRegistered(a, k) <=> (r <= k /\ k < nextKey[a])
  <1>1. /\ Executed(a) \in Nat
        /\ worker[a].pc # "idle" => worker[a].req.key = Executed(a)
        /\ \A i \in 1..Len(queue[a]) : queue[a][i].key = nextKey[a] - Len(queue[a]) + i - 1
    BY DEF Pipelined, QueueOrder
  <1>2. nextKey[a] \in Nat /\ Len(queue[a]) \in Nat /\ k \in Nat /\ r \in Nat /\ r <= Executed(a)
    <2>1. nextKey[a] \in Nat /\ queue[a] \in Seq(Requests)
      BY DEF IndInv, TypeOK
    <2>2. Len(queue[a]) \in Nat
      BY <2>1, EmptyFacts
    <2>. QED
      BY <1>1, <2>1, <2>2 DEF Keys
  <1>3. IsSent(a, k) <=> (r <= k /\ k < Executed(a))
    BY DEF RegisteredUpTo
  <1>4. IsQueued(a, k) <=> (nextKey[a] - Len(queue[a]) <= k /\ k < nextKey[a])
    BY <1>1, <1>2, QueuedKeys
  <1>5. CASE worker[a].pc = "idle"
    <2>1. Executed(a) = nextKey[a] - Len(queue[a])
      BY <1>2, <1>5 DEF Executed
    <2>2. ToBeRegistered(a, k) <=> IsSent(a, k) \/ IsQueued(a, k)
      BY <1>5 DEF ToBeRegistered, IsRunning
    <2>. QED
      BY <1>1, <1>2, <1>3, <1>4, <2>1, <2>2
  <1>6. CASE worker[a].pc # "idle"
    <2>1. Executed(a) = nextKey[a] - Len(queue[a]) - 1
      BY <1>2, <1>6 DEF Executed
    <2>2. ToBeRegistered(a, k) <=> IsSent(a, k) \/ k = Executed(a) \/ IsQueued(a, k)
      BY <1>1, <1>6 DEF ToBeRegistered, IsRunning
    <2>. QED
      BY <1>1, <1>2, <1>3, <1>4, <2>1, <2>2
  <1>. QED
    BY <1>5, <1>6

\* Whoever is listed is listed for an accepted call, so its result is to come
\* or was registered and released.
LEMMA ListedFromInv == IndInv /\ PipelineInv => ListedWillBeServed
  <1>. SUFFICES ASSUME IndInv, PipelineInv, NEW a \in Actors, NEW k \in Keys, pending[a][k] # << >>
                PROVE  /\ store[a][k] = None
                       /\ ToBeRegistered(a, k) \/ ReleasedBySomebody([at |-> a, key |-> k])
    BY DEF ListedWillBeServed
  <1>1. store[a][k] = None
    BY DEF PipelineInv, ListedInv
  <1>2. k < nextKey[a]
    <2>1. pending[a][k] \in Seq(Procs)
      BY DEF IndInv, TypeOK
    <2>2. 1 \in 1..Len(pending[a][k]) /\ pending[a][k][1] \in Procs
      BY <2>1, TailFacts
    <2>3. wait[pending[a][k][1]] = [to |-> a, msg |-> [type |-> "GET", key |-> k]]
      BY <2>2 DEF IndInv, PendingInv
    <2>4. wait[pending[a][k][1]] # None
      <3>1. [to |-> a, msg |-> [type |-> "GET", key |-> k]] \in Questions
        BY DEF Questions, GetMsgs
      <3>. QED
        BY <2>3, <3>1
    <2>. QED
      BY <2>2, <2>3, <2>4, AskedIsKnown DEF PipelineInv
  <1>3. Pipelined(a)
    BY DEF PipelineInv, PipelineOrder, Pipelined
  <1>4. PICK r \in 0..Executed(a) : RegisteredUpTo(a, r)
    BY <1>3 DEF Pipelined
  <1>5. r \in Nat /\ k \in Nat
    BY <1>3 DEF Pipelined, QueueOrder, Keys
  <1>6. CASE r <= k
    BY <1>1, <1>2, <1>3, <1>4, <1>6, ToBeRegisteredFrom
  <1>7. CASE k < r
    BY <1>1, <1>4, <1>7 DEF RegisteredUpTo
  <1>. QED
    BY <1>1, <1>5, <1>6, <1>7

\* Sending never removes a result.
LEMMA SendKeepsSent ==
    ASSUME TypeOK, NEW c \in Procs, NEW x \in Actors, NEW m \in Messages, Send(c, x, m),
           NEW a \in Actors, NEW k \in Keys, IsSent(a, k)
    PROVE  IsSent(a, k)'
  <1>1. PICK i \in 1..Len(mgmt[a][a]) : IsRegister(a, i) /\ mgmt[a][a][i].key = k
    BY DEF IsSent
  <1>2. a \in Procs /\ Len(mgmt[a][a]) \in Nat
    BY EmptyFacts DEF Procs, TypeOK
  <1>3. i \in 1..Len(mgmt'[a][a]) /\ mgmt'[a][a][i] = mgmt[a][a][i]
    <2>1. CASE c = a /\ x = a
      <3>1. /\ Len(mgmt'[a][a]) = Len(mgmt[a][a]) + 1
            /\ \A j \in 1..Len(mgmt[a][a]) : mgmt'[a][a][j] = mgmt[a][a][j]
        BY <2>1, SendEffect
      <3>. QED
        BY <1>2, <3>1
    <2>2. CASE ~(c = a /\ x = a)
      <3>1. mgmt'[a][a] = mgmt[a][a]
        BY <1>2, <2>2, SendEffect
      <3>. QED
        BY <3>1
    <2>. QED
      BY <2>1, <2>2
  <1>. QED
    BY <1>1, <1>3 DEF IsSent, IsRegister

\* A call is executed by Publish alone, and keys are only ever taken.
LEMMA StepExecutes ==
    ASSUME IndInv, PipelineInv, [Next]_vars
    PROVE  /\ \/ \A b \in Actors : Executed(b)' = Executed(b)
              \/ \E x \in Actors : Publish(x)
           /\ \A b \in Actors : nextKey[b] <= nextKey'[b]
  <1>. DEFINE Same == \A b \in Actors : Executed(b)' = Executed(b)
              Publishes == \E x \in Actors : Publish(x)
  <1>1. Same \/ Publishes
    <2>. HIDE DEF Same
    <2>1. CASE ProgramAsks
      BY <2>1, ActiveCallPipeline, GetFuturePipeline, ReleaseFuturePipeline DEF ProgramAsks, Same
    <2>2. CASE ProgramReceives
      BY <2>2, ReceiveKeyPipeline, ReceiveDataPipeline DEF ProgramReceives, Same
    <2>3. ASSUME NEW a \in Actors, ServerStep(a) PROVE Same
      BY <2>3, HandleCallPipeline, ServeGetPipeline, DeferGetPipeline, HandleReleasePipeline,
         ForgetResultPipeline, StoreResultPipeline DEF ServerStep, Same
    <2>4. ASSUME NEW a \in Actors, WorkerStep(a) PROVE Same \/ Publishes
      BY <2>4, TakeRequestPipeline, WorkerGetPipeline, WorkerReceivePipeline, WorkerReleasePipeline
         DEF WorkerStep, Same
    <2>5. CASE UNCHANGED vars
      BY <2>5, StutterPipeline DEF Same
    <2>. QED
      BY <2>1, <2>2, <2>3, <2>4, <2>5 DEF Next
  <1>2. nextKey' = nextKey \/ \E a \in Actors : TakeKey(a)
    <2>1. CASE ProgramAsks
      BY <2>1, Zenon DEF ProgramAsks, ActiveCall, GetFuture, ReleaseFuture
    <2>2. CASE ProgramReceives
      BY <2>2 DEF ProgramReceives, ReceiveKey, ReceiveData
    <2>3. ASSUME NEW a \in Actors, ServerStep(a) PROVE nextKey' = nextKey \/ TakeKey(a)
      BY <2>3, Zenon DEF ServerStep, HandleCall, ServeGet, DeferGet, HandleRelease, ForgetResult, StoreResult
    <2>4. ASSUME NEW a \in Actors, WorkerStep(a) PROVE nextKey' = nextKey
      BY <2>4 DEF WorkerStep, TakeRequest, WorkerGet, WorkerReceive, WorkerRelease, Publish
    <2>5. CASE UNCHANGED vars
      BY <2>5 DEF vars
    <2>. QED
      BY <2>1, <2>2, <2>3, <2>4, <2>5 DEF Next
  <1>3. \A b \in Actors : nextKey[b] <= nextKey'[b]
    <2>1. \A b \in Actors : nextKey[b] \in Nat /\ nextKey \in [Actors -> 0..MaxCalls]
      BY DEF IndInv, TypeOK
    <2>. QED
      BY <1>2, <2>1 DEF TakeKey
  <1>. QED
    BY <1>1, <1>3

\* A result that is no longer under way was received by the management thread.
LEMMA SentUntilReceived ==
    ASSUME IndInv, PipelineInv, [Next]_vars, NEW a \in Actors, NEW k \in Keys, IsSent(a, k), ~IsSent(a, k)'
    PROVE  \E c \in Procs : /\ ForgetResult(a, c) \/ StoreResult(a, c)
                            /\ Head(mgmt[c][a]).key = k
  <1>0. Actors \subseteq Procs /\ Client \in Procs /\ TypeOK
    BY DEF Procs, IndInv
  <1>1. mgmt' # mgmt
    BY DEF IsSent, IsRegister
  <1>2. ASSUME NEW c \in Procs, NEW x \in Actors, NEW m \in Messages PROVE ~Send(c, x, m)
    BY <1>0, SendKeepsSent
  <1>3. ASSUME NEW c \in Procs, NEW x \in Actors, NEW t, t # "REGISTER" PROVE ~Receive(x, c, t)
    BY <1>0, <1>3, ReceiveNotResult DEF SentAsBefore
  <1>4. \A c \in Procs, x \in Actors, m \in CallMsgs \cup GetMsgs : ~Ask(c, x, m)
    BY <1>2 DEF Ask, Messages
  <1>5. ~ProgramAsks
    <2>1. ASSUME NEW x \in Actors, NEW kind \in Kinds, NEW arg \in FutureRefs \cup {None}
          PROVE  ~ActiveCall(x, kind, arg)
      <3>. SUFFICES ASSUME ActiveCall(x, kind, arg) PROVE FALSE
        OBVIOUS
      <3>. DEFINE m == [type |-> "CALL", ticket |-> ncalls + 1, kind |-> kind, arg |-> arg]
      <3>1. Ask(Client, x, m) /\ ncalls < MaxCalls /\ (kind \in UsesFuture <=> arg # None)
        BY DEF ActiveCall
      <3>2. ncalls + 1 \in Tickets
        <4>1. ncalls \in 0..MaxCalls
          BY <1>0 DEF TypeOK
        <4>. QED
          BY <3>1, <4>1 DEF Tickets
      <3>3. m \in CallMsgs
        BY <3>1, <3>2 DEF CallMsgs
      <3>. QED
        BY <1>0, <1>4, <3>1, <3>3
    <2>2. ASSUME NEW f \in FutureRefs PROVE ~GetFuture(f) /\ ~ReleaseFuture(f)
      <3>1. /\ f.at \in Actors /\ [type |-> "GET", key |-> f.key] \in GetMsgs
            /\ [type |-> "RELEASE", key |-> f.key] \in Messages
        BY DEF FutureRefs, GetMsgs, Messages, ReleaseMsgs
      <3>. QED
        BY <1>0, <1>2, <1>4, <3>1 DEF GetFuture, ReleaseFuture
    <2>. QED
      BY <2>1, <2>2 DEF ProgramAsks
  <1>6. ~ProgramReceives /\ ~UNCHANGED vars
    BY <1>1 DEF ProgramReceives, ReceiveKey, ReceiveData, vars
  <1>7. ASSUME NEW x \in Actors PROVE ~WorkerStep(x)
    <2>1. ~TakeRequest(x) /\ ~WorkerReceive(x)
      BY <1>1 DEF TakeRequest, WorkerReceive
    <2>2. worker[x].pc # "idle" => worker[x].req \in Requests
      BY <1>0 DEF IndInv, WorkerInv, TypeOK, WorkerStates
    <2>3. worker[x].pc # "idle" /\ worker[x].req.msg.kind \in UsesFuture => worker[x].req.msg.arg \in FutureRefs
      BY <2>2 DEF Requests, CallMsgs
    <2>4. ~WorkerGet(x)
      <3>. SUFFICES ASSUME WorkerGet(x) PROVE FALSE
        OBVIOUS
      <3>1. worker[x].req.msg.arg \in FutureRefs
        BY <2>3 DEF WorkerGet
      <3>2. worker[x].req.msg.arg.at \in Actors /\ [type |-> "GET", key |-> worker[x].req.msg.arg.key] \in GetMsgs
        BY <3>1 DEF FutureRefs, GetMsgs
      <3>. QED
        BY <1>0, <1>4, <3>2 DEF WorkerGet
    <2>5. ~WorkerRelease(x)
      <3>. SUFFICES ASSUME WorkerRelease(x) PROVE FALSE
        OBVIOUS
      <3>1. worker[x].req.msg.arg \in FutureRefs
        BY <2>3 DEF WorkerRelease, UsesFuture
      <3>2. /\ worker[x].req.msg.arg.at \in Actors
            /\ [type |-> "RELEASE", key |-> worker[x].req.msg.arg.key] \in Messages
        BY <3>1 DEF FutureRefs, Messages, ReleaseMsgs
      <3>. QED
        BY <1>0, <1>2, <3>2 DEF WorkerRelease
    <2>6. ~Publish(x)
      <3>. SUFFICES ASSUME Publish(x) PROVE FALSE
        OBVIOUS
      <3>1. worker[x].req \in Requests
        BY <2>2 DEF Publish
      <3>2. [type |-> "REGISTER", key |-> worker[x].req.key, value |-> ResultOf(worker[x].req.msg)] \in Messages
        BY <3>1 DEF Requests, CallMsgs, RegisterMsgs, ResultOf, Values, Messages
      <3>. QED
        BY <1>0, <1>2, <3>2 DEF Publish, ResultKey
    <2>. QED
      BY <2>1, <2>4, <2>5, <2>6 DEF WorkerStep
  <1>8. PICK x \in Actors : ServerStep(x)
    BY <1>5, <1>6, <1>7 DEF Next
  <1>9. PICK c \in Procs : ForgetResult(x, c) \/ StoreResult(x, c)
    BY <1>3, <1>8, Zenon DEF ServerStep, HandleCall, ServeGet, DeferGet, HandleRelease
  <1>10. Receive(x, c, "REGISTER")
    BY <1>9 DEF ForgetResult, StoreResult
  <1>11. SentOrder(x)
    BY DEF PipelineInv, PipelineOrder
  <1>12. x = a /\ Head(mgmt[c][x]).key = k
    <2>. DEFINE h == Head(mgmt[c][x]).key
    <2>1. /\ h \in Keys
          /\ \A j \in Keys : IsSent(x, j)' <=> (IsSent(x, j) /\ j # h)
          /\ \A b \in Actors : b # x => SentAsBefore(b)
      BY <1>10, <1>11, ReceiveResult
    <2>. HIDE DEF h
    <2>2. x = a
      BY <2>1 DEF SentAsBefore
    <2>3. k = h
      BY <2>1, <2>2
    <2>. QED
      BY <2>2, <2>3 DEF h
  <1>. QED
    BY <1>9, <1>12

\* From some key on, and up to the last one taken, the results are to be
\* registered; those of the executed calls are under way.
KeysToRegister ==
    \A a \in Actors :
        /\ Executed(a) \in Nat
        /\ nextKey[a] \in Nat
        /\ \E r \in 0..Executed(a) : \A k \in Keys :
                /\ ToBeRegistered(a, k) <=> (r <= k /\ k < nextKey[a])
                /\ IsSent(a, k) <=> (r <= k /\ k < Executed(a))

LEMMA KeysToRegisterFromInv == IndInv /\ PipelineInv => KeysToRegister
  <1>. SUFFICES ASSUME IndInv, PipelineInv, NEW a \in Actors
                PROVE  /\ Executed(a) \in Nat
                       /\ nextKey[a] \in Nat
                       /\ \E r \in 0..Executed(a) : \A k \in Keys :
                            /\ ToBeRegistered(a, k) <=> (r <= k /\ k < nextKey[a])
                            /\ IsSent(a, k) <=> (r <= k /\ k < Executed(a))
    BY DEF KeysToRegister
  <1>1. Pipelined(a)
    BY DEF PipelineInv, PipelineOrder, Pipelined
  <1>2. Executed(a) \in Nat /\ nextKey[a] \in Nat
    BY <1>1 DEF Pipelined, QueueOrder, IndInv, TypeOK
  <1>3. PICK r \in 0..Executed(a) : RegisteredUpTo(a, r)
    BY <1>1 DEF Pipelined
  <1>4. \A k \in Keys : ToBeRegistered(a, k) <=> (r <= k /\ k < nextKey[a])
    BY <1>1, <1>3, ToBeRegisteredFrom
  <1>5. \A k \in Keys : IsSent(a, k) <=> (r <= k /\ k < Executed(a))
    BY <1>3 DEF RegisteredUpTo
  <1>. QED
    BY <1>2, <1>4, <1>5

\* A result that is no longer to be registered was registered in this step,
\* and whoever was listed for it was answered.
LEMMA ServesListed ==
    ASSUME IndInv, PipelineInv, KeysToRegister, KeysToRegister', [Next]_vars,
           NEW a \in Actors, NEW k \in Keys, ToBeRegistered(a, k), ~ToBeRegistered(a, k)'
    PROVE  /\ pending'[a][k] = << >>
           /\ \A i \in DOMAIN pending[a][k] : reply'[a][pending[a][k][i]] # << >>
  <1>1. IsSent(a, k)
    <2>. SUFFICES ASSUME ~IsSent(a, k) PROVE FALSE
      OBVIOUS
    <2>1. PICK r \in 0..Executed(a) : \A j \in Keys :
                /\ ToBeRegistered(a, j) <=> (r <= j /\ j < nextKey[a])
                /\ IsSent(a, j) <=> (r <= j /\ j < Executed(a))
      BY DEF KeysToRegister
    <2>2. PICK s \in 0..Executed(a)' : \A j \in Keys :
                /\ ToBeRegistered(a, j)' <=> (s <= j /\ j < nextKey'[a])
                /\ IsSent(a, j)' <=> (s <= j /\ j < Executed(a)')
      BY DEF KeysToRegister
    <2>3. /\ Executed(a) \in Nat /\ Executed(a)' \in Nat /\ nextKey[a] \in Nat /\ nextKey'[a] \in Nat
          /\ k \in Nat
      BY DEF KeysToRegister, Keys
    <2>4. r <= k /\ k < nextKey[a] /\ Executed(a) <= k
      BY <2>1, <2>3
    <2>5. nextKey[a] <= nextKey'[a]
      BY StepExecutes
    <2>6. k < s /\ s <= Executed(a)'
      BY <2>2, <2>3, <2>4, <2>5
    <2>7. Executed(a) < Executed(a)'
      BY <2>3, <2>4, <2>6
    <2>8. PICK x \in Actors : Publish(x)
      BY <2>3, <2>7, StepExecutes
    <2>9. x = a
      BY <2>3, <2>7, <2>8, PublishPipeline
    <2>10. Executed(a)' = Executed(a) + 1 /\ \A j \in Keys : j = Executed(a) => IsSent(a, j)'
      BY <2>8, <2>9, PublishPipeline
    <2>11. k = Executed(a)
      BY <2>3, <2>4, <2>6, <2>10
    <2>. QED
      BY <2>10, <2>11 DEF ToBeRegistered
  <1>2. ~IsSent(a, k)'
    BY DEF ToBeRegistered
  <1>3. PICK c \in Procs : (ForgetResult(a, c) \/ StoreResult(a, c)) /\ Head(mgmt[c][a]).key = k
    BY <1>1, <1>2, SentUntilReceived
  <1>4. pending[a][k] \in Seq(Procs) /\ DOMAIN pending[a][k] = 1..Len(pending[a][k])
    BY DEF IndInv, TypeOK
  <1>5. CASE ForgetResult(a, c)
    <2>1. pending[a][k] = << >> /\ pending' = pending
      BY <1>3, <1>5 DEF ForgetResult, Forgotten
    <2>. QED
      BY <2>1
  <1>6. CASE StoreResult(a, c)
    <2>. DEFINE v == Head(mgmt[c][a]).value
    <2>1. /\ Receive(a, c, "REGISTER") /\ reply' = SendToWaiting(a, pending[a][k], v)
          /\ pending' = [pending EXCEPT ![a][k] = << >>]
      BY <1>3, <1>6 DEF StoreResult, Unlisted
    <2>2. Head(mgmt[c][a]) \in RegisterMsgs
      BY <2>1, FirstMessage, MessageTypes
    <2>3. v \in Values
      BY <2>2 DEF RegisterMsgs
    <2>. HIDE DEF v
    <2>4. \A i \in 1..Len(pending[a][k]) :
                reply'[a][pending[a][k][i]] = <<[type |-> "DATA", value |-> v]>>
      BY <2>1, <2>3, SendToWaitingEffect
    <2>5. <<[type |-> "DATA", value |-> v]>> # << >>
      OBVIOUS
    <2>6. pending'[a][k] = << >>
      BY <2>1 DEF IndInv, TypeOK
    <2>. QED
      BY <1>4, <2>4, <2>5, <2>6
  <1>. QED
    BY <1>3, <1>5, <1>6

-----------------------------------------------------------------------------
(***************************************************************************)
(* The theorems.                                                           *)
(***************************************************************************)

\* The invariant holds in every reachable state, for any set of actors and any
\* number of calls.
THEOREM PipelineInductive == Spec => []PipelineInv
  BY Inductive, InitPipeline, NextPipeline, PTL DEF Spec

\* Every actor executes its calls once each and in the order of their keys
\* (SharedMemoryRequestQueue, ActorWorker::master_loop), and the result of each
\* one reaches the store (ActorServer::registerFuture) unless its future was
\* released.
THEOREM CallsInOrder == Spec => []PipelineOrder
  <1>1. PipelineInv => PipelineOrder
    BY DEF PipelineInv
  <1>. QED
    BY <1>1, PipelineInductive, PTL

\* A process that handleGetFutureData lists is listed for data that is not
\* there, and that is still to come unless the future was released.
THEOREM ListedAreServed == Spec => []ListedWillBeServed
  BY Inductive, PipelineInductive, ListedFromInv, PTL

\* registerFuture answers everybody listed in the step that takes the result,
\* whatever was released meanwhile.
THEOREM ResultsServe == Spec => ResultServesListed
  <1>. DEFINE Serves ==
        \A a \in Actors, k \in Keys :
          ToBeRegistered(a, k) /\ ~ToBeRegistered(a, k)' =>
              /\ pending'[a][k] = << >>
              /\ \A i \in DOMAIN pending[a][k] : reply'[a][pending[a][k][i]] # << >>
  <1>1. IndInv /\ PipelineInv /\ KeysToRegister /\ KeysToRegister' /\ [Next]_vars => Serves
    BY ServesListed
  <1>2. IndInv /\ PipelineInv /\ [Next]_vars => KeysToRegister /\ KeysToRegister'
    BY KeysToRegisterFromInv, NextInv, NextPipeline, PTL
  <1>3. IndInv /\ PipelineInv /\ [Next]_vars => [Serves]_vars
    BY <1>1, <1>2
  <1>. HIDE DEF Serves
  <1>4. Spec => [][Serves]_vars
    BY <1>3, Inductive, PipelineInductive, PTL DEF Spec
  <1>. QED
    BY <1>4 DEF Serves, ResultServesListed

-----------------------------------------------------------------------------
(***************************************************************************)
(* The refinement of ActiveObjects: HandleCall accepts a call, Publish     *)
(* resolves the oldest one, a process that receives data obtains the value *)
(* of a resolved one, and every other step changes nothing there.          *)
(***************************************************************************)

\* The calls whose result was published are the executed ones.
LEMMA PublishedIs ==
    ASSUME IndInv, PipelineInv, NEW a \in Actors
    PROVE  Published(a) = 0..(Executed(a) - 1) /\ Executed(a) \in Nat /\ Executed(a) <= Len(calls[a])
  <1>1. /\ Executed(a) \in Nat
        /\ worker[a].pc # "idle" => worker[a].req.key = Executed(a)
        /\ \A i \in 1..Len(queue[a]) : queue[a][i].key = nextKey[a] - Len(queue[a]) + i - 1
    BY DEF PipelineInv, PipelineOrder, QueueOrder
  <1>2. nextKey[a] \in Nat /\ Len(queue[a]) \in Nat
    <2>1. nextKey[a] \in Nat /\ queue[a] \in Seq(Requests)
      BY DEF IndInv, TypeOK
    <2>. QED
      BY <2>1, EmptyFacts
  <1>3. ASSUME NEW k \in 0..(nextKey[a] - 1)
        PROVE  IsQueued(a, k) <=> nextKey[a] - Len(queue[a]) <= k
    <2>0. k \in Nat /\ k < nextKey[a]
      BY <1>2
    <2>. QED
      BY <1>1, <1>2, <2>0, QueuedKeys
  <1>6. nextKey[a] = Len(calls[a])
    BY DEF IndInv, KeyInv
  <1>4. CASE worker[a].pc = "idle"
    <2>1. Executed(a) = nextKey[a] - Len(queue[a])
      BY <1>2, <1>4 DEF Executed
    <2>2. ASSUME NEW k \in 0..(nextKey[a] - 1)
          PROVE  ~IsRunning(a, k) /\ ~IsQueued(a, k) <=> k < Executed(a)
      <3>1. k \in Nat /\ k < nextKey[a]
        BY <1>2
      <3>2. IsRunning(a, k) <=> FALSE
        BY <1>1, <1>4 DEF IsRunning
      <3>3. IsQueued(a, k) <=> nextKey[a] - Len(queue[a]) <= k
        BY <1>3
      <3>. QED
        BY <1>1, <1>2, <2>1, <3>1, <3>2, <3>3
    <2>3. Executed(a) <= nextKey[a]
      BY <1>2, <2>1
    <2>4. \A k \in 0..(Executed(a) - 1) : k \in 0..(nextKey[a] - 1)
      BY <1>1, <1>2, <2>3
    <2>. QED
      BY <1>1, <1>2, <2>2, <2>3, <2>4, <1>6 DEF Published
  <1>5. CASE worker[a].pc # "idle"
    <2>1. Executed(a) = nextKey[a] - Len(queue[a]) - 1
      BY <1>2, <1>5 DEF Executed
    <2>2. ASSUME NEW k \in 0..(nextKey[a] - 1)
          PROVE  ~IsRunning(a, k) /\ ~IsQueued(a, k) <=> k < Executed(a)
      <3>1. k \in Nat /\ k < nextKey[a]
        BY <1>2
      <3>2. IsRunning(a, k) <=> k = Executed(a)
        BY <1>1, <1>5 DEF IsRunning
      <3>3. IsQueued(a, k) <=> nextKey[a] - Len(queue[a]) <= k
        BY <1>3
      <3>. QED
        BY <1>1, <1>2, <2>1, <3>1, <3>2, <3>3
    <2>3. Executed(a) <= nextKey[a]
      BY <1>2, <2>1
    <2>4. \A k \in 0..(Executed(a) - 1) : k \in 0..(nextKey[a] - 1)
      BY <1>1, <1>2, <2>3
    <2>. QED
      BY <1>1, <1>2, <2>2, <2>3, <2>4, <1>6 DEF Published
  <1>. QED
    BY <1>4, <1>5

\* The abstract state of the calls.
PublishedAre == \A a \in Actors : Published(a) = 0..(Executed(a) - 1)

LEMMA PublishedAreFromInv == IndInv /\ PipelineInv => PublishedAre
  BY PublishedIs DEF PublishedAre

\* What a process knows changes with what the program and the workers have
\* obtained.
LEMMA ViewKept ==
    ASSUME data' = data,
           \A a \in Actors : /\ worker'[a].got = worker[a].got
                             /\ worker[a].got # None => worker'[a].req = worker[a].req
    PROVE  \A c \in Procs : View(c)' = View(c)
  <1>. SUFFICES ASSUME NEW c \in Procs PROVE View(c)' = View(c)
    OBVIOUS
  <1>1. CASE c = Client
    BY <1>1 DEF View
  <1>2. CASE c # Client
    <2>1. c \in Actors
      BY <1>2 DEF Procs
    <2>. QED
      BY <1>2, <2>1 DEF View
  <1>. QED
    BY <1>1, <1>2

resolvedBar == [a \in Actors |-> Published(a)]
viewBar == [c \in Procs |-> View(c)]

\* Steps in which nothing is accepted, published or obtained.
LEMMA AbstractStutter ==
    ASSUME PublishedAre, PublishedAre', \A b \in Actors : Executed(b)' = Executed(b), calls' = calls, data' = data,
           \A a \in Actors : /\ worker'[a].got = worker[a].got
                             /\ worker[a].got # None => worker'[a].req = worker[a].req
    PROVE  UNCHANGED AO!aoVars
  <1>1. resolvedBar' = resolvedBar
    BY DEF PublishedAre, resolvedBar
  <1>2. viewBar' = viewBar
    BY ViewKept DEF viewBar
  <1>. QED
    BY <1>1, <1>2 DEF AO!aoVars, resolvedBar, viewBar

\* The program's and the workers' steps that neither obtain nor publish, and
\* the management thread's steps that accept no call.
LEMMA OtherStepsStutter ==
    ASSUME IndInv, PipelineInv, PublishedAre, PublishedAre', [Next]_vars,
           ~ReceiveData, \A a \in Actors : /\ ~WorkerReceive(a) /\ ~Publish(a)
                                           /\ \A c \in Procs : ~HandleCall(a, c)
    PROVE  UNCHANGED AO!aoVars
  <1>1. \A b \in Actors : Executed(b)' = Executed(b)
    BY StepExecutes
  <1>. DEFINE Same == /\ calls' = calls /\ data' = data
                      /\ \A a \in Actors : /\ worker'[a].got = worker[a].got
                                           /\ worker[a].got # None => worker'[a].req = worker[a].req
  <1>2. ASSUME ProgramAsks PROVE Same
    BY <1>2, Zenon DEF ProgramAsks, ActiveCall, GetFuture, ReleaseFuture, program
  <1>3. ASSUME ReceiveKey PROVE Same
    BY <1>3 DEF ReceiveKey
  <1>4. ASSUME NEW a \in Actors, ServerStep(a) PROVE Same
    BY <1>4, Zenon DEF ServerStep, ServeGet, DeferGet, HandleRelease, ForgetResult, StoreResult, program
  <1>5. ASSUME NEW a \in Actors, TakeRequest(a) PROVE Same
    <2>1. worker[a].got = None
      BY <1>5 DEF TakeRequest, IndInv, WorkerInv
    <2>2. worker'[a].got = None /\ \A b \in Actors : b # a => worker'[b] = worker[b]
      BY <1>5 DEF TakeRequest, IndInv, TypeOK
    <2>. QED
      BY <1>5, <2>1, <2>2 DEF TakeRequest, program
  <1>6. ASSUME NEW a \in Actors, WorkerGet(a) \/ WorkerRelease(a) PROVE Same
    <2>1. calls' = calls /\ data' = data
      BY <1>6 DEF WorkerGet, WorkerRelease, program
    <2>2. worker \in [Actors -> WorkerStates]
      BY DEF IndInv, TypeOK
    <2>3. \/ worker' = [worker EXCEPT ![a].pc = "blocked"]
          \/ worker' = [worker EXCEPT ![a].pc = "released"]
      BY <1>6 DEF WorkerGet, WorkerRelease
    <2>. QED
      BY <2>1, <2>2, <2>3 DEF WorkerStates
  <1>7. ASSUME UNCHANGED vars PROVE Same
    BY <1>7 DEF vars
  <1>8. Same
    <2>. HIDE DEF Same
    <2>. QED
      BY <1>2, <1>3, <1>4, <1>5, <1>6, <1>7 DEF Next, ProgramReceives, WorkerStep
  <1>. QED
    BY <1>1, <1>8, AbstractStutter

\* HandleCall accepts a call.
LEMMA HandleCallAccepts ==
    ASSUME IndInv, PipelineInv, PublishedAre, PublishedAre', NEW a \in Actors, NEW c \in Procs, HandleCall(a, c)
    PROVE  AO!Accept(a)
  <1>1. /\ calls' = [calls EXCEPT ![a] = Append(@, Head(mgmt[c][a]))]
        /\ worker' = worker /\ data' = data /\ Receive(a, c, "CALL")
    BY DEF HandleCall, program
  <1>2. Head(mgmt[c][a]) \in CallMsgs
    BY <1>1, FirstMessage, MessageTypes
  <1>3. resolvedBar' = resolvedBar
    BY HandleCallPipeline DEF PublishedAre, resolvedBar
  <1>4. viewBar' = viewBar
    BY <1>1, ViewKept DEF viewBar
  <1>. QED
    BY <1>1, <1>2, <1>3, <1>4 DEF AO!Accept, resolvedBar, viewBar

\* Publish resolves the oldest unresolved call.
LEMMA PublishResolves ==
    ASSUME IndInv, PipelineInv, PublishedAre, PublishedAre', NEW a \in Actors, Publish(a)
    PROVE  AO!Resolve(a)
  <1>1. calls' = calls /\ data' = data /\ worker' = [worker EXCEPT ![a] = NotRunning]
    BY DEF Publish, program
  <1>2. /\ worker'[a].got = None
        /\ \A b \in Actors : b # a => worker'[b] = worker[b]
    BY <1>1 DEF IndInv, TypeOK, NotRunning
  <1>3. /\ Executed(a)' = Executed(a) + 1 /\ Executed(a) < nextKey[a]
        /\ \A b \in Actors : b # a => Executed(b)' = Executed(b)
    BY PublishPipeline
  <1>4. Executed(a) \in Nat /\ nextKey[a] = Len(calls[a]) /\ nextKey[a] \in Nat
    BY PublishedIs DEF IndInv, KeyInv, TypeOK
  <1>5. Executed(a) \in 0..(Len(calls[a]) - 1)
    BY <1>3, <1>4
  <1>6. resolvedBar[a] = 0..(Executed(a) - 1)
    BY DEF PublishedAre, resolvedBar
  <1>7. resolvedBar' = [resolvedBar EXCEPT ![a] = 0..Executed(a)]
    <2>1. \A b \in Actors : Published(b)' = IF b = a THEN 0..Executed(a) ELSE Published(b)
      <3>1. ASSUME NEW b \in Actors, b # a PROVE Published(b)' = Published(b)
        BY <1>3, <3>1 DEF PublishedAre
      <3>2. Published(a)' = 0..Executed(a)
        <4>1. Published(a)' = 0..(Executed(a)' - 1)
          BY DEF PublishedAre
        <4>2. Executed(a)' - 1 = Executed(a)
          BY <1>3, <1>4
        <4>. QED
          BY <4>1, <4>2
      <3>. QED
        BY <3>1, <3>2
    <2>. QED
      BY <2>1 DEF resolvedBar
  <1>8. viewBar' = [viewBar EXCEPT ![a] = {}]
    <2>1. a # Client /\ a \in Procs
      BY DEF Procs
    <2>2. View(a)' = {}
      BY <1>2, <2>1 DEF View
    <2>3. ASSUME NEW c \in Procs, c # a PROVE View(c)' = View(c)
      <3>1. CASE c = Client
        BY <1>1, <3>1 DEF View
      <3>2. CASE c # Client
        <4>1. c \in Actors
          BY <3>2 DEF Procs
        <4>. QED
          BY SMTT(20), <1>2, <2>3, <3>2, <4>1 DEF View
      <3>. QED
        BY <3>1, <3>2
    <2>. QED
      BY <2>1, <2>2, <2>3 DEF viewBar
  <1>. QED
    BY <1>1, <1>5, <1>6, <1>7, <1>8 DEF AO!Resolve, resolvedBar, viewBar

\* The answer that is taken to a get is the value of an executed call.
LEMMA TakenIsExecuted ==
    ASSUME IndInv, PipelineInv, NEW c \in Procs, TakeAnswer(c), wait[c].msg.type = "GET"
    PROVE  /\ wait[c].to \in Actors /\ wait[c].msg.key \in Keys
           /\ wait[c].msg.key \in 0..(Executed(wait[c].to) - 1)
           /\ Answer(c) = ResultOf(calls[wait[c].to][wait[c].msg.key + 1])
  <1>1. wait[c] \in Questions /\ reply[wait[c].to][c] # << >>
    BY TakeAnswerEffect DEF TakeAnswer, HasAnswer
  <1>2. wait[c].to \in Actors /\ wait[c].msg \in GetMsgs
    BY <1>1 DEF Questions, CallMsgs
  <1>3. wait[c].msg.key \in Keys
    BY <1>2 DEF GetMsgs
  <1>4. wait[c].msg.key < Executed(wait[c].to)
    BY <1>1, <1>2 DEF PipelineInv, ServedInv
  <1>5. Executed(wait[c].to) \in Nat
    BY <1>2, PublishedIs
  <1>6. wait[c].msg.key \in 0..(Executed(wait[c].to) - 1)
    BY <1>3, <1>4, <1>5 DEF Keys
  <1>7. Answer(c) = ResultOf(calls[wait[c].to][wait[c].msg.key + 1])
    BY <1>2, AnswerIsRight
  <1>. QED
    BY <1>2, <1>3, <1>6, <1>7

\* The program obtains the value of a resolved call.
LEMMA ReceiveDataObtains ==
    ASSUME IndInv, PipelineInv, PublishedAre, PublishedAre', ReceiveData
    PROVE  AO!Obtain(Client)
  <1>. DEFINE a == wait[Client].to
              k == wait[Client].msg.key
              f == [at |-> a, key |-> k]
              v == ResultOf(calls[a][k + 1])
  <1>1. /\ TakeAnswer(Client) /\ wait[Client].msg.type = "GET"
        /\ data' = [data EXCEPT ![f] = Answer(Client)]
        /\ worker' = worker /\ calls' = calls
    BY DEF ReceiveData
  <1>2. Client \in Procs
    BY DEF Procs
  <1>3. a \in Actors /\ k \in Keys /\ k \in 0..(Executed(a) - 1) /\ Answer(Client) = v
    BY <1>1, <1>2, TakenIsExecuted
  <1>4. k \in resolvedBar[a]
    BY <1>3 DEF PublishedAre, resolvedBar
  <1>5. v # None
    <2>1. Answer(Client) \in Values
      BY <1>1, <1>2, AnswerIsRight
    <2>. QED
      BY <1>3, <2>1
  <1>6. f \in FutureRefs /\ data \in [FutureRefs -> Values \cup {None}]
    BY SMTT(20), <1>3 DEF FutureRefs, IndInv, TypeOK
  <1>7. data[f] # None => data[f] = v
    BY SMTT(20), <1>6 DEF IndInv, AnswersMatch, DataMatch
  <1>8. data'[f] = v /\ \A g \in FutureRefs : g # f => data'[g] = data[g]
    BY <1>1, <1>3, <1>6
  <1>9. View(Client)' = View(Client) \cup {[at |-> a, key |-> k, value |-> v]}
    <2>. DEFINE known(g) == [at |-> g.at, key |-> g.key, value |-> data[g]]
                known2(g) == [at |-> g.at, key |-> g.key, value |-> data'[g]]
    <2>1. View(Client) = {known(g) : g \in {h \in FutureRefs : data[h] # None}}
      BY DEF View
    <2>2. View(Client)' = {known2(g) : g \in {h \in FutureRefs : data'[h] # None}}
      BY DEF View
    <2>3. known2(f) = [at |-> a, key |-> k, value |-> v]
      BY <1>8
    <2>4. \A g \in FutureRefs : data[g] # None => data'[g] # None /\ known2(g) = known(g)
      BY <1>5, <1>7, <1>8
    <2>5. \A g \in FutureRefs : data'[g] # None => g = f \/ (data[g] # None /\ known2(g) = known(g))
      BY <1>8
    <2>6. data'[f] # None
      BY <1>5, <1>8
    <2>. HIDE DEF known, known2
    <2>. QED
      BY <1>6, <2>1, <2>2, <2>3, <2>4, <2>5, <2>6
  <1>10. \A c \in Procs : c # Client => View(c)' = View(c)
    BY <1>1 DEF View, Procs
  <1>11. viewBar' = [viewBar EXCEPT ![Client] = @ \cup {[at |-> a, key |-> k, value |-> v]}]
    BY <1>2, <1>9, <1>10 DEF viewBar
  <1>12. resolvedBar' = resolvedBar
    BY ReceiveDataPipeline DEF PublishedAre, resolvedBar
  <1>. QED
    BY <1>1, <1>3, <1>4, <1>11, <1>12 DEF AO!Obtain, resolvedBar, viewBar

\* A worker obtains the value of a resolved call.
LEMMA WorkerReceiveObtains ==
    ASSUME IndInv, PipelineInv, PublishedAre, PublishedAre', NEW x \in Actors, WorkerReceive(x)
    PROVE  AO!Obtain(x)
  <1>. DEFINE a == wait[x].to
              k == wait[x].msg.key
              v == ResultOf(calls[a][k + 1])
  <1>1. /\ worker[x].pc = "blocked" /\ TakeAnswer(x)
        /\ worker' = [worker EXCEPT ![x] = [pc |-> "got", req |-> @.req, got |-> Answer(x)]]
        /\ data' = data /\ calls' = calls
    BY DEF WorkerReceive, program
  <1>2. x \in Procs /\ x # Client
    BY DEF Procs
  <1>3. /\ wait[x] = [to |-> worker[x].req.msg.arg.at,
                      msg |-> [type |-> "GET", key |-> worker[x].req.msg.arg.key]]
        /\ worker[x].got = None
    BY <1>1 DEF IndInv, WorkerInv
  <1>4. a \in Actors /\ k \in Keys /\ k \in 0..(Executed(a) - 1) /\ Answer(x) = v
    BY SMTT(20), <1>1, <1>2, <1>3, TakenIsExecuted
  <1>5. k \in resolvedBar[a]
    BY <1>4 DEF PublishedAre, resolvedBar
  <1>6. v # None
    <2>1. Answer(x) \in Values
      BY <1>1, <1>2, <1>3, AnswerIsRight
    <2>. QED
      BY <1>4, <2>1
  <1>7. /\ worker'[x].got = v /\ worker'[x].req = worker[x].req
        /\ \A b \in Actors : b # x => worker'[b] = worker[b]
    BY <1>1, <1>4 DEF IndInv, TypeOK
  <1>8. View(x) = {}
    BY <1>2, <1>3 DEF View
  <1>9. View(x)' = {[at |-> a, key |-> k, value |-> v]}
    <2>1. a = worker'[x].req.msg.arg.at /\ k = worker'[x].req.msg.arg.key
      BY <1>3, <1>7
    <2>. HIDE DEF a, k, v
    <2>. QED
      BY <1>2, <1>6, <1>7, <2>1 DEF View
  <1>10. \A c \in Procs : c # x => View(c)' = View(c)
    BY <1>1, <1>7 DEF View, Procs
  <1>. HIDE DEF a, k, v
  <1>11. viewBar' = [viewBar EXCEPT ![x] = @ \cup {[at |-> a, key |-> k, value |-> v]}]
    BY <1>2, <1>8, <1>9, <1>10 DEF viewBar
  <1>12. resolvedBar' = resolvedBar
    BY WorkerReceivePipeline DEF PublishedAre, resolvedBar
  <1>. QED
    BY <1>1, <1>4, <1>5, <1>11, <1>12 DEF AO!Obtain, resolvedBar, viewBar, v

\* The initial state is the one of active objects that were never called.
LEMMA InitAbstract == Init => AO!AOInit
  <1>. SUFFICES ASSUME Init PROVE AO!AOInit
    OBVIOUS
  <1>1. \A a \in Actors : Published(a) = {}
    BY DEF Init, Published
  <1>2. \A c \in Procs : View(c) = {}
    BY DEF Init, View, Procs, NotRunning
  <1>. QED
    BY <1>1, <1>2 DEF AO!AOInit, Init

\* Every step of the runtime is a step of active objects, or none.
LEMMA NextAbstract ==
    IndInv /\ PipelineInv /\ PublishedAre /\ PublishedAre' /\ [Next]_vars => [AO!AONext]_(AO!aoVars)
  <1>. SUFFICES ASSUME IndInv, PipelineInv, PublishedAre, PublishedAre', [Next]_vars
                PROVE  AO!AONext \/ UNCHANGED AO!aoVars
    OBVIOUS
  <1>0. Client \in Procs /\ Actors \subseteq Procs
    BY DEF Procs
  <1>1. CASE ReceiveData
    BY <1>0, <1>1, ReceiveDataObtains DEF AO!AONext
  <1>2. ASSUME NEW a \in Actors, WorkerReceive(a) PROVE AO!AONext
    BY <1>0, <1>2, WorkerReceiveObtains DEF AO!AONext
  <1>3. ASSUME NEW a \in Actors, Publish(a) PROVE AO!AONext
    BY <1>3, PublishResolves DEF AO!AONext
  <1>4. ASSUME NEW a \in Actors, NEW c \in Procs, HandleCall(a, c) PROVE AO!AONext
    BY <1>4, HandleCallAccepts DEF AO!AONext
  <1>. QED
    BY <1>1, <1>2, <1>3, <1>4, OtherStepsStutter

\* The runtime implements active objects (ActiveObjects.tla): calls resolve in
\* the order they were accepted, and no process sees another value of a future
\* than the result of its call, nor sees it before the call was executed.
THEOREM Refinement == Spec => ImplementsActiveObjects
  <1>1. IndInv /\ PipelineInv /\ [Next]_vars => PublishedAre /\ PublishedAre'
    BY PublishedAreFromInv, NextInv, NextPipeline, PTL
  <1>2. IndInv /\ PipelineInv /\ [Next]_vars => [AO!AONext]_(AO!aoVars)
    BY <1>1, NextAbstract
  <1>. QED
    BY <1>2, InitAbstract, Inductive, PipelineInductive, PTL DEF Spec, ImplementsActiveObjects, AO!AOSpec

-----------------------------------------------------------------------------
(***************************************************************************)
(* Workers do not wait for each other in a cycle: the call a worker waits  *)
(* for was made before the one it executes, and so was every call that is  *)
(* executed before it.                                                     *)
(***************************************************************************)

\* A call has a number for a ticket, and so has every accepted call.
LEMMA CallTicket == ASSUME NEW m \in CallMsgs PROVE m.ticket \in Nat
  BY DEF CallMsgs, Tickets
LEMMA AcceptedCall ==
    ASSUME IndInv, NEW a \in Actors, NEW i \in 1..Len(calls[a])
    PROVE  calls[a][i] \in CallMsgs /\ calls[a][i].ticket \in Nat
  <1>1. calls[a] \in Seq(CallMsgs)
    BY DEF IndInv, TypeOK
  <1>2. calls[a][i] \in CallMsgs
    BY <1>1
  <1>. QED
    BY <1>2, CallTicket

\* Steps that make and accept no call.
LEMMA TicketsKept ==
    ASSUME TicketOrderInv, IndInv, calls' = calls, ncalls' = ncalls,
           \/ ~ Calling'
           \/ /\ wait'[Client] = wait[Client]
              /\ \A b \in Actors : InChannel(Client, b)' => InChannel(Client, b)
    PROVE  TicketOrderInv'
  <1>1. Calling' => /\ wait'[Client].msg.ticket = ncalls' /\ GivenEarlier(calls', wait'[Client].msg)
                    /\ \A b \in Actors : InChannel(Client, b)' => AcceptedBefore(calls', ncalls')
    <2>. SUFFICES ASSUME Calling'
                  PROVE  /\ wait'[Client].msg.ticket = ncalls' /\ GivenEarlier(calls', wait'[Client].msg)
                         /\ \A b \in Actors : InChannel(Client, b)' => AcceptedBefore(calls', ncalls')
      OBVIOUS
    <2>1. wait'[Client] = wait[Client] /\ Calling
      BY DEF Calling
    <2>. QED
      BY <2>1 DEF TicketOrderInv
  <1>2. AcceptedBefore(calls', ncalls' + 1)
    BY DEF TicketOrderInv
  <1>3. \A a \in Actors : \A i \in 1..Len(calls'[a]) : GivenEarlier(calls', calls'[a][i])
    BY DEF TicketOrderInv
  <1>4. \A a \in Actors : \A i, j \in 1..Len(calls'[a]) : i < j => calls'[a][i].ticket < calls'[a][j].ticket
    BY DEF TicketOrderInv
  <1>. QED
    BY <1>1, <1>2, <1>3, <1>4 DEF TicketOrderInv, AcceptedBefore, GivenEarlier

\* The program makes a call: it has the next ticket, and the future it is given is one the program holds.
LEMMA ActiveCallTickets ==
    ASSUME TicketOrderInv, IndInv, NEW a \in Actors, NEW kind \in Kinds, NEW arg \in FutureRefs \cup {None},
           ActiveCall(a, kind, arg)
    PROVE  TicketOrderInv'
  <1>. DEFINE m == [type |-> "CALL", ticket |-> ncalls + 1, kind |-> kind, arg |-> arg]
  <1>1. /\ wait' = [wait EXCEPT ![Client] = [to |-> a, msg |-> m]]
        /\ IF kind \in UsesFuture THEN arg # None /\ Holds(arg) ELSE arg = None
        /\ ncalls' = ncalls + 1 /\ calls' = calls
    BY DEF ActiveCall, Ask
  <1>2. wait'[Client] = [to |-> a, msg |-> m]
    BY <1>1 DEF IndInv, TypeOK, Procs
  <1>3. ncalls \in Nat
    BY DEF IndInv, TypeOK
  <1>6. AcceptedBefore(calls, ncalls + 1) /\ AcceptedBefore(calls, ncalls + 2)
    <2>1. AcceptedBefore(calls, ncalls + 1)
      BY DEF TicketOrderInv
    <2>. SUFFICES ASSUME NEW b \in Actors, NEW i \in 1..Len(calls[b]) PROVE calls[b][i].ticket < ncalls + 2
      BY <2>1 DEF AcceptedBefore
    <2>2. calls[b][i].ticket < ncalls + 1
      BY <2>1 DEF AcceptedBefore
    <2>3. calls[b][i].ticket \in Nat
      BY AcceptedCall
    <2>. QED
      BY <1>3, <2>2, <2>3
  <1>7. GivenEarlier(calls, m)
    <2>. SUFFICES ASSUME arg # None
                  PROVE  arg.key < Len(calls[arg.at]) /\ calls[arg.at][arg.key + 1].ticket < ncalls + 1
      BY DEF GivenEarlier
    <2>1. arg \in FutureRefs /\ ticketOf[arg] # None
      BY <1>1 DEF Holds
    <2>2. arg.key < Len(calls[arg.at]) /\ arg.at \in Actors /\ arg.key \in Nat
      BY <2>1 DEF IndInv, ValueInv, TicketInv, FutureRefs, Keys
    <2>3. arg.key + 1 \in 1..Len(calls[arg.at])
      <3>1. Len(calls[arg.at]) \in Nat
        BY <2>2 DEF IndInv, TypeOK
      <3>. QED
        BY <2>2, <3>1
    <2>. QED
      BY <1>6, <2>2, <2>3 DEF AcceptedBefore
  <1>. HIDE DEF m
  <1>8. m.ticket = ncalls'
    BY <1>1 DEF m
  <1>9. wait'[Client].msg = m
    BY <1>2
  <1>10. AcceptedBefore(calls', ncalls') /\ AcceptedBefore(calls', ncalls' + 1)
    <2>1. ncalls' + 1 = ncalls + 2
      BY <1>1, <1>3
    <2>. QED
      BY <1>1, <1>6, <2>1
  <1>11. /\ \A b \in Actors : \A i, j \in 1..Len(calls'[b]) : i < j => calls'[b][i].ticket < calls'[b][j].ticket
         /\ \A b \in Actors : \A i \in 1..Len(calls'[b]) : GivenEarlier(calls', calls'[b][i])
    BY <1>1 DEF TicketOrderInv
  <1>12. GivenEarlier(calls', wait'[Client].msg)
    BY <1>1, <1>7, <1>9
  <1>. QED
    BY <1>8, <1>9, <1>10, <1>11, <1>12 DEF TicketOrderInv, AcceptedBefore, GivenEarlier

\* The management thread accepts a call: all calls accepted so far have smaller tickets.
LEMMA HandleCallTickets ==
    ASSUME TicketOrderInv, IndInv, NEW a \in Actors, NEW c \in Procs, HandleCall(a, c)
    PROVE  TicketOrderInv'
  <1>. DEFINE m == Head(mgmt[c][a])
  <1>1. /\ Receive(a, c, "CALL") /\ calls' = [calls EXCEPT ![a] = Append(@, m)]
        /\ wait' = wait /\ ncalls' = ncalls
    BY DEF HandleCall, program
  <1>2. m = mgmt[c][a][1] /\ m.type = "CALL" /\ m \in Messages /\ 1 \in 1..Len(mgmt[c][a])
    BY <1>1, FirstMessage
  <1>3. c = Client /\ wait[Client] = [to |-> a, msg |-> m] /\ InChannel(Client, a)
    <2>1. c = Client
      <3>1. mgmt[c][a][1].type = "CALL" => c = Client
        BY <1>2 DEF IndInv, ChannelInv
      <3>. QED
        BY <1>2, <3>1
    <2>. QED
      BY <1>1, <2>1, ReceiveQuestion DEF QuestionTypes
  <1>4. m \in CallMsgs
    BY <1>2, MessageTypes
  <1>5. \A b \in Actors : ~ InChannel(Client, b)'
    BY <1>1, <1>3, ReceiveQuestion DEF QuestionTypes
  <1>. HIDE DEF m
  <1>6. Calling /\ wait[Client].msg = m
    <2>1. wait[Client] # None
      BY <1>1, <1>3, ReceiveQuestion DEF QuestionTypes, m
    <2>. QED
      BY <1>2, <1>3, <2>1 DEF Calling
  <1>7. m.ticket = ncalls /\ GivenEarlier(calls, m) /\ AcceptedBefore(calls, ncalls) /\ ncalls \in Nat
    <2>1. ncalls \in Nat
      BY DEF IndInv, TypeOK
    <2>. QED
      BY <1>3, <1>6, <2>1 DEF TicketOrderInv
  <1>8. calls[a] \in Seq(CallMsgs) /\ Len(calls[a]) \in Nat
    BY DEF IndInv, TypeOK
  <1>9. /\ Len(calls'[a]) = Len(calls[a]) + 1 /\ calls'[a][Len(calls[a]) + 1] = m
        /\ \A i \in 1..Len(calls[a]) : calls'[a][i] = calls[a][i]
        /\ \A b \in Actors : b # a => calls'[b] = calls[b]
    <2>1. calls'[a] = Append(calls[a], m) /\ \A b \in Actors : b # a => calls'[b] = calls[b]
      BY <1>1 DEF IndInv, TypeOK
    <2>. QED
      BY <1>4, <1>8, <2>1, AppendFacts
  <1>10. ASSUME NEW b \in Actors, NEW i \in 1..Len(calls'[b])
         PROVE  \/ i \in 1..Len(calls[b]) /\ calls'[b][i] = calls[b][i]
                \/ b = a /\ i = Len(calls[a]) + 1 /\ calls'[b][i] = m
    BY <1>8, <1>9
  <1>11. \A x : GivenEarlier(calls, x) /\ (x.arg # None => x.arg.at \in Actors /\ x.arg.key \in Nat) => GivenEarlier(calls', x)
    <2>. SUFFICES ASSUME NEW x, GivenEarlier(calls, x), x.arg # None, x.arg.at \in Actors, x.arg.key \in Nat
                  PROVE  /\ x.arg.key < Len(calls'[x.arg.at])
                         /\ calls'[x.arg.at][x.arg.key + 1].ticket < x.ticket
      BY DEF GivenEarlier
    <2>1. x.arg.key < Len(calls[x.arg.at]) /\ calls[x.arg.at][x.arg.key + 1].ticket < x.ticket
      BY DEF GivenEarlier
    <2>2. Len(calls[x.arg.at]) \in Nat
      BY DEF IndInv, TypeOK
    <2>3. x.arg.key + 1 \in 1..Len(calls[x.arg.at])
      BY <2>1, <2>2
    <2>4. CASE x.arg.at = a
      BY <1>8, <1>9, <2>1, <2>3, <2>4
    <2>5. CASE x.arg.at # a
      BY <1>9, <2>1, <2>5
    <2>. QED
      BY <2>4, <2>5
  <1>12. \A x \in CallMsgs : x.arg # None => x.arg.at \in Actors /\ x.arg.key \in Nat
    BY DEF CallMsgs, FutureRefs, Keys
  <1>13. \A b \in Actors : \A i \in 1..Len(calls[b]) : calls[b][i] \in CallMsgs /\ calls[b][i].ticket \in Nat
    BY AcceptedCall
  <1>14. GivenEarlier(calls', m)
    BY <1>4, <1>7, <1>11, <1>12
  <1>15. AcceptedBefore(calls', ncalls' + 1)
    <2>. SUFFICES ASSUME NEW b \in Actors, NEW i \in 1..Len(calls'[b]) PROVE calls'[b][i].ticket < ncalls + 1
      BY <1>1 DEF AcceptedBefore
    <2>1. CASE i \in 1..Len(calls[b]) /\ calls'[b][i] = calls[b][i]
      <3>1. calls[b][i].ticket < ncalls
        BY <1>7, <2>1 DEF AcceptedBefore
      <3>. QED
        BY <1>7, <1>13, <2>1, <3>1
    <2>2. CASE calls'[b][i] = m
      BY <1>7, <2>2
    <2>. QED
      BY <1>10, <2>1, <2>2
  <1>16. ASSUME NEW b \in Actors, NEW i \in 1..Len(calls'[b]), NEW j \in 1..Len(calls'[b]), i < j
         PROVE  calls'[b][i].ticket < calls'[b][j].ticket
    <2>1. CASE j \in 1..Len(calls[b]) /\ calls'[b][j] = calls[b][j]
      <3>1. i \in 1..Len(calls[b])
        BY <1>16, <2>1
      <3>2. calls'[b][i] = calls[b][i]
        BY <1>9, <3>1
      <3>. QED
        BY <1>16, <2>1, <3>1, <3>2 DEF TicketOrderInv
    <2>2. CASE b = a /\ j = Len(calls[a]) + 1 /\ calls'[b][j] = m
      <3>1. i \in 1..Len(calls[a])
        BY <1>8, <1>16, <2>2
      <3>2. calls'[b][i] = calls[a][i]
        BY <1>9, <2>2, <3>1
      <3>. QED
        BY <1>7, <2>2, <3>1, <3>2 DEF AcceptedBefore
    <2>. QED
      BY <1>10, <2>1, <2>2
  <1>17. ASSUME NEW b \in Actors, NEW i \in 1..Len(calls'[b])
         PROVE  GivenEarlier(calls', calls'[b][i])
    <2>1. CASE i \in 1..Len(calls[b]) /\ calls'[b][i] = calls[b][i]
      <3>1. GivenEarlier(calls, calls[b][i]) /\ calls[b][i] \in CallMsgs
        BY <1>13, <2>1 DEF TicketOrderInv
      <3>. QED
        BY <1>11, <1>12, <2>1, <3>1
    <2>2. CASE calls'[b][i] = m
      BY <1>14, <2>2
    <2>. QED
      BY <1>10, <2>1, <2>2
  <1>18. wait'[Client].msg.ticket = ncalls' /\ GivenEarlier(calls', wait'[Client].msg)
    BY <1>1, <1>6, <1>7, <1>14
  <1>. QED
    BY <1>5, <1>15, <1>16, <1>17, <1>18 DEF TicketOrderInv, AcceptedBefore, GivenEarlier

\* A worker sends on its own channels.
LEMMA WorkerSends ==
    ASSUME IndInv, NEW a \in Actors, NEW x \in Actors, NEW m, Send(a, x, m)
    PROVE  \A b \in Actors : InChannel(Client, b)' <=> InChannel(Client, b)
  <1>1. mgmt'[Client] = mgmt[Client]
    BY DEF Send, IndInv, TypeOK, Procs
  <1>. QED
    BY <1>1 DEF InChannel, IsQuestion

\* The other steps of the program.
LEMMA ProgramTickets ==
    ASSUME TicketOrderInv, IndInv,
           (\E f \in FutureRefs : GetFuture(f) \/ ReleaseFuture(f)) \/ ReceiveKey \/ ReceiveData
    PROVE  TicketOrderInv'
  <1>1. ASSUME NEW f \in FutureRefs, GetFuture(f) PROVE TicketOrderInv'
    <2>1. wait'[Client] = [to |-> f.at, msg |-> [type |-> "GET", key |-> f.key]] /\ calls' = calls /\ ncalls' = ncalls
      BY <1>1 DEF GetFuture, Ask, program, IndInv, TypeOK, Procs
    <2>2. ~ Calling'
      BY <2>1 DEF Calling
    <2>. QED
      BY <2>1, <2>2, TicketsKept
  <1>2. ASSUME NEW f \in FutureRefs, ReleaseFuture(f) PROVE TicketOrderInv'
    <2>1. wait'[Client] = None /\ calls' = calls /\ ncalls' = ncalls
      BY <1>2 DEF ReleaseFuture, ProgramRunning, program
    <2>2. ~ Calling'
      BY <2>1 DEF Calling
    <2>. QED
      BY <2>1, <2>2, TicketsKept
  <1>3. ASSUME ReceiveKey \/ ReceiveData PROVE TicketOrderInv'
    <2>1. TakeAnswer(Client) /\ calls' = calls /\ ncalls' = ncalls
      BY <1>3 DEF ReceiveKey, ReceiveData
    <2>2. wait'[Client] = None
      BY <2>1 DEF TakeAnswer, IndInv, TypeOK, Procs
    <2>3. ~ Calling'
      BY <2>2 DEF Calling
    <2>. QED
      BY <2>1, <2>3, TicketsKept
  <1>. QED
    BY <1>1, <1>2, <1>3

\* The other steps of a management thread.
LEMMA ServerTickets ==
    ASSUME TicketOrderInv, IndInv, NEW a \in Actors, NEW c \in Procs, NEW t, Receive(a, c, t),
           calls' = calls, ncalls' = ncalls, wait' = wait
    PROVE  TicketOrderInv'
  <1>1. \A b \in Actors : InChannel(Client, b)' => InChannel(Client, b)
    BY ReceiveEffect DEF IndInv, Procs
  <1>. QED
    BY <1>1, TicketsKept

\* The steps of a worker.
LEMMA WorkerTickets ==
    ASSUME TicketOrderInv, IndInv, NEW a \in Actors, WorkerStep(a)
    PROVE  TicketOrderInv'
  <1>0. a \in Procs /\ a # Client /\ Client \in Procs
    BY DEF Procs
  <1>1. calls' = calls /\ ncalls' = ncalls
    BY DEF WorkerStep, TakeRequest, WorkerGet, WorkerReceive, WorkerRelease, Publish, program
  <1>2. wait'[Client] = wait[Client]
    BY <1>0 DEF WorkerStep, TakeRequest, WorkerGet, WorkerReceive, WorkerRelease, Publish, Ask, TakeAnswer, IndInv, TypeOK
  <1>3. \A b \in Actors : InChannel(Client, b)' => InChannel(Client, b)
    <2>1. CASE TakeRequest(a) \/ WorkerReceive(a)
      BY <2>1 DEF TakeRequest, WorkerReceive, InChannel, IsQuestion
    <2>2. CASE Publish(a)
      BY <2>2, WorkerSends DEF Publish
    <2>3. ASSUME WorkerGet(a) \/ WorkerRelease(a) PROVE worker[a].req.msg.arg.at \in Actors
      <3>1. worker[a].req \in Requests /\ worker[a].req.msg.kind \in UsesFuture
        BY <2>3 DEF WorkerGet, WorkerRelease, IndInv, TypeOK, WorkerStates, WorkerInv, UsesFuture
      <3>. QED
        BY <3>1 DEF Requests, CallMsgs, FutureRefs
    <2>4. CASE WorkerGet(a) \/ WorkerRelease(a)
      BY <2>3, <2>4, WorkerSends DEF WorkerGet, WorkerRelease, Ask
    <2>. QED
      BY <2>1, <2>2, <2>4 DEF WorkerStep
  <1>. QED
    BY <1>1, <1>2, <1>3, TicketsKept

\* Tickets follow the order of the program in every reachable state.
LEMMA TicketsInOrder == Spec => []TicketOrderInv
  <1>1. Init => TicketOrderInv
    <2>. SUFFICES ASSUME Init PROVE TicketOrderInv
      OBVIOUS
    <2>1. (\A a \in Actors : Len(calls[a]) = 0) /\ wait[Client] = None
      BY DEF Init, Procs
    <2>. QED
      BY <2>1 DEF TicketOrderInv, AcceptedBefore, Calling
  <1>2. TicketOrderInv /\ IndInv /\ [Next]_vars => TicketOrderInv'
    <2>. SUFFICES ASSUME TicketOrderInv, IndInv, [Next]_vars PROVE TicketOrderInv'
      OBVIOUS
    <2>1. CASE ProgramAsks
      BY <2>1, ActiveCallTickets, ProgramTickets DEF ProgramAsks
    <2>2. CASE ProgramReceives
      BY <2>2, ProgramTickets DEF ProgramReceives
    <2>3. ASSUME NEW a \in Actors, ServerStep(a) PROVE TicketOrderInv'
      <3>1. PICK c \in Procs : \/ HandleCall(a, c) \/ ServeGet(a, c) \/ DeferGet(a, c)
                               \/ HandleRelease(a, c) \/ ForgetResult(a, c) \/ StoreResult(a, c)
        BY <2>3 DEF ServerStep
      <3>2. CASE HandleCall(a, c)
        BY <3>2, HandleCallTickets
      <3>3. ASSUME ~ HandleCall(a, c)
            PROVE  (\E t : Receive(a, c, t)) /\ calls' = calls /\ ncalls' = ncalls /\ wait' = wait
        BY <3>1, <3>3 DEF ServeGet, DeferGet, HandleRelease, ForgetResult, StoreResult, program
      <3>. QED
        BY <3>2, <3>3, ServerTickets
    <2>4. ASSUME NEW a \in Actors, WorkerStep(a) PROVE TicketOrderInv'
      BY <2>4, WorkerTickets
    <2>5. CASE UNCHANGED vars
      <3>1. calls' = calls /\ ncalls' = ncalls /\ wait' = wait /\ mgmt' = mgmt
        BY <2>5 DEF vars
      <3>2. \A b \in Actors : InChannel(Client, b)' => InChannel(Client, b)
        BY <3>1 DEF InChannel, IsQuestion
      <3>. QED
        BY <3>1, <3>2, TicketsKept
    <2>. QED
      BY <2>1, <2>2, <2>3, <2>4, <2>5 DEF Next
  <1>. QED
    BY <1>1, <1>2, Inductive, PTL DEF Spec

\* What a worker waits for in a worker that is waiting itself has a greater ticket than what that one executes.
LEMMA WaitsForEarlier ==
    ASSUME IndInv, PipelineInv, TicketOrderInv, NEW a \in Actors, NEW b \in Actors, WaitsFor(a, b),
           worker[b].pc = "blocked"
    PROVE  worker[b].req.msg.ticket < worker[a].req.msg.ticket
  <1>. DEFINE f == worker[a].req.msg.arg
  <1>1. worker[a].pc = "blocked" /\ f.at = b /\ (IsRunning(b, f.key) \/ IsQueued(b, f.key))
    BY DEF WaitsFor
  <1>2. /\ worker[a].req \in Requests /\ worker[b].req \in Requests
        /\ worker[a].req.msg.kind \in UsesFuture
    BY <1>1 DEF IndInv, TypeOK, WorkerStates, WorkerInv
  <1>3. f \in FutureRefs /\ f # None
    <2>1. worker[a].req.msg \in CallMsgs
      BY <1>2 DEF Requests
    <2>2. f # None
      BY <1>2, <2>1 DEF CallMsgs
    <2>. QED
      BY <2>1, <2>2 DEF CallMsgs
  <1>4. /\ worker[a].req.key < Len(calls[a]) /\ calls[a][worker[a].req.key + 1] = worker[a].req.msg
        /\ worker[b].req.key < Len(calls[b]) /\ calls[b][worker[b].req.key + 1] = worker[b].req.msg
    BY <1>1 DEF IndInv, ValueInv, RunningInv, IsCall
  <1>5. worker[a].req.key \in Nat /\ worker[b].req.key \in Nat /\ f.key \in Nat
    BY <1>2, <1>3 DEF Requests, Keys, FutureRefs
  <1>6. Len(calls[a]) \in Nat /\ Len(calls[b]) \in Nat
    BY DEF IndInv, TypeOK
  <1>7. worker[a].req.key + 1 \in 1..Len(calls[a]) /\ worker[b].req.key + 1 \in 1..Len(calls[b])
    <2>. DEFINE k == worker[a].req.key
                l == worker[b].req.key
    <2>. HIDE DEF k, l
    <2>1. k \in Nat /\ l \in Nat /\ k < Len(calls[a]) /\ l < Len(calls[b])
      BY <1>4, <1>5 DEF k, l
    <2>2. k + 1 \in 1..Len(calls[a]) /\ l + 1 \in 1..Len(calls[b])
      BY <1>6, <2>1
    <2>. QED
      BY <2>2 DEF k, l
  <1>8. f.key < Len(calls[b]) /\ calls[b][f.key + 1].ticket < worker[a].req.msg.ticket
    <2>1. GivenEarlier(calls, calls[a][worker[a].req.key + 1])
      BY <1>7 DEF TicketOrderInv
    <2>2. GivenEarlier(calls, worker[a].req.msg)
      BY <1>4, <2>1
    <2>. QED
      BY <1>1, <1>3, <2>2 DEF GivenEarlier
  <1>9. worker[b].req.key <= f.key
    <2>1. CASE IsRunning(b, f.key)
      BY <1>5, <2>1 DEF IsRunning
    <2>2. CASE IsQueued(b, f.key)
      <3>1. nextKey[b] \in Nat /\ Len(queue[b]) \in Nat
        <4>1. queue[b] \in Seq(Requests) /\ nextKey[b] \in Nat
          BY DEF IndInv, TypeOK
        <4>. QED
          BY <4>1
      <3>2. /\ worker[b].req.key = Executed(b)
            /\ \A i \in 1..Len(queue[b]) : queue[b][i].key = nextKey[b] - Len(queue[b]) + i - 1
        BY DEF PipelineInv, PipelineOrder, QueueOrder
      <3>3. nextKey[b] - Len(queue[b]) <= f.key
        BY <1>5, <2>2, <3>1, <3>2, QueuedKeys
      <3>4. worker[b].req.key = nextKey[b] - Len(queue[b]) - 1
        BY <3>2 DEF Executed
      <3>. QED
        BY <1>5, <3>1, <3>3, <3>4
    <2>. QED
      BY <1>1, <2>1, <2>2
  <1>10. f.key + 1 \in 1..Len(calls[b])
    BY <1>5, <1>6, <1>8
  <1>11. calls[b][worker[b].req.key + 1].ticket <= calls[b][f.key + 1].ticket
    <2>1. calls[b][worker[b].req.key + 1].ticket \in Nat /\ calls[b][f.key + 1].ticket \in Nat
      BY <1>7, <1>10, AcceptedCall
    <2>2. CASE worker[b].req.key = f.key
      BY <2>1, <2>2
    <2>3. CASE worker[b].req.key # f.key
      <3>1. worker[b].req.key + 1 < f.key + 1
        BY <1>5, <1>9, <2>3
      <3>2. calls[b][worker[b].req.key + 1].ticket < calls[b][f.key + 1].ticket
        BY <1>7, <1>10, <3>1 DEF TicketOrderInv
      <3>. QED
        BY <2>1, <3>2
    <2>. QED
      BY <2>2, <2>3
  <1>12. /\ worker[b].req.msg.ticket \in Nat /\ calls[b][f.key + 1].ticket \in Nat
         /\ worker[a].req.msg.ticket \in Nat
    BY <1>2, <1>10, AcceptedCall, CallTicket DEF Requests
  <1>. QED
    BY <1>4, <1>8, <1>11, <1>12

\* Of the workers of a set that wait, the one whose call has the smallest ticket waits for none of them.
LEMMA NoCycleFromInv == IndInv /\ PipelineInv /\ TicketOrderInv => NoWaitCycle
  <1>. SUFFICES ASSUME IndInv, PipelineInv, TicketOrderInv, NEW W \in (SUBSET Actors) \ {{}},
                       \A a \in W : \E b \in W : WaitsFor(a, b)
                PROVE  FALSE
    BY DEF NoWaitCycle
  <1>. DEFINE ticket(a) == worker[a].req.msg.ticket
              T == {ticket(a) : a \in W}
  <1>1. \A a \in W : worker[a].pc = "blocked" /\ ticket(a) \in Nat
    <2>. SUFFICES ASSUME NEW a \in W PROVE worker[a].pc = "blocked" /\ ticket(a) \in Nat
      OBVIOUS
    <2>1. worker[a].pc = "blocked" /\ a \in Actors
      BY DEF WaitsFor
    <2>2. worker[a].req \in Requests
      BY <2>1 DEF IndInv, TypeOK, WorkerStates, WorkerInv
    <2>. QED
      BY <2>1, <2>2 DEF Requests, CallMsgs, Tickets
  <1>2. T \subseteq Nat /\ T # {}
    <2>1. T \subseteq Nat
      BY <1>1
    <2>2. W # {}
      OBVIOUS
    <2>3. PICK w : w \in W
      BY <2>2
    <2>4. ticket(w) \in T
      BY <2>3
    <2>. QED
      BY <2>1, <2>4
  <1>3. PICK n \in T : \A t \in T : ~ (<<t, n>> \in OpToRel(<, Nat))
    <2>. HIDE DEF T
    <2>. QED
      BY <1>2, NatLessThanWellFounded, WFMin
  <1>4. PICK a \in W : ticket(a) = n
    OBVIOUS
  <1>5. PICK b \in W : WaitsFor(a, b)
    OBVIOUS
  <1>6. ticket(b) < ticket(a)
    BY <1>1, <1>5, WaitsForEarlier
  <1>7. ticket(a) \in Nat /\ ticket(b) \in Nat /\ ticket(b) \in T
    BY <1>1
  <1>8. <<ticket(b), n>> \in OpToRel(<, Nat)
    BY <1>4, <1>6, <1>7 DEF OpToRel
  <1>. QED
    BY <1>3, <1>7, <1>8

\* Workers that wait for futures (master_loop) never wait for each other in a
\* cycle, for any number of actors and calls and whatever futures they are
\* given: calls are executed in the order they were made.
THEOREM WorkersDoNotWaitInCycles == Spec => []NoWaitCycle
  BY Inductive, PipelineInductive, TicketsInOrder, NoCycleFromInv, PTL
=============================================================================
