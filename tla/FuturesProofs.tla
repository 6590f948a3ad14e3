--------------------------- MODULE FuturesProofs ---------------------------
(***************************************************************************)
(* For any number of actors and any number of calls: a blocked process is  *)
(* owed exactly one answer, and the answer is the one it asked for.        *)
(*                                                                         *)
(* IndInv of Futures.tla is inductive.  The proof has one lemma per action *)
(* and, in each, one step per conjunct of IndInv.                          *)
(***************************************************************************)
EXTENDS Futures, SequenceFacts, FiniteSetTheorems

USE ClientAssumption, BoundAssumption, KindsAssumption, NoneAssumption

-----------------------------------------------------------------------------
(***************************************************************************)
(* Facts about channels.                                                   *)
(***************************************************************************)

\* The kinds of messages are told apart by their type.
LEMMA MessageTypes ==
    ASSUME NEW m \in Messages
    PROVE  /\ m.type = "CALL" => m \in CallMsgs
           /\ m.type = "GET" => m \in GetMsgs
           /\ m.type = "RELEASE" => m \in ReleaseMsgs
           /\ m.type = "REGISTER" => m \in RegisterMsgs
           /\ m.type \in {"CALL", "GET", "RELEASE", "REGISTER"}
  BY DEF Messages, CallMsgs, GetMsgs, ReleaseMsgs, RegisterMsgs

\* Sending changes one channel, at its end.
LEMMA SendEffect ==
    ASSUME TypeOK, NEW c \in Procs, NEW a \in Actors, NEW m \in Messages, Send(c, a, m)
    PROVE  /\ mgmt' \in [Procs -> [Actors -> Seq(Messages)]]
           /\ mgmt'[c][a] = Append(mgmt[c][a], m)
           /\ Len(mgmt'[c][a]) = Len(mgmt[c][a]) + 1
           /\ mgmt'[c][a][Len(mgmt[c][a]) + 1] = m
           /\ \A i \in 1..Len(mgmt[c][a]) : mgmt'[c][a][i] = mgmt[c][a][i]
           /\ \A d \in Procs, b \in Actors : ~(d = c /\ b = a) => mgmt'[d][b] = mgmt[d][b]
           /\ InChannel(c, a)' <=> IsQuestion(m)
           /\ \A d \in Procs, b \in Actors : ~(d = c /\ b = a) => (InChannel(d, b)' <=> InChannel(d, b))
  <1>1. mgmt[c][a] \in Seq(Messages)
    BY DEF TypeOK
  <1>2. mgmt' = [mgmt EXCEPT ![c][a] = Append(@, m)]
    BY DEF Send
  <1>3. mgmt'[c][a] = Append(mgmt[c][a], m)
    BY <1>2 DEF TypeOK
  <1>4. \A d \in Procs, b \in Actors : ~(d = c /\ b = a) => mgmt'[d][b] = mgmt[d][b]
    BY <1>2 DEF TypeOK
  <1>5. mgmt' \in [Procs -> [Actors -> Seq(Messages)]]
    BY <1>1, <1>2, AppendFacts DEF TypeOK
  <1>6. /\ Len(mgmt'[c][a]) = Len(mgmt[c][a]) + 1
        /\ mgmt'[c][a] # << >>
        /\ mgmt'[c][a][Len(mgmt[c][a]) + 1] = m
        /\ \A i \in 1..Len(mgmt[c][a]) : mgmt'[c][a][i] = mgmt[c][a][i]
    BY <1>1, <1>3, AppendFacts
  <1>7. InChannel(c, a)' <=> IsQuestion(m)
    BY <1>6 DEF InChannel, IsQuestion
  <1>8. \A d \in Procs, b \in Actors : ~(d = c /\ b = a) => (InChannel(d, b)' <=> InChannel(d, b))
    BY <1>4 DEF InChannel, IsQuestion
  <1>. QED
    BY <1>3, <1>4, <1>5, <1>6, <1>7, <1>8

\* Receiving changes one channel, at its front.
LEMMA ReceiveEffect ==
    ASSUME TypeOK, NEW c \in Procs, NEW a \in Actors, NEW t, Receive(a, c, t)
    PROVE  /\ mgmt' \in [Procs -> [Actors -> Seq(Messages)]]
           /\ mgmt[c][a] # << >>
           /\ Head(mgmt[c][a]) = mgmt[c][a][1]
           /\ Head(mgmt[c][a]) \in Messages
           /\ Head(mgmt[c][a]).type = t
           /\ Len(mgmt[c][a]) \in Nat /\ Len(mgmt[c][a]) >= 1
           /\ Len(mgmt'[c][a]) = Len(mgmt[c][a]) - 1
           /\ \A i \in 1..Len(mgmt'[c][a]) : mgmt'[c][a][i] = mgmt[c][a][i + 1]
           /\ \A d \in Procs, b \in Actors : ~(d = c /\ b = a) => mgmt'[d][b] = mgmt[d][b]
           /\ \A d \in Procs, b \in Actors : ~(d = c /\ b = a) => (InChannel(d, b)' <=> InChannel(d, b))
           /\ InChannel(c, a)' => InChannel(c, a) /\ Len(mgmt[c][a]) > 1
           /\ InChannel(c, a) /\ Len(mgmt[c][a]) > 1 => InChannel(c, a)'
           /\ Len(mgmt[c][a]) = 1 => ~InChannel(c, a)'
  <1>1. mgmt[c][a] \in Seq(Messages)
    BY DEF TypeOK
  <1>2. mgmt[c][a] # << >> /\ Head(mgmt[c][a]).type = t /\ mgmt' = [mgmt EXCEPT ![c][a] = Tail(@)]
    BY DEF Receive
  <1>3. mgmt'[c][a] = Tail(mgmt[c][a])
    BY <1>2 DEF TypeOK
  <1>4. \A d \in Procs, b \in Actors : ~(d = c /\ b = a) => mgmt'[d][b] = mgmt[d][b]
    BY <1>2 DEF TypeOK
  <1>5. mgmt' \in [Procs -> [Actors -> Seq(Messages)]]
    BY <1>1, <1>2, TailFacts DEF TypeOK
  <1>6. /\ Head(mgmt[c][a]) \in Messages /\ Head(mgmt[c][a]) = mgmt[c][a][1]
        /\ Len(mgmt[c][a]) \in Nat /\ Len(mgmt[c][a]) >= 1
        /\ Len(mgmt'[c][a]) = Len(mgmt[c][a]) - 1
        /\ \A i \in 1..Len(mgmt'[c][a]) : mgmt'[c][a][i] = mgmt[c][a][i + 1]
    BY ZenonT(40), <1>1, <1>2, <1>3, TailFacts
  <1>7. mgmt'[c][a] # << >> <=> Len(mgmt[c][a]) > 1
    <2>1. mgmt'[c][a] \in Seq(Messages)
      BY <1>5
    <2>2. mgmt'[c][a] = << >> <=> Len(mgmt'[c][a]) = 0
      BY <2>1, EmptyFacts
    <2>. QED
      BY <1>6, <2>2
  <1>8. Len(mgmt[c][a]) > 1 => (InChannel(c, a)' <=> InChannel(c, a))
    <2>. SUFFICES ASSUME Len(mgmt[c][a]) > 1 PROVE InChannel(c, a)' <=> InChannel(c, a)
      OBVIOUS
    <2>1. mgmt'[c][a][Len(mgmt'[c][a])] = mgmt[c][a][Len(mgmt[c][a])]
      BY <1>6
    <2>. QED
      BY <1>2, <1>7, <2>1 DEF InChannel, IsQuestion
  <1>9. InChannel(c, a)' => Len(mgmt[c][a]) > 1
    BY <1>7 DEF InChannel
  <1>10. \A d \in Procs, b \in Actors : ~(d = c /\ b = a) => (InChannel(d, b)' <=> InChannel(d, b))
    BY <1>4 DEF InChannel, IsQuestion
  <1>11. /\ InChannel(c, a)' => InChannel(c, a) /\ Len(mgmt[c][a]) > 1
         /\ InChannel(c, a) /\ Len(mgmt[c][a]) > 1 => InChannel(c, a)'
    BY <1>8, <1>9
  <1>12. Len(mgmt[c][a]) = 1 => ~InChannel(c, a)'
    BY <1>7 DEF InChannel
  <1>. QED
    BY <1>2, <1>4, <1>5, <1>6, <1>10, <1>11, <1>12


\* A process that asks is blocked on its question, and nobody else moves.
LEMMA AskEffect ==
    ASSUME TypeOK, NEW c \in Procs, NEW a \in Actors, NEW m \in CallMsgs \cup GetMsgs, Ask(c, a, m)
    PROVE  /\ Send(c, a, m)
           /\ m \in Messages
           /\ IsQuestion(m)
           /\ wait' \in [Procs -> Questions \cup {None}]
           /\ wait'[c] = [to |-> a, msg |-> m]
           /\ wait'[c] # None
           /\ \A d \in Procs : d # c => wait'[d] = wait[d]
  <1>1. m \in Messages /\ IsQuestion(m)
    BY DEF Messages, IsQuestion, CallMsgs, GetMsgs
  <1>2. [to |-> a, msg |-> m] \in Questions
    BY DEF Questions
  <1>3. wait' = [wait EXCEPT ![c] = [to |-> a, msg |-> m]]
    BY DEF Ask
  <1>4. [to |-> a, msg |-> m] # None
    BY <1>2
  <1>. QED
    BY <1>1, <1>2, <1>3, <1>4 DEF Ask, TypeOK


\* A process with a question in a channel is blocked on the receiver; a listed
\* process is blocked on the process that lists it.
LEMMA OwedBy ==
    ASSUME TypeOK, ChannelInv, PendingInv, NEW c \in Procs, NEW a \in Actors
    PROVE  /\ InChannel(c, a) => /\ wait[c] = [to |-> a, msg |-> mgmt[c][a][Len(mgmt[c][a])]]
                                 /\ wait[c] # None /\ wait[c].to = a
           /\ Listed(c, a) => /\ wait[c] # None /\ wait[c].to = a
                              /\ wait[c].msg.type = "GET"
                              /\ ~InChannel(c, a) /\ reply[a][c] = << >>
  <1>1. ASSUME InChannel(c, a)
        PROVE  /\ wait[c] = [to |-> a, msg |-> mgmt[c][a][Len(mgmt[c][a])]]
               /\ wait[c] # None /\ wait[c].to = a
    <2>1. mgmt[c][a] \in Seq(Messages) /\ mgmt[c][a] # << >> /\ IsQuestion(mgmt[c][a][Len(mgmt[c][a])])
      BY <1>1 DEF TypeOK, InChannel
    <2>2. Len(mgmt[c][a]) \in 1..Len(mgmt[c][a])
      BY <2>1, EmptyFacts
    <2>3. wait[c] = [to |-> a, msg |-> mgmt[c][a][Len(mgmt[c][a])]]
      BY <2>1, <2>2 DEF ChannelInv
    <2>4. mgmt[c][a][Len(mgmt[c][a])] \in Messages
      BY <2>1, <2>2
    <2>5. wait[c] \in Questions
      BY <2>1, <2>3, <2>4, MessageTypes DEF Questions, IsQuestion
    <2>. QED
      BY <2>3, <2>5
  <1>2. ASSUME Listed(c, a)
        PROVE  /\ wait[c] # None /\ wait[c].to = a
               /\ wait[c].msg.type = "GET"
               /\ ~InChannel(c, a) /\ reply[a][c] = << >>
    <2>1. PICK k \in Keys : \E i \in DOMAIN pending[a][k] : pending[a][k][i] = c
      BY <1>2 DEF Listed
    <2>2. PICK i \in DOMAIN pending[a][k] : pending[a][k][i] = c
      BY <2>1
    <2>3. i \in 1..Len(pending[a][k])
      BY <2>2 DEF TypeOK
    <2>4. /\ wait[c] = [to |-> a, msg |-> [type |-> "GET", key |-> k]]
          /\ ~InChannel(c, a) /\ reply[a][c] = << >>
      BY <2>2, <2>3 DEF PendingInv
    <2>5. [to |-> a, msg |-> [type |-> "GET", key |-> k]] \in Questions
      BY DEF Questions, GetMsgs
    <2>. QED
      BY <2>4, <2>5
  <1>. QED
    BY <1>1, <1>2

\* A process that takes an answer takes the only one there is, is no longer
\* blocked and is owed nothing more.
LEMMA TakeAnswerEffect ==
    ASSUME IndInv, NEW c \in Procs, TakeAnswer(c)
    PROVE  /\ wait[c] \in Questions
           /\ 1 \in DOMAIN reply[wait[c].to][c]
           /\ Answer(c) = reply[wait[c].to][c][1].value
           /\ reply[wait[c].to][c][1] \in Replies
           /\ reply' \in [Actors -> [Procs -> Seq(Replies)]]
           /\ \A b \in Actors, d \in Procs : d # c => reply'[b][d] = reply[b][d]
           /\ wait' \in [Procs -> Questions \cup {None}]
           /\ wait'[c] = None
           /\ \A d \in Procs : d # c => wait'[d] = wait[d]
           /\ \A b \in Actors : reply'[b][c] = << >> /\ ~InChannel(c, b) /\ ~Listed(c, b)
  <1>. DEFINE a == wait[c].to
  <1>1. wait[c] # None /\ reply[a][c] # << >>
        /\ reply' = [reply EXCEPT ![a][c] = Tail(@)] /\ wait' = [wait EXCEPT ![c] = None]
    BY DEF TakeAnswer, HasAnswer
  <1>2. wait[c] \in Questions /\ a \in Actors
    BY <1>1 DEF IndInv, TypeOK, Questions
  <1>3. reply[a][c] \in Seq(Replies)
    BY <1>2 DEF IndInv, TypeOK
  <1>4. Len(reply[a][c]) = 1 /\ ~InChannel(c, a)
    BY <1>1, <1>2 DEF IndInv, ReplyInv
  <1>5. reply[a][c][1] \in Replies /\ 1 \in DOMAIN reply[a][c] /\ Answer(c) = reply[a][c][1].value
    BY <1>3, <1>4 DEF Answer
  <1>6. Tail(reply[a][c]) = << >>
    <2>1. Tail(reply[a][c]) \in Seq(Replies) /\ Len(Tail(reply[a][c])) = 0
      BY <1>1, <1>3, <1>4, TailFacts
    <2>. QED
      BY <2>1, EmptyFacts
  <1>7. reply' \in [Actors -> [Procs -> Seq(Replies)]]
    <2>1. [reply[a] EXCEPT ![c] = << >>] \in [Procs -> Seq(Replies)]
      BY <1>2 DEF IndInv, TypeOK
    <2>. QED
      BY <1>1, <1>2, <1>6, <2>1 DEF IndInv, TypeOK
  <1>8. reply'[a][c] = << >>
    BY <1>1, <1>2, <1>6 DEF IndInv, TypeOK
  <1>9. \A b \in Actors, d \in Procs : ~(b = a /\ d = c) => reply'[b][d] = reply[b][d]
    BY <1>1, <1>2 DEF IndInv, TypeOK
  <1>10. \A b \in Actors : b # a => reply[b][c] = << >>
    BY DEF IndInv, ReplyInv
  <1>11. \A b \in Actors : ~InChannel(c, b) /\ ~Listed(c, b)
    BY <1>1, <1>4, OwedBy DEF IndInv
  <1>12. wait' \in [Procs -> Questions \cup {None}] /\ wait'[c] = None
         /\ \A d \in Procs : d # c => wait'[d] = wait[d]
    BY <1>1 DEF IndInv, TypeOK
  <1>. QED
    BY <1>2, <1>5, <1>7, <1>8, <1>9, <1>10, <1>11, <1>12

-----------------------------------------------------------------------------
(***************************************************************************)
(* Who is owed an answer, by whom and from where.  The four conjuncts of   *)
(* IndInv that say so are preserved by the five ways a step touches the    *)
(* channels.                                                               *)
(***************************************************************************)
Owing == ChannelInv /\ PendingInv /\ ReplyInv /\ OwedInv

\* A process that is not blocked asks a question.
LEMMA AskOwing ==
    ASSUME IndInv, NEW c \in Procs, NEW a \in Actors, NEW m \in CallMsgs \cup GetMsgs,
           wait[c] = None, Ask(c, a, m), m.type = "CALL" => c = Client,
           UNCHANGED <<reply, pending>>
    PROVE  Owing'
  <1>1. /\ Send(c, a, m) /\ m \in Messages /\ IsQuestion(m)
        /\ wait'[c] = [to |-> a, msg |-> m] /\ wait'[c] # None
        /\ \A d \in Procs : d # c => wait'[d] = wait[d]
    BY AskEffect DEF IndInv
  <1>2. /\ Len(mgmt'[c][a]) = Len(mgmt[c][a]) + 1
        /\ mgmt'[c][a][Len(mgmt[c][a]) + 1] = m
        /\ \A i \in 1..Len(mgmt[c][a]) : mgmt'[c][a][i] = mgmt[c][a][i]
        /\ \A d \in Procs, b \in Actors : ~(d = c /\ b = a) => mgmt'[d][b] = mgmt[d][b]
        /\ InChannel(c, a)'
        /\ \A d \in Procs, b \in Actors : ~(d = c /\ b = a) => (InChannel(d, b)' <=> InChannel(d, b))
    BY <1>1, SendEffect DEF IndInv
  <1>3. \A b \in Actors : Len(mgmt[c][b]) \in Nat
    BY DEF IndInv, TypeOK
  <1>4. \A b \in Actors : \A i \in 1..Len(mgmt[c][b]) : ~IsQuestion(mgmt[c][b][i])
    <2>. SUFFICES ASSUME NEW b \in Actors, NEW i \in 1..Len(mgmt[c][b]), IsQuestion(mgmt[c][b][i])
                  PROVE  FALSE
      OBVIOUS
    <2>1. i = Len(mgmt[c][b]) /\ mgmt[c][b] \in Seq(Messages)
      BY DEF IndInv, ChannelInv, TypeOK
    <2>2. mgmt[c][b] # << >>
      BY <2>1, EmptyFacts
    <2>3. InChannel(c, b)
      BY <2>1, <2>2 DEF InChannel
    <2>. QED
      BY <2>3, OwedBy DEF IndInv
  <1>5. \A b \in Actors : ~Listed(c, b) /\ reply[b][c] = << >>
    BY OwedBy DEF IndInv, ReplyInv
  <1>6. ChannelInv'
    <2>. SUFFICES ASSUME NEW d \in Procs, NEW b \in Actors, NEW i \in 1..Len(mgmt'[d][b])
                  PROVE  /\ IsQuestion(mgmt'[d][b][i]) =>
                              i = Len(mgmt'[d][b]) /\ wait'[d] = [to |-> b, msg |-> mgmt'[d][b][i]]
                         /\ mgmt'[d][b][i].type = "CALL" => d = Client
                         /\ mgmt'[d][b][i].type = "REGISTER" => d = b
      BY DEF ChannelInv, IsQuestion
    <2>1. CASE d = c /\ b = a
      <3>1. CASE i = Len(mgmt[c][a]) + 1
        BY <1>1, <1>2, <2>1, <3>1 DEF IsQuestion
      <3>2. CASE i # Len(mgmt[c][a]) + 1
        <4>1. i \in 1..Len(mgmt[c][a]) /\ mgmt'[c][a][i] = mgmt[c][a][i]
          BY <1>2, <1>3, <2>1, <3>2
        <4>. QED
          BY <1>4, <2>1, <4>1 DEF IndInv, ChannelInv, IsQuestion
      <3>. QED
        BY <3>1, <3>2
    <2>2. CASE d = c /\ b # a
      BY <1>2, <1>4, <2>2 DEF IndInv, ChannelInv, IsQuestion
    <2>3. CASE d # c
      BY <1>1, <1>2, <2>3 DEF IndInv, ChannelInv, IsQuestion
    <2>. QED
      BY <2>1, <2>2, <2>3
  <1>7. PendingInv'
    <2>. SUFFICES ASSUME NEW b \in Actors, NEW k \in Keys, NEW i \in 1..Len(pending[b][k]),
                         NEW d \in Procs, d = pending[b][k][i]
                  PROVE  /\ wait'[d] = [to |-> b, msg |-> [type |-> "GET", key |-> k]]
                         /\ \A j \in 1..Len(pending[b][k]) : pending[b][k][j] = d => j = i
                         /\ ~InChannel(d, b)'
                         /\ reply[b][d] = << >>
      <3>1. pending' = pending /\ reply' = reply
        OBVIOUS
      <3>2. \A b \in Actors, k \in Keys : \A i \in 1..Len(pending[b][k]) : pending[b][k][i] \in Procs
        BY DEF IndInv, TypeOK
      <3>. QED
        BY <3>1, <3>2 DEF PendingInv
    <2>1. d # c
      <3>1. i \in DOMAIN pending[b][k]
        BY SMTT(20) DEF IndInv, TypeOK
      <3>. QED
        BY <1>5, <3>1 DEF Listed
    <2>. QED
      BY <1>1, <1>2, <2>1 DEF IndInv, PendingInv
  <1>8. ReplyInv'
    BY <1>1, <1>2, <1>5 DEF IndInv, ReplyInv
  <1>9. OwedInv'
    <2>1. \A d \in Procs, b \in Actors : Listed(d, b)' <=> Listed(d, b)
      BY DEF Listed
    <2>2. \A d \in Procs, b \in Actors : UnderWay(d, b)' <=> UnderWay(d, b)
      BY DEF UnderWay
    <2>3. \A d \in Procs : wait[d] # None => wait[d].to \in Actors
      BY DEF IndInv, TypeOK, Questions
    <2>. SUFFICES ASSUME NEW d \in Procs, wait'[d] # None
                  PROVE  InChannel(d, wait[d].to)' \/ Listed(d, wait[d].to)' \/ UnderWay(d, wait[d].to)'
                         \/ (d = c /\ InChannel(c, a)')
      BY <1>1, <1>2 DEF OwedInv
    <2>. QED
      BY <1>1, <1>2, <2>1, <2>2, <2>3 DEF IndInv, OwedInv
  <1>. QED
    BY <1>6, <1>7, <1>8, <1>9 DEF Owing

\* A step that moves no question and no answer.
LEMMA QuietOwing ==
    ASSUME IndInv, ChannelInv', UNCHANGED <<wait, reply, pending>>,
           \A d \in Procs, b \in Actors : InChannel(d, b)' <=> InChannel(d, b)
    PROVE  Owing'
  <1>1. wait' = wait /\ reply' = reply /\ pending' = pending
    OBVIOUS
  <1>2. PendingInv'
    <2>. SUFFICES ASSUME NEW b \in Actors, NEW k \in Keys, NEW i \in 1..Len(pending[b][k]),
                         NEW d \in Procs, d = pending[b][k][i]
                  PROVE  /\ wait[d] = [to |-> b, msg |-> [type |-> "GET", key |-> k]]
                         /\ \A j \in 1..Len(pending[b][k]) : pending[b][k][j] = d => j = i
                         /\ ~InChannel(d, b)'
                         /\ reply[b][d] = << >>
      <3>1. \A b \in Actors, k \in Keys : \A i \in 1..Len(pending[b][k]) : pending[b][k][i] \in Procs
        BY DEF IndInv, TypeOK
      <3>. QED
        BY <1>1, <3>1 DEF PendingInv
    <2>. QED
      BY DEF IndInv, PendingInv
  <1>3. ReplyInv'
    BY <1>1 DEF IndInv, ReplyInv
  <1>4. OwedInv'
    <2>1. \A d \in Procs, b \in Actors : Listed(d, b)' <=> Listed(d, b)
      BY <1>1 DEF Listed
    <2>2. \A d \in Procs, b \in Actors : UnderWay(d, b)' <=> UnderWay(d, b)
      BY <1>1 DEF UnderWay
    <2>3. \A d \in Procs : wait[d] # None => wait[d].to \in Actors
      BY DEF IndInv, TypeOK, Questions
    <2>. SUFFICES ASSUME NEW d \in Procs, wait[d] # None
                  PROVE  InChannel(d, wait[d].to)' \/ Listed(d, wait[d].to)' \/ UnderWay(d, wait[d].to)'
      BY <1>1 DEF OwedInv
    <2>. QED
      BY <1>1, <2>1, <2>2, <2>3 DEF IndInv, OwedInv
  <1>. QED
    BY <1>2, <1>3, <1>4 DEF Owing

\* A process that is not blocked sends something that asks nothing.
LEMMA SendOwing ==
    ASSUME IndInv, NEW c \in Procs, NEW a \in Actors, NEW m \in Messages,
           wait[c] = None, Send(c, a, m), ~IsQuestion(m), m.type = "REGISTER" => c = a,
           UNCHANGED <<wait, reply, pending>>
    PROVE  Owing'
  <1>1. /\ Len(mgmt'[c][a]) = Len(mgmt[c][a]) + 1
        /\ mgmt'[c][a][Len(mgmt[c][a]) + 1] = m
        /\ \A i \in 1..Len(mgmt[c][a]) : mgmt'[c][a][i] = mgmt[c][a][i]
        /\ \A d \in Procs, b \in Actors : ~(d = c /\ b = a) => mgmt'[d][b] = mgmt[d][b]
    BY SendEffect DEF IndInv
  <1>5. /\ ~InChannel(c, a)'
        /\ \A d \in Procs, b \in Actors : ~(d = c /\ b = a) => (InChannel(d, b)' <=> InChannel(d, b))
    BY SendEffect DEF IndInv
  <1>2. ~InChannel(c, a)
    BY OwedBy DEF IndInv
  <1>3. wait' = wait
    OBVIOUS
  <1>4. ChannelInv'
    <2>. SUFFICES ASSUME NEW d \in Procs, NEW b \in Actors, NEW i \in 1..Len(mgmt'[d][b])
                  PROVE  /\ IsQuestion(mgmt'[d][b][i]) =>
                              i = Len(mgmt'[d][b]) /\ wait'[d] = [to |-> b, msg |-> mgmt'[d][b][i]]
                         /\ mgmt'[d][b][i].type = "CALL" => d = Client
                         /\ mgmt'[d][b][i].type = "REGISTER" => d = b
      BY DEF ChannelInv, IsQuestion
    <2>1. CASE d = c /\ b = a
      <3>1. CASE i = Len(mgmt[c][a]) + 1
        BY <1>1, <2>1, <3>1 DEF IsQuestion
      <3>2. CASE i # Len(mgmt[c][a]) + 1
        <4>1. mgmt[c][a] \in Seq(Messages) /\ Len(mgmt[c][a]) \in Nat
          BY DEF IndInv, TypeOK
        <4>2. i \in 1..Len(mgmt[c][a]) /\ mgmt'[c][a][i] = mgmt[c][a][i]
          BY <1>1, <2>1, <3>2, <4>1
        <4>3. ~IsQuestion(mgmt[c][a][i])
          <5>1. IsQuestion(mgmt[c][a][i]) => i = Len(mgmt[c][a])
            BY <4>2 DEF IndInv, ChannelInv
          <5>2. mgmt[c][a] # << >>
            BY <4>1, <4>2, EmptyFacts
          <5>. QED
            BY <1>2, <5>1, <5>2 DEF InChannel
        <4>. QED
          BY <2>1, <4>2, <4>3 DEF IndInv, ChannelInv, IsQuestion
      <3>. QED
        BY <3>1, <3>2
    <2>2. CASE ~(d = c /\ b = a)
      <3>1. mgmt'[d][b] = mgmt[d][b] /\ wait'[d] = wait[d]
        BY <1>1, <1>3, <2>2
      <3>. QED
        BY <3>1 DEF IndInv, ChannelInv
    <2>. QED
      BY <2>1, <2>2
  <1>. QED
    BY <1>2, <1>4, <1>5, QuietOwing

\* The management thread receives something that asks nothing.  Whatever it
\* does with it, the channels stay as ChannelInv says.
LEMMA ReceiveChannel ==
    ASSUME IndInv, NEW c \in Procs, NEW a \in Actors, NEW t, Receive(a, c, t), UNCHANGED wait
    PROVE  ChannelInv'
  <1>1. /\ Len(mgmt[c][a]) \in Nat
        /\ Len(mgmt'[c][a]) = Len(mgmt[c][a]) - 1
        /\ \A i \in 1..Len(mgmt'[c][a]) : mgmt'[c][a][i] = mgmt[c][a][i + 1]
        /\ \A d \in Procs, b \in Actors : ~(d = c /\ b = a) => mgmt'[d][b] = mgmt[d][b]
    BY ReceiveEffect DEF IndInv
  <1>. SUFFICES ASSUME NEW d \in Procs, NEW b \in Actors, NEW i \in 1..Len(mgmt'[d][b])
                PROVE  /\ IsQuestion(mgmt'[d][b][i]) =>
                            i = Len(mgmt'[d][b]) /\ wait'[d] = [to |-> b, msg |-> mgmt'[d][b][i]]
                       /\ mgmt'[d][b][i].type = "CALL" => d = Client
                       /\ mgmt'[d][b][i].type = "REGISTER" => d = b
    BY DEF ChannelInv, IsQuestion
  <1>2. CASE d = c /\ b = a
    <2>1. i + 1 \in 1..Len(mgmt[c][a]) /\ mgmt'[c][a][i] = mgmt[c][a][i + 1]
      BY <1>1, <1>2
    <2>. QED
      BY <1>1, <1>2, <2>1 DEF IndInv, ChannelInv, IsQuestion
  <1>3. CASE ~(d = c /\ b = a)
    BY <1>1, <1>3 DEF IndInv, ChannelInv, IsQuestion
  <1>. QED
    BY <1>2, <1>3

\* Receiving what asks nothing leaves the questions where they are.
LEMMA ReceiveQuiet ==
    ASSUME IndInv, NEW c \in Procs, NEW a \in Actors, NEW t, t \notin {"CALL", "GET"}, Receive(a, c, t)
    PROVE  \A d \in Procs, b \in Actors : InChannel(d, b)' <=> InChannel(d, b)
  <1>1. /\ Head(mgmt[c][a]) = mgmt[c][a][1] /\ Head(mgmt[c][a]).type = t
        /\ Len(mgmt[c][a]) \in Nat /\ Len(mgmt[c][a]) >= 1
        /\ \A d \in Procs, b \in Actors : ~(d = c /\ b = a) => (InChannel(d, b)' <=> InChannel(d, b))
        /\ InChannel(c, a)' => InChannel(c, a)
        /\ InChannel(c, a) /\ Len(mgmt[c][a]) > 1 => InChannel(c, a)'
    BY ReceiveEffect DEF IndInv
  <1>2. InChannel(c, a) => Len(mgmt[c][a]) > 1
    BY <1>1 DEF InChannel, IsQuestion
  <1>. QED
    BY <1>1, <1>2

QuestionTypes == {"CALL", "GET"}

\* Receiving a question: it was the only message left in the channel, and its
\* sender is owed the answer from nowhere else.
LEMMA ReceiveQuestion ==
    ASSUME IndInv, NEW c \in Procs, NEW a \in Actors, NEW t, t \in QuestionTypes, Receive(a, c, t)
    PROVE  /\ wait[c] = [to |-> a, msg |-> Head(mgmt[c][a])]
           /\ wait[c] # None /\ wait[c].to = a /\ wait[c].msg = Head(mgmt[c][a])
           /\ InChannel(c, a)
           /\ \A b \in Actors : ~InChannel(c, b)'
           /\ \A b \in Actors : ~Listed(c, b) /\ reply[b][c] = << >>
  <1>1. /\ mgmt[c][a] # << >>
        /\ Head(mgmt[c][a]) = mgmt[c][a][1] /\ Head(mgmt[c][a]).type = t
        /\ Len(mgmt[c][a]) \in Nat /\ Len(mgmt[c][a]) >= 1
    BY ReceiveEffect DEF IndInv
  <1>0. /\ \A d \in Procs, b \in Actors : ~(d = c /\ b = a) => (InChannel(d, b)' <=> InChannel(d, b))
        /\ Len(mgmt[c][a]) = 1 => ~InChannel(c, a)'
    BY ReceiveEffect DEF IndInv
  <1>2. Len(mgmt[c][a]) = 1 /\ wait[c] = [to |-> a, msg |-> Head(mgmt[c][a])]
    <2>1. 1 \in 1..Len(mgmt[c][a]) /\ IsQuestion(mgmt[c][a][1])
      BY <1>1 DEF IsQuestion, QuestionTypes
    <2>2. 1 = Len(mgmt[c][a]) /\ wait[c] = [to |-> a, msg |-> mgmt[c][a][1]]
      BY <2>1 DEF IndInv, ChannelInv
    <2>. QED
      BY <1>1, <2>2
  <1>3. InChannel(c, a)
    BY <1>1, <1>2 DEF InChannel, IsQuestion, QuestionTypes
  <1>4. wait[c] # None /\ wait[c].to = a
    BY <1>3, OwedBy DEF IndInv
  <1>5. \A b \in Actors : ~InChannel(c, b)'
    <2>1. \A b \in Actors : InChannel(c, b) => wait[c].to = b
      BY OwedBy DEF IndInv
    <2>2. ~InChannel(c, a)'
      BY <1>0, <1>2
    <2>. QED
      BY <1>0, <1>4, <2>1, <2>2
  <1>6. \A b \in Actors : ~Listed(c, b) /\ reply[b][c] = << >>
    <2>1. \A b \in Actors : Listed(c, b) => wait[c].to = b /\ ~InChannel(c, b)
      BY OwedBy DEF IndInv
    <2>2. \A b \in Actors : reply[b][c] # << >> => wait[c].to = b /\ ~InChannel(c, b)
      BY DEF IndInv, ReplyInv
    <2>. QED
      BY <1>3, <1>4, <2>1, <2>2
  <1>. QED
    BY <1>2, <1>3, <1>4, <1>5, <1>6

\* A channel whose last message is not a question holds no question.
LEMMA NoQuestion ==
    ASSUME TypeOK, ChannelInv, NEW c \in Procs, NEW a \in Actors, ~InChannel(c, a),
           NEW i \in 1..Len(mgmt[c][a])
    PROVE  ~IsQuestion(mgmt[c][a][i])
  <1>1. mgmt[c][a] \in Seq(Messages)
    BY DEF TypeOK
  <1>2. mgmt[c][a] # << >>
    BY <1>1, EmptyFacts
  <1>. QED
    BY <1>2 DEF ChannelInv, InChannel

\* The management thread answers a question at once.
LEMMA AnswerOwing ==
    ASSUME IndInv, NEW c \in Procs, NEW a \in Actors, NEW t, t \in QuestionTypes, Receive(a, c, t),
           NEW r \in Replies, reply' = [reply EXCEPT ![a][c] = Append(@, r)],
           UNCHANGED <<wait, pending>>
    PROVE  /\ Owing'
           /\ reply' \in [Actors -> [Procs -> Seq(Replies)]]
           /\ reply'[a][c] = <<r>>
           /\ \A b \in Actors, d \in Procs : ~(b = a /\ d = c) => reply'[b][d] = reply[b][d]
  <1>1. /\ wait[c] # None /\ wait[c].to = a
        /\ \A b \in Actors : ~InChannel(c, b)'
        /\ \A b \in Actors : ~Listed(c, b) /\ reply[b][c] = << >>
    BY ReceiveQuestion
  <1>2. \A d \in Procs, b \in Actors : ~(d = c /\ b = a) => (InChannel(d, b)' <=> InChannel(d, b))
    BY ReceiveEffect DEF IndInv
  <1>3. wait' = wait /\ pending' = pending
    OBVIOUS
  <1>4. reply'[a][c] = <<r>>
    BY <1>1, AppendEmpty DEF IndInv, TypeOK
  <1>5. \A b \in Actors, d \in Procs : ~(b = a /\ d = c) => reply'[b][d] = reply[b][d]
    BY DEF IndInv, TypeOK
  <1>6. reply' \in [Actors -> [Procs -> Seq(Replies)]]
    <2>1. <<r>> \in Seq(Replies) /\ Append(reply[a][c], r) = <<r>>
      BY <1>1, AppendEmpty
    <2>2. [reply[a] EXCEPT ![c] = <<r>>] \in [Procs -> Seq(Replies)]
      BY <2>1 DEF IndInv, TypeOK
    <2>. QED
      BY <2>1, <2>2 DEF IndInv, TypeOK
  <1>7. ChannelInv'
    BY ReceiveChannel
  <1>8. PendingInv'
    <2>. SUFFICES ASSUME NEW b \in Actors, NEW k \in Keys, NEW i \in 1..Len(pending[b][k]),
                         NEW d \in Procs, d = pending[b][k][i]
                  PROVE  /\ wait[d] = [to |-> b, msg |-> [type |-> "GET", key |-> k]]
                         /\ \A j \in 1..Len(pending[b][k]) : pending[b][k][j] = d => j = i
                         /\ ~InChannel(d, b)'
                         /\ reply'[b][d] = << >>
      <3>1. \A b \in Actors, k \in Keys : \A i \in 1..Len(pending[b][k]) : pending[b][k][i] \in Procs
        BY SMTT(20) DEF IndInv, TypeOK
      <3>. QED
        BY <1>3, <3>1 DEF PendingInv
    <2>1. d # c
      <3>1. i \in DOMAIN pending[b][k]
        BY SMTT(20) DEF IndInv, TypeOK
      <3>. QED
        BY <1>1, <3>1 DEF Listed
    <2>2. /\ wait[d] = [to |-> b, msg |-> [type |-> "GET", key |-> k]]
          /\ \A j \in 1..Len(pending[b][k]) : pending[b][k][j] = d => j = i
          /\ ~InChannel(d, b)
          /\ reply[b][d] = << >>
      BY DEF IndInv, PendingInv
    <2>. QED
      BY <1>2, <1>5, <2>1, <2>2
  <1>9. ReplyInv'
    <2>. SUFFICES ASSUME NEW b \in Actors, NEW d \in Procs, reply'[b][d] # << >>
                  PROVE  /\ Len(reply'[b][d]) = 1
                         /\ wait[d] # None /\ wait[d].to = b
                         /\ ~InChannel(d, b)'
      BY <1>3 DEF ReplyInv
    <2>1. CASE d = c /\ b = a
      BY <1>1, <1>4, <2>1
    <2>2. CASE ~(d = c /\ b = a)
      <3>1. reply'[b][d] = reply[b][d] /\ (InChannel(d, b)' <=> InChannel(d, b))
        BY <1>2, <1>5, <2>2
      <3>2. Len(reply[b][d]) = 1 /\ wait[d] # None /\ wait[d].to = b /\ ~InChannel(d, b)
        BY <3>1 DEF IndInv, ReplyInv
      <3>. QED
        BY <3>1, <3>2
    <2>. QED
      BY <2>1, <2>2
  <1>10. OwedInv'
    <2>1. \A d \in Procs, b \in Actors : Listed(d, b)' <=> Listed(d, b)
      BY <1>3 DEF Listed
    <2>2. \A d \in Procs : wait[d] # None => wait[d].to \in Actors
      BY DEF IndInv, TypeOK, Questions
    <2>. SUFFICES ASSUME NEW d \in Procs, wait[d] # None, NEW b \in Actors, b = wait[d].to
                  PROVE  InChannel(d, b)' \/ Listed(d, b)' \/ UnderWay(d, b)'
      BY <1>3, <2>2 DEF OwedInv
    <2>3. CASE d = c
      BY <1>1, <1>4, <2>3 DEF UnderWay
    <2>4. CASE d # c
      <3>1. InChannel(d, b) \/ Listed(d, b) \/ UnderWay(d, b)
        BY DEF IndInv, OwedInv
      <3>2. UnderWay(d, b)' <=> UnderWay(d, b)
        BY <1>5, <2>4 DEF UnderWay
      <3>. QED
        BY <1>2, <2>1, <2>4, <3>1, <3>2
    <2>. QED
      BY <2>3, <2>4
  <1>. QED
    BY <1>4, <1>5, <1>6, <1>7, <1>8, <1>9, <1>10 DEF Owing

\* A process takes its answer.
LEMMA TakeAnswerOwing ==
    ASSUME IndInv, NEW c \in Procs, TakeAnswer(c), UNCHANGED <<mgmt, pending>>
    PROVE  Owing'
  <1>1. /\ wait'[c] = None
        /\ \A d \in Procs : d # c => wait'[d] = wait[d]
        /\ \A b \in Actors, d \in Procs : d # c => reply'[b][d] = reply[b][d]
        /\ \A b \in Actors : reply'[b][c] = << >> /\ ~InChannel(c, b) /\ ~Listed(c, b)
    BY TakeAnswerEffect
  <1>2. mgmt' = mgmt /\ pending' = pending
    OBVIOUS
  <1>3. \A d \in Procs, b \in Actors : InChannel(d, b)' <=> InChannel(d, b)
    BY <1>2 DEF InChannel, IsQuestion
  <1>4. ChannelInv'
    <2>. SUFFICES ASSUME NEW d \in Procs, NEW b \in Actors, NEW i \in 1..Len(mgmt'[d][b])
                  PROVE  /\ IsQuestion(mgmt'[d][b][i]) =>
                              i = Len(mgmt'[d][b]) /\ wait'[d] = [to |-> b, msg |-> mgmt'[d][b][i]]
                         /\ mgmt'[d][b][i].type = "CALL" => d = Client
                         /\ mgmt'[d][b][i].type = "REGISTER" => d = b
      BY DEF ChannelInv, IsQuestion
    <2>1. CASE d = c
      <3>1. ~IsQuestion(mgmt[d][b][i])
        BY <1>1, <1>2, <2>1, NoQuestion DEF IndInv
      <3>. QED
        BY <1>2, <3>1 DEF IndInv, ChannelInv
    <2>2. CASE d # c
      BY <1>1, <1>2, <2>2 DEF IndInv, ChannelInv
    <2>. QED
      BY <2>1, <2>2
  <1>5. PendingInv'
    <2>. SUFFICES ASSUME NEW b \in Actors, NEW k \in Keys, NEW i \in 1..Len(pending[b][k]),
                         NEW d \in Procs, d = pending[b][k][i]
                  PROVE  /\ wait'[d] = [to |-> b, msg |-> [type |-> "GET", key |-> k]]
                         /\ \A j \in 1..Len(pending[b][k]) : pending[b][k][j] = d => j = i
                         /\ ~InChannel(d, b)'
                         /\ reply'[b][d] = << >>
      <3>1. \A b \in Actors, k \in Keys : \A i \in 1..Len(pending[b][k]) : pending[b][k][i] \in Procs
        BY DEF IndInv, TypeOK
      <3>. QED
        BY <1>2, <3>1 DEF PendingInv
    <2>1. d # c
      <3>1. i \in DOMAIN pending[b][k]
        BY DEF IndInv, TypeOK
      <3>. QED
        BY <1>1, <3>1 DEF Listed
    <2>2. /\ wait[d] = [to |-> b, msg |-> [type |-> "GET", key |-> k]]
          /\ \A j \in 1..Len(pending[b][k]) : pending[b][k][j] = d => j = i
          /\ ~InChannel(d, b)
          /\ reply[b][d] = << >>
      BY DEF IndInv, PendingInv
    <2>. QED
      BY <1>1, <1>3, <2>1, <2>2
  <1>6. ReplyInv'
    <2>. SUFFICES ASSUME NEW b \in Actors, NEW d \in Procs, reply'[b][d] # << >>
                  PROVE  /\ Len(reply'[b][d]) = 1
                         /\ wait'[d] # None /\ wait'[d].to = b
                         /\ ~InChannel(d, b)'
      BY DEF ReplyInv
    <2>1. d # c /\ reply'[b][d] = reply[b][d] /\ wait'[d] = wait[d]
      BY <1>1
    <2>. QED
      BY <1>3, <2>1 DEF IndInv, ReplyInv
  <1>7. OwedInv'
    <2>1. \A d \in Procs : wait'[d] # None => d # c /\ wait'[d] = wait[d] /\ wait'[d].to \in Actors
      BY <1>1 DEF IndInv, TypeOK, Questions
    <2>. SUFFICES ASSUME NEW d \in Procs, wait'[d] # None, NEW b \in Actors, b = wait'[d].to
                  PROVE  InChannel(d, b)' \/ Listed(d, b)' \/ UnderWay(d, b)'
      BY <2>1 DEF OwedInv
    <2>2. InChannel(d, b) \/ Listed(d, b) \/ UnderWay(d, b)
      BY <2>1 DEF IndInv, OwedInv
    <2>3. Listed(d, b)' <=> Listed(d, b)
      BY <1>2 DEF Listed
    <2>4. UnderWay(d, b)' <=> UnderWay(d, b)
      BY <1>1, <2>1 DEF UnderWay
    <2>. QED
      BY <1>3, <2>2, <2>3, <2>4
  <1>. QED
    BY <1>4, <1>5, <1>6, <1>7 DEF Owing

\* The management thread lists the process that asked.
LEMMA DeferOwing ==
    ASSUME IndInv, NEW c \in Procs, NEW a \in Actors, DeferGet(a, c)
    PROVE  Owing' /\ pending' \in [Actors -> [Keys -> Seq(Procs)]]
  <1>0. Receive(a, c, "GET")
    BY DEF DeferGet
  <1>1. /\ wait[c] = [to |-> a, msg |-> Head(mgmt[c][a])]
        /\ wait[c] # None /\ wait[c].to = a
        /\ \A b \in Actors : ~InChannel(c, b)'
        /\ \A b \in Actors : ~Listed(c, b) /\ reply[b][c] = << >>
    <2>1. "GET" \in QuestionTypes
      BY DEF QuestionTypes
    <2>. QED
      BY <1>0, <2>1, ReceiveQuestion
  <1>2. \A d \in Procs, b \in Actors : ~(d = c /\ b = a) => (InChannel(d, b)' <=> InChannel(d, b))
    BY SMTT(20), <1>0, ReceiveEffect DEF IndInv
  <1>3. Head(mgmt[c][a]) \in GetMsgs
    BY SMTT(20), <1>0, ReceiveEffect, MessageTypes DEF IndInv
  <1>4. PICK k \in Keys : /\ Head(mgmt[c][a]) = [type |-> "GET", key |-> k]
                         /\ pending' = [pending EXCEPT ![a][k] = Append(@, c)]
    BY <1>3 DEF GetMsgs, DeferGet
  <1>5. wait' = wait /\ reply' = reply
    BY DEF DeferGet
  <1>6. /\ pending[a][k] \in Seq(Procs)
        /\ pending'[a][k] = Append(pending[a][k], c)
        /\ \A b \in Actors, j \in Keys : ~(b = a /\ j = k) => pending'[b][j] = pending[b][j]
    BY <1>4 DEF IndInv, TypeOK
  <1>7. /\ Len(pending[a][k]) \in Nat
        /\ Len(pending'[a][k]) = Len(pending[a][k]) + 1
        /\ pending'[a][k][Len(pending[a][k]) + 1] = c
        /\ \A i \in 1..Len(pending[a][k]) : pending'[a][k][i] = pending[a][k][i]
    BY <1>6, AppendFacts
  <1>8. pending' \in [Actors -> [Keys -> Seq(Procs)]]
    <2>1. Append(pending[a][k], c) \in Seq(Procs)
      BY <1>6, AppendFacts
    <2>2. [pending[a] EXCEPT ![k] = Append(pending[a][k], c)] \in [Keys -> Seq(Procs)]
      BY <2>1 DEF IndInv, TypeOK
    <2>. QED
      BY <1>4, <2>2 DEF IndInv, TypeOK
  <1>9. \A b \in Actors, j \in Keys : \A i \in 1..Len(pending[b][j]) : pending[b][j][i] # c
    <2>. SUFFICES ASSUME NEW b \in Actors, NEW j \in Keys, NEW i \in 1..Len(pending[b][j]),
                         pending[b][j][i] = c
                  PROVE  FALSE
      OBVIOUS
    <2>1. i \in DOMAIN pending[b][j]
      BY DEF IndInv, TypeOK
    <2>. QED
      BY <1>1, <2>1 DEF Listed
  <1>10. ChannelInv'
    BY <1>0, <1>5, ReceiveChannel
  <1>11. PendingInv'
    <2>. SUFFICES ASSUME NEW b \in Actors, NEW j \in Keys, NEW i \in 1..Len(pending'[b][j]),
                         NEW d \in Procs, d = pending'[b][j][i]
                  PROVE  /\ wait[d] = [to |-> b, msg |-> [type |-> "GET", key |-> j]]
                         /\ \A h \in 1..Len(pending'[b][j]) : pending'[b][j][h] = d => h = i
                         /\ ~InChannel(d, b)'
                         /\ reply[b][d] = << >>
      <3>1. \A b \in Actors, j \in Keys : \A i \in 1..Len(pending'[b][j]) : pending'[b][j][i] \in Procs
        BY <1>8
      <3>. QED
        BY <1>5, <3>1 DEF PendingInv
    <2>1. CASE b = a /\ j = k /\ i = Len(pending[a][k]) + 1
      <3>1. d = c
        BY <1>7, <2>1
      <3>0. \A h \in 1..Len(pending[a][k]) : pending'[a][k][h] # c
        BY <1>7, <1>9
      <3>2. \A h \in 1..Len(pending'[b][j]) : pending'[b][j][h] = d => h = i
        BY SMTT(20), <1>7, <2>1, <3>0, <3>1
      <3>. QED
        BY <1>1, <1>4, <2>1, <3>1, <3>2
    <2>2. CASE b = a /\ j = k /\ i # Len(pending[a][k]) + 1
      <3>1. i \in 1..Len(pending[a][k]) /\ d = pending[a][k][i] /\ d # c
        BY <1>7, <1>9, <2>2
      <3>2. /\ wait[d] = [to |-> b, msg |-> [type |-> "GET", key |-> j]]
            /\ \A h \in 1..Len(pending[b][j]) : pending[b][j][h] = d => h = i
            /\ ~InChannel(d, b)
            /\ reply[b][d] = << >>
        BY SMTT(20), <2>2, <3>1 DEF IndInv, PendingInv
      <3>3. \A h \in 1..Len(pending'[b][j]) : pending'[b][j][h] = d => h = i
        BY SMTT(20), <1>7, <2>2, <3>1, <3>2
      <3>. QED
        BY <1>2, <3>1, <3>2, <3>3
    <2>3. CASE ~(b = a /\ j = k)
      <3>1. pending'[b][j] = pending[b][j]
        BY <1>6, <2>3
      <3>2. d # c
        BY <1>9, <3>1
      <3>3. /\ wait[d] = [to |-> b, msg |-> [type |-> "GET", key |-> j]]
            /\ \A h \in 1..Len(pending[b][j]) : pending[b][j][h] = d => h = i
            /\ ~InChannel(d, b)
            /\ reply[b][d] = << >>
        BY <3>1 DEF IndInv, PendingInv
      <3>. QED
        BY <1>2, <3>1, <3>2, <3>3
    <2>. QED
      BY <2>1, <2>2, <2>3
  <1>12. ReplyInv'
    <2>. SUFFICES ASSUME NEW b \in Actors, NEW d \in Procs, reply[b][d] # << >>
                  PROVE  /\ Len(reply[b][d]) = 1
                         /\ wait[d] # None /\ wait[d].to = b
                         /\ ~InChannel(d, b)'
      BY <1>5 DEF ReplyInv
    <2>1. d # c
      BY <1>1
    <2>2. Len(reply[b][d]) = 1 /\ wait[d] # None /\ wait[d].to = b /\ ~InChannel(d, b)
      BY DEF IndInv, ReplyInv
    <2>. QED
      BY <1>2, <2>1, <2>2
  <1>13. OwedInv'
    <2>1. \A d \in Procs : wait[d] # None => wait[d].to \in Actors
      BY DEF IndInv, TypeOK, Questions
    <2>. SUFFICES ASSUME NEW d \in Procs, wait[d] # None, NEW b \in Actors, b = wait[d].to
                  PROVE  InChannel(d, b)' \/ Listed(d, b)' \/ UnderWay(d, b)'
      BY <1>5, <2>1 DEF OwedInv
    <2>2. UnderWay(d, b)' <=> UnderWay(d, b)
      BY <1>5 DEF UnderWay
    <2>3. CASE d = c
      <3>1. Len(pending[a][k]) + 1 \in DOMAIN pending'[a][k]
        BY <1>4, <1>7, <1>8
      <3>. QED
        BY <1>1, <1>4, <1>7, <2>3, <3>1 DEF Listed
    <2>4. CASE d # c
      <3>1. InChannel(d, b) \/ Listed(d, b) \/ UnderWay(d, b)
        BY DEF IndInv, OwedInv
      <3>2. Listed(d, b) => Listed(d, b)'
        <4>. SUFFICES ASSUME NEW j \in Keys, NEW i \in DOMAIN pending[b][j], pending[b][j][i] = d
                      PROVE  \E h \in DOMAIN pending'[b][j] : pending'[b][j][h] = d
          BY DEF Listed
        <4>0. pending[b][j] \in Seq(Procs)
          BY DEF IndInv, TypeOK
        <4>1. i \in 1..Len(pending[b][j])
          BY <4>0
        <4>2. i \in 1..Len(pending'[b][j]) /\ pending'[b][j][i] = d
          <5>1. CASE b = a /\ j = k
            BY <1>7, <4>1, <5>1
          <5>2. CASE ~(b = a /\ j = k)
            BY <1>6, <4>1, <5>2
          <5>. QED
            BY <5>1, <5>2
        <4>. QED
          BY <1>8, <4>2
      <3>. QED
        BY <1>2, <2>2, <2>4, <3>1, <3>2
    <2>. QED
      BY <2>3, <2>4
  <1>. QED
    BY <1>8, <1>10, <1>11, <1>12, <1>13 DEF Owing

\* A listed process is listed once.
LEMMA ListedOnce ==
    ASSUME IndInv, NEW a \in Actors, NEW k \in Keys, NEW d \in Procs
    PROVE  \/ /\ Times(d, pending[a][k]) = 1
              /\ \E i \in 1..Len(pending[a][k]) : pending[a][k][i] = d
           \/ /\ Times(d, pending[a][k]) = 0
              /\ \A i \in 1..Len(pending[a][k]) : pending[a][k][i] # d
  <1>. DEFINE places == {j \in DOMAIN pending[a][k] : pending[a][k][j] = d}
  <1>1. DOMAIN pending[a][k] = 1..Len(pending[a][k])
    BY DEF IndInv, TypeOK
  <1>2. CASE \E i \in 1..Len(pending[a][k]) : pending[a][k][i] = d
    <2>1. PICK i \in 1..Len(pending[a][k]) : pending[a][k][i] = d
      BY <1>2
    <2>2. \A j \in 1..Len(pending[a][k]) : pending[a][k][j] = d => j = i
      BY ZenonT(40), <2>1 DEF IndInv, PendingInv
    <2>3. places = {i}
      BY <1>1, <2>1, <2>2
    <2>4. Cardinality(places) = 1
      BY <2>3, FS_Singleton
    <2>. QED
      BY <2>1, <2>4 DEF Times
  <1>3. CASE \A i \in 1..Len(pending[a][k]) : pending[a][k][i] # d
    <2>1. places = {}
      BY <1>1, <1>3
    <2>2. Cardinality(places) = 0
      BY <2>1, FS_EmptySet
    <2>. QED
      BY <1>3, <2>2 DEF Times
  <1>. QED
    BY <1>2, <1>3

\* What a result sends to the processes listed for it.
LEMMA SendToWaitingEffect ==
    ASSUME IndInv, NEW a \in Actors, NEW k \in Keys, NEW v \in Values,
           reply' = SendToWaiting(a, pending[a][k], v)
    PROVE  /\ reply' \in [Actors -> [Procs -> Seq(Replies)]]
           /\ \A i \in 1..Len(pending[a][k]) :
                reply'[a][pending[a][k][i]] = <<[type |-> "DATA", value |-> v]>>
           /\ \A d \in Procs : (\A i \in 1..Len(pending[a][k]) : pending[a][k][i] # d)
                                    => reply'[a][d] = reply[a][d]
           /\ \A b \in Actors, d \in Procs : b # a => reply'[b][d] = reply[b][d]
  <1>. DEFINE r == [type |-> "DATA", value |-> v]
              sent(d) == [i \in 1..Times(d, pending[a][k]) |-> r]
  <1>1. r \in Replies
    BY DEF Replies
  <1>2. reply' = [reply EXCEPT ![a] = [d \in Procs |-> reply[a][d] \o sent(d)]]
    BY DEF SendToWaiting
  <1>3. \A d \in Procs : reply[a][d] \in Seq(Replies)
    BY DEF IndInv, TypeOK
  <1>4. \A d \in Procs : reply'[a][d] = reply[a][d] \o sent(d)
    <2>. HIDE DEF sent
    <2>1. reply'[a] = [d \in Procs |-> reply[a][d] \o sent(d)]
      BY <1>2 DEF IndInv, TypeOK
    <2>. QED
      BY <2>1
  <1>5. \A b \in Actors, d \in Procs : b # a => reply'[b][d] = reply[b][d]
    BY <1>2 DEF IndInv, TypeOK
  <1>6. ASSUME NEW i \in 1..Len(pending[a][k])
        PROVE  reply'[a][pending[a][k][i]] = <<r>>
    <2>1. pending[a][k][i] \in Procs
      BY DEF IndInv, TypeOK
    <2>2. reply[a][pending[a][k][i]] = << >>
      BY DEF IndInv, PendingInv
    <2>3. Times(pending[a][k][i], pending[a][k]) = 1
      BY <2>1, ListedOnce
    <2>4. sent(pending[a][k][i]) = <<r>>
      BY <2>3
    <2>5. << >> \o <<r>> = <<r>>
      OBVIOUS
    <2>. QED
      BY <1>4, <2>1, <2>2, <2>4, <2>5
  <1>7. ASSUME NEW d \in Procs, \A i \in 1..Len(pending[a][k]) : pending[a][k][i] # d
        PROVE  reply'[a][d] = reply[a][d]
    <2>1. Times(d, pending[a][k]) = 0
      BY <1>7, ListedOnce
    <2>2. sent(d) = << >>
      BY <2>1
    <2>3. reply[a][d] \o << >> = reply[a][d]
      BY <1>3
    <2>. QED
      BY <1>4, <2>2, <2>3
  <1>8. \A d \in Procs : reply'[a][d] \in Seq(Replies)
    <2>. SUFFICES ASSUME NEW d \in Procs PROVE reply'[a][d] \in Seq(Replies)
      OBVIOUS
    <2>1. CASE \E i \in 1..Len(pending[a][k]) : pending[a][k][i] = d
      <3>1. <<r>> \in Seq(Replies)
        BY <1>1, AppendEmpty
      <3>2. PICK i \in 1..Len(pending[a][k]) : pending[a][k][i] = d
        BY <2>1
      <3>3. reply'[a][pending[a][k][i]] = <<r>>
        BY <1>6
      <3>. QED
        BY <3>1, <3>2, <3>3
    <2>2. CASE \A i \in 1..Len(pending[a][k]) : pending[a][k][i] # d
      BY <1>3, <1>7, <2>2
    <2>. QED
      BY <2>1, <2>2
  <1>9. reply' \in [Actors -> [Procs -> Seq(Replies)]]
    <2>1. [d \in Procs |-> reply[a][d] \o sent(d)] \in [Procs -> Seq(Replies)]
      BY <1>4, <1>8
    <2>. QED
      BY <1>2, <2>1 DEF IndInv, TypeOK
  <1>. QED
    BY <1>5, <1>6, <1>7, <1>9

\* The management thread registers a result and serves the processes listed.
LEMMA StoreOwing ==
    ASSUME IndInv, NEW c \in Procs, NEW a \in Actors, NEW k \in Keys, NEW v \in Values,
           Receive(a, c, "REGISTER"), UNCHANGED wait,
           reply' = SendToWaiting(a, pending[a][k], v), pending' = Unlisted(a, k)
    PROVE  Owing' /\ pending' \in [Actors -> [Keys -> Seq(Procs)]]
  <1>1. \A d \in Procs, b \in Actors : InChannel(d, b)' <=> InChannel(d, b)
    BY ReceiveQuiet
  <1>2. /\ \A i \in 1..Len(pending[a][k]) :
             reply'[a][pending[a][k][i]] = <<[type |-> "DATA", value |-> v]>>
        /\ \A d \in Procs : (\A i \in 1..Len(pending[a][k]) : pending[a][k][i] # d)
                                 => reply'[a][d] = reply[a][d]
        /\ \A b \in Actors, d \in Procs : b # a => reply'[b][d] = reply[b][d]
    BY SendToWaitingEffect
  <1>11. \A i \in 1..Len(pending[a][k]) : \E r \in Replies : reply'[a][pending[a][k][i]] = <<r>>
    <2>1. [type |-> "DATA", value |-> v] \in Replies
      BY DEF Replies
    <2>. QED
      BY <1>2, <2>1
  <1>3. wait' = wait
    OBVIOUS
  <1>4. /\ pending' \in [Actors -> [Keys -> Seq(Procs)]]
        /\ pending'[a][k] = << >>
        /\ \A b \in Actors, j \in Keys : ~(b = a /\ j = k) => pending'[b][j] = pending[b][j]
    <2>1. pending' = [pending EXCEPT ![a][k] = << >>]
      BY DEF Unlisted
    <2>2. [pending[a] EXCEPT ![k] = << >>] \in [Keys -> Seq(Procs)]
      BY DEF IndInv, TypeOK
    <2>. QED
      BY <2>1, <2>2 DEF IndInv, TypeOK
  <1>5. ChannelInv'
    BY ReceiveChannel
  <1>6. \A b \in Actors, j \in Keys : \A i \in 1..Len(pending[b][j]) : pending[b][j][i] \in Procs
    BY SMTT(20) DEF IndInv, TypeOK
  <1>7. ASSUME NEW b \in Actors, NEW j \in Keys, NEW i \in 1..Len(pending[b][j]),
               NEW d \in Procs, d = pending[b][j][i]
        PROVE  /\ wait[d] = [to |-> b, msg |-> [type |-> "GET", key |-> j]]
               /\ \A h \in 1..Len(pending[b][j]) : pending[b][j][h] = d => h = i
               /\ ~InChannel(d, b)
               /\ reply[b][d] = << >>
    BY <1>7 DEF IndInv, PendingInv
  <1>8. PendingInv'
    <2>. SUFFICES ASSUME NEW b \in Actors, NEW j \in Keys, NEW i \in 1..Len(pending'[b][j]),
                         NEW d \in Procs, d = pending'[b][j][i]
                  PROVE  /\ wait'[d] = [to |-> b, msg |-> [type |-> "GET", key |-> j]]
                         /\ \A h \in 1..Len(pending'[b][j]) : pending'[b][j][h] = d => h = i
                         /\ ~InChannel(d, b)'
                         /\ reply'[b][d] = << >>
      <3>1. \A b \in Actors, j \in Keys : \A i \in 1..Len(pending'[b][j]) : pending'[b][j][i] \in Procs
        BY <1>4
      <3>. QED
        BY <3>1 DEF PendingInv
    <2>1. ~(b = a /\ j = k)
      BY <1>4
    <2>2. pending'[b][j] = pending[b][j] /\ i \in 1..Len(pending[b][j]) /\ d = pending[b][j][i]
      BY <1>4, <2>1
    <2>3. /\ wait[d] = [to |-> b, msg |-> [type |-> "GET", key |-> j]]
          /\ \A h \in 1..Len(pending[b][j]) : pending[b][j][h] = d => h = i
          /\ ~InChannel(d, b)
          /\ reply[b][d] = << >>
      BY <1>7, <2>2
    <2>4. reply'[b][d] = reply[b][d]
      <3>1. CASE b # a
        BY <1>2, <3>1
      <3>2. CASE b = a
        <4>1. \A h \in 1..Len(pending[a][k]) : pending[a][k][h] # d
          <5>. SUFFICES ASSUME NEW h \in 1..Len(pending[a][k]), pending[a][k][h] = d PROVE FALSE
            OBVIOUS
          <5>1. wait[d] = [to |-> a, msg |-> [type |-> "GET", key |-> k]]
            BY <1>7
          <5>. QED
            BY <2>1, <2>3, <3>2, <5>1
        <4>. QED
          BY <1>2, <3>2, <4>1
      <3>. QED
        BY <3>1, <3>2
    <2>. QED
      BY <1>1, <1>3, <2>2, <2>3, <2>4
  <1>9. ReplyInv'
    <2>. SUFFICES ASSUME NEW b \in Actors, NEW d \in Procs, reply'[b][d] # << >>
                  PROVE  /\ Len(reply'[b][d]) = 1
                         /\ wait[d] # None /\ wait[d].to = b
                         /\ ~InChannel(d, b)'
      BY <1>3 DEF ReplyInv
    <2>1. CASE b = a /\ \E i \in 1..Len(pending[a][k]) : pending[a][k][i] = d
      <3>1. PICK i \in 1..Len(pending[a][k]) : pending[a][k][i] = d
        BY <2>1
      <3>2. Len(reply'[a][d]) = 1
        <4>1. \E r \in Replies : reply'[a][d] = <<r>>
          BY <1>11, <3>1
        <4>. QED
          BY <4>1, AppendEmpty
      <3>3. wait[d] = [to |-> a, msg |-> [type |-> "GET", key |-> k]] /\ ~InChannel(d, a)
        BY <1>7, <3>1
      <3>4. [to |-> a, msg |-> [type |-> "GET", key |-> k]] \in Questions
        BY DEF Questions, GetMsgs
      <3>5. wait[d] # None /\ wait[d].to = a
        BY <3>3, <3>4
      <3>. QED
        BY <1>1, <2>1, <3>2, <3>3, <3>5
    <2>2. CASE ~(b = a /\ \E i \in 1..Len(pending[a][k]) : pending[a][k][i] = d)
      <3>1. reply'[b][d] = reply[b][d]
        BY <1>2, <2>2
      <3>2. Len(reply[b][d]) = 1 /\ wait[d] # None /\ wait[d].to = b /\ ~InChannel(d, b)
        BY <3>1 DEF IndInv, ReplyInv
      <3>. QED
        BY <1>1, <3>1, <3>2
    <2>. QED
      BY <2>1, <2>2
  <1>10. OwedInv'
    <2>1. \A d \in Procs : wait[d] # None => wait[d].to \in Actors
      BY DEF IndInv, TypeOK, Questions
    <2>. SUFFICES ASSUME NEW d \in Procs, wait[d] # None, NEW b \in Actors, b = wait[d].to
                  PROVE  InChannel(d, b)' \/ Listed(d, b)' \/ UnderWay(d, b)'
      BY <1>3, <2>1 DEF OwedInv
    <2>2. InChannel(d, b) \/ Listed(d, b) \/ UnderWay(d, b)
      BY DEF IndInv, OwedInv
    <2>3. CASE b = a /\ \E i \in 1..Len(pending[a][k]) : pending[a][k][i] = d
      <3>1. \E r \in Replies : reply'[a][d] = <<r>>
        BY <1>11, <2>3
      <3>2. reply'[b][d] # << >>
        BY <2>3, <3>1, AppendEmpty
      <3>. QED
        BY <3>2 DEF UnderWay
    <2>4. CASE ~(b = a /\ \E i \in 1..Len(pending[a][k]) : pending[a][k][i] = d)
      <3>1. reply'[b][d] = reply[b][d]
        BY <1>2, <2>4
      <3>2. UnderWay(d, b)' <=> UnderWay(d, b)
        BY <3>1 DEF UnderWay
      <3>3. Listed(d, b) => Listed(d, b)'
        <4>. SUFFICES ASSUME NEW j \in Keys, NEW i \in DOMAIN pending[b][j], pending[b][j][i] = d
                      PROVE  \E h \in DOMAIN pending'[b][j] : pending'[b][j][h] = d
          BY DEF Listed
        <4>0. pending[b][j] \in Seq(Procs)
          BY DEF IndInv, TypeOK
        <4>1. i \in 1..Len(pending[b][j])
          BY <4>0
        <4>2. ~(b = a /\ j = k)
          BY <2>4, <4>1
        <4>. QED
          BY <1>4, <4>2
      <3>. QED
        BY <1>1, <2>2, <3>2, <3>3
    <2>. QED
      BY <2>3, <2>4
  <1>. QED
    BY <1>4, <1>5, <1>8, <1>9, <1>10 DEF Owing

-----------------------------------------------------------------------------
(***************************************************************************)
(* The initial states and the steps of the program.                        *)
(***************************************************************************)

\* The invariant holds before the program starts.
LEMMA InitInv == Init => IndInv
  <1>. SUFFICES ASSUME Init PROVE IndInv
    OBVIOUS
  <1>1. TypeOK
    <2>1. NotRunning \in WorkerStates
      BY DEF NotRunning, WorkerStates
    <2>. QED
      BY <2>1 DEF Init, TypeOK
  <1>2. WorkerInv
    BY DEF Init, WorkerInv, NotRunning, Procs
  <1>3. ChannelInv /\ PendingInv /\ ReplyInv /\ OwedInv
    BY DEF Init, ChannelInv, PendingInv, ReplyInv, OwedInv
  <1>4. KeyInv
    BY DEF Init, KeyInv, InChannel, Procs
  <1>5. ValueInv /\ HoldsInv
    BY DEF Init, ValueInv, QueueInv, RunningInv, ResultsInv, StoreInv, TicketInv, HoldsInv, NotRunning, Procs
  <1>6. AnswersMatch
    BY DEF Init, AnswersMatch, RepliesMatch, DataMatch, GotMatch, NotRunning
  <1>. QED
    BY <1>1, <1>2, <1>3, <1>4, <1>5, <1>6 DEF IndInv


-----------------------------------------------------------------------------
(***************************************************************************)
(* The values under way.                                                   *)
(***************************************************************************)

\* Sending something that is not a wrong result.
LEMMA SendResults ==
    ASSUME IndInv, NEW c \in Procs, NEW a \in Actors, NEW m \in Messages, Send(c, a, m),
           UNCHANGED calls, m.type = "REGISTER" => IsResult(a, m.key, m.value)
    PROVE  ResultsInv'
  <1>1. /\ Len(mgmt'[c][a]) = Len(mgmt[c][a]) + 1
        /\ mgmt'[c][a][Len(mgmt[c][a]) + 1] = m
        /\ \A i \in 1..Len(mgmt[c][a]) : mgmt'[c][a][i] = mgmt[c][a][i]
        /\ \A d \in Procs, b \in Actors : ~(d = c /\ b = a) => mgmt'[d][b] = mgmt[d][b]
    BY SendEffect DEF IndInv
  <1>2. Len(mgmt[c][a]) \in Nat
    BY DEF IndInv, TypeOK
  <1>. SUFFICES ASSUME NEW d \in Procs, NEW b \in Actors, NEW i \in 1..Len(mgmt'[d][b]),
                       mgmt'[d][b][i].type = "REGISTER"
                PROVE  /\ mgmt'[d][b][i].key < Len(calls[b])
                       /\ mgmt'[d][b][i].value = ResultOf(calls[b][mgmt'[d][b][i].key + 1])
    BY DEF ResultsInv, IsResult
  <1>3. CASE d = c /\ b = a /\ i = Len(mgmt[c][a]) + 1
    BY <1>1, <1>3 DEF IsResult
  <1>4. CASE ~(d = c /\ b = a /\ i = Len(mgmt[c][a]) + 1)
    <2>1. i \in 1..Len(mgmt[d][b]) /\ mgmt'[d][b][i] = mgmt[d][b][i]
      BY <1>1, <1>2, <1>4
    <2>. QED
      BY <2>1 DEF IndInv, ValueInv, ResultsInv, IsResult
  <1>. QED
    BY <1>3, <1>4

\* Receiving a message leaves the others as they are.
LEMMA ReceiveResults ==
    ASSUME IndInv, NEW c \in Procs, NEW a \in Actors, NEW t, Receive(a, c, t)
    PROVE  \A d \in Procs, b \in Actors : \A i \in 1..Len(mgmt'[d][b]) :
               /\ mgmt'[d][b][i] \in Messages
               /\ mgmt'[d][b][i].type = "REGISTER" =>
                    /\ mgmt'[d][b][i].key < Len(calls[b])
                    /\ mgmt'[d][b][i].value = ResultOf(calls[b][mgmt'[d][b][i].key + 1])
  <1>1. /\ Len(mgmt[c][a]) \in Nat
        /\ Len(mgmt'[c][a]) = Len(mgmt[c][a]) - 1
        /\ \A i \in 1..Len(mgmt'[c][a]) : mgmt'[c][a][i] = mgmt[c][a][i + 1]
        /\ \A d \in Procs, b \in Actors : ~(d = c /\ b = a) => mgmt'[d][b] = mgmt[d][b]
        /\ mgmt' \in [Procs -> [Actors -> Seq(Messages)]]
    BY ReceiveEffect DEF IndInv
  <1>. SUFFICES ASSUME NEW d \in Procs, NEW b \in Actors, NEW i \in 1..Len(mgmt'[d][b])
                PROVE  /\ mgmt'[d][b][i] \in Messages
                       /\ mgmt'[d][b][i].type = "REGISTER" =>
                            /\ mgmt'[d][b][i].key < Len(calls[b])
                            /\ mgmt'[d][b][i].value = ResultOf(calls[b][mgmt'[d][b][i].key + 1])
    OBVIOUS
  <1>2. mgmt'[d][b][i] \in Messages
    BY <1>1
  <1>3. \E j \in 1..Len(mgmt[d][b]) : mgmt'[d][b][i] = mgmt[d][b][j]
    <2>1. CASE d = c /\ b = a
      <3>1. i + 1 \in 1..Len(mgmt[c][a]) /\ mgmt'[c][a][i] = mgmt[c][a][i + 1]
        BY <1>1, <2>1
      <3>. QED
        BY <2>1, <3>1
    <2>2. CASE ~(d = c /\ b = a)
      BY <1>1, <2>2
    <2>. QED
      BY <2>1, <2>2
  <1>. QED
    BY <1>2, <1>3 DEF IndInv, ValueInv, ResultsInv, IsResult

\* A process that asks has no answer under way, the answers of the others
\* still match.
LEMMA AskReplies ==
    ASSUME IndInv, NEW c \in Procs, NEW a \in Actors, NEW m \in CallMsgs \cup GetMsgs,
           wait[c] = None, Ask(c, a, m), UNCHANGED <<reply, calls>>
    PROVE  RepliesMatch'
  <1>1. \A d \in Procs : d # c => wait'[d] = wait[d]
    BY AskEffect DEF IndInv
  <1>2. reply' = reply /\ calls' = calls
    OBVIOUS
  <1>. SUFFICES ASSUME NEW d \in Procs, NEW b \in Actors, NEW i \in 1..Len(reply[b][d])
                PROVE  /\ wait'[d] # None
                       /\ wait'[d].msg.type = "CALL" =>
                            /\ reply[b][d][i].type = "KEY"
                            /\ reply[b][d][i].value < Len(calls[b])
                            /\ calls[b][reply[b][d][i].value + 1] = wait'[d].msg
                       /\ wait'[d].msg.type = "GET" =>
                            /\ reply[b][d][i].type = "DATA"
                            /\ wait'[d].msg.key < Len(calls[b])
                            /\ reply[b][d][i].value = ResultOf(calls[b][wait'[d].msg.key + 1])
    BY <1>2 DEF RepliesMatch
  <1>3. wait[d] # None
    BY DEF IndInv, AnswersMatch, RepliesMatch
  <1>4. wait'[d] = wait[d]
    BY <1>1, <1>3
  <1>. QED
    BY <1>4 DEF IndInv, AnswersMatch, RepliesMatch

\* Taking an answer leaves those of the others as they are.
LEMMA TakeAnswerReplies ==
    ASSUME IndInv, NEW c \in Procs, TakeAnswer(c), UNCHANGED calls
    PROVE  RepliesMatch'
  <1>1. /\ \A d \in Procs : d # c => wait'[d] = wait[d]
        /\ \A b \in Actors, d \in Procs : d # c => reply'[b][d] = reply[b][d]
        /\ \A b \in Actors : reply'[b][c] = << >>
    BY TakeAnswerEffect
  <1>2. calls' = calls
    OBVIOUS
  <1>. SUFFICES ASSUME NEW d \in Procs, NEW b \in Actors, NEW i \in 1..Len(reply'[b][d])
                PROVE  /\ wait'[d] # None
                       /\ wait'[d].msg.type = "CALL" =>
                            /\ reply'[b][d][i].type = "KEY"
                            /\ reply'[b][d][i].value < Len(calls[b])
                            /\ calls[b][reply'[b][d][i].value + 1] = wait'[d].msg
                       /\ wait'[d].msg.type = "GET" =>
                            /\ reply'[b][d][i].type = "DATA"
                            /\ wait'[d].msg.key < Len(calls[b])
                            /\ reply'[b][d][i].value = ResultOf(calls[b][wait'[d].msg.key + 1])
    BY SMTT(20), <1>2 DEF RepliesMatch
  <1>3. d # c
    BY SMTT(20), <1>1
  <1>4. wait'[d] = wait[d] /\ reply'[b][d] = reply[b][d]
    BY SMTT(20), <1>1, <1>3
  <1>. QED
    BY <1>4 DEF IndInv, AnswersMatch, RepliesMatch

\* The answer that is taken is the one to the question.
LEMMA AnswerIsRight ==
    ASSUME IndInv, NEW c \in Procs, TakeAnswer(c)
    PROVE  /\ wait[c].msg.type = "CALL" =>
                /\ Answer(c) \in Keys
                /\ Answer(c) < Len(calls[wait[c].to])
                /\ calls[wait[c].to][Answer(c) + 1] = wait[c].msg
           /\ wait[c].msg.type = "GET" =>
                /\ Answer(c) \in Values
                /\ wait[c].msg.key < Len(calls[wait[c].to])
                /\ Answer(c) = ResultOf(calls[wait[c].to][wait[c].msg.key + 1])
  <1>1. /\ wait[c] \in Questions
        /\ 1 \in DOMAIN reply[wait[c].to][c]
        /\ Answer(c) = reply[wait[c].to][c][1].value
        /\ reply[wait[c].to][c][1] \in Replies
    BY TakeAnswerEffect
  <1>2. wait[c].to \in Actors
    BY <1>1 DEF Questions
  <1>3. 1 \in 1..Len(reply[wait[c].to][c])
    BY <1>1, <1>2 DEF IndInv, TypeOK
  <1>. QED
    BY SMTT(20), <1>1, <1>2, <1>3 DEF IndInv, AnswersMatch, RepliesMatch, Replies

\* The parts of the invariant that concern variables a step leaves alone.
LEMMA SameValues ==
    ASSUME IndInv, calls' = calls
    PROVE  /\ queue' = queue => QueueInv'
           /\ worker' = worker => RunningInv' /\ GotMatch'
           /\ mgmt' = mgmt => ResultsInv'
           /\ store' = store => StoreInv'
           /\ ticketOf' = ticketOf => TicketInv'
           /\ ticketOf' = ticketOf /\ data' = data => DataMatch'
           /\ reply' = reply /\ wait' = wait => RepliesMatch'
  <1>1. queue' = queue => QueueInv'
    BY DEF IndInv, ValueInv, QueueInv, IsCall
  <1>2. worker' = worker => RunningInv' /\ GotMatch'
    BY DEF IndInv, ValueInv, RunningInv, IsCall, AnswersMatch, GotMatch
  <1>3. mgmt' = mgmt => ResultsInv'
    BY DEF IndInv, ValueInv, ResultsInv, IsResult
  <1>4. store' = store => StoreInv'
    BY DEF IndInv, ValueInv, StoreInv, IsResult
  <1>5. ticketOf' = ticketOf => TicketInv'
    BY DEF IndInv, ValueInv, TicketInv
  <1>6. ticketOf' = ticketOf /\ data' = data => DataMatch'
    BY DEF IndInv, AnswersMatch, DataMatch
  <1>7. reply' = reply /\ wait' = wait => RepliesMatch'
    BY DEF IndInv, AnswersMatch, RepliesMatch
  <1>. QED
    BY <1>1, <1>2, <1>3, <1>4, <1>5, <1>6, <1>7

\* The program is not an actor, so that it does not move the workers.
LEMMA ProgramWorkers ==
    ASSUME IndInv, worker' = worker, \A d \in Procs : d # Client => wait'[d] = wait[d]
    PROVE  WorkerInv'
  <1>1. \A a \in Actors : wait'[a] = wait[a]
    BY DEF Procs
  <1>. QED
    BY <1>1 DEF IndInv, WorkerInv

\* ActiveCall preserves the invariant.
LEMMA ActiveCallInv ==
    ASSUME IndInv, NEW a \in Actors, NEW kind \in Kinds, NEW arg \in FutureRefs \cup {None},
           ActiveCall(a, kind, arg)
    PROVE  IndInv'
  <1>. DEFINE m == [type |-> "CALL", ticket |-> ncalls + 1, kind |-> kind, arg |-> arg]
  <1>1. /\ wait[Client] = None /\ ncalls < MaxCalls
        /\ kind \in UsesFuture <=> arg # None
        /\ ncalls' = ncalls + 1
        /\ Ask(Client, a, m)
        /\ reply' = reply /\ nextKey' = nextKey /\ queue' = queue /\ store' = store
        /\ pending' = pending /\ askedDelete' = askedDelete /\ worker' = worker
        /\ ticketOf' = ticketOf /\ data' = data /\ released' = released /\ calls' = calls
    BY DEF ActiveCall, ProgramRunning, tables
  <1>2. ncalls \in 0..MaxCalls /\ ncalls' \in 0..MaxCalls /\ ncalls + 1 \in Tickets
    BY <1>1 DEF IndInv, TypeOK, Tickets
  <1>3. m \in CallMsgs
    BY <1>1, <1>2 DEF CallMsgs
  <1>4. Client \in Procs /\ m.type = "CALL" /\ m \in CallMsgs \cup GetMsgs
    BY <1>3 DEF Procs
  <1>. HIDE DEF m
  <1>5. /\ Send(Client, a, m) /\ m \in Messages
        /\ wait' \in [Procs -> Questions \cup {None}]
        /\ wait'[Client] = [to |-> a, msg |-> m]
        /\ \A d \in Procs : d # Client => wait'[d] = wait[d]
    BY <1>1, <1>4, AskEffect DEF IndInv
  <1>6. mgmt' \in [Procs -> [Actors -> Seq(Messages)]]
    BY <1>4, <1>5, SendEffect DEF IndInv
  <1>7. TypeOK'
    BY <1>1, <1>2, <1>5, <1>6 DEF IndInv, TypeOK
  <1>8. WorkerInv'
    BY <1>1, <1>5, ProgramWorkers
  <1>9. Owing'
    BY <1>1, <1>4, AskOwing
  <1>10. KeyInv'
    <2>. SUFFICES ASSUME NEW b \in Actors
                  PROVE  nextKey[b] = Len(calls[b]) /\ nextKey[b] < ncalls'
      BY <1>1, <1>2 DEF KeyInv
    <2>1. nextKey[b] = Len(calls[b]) /\ nextKey[b] <= ncalls /\ nextKey[b] \in 0..MaxCalls
      BY DEF IndInv, KeyInv, TypeOK
    <2>. QED
      BY <1>1, <1>2, <2>1
  <1>11. ResultsInv'
    BY <1>1, <1>4, <1>5, SendResults
  <1>12. ValueInv'
    BY <1>1, <1>11, SameValues DEF ValueInv
  <1>13. HoldsInv'
    <2>1. wait'[Client].msg.type = "CALL"
      BY <1>4, <1>5
    <2>2. \A f \in FutureRefs : data'[f] # None => ticketOf'[f] # None
      BY <1>1 DEF IndInv, HoldsInv
    <2>. QED
      BY <2>1, <2>2 DEF HoldsInv
  <1>14. RepliesMatch'
    BY <1>1, <1>4, AskReplies
  <1>15. AnswersMatch'
    BY <1>1, <1>14, SameValues DEF AnswersMatch
  <1>. QED
    BY <1>7, <1>8, <1>9, <1>10, <1>12, <1>13, <1>15 DEF IndInv, Owing

\* GetFuture preserves the invariant.
LEMMA GetFutureInv ==
    ASSUME IndInv, NEW f \in FutureRefs, GetFuture(f)
    PROVE  IndInv'
  <1>. DEFINE m == [type |-> "GET", key |-> f.key]
              a == f.at
  <1>1. /\ wait[Client] = None /\ ticketOf[f] # None
        /\ Ask(Client, a, m)
        /\ reply' = reply /\ nextKey' = nextKey /\ queue' = queue /\ store' = store
        /\ pending' = pending /\ askedDelete' = askedDelete /\ worker' = worker /\ ncalls' = ncalls
        /\ ticketOf' = ticketOf /\ data' = data /\ released' = released /\ calls' = calls
    BY DEF GetFuture, ProgramRunning, Holds, tables, program
  <1>2. a \in Actors /\ f.key \in Keys /\ f = [at |-> a, key |-> f.key]
    BY DEF FutureRefs
  <1>4. Client \in Procs /\ m.type = "GET" /\ m.key = f.key /\ m \in CallMsgs \cup GetMsgs
    BY <1>2 DEF Procs, GetMsgs
  <1>. HIDE DEF m, a
  <1>5. /\ Send(Client, a, m) /\ m \in Messages /\ IsQuestion(m)
        /\ wait' \in [Procs -> Questions \cup {None}]
        /\ wait'[Client] = [to |-> a, msg |-> m]
        /\ \A d \in Procs : d # Client => wait'[d] = wait[d]
    BY <1>1, <1>2, <1>4, AskEffect DEF IndInv
  <1>6. mgmt' \in [Procs -> [Actors -> Seq(Messages)]]
    BY <1>2, <1>4, <1>5, SendEffect DEF IndInv
  <1>7. TypeOK'
    BY <1>1, <1>5, <1>6 DEF IndInv, TypeOK
  <1>8. WorkerInv'
    BY <1>1, <1>5, ProgramWorkers
  <1>9. Owing'
    BY <1>1, <1>2, <1>4, AskOwing
  <1>10. KeyInv'
    <2>1. wait'[Client].msg.type = "GET"
      BY <1>4, <1>5
    <2>. QED
      BY <1>1, <2>1 DEF IndInv, KeyInv
  <1>11. ResultsInv'
    BY <1>1, <1>2, <1>4, <1>5, SendResults
  <1>12. ValueInv'
    BY <1>1, <1>11, SameValues DEF ValueInv
  <1>13. HoldsInv'
    <2>1. f = [at |-> wait'[Client].to, key |-> wait'[Client].msg.key]
      BY <1>2, <1>4, <1>5
    <2>2. ticketOf'[f] # None /\ \A g \in FutureRefs : data'[g] # None => ticketOf'[g] # None
      BY <1>1 DEF IndInv, HoldsInv
    <2>. QED
      BY <2>1, <2>2 DEF HoldsInv
  <1>14. RepliesMatch'
    BY <1>1, <1>2, <1>4, AskReplies
  <1>15. AnswersMatch'
    BY <1>1, <1>14, SameValues DEF AnswersMatch
  <1>. QED
    BY <1>7, <1>8, <1>9, <1>10, <1>12, <1>13, <1>15 DEF IndInv, Owing

\* ReceiveKey preserves the invariant.
LEMMA ReceiveKeyInv ==
    ASSUME IndInv, ReceiveKey
    PROVE  IndInv'
  <1>. DEFINE a == wait[Client].to
              k == Answer(Client)
              f == [at |-> a, key |-> k]
              t == wait[Client].msg.ticket
  <1>1. /\ wait[Client] # None /\ wait[Client].msg.type = "CALL"
        /\ TakeAnswer(Client)
        /\ ticketOf' = [ticketOf EXCEPT ![f] = t]
        /\ mgmt' = mgmt /\ nextKey' = nextKey /\ queue' = queue /\ store' = store
        /\ pending' = pending /\ askedDelete' = askedDelete /\ worker' = worker /\ ncalls' = ncalls
        /\ data' = data /\ released' = released /\ calls' = calls
    BY DEF ReceiveKey, tables
  <1>2. Client \in Procs
    BY DEF Procs
  <1>3. /\ wait[Client] \in Questions
        /\ reply' \in [Actors -> [Procs -> Seq(Replies)]]
        /\ wait' \in [Procs -> Questions \cup {None}]
        /\ wait'[Client] = None
        /\ \A d \in Procs : d # Client => wait'[d] = wait[d]
    BY <1>1, <1>2, TakeAnswerEffect
  <1>4. k \in Keys /\ k < Len(calls[a]) /\ calls[a][k + 1] = wait[Client].msg
    BY <1>1, <1>2, AnswerIsRight
  <1>5. a \in Actors /\ wait[Client].msg \in CallMsgs
    BY <1>1, <1>3 DEF Questions, GetMsgs
  <1>6. t \in Tickets /\ f \in FutureRefs /\ t # None
    BY <1>4, <1>5 DEF CallMsgs, FutureRefs, Values
  <1>7. calls[f.at][f.key + 1].ticket = t /\ f.key < Len(calls[f.at])
    BY <1>4
  <1>. HIDE DEF f, t
  <1>8. /\ ticketOf' \in [FutureRefs -> Tickets \cup {None}]
        /\ ticketOf'[f] = t
        /\ \A g \in FutureRefs : g # f => ticketOf'[g] = ticketOf[g]
    BY <1>1, <1>6 DEF IndInv, TypeOK
  <1>9. TypeOK'
    BY <1>1, <1>3, <1>8 DEF IndInv, TypeOK
  <1>10. WorkerInv'
    BY <1>1, <1>3, ProgramWorkers
  <1>11. Owing'
    BY <1>1, <1>2, TakeAnswerOwing
  <1>12. KeyInv'
    <2>1. \A b \in Actors : ~InChannel(Client, b)'
      <3>1. \A b \in Actors : ~InChannel(Client, b)
        BY <1>1, <1>2, TakeAnswerEffect
      <3>. QED
        BY <1>1, <3>1 DEF InChannel, IsQuestion
    <2>. QED
      BY <1>1, <2>1 DEF IndInv, KeyInv
  <1>13. TicketInv'
    <2>. SUFFICES ASSUME NEW g \in FutureRefs, ticketOf'[g] # None
                  PROVE  g.key < Len(calls[g.at]) /\ calls[g.at][g.key + 1].ticket = ticketOf'[g]
      BY <1>1 DEF TicketInv
    <2>1. CASE g = f
      BY <1>7, <1>8, <2>1
    <2>2. CASE g # f
      BY <1>8, <2>2 DEF IndInv, ValueInv, TicketInv
    <2>. QED
      BY <2>1, <2>2
  <1>14. ValueInv'
    BY <1>1, <1>13, SameValues DEF ValueInv
  <1>15. HoldsInv'
    BY <1>1, <1>3, <1>6, <1>8 DEF IndInv, HoldsInv
  <1>16. RepliesMatch'
    BY <1>1, <1>2, TakeAnswerReplies
  <1>17. DataMatch'
    <2>. SUFFICES ASSUME NEW g \in FutureRefs, data[g] # None
                  PROVE  /\ g.key < Len(calls[g.at])
                         /\ calls[g.at][g.key + 1].ticket = ticketOf'[g]
                         /\ data[g] = ResultOf(calls[g.at][g.key + 1])
      BY <1>1 DEF DataMatch
    <2>1. CASE g = f
      BY <1>7, <1>8, <2>1 DEF IndInv, AnswersMatch, DataMatch
    <2>2. CASE g # f
      BY <1>8, <2>2 DEF IndInv, AnswersMatch, DataMatch
    <2>. QED
      BY <2>1, <2>2
  <1>18. AnswersMatch'
    BY <1>1, <1>16, <1>17, SameValues DEF AnswersMatch
  <1>. QED
    BY <1>9, <1>10, <1>11, <1>12, <1>14, <1>15, <1>18 DEF IndInv, Owing

\* ReceiveData preserves the invariant.
LEMMA ReceiveDataInv ==
    ASSUME IndInv, ReceiveData
    PROVE  IndInv'
  <1>. DEFINE a == wait[Client].to
              k == wait[Client].msg.key
              f == [at |-> a, key |-> k]
              v == Answer(Client)
  <1>1. /\ wait[Client] # None /\ wait[Client].msg.type = "GET"
        /\ TakeAnswer(Client)
        /\ data' = [data EXCEPT ![f] = v]
        /\ mgmt' = mgmt /\ nextKey' = nextKey /\ queue' = queue /\ store' = store
        /\ pending' = pending /\ askedDelete' = askedDelete /\ worker' = worker /\ ncalls' = ncalls
        /\ ticketOf' = ticketOf /\ released' = released /\ calls' = calls
    BY DEF ReceiveData, tables
  <1>2. Client \in Procs
    BY DEF Procs
  <1>3. /\ wait[Client] \in Questions
        /\ reply' \in [Actors -> [Procs -> Seq(Replies)]]
        /\ wait' \in [Procs -> Questions \cup {None}]
        /\ wait'[Client] = None
        /\ \A d \in Procs : d # Client => wait'[d] = wait[d]
    BY <1>1, <1>2, TakeAnswerEffect
  <1>4. v \in Values /\ k < Len(calls[a]) /\ v = ResultOf(calls[a][k + 1])
    BY <1>1, <1>2, AnswerIsRight
  <1>5. a \in Actors /\ wait[Client].msg \in GetMsgs
    BY <1>1, <1>3 DEF Questions, CallMsgs
  <1>6. f \in FutureRefs
    BY <1>5 DEF GetMsgs, FutureRefs
  <1>7. /\ f.key < Len(calls[f.at]) /\ v = ResultOf(calls[f.at][f.key + 1])
        /\ ticketOf[f] # None
    BY SMTT(20), <1>1, <1>4 DEF IndInv, HoldsInv
  <1>. HIDE DEF f, v
  <1>8. /\ data' \in [FutureRefs -> Values \cup {None}]
        /\ data'[f] = v
        /\ \A g \in FutureRefs : g # f => data'[g] = data[g]
    BY <1>1, <1>4, <1>6 DEF IndInv, TypeOK
  <1>9. TypeOK'
    BY <1>1, <1>3, <1>8 DEF IndInv, TypeOK
  <1>10. WorkerInv'
    BY <1>1, <1>3, ProgramWorkers
  <1>11. Owing'
    BY <1>1, <1>2, TakeAnswerOwing
  <1>12. KeyInv'
    <2>1. \A b \in Actors : ~InChannel(Client, b)'
      <3>1. \A b \in Actors : ~InChannel(Client, b)
        BY <1>1, <1>2, TakeAnswerEffect
      <3>. QED
        BY <1>1, <3>1 DEF InChannel, IsQuestion
    <2>. QED
      BY <1>1, <2>1 DEF IndInv, KeyInv
  <1>14. ValueInv'
    BY <1>1, SameValues DEF ValueInv
  <1>15. HoldsInv'
    BY <1>1, <1>3, <1>7, <1>8 DEF IndInv, HoldsInv
  <1>16. RepliesMatch'
    BY <1>1, <1>2, TakeAnswerReplies
  <1>17. DataMatch'
    <2>. SUFFICES ASSUME NEW g \in FutureRefs, data'[g] # None
                  PROVE  /\ g.key < Len(calls[g.at])
                         /\ calls[g.at][g.key + 1].ticket = ticketOf[g]
                         /\ data'[g] = ResultOf(calls[g.at][g.key + 1])
      BY <1>1 DEF DataMatch
    <2>1. CASE g = f
      BY <1>6, <1>7, <1>8, <2>1 DEF IndInv, ValueInv, TicketInv
    <2>2. CASE g # f
      BY <1>8, <2>2 DEF IndInv, AnswersMatch, DataMatch
    <2>. QED
      BY <2>1, <2>2
  <1>18. AnswersMatch'
    BY <1>1, <1>16, <1>17, SameValues DEF AnswersMatch
  <1>. QED
    BY <1>9, <1>10, <1>11, <1>12, <1>14, <1>15, <1>18 DEF IndInv, Owing

\* ReleaseFuture preserves the invariant.
LEMMA ReleaseFutureInv ==
    ASSUME IndInv, NEW f \in FutureRefs, ReleaseFuture(f)
    PROVE  IndInv'
  <1>. DEFINE m == [type |-> "RELEASE", key |-> f.key]
              a == f.at
  <1>1. /\ wait[Client] = None
        /\ Send(Client, a, m)
        /\ released' = released \cup {<<Client, f>>}
        /\ reply' = reply /\ wait' = wait /\ nextKey' = nextKey /\ queue' = queue /\ store' = store
        /\ pending' = pending /\ askedDelete' = askedDelete /\ worker' = worker /\ ncalls' = ncalls
        /\ ticketOf' = ticketOf /\ data' = data /\ calls' = calls
    BY DEF ReleaseFuture, ProgramRunning, tables, program
  <1>2. a \in Actors /\ f.key \in Keys
    BY DEF FutureRefs
  <1>3. /\ Client \in Procs /\ m \in Messages /\ ~IsQuestion(m) /\ m.type = "RELEASE"
    BY <1>2 DEF Procs, ReleaseMsgs, Messages, IsQuestion
  <1>. HIDE DEF m, a
  <1>4. /\ mgmt' \in [Procs -> [Actors -> Seq(Messages)]]
        /\ InChannel(Client, a)' <=> IsQuestion(m)
        /\ \A d \in Procs, b \in Actors : ~(d = Client /\ b = a) => (InChannel(d, b)' <=> InChannel(d, b))
    BY <1>1, <1>2, <1>3, SendEffect DEF IndInv
  <1>5. TypeOK'
    <2>1. released' \subseteq Procs \X FutureRefs
      BY <1>1, <1>3 DEF IndInv, TypeOK
    <2>. QED
      BY <1>1, <1>4, <2>1 DEF IndInv, TypeOK
  <1>6. WorkerInv'
    BY <1>1, ProgramWorkers
  <1>7. Owing'
    BY <1>1, <1>2, <1>3, SendOwing
  <1>8. KeyInv'
    BY <1>1, <1>3, <1>4 DEF IndInv, KeyInv
  <1>9. ResultsInv'
    BY <1>1, <1>2, <1>3, SendResults
  <1>10. ValueInv'
    BY <1>1, <1>9, SameValues DEF ValueInv
  <1>11. HoldsInv'
    BY <1>1 DEF IndInv, HoldsInv
  <1>12. AnswersMatch'
    BY <1>1, SameValues DEF AnswersMatch
  <1>. QED
    BY <1>5, <1>6, <1>7, <1>8, <1>10, <1>11, <1>12 DEF IndInv, Owing

-----------------------------------------------------------------------------
(***************************************************************************)
(* The steps of the management threads.                                    *)
(***************************************************************************)

\* Accepting a call gives the next key to it and leaves the earlier calls.
LEMMA CallsGrow ==
    ASSUME IndInv, NEW a \in Actors, NEW m \in CallMsgs, calls' = [calls EXCEPT ![a] = Append(@, m)]
    PROVE  /\ calls' \in [Actors -> Seq(CallMsgs)]
           /\ Len(calls[a]) \in Nat
           /\ Len(calls'[a]) = Len(calls[a]) + 1
           /\ calls'[a][Len(calls[a]) + 1] = m
           /\ \A b \in Actors : b # a => calls'[b] = calls[b]
           /\ \A b \in Actors, k \in Keys : k < Len(calls[b]) =>
                k < Len(calls'[b]) /\ calls'[b][k + 1] = calls[b][k + 1]
  <1>1. /\ calls'[a] = Append(calls[a], m)
        /\ \A b \in Actors : b # a => calls'[b] = calls[b]
    BY DEF IndInv, TypeOK
  <1>2. calls[a] \in Seq(CallMsgs)
    BY DEF IndInv, TypeOK
  <1>3. /\ Append(calls[a], m) \in Seq(CallMsgs)
        /\ Len(calls[a]) \in Nat
        /\ Len(calls'[a]) = Len(calls[a]) + 1
        /\ calls'[a][Len(calls[a]) + 1] = m
        /\ \A i \in 1..Len(calls[a]) : calls'[a][i] = calls[a][i]
    BY <1>1, <1>2, AppendFacts
  <1>4. calls' \in [Actors -> Seq(CallMsgs)]
    BY <1>3 DEF IndInv, TypeOK
  <1>5. \A k \in Keys : k < Len(calls[a]) =>
            k < Len(calls'[a]) /\ calls'[a][k + 1] = calls[a][k + 1]
    BY <1>3 DEF Keys
  <1>6. \A b \in Actors, k \in Keys : k < Len(calls[b]) =>
            k < Len(calls'[b]) /\ calls'[b][k + 1] = calls[b][k + 1]
    BY <1>1, <1>5
  <1>. QED
    BY <1>1, <1>3, <1>4, <1>6

\* The facts that a call is known by stay true when other calls are accepted.
LEMMA CallsGrowValues ==
    ASSUME IndInv, NEW a \in Actors, NEW m \in CallMsgs, calls' = [calls EXCEPT ![a] = Append(@, m)],
           UNCHANGED <<worker, store, ticketOf, data>>
    PROVE  RunningInv' /\ StoreInv' /\ TicketInv' /\ DataMatch' /\ GotMatch'
  <1>1. \A b \in Actors, k \in Keys : k < Len(calls[b]) =>
            k < Len(calls'[b]) /\ calls'[b][k + 1] = calls[b][k + 1]
    BY CallsGrow
  <1>2. worker' = worker /\ store' = store /\ ticketOf' = ticketOf /\ data' = data
    OBVIOUS
  <1>3. RunningInv'
    <2>. SUFFICES ASSUME NEW b \in Actors, worker[b].pc # "idle"
                  PROVE  /\ worker[b].req.key < Len(calls'[b])
                         /\ calls'[b][worker[b].req.key + 1] = worker[b].req.msg
      BY <1>2 DEF RunningInv, IsCall
    <2>1. worker[b].req \in Requests
      BY DEF IndInv, WorkerInv, TypeOK, WorkerStates
    <2>2. worker[b].req.key \in Keys
      BY <2>1 DEF Requests
    <2>. QED
      BY <1>1, <2>2 DEF IndInv, ValueInv, RunningInv, IsCall
  <1>4. StoreInv'
    BY ZenonT(40), <1>1, <1>2 DEF IndInv, ValueInv, StoreInv, IsResult
  <1>5. \A f \in FutureRefs : f.at \in Actors /\ f.key \in Keys
    BY DEF FutureRefs
  <1>6. TicketInv'
    BY <1>1, <1>2, <1>5 DEF IndInv, ValueInv, TicketInv
  <1>7. DataMatch'
    BY <1>1, <1>2, <1>5 DEF IndInv, AnswersMatch, DataMatch
  <1>8. GotMatch'
    <2>. SUFFICES ASSUME NEW b \in Actors, worker[b].got # None, NEW f, f = worker[b].req.msg.arg
                  PROVE  /\ f.key < Len(calls'[f.at])
                         /\ worker[b].got = ResultOf(calls'[f.at][f.key + 1])
      BY <1>2 DEF GotMatch
    <2>1. worker[b].pc \in {"got", "released"}
      BY DEF IndInv, WorkerInv
    <2>2. worker[b].req \in Requests /\ worker[b].req.msg.kind \in UsesFuture
      BY <2>1 DEF IndInv, WorkerInv, TypeOK, WorkerStates
    <2>3. f \in FutureRefs
      BY <2>2 DEF Requests, CallMsgs
    <2>4. f.key < Len(calls[f.at]) /\ worker[b].got = ResultOf(calls[f.at][f.key + 1])
      BY SMTT(20) DEF IndInv, AnswersMatch, GotMatch
    <2>5. f.key < Len(calls'[f.at]) /\ calls'[f.at][f.key + 1] = calls[f.at][f.key + 1]
      BY <1>1, <1>5, <2>3, <2>4
    <2>. QED
      BY <2>4, <2>5
  <1>. QED
    BY <1>3, <1>4, <1>6, <1>7, <1>8

\* HandleCall preserves the invariant.
LEMMA HandleCallInv ==
    ASSUME IndInv, NEW a \in Actors, NEW c \in Procs, HandleCall(a, c)
    PROVE  IndInv'
  <1>. DEFINE m == Head(mgmt[c][a])
              k == nextKey[a]
              r == [type |-> "KEY", value |-> k]
              req == [key |-> k, msg |-> m]
  <1>1. /\ Receive(a, c, "CALL")
        /\ nextKey' = [nextKey EXCEPT ![a] = @ + 1]
        /\ queue' = [queue EXCEPT ![a] = Append(@, req)]
        /\ reply' = [reply EXCEPT ![a][c] = Append(@, r)]
        /\ calls' = [calls EXCEPT ![a] = Append(@, m)]
        /\ wait' = wait /\ store' = store /\ pending' = pending /\ askedDelete' = askedDelete
        /\ worker' = worker /\ ncalls' = ncalls /\ ticketOf' = ticketOf /\ data' = data
        /\ released' = released
    BY DEF HandleCall, TakeKey, ResponseCode, tables, program
  <1>2. /\ mgmt' \in [Procs -> [Actors -> Seq(Messages)]]
        /\ m \in Messages /\ m.type = "CALL" /\ m = mgmt[c][a][1]
        /\ Len(mgmt[c][a]) \in Nat /\ Len(mgmt[c][a]) >= 1
    BY <1>1, ReceiveEffect DEF IndInv
  <1>3. m \in CallMsgs
    BY <1>2, MessageTypes
  <1>4. "CALL" \in QuestionTypes
    BY DEF QuestionTypes
  <1>5. /\ wait[c] = [to |-> a, msg |-> m] /\ wait[c] # None /\ wait[c].to = a /\ wait[c].msg = m
        /\ InChannel(c, a)
        /\ \A b \in Actors : ~InChannel(c, b)'
    BY <1>1, <1>4, ReceiveQuestion
  <1>6. c = Client
    <2>1. 1 \in 1..Len(mgmt[c][a]) /\ mgmt[c][a][1].type = "CALL"
      BY <1>2
    <2>2. \A i \in 1..Len(mgmt[c][a]) : mgmt[c][a][i].type = "CALL" => c = Client
      <3>1. ChannelInv
        BY DEF IndInv
      <3>. QED
        BY <3>1, Zenon DEF ChannelInv
    <2>. QED
      BY <2>1, <2>2
  <1>7. k = Len(calls[a]) /\ k < ncalls /\ k \in Nat /\ ncalls \in 0..MaxCalls
    BY <1>2, <1>5, <1>6 DEF IndInv, KeyInv, TypeOK
  <1>8. k \in Keys /\ k + 1 \in 0..MaxCalls
    BY <1>7 DEF Keys
  <1>9. r \in Replies /\ req \in Requests /\ req.key = k /\ req.msg = m /\ r.type = "KEY" /\ r.value = k
    BY <1>3, <1>8 DEF Replies, Requests
  <1>. HIDE DEF m, k, r, req
  <1>10. /\ Owing'
         /\ reply' \in [Actors -> [Procs -> Seq(Replies)]]
         /\ reply'[a][c] = <<r>>
         /\ \A b \in Actors, d \in Procs : ~(b = a /\ d = c) => reply'[b][d] = reply[b][d]
    BY <1>1, <1>4, <1>9, AnswerOwing
  <1>11. /\ calls' \in [Actors -> Seq(CallMsgs)]
         /\ Len(calls'[a]) = Len(calls[a]) + 1
         /\ calls'[a][Len(calls[a]) + 1] = m
         /\ \A b \in Actors : b # a => calls'[b] = calls[b]
         /\ \A b \in Actors, j \in Keys : j < Len(calls[b]) =>
              j < Len(calls'[b]) /\ calls'[b][j + 1] = calls[b][j + 1]
    BY <1>1, <1>3, CallsGrow
  <1>12. /\ queue' \in [Actors -> Seq(Requests)]
         /\ Len(queue[a]) \in Nat
         /\ Len(queue'[a]) = Len(queue[a]) + 1
         /\ queue'[a][Len(queue[a]) + 1] = req
         /\ \A i \in 1..Len(queue[a]) : queue'[a][i] = queue[a][i]
         /\ \A b \in Actors : b # a => queue'[b] = queue[b]
    <2>1. queue[a] \in Seq(Requests)
      BY DEF IndInv, TypeOK
    <2>2. queue'[a] = Append(queue[a], req) /\ \A b \in Actors : b # a => queue'[b] = queue[b]
      BY <1>1 DEF IndInv, TypeOK
    <2>3. /\ Append(queue[a], req) \in Seq(Requests)
          /\ Len(queue[a]) \in Nat
          /\ Len(queue'[a]) = Len(queue[a]) + 1
          /\ queue'[a][Len(queue[a]) + 1] = req
          /\ \A i \in 1..Len(queue[a]) : queue'[a][i] = queue[a][i]
      BY <1>9, <2>1, <2>2, AppendFacts
    <2>. QED
      BY <1>1, <2>2, <2>3 DEF IndInv, TypeOK
  <1>13. /\ nextKey' \in [Actors -> 0..MaxCalls]
         /\ nextKey'[a] = k + 1
         /\ \A b \in Actors : b # a => nextKey'[b] = nextKey[b]
    BY <1>1, <1>8 DEF IndInv, TypeOK, k
  <1>14. TypeOK'
    BY <1>1, <1>2, <1>10, <1>11, <1>12, <1>13 DEF IndInv, TypeOK
  <1>15. WorkerInv'
    BY <1>1 DEF IndInv, WorkerInv
  <1>16. KeyInv'
    <2>. SUFFICES ASSUME NEW b \in Actors
                  PROVE  nextKey'[b] = Len(calls'[b]) /\ nextKey'[b] <= ncalls
      BY <1>1, <1>5, <1>6 DEF KeyInv
    <2>1. CASE b = a
      BY <1>7, <1>11, <1>13, <2>1
    <2>2. CASE b # a
      BY <1>11, <1>13, <2>2 DEF IndInv, KeyInv
    <2>. QED
      BY <2>1, <2>2
  <1>17. QueueInv'
    <2>. SUFFICES ASSUME NEW b \in Actors, NEW i \in 1..Len(queue'[b])
                  PROVE  /\ queue'[b][i].key < Len(calls'[b])
                         /\ calls'[b][queue'[b][i].key + 1] = queue'[b][i].msg
      BY DEF QueueInv, IsCall
    <2>1. CASE b = a /\ i = Len(queue[a]) + 1
      <3>1. queue'[b][i] = req
        BY <1>12, <2>1
      <3>. QED
        BY <1>7, <1>9, <1>11, <2>1, <3>1
    <2>2. CASE ~(b = a /\ i = Len(queue[a]) + 1)
      <3>1. i \in 1..Len(queue[b]) /\ queue'[b][i] = queue[b][i]
        BY <1>12, <2>2
      <3>2. queue[b][i] \in Requests
        BY <3>1 DEF IndInv, TypeOK
      <3>3. queue[b][i].key \in Keys
        BY <3>2 DEF Requests
      <3>4. queue[b][i].key < Len(calls[b]) /\ calls[b][queue[b][i].key + 1] = queue[b][i].msg
        BY <3>1 DEF IndInv, ValueInv, QueueInv, IsCall
      <3>. QED
        BY <1>11, <3>1, <3>3, <3>4
    <2>. QED
      BY <2>1, <2>2
  <1>18. ResultsInv'
    <2>. SUFFICES ASSUME NEW d \in Procs, NEW b \in Actors, NEW i \in 1..Len(mgmt'[d][b]),
                         mgmt'[d][b][i].type = "REGISTER"
                  PROVE  /\ mgmt'[d][b][i].key < Len(calls'[b])
                         /\ mgmt'[d][b][i].value = ResultOf(calls'[b][mgmt'[d][b][i].key + 1])
      BY DEF ResultsInv, IsResult
    <2>1. /\ mgmt'[d][b][i] \in Messages
          /\ mgmt'[d][b][i].key < Len(calls[b])
          /\ mgmt'[d][b][i].value = ResultOf(calls[b][mgmt'[d][b][i].key + 1])
      BY <1>1, ReceiveResults
    <2>2. mgmt'[d][b][i].key \in Keys
      BY <2>1, MessageTypes DEF RegisterMsgs
    <2>3. /\ mgmt'[d][b][i].key < Len(calls'[b])
          /\ calls'[b][mgmt'[d][b][i].key + 1] = calls[b][mgmt'[d][b][i].key + 1]
      BY <1>11, <2>1, <2>2
    <2>. QED
      BY <2>1, <2>3
  <1>19. RunningInv' /\ StoreInv' /\ TicketInv' /\ DataMatch' /\ GotMatch'
    BY <1>1, <1>3, CallsGrowValues
  <1>20. HoldsInv'
    BY <1>1 DEF IndInv, HoldsInv
  <1>21. RepliesMatch'
    <2>0. wait' = wait
      BY <1>1
    <2>. SUFFICES ASSUME NEW d \in Procs, NEW b \in Actors, NEW i \in 1..Len(reply'[b][d])
                  PROVE  /\ wait[d] # None
                         /\ wait[d].msg.type = "CALL" =>
                              /\ reply'[b][d][i].type = "KEY"
                              /\ reply'[b][d][i].value < Len(calls'[b])
                              /\ calls'[b][reply'[b][d][i].value + 1] = wait[d].msg
                         /\ wait[d].msg.type = "GET" =>
                              /\ reply'[b][d][i].type = "DATA"
                              /\ wait[d].msg.key < Len(calls'[b])
                              /\ reply'[b][d][i].value = ResultOf(calls'[b][wait[d].msg.key + 1])
      BY <2>0 DEF RepliesMatch
    <2>. DEFINE p == reply'[b][d][i]
                q == wait[d].msg
    <2>1. CASE b = a /\ d = c
      <3>1. Len(<<r>>) = 1 /\ <<r>>[1] = r
        BY <1>9, AppendEmpty
      <3>2. p = r
        BY <1>10, <2>1, <3>1
      <3>3. k < Len(calls'[a]) /\ calls'[a][k + 1] = m
        BY <1>7, <1>11
      <3>. QED
        BY <1>2, <1>5, <1>9, <2>1, <3>2, <3>3
    <2>2. CASE ~(b = a /\ d = c)
      <3>1. reply'[b][d] = reply[b][d]
        BY <1>10, <2>2
      <3>2. p \in Replies
        BY SMTT(20), <3>1 DEF IndInv, TypeOK
      <3>3. /\ wait[d] # None
            /\ q.type = "CALL" =>
                 p.type = "KEY" /\ p.value < Len(calls[b]) /\ calls[b][p.value + 1] = q
            /\ q.type = "GET" =>
                 /\ p.type = "DATA" /\ q.key < Len(calls[b])
                 /\ p.value = ResultOf(calls[b][q.key + 1])
        BY <3>1 DEF IndInv, AnswersMatch, RepliesMatch
      <3>4. p.type = "KEY" => p.value \in Keys
        BY <3>2 DEF Replies
      <3>5. wait[d] \in Questions
        BY <3>3 DEF IndInv, TypeOK
      <3>6. q.type = "GET" => q.key \in Keys
        BY <3>5 DEF Questions, CallMsgs, GetMsgs
      <3>. QED
        BY <1>11, <3>3, <3>4, <3>6
    <2>. QED
      BY <2>1, <2>2
  <1>. QED
    BY <1>10, <1>14, <1>15, <1>16, <1>17, <1>18, <1>19, <1>20, <1>21
       DEF IndInv, Owing, ValueInv, AnswersMatch

\* What the other messages of the management thread do not touch.
LEMMA ServerSame ==
    ASSUME IndInv, NEW a \in Actors, NEW c \in Procs, NEW t, Receive(a, c, t),
           UNCHANGED <<wait, nextKey, queue, worker, ncalls, ticketOf, data, released, calls>>
    PROVE  /\ WorkerInv' /\ KeyInv' /\ HoldsInv'
           /\ QueueInv' /\ RunningInv' /\ ResultsInv' /\ TicketInv' /\ DataMatch' /\ GotMatch'
           /\ mgmt' \in [Procs -> [Actors -> Seq(Messages)]]
  <1>1. /\ wait' = wait /\ nextKey' = nextKey /\ queue' = queue /\ worker' = worker /\ ncalls' = ncalls
        /\ ticketOf' = ticketOf /\ data' = data /\ released' = released /\ calls' = calls
    OBVIOUS
  <1>2. WorkerInv'
    BY <1>1 DEF IndInv, WorkerInv
  <1>3. KeyInv'
    <2>1. \A b \in Actors : InChannel(Client, b)' => InChannel(Client, b)
      <3>1. /\ \A d \in Procs, b \in Actors :
                 ~(d = c /\ b = a) => (InChannel(d, b)' <=> InChannel(d, b))
            /\ InChannel(c, a)' => InChannel(c, a)
        BY ReceiveEffect DEF IndInv
      <3>2. Client \in Procs
        BY DEF Procs
      <3>. QED
        BY <3>1, <3>2
    <2>. QED
      BY <1>1, <2>1 DEF IndInv, KeyInv
  <1>4. HoldsInv'
    BY <1>1 DEF IndInv, HoldsInv
  <1>5. ResultsInv'
    BY <1>1, ReceiveResults DEF ResultsInv, IsResult
  <1>6. QueueInv' /\ RunningInv' /\ TicketInv' /\ DataMatch' /\ GotMatch'
    BY <1>1, SameValues
  <1>7. mgmt' \in [Procs -> [Actors -> Seq(Messages)]]
    BY ReceiveEffect DEF IndInv
  <1>. QED
    BY <1>2, <1>3, <1>4, <1>5, <1>6, <1>7

\* ServeGet preserves the invariant.
LEMMA ServeGetInv ==
    ASSUME IndInv, NEW a \in Actors, NEW c \in Procs, ServeGet(a, c)
    PROVE  IndInv'
  <1>. DEFINE m == Head(mgmt[c][a])
              k == m.key
              v == store[a][k]
              r == [type |-> "DATA", value |-> v]
  <1>1. /\ Receive(a, c, "GET") /\ v # None
        /\ reply' = [reply EXCEPT ![a][c] = Append(@, r)]
        /\ wait' = wait /\ nextKey' = nextKey /\ queue' = queue /\ store' = store /\ pending' = pending
        /\ askedDelete' = askedDelete /\ worker' = worker /\ ncalls' = ncalls
        /\ ticketOf' = ticketOf /\ data' = data /\ released' = released /\ calls' = calls
    BY DEF ServeGet, tables, program
  <1>2. m \in Messages /\ m.type = "GET"
    BY <1>1, ReceiveEffect DEF IndInv
  <1>3. k \in Keys
    BY <1>2, MessageTypes DEF GetMsgs
  <1>4. v \in Values /\ k < Len(calls[a]) /\ v = ResultOf(calls[a][k + 1])
    BY <1>1, <1>3 DEF IndInv, TypeOK, ValueInv, StoreInv, IsResult
  <1>5. "GET" \in QuestionTypes
    BY DEF QuestionTypes
  <1>6. wait[c] # None /\ wait[c].msg = m
    BY <1>1, <1>5, ReceiveQuestion
  <1>7. r \in Replies /\ r.type = "DATA" /\ r.value = v
    BY <1>4 DEF Replies
  <1>. HIDE DEF m, v, r
  <1>8. /\ Owing'
        /\ reply' \in [Actors -> [Procs -> Seq(Replies)]]
        /\ reply'[a][c] = <<r>>
        /\ \A b \in Actors, d \in Procs : ~(b = a /\ d = c) => reply'[b][d] = reply[b][d]
    BY <1>1, <1>5, <1>7, AnswerOwing
  <1>9. /\ WorkerInv' /\ KeyInv' /\ HoldsInv'
        /\ QueueInv' /\ RunningInv' /\ ResultsInv' /\ TicketInv' /\ DataMatch' /\ GotMatch'
        /\ mgmt' \in [Procs -> [Actors -> Seq(Messages)]]
    BY <1>1, ServerSame
  <1>10. TypeOK'
    BY <1>1, <1>8, <1>9 DEF IndInv, TypeOK
  <1>11. StoreInv'
    BY <1>1, SameValues
  <1>12. RepliesMatch'
    <2>0. wait' = wait /\ calls' = calls
      BY <1>1
    <2>. SUFFICES ASSUME NEW d \in Procs, NEW b \in Actors, NEW i \in 1..Len(reply'[b][d])
                  PROVE  /\ wait[d] # None
                         /\ wait[d].msg.type = "CALL" =>
                              /\ reply'[b][d][i].type = "KEY"
                              /\ reply'[b][d][i].value < Len(calls[b])
                              /\ calls[b][reply'[b][d][i].value + 1] = wait[d].msg
                         /\ wait[d].msg.type = "GET" =>
                              /\ reply'[b][d][i].type = "DATA"
                              /\ wait[d].msg.key < Len(calls[b])
                              /\ reply'[b][d][i].value = ResultOf(calls[b][wait[d].msg.key + 1])
      BY <2>0 DEF RepliesMatch
    <2>1. CASE b = a /\ d = c
      <3>1. Len(<<r>>) = 1 /\ <<r>>[1] = r
        BY <1>7, AppendEmpty
      <3>2. reply'[b][d][i] = r
        BY <1>8, <2>1, <3>1
      <3>. QED
        BY <1>2, <1>4, <1>6, <1>7, <2>1, <3>2
    <2>2. CASE ~(b = a /\ d = c)
      <3>1. reply'[b][d] = reply[b][d]
        BY <1>8, <2>2
      <3>. QED
        BY <3>1 DEF IndInv, AnswersMatch, RepliesMatch
    <2>. QED
      BY <2>1, <2>2
  <1>. QED
    BY <1>8, <1>9, <1>10, <1>11, <1>12 DEF IndInv, Owing, ValueInv, AnswersMatch

\* DeferGet preserves the invariant.
LEMMA DeferGetInv ==
    ASSUME IndInv, NEW a \in Actors, NEW c \in Procs, DeferGet(a, c)
    PROVE  IndInv'
  <1>1. /\ Receive(a, c, "GET")
        /\ reply' = reply /\ wait' = wait /\ nextKey' = nextKey /\ queue' = queue /\ store' = store
        /\ askedDelete' = askedDelete /\ worker' = worker /\ ncalls' = ncalls
        /\ ticketOf' = ticketOf /\ data' = data /\ released' = released /\ calls' = calls
    BY DEF DeferGet, program
  <1>2. Owing' /\ pending' \in [Actors -> [Keys -> Seq(Procs)]]
    BY DeferOwing
  <1>3. /\ WorkerInv' /\ KeyInv' /\ HoldsInv'
        /\ QueueInv' /\ RunningInv' /\ ResultsInv' /\ TicketInv' /\ DataMatch' /\ GotMatch'
        /\ mgmt' \in [Procs -> [Actors -> Seq(Messages)]]
    BY <1>1, ServerSame
  <1>4. TypeOK'
    BY <1>1, <1>2, <1>3 DEF IndInv, TypeOK
  <1>5. StoreInv' /\ RepliesMatch'
    BY <1>1, SameValues
  <1>. QED
    BY <1>2, <1>3, <1>4, <1>5 DEF IndInv, Owing, ValueInv, AnswersMatch

\* HandleRelease preserves the invariant.
LEMMA HandleReleaseInv ==
    ASSUME IndInv, NEW a \in Actors, NEW c \in Procs, HandleRelease(a, c)
    PROVE  IndInv'
  <1>. DEFINE m == Head(mgmt[c][a])
              k == m.key
  <1>1. /\ Receive(a, c, "RELEASE")
        /\ store' = [store EXCEPT ![a][k] = None]
        /\ \/ askedDelete' = askedDelete
           \/ askedDelete' = [askedDelete EXCEPT ![a] = @ \cup {k}]
        /\ reply' = reply /\ wait' = wait /\ nextKey' = nextKey /\ queue' = queue /\ pending' = pending
        /\ worker' = worker /\ ncalls' = ncalls
        /\ ticketOf' = ticketOf /\ data' = data /\ released' = released /\ calls' = calls
    BY DEF HandleRelease, program
  <1>2. m \in Messages /\ m.type = "RELEASE"
    BY <1>1, ReceiveEffect DEF IndInv
  <1>3. k \in Keys
    BY <1>2, MessageTypes DEF ReleaseMsgs
  <1>. HIDE DEF k
  <1>4. ChannelInv' /\ \A d \in Procs, b \in Actors : InChannel(d, b)' <=> InChannel(d, b)
    BY <1>1, ReceiveChannel, ReceiveQuiet
  <1>5. Owing'
    BY <1>1, <1>4, QuietOwing
  <1>6. /\ WorkerInv' /\ KeyInv' /\ HoldsInv'
        /\ QueueInv' /\ RunningInv' /\ ResultsInv' /\ TicketInv' /\ DataMatch' /\ GotMatch'
        /\ mgmt' \in [Procs -> [Actors -> Seq(Messages)]]
    BY <1>1, ServerSame
  <1>7. /\ store' \in [Actors -> [Keys -> Values \cup {None}]]
        /\ store'[a][k] = None
        /\ \A b \in Actors, j \in Keys : ~(b = a /\ j = k) => store'[b][j] = store[b][j]
    <2>1. [store[a] EXCEPT ![k] = None] \in [Keys -> Values \cup {None}]
      BY <1>3 DEF IndInv, TypeOK
    <2>. QED
      BY <1>1, <1>3, <2>1 DEF IndInv, TypeOK
  <1>8. askedDelete' \in [Actors -> SUBSET Keys]
    <2>1. askedDelete \in [Actors -> SUBSET Keys]
      BY DEF IndInv, TypeOK
    <2>2. askedDelete[a] \cup {k} \in SUBSET Keys
      BY <1>3, <2>1
    <2>. QED
      BY <1>1, <2>1, <2>2
  <1>9. TypeOK'
    BY <1>1, <1>6, <1>7, <1>8 DEF IndInv, TypeOK
  <1>10. StoreInv'
    <2>. SUFFICES ASSUME NEW b \in Actors, NEW j \in Keys, store'[b][j] # None
                  PROVE  j < Len(calls[b]) /\ store'[b][j] = ResultOf(calls[b][j + 1])
      BY <1>1 DEF StoreInv, IsResult
    <2>1. store'[b][j] = store[b][j]
      BY <1>7
    <2>. QED
      BY <2>1 DEF IndInv, ValueInv, StoreInv, IsResult
  <1>11. RepliesMatch'
    BY <1>1, SameValues
  <1>. QED
    BY <1>5, <1>6, <1>9, <1>10, <1>11 DEF IndInv, Owing, ValueInv, AnswersMatch

\* ForgetResult preserves the invariant.
LEMMA ForgetResultInv ==
    ASSUME IndInv, NEW a \in Actors, NEW c \in Procs, ForgetResult(a, c)
    PROVE  IndInv'
  <1>. DEFINE k == Head(mgmt[c][a]).key
  <1>1. /\ Receive(a, c, "REGISTER")
        /\ askedDelete' = [askedDelete EXCEPT ![a] = @ \ {k}]
        /\ reply' = reply /\ wait' = wait /\ nextKey' = nextKey /\ queue' = queue /\ pending' = pending
        /\ store' = store /\ worker' = worker /\ ncalls' = ncalls
        /\ ticketOf' = ticketOf /\ data' = data /\ released' = released /\ calls' = calls
    BY DEF ForgetResult, program
  <1>2. ChannelInv' /\ \A d \in Procs, b \in Actors : InChannel(d, b)' <=> InChannel(d, b)
    BY <1>1, ReceiveChannel, ReceiveQuiet
  <1>3. Owing'
    BY <1>1, <1>2, QuietOwing
  <1>4. /\ WorkerInv' /\ KeyInv' /\ HoldsInv'
        /\ QueueInv' /\ RunningInv' /\ ResultsInv' /\ TicketInv' /\ DataMatch' /\ GotMatch'
        /\ mgmt' \in [Procs -> [Actors -> Seq(Messages)]]
    BY <1>1, ServerSame
  <1>5. TypeOK'
    <2>1. askedDelete' \in [Actors -> SUBSET Keys]
      BY <1>1 DEF IndInv, TypeOK
    <2>. QED
      BY <1>1, <1>4, <2>1 DEF IndInv, TypeOK
  <1>6. StoreInv' /\ RepliesMatch'
    BY <1>1, SameValues
  <1>. QED
    BY <1>3, <1>4, <1>5, <1>6 DEF IndInv, Owing, ValueInv, AnswersMatch

\* StoreResult preserves the invariant.
LEMMA StoreResultInv ==
    ASSUME IndInv, NEW a \in Actors, NEW c \in Procs, StoreResult(a, c)
    PROVE  IndInv'
  <1>. DEFINE m == Head(mgmt[c][a])
              k == m.key
              v == m.value
              r == [type |-> "DATA", value |-> v]
              w == Kept(a, k, v)
  <1>1. /\ Receive(a, c, "REGISTER")
        /\ reply' = SendToWaiting(a, pending[a][k], v)
        /\ pending' = Unlisted(a, k)
        /\ store' = [store EXCEPT ![a][k] = w]
        /\ askedDelete' = [askedDelete EXCEPT ![a] = @ \ {k}]
        /\ wait' = wait /\ nextKey' = nextKey /\ queue' = queue /\ worker' = worker /\ ncalls' = ncalls
        /\ ticketOf' = ticketOf /\ data' = data /\ released' = released /\ calls' = calls
    BY DEF StoreResult, program
  <1>2. /\ m \in Messages /\ m.type = "REGISTER" /\ m = mgmt[c][a][1]
        /\ 1 \in 1..Len(mgmt[c][a])
    BY <1>1, ReceiveEffect DEF IndInv
  <1>3. k \in Keys /\ v \in Values
    BY <1>2, MessageTypes DEF RegisterMsgs
  <1>4. k < Len(calls[a]) /\ v = ResultOf(calls[a][k + 1])
    BY <1>2 DEF IndInv, ValueInv, ResultsInv, IsResult
  <1>5. w = v \/ w = None
    BY DEF Kept
  <1>6. r \in Replies /\ r.type = "DATA" /\ r.value = v
    BY <1>3 DEF Replies
  <1>. HIDE DEF m, k, v, w
  <1>7. Owing' /\ pending' \in [Actors -> [Keys -> Seq(Procs)]]
    BY <1>1, <1>3, StoreOwing
  <1>8. /\ reply' \in [Actors -> [Procs -> Seq(Replies)]]
        /\ \A i \in 1..Len(pending[a][k]) : reply'[a][pending[a][k][i]] = <<r>>
        /\ \A d \in Procs : (\A i \in 1..Len(pending[a][k]) : pending[a][k][i] # d)
                                 => reply'[a][d] = reply[a][d]
        /\ \A b \in Actors, d \in Procs : b # a => reply'[b][d] = reply[b][d]
    BY <1>1, <1>3, SendToWaitingEffect
  <1>9. /\ WorkerInv' /\ KeyInv' /\ HoldsInv'
        /\ QueueInv' /\ RunningInv' /\ ResultsInv' /\ TicketInv' /\ DataMatch' /\ GotMatch'
        /\ mgmt' \in [Procs -> [Actors -> Seq(Messages)]]
    BY <1>1, ServerSame
  <1>10. /\ store' \in [Actors -> [Keys -> Values \cup {None}]]
         /\ store'[a][k] = w
         /\ \A b \in Actors, j \in Keys : ~(b = a /\ j = k) => store'[b][j] = store[b][j]
    <2>1. [store[a] EXCEPT ![k] = w] \in [Keys -> Values \cup {None}]
      BY <1>3, <1>5 DEF IndInv, TypeOK
    <2>. QED
      BY <1>1, <1>3, <2>1 DEF IndInv, TypeOK
  <1>11. TypeOK'
    <2>1. askedDelete' \in [Actors -> SUBSET Keys]
      BY <1>1 DEF IndInv, TypeOK
    <2>. QED
      BY <1>1, <1>7, <1>8, <1>9, <1>10, <2>1 DEF IndInv, TypeOK
  <1>12. StoreInv'
    <2>. SUFFICES ASSUME NEW b \in Actors, NEW j \in Keys, store'[b][j] # None
                  PROVE  j < Len(calls[b]) /\ store'[b][j] = ResultOf(calls[b][j + 1])
      BY <1>1 DEF StoreInv, IsResult
    <2>1. CASE b = a /\ j = k
      BY <1>4, <1>5, <1>10, <2>1
    <2>2. CASE ~(b = a /\ j = k)
      <3>1. store'[b][j] = store[b][j]
        BY <1>10, <2>2
      <3>. QED
        BY <3>1 DEF IndInv, ValueInv, StoreInv, IsResult
    <2>. QED
      BY <2>1, <2>2
  <1>. HIDE DEF r
  <1>13. RepliesMatch'
    <2>0. wait' = wait /\ calls' = calls
      BY <1>1
    <2>. SUFFICES ASSUME NEW d \in Procs, NEW b \in Actors, NEW i \in 1..Len(reply'[b][d])
                  PROVE  /\ wait[d] # None
                         /\ wait[d].msg.type = "CALL" =>
                              /\ reply'[b][d][i].type = "KEY"
                              /\ reply'[b][d][i].value < Len(calls[b])
                              /\ calls[b][reply'[b][d][i].value + 1] = wait[d].msg
                         /\ wait[d].msg.type = "GET" =>
                              /\ reply'[b][d][i].type = "DATA"
                              /\ wait[d].msg.key < Len(calls[b])
                              /\ reply'[b][d][i].value = ResultOf(calls[b][wait[d].msg.key + 1])
      BY <2>0 DEF RepliesMatch
    <2>1. CASE b = a /\ \E h \in 1..Len(pending[a][k]) : pending[a][k][h] = d
      <3>1. PICK h \in 1..Len(pending[a][k]) : pending[a][k][h] = d
        BY <2>1
      <3>2. Len(<<r>>) = 1 /\ <<r>>[1] = r
        BY <1>6, AppendEmpty
      <3>3. reply'[b][d][i] = r
        BY <1>8, <2>1, <3>1, <3>2
      <3>4. wait[d] = [to |-> a, msg |-> [type |-> "GET", key |-> k]]
        BY <1>3, <3>1 DEF IndInv, PendingInv
      <3>5. wait[d] \in Questions
        BY <1>3, <3>4 DEF Questions, GetMsgs
      <3>6. wait[d] # None /\ wait[d].msg.type = "GET" /\ wait[d].msg.key = k
        BY <3>4, <3>5
      <3>. QED
        BY <1>4, <1>6, <2>1, <3>3, <3>6
    <2>2. CASE ~(b = a /\ \E h \in 1..Len(pending[a][k]) : pending[a][k][h] = d)
      <3>1. reply'[b][d] = reply[b][d]
        BY <1>8, <2>2
      <3>. QED
        BY <3>1 DEF IndInv, AnswersMatch, RepliesMatch
    <2>. QED
      BY <2>1, <2>2
  <1>. QED
    BY <1>7, <1>9, <1>11, <1>12, <1>13 DEF IndInv, Owing, ValueInv, AnswersMatch

-----------------------------------------------------------------------------
(***************************************************************************)
(* The steps of the worker threads.                                        *)
(***************************************************************************)

\* What a worker that is not idle works on.
LEMMA WorkerRequest ==
    ASSUME IndInv, NEW a \in Actors, worker[a].pc # "idle"
    PROVE  /\ worker[a].req \in Requests
           /\ worker[a].req.key \in Keys /\ worker[a].req.msg \in CallMsgs
           /\ IsCall(a, worker[a].req.key, worker[a].req.msg)
           /\ worker[a].req.msg.kind \in UsesFuture =>
                /\ worker[a].req.msg.arg \in FutureRefs
                /\ worker[a].req.msg.arg.at \in Actors
                /\ worker[a].req.msg.arg.key \in Keys
  <1>1. worker[a].req \in Requests
    BY DEF IndInv, WorkerInv, TypeOK, WorkerStates
  <1>2. worker[a].req.key \in Keys /\ worker[a].req.msg \in CallMsgs
    BY <1>1 DEF Requests
  <1>3. worker[a].req.msg.kind \in UsesFuture => worker[a].req.msg.arg \in FutureRefs
    BY <1>2 DEF CallMsgs
  <1>4. IsCall(a, worker[a].req.key, worker[a].req.msg)
    BY DEF IndInv, ValueInv, RunningInv
  <1>. QED
    BY <1>1, <1>2, <1>3, <1>4 DEF FutureRefs

\* A worker that goes on with its request.
LEMMA WorkerMoves ==
    ASSUME IndInv, NEW a \in Actors, NEW p \in {"blocked", "released"},
           worker' = [worker EXCEPT ![a].pc = p]
    PROVE  /\ worker' \in [Actors -> WorkerStates]
           /\ worker'[a].pc = p /\ worker'[a].req = worker[a].req /\ worker'[a].got = worker[a].got
           /\ \A b \in Actors : b # a => worker'[b] = worker[b]
  <1>. DEFINE w == [worker[a] EXCEPT !.pc = p]
  <1>1. worker \in [Actors -> WorkerStates] /\ worker[a] \in WorkerStates
    BY DEF IndInv, TypeOK
  <1>2. w \in WorkerStates /\ w.pc = p /\ w.req = worker[a].req /\ w.got = worker[a].got
    BY <1>1 DEF WorkerStates
  <1>3. worker' = [worker EXCEPT ![a] = w]
    OBVIOUS
  <1>. HIDE DEF w
  <1>. QED
    BY <1>1, <1>2, <1>3

\* What the steps of a worker do not touch.
LEMMA WorkerSame ==
    ASSUME IndInv, UNCHANGED <<nextKey, store, ncalls, ticketOf, data, calls>>,
           wait'[Client] = wait[Client],
           \A b \in Actors : InChannel(Client, b)' <=> InChannel(Client, b)
    PROVE  KeyInv' /\ HoldsInv' /\ StoreInv' /\ TicketInv' /\ DataMatch'
  <1>1. /\ nextKey' = nextKey /\ store' = store /\ ncalls' = ncalls
        /\ ticketOf' = ticketOf /\ data' = data /\ calls' = calls
    OBVIOUS
  <1>2. KeyInv'
    BY <1>1 DEF IndInv, KeyInv
  <1>3. HoldsInv'
    BY <1>1 DEF IndInv, HoldsInv
  <1>. QED
    BY <1>1, <1>2, <1>3, SameValues

\* TakeRequest preserves the invariant.
LEMMA TakeRequestInv ==
    ASSUME IndInv, NEW a \in Actors, TakeRequest(a)
    PROVE  IndInv'
  <1>. DEFINE q == Head(queue[a])
              w == [pc |-> "run", req |-> q, got |-> None]
  <1>1. /\ worker[a].pc = "idle" /\ queue[a] # << >>
        /\ worker' = [worker EXCEPT ![a] = w]
        /\ queue' = [queue EXCEPT ![a] = Tail(@)]
        /\ mgmt' = mgmt /\ reply' = reply /\ wait' = wait /\ nextKey' = nextKey /\ store' = store
        /\ pending' = pending /\ askedDelete' = askedDelete /\ ncalls' = ncalls
        /\ ticketOf' = ticketOf /\ data' = data /\ released' = released /\ calls' = calls
    BY DEF TakeRequest, NextRequest, Removed, tables, program
  <1>2. queue[a] \in Seq(Requests)
    BY DEF IndInv, TypeOK
  <1>3. /\ q \in Requests /\ q = queue[a][1]
        /\ Len(queue[a]) \in Nat /\ Len(queue[a]) >= 1
        /\ Tail(queue[a]) \in Seq(Requests)
        /\ Len(Tail(queue[a])) = Len(queue[a]) - 1
        /\ \A i \in 1..Len(Tail(queue[a])) : Tail(queue[a])[i] = queue[a][i + 1]
    BY <1>1, <1>2, TailFacts
  <1>4. /\ w \in WorkerStates
        /\ w.pc = "run" /\ w.req = q /\ w.got = None
    BY <1>3 DEF WorkerStates
  <1>5. q # None
    BY <1>3
  <1>6. q.key < Len(calls[a]) /\ calls[a][q.key + 1] = q.msg
    BY <1>3 DEF IndInv, ValueInv, QueueInv, IsCall
  <1>. HIDE DEF q, w
  <1>7. /\ worker' \in [Actors -> WorkerStates] /\ worker'[a] = w
        /\ \A b \in Actors : b # a => worker'[b] = worker[b]
    BY <1>1, <1>4 DEF IndInv, TypeOK
  <1>8. /\ queue' \in [Actors -> Seq(Requests)] /\ queue'[a] = Tail(queue[a])
        /\ \A b \in Actors : b # a => queue'[b] = queue[b]
    BY <1>1, <1>3 DEF IndInv, TypeOK
  <1>9. TypeOK'
    BY <1>1, <1>7, <1>8 DEF IndInv, TypeOK
  <1>10. WorkerInv'
    <2>1. wait[a] = None
      BY <1>1 DEF IndInv, WorkerInv
    <2>. QED
      BY <1>1, <1>4, <1>5, <1>7, <2>1 DEF IndInv, WorkerInv
  <1>11. /\ ChannelInv'
         /\ \A d \in Procs, b \in Actors : InChannel(d, b)' <=> InChannel(d, b)
    BY <1>1 DEF IndInv, ChannelInv, InChannel, IsQuestion
  <1>12. Owing'
    BY <1>1, <1>11, QuietOwing
  <1>13. KeyInv' /\ HoldsInv' /\ StoreInv' /\ TicketInv' /\ DataMatch'
    BY <1>1, <1>11, WorkerSame DEF Procs
  <1>14. QueueInv'
    <2>. SUFFICES ASSUME NEW b \in Actors, NEW i \in 1..Len(queue'[b])
                  PROVE  /\ queue'[b][i].key < Len(calls[b])
                         /\ calls[b][queue'[b][i].key + 1] = queue'[b][i].msg
      BY <1>1 DEF QueueInv, IsCall
    <2>1. \E j \in 1..Len(queue[b]) : queue'[b][i] = queue[b][j]
      <3>1. CASE b = a
        <4>1. i + 1 \in 1..Len(queue[a]) /\ queue'[a][i] = queue[a][i + 1]
          BY <1>3, <1>8, <3>1
        <4>. QED
          BY <3>1, <4>1
      <3>2. CASE b # a
        BY <1>8, <3>2
      <3>. QED
        BY <3>1, <3>2
    <2>. QED
      BY <2>1 DEF IndInv, ValueInv, QueueInv, IsCall
  <1>15. RunningInv'
    <2>. SUFFICES ASSUME NEW b \in Actors, worker'[b].pc # "idle"
                  PROVE  /\ worker'[b].req.key < Len(calls[b])
                         /\ calls[b][worker'[b].req.key + 1] = worker'[b].req.msg
      BY SMTT(20), <1>1 DEF RunningInv, IsCall
    <2>1. CASE b = a
      BY SMTT(20), <1>4, <1>6, <1>7, <2>1
    <2>2. CASE b # a
      BY SMTT(20), <1>7, <2>2 DEF IndInv, ValueInv, RunningInv, IsCall
    <2>. QED
      BY <2>1, <2>2
  <1>16. GotMatch'
    <2>1. calls' = calls
      BY <1>1
    <2>. QED
      BY <1>4, <1>7, <2>1 DEF IndInv, AnswersMatch, GotMatch
  <1>17. ResultsInv' /\ RepliesMatch'
    BY <1>1, SameValues
  <1>. QED
    BY <1>9, <1>10, <1>12, <1>13, <1>14, <1>15, <1>16, <1>17 DEF IndInv, Owing, ValueInv, AnswersMatch

\* WorkerGet preserves the invariant.
LEMMA WorkerGetInv ==
    ASSUME IndInv, NEW a \in Actors, WorkerGet(a)
    PROVE  IndInv'
  <1>. DEFINE f == worker[a].req.msg.arg
              at == f.at
              m == [type |-> "GET", key |-> f.key]
  <1>1. /\ worker[a].pc = "run" /\ worker[a].req.msg.kind \in UsesFuture
        /\ Ask(a, at, m)
        /\ worker' = [worker EXCEPT ![a].pc = "blocked"]
        /\ reply' = reply /\ nextKey' = nextKey /\ queue' = queue /\ store' = store
        /\ pending' = pending /\ askedDelete' = askedDelete /\ ncalls' = ncalls
        /\ ticketOf' = ticketOf /\ data' = data /\ released' = released /\ calls' = calls
    BY DEF WorkerGet, tables, program
  <1>2. f \in FutureRefs /\ at \in Actors /\ f.key \in Keys
    BY <1>1, WorkerRequest
  <1>3. a \in Procs /\ a # Client /\ m \in CallMsgs \cup GetMsgs /\ m.type = "GET"
    BY <1>2 DEF Procs, GetMsgs
  <1>4. /\ worker' \in [Actors -> WorkerStates]
        /\ worker'[a].pc = "blocked" /\ worker'[a].req = worker[a].req /\ worker'[a].got = worker[a].got
        /\ \A b \in Actors : b # a => worker'[b] = worker[b]
    BY <1>1, WorkerMoves
  <1>5. m = [type |-> "GET", key |-> worker[a].req.msg.arg.key] /\ at = worker[a].req.msg.arg.at
    OBVIOUS
  <1>. HIDE DEF m, at, f
  <1>6. /\ Send(a, at, m) /\ m \in Messages
        /\ wait' \in [Procs -> Questions \cup {None}]
        /\ wait'[a] = [to |-> at, msg |-> m]
        /\ \A d \in Procs : d # a => wait'[d] = wait[d]
    BY <1>1, <1>2, <1>3, AskEffect DEF IndInv
  <1>7. /\ mgmt' \in [Procs -> [Actors -> Seq(Messages)]]
        /\ \A d \in Procs, b \in Actors : ~(d = a /\ b = at) => (InChannel(d, b)' <=> InChannel(d, b))
    BY <1>2, <1>3, <1>6, SendEffect DEF IndInv
  <1>8. TypeOK'
    BY <1>1, <1>4, <1>6, <1>7 DEF IndInv, TypeOK
  <1>9. WorkerInv'
    <2>. SUFFICES ASSUME NEW b \in Actors
                  PROVE  /\ worker'[b].pc = "idle" <=> worker'[b].req = None
                         /\ worker'[b].pc \notin {"got", "released"} => worker'[b].got = None
                         /\ worker'[b].pc \notin {"idle", "run"} => worker'[b].req.msg.kind \in UsesFuture
                         /\ wait'[b] = IF worker'[b].pc # "blocked" THEN None
                                       ELSE [to |-> worker'[b].req.msg.arg.at,
                                             msg |-> [type |-> "GET", key |-> worker'[b].req.msg.arg.key]]
      BY DEF WorkerInv, UsesFuture
    <2>1. CASE b = a
      <3>1. worker[a].req # None /\ worker[a].got = None
        BY <1>1 DEF IndInv, WorkerInv
      <3>. QED
        BY <1>1, <1>4, <1>5, <1>6, <2>1, <3>1
    <2>2. CASE b # a
      <3>1. wait'[b] = wait[b] /\ worker'[b] = worker[b]
        BY <1>4, <1>6, <2>2 DEF Procs
      <3>. QED
        BY <3>1 DEF IndInv, WorkerInv
    <2>. QED
      BY <2>1, <2>2
  <1>10. wait[a] = None
    BY <1>1 DEF IndInv, WorkerInv
  <1>11. Owing'
    BY <1>1, <1>2, <1>3, <1>10, AskOwing
  <1>12. KeyInv' /\ HoldsInv' /\ StoreInv' /\ TicketInv' /\ DataMatch'
    <2>1. wait'[Client] = wait[Client] /\ \A b \in Actors : InChannel(Client, b)' <=> InChannel(Client, b)
      BY <1>3, <1>6, <1>7 DEF Procs
    <2>. QED
      BY <1>1, <2>1, WorkerSame
  <1>13. ResultsInv'
    BY <1>1, <1>2, <1>3, <1>6, SendResults
  <1>14. QueueInv'
    BY SMTT(20), <1>1, SameValues
  <1>15. RunningInv'
    BY SMTT(20), <1>1, <1>4 DEF IndInv, ValueInv, RunningInv, IsCall
  <1>16. GotMatch'
    BY <1>1, <1>4 DEF IndInv, AnswersMatch, GotMatch
  <1>17. RepliesMatch'
    BY <1>1, <1>2, <1>3, <1>10, AskReplies
  <1>. QED
    BY <1>8, <1>9, <1>11, <1>12, <1>13, <1>14, <1>15, <1>16, <1>17
       DEF IndInv, Owing, ValueInv, AnswersMatch

\* WorkerReceive preserves the invariant.
LEMMA WorkerReceiveInv ==
    ASSUME IndInv, NEW a \in Actors, WorkerReceive(a)
    PROVE  IndInv'
  <1>. DEFINE v == Answer(a)
              w == [pc |-> "got", req |-> worker[a].req, got |-> v]
              f == worker[a].req.msg.arg
  <1>1. /\ worker[a].pc = "blocked"
        /\ TakeAnswer(a)
        /\ worker' = [worker EXCEPT ![a] = w]
        /\ mgmt' = mgmt /\ nextKey' = nextKey /\ queue' = queue /\ store' = store
        /\ pending' = pending /\ askedDelete' = askedDelete /\ ncalls' = ncalls
        /\ ticketOf' = ticketOf /\ data' = data /\ released' = released /\ calls' = calls
    BY DEF WorkerReceive, tables, program
  <1>2. a \in Procs /\ a # Client
    BY DEF Procs
  <1>3. /\ reply' \in [Actors -> [Procs -> Seq(Replies)]]
        /\ wait' \in [Procs -> Questions \cup {None}]
        /\ wait'[a] = None
        /\ \A d \in Procs : d # a => wait'[d] = wait[d]
    BY <1>1, <1>2, TakeAnswerEffect
  <1>4. /\ wait[a] = [to |-> f.at, msg |-> [type |-> "GET", key |-> f.key]]
        /\ worker[a].req.msg.kind \in UsesFuture /\ worker[a].req # None
    BY <1>1 DEF IndInv, WorkerInv
  <1>5. wait[a].to = f.at /\ wait[a].msg.type = "GET" /\ wait[a].msg.key = f.key
    BY <1>4
  <1>6. v \in Values /\ f.key < Len(calls[f.at]) /\ v = ResultOf(calls[f.at][f.key + 1])
    BY SMTT(20), <1>1, <1>2, <1>5, AnswerIsRight
  <1>7. worker[a] \in WorkerStates /\ worker \in [Actors -> WorkerStates]
    BY SMTT(20) DEF IndInv, TypeOK
  <1>8. /\ w \in WorkerStates
        /\ w.pc = "got" /\ w.req = worker[a].req /\ w.got = v
    BY <1>6, <1>7 DEF WorkerStates
  <1>. HIDE DEF w, v, f
  <1>10. /\ worker' \in [Actors -> WorkerStates] /\ worker'[a] = w
         /\ \A b \in Actors : b # a => worker'[b] = worker[b]
    BY <1>1, <1>7, <1>8
  <1>11. TypeOK'
    BY <1>1, <1>3, <1>10 DEF IndInv, TypeOK
  <1>12. WorkerInv'
    <2>. SUFFICES ASSUME NEW b \in Actors
                  PROVE  /\ worker'[b].pc = "idle" <=> worker'[b].req = None
                         /\ worker'[b].pc \notin {"got", "released"} => worker'[b].got = None
                         /\ worker'[b].pc \notin {"idle", "run"} => worker'[b].req.msg.kind \in UsesFuture
                         /\ wait'[b] = IF worker'[b].pc # "blocked" THEN None
                                       ELSE [to |-> worker'[b].req.msg.arg.at,
                                             msg |-> [type |-> "GET", key |-> worker'[b].req.msg.arg.key]]
      BY DEF WorkerInv, UsesFuture
    <2>1. CASE b = a
      BY <1>3, <1>4, <1>8, <1>10, <2>1
    <2>2. CASE b # a
      <3>1. wait'[b] = wait[b] /\ worker'[b] = worker[b]
        BY <1>3, <1>10, <2>2 DEF Procs
      <3>. QED
        BY <3>1 DEF IndInv, WorkerInv
    <2>. QED
      BY <2>1, <2>2
  <1>13. Owing'
    BY <1>1, <1>2, TakeAnswerOwing
  <1>14. KeyInv' /\ HoldsInv' /\ StoreInv' /\ TicketInv' /\ DataMatch'
    <2>1. wait'[Client] = wait[Client]
      BY <1>2, <1>3 DEF Procs
    <2>2. \A b \in Actors : InChannel(Client, b)' <=> InChannel(Client, b)
      BY <1>1 DEF InChannel, IsQuestion
    <2>. QED
      BY <1>1, <2>1, <2>2, WorkerSame
  <1>15. ResultsInv' /\ QueueInv'
    BY <1>1, SameValues
  <1>16. RunningInv'
    <2>. SUFFICES ASSUME NEW b \in Actors, worker'[b].pc # "idle"
                  PROVE  /\ worker'[b].req.key < Len(calls[b])
                         /\ calls[b][worker'[b].req.key + 1] = worker'[b].req.msg
      BY SMTT(20), <1>1 DEF RunningInv, IsCall
    <2>1. worker'[b].req = worker[b].req /\ worker[b].pc # "idle"
      BY SMTT(20), <1>1, <1>8, <1>10
    <2>. QED
      BY <2>1 DEF IndInv, ValueInv, RunningInv, IsCall
  <1>17. GotMatch'
    <2>0. calls' = calls
      BY <1>1
    <2>. SUFFICES ASSUME NEW b \in Actors, worker'[b].got # None
                  PROVE  /\ worker'[b].req.msg.arg.key < Len(calls[worker'[b].req.msg.arg.at])
                         /\ worker'[b].got = ResultOf(calls[worker'[b].req.msg.arg.at]
                                                           [worker'[b].req.msg.arg.key + 1])
      BY SMTT(20), <2>0 DEF GotMatch
    <2>1. CASE b = a
      BY <1>6, <1>8, <1>10, <2>1 DEF f
    <2>2. CASE b # a
      BY <1>10, <2>2 DEF IndInv, AnswersMatch, GotMatch
    <2>. QED
      BY <2>1, <2>2
  <1>18. RepliesMatch'
    BY <1>1, <1>2, TakeAnswerReplies
  <1>. QED
    BY <1>11, <1>12, <1>13, <1>14, <1>15, <1>16, <1>17, <1>18
       DEF IndInv, Owing, ValueInv, AnswersMatch

\* WorkerRelease preserves the invariant.
LEMMA WorkerReleaseInv ==
    ASSUME IndInv, NEW a \in Actors, WorkerRelease(a)
    PROVE  IndInv'
  <1>. DEFINE f == worker[a].req.msg.arg
              at == f.at
              m == [type |-> "RELEASE", key |-> f.key]
  <1>1. /\ worker[a].pc = "got"
        /\ Send(a, at, m)
        /\ worker' = [worker EXCEPT ![a].pc = "released"]
        /\ released' = released \cup {<<a, f>>}
        /\ reply' = reply /\ wait' = wait /\ nextKey' = nextKey /\ queue' = queue /\ store' = store
        /\ pending' = pending /\ askedDelete' = askedDelete /\ ncalls' = ncalls
        /\ ticketOf' = ticketOf /\ data' = data /\ calls' = calls
    BY DEF WorkerRelease, tables, program
  <1>2. worker[a].req.msg.kind \in UsesFuture /\ wait[a] = None /\ worker[a].req # None
    BY <1>1 DEF IndInv, WorkerInv
  <1>3. f \in FutureRefs /\ at \in Actors /\ f.key \in Keys
    BY <1>1, <1>2, WorkerRequest
  <1>4. /\ a \in Procs /\ a # Client /\ m \in Messages /\ ~IsQuestion(m) /\ m.type = "RELEASE"
    BY <1>3 DEF Procs, Messages, ReleaseMsgs, IsQuestion
  <1>5. /\ worker' \in [Actors -> WorkerStates]
        /\ worker'[a].pc = "released" /\ worker'[a].req = worker[a].req /\ worker'[a].got = worker[a].got
        /\ \A b \in Actors : b # a => worker'[b] = worker[b]
    BY <1>1, WorkerMoves
  <1>. HIDE DEF m, at, f
  <1>6. /\ mgmt' \in [Procs -> [Actors -> Seq(Messages)]]
        /\ \A d \in Procs, b \in Actors : ~(d = a /\ b = at) => (InChannel(d, b)' <=> InChannel(d, b))
    BY <1>1, <1>3, <1>4, SendEffect DEF IndInv
  <1>7. TypeOK'
    <2>1. released' \subseteq Procs \X FutureRefs
      BY <1>1, <1>3, <1>4 DEF IndInv, TypeOK
    <2>. QED
      BY <1>1, <1>5, <1>6, <2>1 DEF IndInv, TypeOK
  <1>8. WorkerInv'
    <2>1. wait' = wait
      BY <1>1
    <2>. QED
      BY <1>1, <1>2, <1>5, <2>1 DEF IndInv, WorkerInv
  <1>9. Owing'
    BY <1>1, <1>2, <1>3, <1>4, SendOwing
  <1>10. KeyInv' /\ HoldsInv' /\ StoreInv' /\ TicketInv' /\ DataMatch'
    <2>1. wait'[Client] = wait[Client] /\ \A b \in Actors : InChannel(Client, b)' <=> InChannel(Client, b)
      BY <1>1, <1>4, <1>6 DEF Procs
    <2>. QED
      BY <1>1, <2>1, WorkerSame
  <1>11. ResultsInv'
    BY <1>1, <1>3, <1>4, SendResults
  <1>12. QueueInv' /\ RepliesMatch'
    BY <1>1, SameValues
  <1>13. RunningInv'
    BY SMTT(20), <1>1, <1>5 DEF IndInv, ValueInv, RunningInv, IsCall
  <1>14. GotMatch'
    BY <1>1, <1>5 DEF IndInv, AnswersMatch, GotMatch
  <1>. QED
    BY <1>7, <1>8, <1>9, <1>10, <1>11, <1>12, <1>13, <1>14 DEF IndInv, Owing, ValueInv, AnswersMatch

\* Publish preserves the invariant.
LEMMA PublishInv ==
    ASSUME IndInv, NEW a \in Actors, Publish(a)
    PROVE  IndInv'
  <1>. DEFINE q == worker[a].req
              m == [type |-> "REGISTER", key |-> q.key, value |-> ResultOf(q.msg)]
  <1>1. /\ worker[a].pc # "idle" /\ Finished(a)
        /\ Send(a, a, m)
        /\ worker' = [worker EXCEPT ![a] = NotRunning]
        /\ reply' = reply /\ wait' = wait /\ nextKey' = nextKey /\ queue' = queue /\ store' = store
        /\ pending' = pending /\ askedDelete' = askedDelete /\ ncalls' = ncalls
        /\ ticketOf' = ticketOf /\ data' = data /\ released' = released /\ calls' = calls
    BY DEF Publish, ResultKey, tables, program
  <1>2. wait[a] = None
    BY <1>1 DEF IndInv, WorkerInv, Finished
  <1>3. q.key \in Keys /\ q.msg \in CallMsgs /\ IsCall(a, q.key, q.msg)
    BY <1>1, WorkerRequest
  <1>4. ResultOf(q.msg) \in Values
    BY <1>3 DEF ResultOf, CallMsgs, Values
  <1>5. /\ a \in Procs /\ a # Client /\ m \in Messages /\ ~IsQuestion(m) /\ m.type = "REGISTER"
        /\ m.key = q.key /\ m.value = ResultOf(q.msg)
    BY <1>3, <1>4 DEF Procs, Messages, RegisterMsgs, IsQuestion
  <1>6. IsResult(a, m.key, m.value)
    BY <1>3 DEF IsCall, IsResult
  <1>7. /\ NotRunning \in WorkerStates
        /\ NotRunning.pc = "idle" /\ NotRunning.req = None /\ NotRunning.got = None
    BY DEF NotRunning, WorkerStates
  <1>8. /\ worker' \in [Actors -> WorkerStates] /\ worker'[a] = NotRunning
        /\ \A b \in Actors : b # a => worker'[b] = worker[b]
    BY <1>1, <1>7 DEF IndInv, TypeOK
  <1>. HIDE DEF m, q
  <1>9. /\ mgmt' \in [Procs -> [Actors -> Seq(Messages)]]
        /\ \A d \in Procs, b \in Actors : ~(d = a /\ b = a) => (InChannel(d, b)' <=> InChannel(d, b))
    BY <1>1, <1>5, SendEffect DEF IndInv
  <1>10. TypeOK'
    BY <1>1, <1>8, <1>9 DEF IndInv, TypeOK
  <1>11. WorkerInv'
    <2>1. wait' = wait
      BY <1>1
    <2>. QED
      BY <1>2, <1>7, <1>8, <2>1 DEF IndInv, WorkerInv
  <1>12. Owing'
    BY <1>1, <1>2, <1>5, SendOwing
  <1>13. KeyInv' /\ HoldsInv' /\ StoreInv' /\ TicketInv' /\ DataMatch'
    <2>1. wait'[Client] = wait[Client] /\ \A b \in Actors : InChannel(Client, b)' <=> InChannel(Client, b)
      BY <1>1, <1>5, <1>9 DEF Procs
    <2>. QED
      BY <1>1, <2>1, WorkerSame
  <1>14. ResultsInv'
    BY <1>1, <1>5, <1>6, SendResults
  <1>15. QueueInv' /\ RepliesMatch'
    BY SMTT(20), <1>1, SameValues
  <1>16. RunningInv'
    <2>1. calls' = calls
      BY <1>1
    <2>. QED
      BY <1>7, <1>8, <2>1 DEF IndInv, ValueInv, RunningInv, IsCall
  <1>17. GotMatch'
    <2>1. calls' = calls
      BY <1>1
    <2>. QED
      BY <1>7, <1>8, <2>1 DEF IndInv, AnswersMatch, GotMatch
  <1>. QED
    BY <1>10, <1>11, <1>12, <1>13, <1>14, <1>15, <1>16, <1>17 DEF IndInv, Owing, ValueInv, AnswersMatch

-----------------------------------------------------------------------------
(***************************************************************************)
(* The theorems.                                                           *)
(***************************************************************************)

\* A step that changes nothing preserves the invariant.
LEMMA StutterInv ==
    ASSUME IndInv, UNCHANGED vars
    PROVE  IndInv'
  <1>1. /\ mgmt' = mgmt /\ reply' = reply /\ wait' = wait /\ nextKey' = nextKey /\ queue' = queue
        /\ store' = store /\ pending' = pending /\ askedDelete' = askedDelete /\ worker' = worker
        /\ ncalls' = ncalls /\ ticketOf' = ticketOf /\ data' = data /\ released' = released
        /\ calls' = calls
    BY DEF vars
  <1>2. TypeOK'
    BY <1>1 DEF IndInv, TypeOK
  <1>3. WorkerInv' /\ HoldsInv'
    BY <1>1 DEF IndInv, WorkerInv, HoldsInv
  <1>4. ChannelInv' /\ \A d \in Procs, b \in Actors : InChannel(d, b)' <=> InChannel(d, b)
    BY ZenonT(40), <1>1 DEF IndInv, ChannelInv, InChannel, IsQuestion
  <1>5. Owing'
    BY <1>1, <1>4, QuietOwing
  <1>6. KeyInv'
    BY <1>1, <1>4 DEF IndInv, KeyInv, Procs
  <1>7. ValueInv' /\ AnswersMatch'
    BY <1>1, SameValues DEF ValueInv, AnswersMatch
  <1>. QED
    BY <1>2, <1>3, <1>5, <1>6, <1>7 DEF IndInv, Owing

\* Every step preserves the invariant.
LEMMA NextInv == IndInv /\ [Next]_vars => IndInv'
  <1>. SUFFICES ASSUME IndInv, [Next]_vars PROVE IndInv'
    OBVIOUS
  <1>1. CASE ProgramAsks
    BY <1>1, ActiveCallInv, GetFutureInv, ReleaseFutureInv DEF ProgramAsks
  <1>2. CASE ProgramReceives
    BY <1>2, ReceiveKeyInv, ReceiveDataInv DEF ProgramReceives
  <1>3. ASSUME NEW a \in Actors, ServerStep(a) PROVE IndInv'
    BY <1>3, HandleCallInv, ServeGetInv, DeferGetInv, HandleReleaseInv, ForgetResultInv, StoreResultInv
       DEF ServerStep
  <1>4. ASSUME NEW a \in Actors, WorkerStep(a) PROVE IndInv'
    BY <1>4, TakeRequestInv, WorkerGetInv, WorkerReceiveInv, WorkerReleaseInv, PublishInv
       DEF WorkerStep
  <1>5. CASE UNCHANGED vars
    BY <1>5, StutterInv
  <1>. QED
    BY <1>1, <1>2, <1>3, <1>4, <1>5 DEF Next

\* The invariant implies that exactly one answer is owed to a blocked process.
LEMMA OneAnswerFromInv == IndInv => ExactlyOneAnswerOwed
  <1>. SUFFICES ASSUME IndInv, NEW c \in Procs, NEW a \in Actors
                PROVE  IF wait[c] = None \/ (wait[c] # None /\ wait[c].to # a)
                       THEN ~InChannel(c, a) /\ ~Listed(c, a) /\ ~UnderWay(c, a)
                       ELSE /\ InChannel(c, a) \/ Listed(c, a) \/ UnderWay(c, a)
                            /\ ~(InChannel(c, a) /\ Listed(c, a))
                            /\ ~(InChannel(c, a) /\ UnderWay(c, a))
                            /\ ~(Listed(c, a) /\ UnderWay(c, a))
                            /\ Len(reply[a][c]) <= 1
    BY DEF ExactlyOneAnswerOwed
  <1>1. /\ InChannel(c, a) => wait[c] # None /\ wait[c].to = a
        /\ Listed(c, a) => wait[c] # None /\ wait[c].to = a /\ ~InChannel(c, a) /\ reply[a][c] = << >>
    BY OwedBy DEF IndInv
  <1>2. reply[a][c] # << >> => /\ Len(reply[a][c]) = 1
                               /\ wait[c] # None /\ wait[c].to = a
                               /\ ~InChannel(c, a)
    BY DEF IndInv, ReplyInv
  <1>3. wait[c] # None /\ wait[c].to = a => InChannel(c, a) \/ Listed(c, a) \/ UnderWay(c, a)
    BY DEF IndInv, OwedInv
  <1>4. Len(reply[a][c]) <= 1
    <2>1. reply[a][c] \in Seq(Replies)
      BY DEF IndInv, TypeOK
    <2>2. reply[a][c] # << >> => Len(reply[a][c]) = 1
      BY <1>2
    <2>3. Len(reply[a][c]) = 0 \/ Len(reply[a][c]) = 1
      BY <2>1, <2>2, EmptyFacts
    <2>4. \A n : n = 0 \/ n = 1 => n <= 1
      OBVIOUS
    <2>. QED
      BY <2>3, <2>4, Zenon
  <1>. QED
    BY <1>1, <1>2, <1>3, <1>4 DEF UnderWay

\* The inductive invariant holds in every reachable state, for any set of
\* actors and any number of calls.
THEOREM Inductive == Spec => []IndInv
  BY InitInv, NextInv, PTL DEF Spec

\* Every variable keeps its type; in particular no actor hands out more keys
\* (FutureKeyManager::takeKey) than the program made calls.
THEOREM TypeCorrect == Spec => []TypeOK
  <1>1. IndInv => TypeOK
    BY DEF IndInv
  <1>. QED
    BY <1>1, Inductive, PTL

\* A blocked process is owed exactly one answer and the others none, whatever
\* the order in which questions, results and releases reach the management
\* threads.
THEOREM OneAnswer == Spec => []ExactlyOneAnswerOwed
  BY Inductive, OneAnswerFromInv, PTL

\* Although answers carry no key, every process receives the answer to the
\* question it asked, and obtains the result of the call its future is for.
THEOREM RightAnswer == Spec => []AnswersMatch
  <1>1. IndInv => AnswersMatch
    BY DEF IndInv
  <1>. QED
    BY <1>1, Inductive, PTL

=============================================================================
