-------------------------- MODULE LifecycleProofs --------------------------
(***************************************************************************)
(* Why the safety properties of Lifecycle hold for every list of processes *)
(* and every number of actors and calls.                                   *)
(*                                                                         *)
(* MPI does not order the messages of different senders.  The theorems are *)
(* about the executions in which a process that is a slave of some actor   *)
(* receives what it sent itself before what the program sent it later; the *)
(* run lifecycle_overtaking shows what happens otherwise.                  *)
(***************************************************************************)
EXTENDS Lifecycle, SequenceFacts

SlavesInOrder == \A g \in Groups : \A i \in 2..Len(g) : g[i] \notin Overtaking

(***************************************************************************)
(* The inductive invariant.                                                *)
(*                                                                         *)
(* Leaving: the worker of n at p passed the last statement of its loop.    *)
(* SlaveLeft: the management thread of p still has the actor of a slave    *)
(* that is leaving.  HeadReady: the head of n serves it.  Gone: n is over, *)
(* and its head has forgotten it.                                          *)
(***************************************************************************)
Leaving(n, p) == thread[n][p] \in {"leave", "done"}
SlaveLeft(n, p) == proxy[p] = n /\ p \in Slaves(n) /\ Leaving(n, p)
HeadReady(n) == proxy[HeadOf(n)] = n /\ server[HeadOf(n)] = "run"
Gone(n) ==
    /\ \A p \in Members(n) : Leaving(n, p)
    /\ thread[n][HeadOf(n)] = "done"
    /\ proxy[HeadOf(n)] # n

\* Nothing is kept of an actor that is not created.
UncreatedInv ==
    \A n \in Actors : group[n] = << >> =>
        /\ n \notin destroyed /\ ncalls[n] = 0 /\ executed[n] = 0
        /\ \A p \in Ranks : /\ thread[n][p] = "none" /\ syncs[n][p] = 0
                            /\ queue[n][p] = << >> /\ functions[n][p] = << >>

\* The program puts no two actors on one process at a time.
GroupInv == \A n, k \in Alive : n # k => Members(n) \cap Members(k) = {}

\* A worker runs on a process of its actor, for which the process has a proxy;
\* only the head's asks anything.
ThreadInv ==
    \A n \in Actors, p \in Ranks :
        /\ thread[n][p] # "none" => n \in Created /\ p \in Members(n)
        /\ thread[n][p] \notin {"none", "done"} => proxy[p] = n
        /\ proxy[p] = n => thread[n][p] # "none"
        /\ thread[n][p] \in {"asking", "answered"} => p = HeadOf(n)

Early == {"none", "start", "construct"}

(***************************************************************************)
(* The barriers a worker has entered.  A slave is behind its head by the   *)
(* function ids it has not received; the last one is 0 and makes it leave. *)
(***************************************************************************)
BarrierInv(n) ==
    \A p \in Members(n) :
        /\ thread[n][p] \in {"none", "start"} <=> syncs[n][p] = 0
        /\ thread[n][p] = "construct" => syncs[n][p] = 1
        /\ thread[n][p] \notin Early => \A q \in Members(n) : syncs[n][q] >= 1

BroadcastInv(n) ==
    /\ \A p \in Ranks : functions[n][p] # << >> => p \in Slaves(n) /\ thread[n][HeadOf(n)] \notin Early
    /\ \A q \in Slaves(n) :
          /\ syncs[n][HeadOf(n)] >= 1 /\ syncs[n][q] >= 1 =>
                syncs[n][HeadOf(n)] = syncs[n][q] + Len(functions[n][q])
          /\ \A i \in 1..Len(functions[n][q]) :
                functions[n][q][i] = 0 <=> (i = Len(functions[n][q]) /\ Leaving(n, HeadOf(n)))
          /\ Leaving(n, q) <=> (functions[n][q] = << >> /\ Leaving(n, HeadOf(n)))

EndInv(n) == \A p, q \in Members(n) : thread[n][p] = "done" => Leaving(n, q)

SyncOf(n) == BarrierInv(n) /\ BroadcastInv(n) /\ EndInv(n)

SyncInv == \A n \in Created : SyncOf(n)

(***************************************************************************)
(* What a process sends itself: one question of the head's worker, or one  *)
(* stop of a slave's.                                                      *)
(***************************************************************************)
GetMsg == [type |-> "GET"]
StopMsg == [type |-> "STOP", answer |-> FALSE]

SelfInv ==
    \A p \in Ranks :
        /\ \A c \in Ranks : c # p => mgmt[c][p] = << >>
        /\ mgmt[p][p] \in {<< >>, <<GetMsg>>, <<StopMsg>>}
        /\ mgmt[p][p] = <<GetMsg>> =>
              \E n \in Created : proxy[p] = n /\ p = HeadOf(n) /\ thread[n][p] = "asking"
        /\ mgmt[p][p] = <<StopMsg>> =>
              \/ server[p] = "barrier"
              \/ server[p] \in {"run", "cleanup"} /\ \E n \in Created : SlaveLeft(n, p)
        /\ (server[p] = "run" /\ \E n \in Created : SlaveLeft(n, p)) => mgmt[p][p] = <<StopMsg>>

\* What a management thread is doing.
NoExit(n, p) == \A i \in 1..Len(queue[n][p]) : queue[n][p][i] # "exit"

ServerInv ==
    \A p \in Ranks :
        /\ server[p] = "barrier" => proxy[p] = NoActor
        /\ server[p] \in {"stop", "cleanup"} => proxy[p] # NoActor
        /\ server[p] \in {"cleanup", "barrier"} => program.pc \in {"barrier", "done"}
        /\ (server[p] = "stop" /\ answerStop[p]) =>
              /\ program.pc = "STOP" /\ program.to = p /\ program.actor = proxy[p]
              /\ reply[p] = << >>
        /\ (server[p] = "stop" /\ ~answerStop[p]) => \E n \in Created : SlaveLeft(n, p)
        /\ \A n \in Created : (server[p] = "run" /\ proxy[p] = n /\ p = HeadOf(n)) =>
              ~Leaving(n, p) /\ NoExit(n, p)

(***************************************************************************)
(* What the program is waiting for.                                        *)
(***************************************************************************)
Asking == {"CREATE", "CALL", "STOP"}
Over == {"barrier", "done"}

ReplyInv ==
    \A p \in Ranks : reply[p] # << >> =>
        program.pc \in Asking /\ program.to = p /\ reply[p] = <<program.pc>>

ActorInv(n) ==
    /\ (program.pc \in Asking /\ program.actor = n) => n \in Alive /\ program.to = HeadOf(n)
    /\ (program.pc \notin Over /\ n \in Alive) =>
          HeadReady(n) \/ (program.pc \in {"CREATE", "STOP"} /\ program.actor = n)
    /\ (program.pc = "CREATE" /\ program.actor = n) =>
          \/ reply[HeadOf(n)] = << >> /\ thread[n][HeadOf(n)] = "none"
          \/ reply[HeadOf(n)] # << >> /\ HeadReady(n)
    /\ (program.pc = "STOP" /\ program.actor = n) =>
          \/ reply[HeadOf(n)] = << >> /\ HeadReady(n)
          \/ /\ reply[HeadOf(n)] = << >> /\ proxy[HeadOf(n)] = n
             /\ server[HeadOf(n)] = "stop" /\ answerStop[HeadOf(n)]
          \/ reply[HeadOf(n)] # << >> /\ Gone(n)
    /\ (program.pc \in Over /\ n \in Created) => thread[n][HeadOf(n)] # "none"

ProgramInv ==
    /\ ReplyInv
    /\ program.pc \in Asking => program.actor \in Actors
    /\ \A n \in Actors : ActorInv(n)
    /\ program.pc = "done" => \A p \in Ranks : server[p] = "barrier"

(***************************************************************************)
(* The messages of the program that a process has not received.            *)
(***************************************************************************)
CreateMsg(n) == [type |-> "CREATE", actor |-> n, pids |-> group[n]]

FromProgram(p, m) ==
    \/ \E n \in Alive :
          /\ m = CreateMsg(n) /\ p \in Members(n) /\ thread[n][p] = "none"
          /\ p = HeadOf(n) => program.pc = "CREATE" /\ program.actor = n /\ reply[p] = << >>
    \/ m.type = "CALL" /\ program.pc = "CALL" /\ program.to = p /\ reply[p] = << >>
    \/ /\ m = [type |-> "STOP", answer |-> TRUE] /\ program.pc = "STOP" /\ program.to = p /\ reply[p] = << >>
       /\ \A n \in Actors : program.actor = n => HeadReady(n)
    \/ m.type = "STOP_PROCESS" /\ program.pc \in Over

ClientInv ==
    \A p \in Ranks :
        /\ \A i \in 1..Len(mgmt[Client][p]), m \in Messages : mgmt[Client][p][i] = m => FromProgram(p, m)
        /\ Len(mgmt[Client][p]) \in 0..2
        /\ Len(mgmt[Client][p]) = 2 =>
              mgmt[Client][p][1].type = "CREATE" /\ mgmt[Client][p][2].type = "STOP_PROCESS"

(***************************************************************************)
(* The calls the program made: executed, in execution, in the queue of the *)
(* head before the exit, or on their way to it.                            *)
(***************************************************************************)
Sent(n) == IF program.pc = "CALL" /\ program.actor = n /\ reply[HeadOf(n)] = << >> THEN 1 ELSE 0
Busy(n) == IF thread[n][HeadOf(n)] \in {"function", "asking", "answered"} THEN 1 ELSE 0
HeadQueue(n) == queue[n][HeadOf(n)]
Exit(n) == IF HeadQueue(n) # << >> /\ HeadQueue(n)[Len(HeadQueue(n))] = "exit" THEN 1 ELSE 0

\* The head has no worker that takes requests.
Off(n) == thread[n][HeadOf(n)] \in {"none", "leave", "done"}

CountOf(n) ==
    /\ executed[n] + Len(HeadQueue(n)) + Busy(n) + Sent(n) = ncalls[n] + Exit(n)
    /\ \A i \in 1..(Len(HeadQueue(n)) - 1) : HeadQueue(n)[i] # "exit"
    /\ Off(n) => HeadQueue(n) = << >>

CountInv == \A n \in Created : CountOf(n)

\* A destroyed actor is over.
DestroyedInv == \A n \in destroyed : n \in Created /\ Gone(n)

LifeInv ==
    /\ TypeOK
    /\ UncreatedInv
    /\ GroupInv
    /\ ThreadInv
    /\ SyncInv
    /\ SelfInv
    /\ ServerInv
    /\ ProgramInv
    /\ ClientInv
    /\ CountInv
    /\ DestroyedInv

USE ClientAssumption, GroupsAssumption, BoundsAssumption, KindsAssumption, OvertakingAssumption

-----------------------------------------------------------------------------
(***************************************************************************)
(* Facts about groups, channels and the other functions of two arguments.  *)
(***************************************************************************)

\* The head and the slaves of an actor are its processes.
LEMMA GroupFacts ==
    ASSUME TypeOK, NEW n \in Created
    PROVE  /\ n \in Actors /\ n # NoActor
           /\ group[n] \in Groups
           /\ HeadOf(n) \in Members(n) /\ HeadOf(n) \in Ranks
           /\ Members(n) \subseteq Ranks
           /\ HeadOf(n) \notin Slaves(n)
           /\ \A p \in Members(n) : p \in Slaves(n) \/ p = HeadOf(n)
           /\ \A p \in Slaves(n) : p \in Members(n) /\ p \in Ranks
           /\ SlavesInOrder => \A p \in Slaves(n) : p \notin Overtaking
  <1>1. n \in Actors /\ group[n] # << >> /\ group[n] \in Groups
    BY DEF Created, TypeOK
  <1>2. n # NoActor
    BY <1>1 DEF Actors, NoActor
  <1>3. group[n] \in Seq(Ranks) /\ Len(group[n]) \in Nat /\ Len(group[n]) >= 1
    BY <1>1, EmptyFacts
  <1>4. \A i \in 1..Len(group[n]) : group[n][i] \in Ranks
    BY <1>3
  <1>5. 1 \in 1..Len(group[n])
    BY <1>3
  <1>6. HeadOf(n) \in Members(n) /\ HeadOf(n) \in Ranks /\ Members(n) \subseteq Ranks
    BY <1>4, <1>5 DEF HeadOf, Members
  <1>7. ASSUME SlavesInOrder, NEW p \in Slaves(n) PROVE p \notin Overtaking
    <2>1. PICK i \in 1..Len(group[n]) : p = group[n][i]
      BY DEF Slaves, Members
    <2>2. i # 1
      BY <2>1 DEF Slaves, HeadOf
    <2>3. i \in 2..Len(group[n])
      BY <1>3, <2>2
    <2>. QED
      BY <1>1, <1>7, <2>1, <2>3 DEF SlavesInOrder
  <1>. QED
    BY <1>1, <1>2, <1>6, <1>7 DEF Slaves

\* Groups that do not change keep their head and their slaves.
LEMMA GroupFrame ==
    ASSUME group' = group
    PROVE  /\ Created' = Created
           /\ \A n : Members(n)' = Members(n) /\ HeadOf(n)' = HeadOf(n) /\ Slaves(n)' = Slaves(n)
           /\ destroyed' = destroyed => Alive' = Alive
  BY DEF Created, Members, HeadOf, Slaves, Alive

\* A place of a function of two arguments is changed and the others are not.
LEMMA UpdateAt ==
    ASSUME NEW A, NEW B, NEW C, NEW f \in [A -> [B -> C]], NEW a \in A, NEW b \in B, NEW v \in C,
           NEW g, g = [f EXCEPT ![a][b] = v]
    PROVE  /\ g \in [A -> [B -> C]]
           /\ g[a][b] = v
           /\ \A x \in A, y \in B : ~(x = a /\ y = b) => g[x][y] = f[x][y]
  OBVIOUS

\* The kinds of messages are told apart by their type.
LEMMA MessageTypes ==
    ASSUME NEW m \in Messages
    PROVE  /\ m.type \in {"CREATE", "CALL", "STOP", "STOP_PROCESS", "GET"}
           /\ m.type = "CREATE" => m.actor \in Actors /\ m.pids \in Groups
           /\ m.type = "CALL" => m.kind \in Kinds
           /\ m.type = "STOP" => m.answer \in BOOLEAN /\ m = [type |-> "STOP", answer |-> m.answer]
           /\ m.type = "GET" => m = GetMsg
  BY DEF Messages, GetMsg

\* The messages the processes send.
LEMMA MessagesSent ==
    /\ GetMsg \in Messages /\ GetMsg.type = "GET"
    /\ StopMsg \in Messages /\ StopMsg.type = "STOP" /\ StopMsg.answer = FALSE
    /\ [type |-> "STOP", answer |-> TRUE] \in Messages
    /\ [type |-> "STOP_PROCESS"] \in Messages
    /\ \A kind \in Kinds : [type |-> "CALL", kind |-> kind] \in Messages
    /\ \A n \in Actors, g \in Groups : [type |-> "CREATE", actor |-> n, pids |-> g] \in Messages
  BY DEF Messages, GetMsg, StopMsg

\* Receiving takes the first message of one channel.
LEMMA ReceiveEffect ==
    ASSUME TypeOK, NEW c \in Procs, NEW p \in Ranks, NEW t, Receive(p, c, t)
    PROVE  /\ server[p] = "run"
           /\ p \in Overtaking \/ c = p \/ mgmt[p][p] = << >>
           /\ mgmt' \in [Procs -> [Ranks -> Seq(Messages)]]
           /\ mgmt[c][p] # << >>
           /\ mgmt'[c][p] = Tail(mgmt[c][p])
           /\ Head(mgmt[c][p]) = mgmt[c][p][1] /\ Head(mgmt[c][p]) \in Messages
           /\ Head(mgmt[c][p]).type = t
           /\ Len(mgmt[c][p]) \in Nat /\ Len(mgmt[c][p]) >= 1
           /\ Len(mgmt'[c][p]) = Len(mgmt[c][p]) - 1
           /\ \A i \in 1..Len(mgmt'[c][p]) : mgmt'[c][p][i] = mgmt[c][p][i + 1]
           /\ \A d \in Procs, q \in Ranks : ~(d = c /\ q = p) => mgmt'[d][q] = mgmt[d][q]
  <1>1. mgmt[c][p] \in Seq(Messages)
    BY DEF TypeOK
  <1>2. /\ server[p] = "run" /\ mgmt[c][p] # << >> /\ Head(mgmt[c][p]).type = t
        /\ p \in Overtaking \/ c = p \/ mgmt[p][p] = << >>
        /\ mgmt' = [mgmt EXCEPT ![c][p] = Tail(@)]
    BY DEF Receive
  <1>3. Tail(mgmt[c][p]) \in Seq(Messages)
    BY <1>1, <1>2, TailFacts
  <1>4. /\ mgmt' \in [Procs -> [Ranks -> Seq(Messages)]]
        /\ mgmt'[c][p] = Tail(mgmt[c][p])
        /\ \A d \in Procs, q \in Ranks : ~(d = c /\ q = p) => mgmt'[d][q] = mgmt[d][q]
    BY <1>2, <1>3 DEF TypeOK
  <1>. QED
    BY <1>1, <1>2, <1>4, TailFacts

\* Sending adds a message at the end of one channel.
LEMMA SendEffect ==
    ASSUME TypeOK, NEW c \in Procs, NEW p \in Ranks, NEW m \in Messages, Send(c, p, m)
    PROVE  /\ mgmt' \in [Procs -> [Ranks -> Seq(Messages)]]
           /\ mgmt'[c][p] = Append(mgmt[c][p], m)
           /\ \A d \in Procs, q \in Ranks : ~(d = c /\ q = p) => mgmt'[d][q] = mgmt[d][q]
  <1>1. mgmt[c][p] \in Seq(Messages)
    BY DEF TypeOK
  <1>2. mgmt' = [mgmt EXCEPT ![c][p] = Append(@, m)]
    BY DEF Send
  <1>3. Append(mgmt[c][p], m) \in Seq(Messages)
    BY <1>1, AppendFacts
  <1>. QED
    BY <1>2, <1>3 DEF TypeOK

\* Sending to several processes adds the message at the end of each channel.
LEMMA SendAllEffect ==
    ASSUME TypeOK, NEW c \in Procs, NEW P \in SUBSET Ranks, NEW m \in Messages, SendAll(c, P, m)
    PROVE  /\ mgmt' \in [Procs -> [Ranks -> Seq(Messages)]]
           /\ \A p \in P : mgmt'[c][p] = Append(mgmt[c][p], m)
           /\ \A p \in Ranks \ P : mgmt'[c][p] = mgmt[c][p]
           /\ \A d \in Procs \ {c}, q \in Ranks : mgmt'[d][q] = mgmt[d][q]
  <1>1. mgmt' = [mgmt EXCEPT ![c] = [p \in Ranks |-> IF p \in P THEN Append(mgmt[c][p], m) ELSE mgmt[c][p]]]
    BY DEF SendAll
  <1>2. \A p \in Ranks : mgmt[c][p] \in Seq(Messages) /\ Append(mgmt[c][p], m) \in Seq(Messages)
    BY AppendFacts DEF TypeOK
  <1>3. [p \in Ranks |-> IF p \in P THEN Append(mgmt[c][p], m) ELSE mgmt[c][p]] \in [Ranks -> Seq(Messages)]
    BY <1>2
  <1>. QED
    BY <1>1, <1>3 DEF TypeOK

-----------------------------------------------------------------------------
(***************************************************************************)
(* The initial states.                                                     *)
(***************************************************************************)

\* No actor is created.
LEMMA InitLife == Init => LifeInv
  <1>. SUFFICES ASSUME Init PROVE LifeInv
    OBVIOUS
  <1>1. Created = {} /\ Alive = {} /\ destroyed = {}
    BY DEF Init, Created, Alive
  <1>2. TypeOK
    BY DEF Init, TypeOK, Idle, Procs, ThreadStates
  <1>3. UncreatedInv /\ GroupInv /\ SyncInv /\ CountInv /\ DestroyedInv
    BY <1>1 DEF Init, UncreatedInv, GroupInv, SyncInv, CountInv, DestroyedInv
  <1>4. ThreadInv
    BY DEF Init, ThreadInv, Actors, NoActor
  <1>5. SelfInv
    BY <1>1 DEF Init, SelfInv, Procs
  <1>6. ServerInv
    BY <1>1 DEF Init, ServerInv
  <1>7. ProgramInv
    BY <1>1 DEF Init, ProgramInv, ReplyInv, ActorInv, Idle, Asking, Over
  <1>8. ClientInv
    BY DEF Init, ClientInv, Procs
  <1>. QED
    BY <1>2, <1>3, <1>4, <1>5, <1>6, <1>7, <1>8 DEF LifeInv

-----------------------------------------------------------------------------
(***************************************************************************)
(* Steps of the worker threads.  A worker of n at p goes on to t: what     *)
(* this leaves of the invariant, whatever t is.                            *)
(***************************************************************************)

Moves(n, p, t) == thread' = [thread EXCEPT ![n][p] = t]

\* What is seen of the threads after the step.
LEMMA MoveFacts ==
    ASSUME LifeInv, NEW n \in Actors, NEW p \in Ranks, NEW t \in ThreadStates \ {"none"},
           thread[n][p] \notin {"none", "done"}, Leaving(n, p) => t = "done",
           Moves(n, p, t), t \in {"asking", "answered"} => p = HeadOf(n),
           group' = group, destroyed' = destroyed, proxy' = proxy
    PROVE  /\ thread' \in [Actors -> [Ranks -> ThreadStates]]
           /\ thread'[n][p] = t
           /\ \A k \in Actors, q \in Ranks : ~(k = n /\ q = p) =>
                 thread'[k][q] = thread[k][q] /\ (Leaving(k, q)' <=> Leaving(k, q))
           /\ \A k \in Actors, q \in Ranks :
                 /\ thread'[k][q] = "none" <=> thread[k][q] = "none"
                 /\ thread[k][q] = "done" => thread'[k][q] = "done"
                 /\ Leaving(k, q) => Leaving(k, q)'
           /\ n \in Created /\ p \in Members(n) /\ proxy[p] = n
           /\ GroupInv' /\ ThreadInv' /\ DestroyedInv'
  <1>1. thread \in [Actors -> [Ranks -> ThreadStates]]
    BY DEF LifeInv, TypeOK
  <1>2. /\ thread' \in [Actors -> [Ranks -> ThreadStates]]
        /\ thread'[n][p] = t
        /\ \A k \in Actors, q \in Ranks : ~(k = n /\ q = p) => thread'[k][q] = thread[k][q]
    BY <1>1 DEF Moves
  <1>3. \A k \in Actors, q \in Ranks : ~(k = n /\ q = p) => (Leaving(k, q)' <=> Leaving(k, q))
    BY <1>2 DEF Leaving
  <1>4. Leaving(n, p) => Leaving(n, p)'
    BY <1>2 DEF Leaving
  <1>5. \A k \in Actors, q \in Ranks :
            /\ thread'[k][q] = "none" <=> thread[k][q] = "none"
            /\ thread[k][q] = "done" => thread'[k][q] = "done"
            /\ Leaving(k, q) => Leaving(k, q)'
    BY <1>2, <1>3, <1>4
  <1>6. n \in Created /\ p \in Members(n) /\ proxy[p] = n
    BY DEF LifeInv, ThreadInv
  <1>7. /\ Created' = Created /\ Alive' = Alive
        /\ \A k : Members(k)' = Members(k) /\ HeadOf(k)' = HeadOf(k)
    BY GroupFrame
  <1>8. GroupInv'
    BY <1>7 DEF LifeInv, GroupInv
  <1>9. ThreadInv'
    BY <1>2, <1>5, <1>6, <1>7 DEF LifeInv, ThreadInv
  <1>10. DestroyedInv'
    <2>. SUFFICES ASSUME NEW k \in destroyed PROVE k \in Created /\ Gone(k)'
      BY <1>7 DEF DestroyedInv
    <2>1. k \in Created /\ Gone(k)
      BY DEF LifeInv, DestroyedInv
    <2>2. k \in Actors /\ HeadOf(k) \in Ranks /\ Members(k) \subseteq Ranks
      BY <2>1, GroupFacts DEF LifeInv
    <2>. QED
      BY <1>5, <1>7, <2>1, <2>2 DEF Gone
  <1>. QED
    BY <1>2, <1>3, <1>5, <1>6, <1>8, <1>9, <1>10

\* What the program and the management threads know of the actors stays true.
LEMMA MoveKeeps ==
    ASSUME LifeInv, NEW n \in Actors, NEW p \in Ranks, NEW t \in ThreadStates \ {"none"},
           thread[n][p] \notin {"none", "done"}, Leaving(n, p) => t = "done",
           Moves(n, p, t), t \in {"asking", "answered"} => p = HeadOf(n),
           UNCHANGED <<reply, program, group, destroyed, ncalls, server, proxy, answerStop>>,
           (t \in {"leave", "done"} /\ p = HeadOf(n)) => server[p] # "run",
           \A k \in Actors, q \in Ranks : NoExit(k, q) => NoExit(k, q)',
           \A q \in Ranks : mgmt'[Client][q] = mgmt[Client][q]
    PROVE  ServerInv' /\ ProgramInv' /\ ClientInv'
  <1>1. /\ thread'[n][p] = t
        /\ \A k \in Actors, q \in Ranks : ~(k = n /\ q = p) =>
              thread'[k][q] = thread[k][q] /\ (Leaving(k, q)' <=> Leaving(k, q))
        /\ \A k \in Actors, q \in Ranks :
              /\ thread'[k][q] = "none" <=> thread[k][q] = "none"
              /\ thread[k][q] = "done" => thread'[k][q] = "done"
              /\ Leaving(k, q) => Leaving(k, q)'
        /\ n \in Created /\ p \in Members(n) /\ proxy[p] = n
    <2>1. group' = group /\ destroyed' = destroyed /\ proxy' = proxy
      OBVIOUS
    <2>. QED
      BY <2>1, MoveFacts
  <1>2. /\ Created' = Created /\ Alive' = Alive
        /\ \A k : Members(k)' = Members(k) /\ HeadOf(k)' = HeadOf(k) /\ Slaves(k)' = Slaves(k)
    BY GroupFrame
  <1>3. \A k \in Created : k \in Actors /\ HeadOf(k) \in Ranks /\ Members(k) \subseteq Ranks
    BY GroupFacts DEF LifeInv
  <1>4. \A k \in Created, q \in Ranks : SlaveLeft(k, q) => SlaveLeft(k, q)'
    BY <1>1, <1>2, <1>3 DEF SlaveLeft
  <1>5. \A k \in Created : Gone(k) => Gone(k)'
    BY <1>1, <1>2, <1>3 DEF Gone
  <1>6. \A k : HeadReady(k)' <=> HeadReady(k)
    BY <1>2 DEF HeadReady
  <1>7. ServerInv'
    <2>. SUFFICES ASSUME NEW q \in Ranks
                  PROVE  /\ server[q] = "barrier" => proxy[q] = NoActor
                         /\ server[q] \in {"stop", "cleanup"} => proxy[q] # NoActor
                         /\ server[q] \in {"cleanup", "barrier"} => program.pc \in {"barrier", "done"}
                         /\ (server[q] = "stop" /\ answerStop[q]) =>
                               /\ program.pc = "STOP" /\ program.to = q /\ program.actor = proxy[q]
                               /\ reply[q] = << >>
                         /\ (server[q] = "stop" /\ ~answerStop[q]) => \E k \in Created : SlaveLeft(k, q)'
                         /\ \A k \in Created : (server[q] = "run" /\ proxy[q] = k /\ q = HeadOf(k)) =>
                               (~Leaving(k, q) /\ NoExit(k, q))'
      BY <1>2 DEF ServerInv
    <2>1. \A k \in Created : (server[q] = "run" /\ proxy[q] = k /\ q = HeadOf(k)) => (~Leaving(k, q) /\ NoExit(k, q))'
      <3>. SUFFICES ASSUME NEW k \in Created, server[q] = "run", proxy[q] = k, q = HeadOf(k)
                    PROVE  (~Leaving(k, q))' /\ NoExit(k, q)'
        OBVIOUS
      <3>1. ~Leaving(k, q) /\ NoExit(k, q)
        BY DEF LifeInv, ServerInv
      <3>2. CASE k = n /\ q = p
        BY <1>1, <1>3, <3>1, <3>2 DEF Leaving
      <3>3. CASE ~(k = n /\ q = p)
        BY <1>1, <1>3, <3>1, <3>3
      <3>. QED
        BY <3>2, <3>3
    <2>2. (server[q] = "stop" /\ ~answerStop[q]) => \E k \in Created : SlaveLeft(k, q)'
      BY <1>4 DEF LifeInv, ServerInv
    <2>. QED
      BY <2>1, <2>2 DEF LifeInv, ServerInv
  <1>8. ProgramInv'
    <2>1. ReplyInv' /\ (program.pc \in Asking => program.actor \in Actors)'
      BY DEF LifeInv, ProgramInv, ReplyInv
    <2>2. ASSUME NEW k \in Actors PROVE ActorInv(k)'
      <3>1. ActorInv(k)
        BY DEF LifeInv, ProgramInv
      <3>2. k \in Alive => k \in Created
        BY DEF Alive
      <3>3. (program.pc = "STOP" /\ program.actor = k) => k \in Created
        BY <3>1, <3>2 DEF ActorInv, Asking
      <3>4. (program.pc = "CREATE" /\ program.actor = k) => k \in Created
        BY <3>1, <3>2 DEF ActorInv, Asking
      <3>. QED
        BY <1>1, <1>2, <1>3, <1>5, <1>6, <3>1, <3>2, <3>3, <3>4 DEF ActorInv
    <2>3. (program.pc = "done" => \A q \in Ranks : server[q] = "barrier")'
      BY DEF LifeInv, ProgramInv
    <2>. QED
      BY <2>1, <2>2, <2>3 DEF ProgramInv
  <1>9. ClientInv'
    <2>1. ASSUME NEW q \in Ranks, NEW m \in Messages, FromProgram(q, m)
          PROVE  FromProgram(q, m)'
      <3>1. \A k : CreateMsg(k)' = CreateMsg(k)
        BY DEF CreateMsg
      <3>2. \A k \in Alive : k \in Created /\ k \in Actors
        BY <1>3 DEF Alive
      <3>. QED
        BY <1>1, <1>2, <1>6, <2>1, <3>1, <3>2 DEF FromProgram
    <2>. QED
      BY <2>1 DEF LifeInv, ClientInv
  <1>. QED
    BY <1>7, <1>8, <1>9

\* The other actors are not concerned.
LEMMA MoveOthers ==
    ASSUME LifeInv, NEW n \in Created,
           UNCHANGED <<reply, program, group, destroyed, ncalls>>,
           \A k \in Actors \ {n} : /\ thread'[k] = thread[k] /\ executed'[k] = executed[k] /\ syncs'[k] = syncs[k]
                                   /\ queue'[k] = queue[k] /\ functions'[k] = functions[k],
           SyncOf(n)', CountOf(n)'
    PROVE  UncreatedInv' /\ SyncInv' /\ CountInv'
  <1>1. /\ Created' = Created /\ Alive' = Alive
        /\ \A k : Members(k)' = Members(k) /\ HeadOf(k)' = HeadOf(k) /\ Slaves(k)' = Slaves(k)
    BY GroupFrame
  <1>2. group[n] # << >> /\ n \in Actors
    BY DEF Created
  <1>3. UncreatedInv'
    BY <1>2 DEF LifeInv, UncreatedInv
  <1>4. ASSUME NEW k \in Created, k # n PROVE SyncOf(k)' /\ CountOf(k)'
    <2>1. /\ thread'[k] = thread[k] /\ executed'[k] = executed[k] /\ syncs'[k] = syncs[k]
          /\ queue'[k] = queue[k] /\ functions'[k] = functions[k]
      BY <1>4 DEF Created
    <2>2. SyncOf(k) /\ CountOf(k)
      BY DEF LifeInv, SyncInv, CountInv
    <2>3. \A q : Leaving(k, q)' <=> Leaving(k, q)
      BY <2>1 DEF Leaving
    <2>4. BarrierInv(k)'
      BY <1>1, <2>1, <2>2 DEF SyncOf, BarrierInv
    <2>5. BroadcastInv(k)'
      BY <1>1, <2>1, <2>2, <2>3 DEF SyncOf, BroadcastInv
    <2>6. EndInv(k)'
      BY <1>1, <2>1, <2>2, <2>3 DEF SyncOf, EndInv
    <2>7. HeadQueue(k)' = HeadQueue(k) /\ Busy(k)' = Busy(k) /\ Sent(k)' = Sent(k)
      BY <1>1, <2>1 DEF HeadQueue, Busy, Sent
    <2>8. Exit(k)' = Exit(k)
      BY <2>7 DEF Exit
    <2>9. CountOf(k)'
      BY <1>1, <2>1, <2>2, <2>7, <2>8 DEF CountOf, Off
    <2>. QED
      BY <2>4, <2>5, <2>6, <2>9 DEF SyncOf
  <1>5. SyncInv' /\ CountInv'
    BY <1>1, <1>4 DEF SyncInv, CountInv
  <1>. QED
    BY <1>3, <1>5

\* Nothing is sent.
LEMMA MoveSelf ==
    ASSUME LifeInv, NEW n \in Actors, NEW p \in Ranks, NEW t \in ThreadStates \ {"none"},
           thread[n][p] \notin {"none", "done", "asking"}, Leaving(n, p) => t = "done",
           Moves(n, p, t), t \in {"asking", "answered"} => p = HeadOf(n),
           UNCHANGED <<mgmt, group, destroyed, server, proxy>>,
           (t \in {"leave", "done"} /\ p \in Slaves(n)) => Leaving(n, p)
    PROVE  SelfInv'
  <1>1. /\ thread'[n][p] = t
        /\ \A k \in Actors, q \in Ranks : ~(k = n /\ q = p) =>
              thread'[k][q] = thread[k][q] /\ (Leaving(k, q)' <=> Leaving(k, q))
        /\ \A k \in Actors, q \in Ranks : Leaving(k, q) => Leaving(k, q)'
        /\ n \in Created /\ p \in Members(n) /\ proxy[p] = n
    <2>1. group' = group /\ destroyed' = destroyed /\ proxy' = proxy
      OBVIOUS
    <2>. QED
      BY <2>1, MoveFacts
  <1>2. /\ Created' = Created
        /\ \A k : HeadOf(k)' = HeadOf(k) /\ Slaves(k)' = Slaves(k)
    BY GroupFrame
  <1>3. \A k \in Created : k \in Actors
    BY DEF Created
  <1>4. \A k \in Created, q \in Ranks : SlaveLeft(k, q)' <=> SlaveLeft(k, q)
    <2>. SUFFICES ASSUME NEW k \in Created, NEW q \in Ranks PROVE SlaveLeft(k, q)' <=> SlaveLeft(k, q)
      OBVIOUS
    <2>1. CASE k = n /\ q = p
      BY <1>1, <1>2, <1>3, <2>1 DEF SlaveLeft, Leaving
    <2>2. CASE ~(k = n /\ q = p)
      BY <1>1, <1>2, <1>3, <2>2 DEF SlaveLeft
    <2>. QED
      BY <2>1, <2>2
  <1>5. \A k \in Created, q \in Ranks : thread[k][q] = "asking" => thread'[k][q] = "asking"
    BY <1>1, <1>3
  <1>. SUFFICES ASSUME NEW q \in Ranks
                PROVE  /\ \A c \in Ranks : c # q => mgmt[c][q] = << >>
                       /\ mgmt[q][q] \in {<< >>, <<GetMsg>>, <<StopMsg>>}
                       /\ mgmt[q][q] = <<GetMsg>> =>
                             \E k \in Created : proxy[q] = k /\ q = HeadOf(k) /\ thread'[k][q] = "asking"
                       /\ mgmt[q][q] = <<StopMsg>> =>
                             \/ server[q] = "barrier"
                             \/ server[q] \in {"run", "cleanup"} /\ \E k \in Created : SlaveLeft(k, q)'
                       /\ (server[q] = "run" /\ \E k \in Created : SlaveLeft(k, q)') => mgmt[q][q] = <<StopMsg>>
    BY <1>2 DEF SelfInv
  <1>. QED
    BY <1>4, <1>5 DEF LifeInv, SelfInv

(***************************************************************************)
(* The parts of a worker's step.                                           *)
(***************************************************************************)

\* Entering a barrier counts one more for the worker.
LEMMA EnterSyncEffect ==
    ASSUME TypeOK, NEW n \in Actors, NEW p \in Ranks, EnterSync(n, p)
    PROVE  /\ syncs' \in [Actors -> [Ranks -> Nat]]
           /\ syncs[n][p] \in Nat /\ syncs'[n][p] = syncs[n][p] + 1
           /\ \A q \in Ranks : q # p => syncs'[n][q] = syncs[n][q]
           /\ \A k \in Actors \ {n} : syncs'[k] = syncs[k]
  <1>1. syncs \in [Actors -> [Ranks -> Nat]] /\ syncs' = [syncs EXCEPT ![n][p] = @ + 1]
    BY DEF TypeOK, EnterSync
  <1>. QED
    BY <1>1

\* The head takes the first request of its queue.
LEMMA TakesEffect ==
    ASSUME TypeOK, NEW n \in Created, NEW p \in Ranks, NEW r, Takes(n, p, r), group' = group
    PROVE  /\ p = HeadOf(n) /\ thread[n][p] = "loop"
           /\ queue' \in [Actors -> [Ranks -> Seq(Requests)]]
           /\ HeadQueue(n) = queue[n][p] /\ HeadQueue(n)' = queue'[n][p]
           /\ queue[n][p] \in Seq(Requests) /\ queue'[n][p] \in Seq(Requests)
           /\ queue[n][p][1] = r /\ queue[n][p] # << >>
           /\ Len(queue[n][p]) \in Nat /\ Len(queue[n][p]) >= 1
           /\ Len(queue'[n][p]) = Len(queue[n][p]) - 1
           /\ \A i \in 1..Len(queue'[n][p]) : queue'[n][p][i] = queue[n][p][i + 1]
           /\ \A k \in Actors \ {n} : queue'[k] = queue[k]
           /\ \A q \in Ranks : q # p => queue'[n][q] = queue[n][q]
           /\ \A k \in Actors, q \in Ranks : NoExit(k, q) => NoExit(k, q)'
  <1>1. n \in Actors
    BY DEF Created
  <1>2. /\ thread[n][p] = "loop" /\ p = HeadOf(n) /\ queue[n][p] # << >> /\ Head(queue[n][p]) = r
        /\ queue' = [queue EXCEPT ![n][p] = Tail(@)]
    BY DEF Takes
  <1>3. queue \in [Actors -> [Ranks -> Seq(Requests)]] /\ queue[n][p] \in Seq(Requests)
    BY <1>1 DEF TypeOK
  <1>4. /\ Tail(queue[n][p]) \in Seq(Requests) /\ Head(queue[n][p]) = queue[n][p][1]
        /\ Len(queue[n][p]) \in Nat /\ Len(queue[n][p]) >= 1
        /\ Len(Tail(queue[n][p])) = Len(queue[n][p]) - 1
        /\ \A i \in 1..Len(Tail(queue[n][p])) : Tail(queue[n][p])[i] = queue[n][p][i + 1]
    BY <1>2, <1>3, TailFacts
  <1>5. /\ queue' \in [Actors -> [Ranks -> Seq(Requests)]]
        /\ queue'[n][p] = Tail(queue[n][p])
        /\ \A k \in Actors \ {n} : queue'[k] = queue[k]
        /\ \A q \in Ranks : q # p => queue'[n][q] = queue[n][q]
    BY <1>1, <1>2, <1>3, <1>4
  <1>6. HeadQueue(n) = queue[n][p] /\ HeadQueue(n)' = queue'[n][p]
    BY <1>2, GroupFrame DEF HeadQueue
  <1>7. ASSUME NEW k \in Actors, NEW q \in Ranks, NoExit(k, q) PROVE NoExit(k, q)'
    <2>1. CASE k = n /\ q = p
      <3>1. \A i \in 1..Len(Tail(queue[n][p])) : i + 1 \in 1..Len(queue[n][p])
        BY <1>4
      <3>2. \A i \in 1..Len(queue[n][p]) : queue[n][p][i] # "exit"
        BY <1>7, <2>1 DEF NoExit
      <3>3. \A i \in 1..Len(queue'[n][p]) : queue'[n][p][i] # "exit"
        BY <1>4, <1>5, <3>1, <3>2
      <3>. QED
        BY <2>1, <3>3 DEF NoExit
    <2>2. CASE ~(k = n /\ q = p)
      BY <1>5, <1>7, <2>2 DEF NoExit
    <2>. QED
      BY <2>1, <2>2
  <1>. QED
    BY <1>2, <1>3, <1>4, <1>5, <1>6, <1>7

\* Taking a call leaves the exit in its place.
LEMMA TakesCount ==
    ASSUME LifeInv, NEW n \in Created, NEW p \in Ranks, NEW r, Takes(n, p, r), r # "exit", group' = group
    PROVE  /\ Len(HeadQueue(n)) \in Nat /\ Len(HeadQueue(n)') = Len(HeadQueue(n)) - 1
           /\ Exit(n)' = Exit(n)
           /\ \A i \in 1..(Len(HeadQueue(n)') - 1) : HeadQueue(n)'[i] # "exit"
  <1>1. /\ HeadQueue(n) = queue[n][p] /\ HeadQueue(n)' = queue'[n][p]
        /\ queue[n][p] \in Seq(Requests) /\ queue'[n][p] \in Seq(Requests)
        /\ queue[n][p][1] = r /\ queue[n][p] # << >>
        /\ Len(queue[n][p]) \in Nat /\ Len(queue[n][p]) >= 1
        /\ Len(queue'[n][p]) = Len(queue[n][p]) - 1
        /\ \A i \in 1..Len(queue'[n][p]) : queue'[n][p][i] = queue[n][p][i + 1]
    BY TakesEffect DEF LifeInv
  <1>2. \A i \in 1..(Len(queue[n][p]) - 1) : queue[n][p][i] # "exit"
    BY <1>1 DEF LifeInv, CountInv, CountOf
  <1>3. queue'[n][p] = << >> <=> Len(queue'[n][p]) = 0
    BY <1>1, EmptyFacts
  <1>4. Exit(n)' = Exit(n)
    <2>1. CASE Len(queue[n][p]) = 1
      <3>1. queue'[n][p] = << >> /\ queue[n][p][Len(queue[n][p])] = r
        BY <1>1, <1>3, <2>1
      <3>. QED
        BY <1>1, <3>1 DEF Exit
    <2>2. CASE Len(queue[n][p]) # 1
      <3>. DEFINE l == Len(queue[n][p])
                  l1 == Len(queue'[n][p])
      <3>0. l \in Nat /\ l >= 1 /\ l # 1 /\ l1 = l - 1
        BY <1>1, <2>2
      <3>. HIDE DEF l, l1
      <3>1. l1 \in 1..l1 /\ l1 + 1 = l /\ l1 # 0
        BY <3>0
      <3>2. queue'[n][p][l1] = queue[n][p][l] /\ queue'[n][p] # << >>
        BY <1>1, <1>3, <3>1, Zenon DEF l1
      <3>. USE DEF l, l1
      <3>. QED
        BY <1>1, <3>2 DEF Exit
    <2>. QED
      BY <2>1, <2>2
  <1>5. \A i \in 1..(Len(queue'[n][p]) - 1) : queue'[n][p][i] # "exit"
    <2>1. \A i \in 1..(Len(queue'[n][p]) - 1) : i \in 1..Len(queue'[n][p]) /\ i + 1 \in 1..(Len(queue[n][p]) - 1)
      BY <1>1
    <2>. QED
      BY <1>1, <1>2, <2>1
  <1>. QED
    BY <1>1, <1>4, <1>5

\* The head broadcasts a function id to its slaves.
LEMMA BroadcastEffect ==
    ASSUME TypeOK, NEW n \in Actors, NEW id \in {0, 1}, Broadcast(n, id)
    PROVE  /\ functions' \in [Actors -> [Ranks -> Seq({0, 1})]]
           /\ \A k \in Actors \ {n} : functions'[k] = functions[k]
           /\ \A q \in Ranks : q \notin Slaves(n) => functions'[n][q] = functions[n][q]
           /\ \A q \in Ranks : q \in Slaves(n) => functions'[n][q] = Append(functions[n][q], id)
  <1>1. functions' = [functions EXCEPT ![n] =
            [q \in Ranks |-> IF q \in Slaves(n) THEN Append(functions[n][q], id) ELSE functions[n][q]]]
    BY DEF Broadcast
  <1>2. functions \in [Actors -> [Ranks -> Seq({0, 1})]]
    BY DEF TypeOK
  <1>3. \A q \in Ranks : functions[n][q] \in Seq({0, 1}) /\ Append(functions[n][q], id) \in Seq({0, 1})
    BY <1>2, AppendFacts
  <1>4. [q \in Ranks |-> IF q \in Slaves(n) THEN Append(functions[n][q], id) ELSE functions[n][q]]
            \in [Ranks -> Seq({0, 1})]
    BY <1>3
  <1>. QED
    BY <1>1, <1>2, <1>4

\* A worker that neither starts nor leaves and enters no barrier.
LEMMA QuietSync ==
    ASSUME LifeInv, NEW n \in Actors, NEW p \in Ranks, NEW t \in ThreadStates \ Early,
           thread[n][p] \notin Early, ~Leaving(n, p), t \notin {"leave", "done"},
           Moves(n, p, t), group' = group, syncs' = syncs, functions' = functions
    PROVE  SyncOf(n)'
  <1>1. thread \in [Actors -> [Ranks -> ThreadStates]]
    BY DEF LifeInv, TypeOK
  <1>2. thread'[n][p] = t /\ \A q \in Ranks : q # p => thread'[n][q] = thread[n][q]
    BY <1>1 DEF Moves
  <1>3. n \in Created /\ p \in Members(n)
    BY DEF LifeInv, ThreadInv, Early
  <1>4. /\ HeadOf(n) \in Ranks /\ Members(n) \subseteq Ranks
        /\ \A q \in Slaves(n) : q \in Members(n) /\ q \in Ranks
    BY <1>3, GroupFacts DEF LifeInv
  <1>5. Members(n)' = Members(n) /\ HeadOf(n)' = HeadOf(n) /\ Slaves(n)' = Slaves(n)
    BY GroupFrame
  <1>6. BarrierInv(n) /\ BroadcastInv(n) /\ EndInv(n)
    BY <1>3 DEF LifeInv, SyncInv, SyncOf
  <1>7. \A q \in Ranks : Leaving(n, q)' <=> Leaving(n, q)
    BY <1>2 DEF Leaving
  <1>8. \A q \in Ranks : /\ thread'[n][q] \in Early <=> thread[n][q] \in Early
                         /\ thread[n][q] \in Early => thread'[n][q] = thread[n][q]
                         /\ thread'[n][q] = "done" <=> thread[n][q] = "done"
    BY <1>2 DEF Leaving
  <1>9. BarrierInv(n)'
    <2>. SUFFICES ASSUME NEW q \in Members(n)
                  PROVE  /\ thread'[n][q] \in {"none", "start"} <=> syncs[n][q] = 0
                         /\ thread'[n][q] = "construct" => syncs[n][q] = 1
                         /\ thread'[n][q] \notin Early => \A s \in Members(n) : syncs[n][s] >= 1
      BY <1>5 DEF BarrierInv
    <2>1. q \in Ranks
      BY <1>4
    <2>. QED
      BY <1>6, <1>8, <2>1 DEF BarrierInv, Early
  <1>10. BroadcastInv(n)'
    BY <1>4, <1>5, <1>6, <1>7, <1>8 DEF BroadcastInv
  <1>11. EndInv(n)'
    BY <1>4, <1>5, <1>6, <1>7, <1>8 DEF EndInv
  <1>. QED
    BY <1>9, <1>10, <1>11 DEF SyncOf

\* What is left to show of a worker's step: the barriers, the calls and the
\* messages it sends itself.
LEMMA ThreadLife ==
    ASSUME LifeInv, NEW n \in Actors, NEW p \in Ranks, NEW t \in ThreadStates \ {"none"},
           thread[n][p] \notin {"none", "done"}, Leaving(n, p) => t = "done",
           Moves(n, p, t), t \in {"asking", "answered"} => p = HeadOf(n),
           UNCHANGED <<reply, program, group, destroyed, ncalls, server, proxy, answerStop>>,
           (t \in {"leave", "done"} /\ p = HeadOf(n)) => server[p] # "run",
           \A k \in Actors, q \in Ranks : NoExit(k, q) => NoExit(k, q)',
           \A q \in Ranks : mgmt'[Client][q] = mgmt[Client][q],
           mgmt' \in [Procs -> [Ranks -> Seq(Messages)]],
           syncs' \in [Actors -> [Ranks -> Nat]],
           queue' \in [Actors -> [Ranks -> Seq(Requests)]],
           functions' \in [Actors -> [Ranks -> Seq({0, 1})]],
           executed' \in [Actors -> Nat],
           \A k \in Actors \ {n} : /\ executed'[k] = executed[k] /\ syncs'[k] = syncs[k]
                                   /\ queue'[k] = queue[k] /\ functions'[k] = functions[k],
           SyncOf(n)', CountOf(n)', SelfInv'
    PROVE  LifeInv'
  <1>1. /\ thread' \in [Actors -> [Ranks -> ThreadStates]]
        /\ n \in Created /\ p \in Members(n) /\ proxy[p] = n
        /\ GroupInv' /\ ThreadInv' /\ DestroyedInv'
    <2>1. group' = group /\ destroyed' = destroyed /\ proxy' = proxy
      OBVIOUS
    <2>. QED
      BY <2>1, MoveFacts
  <1>2. \A k \in Actors \ {n} : thread'[k] = thread[k]
    BY DEF Moves, LifeInv, TypeOK
  <1>3. UncreatedInv' /\ SyncInv' /\ CountInv'
    BY <1>1, <1>2, MoveOthers
  <1>4. ServerInv' /\ ProgramInv' /\ ClientInv'
    BY MoveKeeps
  <1>5. TypeOK'
    <2>1. executed'[n] <= MaxCalls
      <3>. DEFINE q == HeadQueue(n)'
                  l == Len(q)
                  x == Exit(n)'
                  b == Busy(n)'
                  s == Sent(n)'
                  e == executed'[n]
      <3>1. HeadOf(n)' \in Ranks
        BY <1>1, GroupFacts, GroupFrame DEF LifeInv
      <3>2. q \in Seq(Requests)
        BY <3>1 DEF HeadQueue
      <3>3. l \in Nat /\ (q = << >> <=> l = 0)
        BY <3>2, EmptyFacts
      <3>4. x \in {0, 1} /\ (x = 1 => l # 0)
        BY <3>3 DEF Exit
      <3>5. b \in {0, 1} /\ s \in {0, 1}
        BY DEF Busy, Sent
      <3>6. e \in Nat /\ ncalls[n] \in 0..MaxCalls
        BY DEF LifeInv, TypeOK
      <3>7. e + l + b + s = ncalls[n] + x
        BY DEF CountOf
      <3>. HIDE DEF q, l, x, b, s, e
      <3>8. e <= MaxCalls
        BY <3>3, <3>4, <3>5, <3>6, <3>7
      <3>. QED
        BY <3>8 DEF e
    <2>2. executed \in [Actors -> 0..MaxCalls]
      BY DEF LifeInv, TypeOK
    <2>3. executed' \in [Actors -> 0..MaxCalls]
      <3>1. ASSUME NEW k \in Actors PROVE executed'[k] \in 0..MaxCalls
        <4>1. CASE k = n
          <5>1. executed'[n] \in Nat
            OBVIOUS
          <5>. QED
            BY <2>1, <4>1, <5>1
        <4>2. CASE k # n
          BY <2>2, <4>2
        <4>. QED
          BY <4>1, <4>2
      <3>. QED
        BY <3>1
    <2>. QED
      BY <1>1, <2>3 DEF LifeInv, TypeOK
  <1>. QED
    BY <1>1, <1>3, <1>4, <1>5 DEF LifeInv

(***************************************************************************)
(* The steps of the workers.                                               *)
(***************************************************************************)

\* The constructor enters the first barrier.
LEMMA StartThreadLife ==
    ASSUME LifeInv, NEW n \in Actors, NEW p \in Ranks, StartThread(n, p)
    PROVE  LifeInv'
  <1>1. /\ thread[n][p] = "start" /\ Moves(n, p, "construct") /\ EnterSync(n, p)
        /\ UNCHANGED <<mgmt, reply, program, group, destroyed, ncalls, server, proxy, answerStop,
                       queue, functions, executed>>
    BY DEF StartThread, Moves
  <1>2. "construct" \in ThreadStates \ {"none"} /\ ~Leaving(n, p)
    BY <1>1 DEF ThreadStates, Leaving
  <1>3. /\ thread' \in [Actors -> [Ranks -> ThreadStates]]
        /\ thread'[n][p] = "construct"
        /\ \A k \in Actors, q \in Ranks : ~(k = n /\ q = p) =>
              thread'[k][q] = thread[k][q] /\ (Leaving(k, q)' <=> Leaving(k, q))
        /\ n \in Created /\ p \in Members(n) /\ proxy[p] = n
    BY <1>1, <1>2, MoveFacts
  <1>4. /\ syncs' \in [Actors -> [Ranks -> Nat]]
        /\ syncs[n][p] \in Nat /\ syncs'[n][p] = syncs[n][p] + 1
        /\ \A q \in Ranks : q # p => syncs'[n][q] = syncs[n][q]
        /\ \A k \in Actors \ {n} : syncs'[k] = syncs[k]
    BY <1>1, EnterSyncEffect DEF LifeInv
  <1>5. /\ HeadOf(n) \in Ranks /\ HeadOf(n) \in Members(n) /\ Members(n) \subseteq Ranks
        /\ HeadOf(n) \notin Slaves(n)
        /\ \A q \in Slaves(n) : q \in Members(n) /\ q \in Ranks
    BY <1>3, GroupFacts DEF LifeInv
  <1>6. Members(n)' = Members(n) /\ HeadOf(n)' = HeadOf(n) /\ Slaves(n)' = Slaves(n)
    BY <1>1, GroupFrame
  <1>7. BarrierInv(n) /\ BroadcastInv(n) /\ EndInv(n)
    BY <1>3 DEF LifeInv, SyncInv, SyncOf
  <1>8. \A q \in Ranks : syncs[n][q] \in Nat
    BY DEF LifeInv, TypeOK
  <1>9. syncs[n][p] = 0 /\ \A q \in Members(n) : thread[n][q] \in Early
    BY <1>1, <1>3, <1>7, <1>8 DEF BarrierInv
  <1>10. \A q \in Ranks : Leaving(n, q)' <=> Leaving(n, q)
    BY <1>2, <1>3 DEF Leaving
  <1>11. BarrierInv(n)'
    <2>. SUFFICES ASSUME NEW q \in Members(n)
                  PROVE  /\ thread'[n][q] \in {"none", "start"} <=> syncs'[n][q] = 0
                         /\ thread'[n][q] = "construct" => syncs'[n][q] = 1
                         /\ thread'[n][q] \in Early
      BY <1>6 DEF BarrierInv
    <2>1. CASE q = p
      BY <1>3, <1>4, <1>9, <2>1 DEF Early
    <2>2. CASE q # p
      <3>1. q \in Ranks
        BY <1>5
      <3>2. thread'[n][q] = thread[n][q] /\ syncs'[n][q] = syncs[n][q]
        BY <1>3, <1>4, <2>2, <3>1
      <3>. QED
        BY <1>7, <1>9, <3>2 DEF BarrierInv
    <2>. QED
      BY <2>1, <2>2
  <1>12. \A q \in Ranks : functions[n][q] = << >>
    BY <1>5, <1>7, <1>9 DEF BroadcastInv
  <1>13. \A q \in Members(n) : syncs'[n][q] \in {0, 1}
    <2>1. ASSUME NEW q \in Members(n) PROVE syncs[n][q] \in {0, 1}
      BY <1>7, <1>9 DEF BarrierInv, Early
    <2>. QED
      BY <1>4, <1>5, <1>9, <2>1
  <1>14. BroadcastInv(n)'
    <2>1. ~Leaving(n, HeadOf(n)) /\ \A q \in Slaves(n) : ~Leaving(n, q)
      BY <1>5, <1>9 DEF Early, Leaving
    <2>2. Len(<< >>) = 0
      OBVIOUS
    <2>3. \A q \in Slaves(n) : syncs'[n][HeadOf(n)] >= 1 /\ syncs'[n][q] >= 1 => syncs'[n][HeadOf(n)] = syncs'[n][q] + 0
      BY <1>5, <1>13
    <2>. QED
      BY <1>1, <1>5, <1>6, <1>10, <1>12, <2>1, <2>2, <2>3 DEF BroadcastInv
  <1>15. EndInv(n)'
    BY <1>3, <1>5, <1>6, <1>9 DEF EndInv, Early
  <1>16. CountOf(n)'
    <2>1. HeadQueue(n)' = HeadQueue(n) /\ Sent(n)' = Sent(n)
      BY <1>1, <1>6 DEF HeadQueue, Sent
    <2>2. Exit(n)' = Exit(n)
      BY <2>1 DEF Exit
    <2>3. Busy(n)' = Busy(n)
      <3>1. thread'[n][HeadOf(n)] \in Early /\ thread[n][HeadOf(n)] \in Early
        BY <1>3, <1>5, <1>9 DEF Early
      <3>. QED
        BY <1>6, <3>1 DEF Busy, Early
    <2>4. Off(n)' <=> Off(n)
      <3>1. thread'[n][HeadOf(n)] = thread[n][HeadOf(n)] \/ HeadOf(n) = p
        BY <1>3, <1>5
      <3>. QED
        BY <1>1, <1>3, <1>6, <3>1 DEF Off
    <2>5. CountOf(n)
      BY <1>3 DEF LifeInv, CountInv
    <2>. QED
      BY <1>1, <2>1, <2>2, <2>3, <2>4, <2>5 DEF CountOf
  <1>17. SelfInv'
    BY <1>1, <1>2, MoveSelf
  <1>18. \A k \in Actors, q \in Ranks : NoExit(k, q) => NoExit(k, q)'
    BY <1>1 DEF NoExit
  <1>19. /\ mgmt' \in [Procs -> [Ranks -> Seq(Messages)]]
         /\ queue' \in [Actors -> [Ranks -> Seq(Requests)]]
         /\ functions' \in [Actors -> [Ranks -> Seq({0, 1})]]
         /\ executed' \in [Actors -> Nat]
    BY <1>1 DEF LifeInv, TypeOK
  <1>. QED
    BY <1>1, <1>2, <1>4, <1>11, <1>14, <1>15, <1>16, <1>17, <1>18, <1>19, ThreadLife DEF SyncOf

\* The constructor's barrier is left once every process of the actor entered it.
LEMMA EnterLoopLife ==
    ASSUME LifeInv, NEW n \in Actors, NEW p \in Ranks, EnterLoop(n, p)
    PROVE  LifeInv'
  <1>1. /\ thread[n][p] = "construct" /\ Moves(n, p, "loop") /\ CanLeaveSync(n, p)
        /\ UNCHANGED <<mgmt, reply, program, group, destroyed, ncalls, server, proxy, answerStop,
                       syncs, queue, functions, executed>>
    BY DEF EnterLoop, Moves
  <1>2. "loop" \in ThreadStates \ {"none"} /\ ~Leaving(n, p)
    BY <1>1 DEF ThreadStates, Leaving
  <1>3. /\ thread'[n][p] = "loop"
        /\ \A k \in Actors, q \in Ranks : ~(k = n /\ q = p) =>
              thread'[k][q] = thread[k][q] /\ (Leaving(k, q)' <=> Leaving(k, q))
        /\ n \in Created /\ p \in Members(n) /\ proxy[p] = n
    BY <1>1, <1>2, MoveFacts
  <1>4. /\ HeadOf(n) \in Ranks /\ HeadOf(n) \in Members(n) /\ Members(n) \subseteq Ranks
        /\ \A q \in Slaves(n) : q \in Members(n) /\ q \in Ranks
    BY <1>3, GroupFacts DEF LifeInv
  <1>5. Members(n)' = Members(n) /\ HeadOf(n)' = HeadOf(n) /\ Slaves(n)' = Slaves(n)
    BY <1>1, GroupFrame
  <1>6. BarrierInv(n) /\ BroadcastInv(n) /\ EndInv(n)
    BY <1>3 DEF LifeInv, SyncInv, SyncOf
  <1>7. \A q \in Members(n) : syncs[n][q] >= 1
    <2>1. syncs[n][p] = 1
      BY <1>1, <1>3, <1>6 DEF BarrierInv
    <2>. QED
      BY <1>1, <2>1 DEF CanLeaveSync
  <1>8. \A q \in Ranks : Leaving(n, q)' <=> Leaving(n, q)
    BY <1>2, <1>3 DEF Leaving
  <1>9. BarrierInv(n)'
    <2>. SUFFICES ASSUME NEW q \in Members(n)
                  PROVE  /\ thread'[n][q] \in {"none", "start"} <=> syncs[n][q] = 0
                         /\ thread'[n][q] = "construct" => syncs[n][q] = 1
      BY <1>1, <1>5, <1>7 DEF BarrierInv
    <2>1. CASE q = p
      BY <1>3, <1>7, <2>1
    <2>2. CASE q # p
      BY <1>3, <1>4, <1>6, <2>2 DEF BarrierInv
    <2>. QED
      BY <2>1, <2>2
  <1>10. BroadcastInv(n)'
    <2>1. \A q \in Ranks : thread[n][q] \notin Early => thread'[n][q] \notin Early
      BY <1>3 DEF Early
    <2>. QED
      BY <1>1, <1>4, <1>5, <1>6, <1>8, <2>1 DEF BroadcastInv
  <1>11. EndInv(n)'
    <2>1. \A q \in Ranks : thread'[n][q] = "done" => thread[n][q] = "done"
      BY <1>3
    <2>. QED
      BY <1>4, <1>5, <1>6, <1>8, <2>1 DEF EndInv
  <1>12. CountOf(n)'
    <2>1. HeadQueue(n)' = HeadQueue(n) /\ Sent(n)' = Sent(n)
      BY <1>1, <1>5 DEF HeadQueue, Sent
    <2>2. Exit(n)' = Exit(n)
      BY <2>1 DEF Exit
    <2>3. Busy(n)' = Busy(n)
      <3>1. thread'[n][HeadOf(n)] = thread[n][HeadOf(n)] \/ HeadOf(n) = p
        BY <1>3, <1>4
      <3>. QED
        BY <1>1, <1>3, <1>5, <3>1 DEF Busy
    <2>4. Off(n)' <=> Off(n)
      <3>1. thread'[n][HeadOf(n)] = thread[n][HeadOf(n)] \/ HeadOf(n) = p
        BY <1>3, <1>4
      <3>. QED
        BY <1>1, <1>3, <1>5, <3>1 DEF Off
    <2>5. CountOf(n)
      BY <1>3 DEF LifeInv, CountInv
    <2>. QED
      BY <1>1, <2>1, <2>2, <2>3, <2>4, <2>5 DEF CountOf
  <1>13. SelfInv'
    BY <1>1, <1>2, MoveSelf
  <1>14. \A k \in Actors, q \in Ranks : NoExit(k, q) => NoExit(k, q)'
    BY <1>1 DEF NoExit
  <1>15. /\ mgmt' \in [Procs -> [Ranks -> Seq(Messages)]]
         /\ syncs' \in [Actors -> [Ranks -> Nat]]
         /\ queue' \in [Actors -> [Ranks -> Seq(Requests)]]
         /\ functions' \in [Actors -> [Ranks -> Seq({0, 1})]]
         /\ executed' \in [Actors -> Nat]
    BY <1>1 DEF LifeInv, TypeOK
  <1>. QED
    BY <1>1, <1>2, <1>9, <1>10, <1>11, <1>12, <1>13, <1>14, <1>15, ThreadLife DEF SyncOf

\* What a step of the head's worker between its requests does to the count of calls.
LEMMA HeadCount ==
    ASSUME LifeInv, NEW n \in Created, NEW t \in ThreadStates, NEW x \in {0, 1}, NEW y \in {0, 1},
           group' = group, program' = program, reply' = reply, ncalls' = ncalls,
           thread'[n][HeadOf(n)] = t, t \notin {"none", "leave", "done"},
           Len(HeadQueue(n)) \in Nat, Len(HeadQueue(n)') = Len(HeadQueue(n)) - x, Exit(n)' = Exit(n),
           \A i \in 1..(Len(HeadQueue(n)') - 1) : HeadQueue(n)'[i] # "exit",
           executed'[n] = executed[n] + y,
           Busy(n)' + y = Busy(n) + x
    PROVE  CountOf(n)'
  <1>1. HeadOf(n)' = HeadOf(n)
    BY GroupFrame
  <1>2. Sent(n)' = Sent(n)
    BY <1>1 DEF Sent
  <1>3. CountOf(n)
    BY DEF LifeInv, CountInv
  <1>4. ~Off(n)'
    BY <1>1 DEF Off
  <1>5. executed'[n] + Len(HeadQueue(n)') + Busy(n)' + Sent(n)' = ncalls'[n] + Exit(n)'
    <2>1. executed[n] \in Nat /\ ncalls[n] \in Nat
      BY DEF LifeInv, TypeOK, Created
    <2>2. Busy(n) \in {0, 1} /\ Busy(n)' \in {0, 1} /\ Sent(n) \in {0, 1} /\ Exit(n) \in {0, 1}
      BY DEF Busy, Sent, Exit
    <2>3. executed[n] + Len(HeadQueue(n)) + Busy(n) + Sent(n) = ncalls[n] + Exit(n)
      BY <1>3 DEF CountOf
    <2>. DEFINE e == executed[n]
                l == Len(HeadQueue(n))
                b == Busy(n)
                b1 == Busy(n)'
                s == Sent(n)
                c == ncalls[n]
                o == Exit(n)
    <2>4. e \in Nat /\ l \in Nat /\ b \in {0, 1} /\ b1 \in {0, 1} /\ s \in {0, 1} /\ c \in Nat /\ o \in {0, 1}
      BY <2>1, <2>2
    <2>5. e + l + b + s = c + o /\ b1 + y = b + x
      BY <2>3
    <2>6. /\ executed'[n] = e + y /\ Len(HeadQueue(n)') = l - x /\ Busy(n)' = b1 /\ Sent(n)' = s
          /\ ncalls'[n] = c /\ Exit(n)' = o
      BY <1>2
    <2>. HIDE DEF e, l, b, b1, s, c, o
    <2>7. (e + y) + (l - x) + b1 + s = c + o
      BY <2>4, <2>5
    <2>. QED
      BY <2>6, <2>7
  <1>. QED
    BY <1>4, <1>5 DEF CountOf

\* A step that does not concern the head's worker does not change the count.
LEMMA SlaveCount ==
    ASSUME LifeInv, NEW n \in Created,
           group' = group, program' = program, reply' = reply, ncalls' = ncalls,
           thread'[n][HeadOf(n)] = thread[n][HeadOf(n)], queue'[n][HeadOf(n)] = queue[n][HeadOf(n)],
           executed'[n] = executed[n]
    PROVE  CountOf(n)'
  <1>1. HeadOf(n)' = HeadOf(n)
    BY GroupFrame
  <1>2. HeadQueue(n)' = HeadQueue(n) /\ Sent(n)' = Sent(n) /\ Busy(n)' = Busy(n)
    BY <1>1 DEF HeadQueue, Sent, Busy
  <1>3. Exit(n)' = Exit(n) /\ (Off(n)' <=> Off(n))
    BY <1>1, <1>2 DEF Exit, Off
  <1>4. CountOf(n)
    BY DEF LifeInv, CountInv
  <1>. QED
    BY <1>2, <1>3, <1>4 DEF CountOf

\* A worker that is not there yet is not taking requests.
LEMMA WorkerThere ==
    ASSUME LifeInv, NEW n \in Actors, NEW p \in Ranks, thread[n][p] \notin {"none", "done"}
    PROVE  /\ n \in Created /\ p \in Members(n) /\ proxy[p] = n
           /\ HeadOf(n) \in Ranks /\ HeadOf(n) \in Members(n) /\ Members(n) \subseteq Ranks
           /\ HeadOf(n) \notin Slaves(n)
           /\ \A q \in Members(n) : q \in Slaves(n) \/ q = HeadOf(n)
           /\ \A q \in Slaves(n) : q \in Members(n) /\ q \in Ranks
           /\ BarrierInv(n) /\ BroadcastInv(n) /\ EndInv(n) /\ CountOf(n)
  <1>1. n \in Created /\ p \in Members(n) /\ proxy[p] = n
    BY DEF LifeInv, ThreadInv
  <1>2. BarrierInv(n) /\ BroadcastInv(n) /\ EndInv(n) /\ CountOf(n)
    BY <1>1 DEF LifeInv, SyncInv, SyncOf, CountInv
  <1>. QED
    BY <1>1, <1>2, GroupFacts DEF LifeInv

\* A plain request is executed by the head alone.
LEMMA ExecutePlainLife ==
    ASSUME LifeInv, NEW n \in Actors, NEW p \in Ranks, ExecutePlain(n, p)
    PROVE  LifeInv'
  <1>1. /\ Takes(n, p, "plain") /\ executed' = [executed EXCEPT ![n] = @ + 1]
        /\ UNCHANGED <<mgmt, reply, program, group, destroyed, ncalls, server, proxy, answerStop,
                       thread, syncs, functions>>
    BY DEF ExecutePlain
  <1>2. thread[n][p] = "loop"
    BY <1>1 DEF Takes
  <1>3. n \in Created /\ HeadOf(n) \in Ranks
    BY <1>2, WorkerThere
  <1>4. /\ p = HeadOf(n)
        /\ queue' \in [Actors -> [Ranks -> Seq(Requests)]]
        /\ \A k \in Actors \ {n} : queue'[k] = queue[k]
        /\ \A k \in Actors, q \in Ranks : NoExit(k, q) => NoExit(k, q)'
    BY <1>1, <1>3, TakesEffect DEF LifeInv
  <1>5. /\ Len(HeadQueue(n)) \in Nat /\ Len(HeadQueue(n)') = Len(HeadQueue(n)) - 1
        /\ Exit(n)' = Exit(n)
        /\ \A i \in 1..(Len(HeadQueue(n)') - 1) : HeadQueue(n)'[i] # "exit"
    BY <1>1, <1>3, TakesCount
  <1>6. thread \in [Actors -> [Ranks -> ThreadStates]] /\ executed \in [Actors -> 0..MaxCalls]
    BY DEF LifeInv, TypeOK
  <1>7. thread' = [thread EXCEPT ![n][p] = "loop"]
    BY <1>1, <1>2, <1>6
  <1>8. Moves(n, p, "loop")
    BY <1>7 DEF Moves
  <1>9. /\ executed' \in [Actors -> Nat] /\ executed'[n] = executed[n] + 1
        /\ \A k \in Actors \ {n} : executed'[k] = executed[k]
    BY <1>1, <1>6
  <1>10. /\ "loop" \in ThreadStates \ {"none"} /\ "loop" \in ThreadStates \ Early /\ ~Leaving(n, p)
         /\ thread[n][p] \notin Early
    BY <1>2 DEF ThreadStates, Leaving, Early
  <1>11. Busy(n) = 0 /\ Busy(n)' = 0
    <2>1. HeadOf(n)' = HeadOf(n)
      BY <1>1, GroupFrame
    <2>. QED
      BY <1>1, <1>2, <1>4, <2>1 DEF Busy
  <1>12. CountOf(n)'
    <2>1. Busy(n)' + 1 = Busy(n) + 1
      BY <1>11
    <2>. QED
      BY <1>1, <1>2, <1>3, <1>4, <1>5, <1>9, <1>10, <2>1, HeadCount
  <1>13. SyncOf(n)'
    BY <1>1, <1>8, <1>10, QuietSync
  <1>14. SelfInv'
    BY <1>1, <1>2, <1>8, <1>10, MoveSelf
  <1>15. /\ mgmt' \in [Procs -> [Ranks -> Seq(Messages)]]
         /\ syncs' \in [Actors -> [Ranks -> Nat]]
         /\ functions' \in [Actors -> [Ranks -> Seq({0, 1})]]
    BY <1>1 DEF LifeInv, TypeOK
  <1>. QED
    BY <1>1, <1>2, <1>4, <1>8, <1>9, <1>10, <1>12, <1>13, <1>14, <1>15, ThreadLife

\* The head makes its slaves execute a function and enters its barrier.
LEMMA ExecuteSpmdLife ==
    ASSUME LifeInv, NEW n \in Actors, NEW p \in Ranks, ExecuteSpmd(n, p)
    PROVE  LifeInv'
  <1>1. /\ Takes(n, p, "spmd") /\ Broadcast(n, 1) /\ EnterSync(n, p) /\ Moves(n, p, "function")
        /\ UNCHANGED <<mgmt, reply, program, group, destroyed, ncalls, server, proxy, answerStop, executed>>
    BY DEF ExecuteSpmd, Moves
  <1>2. thread[n][p] = "loop"
    BY <1>1 DEF Takes
  <1>3. /\ n \in Created /\ p \in Members(n)
        /\ HeadOf(n) \in Ranks /\ HeadOf(n) \in Members(n) /\ Members(n) \subseteq Ranks
        /\ HeadOf(n) \notin Slaves(n)
        /\ \A q \in Slaves(n) : q \in Members(n) /\ q \in Ranks
        /\ BarrierInv(n) /\ BroadcastInv(n) /\ EndInv(n)
    BY <1>2, WorkerThere
  <1>4. /\ p = HeadOf(n)
        /\ queue' \in [Actors -> [Ranks -> Seq(Requests)]]
        /\ \A k \in Actors \ {n} : queue'[k] = queue[k]
        /\ \A k \in Actors, q \in Ranks : NoExit(k, q) => NoExit(k, q)'
    BY <1>1, <1>3, TakesEffect DEF LifeInv
  <1>5. /\ Len(HeadQueue(n)) \in Nat /\ Len(HeadQueue(n)') = Len(HeadQueue(n)) - 1
        /\ Exit(n)' = Exit(n)
        /\ \A i \in 1..(Len(HeadQueue(n)') - 1) : HeadQueue(n)'[i] # "exit"
    BY <1>1, <1>3, TakesCount
  <1>6. "function" \in ThreadStates \ {"none"} /\ ~Leaving(n, p)
    BY <1>2 DEF ThreadStates, Leaving
  <1>7. /\ thread'[n][p] = "function"
        /\ \A k \in Actors, q \in Ranks : ~(k = n /\ q = p) =>
              thread'[k][q] = thread[k][q] /\ (Leaving(k, q)' <=> Leaving(k, q))
    BY <1>1, <1>2, <1>6, MoveFacts
  <1>8. Members(n)' = Members(n) /\ HeadOf(n)' = HeadOf(n) /\ Slaves(n)' = Slaves(n)
    BY <1>1, GroupFrame
  <1>9. /\ syncs' \in [Actors -> [Ranks -> Nat]]
        /\ syncs[n][p] \in Nat /\ syncs'[n][p] = syncs[n][p] + 1
        /\ \A q \in Ranks : q # p => syncs'[n][q] = syncs[n][q]
        /\ \A k \in Actors \ {n} : syncs'[k] = syncs[k]
    BY <1>1, EnterSyncEffect DEF LifeInv
  <1>10. /\ functions' \in [Actors -> [Ranks -> Seq({0, 1})]]
         /\ \A k \in Actors \ {n} : functions'[k] = functions[k]
         /\ \A q \in Ranks : q \notin Slaves(n) => functions'[n][q] = functions[n][q]
         /\ \A q \in Ranks : q \in Slaves(n) => functions'[n][q] = Append(functions[n][q], 1)
    BY <1>1, BroadcastEffect DEF LifeInv
  <1>11. \A q \in Ranks : syncs[n][q] \in Nat
    BY DEF LifeInv, TypeOK
  <1>12. \A q \in Members(n) : syncs[n][q] >= 1 /\ thread[n][q] \notin {"none", "start"}
    BY <1>2, <1>3, <1>11 DEF BarrierInv, Early
  <1>13. \A q \in Ranks : Leaving(n, q)' <=> Leaving(n, q)
    BY <1>6, <1>7 DEF Leaving
  <1>14. BarrierInv(n)'
    <2>1. \A q \in Members(n) : syncs'[n][q] >= 1
      BY <1>3, <1>9, <1>11, <1>12
    <2>2. ASSUME NEW q \in Members(n)
          PROVE  thread'[n][q] \notin {"none", "start"} /\ (thread'[n][q] = "construct" => syncs'[n][q] = 1)
      BY <1>3, <1>7, <1>9, <1>12 DEF BarrierInv
    <2>3. \A q \in Members(n) : syncs'[n][q] # 0
      BY <2>1
    <2>. QED
      BY <1>8, <2>1, <2>2, <2>3 DEF BarrierInv
  <1>15. BroadcastInv(n)'
    <2>1. ASSUME NEW q \in Ranks, functions'[n][q] # << >>
          PROVE  q \in Slaves(n) /\ thread'[n][HeadOf(n)] \notin Early
      BY <1>3, <1>4, <1>7, <1>10, <2>1 DEF BroadcastInv, Early
    <2>2. ASSUME NEW q \in Slaves(n)
          PROVE  /\ syncs'[n][HeadOf(n)] = syncs'[n][q] + Len(functions'[n][q])
                 /\ \A i \in 1..Len(functions'[n][q]) : functions'[n][q][i] # 0
                 /\ ~Leaving(n, q)
      <3>1. q \in Ranks /\ q # p /\ q \in Members(n)
        BY <1>3, <1>4
      <3>2. functions[n][q] \in Seq({0, 1}) /\ functions'[n][q] = Append(functions[n][q], 1)
        BY <1>10, <3>1 DEF LifeInv, TypeOK
      <3>3. /\ Len(functions[n][q]) \in Nat
            /\ Len(functions'[n][q]) = Len(functions[n][q]) + 1
            /\ functions'[n][q][Len(functions[n][q]) + 1] = 1
            /\ \A i \in 1..Len(functions[n][q]) : functions'[n][q][i] = functions[n][q][i]
        BY <3>2, AppendFacts
      <3>4. syncs[n][HeadOf(n)] = syncs[n][q] + Len(functions[n][q])
        BY <1>3, <1>12, <3>1 DEF BroadcastInv
      <3>5. syncs'[n][HeadOf(n)] = syncs[n][HeadOf(n)] + 1 /\ syncs'[n][q] = syncs[n][q] /\ syncs[n][q] \in Nat
        BY <1>4, <1>9, <1>11, <3>1
      <3>6. \A i \in 1..Len(functions[n][q]) : functions[n][q][i] # 0
        BY <1>3, <1>4, <1>6 DEF BroadcastInv
      <3>7. \A i \in 1..Len(functions'[n][q]) : functions'[n][q][i] # 0
        <4>. SUFFICES ASSUME NEW i \in 1..Len(functions'[n][q]) PROVE functions'[n][q][i] # 0
          OBVIOUS
        <4>1. i \in 1..Len(functions[n][q]) \/ i = Len(functions[n][q]) + 1
          BY <3>3
        <4>. QED
          BY <3>3, <3>6, <4>1
      <3>8. ~Leaving(n, q)
        BY <1>3, <1>4, <1>6 DEF BroadcastInv
      <3>9. syncs'[n][HeadOf(n)] = syncs'[n][q] + Len(functions'[n][q])
        BY <3>3, <3>4, <3>5
      <3>. QED
        BY <3>7, <3>8, <3>9
    <2>3. ~Leaving(n, HeadOf(n))
      BY <1>4, <1>6
    <2>. QED
      BY <1>3, <1>8, <1>13, <2>1, <2>2, <2>3 DEF BroadcastInv
  <1>16. EndInv(n)'
    <2>1. \A q \in Ranks : thread'[n][q] = "done" => thread[n][q] = "done"
      BY <1>7
    <2>. QED
      BY <1>3, <1>8, <1>13, <2>1 DEF EndInv
  <1>17. CountOf(n)'
    <2>1. Busy(n) = 0 /\ Busy(n)' = 1
      BY <1>2, <1>4, <1>7, <1>8 DEF Busy
    <2>2. Busy(n)' + 0 = Busy(n) + 1 /\ executed'[n] = executed[n] + 0
      BY <1>1, <2>1 DEF LifeInv, TypeOK
    <2>. QED
      BY <1>1, <1>3, <1>4, <1>5, <1>6, <1>7, <2>2, HeadCount
  <1>18. SelfInv'
    BY <1>1, <1>2, <1>6, MoveSelf
  <1>19. mgmt' \in [Procs -> [Ranks -> Seq(Messages)]] /\ executed' \in [Actors -> Nat]
    BY <1>1 DEF LifeInv, TypeOK
  <1>. QED
    BY <1>1, <1>2, <1>4, <1>6, <1>9, <1>10, <1>14, <1>15, <1>16, <1>17, <1>18, <1>19, ThreadLife DEF SyncOf

\* A slave receives the function id f and enters the barrier of the function,
\* or the last one.
TakesId(n, p, id) ==
    /\ functions[n][p] # << >>
    /\ Head(functions[n][p]) = id
    /\ functions' = [functions EXCEPT ![n][p] = Tail(@)]

\* What is left of the function ids.
LEMMA TakesIdEffect ==
    ASSUME LifeInv, NEW n \in Actors, NEW p \in Ranks, NEW id, TakesId(n, p, id), thread[n][p] = "loop"
    PROVE  /\ functions' \in [Actors -> [Ranks -> Seq({0, 1})]]
           /\ \A k \in Actors \ {n} : functions'[k] = functions[k]
           /\ \A q \in Ranks : q # p => functions'[n][q] = functions[n][q]
           /\ p \in Slaves(n)
           /\ Len(functions[n][p]) \in Nat /\ Len(functions[n][p]) >= 1
           /\ Len(functions'[n][p]) = Len(functions[n][p]) - 1
           /\ functions'[n][p] = << >> <=> Len(functions'[n][p]) = 0
           /\ id = 0 <=> (functions'[n][p] = << >> /\ Leaving(n, HeadOf(n)))
           /\ \A i \in 1..Len(functions'[n][p]) :
                 functions'[n][p][i] = 0 <=> (i = Len(functions'[n][p]) /\ Leaving(n, HeadOf(n)))
  <1>1. /\ functions[n][p] # << >> /\ Head(functions[n][p]) = id
        /\ functions' = [functions EXCEPT ![n][p] = Tail(@)]
    BY DEF TakesId
  <1>2. functions \in [Actors -> [Ranks -> Seq({0, 1})]] /\ functions[n][p] \in Seq({0, 1})
    BY DEF LifeInv, TypeOK
  <1>3. /\ Tail(functions[n][p]) \in Seq({0, 1}) /\ Head(functions[n][p]) = functions[n][p][1]
        /\ Len(functions[n][p]) \in Nat /\ Len(functions[n][p]) >= 1
        /\ Len(Tail(functions[n][p])) = Len(functions[n][p]) - 1
        /\ \A i \in 1..Len(Tail(functions[n][p])) : Tail(functions[n][p])[i] = functions[n][p][i + 1]
    BY <1>1, <1>2, TailFacts
  <1>4. /\ functions' \in [Actors -> [Ranks -> Seq({0, 1})]]
        /\ \A k \in Actors \ {n} : functions'[k] = functions[k]
        /\ \A q \in Ranks : q # p => functions'[n][q] = functions[n][q]
        /\ functions'[n][p] = Tail(functions[n][p])
    BY <1>1, <1>2, <1>3
  <1>5. p \in Slaves(n) /\ BroadcastInv(n)
    BY <1>1, WorkerThere DEF BroadcastInv
  <1>6. \A i \in 1..Len(functions[n][p]) :
            functions[n][p][i] = 0 <=> (i = Len(functions[n][p]) /\ Leaving(n, HeadOf(n)))
    <2>1. \A q \in Slaves(n) : \A i \in 1..Len(functions[n][q]) :
              functions[n][q][i] = 0 <=> (i = Len(functions[n][q]) /\ Leaving(n, HeadOf(n)))
      BY <1>5 DEF BroadcastInv
    <2>. QED
      BY <1>5, <2>1, Zenon
  <1>7. functions'[n][p] = << >> <=> Len(functions'[n][p]) = 0
    <2>1. Tail(functions[n][p]) \in Seq({0, 1}) /\ functions'[n][p] = Tail(functions[n][p])
      BY <1>3, <1>4, Zenon
    <2>2. Tail(functions[n][p]) = << >> <=> Len(Tail(functions[n][p])) = 0
      BY <2>1, EmptyFacts
    <2>. QED
      BY <2>1, <2>2, Zenon
  <1>. DEFINE l == Len(functions[n][p])
              l1 == Len(functions'[n][p])
              f == functions[n][p]
              f1 == functions'[n][p]
  <1>8. l \in Nat /\ l >= 1 /\ l1 = l - 1 /\ f[1] = id /\ \A i \in 1..l1 : f1[i] = f[i + 1]
    BY <1>1, <1>3, <1>4
  <1>9. \A i \in 1..l : f[i] = 0 <=> (i = l /\ Leaving(n, HeadOf(n)))
    BY <1>6
  <1>. HIDE DEF l, l1, f, f1
  <1>10. id = 0 <=> (l1 = 0 /\ Leaving(n, HeadOf(n)))
    <2>1. 1 \in 1..l /\ (1 = l <=> l1 = 0)
      BY <1>8
    <2>. QED
      BY <1>8, <1>9, <2>1
  <1>11. \A i \in 1..l1 : f1[i] = 0 <=> (i = l1 /\ Leaving(n, HeadOf(n)))
    <2>. SUFFICES ASSUME NEW i \in 1..l1 PROVE f1[i] = 0 <=> (i = l1 /\ Leaving(n, HeadOf(n)))
      OBVIOUS
    <2>1. i + 1 \in 1..l /\ (i = l1 <=> i + 1 = l)
      BY <1>8
    <2>. QED
      BY <1>8, <1>9, <2>1
  <1>. USE DEF l, l1, f, f1
  <1>. QED
    BY <1>3, <1>4, <1>5, <1>7, <1>8, <1>10, <1>11

\* Its place among the barriers of the actor.
LEMMA SlaveSync ==
    ASSUME LifeInv, NEW n \in Actors, NEW p \in Ranks, NEW id, TakesId(n, p, id), thread[n][p] = "loop",
           EnterSync(n, p), NEW t \in {"function", "leave"}, Moves(n, p, t), t = "leave" <=> id = 0,
           group' = group
    PROVE  SyncOf(n)'
  <1>1. /\ n \in Created /\ p \in Members(n)
        /\ HeadOf(n) \in Ranks /\ HeadOf(n) \in Members(n) /\ Members(n) \subseteq Ranks
        /\ HeadOf(n) \notin Slaves(n)
        /\ \A q \in Slaves(n) : q \in Members(n) /\ q \in Ranks
        /\ BarrierInv(n) /\ BroadcastInv(n) /\ EndInv(n)
    BY WorkerThere
  <1>2. /\ \A q \in Ranks : q # p => functions'[n][q] = functions[n][q]
        /\ p \in Slaves(n)
        /\ Len(functions[n][p]) \in Nat /\ Len(functions[n][p]) >= 1
        /\ Len(functions'[n][p]) = Len(functions[n][p]) - 1
        /\ id = 0 <=> (functions'[n][p] = << >> /\ Leaving(n, HeadOf(n)))
        /\ \A i \in 1..Len(functions'[n][p]) :
              functions'[n][p][i] = 0 <=> (i = Len(functions'[n][p]) /\ Leaving(n, HeadOf(n)))
    BY TakesIdEffect
  <1>3. /\ syncs[n][p] \in Nat /\ syncs'[n][p] = syncs[n][p] + 1
        /\ \A q \in Ranks : q # p => syncs'[n][q] = syncs[n][q]
    BY EnterSyncEffect DEF LifeInv
  <1>4. thread'[n][p] = t /\ \A q \in Ranks : q # p => thread'[n][q] = thread[n][q]
    BY DEF Moves, LifeInv, TypeOK
  <1>5. Members(n)' = Members(n) /\ HeadOf(n)' = HeadOf(n) /\ Slaves(n)' = Slaves(n)
    BY GroupFrame
  <1>6. \A q \in Ranks : syncs[n][q] \in Nat
    BY DEF LifeInv, TypeOK
  <1>7. \A q \in Members(n) : syncs[n][q] >= 1 /\ thread[n][q] \notin {"none", "start"}
    BY <1>1, <1>6 DEF BarrierInv, Early
  <1>8. \A q \in Ranks : q # p => (Leaving(n, q)' <=> Leaving(n, q))
    BY <1>4 DEF Leaving
  <1>9. p # HeadOf(n) /\ (Leaving(n, HeadOf(n))' <=> Leaving(n, HeadOf(n)))
    BY <1>1, <1>2, <1>5, <1>8
  <1>10. Leaving(n, p)' <=> id = 0
    BY <1>4 DEF Leaving
  <1>11. BarrierInv(n)'
    <2>1. \A q \in Members(n) : syncs'[n][q] >= 1
      BY <1>1, <1>3, <1>6, <1>7
    <2>2. ASSUME NEW q \in Members(n)
          PROVE  thread'[n][q] \notin {"none", "start"} /\ (thread'[n][q] = "construct" => syncs'[n][q] = 1)
      BY <1>1, <1>3, <1>4, <1>7 DEF BarrierInv
    <2>3. \A q \in Members(n) : syncs'[n][q] # 0
      BY <2>1
    <2>. QED
      BY <1>5, <2>1, <2>2, <2>3 DEF BarrierInv
  <1>12. BroadcastInv(n)'
    <2>1. ASSUME NEW q \in Ranks, functions'[n][q] # << >>
          PROVE  q \in Slaves(n) /\ thread'[n][HeadOf(n)] \notin Early
      <3>1. thread[n][HeadOf(n)] \notin Early
        BY <1>1, <1>2, <1>6 DEF BroadcastInv
      <3>2. q \in Slaves(n)
        BY <1>1, <1>2, <2>1 DEF BroadcastInv
      <3>. QED
        BY <1>1, <1>4, <1>9, <3>1, <3>2
    <2>2. ASSUME NEW q \in Slaves(n)
          PROVE  /\ syncs'[n][HeadOf(n)] = syncs'[n][q] + Len(functions'[n][q])
                 /\ \A i \in 1..Len(functions'[n][q]) :
                       functions'[n][q][i] = 0 <=> (i = Len(functions'[n][q]) /\ Leaving(n, HeadOf(n)))
                 /\ Leaving(n, q)' <=> (functions'[n][q] = << >> /\ Leaving(n, HeadOf(n)))
      <3>1. q \in Ranks /\ q \in Members(n)
        BY <1>1
      <3>2. syncs[n][HeadOf(n)] = syncs[n][q] + Len(functions[n][q])
        BY <1>1, <1>7, <3>1 DEF BroadcastInv
      <3>3. syncs'[n][HeadOf(n)] = syncs[n][HeadOf(n)]
        BY <1>1, <1>3, <1>9
      <3>4. CASE q = p
        <4>. DEFINE l == Len(functions[n][p])
                    s == syncs[n][p]
        <4>0. /\ l \in Nat /\ l >= 1 /\ s \in Nat
              /\ Len(functions'[n][p]) = l - 1 /\ syncs'[n][p] = s + 1 /\ syncs'[n][HeadOf(n)] = s + l
          BY <1>2, <1>3, <3>2, <3>3, <3>4
        <4>. HIDE DEF l, s
        <4>1. syncs'[n][HeadOf(n)] = syncs'[n][p] + Len(functions'[n][p])
          BY <4>0
        <4>. QED
          BY <1>2, <1>10, <3>4, <4>1
      <3>5. CASE q # p
        <4>1. syncs'[n][q] = syncs[n][q] /\ functions'[n][q] = functions[n][q] /\ (Leaving(n, q)' <=> Leaving(n, q))
          BY <1>2, <1>3, <1>8, <3>1, <3>5
        <4>. QED
          BY <1>1, <3>2, <3>3, <4>1 DEF BroadcastInv
      <3>. QED
        BY <3>4, <3>5
    <2>. QED
      BY <1>5, <1>9, <2>1, <2>2 DEF BroadcastInv
  <1>13. EndInv(n)'
    <2>1. \A q \in Ranks : thread'[n][q] = "done" => thread[n][q] = "done"
      BY <1>4
    <2>2. \A q \in Ranks : Leaving(n, q) => Leaving(n, q)'
      BY <1>8 DEF Leaving
    <2>. QED
      BY <1>1, <1>5, <2>1, <2>2 DEF EndInv
  <1>. QED
    BY <1>11, <1>12, <1>13 DEF SyncOf

\* A slave executes a function with its head.
LEMMA SlaveFunctionLife ==
    ASSUME LifeInv, NEW n \in Actors, NEW p \in Ranks, SlaveFunction(n, p)
    PROVE  LifeInv'
  <1>1. /\ thread[n][p] = "loop" /\ TakesId(n, p, 1) /\ EnterSync(n, p) /\ Moves(n, p, "function")
        /\ UNCHANGED <<mgmt, reply, program, group, destroyed, ncalls, server, proxy, answerStop,
                       queue, executed>>
    BY DEF SlaveFunction, TakesId, Moves
  <1>2. "function" \in ThreadStates \ {"none"} /\ ~Leaving(n, p)
    BY <1>1 DEF ThreadStates, Leaving
  <1>3. n \in Created /\ HeadOf(n) \in Ranks /\ HeadOf(n) \notin Slaves(n)
    BY <1>1, WorkerThere
  <1>4. /\ functions' \in [Actors -> [Ranks -> Seq({0, 1})]]
        /\ \A k \in Actors \ {n} : functions'[k] = functions[k]
        /\ p \in Slaves(n)
    BY <1>1, TakesIdEffect
  <1>5. syncs' \in [Actors -> [Ranks -> Nat]] /\ \A k \in Actors \ {n} : syncs'[k] = syncs[k]
    BY <1>1, EnterSyncEffect DEF LifeInv
  <1>6. thread'[n][HeadOf(n)] = thread[n][HeadOf(n)]
    BY <1>1, <1>3, <1>4 DEF Moves, LifeInv, TypeOK
  <1>7. SyncOf(n)'
    <2>1. "function" \in {"function", "leave"} /\ ("function" = "leave" <=> 1 = 0)
      OBVIOUS
    <2>. QED
      BY <1>1, <2>1, SlaveSync
  <1>8. CountOf(n)'
    BY <1>1, <1>3, <1>6, SlaveCount
  <1>9. SelfInv'
    BY <1>1, <1>2, MoveSelf
  <1>10. \A k \in Actors, q \in Ranks : NoExit(k, q) => NoExit(k, q)'
    BY <1>1 DEF NoExit
  <1>11. /\ mgmt' \in [Procs -> [Ranks -> Seq(Messages)]]
         /\ queue' \in [Actors -> [Ranks -> Seq(Requests)]]
         /\ executed' \in [Actors -> Nat]
    BY <1>1 DEF LifeInv, TypeOK
  <1>. QED
    BY <1>1, <1>2, <1>4, <1>5, <1>7, <1>8, <1>9, <1>10, <1>11, ThreadLife

\* A step that does not touch the queue of the head.
LEMMA SameQueue ==
    ASSUME LifeInv, NEW n \in Created, group' = group, queue' = queue
    PROVE  /\ Len(HeadQueue(n)) \in Nat /\ Len(HeadQueue(n)') = Len(HeadQueue(n)) - 0
           /\ Exit(n)' = Exit(n)
           /\ \A i \in 1..(Len(HeadQueue(n)') - 1) : HeadQueue(n)'[i] # "exit"
  <1>1. HeadQueue(n)' = HeadQueue(n)
    BY GroupFrame DEF HeadQueue
  <1>2. HeadQueue(n) \in Seq(Requests)
    BY GroupFacts DEF LifeInv, TypeOK, HeadQueue
  <1>3. Len(HeadQueue(n)) \in Nat
    BY <1>2, EmptyFacts
  <1>4. Exit(n)' = Exit(n)
    BY <1>1 DEF Exit
  <1>5. \A i \in 1..(Len(HeadQueue(n)) - 1) : HeadQueue(n)[i] # "exit"
    BY DEF LifeInv, CountInv, CountOf
  <1>. QED
    BY <1>1, <1>3, <1>4, <1>5

\* The function returns; the head has executed the request.
LEMMA EndFunctionLife ==
    ASSUME LifeInv, NEW n \in Actors, NEW p \in Ranks, EndFunction(n, p)
    PROVE  LifeInv'
  <1>1. /\ thread[n][p] = "function" /\ Moves(n, p, "loop")
        /\ executed' = IF p = HeadOf(n) THEN [executed EXCEPT ![n] = @ + 1] ELSE executed
        /\ UNCHANGED <<mgmt, reply, program, group, destroyed, ncalls, server, proxy, answerStop,
                       syncs, queue, functions>>
    BY DEF EndFunction, Moves
  <1>2. /\ "loop" \in ThreadStates \ {"none"} /\ "loop" \in ThreadStates \ Early /\ ~Leaving(n, p)
        /\ thread[n][p] \notin Early
    BY <1>1 DEF ThreadStates, Leaving, Early
  <1>3. n \in Created /\ HeadOf(n) \in Ranks
    BY <1>1, WorkerThere
  <1>4. executed \in [Actors -> 0..MaxCalls]
    BY DEF LifeInv, TypeOK
  <1>5. /\ executed' \in [Actors -> Nat]
        /\ \A k \in Actors \ {n} : executed'[k] = executed[k]
    BY <1>1, <1>4
  <1>6. thread'[n][p] = "loop" /\ \A q \in Ranks : q # p => thread'[n][q] = thread[n][q]
    BY <1>1 DEF Moves, LifeInv, TypeOK
  <1>7. CountOf(n)'
    <2>1. CASE p = HeadOf(n)
      <3>1. executed'[n] = executed[n] + 1
        BY <1>1, <1>4, <2>1
      <3>2. HeadOf(n)' = HeadOf(n)
        BY <1>1, GroupFrame
      <3>3. Busy(n) = 1 /\ Busy(n)' = 0
        BY <1>1, <1>6, <2>1, <3>2 DEF Busy
      <3>4. Busy(n)' + 1 = Busy(n) + 0
        BY <3>3
      <3>5. /\ Len(HeadQueue(n)) \in Nat /\ Len(HeadQueue(n)') = Len(HeadQueue(n)) - 0
            /\ Exit(n)' = Exit(n)
            /\ \A i \in 1..(Len(HeadQueue(n)') - 1) : HeadQueue(n)'[i] # "exit"
        BY <1>1, <1>3, SameQueue
      <3>. QED
        BY <1>1, <1>2, <1>3, <1>6, <2>1, <3>1, <3>4, <3>5, HeadCount
    <2>2. CASE p # HeadOf(n)
      BY <1>1, <1>3, <1>6, <2>2, SlaveCount
    <2>. QED
      BY <2>1, <2>2
  <1>8. SyncOf(n)'
    BY <1>1, <1>2, QuietSync
  <1>9. SelfInv'
    BY <1>1, <1>2, MoveSelf
  <1>10. \A k \in Actors, q \in Ranks : NoExit(k, q) => NoExit(k, q)'
    BY <1>1 DEF NoExit
  <1>11. /\ mgmt' \in [Procs -> [Ranks -> Seq(Messages)]]
         /\ syncs' \in [Actors -> [Ranks -> Nat]]
         /\ queue' \in [Actors -> [Ranks -> Seq(Requests)]]
         /\ functions' \in [Actors -> [Ranks -> Seq({0, 1})]]
    BY <1>1 DEF LifeInv, TypeOK
  <1>. QED
    BY <1>1, <1>2, <1>5, <1>7, <1>8, <1>9, <1>10, <1>11, ThreadLife

\* A worker that takes its next request or function has sent its process nothing.
LEMMA NothingSent ==
    ASSUME LifeInv, NEW n \in Actors, NEW p \in Ranks, thread[n][p] = "loop"
    PROVE  mgmt[p][p] = << >>
  <1>1. n \in Created /\ proxy[p] = n /\ n # NoActor
    BY WorkerThere, GroupFacts DEF LifeInv
  <1>2. mgmt[p][p] # <<GetMsg>>
    BY <1>1 DEF LifeInv, SelfInv
  <1>3. \A k \in Created : ~SlaveLeft(k, p)
    BY <1>1 DEF SlaveLeft, Leaving
  <1>4. server[p] # "barrier"
    BY <1>1 DEF LifeInv, ServerInv
  <1>5. mgmt[p][p] # <<StopMsg>>
    BY <1>3, <1>4 DEF LifeInv, SelfInv
  <1>. QED
    BY <1>2, <1>5 DEF LifeInv, SelfInv

\* The worker of n at p sends m to its own process.
LEMMA SelfSent ==
    ASSUME LifeInv, NEW n \in Created, NEW p \in Ranks, NEW m \in Messages, Send(p, p, m), mgmt[p][p] = << >>
    PROVE  /\ mgmt' \in [Procs -> [Ranks -> Seq(Messages)]]
           /\ mgmt'[p][p] = <<m>>
           /\ \A c \in Procs, q \in Ranks : ~(c = p /\ q = p) => mgmt'[c][q] = mgmt[c][q]
           /\ \A q \in Ranks : mgmt'[Client][q] = mgmt[Client][q]
  <1>1. p \in Procs /\ Client \in Procs /\ p # Client
    BY DEF Procs
  <1>2. /\ mgmt' \in [Procs -> [Ranks -> Seq(Messages)]]
        /\ mgmt'[p][p] = Append(mgmt[p][p], m)
        /\ \A d \in Procs, q \in Ranks : ~(d = p /\ q = p) => mgmt'[d][q] = mgmt[d][q]
    BY <1>1, SendEffect DEF LifeInv
  <1>3. mgmt'[p][p] = <<m>>
    BY <1>2, AppendEmpty
  <1>. QED
    BY <1>1, <1>2, <1>3

\* What that does to the messages processes send themselves.
LEMMA SendSelf ==
    ASSUME LifeInv, NEW n \in Actors, NEW p \in Ranks, NEW t \in ThreadStates \ {"none"},
           thread[n][p] = "loop", Moves(n, p, t), t \in {"asking", "answered"} => p = HeadOf(n),
           UNCHANGED <<group, destroyed, server, proxy>>,
           NEW m \in {GetMsg, StopMsg}, Send(p, p, m),
           m = GetMsg => t = "asking" /\ p = HeadOf(n),
           m = StopMsg => t = "leave" /\ p \in Slaves(n)
    PROVE  SelfInv'
  <1>1. n \in Created /\ p \in Members(n) /\ proxy[p] = n /\ n # NoActor /\ HeadOf(n) \notin Slaves(n)
    BY WorkerThere, GroupFacts DEF LifeInv
  <1>2. mgmt[p][p] = << >> /\ m \in Messages
    BY NothingSent, MessagesSent
  <1>3. /\ mgmt'[p][p] = <<m>>
        /\ \A c \in Procs, q \in Ranks : ~(c = p /\ q = p) => mgmt'[c][q] = mgmt[c][q]
    BY <1>1, <1>2, SelfSent
  <1>4. Ranks \subseteq Procs
    BY DEF Procs
  <1>5. thread'[n][p] = t /\ \A k \in Actors, q \in Ranks : ~(k = n /\ q = p) => thread'[k][q] = thread[k][q]
    BY DEF Moves, LifeInv, TypeOK
  <1>6. /\ Created' = Created
        /\ \A k : HeadOf(k)' = HeadOf(k) /\ Slaves(k)' = Slaves(k)
    BY GroupFrame
  <1>7. \A k \in Created : k \in Actors
    BY DEF Created
  <1>. SUFFICES ASSUME NEW q \in Ranks
                PROVE  /\ \A c \in Ranks : c # q => mgmt'[c][q] = << >>
                       /\ mgmt'[q][q] \in {<< >>, <<GetMsg>>, <<StopMsg>>}
                       /\ mgmt'[q][q] = <<GetMsg>> =>
                             \E k \in Created : proxy[q] = k /\ q = HeadOf(k) /\ thread'[k][q] = "asking"
                       /\ mgmt'[q][q] = <<StopMsg>> =>
                             \/ server[q] = "barrier"
                             \/ server[q] \in {"run", "cleanup"} /\ \E k \in Created : SlaveLeft(k, q)'
                       /\ (server[q] = "run" /\ \E k \in Created : SlaveLeft(k, q)') => mgmt'[q][q] = <<StopMsg>>
    BY <1>6 DEF SelfInv
  <1>8. CASE q # p
    <2>1. \A c \in Ranks : mgmt'[c][q] = mgmt[c][q]
      BY <1>3, <1>4, <1>8
    <2>2. \A k \in Created : thread'[k][q] = thread[k][q] /\ (SlaveLeft(k, q)' <=> SlaveLeft(k, q))
      BY <1>5, <1>6, <1>7, <1>8 DEF SlaveLeft, Leaving
    <2>. QED
      BY <2>1, <2>2 DEF LifeInv, SelfInv
  <1>9. \A c \in Ranks : c # p => mgmt'[c][p] = << >>
    BY <1>3, <1>4 DEF LifeInv, SelfInv
  <1>10. <<GetMsg>> # <<StopMsg>>
    BY DEF GetMsg, StopMsg
  <1>11. CASE q = p /\ m = GetMsg
    <2>1. thread'[n][p] = "asking" /\ p = HeadOf(n) /\ mgmt'[p][p] = <<GetMsg>>
      BY <1>3, <1>5, <1>11
    <2>2. \A k \in Created : ~SlaveLeft(k, p)'
      BY <1>1, <1>6, <2>1 DEF SlaveLeft
    <2>. QED
      BY <1>1, <1>9, <1>10, <1>11, <2>1, <2>2
  <1>12. CASE q = p /\ m = StopMsg
    <2>1. thread'[n][p] = "leave" /\ p \in Slaves(n) /\ mgmt'[p][p] = <<StopMsg>>
      BY <1>3, <1>5, <1>12
    <2>2. SlaveLeft(n, p)'
      BY <1>1, <1>6, <2>1 DEF SlaveLeft, Leaving
    <2>3. server[p] \in {"run", "cleanup"}
      <3>1. server[p] \in {"run", "stop", "cleanup", "barrier"}
        BY DEF LifeInv, TypeOK
      <3>2. server[p] # "barrier"
        BY <1>1 DEF LifeInv, ServerInv
      <3>3. ~(server[p] = "stop" /\ answerStop[p])
        BY <1>1, <2>1 DEF LifeInv, ServerInv, ProgramInv, ActorInv, Asking
      <3>4. ~(server[p] = "stop" /\ ~answerStop[p])
        BY <1>1 DEF LifeInv, ServerInv, SlaveLeft, Leaving
      <3>. QED
        BY <3>1, <3>2, <3>3, <3>4
    <2>. QED
      BY <1>1, <1>9, <1>10, <1>12, <2>1, <2>2, <2>3
  <1>. QED
    BY <1>8, <1>11, <1>12

\* A request asks the management thread of the head.
LEMMA ExecuteAskLife ==
    ASSUME LifeInv, NEW n \in Actors, NEW p \in Ranks, ExecuteAsk(n, p)
    PROVE  LifeInv'
  <1>1. /\ Takes(n, p, "ask") /\ Send(p, p, GetMsg) /\ Moves(n, p, "asking")
        /\ UNCHANGED <<reply, program, group, destroyed, ncalls, server, proxy, answerStop,
                       syncs, functions, executed>>
    BY DEF ExecuteAsk, Moves, GetMsg
  <1>2. thread[n][p] = "loop"
    BY <1>1 DEF Takes
  <1>3. n \in Created /\ HeadOf(n) \in Ranks
    BY <1>2, WorkerThere
  <1>4. /\ p = HeadOf(n)
        /\ queue' \in [Actors -> [Ranks -> Seq(Requests)]]
        /\ \A k \in Actors \ {n} : queue'[k] = queue[k]
        /\ \A k \in Actors, q \in Ranks : NoExit(k, q) => NoExit(k, q)'
    BY <1>1, <1>3, TakesEffect DEF LifeInv
  <1>5. /\ Len(HeadQueue(n)) \in Nat /\ Len(HeadQueue(n)') = Len(HeadQueue(n)) - 1
        /\ Exit(n)' = Exit(n)
        /\ \A i \in 1..(Len(HeadQueue(n)') - 1) : HeadQueue(n)'[i] # "exit"
    BY <1>1, <1>3, TakesCount
  <1>6. /\ "asking" \in ThreadStates \ {"none"} /\ "asking" \in ThreadStates \ Early /\ ~Leaving(n, p)
        /\ thread[n][p] \notin Early
    BY <1>2 DEF ThreadStates, Leaving, Early
  <1>7. thread'[n][p] = "asking"
    BY <1>1 DEF Moves, LifeInv, TypeOK
  <1>8. CountOf(n)'
    <2>1. HeadOf(n)' = HeadOf(n)
      BY <1>1, GroupFrame
    <2>2. Busy(n) = 0 /\ Busy(n)' = 1
      BY <1>2, <1>4, <1>7, <2>1 DEF Busy
    <2>3. Busy(n)' + 0 = Busy(n) + 1 /\ executed'[n] = executed[n] + 0
      BY <1>1, <2>2 DEF LifeInv, TypeOK
    <2>. QED
      BY <1>1, <1>3, <1>4, <1>5, <1>6, <1>7, <2>3, HeadCount
  <1>9. SyncOf(n)'
    BY <1>1, <1>6, QuietSync
  <1>10. GetMsg # StopMsg
    BY DEF GetMsg, StopMsg
  <1>11. SelfInv'
    BY <1>1, <1>2, <1>4, <1>6, <1>10, SendSelf
  <1>12. mgmt' \in [Procs -> [Ranks -> Seq(Messages)]] /\ \A q \in Ranks : mgmt'[Client][q] = mgmt[Client][q]
    BY <1>1, <1>2, <1>3, NothingSent, SelfSent, MessagesSent
  <1>13. /\ syncs' \in [Actors -> [Ranks -> Nat]]
         /\ functions' \in [Actors -> [Ranks -> Seq({0, 1})]]
         /\ executed' \in [Actors -> Nat]
    BY <1>1 DEF LifeInv, TypeOK
  <1>. QED
    BY <1>1, <1>2, <1>4, <1>6, <1>8, <1>9, <1>11, <1>12, <1>13, ThreadLife

\* The answer ends the request.
LEMMA EndAskLife ==
    ASSUME LifeInv, NEW n \in Actors, NEW p \in Ranks, EndAsk(n, p)
    PROVE  LifeInv'
  <1>1. /\ thread[n][p] = "answered" /\ Moves(n, p, "loop") /\ executed' = [executed EXCEPT ![n] = @ + 1]
        /\ UNCHANGED <<mgmt, reply, program, group, destroyed, ncalls, server, proxy, answerStop,
                       syncs, queue, functions>>
    BY DEF EndAsk, Moves
  <1>2. /\ "loop" \in ThreadStates \ {"none"} /\ "loop" \in ThreadStates \ Early /\ ~Leaving(n, p)
        /\ thread[n][p] \notin Early
    BY <1>1 DEF ThreadStates, Leaving, Early
  <1>3. n \in Created /\ HeadOf(n) \in Ranks
    BY <1>1, WorkerThere
  <1>4. p = HeadOf(n)
    BY <1>1 DEF LifeInv, ThreadInv
  <1>5. executed \in [Actors -> 0..MaxCalls]
    BY DEF LifeInv, TypeOK
  <1>6. /\ executed' \in [Actors -> Nat] /\ executed'[n] = executed[n] + 1
        /\ \A k \in Actors \ {n} : executed'[k] = executed[k]
    BY <1>1, <1>5
  <1>7. thread'[n][p] = "loop"
    BY <1>1 DEF Moves, LifeInv, TypeOK
  <1>8. CountOf(n)'
    <2>1. HeadOf(n)' = HeadOf(n)
      BY <1>1, GroupFrame
    <2>2. Busy(n) = 1 /\ Busy(n)' = 0
      BY <1>1, <1>4, <1>7, <2>1 DEF Busy
    <2>3. Busy(n)' + 1 = Busy(n) + 0
      BY <2>2
    <2>4. /\ Len(HeadQueue(n)) \in Nat /\ Len(HeadQueue(n)') = Len(HeadQueue(n)) - 0
          /\ Exit(n)' = Exit(n)
          /\ \A i \in 1..(Len(HeadQueue(n)') - 1) : HeadQueue(n)'[i] # "exit"
      BY <1>1, <1>3, SameQueue
    <2>. QED
      BY <1>1, <1>2, <1>3, <1>4, <1>6, <1>7, <2>3, <2>4, HeadCount
  <1>9. SyncOf(n)'
    BY <1>1, <1>2, QuietSync
  <1>10. SelfInv'
    BY <1>1, <1>2, MoveSelf
  <1>11. \A k \in Actors, q \in Ranks : NoExit(k, q) => NoExit(k, q)'
    BY <1>1 DEF NoExit
  <1>12. /\ mgmt' \in [Procs -> [Ranks -> Seq(Messages)]]
         /\ syncs' \in [Actors -> [Ranks -> Nat]]
         /\ queue' \in [Actors -> [Ranks -> Seq(Requests)]]
         /\ functions' \in [Actors -> [Ranks -> Seq({0, 1})]]
    BY <1>1 DEF LifeInv, TypeOK
  <1>. QED
    BY <1>1, <1>2, <1>6, <1>8, <1>9, <1>10, <1>11, <1>12, ThreadLife

\* A slave receives function id 0: it stops its own process.
LEMMA SlaveLeavesLife ==
    ASSUME LifeInv, NEW n \in Actors, NEW p \in Ranks, SlaveLeaves(n, p)
    PROVE  LifeInv'
  <1>1. /\ thread[n][p] = "loop" /\ TakesId(n, p, 0) /\ DestroyActor(n, p)
        /\ UNCHANGED <<reply, program, group, destroyed, ncalls, server, proxy, answerStop,
                       queue, executed>>
    BY DEF SlaveLeaves, TakesId
  <1>2. "leave" \in ThreadStates \ {"none"} /\ ~Leaving(n, p)
    BY <1>1 DEF ThreadStates, Leaving
  <1>3. n \in Created /\ HeadOf(n) \in Ranks /\ HeadOf(n) \notin Slaves(n)
    BY <1>1, WorkerThere
  <1>4. /\ functions' \in [Actors -> [Ranks -> Seq({0, 1})]]
        /\ \A k \in Actors \ {n} : functions'[k] = functions[k]
        /\ p \in Slaves(n)
    BY <1>1, TakesIdEffect
  <1>5. p # HeadOf(n)
    BY <1>3, <1>4
  <1>6. EnterSync(n, p) /\ Moves(n, p, "leave") /\ Send(p, p, StopMsg)
    BY <1>1, <1>5 DEF DestroyActor, StopsItself, StopOwnProcess, Moves, Send, StopMsg
  <1>7. syncs' \in [Actors -> [Ranks -> Nat]] /\ \A k \in Actors \ {n} : syncs'[k] = syncs[k]
    BY <1>6, EnterSyncEffect DEF LifeInv
  <1>8. thread'[n][HeadOf(n)] = thread[n][HeadOf(n)]
    BY <1>3, <1>5, <1>6 DEF Moves, LifeInv, TypeOK
  <1>9. SyncOf(n)'
    BY <1>1, <1>6, SlaveSync
  <1>10. CountOf(n)'
    BY <1>1, <1>3, <1>8, SlaveCount
  <1>11. GetMsg # StopMsg
    BY DEF GetMsg, StopMsg
  <1>12. SelfInv'
    BY <1>1, <1>2, <1>4, <1>6, <1>11, SendSelf
  <1>13. mgmt' \in [Procs -> [Ranks -> Seq(Messages)]] /\ \A q \in Ranks : mgmt'[Client][q] = mgmt[Client][q]
    BY <1>1, <1>3, <1>6, NothingSent, SelfSent, MessagesSent
  <1>14. \A k \in Actors, q \in Ranks : NoExit(k, q) => NoExit(k, q)'
    BY <1>1 DEF NoExit
  <1>15. queue' \in [Actors -> [Ranks -> Seq(Requests)]] /\ executed' \in [Actors -> Nat]
    BY <1>1 DEF LifeInv, TypeOK
  <1>. QED
    BY <1>1, <1>2, <1>4, <1>5, <1>6, <1>7, <1>9, <1>10, <1>12, <1>13, <1>14, <1>15, ThreadLife

\* The head takes the exit: it is the last request, every call was executed.
LEMMA TakesExit ==
    ASSUME LifeInv, NEW n \in Created, NEW p \in Ranks, Takes(n, p, "exit"), group' = group,
           program' = program, reply' = reply, ncalls' = ncalls, executed' = executed,
           thread'[n][p] = "leave"
    PROVE  CountOf(n)' /\ server[p] # "run"
  <1>1. /\ p = HeadOf(n) /\ thread[n][p] = "loop"
        /\ HeadQueue(n) = queue[n][p] /\ HeadQueue(n)' = queue'[n][p]
        /\ queue[n][p] \in Seq(Requests) /\ queue'[n][p] \in Seq(Requests)
        /\ queue[n][p][1] = "exit" /\ queue[n][p] # << >>
        /\ Len(queue[n][p]) \in Nat /\ Len(queue[n][p]) >= 1
        /\ Len(queue'[n][p]) = Len(queue[n][p]) - 1
    BY TakesEffect DEF LifeInv
  <1>2. n \in Actors /\ CountOf(n)
    BY DEF Created, LifeInv, CountInv
  <1>3. \A i \in 1..(Len(queue[n][p]) - 1) : queue[n][p][i] # "exit"
    BY <1>1, <1>2 DEF CountOf
  <1>4. Len(queue[n][p]) = 1 /\ Len(queue'[n][p]) = 0
    <2>1. 1 \notin 1..(Len(queue[n][p]) - 1)
      BY <1>1, <1>3, Zenon
    <2>. DEFINE l == Len(queue[n][p])
                l1 == Len(queue'[n][p])
    <2>2. l \in Nat /\ l >= 1 /\ l1 = l - 1 /\ 1 \notin 1..(l - 1)
      BY <1>1, <2>1
    <2>. HIDE DEF l, l1
    <2>3. l = 1 /\ l1 = 0
      BY <2>2
    <2>. QED
      BY <2>3 DEF l, l1
  <1>5. queue'[n][p] = << >>
    BY <1>1, <1>4, EmptyFacts
  <1>6. HeadOf(n)' = HeadOf(n)
    BY GroupFrame
  <1>7. Exit(n) = 1 /\ Exit(n)' = 0
    BY <1>1, <1>4, <1>5 DEF Exit
  <1>8. Busy(n) = 0 /\ Busy(n)' = 0 /\ Sent(n)' = Sent(n) /\ Sent(n) \in {0, 1}
    BY <1>1, <1>6 DEF Busy, Sent
  <1>9. executed'[n] + Len(HeadQueue(n)') + Busy(n)' + Sent(n)' = ncalls'[n] + Exit(n)'
    <2>. DEFINE e == executed[n]
                s == Sent(n)
                c == ncalls[n]
    <2>1. e \in Nat /\ c \in Nat /\ s \in {0, 1}
      BY <1>2, <1>8 DEF LifeInv, TypeOK
    <2>2. executed[n] + Len(HeadQueue(n)) + Busy(n) + Sent(n) = ncalls[n] + Exit(n)
      BY <1>2 DEF CountOf
    <2>3. Len(HeadQueue(n)) = 1 /\ Len(HeadQueue(n)') = 0
      BY <1>1, <1>4
    <2>4. e + 1 + 0 + s = c + 1
      BY <1>7, <1>8, <2>2, <2>3
    <2>. HIDE DEF e, s, c
    <2>5. e + 0 + 0 + s = c + 0
      BY <2>1, <2>4
    <2>. QED
      BY <1>7, <1>8, <2>3, <2>5 DEF e, s, c
  <1>10. \A i \in 1..(Len(HeadQueue(n)') - 1) : HeadQueue(n)'[i] # "exit"
    BY <1>1, <1>4
  <1>11. CountOf(n)'
    BY <1>1, <1>5, <1>9, <1>10 DEF CountOf
  <1>12. server[p] # "run"
    <2>1. 1 \in 1..Len(queue[n][p])
      BY <1>4
    <2>2. ~NoExit(n, p)
      BY <1>1, <2>1 DEF NoExit
    <2>3. proxy[p] = n
      BY <1>1, <1>2, WorkerThere
    <2>. QED
      BY <1>1, <2>2, <2>3 DEF LifeInv, ServerInv
  <1>. QED
    BY <1>11, <1>12

\* The head tells its slaves to leave and enters the last barrier.
LEMMA KillSlavesLife ==
    ASSUME LifeInv, NEW n \in Actors, NEW p \in Ranks, KillSlaves(n, p)
    PROVE  LifeInv'
  <1>1. /\ Takes(n, p, "exit") /\ Broadcast(n, 0) /\ DestroyActor(n, p)
        /\ UNCHANGED <<reply, program, group, destroyed, ncalls, server, proxy, answerStop, executed>>
    BY DEF KillSlaves
  <1>2. thread[n][p] = "loop"
    BY <1>1 DEF Takes
  <1>3. /\ n \in Created /\ p \in Members(n)
        /\ HeadOf(n) \in Ranks /\ HeadOf(n) \in Members(n) /\ Members(n) \subseteq Ranks
        /\ HeadOf(n) \notin Slaves(n)
        /\ \A q \in Slaves(n) : q \in Members(n) /\ q \in Ranks
        /\ BarrierInv(n) /\ BroadcastInv(n) /\ EndInv(n)
    BY <1>2, WorkerThere
  <1>4. /\ p = HeadOf(n)
        /\ queue' \in [Actors -> [Ranks -> Seq(Requests)]]
        /\ \A k \in Actors \ {n} : queue'[k] = queue[k]
        /\ \A k \in Actors, q \in Ranks : NoExit(k, q) => NoExit(k, q)'
    BY <1>1, <1>3, TakesEffect DEF LifeInv
  <1>5. mgmt' = mgmt /\ EnterSync(n, p) /\ Moves(n, p, "leave")
    BY <1>1, <1>4 DEF DestroyActor, StopsItself, Moves
  <1>6. "leave" \in ThreadStates \ {"none"} /\ ~Leaving(n, p)
    BY <1>2 DEF ThreadStates, Leaving
  <1>7. thread'[n][p] = "leave" /\ \A q \in Ranks : q # p => thread'[n][q] = thread[n][q]
    BY <1>5 DEF Moves, LifeInv, TypeOK
  <1>8. Members(n)' = Members(n) /\ HeadOf(n)' = HeadOf(n) /\ Slaves(n)' = Slaves(n)
    BY <1>1, GroupFrame
  <1>9. /\ syncs' \in [Actors -> [Ranks -> Nat]]
        /\ syncs[n][p] \in Nat /\ syncs'[n][p] = syncs[n][p] + 1
        /\ \A q \in Ranks : q # p => syncs'[n][q] = syncs[n][q]
        /\ \A k \in Actors \ {n} : syncs'[k] = syncs[k]
    BY <1>5, EnterSyncEffect DEF LifeInv
  <1>10. /\ functions' \in [Actors -> [Ranks -> Seq({0, 1})]]
         /\ \A k \in Actors \ {n} : functions'[k] = functions[k]
         /\ \A q \in Ranks : q \notin Slaves(n) => functions'[n][q] = functions[n][q]
         /\ \A q \in Ranks : q \in Slaves(n) => functions'[n][q] = Append(functions[n][q], 0)
    BY <1>1, BroadcastEffect DEF LifeInv
  <1>11. \A q \in Ranks : syncs[n][q] \in Nat
    BY DEF LifeInv, TypeOK
  <1>12. \A q \in Members(n) : syncs[n][q] >= 1 /\ thread[n][q] \notin {"none", "start"}
    BY <1>2, <1>3, <1>11 DEF BarrierInv, Early
  <1>13. \A q \in Ranks : q # p => (Leaving(n, q)' <=> Leaving(n, q))
    BY <1>7 DEF Leaving
  <1>14. Leaving(n, HeadOf(n))'
    BY <1>4, <1>7, <1>8 DEF Leaving
  <1>15. BarrierInv(n)'
    <2>1. \A q \in Members(n) : syncs'[n][q] >= 1
      BY <1>3, <1>9, <1>11, <1>12
    <2>2. ASSUME NEW q \in Members(n)
          PROVE  thread'[n][q] \notin {"none", "start"} /\ (thread'[n][q] = "construct" => syncs'[n][q] = 1)
      BY <1>3, <1>7, <1>9, <1>12 DEF BarrierInv
    <2>3. \A q \in Members(n) : syncs'[n][q] # 0
      BY <2>1
    <2>. QED
      BY <1>8, <2>1, <2>2, <2>3 DEF BarrierInv
  <1>16. BroadcastInv(n)'
    <2>1. ASSUME NEW q \in Ranks, functions'[n][q] # << >>
          PROVE  q \in Slaves(n) /\ thread'[n][HeadOf(n)] \notin Early
      BY <1>3, <1>4, <1>7, <1>10, <2>1 DEF BroadcastInv, Early
    <2>2. ASSUME NEW q \in Slaves(n)
          PROVE  /\ syncs'[n][HeadOf(n)] = syncs'[n][q] + Len(functions'[n][q])
                 /\ \A i \in 1..Len(functions'[n][q]) : functions'[n][q][i] = 0 <=> i = Len(functions'[n][q])
                 /\ functions'[n][q] # << >>
                 /\ ~Leaving(n, q)'
      <3>1. q \in Ranks /\ q # p /\ q \in Members(n)
        BY <1>3, <1>4
      <3>2. functions[n][q] \in Seq({0, 1}) /\ functions'[n][q] = Append(functions[n][q], 0)
        BY <1>10, <3>1 DEF LifeInv, TypeOK
      <3>3. /\ Len(functions[n][q]) \in Nat
            /\ Len(functions'[n][q]) = Len(functions[n][q]) + 1
            /\ functions'[n][q][Len(functions[n][q]) + 1] = 0
            /\ functions'[n][q] # << >>
            /\ \A i \in 1..Len(functions[n][q]) : functions'[n][q][i] = functions[n][q][i]
        BY <3>2, AppendFacts
      <3>4. syncs[n][HeadOf(n)] = syncs[n][q] + Len(functions[n][q])
        BY <1>3, <1>12, <3>1 DEF BroadcastInv
      <3>5. syncs'[n][HeadOf(n)] = syncs[n][HeadOf(n)] + 1 /\ syncs'[n][q] = syncs[n][q] /\ syncs[n][q] \in Nat
        BY <1>4, <1>9, <1>11, <3>1
      <3>6. \A i \in 1..Len(functions[n][q]) : functions[n][q][i] # 0
        BY <1>3, <1>4, <1>6 DEF BroadcastInv
      <3>. DEFINE l == Len(functions[n][q])
                  f == functions[n][q]
                  f1 == functions'[n][q]
      <3>7. /\ l \in Nat /\ Len(functions'[n][q]) = l + 1 /\ f1[l + 1] = 0
            /\ \A i \in 1..l : f1[i] # 0
        BY <3>3, <3>6
      <3>. HIDE DEF l, f, f1
      <3>8. \A i \in 1..(l + 1) : f1[i] = 0 <=> i = l + 1
        <4>. SUFFICES ASSUME NEW i \in 1..(l + 1) PROVE f1[i] = 0 <=> i = l + 1
          OBVIOUS
        <4>1. (i \in 1..l /\ i # l + 1) \/ i = l + 1
          BY <3>7
        <4>. QED
          BY <3>7, <4>1
      <3>9. \A i \in 1..Len(functions'[n][q]) : functions'[n][q][i] = 0 <=> i = Len(functions'[n][q])
        BY <3>7, <3>8 DEF f1
      <3>10. ~Leaving(n, q)'
        BY <1>3, <1>4, <1>6, <1>13, <3>1 DEF BroadcastInv
      <3>11. syncs'[n][HeadOf(n)] = syncs'[n][q] + Len(functions'[n][q])
        BY <3>3, <3>4, <3>5
      <3>. QED
        BY <3>3, <3>9, <3>10, <3>11
    <2>. QED
      BY <1>8, <1>14, <2>1, <2>2 DEF BroadcastInv
  <1>17. EndInv(n)'
    <2>1. \A q \in Ranks : thread'[n][q] = "done" => thread[n][q] = "done"
      BY <1>7
    <2>2. \A q \in Ranks : Leaving(n, q) => Leaving(n, q)'
      BY <1>6, <1>13
    <2>. QED
      BY <1>3, <1>8, <2>1, <2>2 DEF EndInv
  <1>18. CountOf(n)' /\ server[p] # "run"
    BY <1>1, <1>3, <1>7, TakesExit
  <1>19. p \notin Slaves(n)
    BY <1>3, <1>4
  <1>20. SelfInv'
    BY <1>1, <1>2, <1>5, <1>6, <1>19, MoveSelf
  <1>21. mgmt' \in [Procs -> [Ranks -> Seq(Messages)]] /\ executed' \in [Actors -> Nat]
    BY <1>1, <1>5 DEF LifeInv, TypeOK
  <1>. QED
    BY <1>1, <1>2, <1>4, <1>5, <1>6, <1>9, <1>10, <1>15, <1>16, <1>17, <1>18, <1>20, <1>21, ThreadLife
       DEF SyncOf

\* A thread that leaves the last barrier knows that every other one entered it.
LEMMA LastBarrier ==
    ASSUME LifeInv, NEW n \in Actors, NEW p \in Ranks, thread[n][p] = "leave", CanLeaveSync(n, p)
    PROVE  \A q \in Members(n) : Leaving(n, q)
  <1>1. /\ n \in Created /\ p \in Members(n)
        /\ HeadOf(n) \in Ranks /\ HeadOf(n) \in Members(n) /\ Members(n) \subseteq Ranks
        /\ \A q \in Members(n) : q \in Slaves(n) \/ q = HeadOf(n)
        /\ \A q \in Slaves(n) : q \in Members(n) /\ q \in Ranks
        /\ BarrierInv(n) /\ BroadcastInv(n)
    BY WorkerThere
  <1>2. \A q \in Members(n) : syncs[n][q] \in Nat /\ syncs[n][q] >= 1 /\ syncs[n][q] >= syncs[n][p]
    <2>1. \A q \in Members(n) : syncs[n][q] \in Nat
      BY <1>1 DEF LifeInv, TypeOK
    <2>2. thread[n][p] \notin Early
      BY DEF Early
    <2>. QED
      BY <1>1, <2>1, <2>2 DEF BarrierInv, CanLeaveSync
  <1>3. \A q \in Slaves(n) : syncs[n][HeadOf(n)] = syncs[n][q] + Len(functions[n][q])
    BY <1>1, <1>2 DEF BroadcastInv
  <1>4. \A q \in Slaves(n) : Len(functions[n][q]) \in Nat /\ (functions[n][q] = << >> <=> Len(functions[n][q]) = 0)
    BY <1>1, EmptyFacts DEF LifeInv, TypeOK
  <1>5. Leaving(n, p)
    BY DEF Leaving
  <1>6. Leaving(n, HeadOf(n)) /\ syncs[n][p] = syncs[n][HeadOf(n)]
    <2>1. CASE p = HeadOf(n)
      BY <1>5, <2>1
    <2>2. CASE p \in Slaves(n)
      <3>1. functions[n][p] = << >> /\ Leaving(n, HeadOf(n))
        BY <1>1, <1>5, <2>2 DEF BroadcastInv
      <3>2. Len(functions[n][p]) = 0
        BY <1>4, <2>2, <3>1
      <3>. QED
        BY <1>1, <1>2, <1>3, <2>2, <3>1, <3>2
    <2>. QED
      BY <1>1, <2>1, <2>2
  <1>7. ASSUME NEW q \in Slaves(n) PROVE Leaving(n, q)
    <2>. DEFINE h == syncs[n][HeadOf(n)]
                s == syncs[n][q]
                l == Len(functions[n][q])
    <2>1. h \in Nat /\ s \in Nat /\ l \in Nat /\ s >= h /\ h = s + l
      BY <1>1, <1>2, <1>3, <1>4, <1>6
    <2>. HIDE DEF h, s, l
    <2>2. l = 0
      BY <2>1
    <2>. USE DEF h, s, l
    <2>3. functions[n][q] = << >>
      BY <1>4, <2>2
    <2>. QED
      BY <1>1, <1>6, <2>3 DEF BroadcastInv
  <1>. QED
    BY <1>1, <1>6, <1>7

\* The thread ends.
LEMMA EndThreadLife ==
    ASSUME LifeInv, NEW n \in Actors, NEW p \in Ranks, EndThread(n, p)
    PROVE  LifeInv'
  <1>1. /\ thread[n][p] = "leave" /\ CanLeaveSync(n, p) /\ Moves(n, p, "done")
        /\ UNCHANGED <<mgmt, reply, program, group, destroyed, ncalls, server, proxy, answerStop,
                       syncs, queue, functions, executed>>
    BY DEF EndThread, Moves
  <1>2. "done" \in ThreadStates \ {"none"} /\ Leaving(n, p)
    BY <1>1 DEF ThreadStates, Leaving
  <1>3. /\ n \in Created /\ p \in Members(n) /\ proxy[p] = n
        /\ HeadOf(n) \in Ranks /\ HeadOf(n) \in Members(n) /\ Members(n) \subseteq Ranks
        /\ \A q \in Slaves(n) : q \in Members(n) /\ q \in Ranks
        /\ BarrierInv(n) /\ BroadcastInv(n) /\ CountOf(n)
    BY <1>1, WorkerThere
  <1>4. thread'[n][p] = "done" /\ \A q \in Ranks : q # p => thread'[n][q] = thread[n][q]
    BY <1>1 DEF Moves, LifeInv, TypeOK
  <1>5. Members(n)' = Members(n) /\ HeadOf(n)' = HeadOf(n) /\ Slaves(n)' = Slaves(n)
    BY <1>1, GroupFrame
  <1>6. \A q \in Ranks : Leaving(n, q)' <=> Leaving(n, q)
    BY <1>2, <1>4 DEF Leaving
  <1>7. \A q \in Ranks : /\ thread'[n][q] \in Early <=> thread[n][q] \in Early
                         /\ thread[n][q] \in Early => thread'[n][q] = thread[n][q]
    BY <1>1, <1>4 DEF Early
  <1>8. BarrierInv(n)'
    <2>. SUFFICES ASSUME NEW q \in Members(n)
                  PROVE  /\ thread'[n][q] \in {"none", "start"} <=> syncs[n][q] = 0
                         /\ thread'[n][q] = "construct" => syncs[n][q] = 1
                         /\ thread'[n][q] \notin Early => \A s \in Members(n) : syncs[n][s] >= 1
      BY <1>1, <1>5 DEF BarrierInv
    <2>1. q \in Ranks
      BY <1>3
    <2>. QED
      BY <1>3, <1>7, <2>1 DEF BarrierInv, Early
  <1>9. BroadcastInv(n)'
    BY <1>1, <1>3, <1>5, <1>6, <1>7 DEF BroadcastInv
  <1>10. EndInv(n)'
    <2>1. \A q \in Members(n) : Leaving(n, q)
      BY <1>1, LastBarrier
    <2>. QED
      BY <1>3, <1>5, <1>6, <2>1 DEF EndInv
  <1>11. CountOf(n)'
    <2>1. HeadQueue(n)' = HeadQueue(n) /\ Sent(n)' = Sent(n)
      BY <1>1, <1>5 DEF HeadQueue, Sent
    <2>2. Exit(n)' = Exit(n)
      BY <2>1 DEF Exit
    <2>3. Busy(n)' = Busy(n)
      <3>1. thread'[n][HeadOf(n)] = thread[n][HeadOf(n)] \/ HeadOf(n) = p
        BY <1>3, <1>4
      <3>. QED
        BY <1>1, <1>4, <1>5, <3>1 DEF Busy
    <2>4. Off(n)' <=> Off(n)
      <3>1. thread'[n][HeadOf(n)] = thread[n][HeadOf(n)] \/ HeadOf(n) = p
        BY <1>3, <1>4
      <3>. QED
        BY <1>1, <1>4, <1>5, <3>1 DEF Off
    <2>. QED
      BY <1>1, <1>3, <2>1, <2>2, <2>3, <2>4 DEF CountOf
  <1>12. SelfInv'
    BY <1>1, <1>2, MoveSelf
  <1>13. p = HeadOf(n) => server[p] # "run"
    BY <1>2, <1>3 DEF LifeInv, ServerInv
  <1>14. \A k \in Actors, q \in Ranks : NoExit(k, q) => NoExit(k, q)'
    BY <1>1 DEF NoExit
  <1>15. /\ mgmt' \in [Procs -> [Ranks -> Seq(Messages)]]
         /\ syncs' \in [Actors -> [Ranks -> Nat]]
         /\ queue' \in [Actors -> [Ranks -> Seq(Requests)]]
         /\ functions' \in [Actors -> [Ranks -> Seq({0, 1})]]
         /\ executed' \in [Actors -> Nat]
    BY <1>1 DEF LifeInv, TypeOK
  <1>. QED
    BY <1>1, <1>2, <1>8, <1>9, <1>10, <1>11, <1>12, <1>13, <1>14, <1>15, ThreadLife DEF SyncOf

\* Every step of a worker keeps the invariant.
LEMMA ThreadStepLife ==
    ASSUME LifeInv, NEW n \in Actors, NEW p \in Ranks, ThreadStep(n, p)
    PROVE  LifeInv'
  BY StartThreadLife, EnterLoopLife, ExecutePlainLife, ExecuteSpmdLife, SlaveFunctionLife, EndFunctionLife,
     ExecuteAskLife, EndAskLife, KillSlavesLife, SlaveLeavesLife, EndThreadLife DEF ThreadStep

-----------------------------------------------------------------------------
(***************************************************************************)
(* What a step of a management thread or of the program leaves alone.      *)
(***************************************************************************)

\* Which actors share processes.
LEMMA GroupStays ==
    ASSUME LifeInv, group' = group, destroyed' = destroyed
    PROVE  GroupInv'
  BY GroupFrame DEF LifeInv, GroupInv

\* Where the workers are.
LEMMA ThreadsStay ==
    ASSUME LifeInv, group' = group, thread' = thread, proxy' = proxy
    PROVE  ThreadInv'
  BY GroupFrame DEF LifeInv, ThreadInv

\* Their barriers.
LEMMA SyncStays ==
    ASSUME LifeInv, group' = group, thread' = thread, syncs' = syncs, functions' = functions
    PROVE  SyncInv'
  <1>1. /\ Created' = Created
        /\ \A k : Members(k)' = Members(k) /\ HeadOf(k)' = HeadOf(k) /\ Slaves(k)' = Slaves(k)
    BY GroupFrame
  <1>2. \A k, q : Leaving(k, q)' <=> Leaving(k, q)
    BY DEF Leaving
  <1>3. ASSUME NEW k \in Created PROVE SyncOf(k)'
    <2>1. BarrierInv(k) /\ BroadcastInv(k) /\ EndInv(k)
      BY DEF LifeInv, SyncInv, SyncOf
    <2>2. BarrierInv(k)'
      BY <1>1, <2>1 DEF BarrierInv
    <2>3. BroadcastInv(k)'
      BY <1>1, <1>2, <2>1 DEF BroadcastInv
    <2>4. EndInv(k)'
      BY <1>1, <1>2, <2>1 DEF EndInv
    <2>. QED
      BY <2>2, <2>3, <2>4 DEF SyncOf
  <1>. QED
    BY <1>1, <1>3 DEF SyncInv

\* The calls of one actor.
LEMMA CountStays ==
    ASSUME LifeInv, NEW k \in Created, group' = group, thread' = thread, ncalls' = ncalls, executed' = executed,
           queue'[k][HeadOf(k)] = queue[k][HeadOf(k)], Sent(k)' = Sent(k)
    PROVE  CountOf(k)'
  <1>1. HeadOf(k)' = HeadOf(k)
    BY GroupFrame
  <1>2. HeadQueue(k)' = HeadQueue(k) /\ Busy(k)' = Busy(k) /\ (Off(k)' <=> Off(k))
    BY <1>1 DEF HeadQueue, Busy, Off
  <1>3. Exit(k)' = Exit(k)
    BY <1>2 DEF Exit
  <1>4. CountOf(k)
    BY DEF LifeInv, CountInv
  <1>. QED
    BY <1>2, <1>3, <1>4 DEF CountOf

\* The question of a worker is answered.
LEMMA HandleGetLife ==
    ASSUME LifeInv, NEW p \in Ranks, HandleGet(p)
    PROVE  LifeInv'
  <1>1. PICK n \in Actors : thread[n][p] = "asking" /\ Moves(n, p, "answered")
    BY DEF HandleGet, Moves
  <1>2. /\ Receive(p, p, "GET")
        /\ UNCHANGED <<reply, program, group, destroyed, ncalls, server, proxy, answerStop, syncs,
                       queue, functions, executed>>
    BY DEF HandleGet
  <1>3. p \in Procs /\ Client \in Procs /\ p # Client /\ Ranks \subseteq Procs
    BY DEF Procs
  <1>4. /\ mgmt' \in [Procs -> [Ranks -> Seq(Messages)]]
        /\ mgmt[p][p] # << >> /\ mgmt'[p][p] = Tail(mgmt[p][p])
        /\ Head(mgmt[p][p]).type = "GET"
        /\ \A d \in Procs, q \in Ranks : ~(d = p /\ q = p) => mgmt'[d][q] = mgmt[d][q]
    BY <1>2, <1>3, ReceiveEffect DEF LifeInv
  <1>5. Head(<<StopMsg>>).type # "GET" /\ Tail(<<GetMsg>>) = << >>
    BY MessagesSent
  <1>6. mgmt'[p][p] = << >>
    BY <1>4, <1>5 DEF LifeInv, SelfInv
  <1>7. "answered" \in ThreadStates \ {"none"} /\ "answered" \in ThreadStates \ Early /\ ~Leaving(n, p)
        /\ thread[n][p] \notin Early
    BY <1>1 DEF ThreadStates, Leaving, Early
  <1>8. /\ n \in Created /\ proxy[p] = n /\ HeadOf(n) \notin Slaves(n) /\ HeadOf(n) \in Ranks
    BY <1>1, WorkerThere
  <1>9. p = HeadOf(n)
    BY <1>1 DEF LifeInv, ThreadInv
  <1>10. thread'[n][p] = "answered" /\ \A k \in Actors, q \in Ranks : q # p => thread'[k][q] = thread[k][q]
    BY <1>1 DEF Moves, LifeInv, TypeOK
  <1>11. SyncOf(n)'
    BY <1>1, <1>2, <1>7, QuietSync
  <1>12. CountOf(n)'
    <2>1. HeadOf(n)' = HeadOf(n)
      BY <1>2, GroupFrame
    <2>2. Busy(n) = 1 /\ Busy(n)' = 1
      BY <1>1, <1>9, <1>10, <2>1 DEF Busy
    <2>3. Busy(n)' + 0 = Busy(n) + 0 /\ executed'[n] = executed[n] + 0
      BY <1>2, <2>2 DEF LifeInv, TypeOK
    <2>4. /\ Len(HeadQueue(n)) \in Nat /\ Len(HeadQueue(n)') = Len(HeadQueue(n)) - 0
          /\ Exit(n)' = Exit(n)
          /\ \A i \in 1..(Len(HeadQueue(n)') - 1) : HeadQueue(n)'[i] # "exit"
      BY <1>2, <1>8, SameQueue
    <2>. QED
      BY <1>2, <1>7, <1>8, <1>9, <1>10, <2>3, <2>4, HeadCount
  <1>13. SelfInv'
    <2>1. Created' = Created /\ \A k : HeadOf(k)' = HeadOf(k) /\ Slaves(k)' = Slaves(k)
      BY <1>2, GroupFrame
    <2>. SUFFICES ASSUME NEW q \in Ranks
                  PROVE  /\ \A c \in Ranks : c # q => mgmt'[c][q] = << >>
                         /\ mgmt'[q][q] \in {<< >>, <<GetMsg>>, <<StopMsg>>}
                         /\ mgmt'[q][q] = <<GetMsg>> =>
                               \E k \in Created : proxy[q] = k /\ q = HeadOf(k) /\ thread'[k][q] = "asking"
                         /\ mgmt'[q][q] = <<StopMsg>> =>
                               \/ server[q] = "barrier"
                               \/ server[q] \in {"run", "cleanup"} /\ \E k \in Created : SlaveLeft(k, q)'
                         /\ (server[q] = "run" /\ \E k \in Created : SlaveLeft(k, q)') => mgmt'[q][q] = <<StopMsg>>
      BY <1>2, <2>1 DEF SelfInv
    <2>2. CASE q = p
      <3>1. \A k \in Created : ~SlaveLeft(k, p)'
        BY <1>2, <1>8, <1>9, <2>1 DEF SlaveLeft
      <3>2. \A c \in Ranks : c # p => mgmt'[c][p] = << >>
        <4>1. \A c \in Ranks : c # p => mgmt[c][p] = << >>
          BY DEF LifeInv, SelfInv
        <4>2. \A c \in Ranks : c # p => mgmt'[c][p] = mgmt[c][p]
          BY <1>3, <1>4
        <4>. QED
          BY <4>1, <4>2
      <3>3. << >> # <<GetMsg>> /\ << >> # <<StopMsg>>
        OBVIOUS
      <3>. QED
        BY <1>6, <2>2, <3>1, <3>2, <3>3
    <2>3. CASE q # p
      <3>1. \A c \in Ranks : mgmt'[c][q] = mgmt[c][q]
        BY <1>3, <1>4, <2>3
      <3>2. \A k \in Created : thread'[k][q] = thread[k][q] /\ (SlaveLeft(k, q)' <=> SlaveLeft(k, q))
        BY <1>2, <1>10, <2>1, <2>3 DEF SlaveLeft, Leaving, Created
      <3>. QED
        BY <3>1, <3>2 DEF LifeInv, SelfInv
    <2>. QED
      BY <2>2, <2>3
  <1>14. \A q \in Ranks : mgmt'[Client][q] = mgmt[Client][q]
    BY <1>3, <1>4
  <1>15. \A k \in Actors, q \in Ranks : NoExit(k, q) => NoExit(k, q)'
    BY <1>2 DEF NoExit
  <1>16. /\ syncs' \in [Actors -> [Ranks -> Nat]]
         /\ queue' \in [Actors -> [Ranks -> Seq(Requests)]]
         /\ functions' \in [Actors -> [Ranks -> Seq({0, 1})]]
         /\ executed' \in [Actors -> Nat]
    BY <1>2 DEF LifeInv, TypeOK
  <1>. QED
    BY <1>1, <1>2, <1>4, <1>7, <1>9, <1>11, <1>12, <1>13, <1>14, <1>15, <1>16, ThreadLife

(***************************************************************************)
(* The management thread joins its worker and forgets the actor.           *)
(***************************************************************************)

Forgets(p) == proxy' = [proxy EXCEPT ![p] = NoActor]

\* The worker is done, so nothing depends on the actor at p any more.
LEMMA ForgetFacts ==
    ASSUME LifeInv, NEW p \in Ranks, server[p] \in {"stop", "cleanup"}, Joined(p), Forgets(p),
           mgmt' = mgmt, group' = group, destroyed' = destroyed, thread' = thread,
           server[p] = "stop" => server'[p] = "run", server[p] = "cleanup" => server'[p] = "barrier",
           \A q \in Ranks : q # p => server'[q] = server[q]
    PROVE  /\ proxy' \in [Ranks -> Actors \cup {NoActor}] /\ proxy'[p] = NoActor
           /\ \A q \in Ranks : q # p => proxy'[q] = proxy[q]
           /\ proxy[p] \in Created /\ p \in Members(proxy[p]) /\ thread[proxy[p]][p] = "done"
           /\ ThreadInv' /\ SelfInv' /\ DestroyedInv'
           /\ \A k \in Created, q \in Ranks : q # p => (SlaveLeft(k, q)' <=> SlaveLeft(k, q))
           /\ \A k \in Created : (HeadReady(k) => HeadReady(k)') /\ (Gone(k) => Gone(k)')
  <1>1. proxy \in [Ranks -> Actors \cup {NoActor}]
    BY DEF LifeInv, TypeOK
  <1>2. /\ proxy' \in [Ranks -> Actors \cup {NoActor}] /\ proxy'[p] = NoActor
        /\ \A q \in Ranks : q # p => proxy'[q] = proxy[q]
    BY <1>1 DEF Forgets
  <1>3. proxy[p] # NoActor /\ proxy[p] \in Actors
    BY <1>1 DEF LifeInv, ServerInv
  <1>4. thread[proxy[p]][p] = "done"
    BY DEF Joined
  <1>5. proxy[p] \in Created /\ p \in Members(proxy[p])
    BY <1>3, <1>4 DEF LifeInv, ThreadInv
  <1>6. /\ Created' = Created
        /\ \A k : Members(k)' = Members(k) /\ HeadOf(k)' = HeadOf(k) /\ Slaves(k)' = Slaves(k)
    BY GroupFrame
  <1>7. \A k \in Created : k \in Actors /\ k # NoActor /\ HeadOf(k) \in Ranks
    BY GroupFacts DEF LifeInv
  <1>8. \A k, q : Leaving(k, q)' <=> Leaving(k, q)
    BY DEF Leaving
  <1>9. \A k \in Created, q \in Ranks : q # p => (SlaveLeft(k, q)' <=> SlaveLeft(k, q))
    BY <1>2, <1>6, <1>8 DEF SlaveLeft
  <1>10. \A k \in Created : ~SlaveLeft(k, p)'
    BY <1>2, <1>7 DEF SlaveLeft
  <1>11. \A k \in Created : HeadReady(k) => HeadReady(k)'
    BY <1>2, <1>6, <1>7 DEF HeadReady
  <1>12. \A k \in Created : Gone(k) => Gone(k)'
    <2>. SUFFICES ASSUME NEW k \in Created, Gone(k) PROVE Gone(k)'
      OBVIOUS
    <2>1. proxy'[HeadOf(k)] # k
      BY <1>2, <1>7 DEF Gone
    <2>. QED
      BY <1>6, <1>8, <2>1 DEF Gone
  <1>13. ThreadInv'
    <2>. SUFFICES ASSUME NEW k \in Actors, NEW q \in Ranks
                  PROVE  /\ thread[k][q] # "none" => k \in Created /\ q \in Members(k)
                         /\ thread[k][q] \notin {"none", "done"} => proxy'[q] = k
                         /\ proxy'[q] = k => thread[k][q] # "none"
                         /\ thread[k][q] \in {"asking", "answered"} => q = HeadOf(k)
      BY <1>6 DEF ThreadInv
    <2>1. k # NoActor
      BY DEF Actors, NoActor
    <2>2. CASE q = p
      BY <1>2, <1>4, <2>1, <2>2 DEF LifeInv, ThreadInv
    <2>3. CASE q # p
      BY <1>2, <2>3 DEF LifeInv, ThreadInv
    <2>. QED
      BY <2>2, <2>3
  <1>14. SelfInv'
    <2>. SUFFICES ASSUME NEW q \in Ranks
                  PROVE  /\ \A c \in Ranks : c # q => mgmt[c][q] = << >>
                         /\ mgmt[q][q] \in {<< >>, <<GetMsg>>, <<StopMsg>>}
                         /\ mgmt[q][q] = <<GetMsg>> =>
                               \E k \in Created : proxy'[q] = k /\ q = HeadOf(k) /\ thread[k][q] = "asking"
                         /\ mgmt[q][q] = <<StopMsg>> =>
                               \/ server'[q] = "barrier"
                               \/ server'[q] \in {"run", "cleanup"} /\ \E k \in Created : SlaveLeft(k, q)'
                         /\ (server'[q] = "run" /\ \E k \in Created : SlaveLeft(k, q)') => mgmt[q][q] = <<StopMsg>>
      BY <1>6 DEF SelfInv
    <2>1. CASE q = p
      <3>1. mgmt[p][p] # <<GetMsg>>
        BY <1>4 DEF LifeInv, SelfInv
      <3>2. mgmt[p][p] = <<StopMsg>> => server'[p] = "barrier"
        BY DEF LifeInv, SelfInv
      <3>3. /\ \A c \in Ranks : c # p => mgmt[c][p] = << >>
            /\ mgmt[p][p] \in {<< >>, <<GetMsg>>, <<StopMsg>>}
        BY DEF LifeInv, SelfInv
      <3>. QED
        BY <1>10, <2>1, <3>1, <3>2, <3>3
    <2>2. CASE q # p
      <3>1. proxy'[q] = proxy[q] /\ server'[q] = server[q] /\ \A k \in Created : SlaveLeft(k, q)' <=> SlaveLeft(k, q)
        BY <1>2, <1>9, <2>2
      <3>. QED
        BY <3>1 DEF LifeInv, SelfInv
    <2>. QED
      BY <2>1, <2>2
  <1>15. DestroyedInv'
    BY <1>6, <1>12 DEF LifeInv, DestroyedInv
  <1>. QED
    BY <1>2, <1>4, <1>5, <1>9, <1>11, <1>12, <1>13, <1>14, <1>15

\* The stop of an actor ends; the program is answered if it asked.
LEMMA EndStopLife ==
    ASSUME LifeInv, NEW p \in Ranks, EndStop(p)
    PROVE  LifeInv'
  <1>1. /\ server[p] = "stop" /\ Joined(p) /\ Forgets(p)
        /\ server' = [server EXCEPT ![p] = "run"]
        /\ reply' = IF answerStop[p] THEN [reply EXCEPT ![p] = Append(@, "STOP")] ELSE reply
        /\ answerStop' = [answerStop EXCEPT ![p] = FALSE]
    BY DEF EndStop, Forgets
  <1>2. /\ mgmt' = mgmt /\ program' = program /\ group' = group /\ destroyed' = destroyed /\ ncalls' = ncalls
        /\ thread' = thread /\ syncs' = syncs /\ functions' = functions /\ executed' = executed /\ queue' = queue
    BY DEF EndStop, workers
  <1>3. /\ server \in [Ranks -> {"run", "stop", "cleanup", "barrier"}]
        /\ answerStop \in [Ranks -> BOOLEAN]
        /\ reply \in [Ranks -> Seq({"CREATE", "CALL", "STOP"})]
    BY DEF LifeInv, TypeOK
  <1>4. /\ server' \in [Ranks -> {"run", "stop", "cleanup", "barrier"}]
        /\ server'[p] = "run" /\ \A q \in Ranks : q # p => server'[q] = server[q]
    BY <1>1, <1>3
  <1>5. /\ answerStop' \in [Ranks -> BOOLEAN]
        /\ answerStop'[p] = FALSE /\ \A q \in Ranks : q # p => answerStop'[q] = answerStop[q]
    BY <1>1, <1>3
  <1>. DEFINE n == proxy[p]
  <1>6. /\ proxy' \in [Ranks -> Actors \cup {NoActor}] /\ proxy'[p] = NoActor
        /\ \A q \in Ranks : q # p => proxy'[q] = proxy[q]
        /\ n \in Created /\ p \in Members(n) /\ thread[n][p] = "done"
        /\ ThreadInv' /\ SelfInv' /\ DestroyedInv'
        /\ \A k \in Created, q \in Ranks : q # p => (SlaveLeft(k, q)' <=> SlaveLeft(k, q))
        /\ \A k \in Created : (HeadReady(k) => HeadReady(k)') /\ (Gone(k) => Gone(k)')
    BY <1>1, <1>2, <1>4, ForgetFacts
  <1>. HIDE DEF n
  <1>7. /\ Created' = Created /\ Alive' = Alive
        /\ \A k : Members(k)' = Members(k) /\ HeadOf(k)' = HeadOf(k) /\ Slaves(k)' = Slaves(k)
    BY <1>2, GroupFrame
  <1>8. \A k \in Created : k \in Actors /\ k # NoActor /\ HeadOf(k) \in Ranks /\ Members(k) \subseteq Ranks
    BY GroupFacts DEF LifeInv
  <1>9. answerStop[p] =>
            /\ program.pc = "STOP" /\ program.to = p /\ program.actor = n
            /\ reply[p] = << >> /\ p = HeadOf(n)
    <2>. SUFFICES ASSUME answerStop[p]
                  PROVE  /\ program.pc = "STOP" /\ program.to = p /\ program.actor = n
                         /\ reply[p] = << >> /\ p = HeadOf(n)
      OBVIOUS
    <2>1. program.pc = "STOP" /\ program.to = p /\ program.actor = n /\ reply[p] = << >>
      BY <1>1 DEF LifeInv, ServerInv, n
    <2>2. ActorInv(n)
      BY <1>6, <1>8 DEF LifeInv, ProgramInv
    <2>. QED
      BY <2>1, <2>2 DEF ActorInv, Asking
  <1>10. /\ reply' \in [Ranks -> Seq({"CREATE", "CALL", "STOP"})]
         /\ \A q \in Ranks : q # p => reply'[q] = reply[q]
         /\ answerStop[p] => reply'[p] = <<"STOP">> /\ reply'[p] # << >>
         /\ ~answerStop[p] => reply'[p] = reply[p]
    <2>1. CASE answerStop[p]
      <3>1. reply' = [reply EXCEPT ![p] = <<"STOP">>] /\ <<"STOP">> \in Seq({"CREATE", "CALL", "STOP"}) /\ <<"STOP">> # << >>
        BY <1>1, <1>9, <2>1, AppendEmpty
      <3>. QED
        BY <1>3, <2>1, <3>1
    <2>2. CASE ~answerStop[p]
      BY <1>1, <1>3, <2>2
    <2>. QED
      BY <2>1, <2>2
  <1>11. TypeOK'
    BY <1>2, <1>4, <1>5, <1>6, <1>10 DEF LifeInv, TypeOK
  <1>12. UncreatedInv'
    BY <1>2 DEF LifeInv, UncreatedInv
  <1>13. GroupInv' /\ SyncInv'
    BY <1>2, GroupStays, SyncStays
  <1>14. CountInv'
    <2>1. ASSUME NEW k \in Created PROVE Sent(k)' = Sent(k)
      <3>1. CASE program.pc = "CALL"
        <4>1. reply' = reply
          BY <1>1, <1>9, <3>1
        <4>. QED
          BY <1>2, <1>7, <4>1 DEF Sent
      <3>2. CASE program.pc # "CALL"
        BY <1>2, <3>2 DEF Sent
      <3>. QED
        BY <3>1, <3>2
    <2>2. ASSUME NEW k \in Created PROVE CountOf(k)'
      BY <1>2, <2>1, CountStays
    <2>. QED
      BY <1>7, <2>2 DEF CountInv
  <1>15. ServerInv'
    <2>. SUFFICES ASSUME NEW q \in Ranks
                  PROVE  /\ server'[q] = "barrier" => proxy'[q] = NoActor
                         /\ server'[q] \in {"stop", "cleanup"} => proxy'[q] # NoActor
                         /\ server'[q] \in {"cleanup", "barrier"} => program.pc \in {"barrier", "done"}
                         /\ (server'[q] = "stop" /\ answerStop'[q]) =>
                               /\ program.pc = "STOP" /\ program.to = q /\ program.actor = proxy'[q]
                               /\ reply'[q] = << >>
                         /\ (server'[q] = "stop" /\ ~answerStop'[q]) => \E k \in Created : SlaveLeft(k, q)'
                         /\ \A k \in Created : (server'[q] = "run" /\ proxy'[q] = k /\ q = HeadOf(k)) =>
                               ~Leaving(k, q)' /\ NoExit(k, q)'
      BY <1>2, <1>7 DEF ServerInv
    <2>1. CASE q = p
      BY <1>4, <1>6, <1>8, <2>1
    <2>2. CASE q # p
      <3>1. /\ server'[q] = server[q] /\ proxy'[q] = proxy[q] /\ answerStop'[q] = answerStop[q] /\ reply'[q] = reply[q]
            /\ \A k \in Created : SlaveLeft(k, q)' <=> SlaveLeft(k, q)
        BY <1>4, <1>5, <1>6, <1>10, <2>2
      <3>2. \A k \in Created : (Leaving(k, q)' <=> Leaving(k, q)) /\ (NoExit(k, q)' <=> NoExit(k, q))
        BY <1>2 DEF Leaving, NoExit
      <3>. QED
        BY <3>1, <3>2 DEF LifeInv, ServerInv
    <2>. QED
      BY <2>1, <2>2
  <1>16. ProgramInv'
    <2>1. ReplyInv'
      <3>. SUFFICES ASSUME NEW q \in Ranks, reply'[q] # << >>
                    PROVE  program.pc \in Asking /\ program.to = q /\ reply'[q] = <<program.pc>>
        BY <1>2 DEF ReplyInv
      <3>1. CASE q = p /\ answerStop[p]
        BY <1>9, <1>10, <3>1 DEF Asking
      <3>2. CASE ~(q = p /\ answerStop[p])
        <4>1. reply'[q] = reply[q]
          BY <1>10, <3>2
        <4>. QED
          BY <4>1 DEF LifeInv, ProgramInv, ReplyInv
      <3>. QED
        BY <3>1, <3>2
    <2>2. program'.pc \in Asking => program'.actor \in Actors
      BY <1>2 DEF LifeInv, ProgramInv
    <2>3. ASSUME NEW k \in Actors PROVE ActorInv(k)'
      <3>1. ActorInv(k)
        BY DEF LifeInv, ProgramInv
      <3>2. \A i \in Alive : i \in Created
        BY DEF Alive
      <3>3. (program.pc \in Asking /\ program.actor = k) => k \in Alive /\ program.to = HeadOf(k)
        BY <3>1 DEF ActorInv
      <3>4. (program.pc \notin Over /\ k \in Alive) =>
                HeadReady(k)' \/ (program.pc \in {"CREATE", "STOP"} /\ program.actor = k)
        BY <1>6, <3>1, <3>2 DEF ActorInv
      <3>5. (program.pc = "CREATE" /\ program.actor = k) =>
                \/ reply'[HeadOf(k)] = << >> /\ thread[k][HeadOf(k)] = "none"
                \/ reply'[HeadOf(k)] # << >> /\ HeadReady(k)'
        <4>. SUFFICES ASSUME program.pc = "CREATE", program.actor = k
                      PROVE  \/ reply'[HeadOf(k)] = << >> /\ thread[k][HeadOf(k)] = "none"
                             \/ reply'[HeadOf(k)] # << >> /\ HeadReady(k)'
          OBVIOUS
        <4>1. reply' = reply /\ k \in Created
          BY <1>1, <1>9, <3>2, <3>3 DEF Asking
        <4>. QED
          BY <1>6, <3>1, <4>1 DEF ActorInv
      <3>6. (program.pc = "STOP" /\ program.actor = k) =>
                \/ reply'[HeadOf(k)] = << >> /\ HeadReady(k)'
                \/ /\ reply'[HeadOf(k)] = << >> /\ proxy'[HeadOf(k)] = k
                   /\ server'[HeadOf(k)] = "stop" /\ answerStop'[HeadOf(k)]
                \/ reply'[HeadOf(k)] # << >> /\ Gone(k)'
        <4>. SUFFICES ASSUME program.pc = "STOP", program.actor = k
                      PROVE  \/ reply'[HeadOf(k)] = << >> /\ HeadReady(k)'
                             \/ /\ reply'[HeadOf(k)] = << >> /\ proxy'[HeadOf(k)] = k
                                /\ server'[HeadOf(k)] = "stop" /\ answerStop'[HeadOf(k)]
                             \/ reply'[HeadOf(k)] # << >> /\ Gone(k)'
          OBVIOUS
        <4>1. k \in Created /\ HeadOf(k) \in Ranks
          BY <1>8, <3>2, <3>3 DEF Asking
        <4>2. CASE answerStop[p]
          <5>1. k = n /\ HeadOf(k) = p
            BY <1>9, <4>2
          <5>2. Gone(k)'
            <6>1. \A q \in Members(k) : Leaving(k, q)
              BY <1>6, <5>1 DEF LifeInv, SyncInv, SyncOf, EndInv
            <6>2. \A q \in Members(k) : Leaving(k, q)'
              BY <1>2, <6>1 DEF Leaving
            <6>3. thread'[k][p] = "done" /\ proxy'[p] # k
              BY <1>2, <1>6, <1>8, <4>1, <5>1
            <6>. QED
              BY <1>7, <5>1, <6>2, <6>3 DEF Gone
          <5>. QED
            BY <1>10, <4>2, <5>1, <5>2
        <4>3. CASE ~answerStop[p]
          <5>1. reply' = reply
            BY <1>1, <4>3
          <5>2. CASE proxy[HeadOf(k)] = k /\ server[HeadOf(k)] = "stop" /\ answerStop[HeadOf(k)]
            <6>1. HeadOf(k) # p
              BY <4>3, <5>2
            <6>. QED
              BY <1>4, <1>5, <1>6, <3>1, <4>1, <5>1, <5>2, <6>1 DEF ActorInv
          <5>3. CASE ~(proxy[HeadOf(k)] = k /\ server[HeadOf(k)] = "stop" /\ answerStop[HeadOf(k)])
            BY <1>6, <3>1, <4>1, <5>1, <5>3 DEF ActorInv
          <5>. QED
            BY <5>2, <5>3
        <4>. QED
          BY <4>2, <4>3
      <3>7. (program.pc \in Over /\ k \in Created) => thread[k][HeadOf(k)] # "none"
        BY <3>1 DEF ActorInv
      <3>. QED
        BY <1>2, <1>7, <3>3, <3>4, <3>5, <3>6, <3>7 DEF ActorInv
    <2>4. program.pc = "done" => \A q \in Ranks : server'[q] = "barrier"
      BY <1>1 DEF LifeInv, ProgramInv
    <2>. QED
      BY <1>2, <2>1, <2>2, <2>3, <2>4 DEF ProgramInv
  <1>17. ClientInv'
    <2>1. ASSUME NEW q \in Ranks, NEW m \in Messages, FromProgram(q, m) PROVE FromProgram(q, m)'
      <3>1. \A k : CreateMsg(k)' = CreateMsg(k)
        BY <1>2 DEF CreateMsg
      <3>2. \A i \in Alive : i \in Created
        BY DEF Alive
      <3>3. CASE program.pc # "STOP"
        <4>1. reply' = reply
          BY <1>1, <1>9, <3>3
        <4>. QED
          BY <1>2, <1>7, <2>1, <3>1, <3>3, <4>1 DEF FromProgram
      <3>4. CASE program.pc = "STOP"
        <4>1. program.actor \in Actors
          BY <3>4 DEF LifeInv, ProgramInv, Asking
        <4>2. program.actor \in Created /\ program.to = HeadOf(program.actor)
          BY <3>2, <3>4, <4>1 DEF LifeInv, ProgramInv, ActorInv, Asking
        <4>3. CASE m = [type |-> "STOP", answer |-> TRUE]
          <5>1. program.to = q /\ reply[q] = << >> /\ HeadReady(program.actor)
            BY <2>1, <3>4, <4>1, <4>3 DEF FromProgram, CreateMsg, Over
          <5>2. server[q] = "run"
            BY <4>2, <5>1 DEF HeadReady
          <5>3. reply'[q] = << >>
            BY <1>1, <1>10, <5>1, <5>2
          <5>4. \A i \in Actors : program.actor = i => HeadReady(i)'
            BY <1>6, <4>2, <5>1
          <5>. QED
            BY <1>2, <3>4, <4>3, <5>1, <5>3, <5>4 DEF FromProgram
        <4>4. CASE m # [type |-> "STOP", answer |-> TRUE]
          BY <1>2, <1>7, <2>1, <3>1, <3>4, <4>4 DEF FromProgram, Over
        <4>. QED
          BY <4>3, <4>4
      <3>. QED
        BY <3>3, <3>4
    <2>. QED
      BY <1>2, <2>1 DEF LifeInv, ClientInv
  <1>. QED
    BY <1>6, <1>11, <1>12, <1>13, <1>14, <1>15, <1>16, <1>17 DEF LifeInv

\* Once the program is at its end, what it knows of the actors only depends on
\* the workers having been started.
LEMMA OverKeeps ==
    ASSUME LifeInv, program.pc \in Over, program' = program, group' = group, destroyed' = destroyed,
           reply' = reply, thread' = thread
    PROVE  /\ ReplyInv' /\ (program'.pc \in Asking => program'.actor \in Actors)
           /\ \A k \in Actors : ActorInv(k)'
           /\ \A k \in Created : Sent(k)' = Sent(k)
           /\ \A q \in Ranks, m \in Messages : FromProgram(q, m) => FromProgram(q, m)'
  <1>1. program.pc \notin Asking /\ program.pc \notin {"CREATE", "CALL", "STOP"}
    BY DEF Over, Asking
  <1>2. /\ Created' = Created /\ Alive' = Alive
        /\ \A k : Members(k)' = Members(k) /\ HeadOf(k)' = HeadOf(k)
    BY GroupFrame
  <1>3. ReplyInv' /\ (program'.pc \in Asking => program'.actor \in Actors)
    BY DEF LifeInv, ProgramInv, ReplyInv
  <1>4. ASSUME NEW k \in Actors PROVE ActorInv(k)'
    <2>1. ActorInv(k)
      BY DEF LifeInv, ProgramInv
    <2>. QED
      BY <1>1, <1>2, <2>1 DEF ActorInv
  <1>5. \A k \in Created : Sent(k)' = Sent(k)
    BY <1>2 DEF Sent
  <1>6. ASSUME NEW q \in Ranks, NEW m \in Messages, FromProgram(q, m) PROVE FromProgram(q, m)'
    <2>1. \A k : CreateMsg(k)' = CreateMsg(k)
      BY DEF CreateMsg
    <2>. QED
      BY <1>1, <1>2, <1>6, <2>1 DEF FromProgram
  <1>. QED
    BY <1>3, <1>4, <1>5, <1>6

\* The process goes to the barrier when its worker ended.
LEMMA EndCleanupLife ==
    ASSUME LifeInv, NEW p \in Ranks, EndCleanup(p)
    PROVE  LifeInv'
  <1>1. /\ server[p] = "cleanup" /\ Joined(p) /\ Forgets(p)
        /\ server' = [server EXCEPT ![p] = "barrier"]
    BY DEF EndCleanup, Forgets
  <1>2. /\ mgmt' = mgmt /\ reply' = reply /\ program' = program /\ group' = group /\ destroyed' = destroyed
        /\ ncalls' = ncalls /\ answerStop' = answerStop
        /\ thread' = thread /\ syncs' = syncs /\ functions' = functions /\ executed' = executed /\ queue' = queue
    BY DEF EndCleanup, workers
  <1>3. server \in [Ranks -> {"run", "stop", "cleanup", "barrier"}]
    BY DEF LifeInv, TypeOK
  <1>4. /\ server' \in [Ranks -> {"run", "stop", "cleanup", "barrier"}]
        /\ server'[p] = "barrier" /\ \A q \in Ranks : q # p => server'[q] = server[q]
    BY <1>1, <1>3
  <1>5. /\ proxy' \in [Ranks -> Actors \cup {NoActor}] /\ proxy'[p] = NoActor
        /\ \A q \in Ranks : q # p => proxy'[q] = proxy[q]
        /\ ThreadInv' /\ SelfInv' /\ DestroyedInv'
        /\ \A k \in Created, q \in Ranks : q # p => (SlaveLeft(k, q)' <=> SlaveLeft(k, q))
    BY <1>1, <1>2, <1>4, ForgetFacts
  <1>6. Created' = Created /\ \A k : HeadOf(k)' = HeadOf(k)
    BY <1>2, GroupFrame
  <1>7. program.pc \in Over
    BY <1>1 DEF LifeInv, ServerInv, Over
  <1>8. /\ ReplyInv' /\ (program'.pc \in Asking => program'.actor \in Actors)
        /\ \A k \in Actors : ActorInv(k)'
        /\ \A k \in Created : Sent(k)' = Sent(k)
        /\ \A q \in Ranks, m \in Messages : FromProgram(q, m) => FromProgram(q, m)'
    BY <1>2, <1>7, OverKeeps
  <1>9. TypeOK'
    BY <1>2, <1>4, <1>5 DEF LifeInv, TypeOK
  <1>10. UncreatedInv'
    BY <1>2 DEF LifeInv, UncreatedInv
  <1>11. GroupInv' /\ SyncInv'
    BY <1>2, GroupStays, SyncStays
  <1>12. CountInv'
    <2>1. ASSUME NEW k \in Created PROVE CountOf(k)'
      BY <1>2, <1>8, CountStays
    <2>. QED
      BY <1>6, <2>1 DEF CountInv
  <1>13. ServerInv'
    <2>. SUFFICES ASSUME NEW q \in Ranks
                  PROVE  /\ server'[q] = "barrier" => proxy'[q] = NoActor
                         /\ server'[q] \in {"stop", "cleanup"} => proxy'[q] # NoActor
                         /\ server'[q] \in {"cleanup", "barrier"} => program.pc \in {"barrier", "done"}
                         /\ (server'[q] = "stop" /\ answerStop[q]) =>
                               /\ program.pc = "STOP" /\ program.to = q /\ program.actor = proxy'[q]
                               /\ reply[q] = << >>
                         /\ (server'[q] = "stop" /\ ~answerStop[q]) => \E k \in Created : SlaveLeft(k, q)'
                         /\ \A k \in Created : (server'[q] = "run" /\ proxy'[q] = k /\ q = HeadOf(k)) =>
                               ~Leaving(k, q)' /\ NoExit(k, q)'
      BY <1>2, <1>6 DEF ServerInv
    <2>1. CASE q = p
      BY <1>4, <1>5, <1>7, <2>1 DEF Over
    <2>2. CASE q # p
      <3>1. /\ server'[q] = server[q] /\ proxy'[q] = proxy[q]
            /\ \A k \in Created : SlaveLeft(k, q)' <=> SlaveLeft(k, q)
        BY <1>4, <1>5, <2>2
      <3>2. \A k \in Created : (Leaving(k, q)' <=> Leaving(k, q)) /\ (NoExit(k, q)' <=> NoExit(k, q))
        BY <1>2 DEF Leaving, NoExit
      <3>. QED
        BY <3>1, <3>2 DEF LifeInv, ServerInv
    <2>. QED
      BY <2>1, <2>2
  <1>14. program.pc = "done" => \A q \in Ranks : server'[q] = "barrier"
    BY <1>4 DEF LifeInv, ProgramInv
  <1>15. ProgramInv'
    BY <1>2, <1>8, <1>14 DEF ProgramInv
  <1>16. ClientInv'
    BY <1>2, <1>8 DEF LifeInv, ClientInv
  <1>. QED
    BY <1>5, <1>9, <1>10, <1>11, <1>12, <1>13, <1>15, <1>16 DEF LifeInv

(***************************************************************************)
(* A message of the program is received: which one it is, and what is left *)
(* in the channel.                                                         *)
(***************************************************************************)

\* Who sends what.
LEMMA Sender ==
    ASSUME LifeInv, NEW p \in Ranks, NEW c \in Procs, NEW t, Receive(p, c, t)
    PROVE  /\ c = Client \/ c = p
           /\ c = p => mgmt'[p][p] = << >> /\ (t = "GET" \/ (t = "STOP" /\ mgmt[p][p] = <<StopMsg>>))
  <1>1. /\ mgmt[c][p] # << >> /\ Head(mgmt[c][p]).type = t /\ mgmt'[c][p] = Tail(mgmt[c][p])
    BY ReceiveEffect DEF LifeInv
  <1>2. c = Client \/ c \in Ranks
    BY DEF Procs
  <1>3. c = Client \/ c = p
    BY <1>1, <1>2 DEF LifeInv, SelfInv
  <1>4. /\ Head(<<GetMsg>>).type = "GET" /\ Head(<<StopMsg>>).type = "STOP"
        /\ Tail(<<GetMsg>>) = << >> /\ Tail(<<StopMsg>>) = << >>
    BY MessagesSent
  <1>5. mgmt[p][p] \in {<< >>, <<GetMsg>>, <<StopMsg>>}
    BY DEF LifeInv, SelfInv
  <1>. QED
    BY <1>1, <1>3, <1>4, <1>5

\* The message is one the program is known to have sent.
LEMMA ProgramsMessage ==
    ASSUME LifeInv, NEW p \in Ranks, NEW t, Receive(p, Client, t)
    PROVE  /\ FromProgram(p, Head(mgmt[Client][p]))
           /\ t = "CREATE" \/ mgmt'[Client][p] = << >>
           /\ \A i \in 1..Len(mgmt'[Client][p]), m \in Messages :
                 mgmt'[Client][p][i] = m => FromProgram(p, m) /\ m.type = "STOP_PROCESS"
           /\ Len(mgmt'[Client][p]) \in 0..1
           /\ \A c \in Ranks, q \in Ranks : mgmt'[c][q] = mgmt[c][q]
           /\ \A q \in Ranks : q # p => mgmt'[Client][q] = mgmt[Client][q]
  <1>1. Client \in Procs /\ Client \notin Ranks /\ Ranks \subseteq Procs
    BY DEF Procs
  <1>2. /\ mgmt' \in [Procs -> [Ranks -> Seq(Messages)]]
        /\ Head(mgmt[Client][p]) = mgmt[Client][p][1] /\ Head(mgmt[Client][p]) \in Messages
        /\ Head(mgmt[Client][p]).type = t
        /\ Len(mgmt[Client][p]) \in Nat /\ Len(mgmt[Client][p]) >= 1
        /\ Len(mgmt'[Client][p]) = Len(mgmt[Client][p]) - 1
        /\ \A i \in 1..Len(mgmt'[Client][p]) : mgmt'[Client][p][i] = mgmt[Client][p][i + 1]
        /\ \A d \in Procs, q \in Ranks : ~(d = Client /\ q = p) => mgmt'[d][q] = mgmt[d][q]
    BY <1>1, ReceiveEffect DEF LifeInv
  <1>3. /\ \A i \in 1..Len(mgmt[Client][p]), m \in Messages : mgmt[Client][p][i] = m => FromProgram(p, m)
        /\ Len(mgmt[Client][p]) \in 0..2
        /\ Len(mgmt[Client][p]) = 2 =>
              mgmt[Client][p][1].type = "CREATE" /\ mgmt[Client][p][2].type = "STOP_PROCESS"
    BY DEF LifeInv, ClientInv
  <1>. DEFINE l == Len(mgmt[Client][p])
              l1 == Len(mgmt'[Client][p])
  <1>4. /\ l \in Nat /\ l >= 1 /\ l \in 0..2 /\ l1 = l - 1
    BY <1>2, <1>3
  <1>. HIDE DEF l, l1
  <1>5. /\ 1 \in 1..l /\ l1 \in 0..1
        /\ \A i \in 1..l1 : i = 1 /\ l = 2 /\ i + 1 \in 1..l /\ i + 1 = 2
        /\ (l = 1 \/ l = 2) /\ (l = 1 => l1 = 0)
    BY <1>4
  <1>6. FromProgram(p, Head(mgmt[Client][p]))
    BY <1>2, <1>3, <1>5, Zenon DEF l
  <1>7. t = "CREATE" \/ mgmt'[Client][p] = << >>
    <2>1. CASE l = 1
      <3>1. l1 = 0
        BY <1>4, <2>1
      <3>2. mgmt'[Client][p] \in Seq(Messages)
        BY <1>1, <1>2
      <3>. QED
        BY <3>1, <3>2, EmptyFacts DEF l1
    <2>2. CASE l = 2
      BY <1>2, <1>3, <2>2 DEF l
    <2>. QED
      BY <1>5, <2>1, <2>2
  <1>8. ASSUME NEW i \in 1..Len(mgmt'[Client][p]), NEW m \in Messages, mgmt'[Client][p][i] = m
        PROVE  FromProgram(p, m) /\ m.type = "STOP_PROCESS"
    <2>1. i \in 1..l1
      BY DEF l1
    <2>2. l = 2 /\ i + 1 \in 1..l /\ i + 1 = 2
      BY <1>5, <2>1
    <2>3. mgmt[Client][p][i + 1] = m
      BY <1>2, <1>8
    <2>4. FromProgram(p, m)
      BY <1>3, <2>2, <2>3, Zenon DEF l
    <2>5. mgmt[Client][p][2].type = "STOP_PROCESS"
      BY <1>3, <2>2 DEF l
    <2>. QED
      BY <2>2, <2>3, <2>4, <2>5
  <1>. QED
    BY <1>1, <1>2, <1>5, <1>6, <1>7, <1>8 DEF l1

(***************************************************************************)
(* A request is posted to the worker at p.                                 *)
(***************************************************************************)

Posts(n, p, r) == queue' = [queue EXCEPT ![n][p] = Append(@, r)]

\* The request is the last one of its queue.
LEMMA PostEffect ==
    ASSUME LifeInv, NEW n \in Created, NEW p \in Ranks, NEW r \in Requests, Posts(n, p, r)
    PROVE  /\ queue' \in [Actors -> [Ranks -> Seq(Requests)]]
           /\ queue'[n][p] = Append(queue[n][p], r) /\ queue[n][p] \in Seq(Requests)
           /\ \A k \in Actors \ {n} : queue'[k] = queue[k]
           /\ \A q \in Ranks : q # p => queue'[n][q] = queue[n][q]
           /\ \A k \in Actors, q \in Ranks : ~(k = n /\ q = p) /\ NoExit(k, q) => NoExit(k, q)'
           /\ r # "exit" /\ NoExit(n, p) => NoExit(n, p)'
  <1>1. n \in Actors /\ queue \in [Actors -> [Ranks -> Seq(Requests)]] /\ queue[n][p] \in Seq(Requests)
    BY DEF Created, LifeInv, TypeOK
  <1>2. /\ Append(queue[n][p], r) \in Seq(Requests)
        /\ Len(queue[n][p]) \in Nat
        /\ Len(Append(queue[n][p], r)) = Len(queue[n][p]) + 1
        /\ Append(queue[n][p], r)[Len(queue[n][p]) + 1] = r
        /\ \A i \in 1..Len(queue[n][p]) : Append(queue[n][p], r)[i] = queue[n][p][i]
    BY <1>1, AppendFacts
  <1>3. queue' = [queue EXCEPT ![n][p] = Append(queue[n][p], r)]
    BY DEF Posts
  <1>4. /\ queue' \in [Actors -> [Ranks -> Seq(Requests)]]
        /\ queue'[n][p] = Append(queue[n][p], r)
        /\ \A k \in Actors \ {n} : queue'[k] = queue[k]
        /\ \A q \in Ranks : q # p => queue'[n][q] = queue[n][q]
    BY <1>1, <1>2, <1>3
  <1>5. \A k \in Actors, q \in Ranks : ~(k = n /\ q = p) /\ NoExit(k, q) => NoExit(k, q)'
    BY <1>4 DEF NoExit
  <1>6. ASSUME r # "exit", NoExit(n, p) PROVE NoExit(n, p)'
    <2>1. \A i \in 1..Len(queue[n][p]) : queue[n][p][i] # "exit"
      BY <1>6 DEF NoExit
    <2>. DEFINE l == Len(queue[n][p])
                f == queue'[n][p]
    <2>2. l \in Nat /\ Len(f) = l + 1 /\ f[l + 1] = r /\ \A i \in 1..l : f[i] # "exit"
      BY <1>2, <1>4, <2>1
    <2>. HIDE DEF l, f
    <2>3. \A i \in 1..(l + 1) : f[i] # "exit"
      <3>. SUFFICES ASSUME NEW i \in 1..(l + 1) PROVE f[i] # "exit"
        OBVIOUS
      <3>1. i \in 1..l \/ i = l + 1
        BY <2>2
      <3>. QED
        BY <1>6, <2>2, <3>1
    <2>4. \A i \in 1..Len(f) : f[i] # "exit"
      BY <2>2, <2>3
    <2>. QED
      BY <2>4 DEF NoExit, f
  <1>. QED
    BY <1>1, <1>4, <1>5, <1>6

\* What a request posted to a head that serves its actor does to the count of calls.
LEMMA PostCount ==
    ASSUME LifeInv, NEW n \in Created, NEW r \in Requests, Posts(n, HeadOf(n), r), HeadReady(n),
           group' = group, thread' = thread, ncalls' = ncalls, executed' = executed,
           r = "exit" => Sent(n)' = Sent(n), r # "exit" => Sent(n) = 1 /\ Sent(n)' = 0
    PROVE  CountOf(n)'
  <1>1. HeadOf(n) \in Ranks /\ n \in Actors
    BY GroupFacts DEF LifeInv
  <1>2. queue'[n][HeadOf(n)] = Append(queue[n][HeadOf(n)], r) /\ queue[n][HeadOf(n)] \in Seq(Requests)
    BY <1>1, PostEffect
  <1>3. HeadOf(n)' = HeadOf(n)
    BY GroupFrame
  <1>4. ~Leaving(n, HeadOf(n)) /\ NoExit(n, HeadOf(n))
    BY <1>1 DEF LifeInv, ServerInv, HeadReady
  <1>5. thread[n][HeadOf(n)] # "none"
    BY <1>1 DEF LifeInv, ThreadInv, HeadReady
  <1>6. ~Off(n)'
    BY <1>3, <1>4, <1>5 DEF Off, Leaving
  <1>. DEFINE f == queue[n][HeadOf(n)]
              f1 == queue'[n][HeadOf(n)]
              l == Len(f)
  <1>7. /\ l \in Nat /\ Len(f1) = l + 1 /\ f1[l + 1] = r /\ \A i \in 1..l : f1[i] = f[i]
        /\ f1 # << >> /\ (f = << >> <=> l = 0)
    BY <1>2, AppendFacts, EmptyFacts
  <1>8. \A i \in 1..l : f[i] # "exit"
    BY <1>4 DEF NoExit
  <1>9. HeadQueue(n) = f /\ HeadQueue(n)' = f1
    BY <1>3 DEF HeadQueue
  <1>. HIDE DEF f, f1, l
  <1>10. Exit(n) = 0
    <2>1. CASE f = << >>
      BY <1>9, <2>1 DEF Exit
    <2>2. CASE f # << >>
      <3>1. l \in 1..l
        BY <1>7, <2>2
      <3>2. f[Len(f)] # "exit"
        BY <1>8, <3>1 DEF l
      <3>. QED
        BY <1>9, <3>2 DEF Exit
    <2>. QED
      BY <2>1, <2>2
  <1>11. Exit(n)' = IF r = "exit" THEN 1 ELSE 0
    <2>1. f1[Len(f1)] = r
      BY <1>7
    <2>. QED
      BY <1>7, <1>9, <2>1 DEF Exit
  <1>12. \A i \in 1..(Len(f1) - 1) : f1[i] # "exit"
    <2>1. \A i \in 1..(Len(f1) - 1) : i \in 1..l
      BY <1>7
    <2>. QED
      BY <1>7, <1>8, <2>1
  <1>13. executed'[n] + Len(HeadQueue(n)') + Busy(n)' + Sent(n)' = ncalls'[n] + Exit(n)'
    <2>. DEFINE e == executed[n]
                b == Busy(n)
                s == Sent(n)
                s1 == Sent(n)'
                c == ncalls[n]
                x == Exit(n)'
    <2>1. e \in Nat /\ c \in Nat /\ b \in {0, 1} /\ s \in {0, 1} /\ s1 \in {0, 1}
      BY <1>1 DEF LifeInv, TypeOK, Busy, Sent
    <2>2. Busy(n)' = b
      BY <1>3 DEF Busy
    <2>3. e + l + b + s = c + 0
      BY <1>9, <1>10 DEF LifeInv, CountInv, CountOf, l
    <2>4. s1 + 1 = s + x
      BY <1>11, <2>1
    <2>5. x \in {0, 1}
      BY <1>11
    <2>6. executed'[n] = e /\ ncalls'[n] = c /\ Len(HeadQueue(n)') = l + 1
      BY <1>7, <1>9
    <2>. HIDE DEF e, b, s, s1, c, x
    <2>7. e + (l + 1) + b + s1 = c + x
      BY <1>7, <2>1, <2>3, <2>4, <2>5
    <2>. QED
      BY <2>2, <2>6, <2>7 DEF s1, x
  <1>. QED
    BY <1>6, <1>9, <1>12, <1>13 DEF CountOf

\* The program gets its answer.
Answers(p, what) == reply' = [reply EXCEPT ![p] = Append(@, what)]

LEMMA AnswerEffect ==
    ASSUME LifeInv, NEW p \in Ranks, NEW what \in Asking, Answers(p, what), reply[p] = << >>
    PROVE  /\ reply' \in [Ranks -> Seq({"CREATE", "CALL", "STOP"})]
           /\ reply'[p] = <<what>> /\ reply'[p] # << >>
           /\ \A q \in Ranks : q # p => reply'[q] = reply[q]
  <1>1. reply \in [Ranks -> Seq({"CREATE", "CALL", "STOP"})] /\ what \in {"CREATE", "CALL", "STOP"}
    BY DEF LifeInv, TypeOK, Asking
  <1>2. Append(<< >>, what) = <<what>> /\ <<what>> \in Seq({"CREATE", "CALL", "STOP"}) /\ <<what>> # << >>
    BY <1>1, AppendEmpty
  <1>3. reply' = [reply EXCEPT ![p] = <<what>>]
    BY <1>2 DEF Answers
  <1>. QED
    BY <1>1, <1>2, <1>3

\* The messages processes send themselves, when the program's is received.
LEMMA SelfStays ==
    ASSUME LifeInv, group' = group, thread' = thread, proxy' = proxy, server' = server,
           \A c \in Ranks, q \in Ranks : mgmt'[c][q] = mgmt[c][q]
    PROVE  SelfInv'
  <1>1. Created' = Created /\ \A k : HeadOf(k)' = HeadOf(k) /\ Slaves(k)' = Slaves(k)
    BY GroupFrame
  <1>2. \A k, q : SlaveLeft(k, q)' <=> SlaveLeft(k, q)
    BY <1>1 DEF SlaveLeft, Leaving
  <1>. QED
    BY <1>1, <1>2 DEF LifeInv, SelfInv

\* Actors that were destroyed stay so.
LEMMA DestroyedStay ==
    ASSUME LifeInv, group' = group, destroyed' = destroyed, thread' = thread, proxy' = proxy
    PROVE  DestroyedInv'
  <1>1. /\ Created' = Created
        /\ \A k : Members(k)' = Members(k) /\ HeadOf(k)' = HeadOf(k)
    BY GroupFrame
  <1>2. \A k : Gone(k)' <=> Gone(k)
    BY <1>1 DEF Gone, Leaving
  <1>. QED
    BY <1>1, <1>2 DEF LifeInv, DestroyedInv

\* What the type of a message of the program tells.
LEMMA MessageTells ==
    ASSUME NEW p \in Ranks, NEW m \in Messages, FromProgram(p, m)
    PROVE  /\ m.type = "CREATE" => \E n \in Alive :
                 /\ m = CreateMsg(n) /\ p \in Members(n) /\ thread[n][p] = "none"
                 /\ p = HeadOf(n) => program.pc = "CREATE" /\ program.actor = n /\ reply[p] = << >>
           /\ m.type = "CALL" => program.pc = "CALL" /\ program.to = p /\ reply[p] = << >>
           /\ m.type = "STOP" =>
                 /\ m.answer = TRUE /\ program.pc = "STOP" /\ program.to = p /\ reply[p] = << >>
                 /\ \A n \in Actors : program.actor = n => HeadReady(n)
           /\ m.type = "STOP_PROCESS" => program.pc \in Over
  BY DEF FromProgram, CreateMsg

\* A call of the program comes to the head of an actor.
LEMMA CallArrives ==
    ASSUME LifeInv, NEW p \in Ranks, Receive(p, Client, "CALL")
    PROVE  /\ program.pc = "CALL" /\ program.to = p /\ reply[p] = << >>
           /\ program.actor \in Created /\ p = HeadOf(program.actor) /\ HeadReady(program.actor)
           /\ proxy[p] = program.actor
           /\ mgmt'[Client][p] = << >>
  <1>1. FromProgram(p, Head(mgmt[Client][p])) /\ mgmt'[Client][p] = << >>
    BY ProgramsMessage
  <1>2. Head(mgmt[Client][p]).type = "CALL" /\ Head(mgmt[Client][p]) \in Messages
    BY ReceiveEffect DEF LifeInv, Procs
  <1>3. program.pc = "CALL" /\ program.to = p /\ reply[p] = << >>
    BY <1>1, <1>2, MessageTells
  <1>4. program.actor \in Actors /\ ActorInv(program.actor)
    BY <1>3 DEF LifeInv, ProgramInv, Asking
  <1>5. program.actor \in Alive /\ p = HeadOf(program.actor) /\ HeadReady(program.actor)
    BY <1>3, <1>4 DEF ActorInv, Asking, Over
  <1>. QED
    BY <1>1, <1>3, <1>5 DEF Alive, HeadReady

\* The call is posted and the program is answered.
LEMMA HandleCallLife ==
    ASSUME LifeInv, NEW p \in Ranks, NEW c \in Procs, HandleCall(p, c)
    PROVE  LifeInv'
  <1>1. c = Client /\ Receive(p, Client, "CALL")
    BY Sender DEF HandleCall
  <1>2. /\ program' = program /\ group' = group /\ destroyed' = destroyed /\ ncalls' = ncalls
        /\ server' = server /\ proxy' = proxy /\ answerStop' = answerStop
        /\ thread' = thread /\ syncs' = syncs /\ functions' = functions /\ executed' = executed
    BY DEF HandleCall, workers
  <1>3. PICK n \in Created :
            /\ n = program.actor /\ program.pc = "CALL" /\ program.to = p /\ reply[p] = << >>
            /\ p = HeadOf(n) /\ HeadReady(n) /\ proxy[p] = n
            /\ mgmt'[Client][p] = << >>
    BY <1>1, CallArrives
  <1>. DEFINE r == Head(mgmt[Client][p]).kind
  <1>4. Posts(n, p, r) /\ Answers(p, "CALL")
    BY <1>1, <1>3 DEF HandleCall, Posts, Answers
  <1>5. r \in Requests /\ r # "exit"
    <2>1. Head(mgmt[Client][p]) \in Messages /\ Head(mgmt[Client][p]).type = "CALL"
      BY <1>1, ReceiveEffect DEF LifeInv, Procs
    <2>. QED
      BY <2>1, MessageTypes DEF Requests
  <1>. HIDE DEF r
  <1>6. /\ queue' \in [Actors -> [Ranks -> Seq(Requests)]]
        /\ \A k \in Actors \ {n} : queue'[k] = queue[k]
        /\ \A k \in Actors, q \in Ranks : NoExit(k, q) => NoExit(k, q)'
    BY <1>3, <1>4, <1>5, PostEffect
  <1>7. /\ reply' \in [Ranks -> Seq({"CREATE", "CALL", "STOP"})]
        /\ reply'[p] = <<"CALL">> /\ reply'[p] # << >>
        /\ \A q \in Ranks : q # p => reply'[q] = reply[q]
    <2>1. "CALL" \in Asking
      BY DEF Asking
    <2>. QED
      BY <1>3, <1>4, <2>1, AnswerEffect
  <1>8. /\ \A d \in Ranks, q \in Ranks : mgmt'[d][q] = mgmt[d][q]
        /\ \A q \in Ranks : q # p => mgmt'[Client][q] = mgmt[Client][q]
    BY <1>1, ProgramsMessage
  <1>9. mgmt' \in [Procs -> [Ranks -> Seq(Messages)]]
    BY <1>1, ReceiveEffect DEF LifeInv, Procs
  <1>10. TypeOK'
    BY <1>2, <1>6, <1>7, <1>9 DEF LifeInv, TypeOK
  <1>11. /\ Created' = Created /\ Alive' = Alive
         /\ \A k : Members(k)' = Members(k) /\ HeadOf(k)' = HeadOf(k) /\ Slaves(k)' = Slaves(k)
    BY <1>2, GroupFrame
  <1>12. \A k \in Created : k \in Actors
    BY DEF Created
  <1>13. UncreatedInv'
    <2>1. \A k \in Actors : group[k] = << >> => queue'[k] = queue[k]
      BY <1>3, <1>6 DEF Created
    <2>. QED
      BY <1>2, <2>1 DEF LifeInv, UncreatedInv
  <1>14. GroupInv' /\ ThreadInv' /\ SyncInv' /\ SelfInv' /\ DestroyedInv'
    BY <1>2, <1>8, GroupStays, ThreadsStay, SyncStays, SelfStays, DestroyedStay
  <1>15. CountInv'
    <2>1. CountOf(n)'
      <3>1. Sent(n) = 1 /\ Sent(n)' = 0
        BY <1>2, <1>3, <1>7, <1>11 DEF Sent
      <3>2. Posts(n, HeadOf(n), r)
        BY <1>3, <1>4
      <3>. QED
        BY <1>2, <1>3, <1>5, <3>1, <3>2, PostCount
    <2>2. ASSUME NEW k \in Created, k # n PROVE CountOf(k)'
      <3>1. Sent(k)' = Sent(k)
        BY <1>2, <1>3, <2>2 DEF Sent
      <3>2. queue'[k][HeadOf(k)] = queue[k][HeadOf(k)]
        BY <1>6, <1>12, <2>2
      <3>. QED
        BY <1>2, <3>1, <3>2, CountStays
    <2>. QED
      BY <1>11, <2>1, <2>2 DEF CountInv
  <1>16. ServerInv'
    <2>1. \A k, q : (SlaveLeft(k, q)' <=> SlaveLeft(k, q)) /\ (Leaving(k, q)' <=> Leaving(k, q))
      BY <1>2, <1>11 DEF SlaveLeft, Leaving
    <2>2. \A q \in Ranks : server[q] = "stop" => ~answerStop[q]
      BY <1>3 DEF LifeInv, ServerInv
    <2>3. \A q \in Ranks, k \in Created : (server[q] = "run" /\ proxy[q] = k /\ q = HeadOf(k)) =>
              ~Leaving(k, q) /\ NoExit(k, q)'
      BY <1>6, <1>12 DEF LifeInv, ServerInv
    <2>4. \A q \in Ranks :
              /\ server[q] = "barrier" => proxy[q] = NoActor
              /\ server[q] \in {"stop", "cleanup"} => proxy[q] # NoActor
              /\ server[q] \in {"cleanup", "barrier"} => program.pc \in {"barrier", "done"}
              /\ (server[q] = "stop" /\ ~answerStop[q]) => \E k \in Created : SlaveLeft(k, q)
      BY DEF LifeInv, ServerInv
    <2>. QED
      BY <1>2, <1>11, <2>1, <2>2, <2>3, <2>4 DEF ServerInv
  <1>17. ProgramInv'
    <2>1. ReplyInv'
      BY <1>2, <1>3, <1>7 DEF LifeInv, ProgramInv, ReplyInv, Asking
    <2>2. ASSUME NEW k \in Actors PROVE ActorInv(k)'
      <3>1. ActorInv(k)
        BY DEF LifeInv, ProgramInv
      <3>2. HeadReady(k)' <=> HeadReady(k)
        BY <1>2, <1>11 DEF HeadReady
      <3>. QED
        BY <1>2, <1>3, <1>11, <3>1, <3>2 DEF ActorInv
    <2>3. /\ program'.pc \in Asking => program'.actor \in Actors
          /\ program'.pc = "done" => \A q \in Ranks : server'[q] = "barrier"
      BY <1>2 DEF LifeInv, ProgramInv
    <2>. QED
      BY <2>1, <2>2, <2>3 DEF ProgramInv
  <1>18. ClientInv'
    <2>. SUFFICES ASSUME NEW q \in Ranks
                  PROVE  /\ \A i \in 1..Len(mgmt'[Client][q]), m \in Messages :
                               mgmt'[Client][q][i] = m => FromProgram(q, m)'
                         /\ Len(mgmt'[Client][q]) \in 0..2
                         /\ Len(mgmt'[Client][q]) = 2 =>
                               mgmt'[Client][q][1].type = "CREATE" /\ mgmt'[Client][q][2].type = "STOP_PROCESS"
      BY DEF ClientInv
    <2>1. CASE q = p
      BY <1>3, <2>1
    <2>2. CASE q # p
      <3>1. mgmt'[Client][q] = mgmt[Client][q] /\ reply'[q] = reply[q]
        BY <1>7, <1>8, <2>2
      <3>2. ASSUME NEW m \in Messages, FromProgram(q, m) PROVE FromProgram(q, m)'
        <4>1. \A k : CreateMsg(k)' = CreateMsg(k)
          BY <1>2 DEF CreateMsg
        <4>. QED
          BY <1>2, <1>3, <1>11, <2>2, <3>1, <3>2, <4>1 DEF FromProgram, Over
      <3>. QED
        BY <3>1, <3>2 DEF LifeInv, ClientInv
    <2>. QED
      BY <2>1, <2>2
  <1>. QED
    BY <1>10, <1>13, <1>14, <1>15, <1>16, <1>17, <1>18 DEF LifeInv

\* The stop of the program comes to the head of the actor.
LEMMA StopArrives ==
    ASSUME LifeInv, NEW p \in Ranks, Receive(p, Client, "STOP")
    PROVE  /\ program.pc = "STOP" /\ program.to = p /\ reply[p] = << >>
           /\ program.actor \in Created /\ p = HeadOf(program.actor) /\ HeadReady(program.actor)
           /\ proxy[p] = program.actor
           /\ Head(mgmt[Client][p]).answer = TRUE
           /\ mgmt'[Client][p] = << >>
  <1>1. FromProgram(p, Head(mgmt[Client][p])) /\ mgmt'[Client][p] = << >>
    BY ProgramsMessage
  <1>2. Head(mgmt[Client][p]).type = "STOP" /\ Head(mgmt[Client][p]) \in Messages
    BY ReceiveEffect DEF LifeInv, Procs
  <1>. DEFINE m == Head(mgmt[Client][p])
  <1>. HIDE DEF m
  <1>3. FromProgram(p, m) /\ m.type = "STOP" /\ m \in Messages
    BY <1>1, <1>2 DEF m
  <1>4. /\ m.answer = TRUE /\ program.pc = "STOP" /\ program.to = p /\ reply[p] = << >>
        /\ \A n \in Actors : program.actor = n => HeadReady(n)
    BY <1>3, MessageTells
  <1>5. program.actor \in Actors /\ ActorInv(program.actor)
    BY <1>4 DEF LifeInv, ProgramInv, Asking
  <1>6. program.actor \in Alive /\ p = HeadOf(program.actor) /\ HeadReady(program.actor)
    BY <1>4, <1>5 DEF ActorInv, Asking, Over
  <1>. QED
    BY <1>1, <1>4, <1>6 DEF Alive, HeadReady, m

\* The head is told to stop: the exit goes behind the calls.
LEMMA HeadStopLife ==
    ASSUME LifeInv, NEW p \in Ranks, HandleStop(p, Client)
    PROVE  LifeInv'
  <1>1. Receive(p, Client, "STOP")
    BY DEF HandleStop
  <1>2. /\ reply' = reply /\ program' = program /\ group' = group /\ destroyed' = destroyed /\ ncalls' = ncalls
        /\ proxy' = proxy /\ thread' = thread /\ syncs' = syncs /\ functions' = functions /\ executed' = executed
    BY DEF HandleStop, workers
  <1>3. PICK n \in Created :
            /\ n = program.actor /\ program.pc = "STOP" /\ program.to = p /\ reply[p] = << >>
            /\ p = HeadOf(n) /\ HeadReady(n) /\ proxy[p] = n
            /\ Head(mgmt[Client][p]).answer = TRUE /\ mgmt'[Client][p] = << >>
    BY <1>1, StopArrives
  <1>4. /\ Posts(n, p, "exit")
        /\ server' = [server EXCEPT ![p] = "stop"]
        /\ answerStop' = [answerStop EXCEPT ![p] = TRUE]
    BY <1>3 DEF HandleStop, PostExit, Posts
  <1>5. "exit" \in Requests
    BY DEF Requests
  <1>6. /\ server' \in [Ranks -> {"run", "stop", "cleanup", "barrier"}]
        /\ server'[p] = "stop" /\ \A q \in Ranks : q # p => server'[q] = server[q]
        /\ answerStop' \in [Ranks -> BOOLEAN]
        /\ answerStop'[p] = TRUE /\ \A q \in Ranks : q # p => answerStop'[q] = answerStop[q]
    BY <1>4 DEF LifeInv, TypeOK
  <1>7. /\ queue' \in [Actors -> [Ranks -> Seq(Requests)]]
        /\ \A k \in Actors \ {n} : queue'[k] = queue[k]
        /\ \A k \in Actors, q \in Ranks : ~(k = n /\ q = p) /\ NoExit(k, q) => NoExit(k, q)'
    BY <1>4, <1>5, PostEffect
  <1>8. /\ \A d \in Ranks, q \in Ranks : mgmt'[d][q] = mgmt[d][q]
        /\ \A q \in Ranks : q # p => mgmt'[Client][q] = mgmt[Client][q]
    BY <1>1, ProgramsMessage
  <1>9. mgmt' \in [Procs -> [Ranks -> Seq(Messages)]]
    BY <1>1, ReceiveEffect DEF LifeInv, Procs
  <1>10. TypeOK'
    BY <1>2, <1>6, <1>7, <1>9 DEF LifeInv, TypeOK
  <1>11. /\ Created' = Created /\ Alive' = Alive
         /\ \A k : Members(k)' = Members(k) /\ HeadOf(k)' = HeadOf(k) /\ Slaves(k)' = Slaves(k)
    BY <1>2, GroupFrame
  <1>12. \A k \in Created : k \in Actors /\ HeadOf(k) \in Ranks /\ HeadOf(k) \notin Slaves(k)
    BY GroupFacts DEF LifeInv
  <1>13. UncreatedInv'
    <2>1. \A k \in Actors : group[k] = << >> => queue'[k] = queue[k]
      BY <1>7 DEF Created
    <2>. QED
      BY <1>2, <2>1 DEF LifeInv, UncreatedInv
  <1>14. GroupInv' /\ ThreadInv' /\ SyncInv' /\ DestroyedInv'
    BY <1>2, GroupStays, ThreadsStay, SyncStays, DestroyedStay
  <1>15. CountInv'
    <2>1. \A k : Sent(k)' = Sent(k)
      BY <1>2, <1>11 DEF Sent
    <2>2. CountOf(n)'
      <3>1. Posts(n, HeadOf(n), "exit")
        BY <1>3, <1>4
      <3>. QED
        BY <1>2, <1>3, <1>5, <2>1, <3>1, PostCount
    <2>3. ASSUME NEW k \in Created, k # n PROVE CountOf(k)'
      <3>1. queue'[k][HeadOf(k)] = queue[k][HeadOf(k)]
        BY <1>7, <1>12, <2>3
      <3>. QED
        BY <1>2, <2>1, <3>1, CountStays
    <2>. QED
      BY <1>11, <2>2, <2>3 DEF CountInv
  <1>16. \A k, q : (SlaveLeft(k, q)' <=> SlaveLeft(k, q)) /\ (Leaving(k, q)' <=> Leaving(k, q))
    BY <1>2, <1>11 DEF SlaveLeft, Leaving
  <1>17. \A k \in Created : ~SlaveLeft(k, p)
    BY <1>3, <1>12 DEF SlaveLeft
  <1>18. server[p] = "run"
    BY <1>1 DEF Receive
  <1>19. SelfInv'
    <2>. SUFFICES ASSUME NEW q \in Ranks
                  PROVE  /\ \A c \in Ranks : c # q => mgmt[c][q] = << >>
                         /\ mgmt[q][q] \in {<< >>, <<GetMsg>>, <<StopMsg>>}
                         /\ mgmt[q][q] = <<GetMsg>> =>
                               \E k \in Created : proxy[q] = k /\ q = HeadOf(k) /\ thread[k][q] = "asking"
                         /\ mgmt[q][q] = <<StopMsg>> =>
                               \/ server'[q] = "barrier"
                               \/ server'[q] \in {"run", "cleanup"} /\ \E k \in Created : SlaveLeft(k, q)
                         /\ (server'[q] = "run" /\ \E k \in Created : SlaveLeft(k, q)) => mgmt[q][q] = <<StopMsg>>
      BY <1>2, <1>8, <1>11, <1>16 DEF SelfInv
    <2>1. CASE q = p
      BY <1>6, <1>17, <1>18, <2>1 DEF LifeInv, SelfInv
    <2>2. CASE q # p
      BY <1>6, <2>2 DEF LifeInv, SelfInv
    <2>. QED
      BY <2>1, <2>2
  <1>20. ServerInv'
    <2>. SUFFICES ASSUME NEW q \in Ranks
                  PROVE  /\ server'[q] = "barrier" => proxy[q] = NoActor
                         /\ server'[q] \in {"stop", "cleanup"} => proxy[q] # NoActor
                         /\ server'[q] \in {"cleanup", "barrier"} => program.pc \in {"barrier", "done"}
                         /\ (server'[q] = "stop" /\ answerStop'[q]) =>
                               /\ program.pc = "STOP" /\ program.to = q /\ program.actor = proxy[q]
                               /\ reply[q] = << >>
                         /\ (server'[q] = "stop" /\ ~answerStop'[q]) => \E k \in Created : SlaveLeft(k, q)
                         /\ \A k \in Created : (server'[q] = "run" /\ proxy[q] = k /\ q = HeadOf(k)) =>
                               ~Leaving(k, q) /\ NoExit(k, q)'
      BY <1>2, <1>11, <1>16 DEF ServerInv
    <2>1. CASE q = p
      <3>1. n # NoActor
        BY GroupFacts DEF LifeInv
      <3>. QED
        BY <1>3, <1>6, <2>1, <3>1
    <2>2. CASE q # p
      <3>1. server'[q] = server[q] /\ answerStop'[q] = answerStop[q]
        BY <1>6, <2>2
      <3>2. \A k \in Created : NoExit(k, q) => NoExit(k, q)'
        BY <1>7, <1>12, <2>2
      <3>. QED
        BY <3>1, <3>2 DEF LifeInv, ServerInv
    <2>. QED
      BY <2>1, <2>2
  <1>21. ProgramInv'
    <2>1. ReplyInv' /\ (program'.pc \in Asking => program'.actor \in Actors)
      BY <1>2 DEF LifeInv, ProgramInv, ReplyInv
    <2>2. ASSUME NEW k \in Actors PROVE ActorInv(k)'
      <3>1. ActorInv(k)
        BY DEF LifeInv, ProgramInv
      <3>2. k \in Alive => k \in Created
        BY DEF Alive
      <3>3. CASE k = n
        <4>1. n \in Alive
          BY <1>3, <3>1, <3>3 DEF ActorInv, Asking
        <4>. QED
          BY <1>2, <1>3, <1>6, <1>11, <3>3, <4>1 DEF ActorInv, Over
      <3>4. CASE k # n
        <4>1. k \in Created => (HeadReady(k)' <=> HeadReady(k))
          <5>. SUFFICES ASSUME k \in Created PROVE HeadReady(k)' <=> HeadReady(k)
            OBVIOUS
          <5>1. CASE HeadOf(k) = p
            BY <1>2, <1>3, <1>11, <3>4, <5>1 DEF HeadReady
          <5>2. CASE HeadOf(k) # p
            <6>1. server'[HeadOf(k)] = server[HeadOf(k)]
              BY <1>6, <1>12, <5>2
            <6>. QED
              BY <1>2, <1>11, <6>1 DEF HeadReady
          <5>. QED
            BY <5>1, <5>2
        <4>. QED
          BY <1>2, <1>3, <1>11, <3>1, <3>2, <3>4, <4>1 DEF ActorInv, Over
      <3>. QED
        BY <3>3, <3>4
    <2>3. program'.pc = "done" => \A q \in Ranks : server'[q] = "barrier"
      BY <1>2, <1>3
    <2>. QED
      BY <2>1, <2>2, <2>3 DEF ProgramInv
  <1>22. ClientInv'
    <2>. SUFFICES ASSUME NEW q \in Ranks
                  PROVE  /\ \A i \in 1..Len(mgmt'[Client][q]), m \in Messages :
                               mgmt'[Client][q][i] = m => FromProgram(q, m)'
                         /\ Len(mgmt'[Client][q]) \in 0..2
                         /\ Len(mgmt'[Client][q]) = 2 =>
                               mgmt'[Client][q][1].type = "CREATE" /\ mgmt'[Client][q][2].type = "STOP_PROCESS"
      BY DEF ClientInv
    <2>1. CASE q = p
      BY <1>3, <2>1
    <2>2. CASE q # p
      <3>1. mgmt'[Client][q] = mgmt[Client][q]
        BY <1>8, <2>2
      <3>2. ASSUME NEW m \in Messages, FromProgram(q, m) PROVE FromProgram(q, m)'
        <4>1. \A k : CreateMsg(k)' = CreateMsg(k)
          BY <1>2 DEF CreateMsg
        <4>. QED
          BY <1>2, <1>3, <1>11, <2>2, <3>2, <4>1 DEF FromProgram, Over
      <3>. QED
        BY <3>1, <3>2 DEF LifeInv, ClientInv
    <2>. QED
      BY <2>1, <2>2
  <1>. QED
    BY <1>10, <1>13, <1>14, <1>15, <1>19, <1>20, <1>21, <1>22 DEF LifeInv

\* A slave is told to stop by its own worker, which is leaving.
LEMMA SlaveStopLife ==
    ASSUME LifeInv, NEW p \in Ranks, HandleStop(p, p)
    PROVE  LifeInv'
  <1>1. Receive(p, p, "STOP") /\ p \in Procs /\ Client \in Procs /\ p # Client /\ Ranks \subseteq Procs
    BY DEF HandleStop, Procs
  <1>2. /\ reply' = reply /\ program' = program /\ group' = group /\ destroyed' = destroyed /\ ncalls' = ncalls
        /\ proxy' = proxy /\ thread' = thread /\ syncs' = syncs /\ functions' = functions /\ executed' = executed
    BY DEF HandleStop, workers
  <1>3. mgmt[p][p] = <<StopMsg>> /\ mgmt'[p][p] = << >> /\ server[p] = "run"
    BY <1>1, Sender, ReceiveEffect DEF LifeInv
  <1>4. PICK n \in Created : SlaveLeft(n, p)
    BY <1>3 DEF LifeInv, SelfInv
  <1>5. proxy[p] = n /\ p \in Slaves(n) /\ Leaving(n, p)
    BY <1>4 DEF SlaveLeft
  <1>6. /\ Posts(n, p, "exit")
        /\ server' = [server EXCEPT ![p] = "stop"]
        /\ answerStop' = [answerStop EXCEPT ![p] = FALSE]
    <2>1. Head(mgmt[p][p]).answer = FALSE
      BY <1>3, MessagesSent
    <2>. QED
      BY <1>5, <2>1 DEF HandleStop, PostExit, Posts
  <1>7. "exit" \in Requests
    BY DEF Requests
  <1>8. /\ server' \in [Ranks -> {"run", "stop", "cleanup", "barrier"}]
        /\ server'[p] = "stop" /\ \A q \in Ranks : q # p => server'[q] = server[q]
        /\ answerStop' \in [Ranks -> BOOLEAN]
        /\ answerStop'[p] = FALSE /\ \A q \in Ranks : q # p => answerStop'[q] = answerStop[q]
    BY <1>6 DEF LifeInv, TypeOK
  <1>9. /\ queue' \in [Actors -> [Ranks -> Seq(Requests)]]
        /\ \A k \in Actors \ {n} : queue'[k] = queue[k]
        /\ \A q \in Ranks : q # p => queue'[n][q] = queue[n][q]
        /\ \A k \in Actors, q \in Ranks : ~(k = n /\ q = p) /\ NoExit(k, q) => NoExit(k, q)'
    BY <1>6, <1>7, PostEffect
  <1>10. /\ mgmt' \in [Procs -> [Ranks -> Seq(Messages)]]
         /\ \A d \in Procs, q \in Ranks : ~(d = p /\ q = p) => mgmt'[d][q] = mgmt[d][q]
    BY <1>1, ReceiveEffect DEF LifeInv
  <1>11. TypeOK'
    BY <1>2, <1>8, <1>9, <1>10 DEF LifeInv, TypeOK
  <1>12. /\ Created' = Created /\ Alive' = Alive
         /\ \A k : Members(k)' = Members(k) /\ HeadOf(k)' = HeadOf(k) /\ Slaves(k)' = Slaves(k)
    BY <1>2, GroupFrame
  <1>13. \A k \in Created : k \in Actors /\ k # NoActor /\ HeadOf(k) \in Ranks /\ HeadOf(k) \notin Slaves(k)
    BY GroupFacts DEF LifeInv
  <1>14. UncreatedInv'
    <2>1. \A k \in Actors : group[k] = << >> => queue'[k] = queue[k]
      BY <1>9 DEF Created
    <2>. QED
      BY <1>2, <2>1 DEF LifeInv, UncreatedInv
  <1>15. GroupInv' /\ ThreadInv' /\ SyncInv' /\ DestroyedInv'
    BY <1>2, GroupStays, ThreadsStay, SyncStays, DestroyedStay
  <1>16. CountInv'
    <2>1. \A k : Sent(k)' = Sent(k)
      BY <1>2, <1>12 DEF Sent
    <2>2. ASSUME NEW k \in Created PROVE CountOf(k)'
      <3>1. queue'[k][HeadOf(k)] = queue[k][HeadOf(k)]
        BY <1>5, <1>9, <1>13
      <3>. QED
        BY <1>2, <2>1, <3>1, CountStays
    <2>. QED
      BY <1>12, <2>2 DEF CountInv
  <1>17. \A k, q : (SlaveLeft(k, q)' <=> SlaveLeft(k, q)) /\ (Leaving(k, q)' <=> Leaving(k, q))
    BY <1>2, <1>12 DEF SlaveLeft, Leaving
  <1>18. SelfInv'
    <2>. SUFFICES ASSUME NEW q \in Ranks
                  PROVE  /\ \A c \in Ranks : c # q => mgmt'[c][q] = << >>
                         /\ mgmt'[q][q] \in {<< >>, <<GetMsg>>, <<StopMsg>>}
                         /\ mgmt'[q][q] = <<GetMsg>> =>
                               \E k \in Created : proxy[q] = k /\ q = HeadOf(k) /\ thread[k][q] = "asking"
                         /\ mgmt'[q][q] = <<StopMsg>> =>
                               \/ server'[q] = "barrier"
                               \/ server'[q] \in {"run", "cleanup"} /\ \E k \in Created : SlaveLeft(k, q)
                         /\ (server'[q] = "run" /\ \E k \in Created : SlaveLeft(k, q)) => mgmt'[q][q] = <<StopMsg>>
      BY <1>2, <1>12, <1>17 DEF SelfInv
    <2>1. CASE q = p
      <3>1. \A c \in Ranks : c # p => mgmt[c][p] = << >>
        BY DEF LifeInv, SelfInv
      <3>2. \A c \in Ranks : c # p => mgmt'[c][p] = << >>
        BY <1>1, <1>10, <3>1
      <3>3. << >> # <<GetMsg>> /\ << >> # <<StopMsg>>
        OBVIOUS
      <3>. QED
        BY <1>3, <1>8, <2>1, <3>2, <3>3
    <2>2. CASE q # p
      <3>1. \A c \in Ranks : mgmt'[c][q] = mgmt[c][q]
        BY <1>1, <1>10, <2>2
      <3>. QED
        BY <1>8, <2>2, <3>1 DEF LifeInv, SelfInv
    <2>. QED
      BY <2>1, <2>2
  <1>19. ServerInv'
    <2>. SUFFICES ASSUME NEW q \in Ranks
                  PROVE  /\ server'[q] = "barrier" => proxy[q] = NoActor
                         /\ server'[q] \in {"stop", "cleanup"} => proxy[q] # NoActor
                         /\ server'[q] \in {"cleanup", "barrier"} => program.pc \in {"barrier", "done"}
                         /\ (server'[q] = "stop" /\ answerStop'[q]) =>
                               /\ program.pc = "STOP" /\ program.to = q /\ program.actor = proxy[q]
                               /\ reply[q] = << >>
                         /\ (server'[q] = "stop" /\ ~answerStop'[q]) => \E k \in Created : SlaveLeft(k, q)
                         /\ \A k \in Created : (server'[q] = "run" /\ proxy[q] = k /\ q = HeadOf(k)) =>
                               ~Leaving(k, q) /\ NoExit(k, q)'
      BY <1>2, <1>12, <1>17 DEF ServerInv
    <2>1. CASE q = p
      BY <1>4, <1>5, <1>8, <1>13, <2>1
    <2>2. CASE q # p
      <3>1. server'[q] = server[q] /\ answerStop'[q] = answerStop[q]
        BY <1>8, <2>2
      <3>2. \A k \in Created : NoExit(k, q) => NoExit(k, q)'
        BY <1>9, <1>13, <2>2
      <3>. QED
        BY <3>1, <3>2 DEF LifeInv, ServerInv
    <2>. QED
      BY <2>1, <2>2
  <1>20. ASSUME NEW k \in Created PROVE HeadReady(k)' <=> HeadReady(k)
    <2>1. CASE HeadOf(k) = p
      BY <1>2, <1>5, <1>12, <1>13, <2>1 DEF HeadReady
    <2>2. CASE HeadOf(k) # p
      <3>1. server'[HeadOf(k)] = server[HeadOf(k)]
        BY <1>8, <1>13, <2>2
      <3>. QED
        BY <1>2, <1>12, <3>1 DEF HeadReady
    <2>. QED
      BY <2>1, <2>2
  <1>21. ProgramInv'
    <2>1. ReplyInv' /\ (program'.pc \in Asking => program'.actor \in Actors)
      BY <1>2 DEF LifeInv, ProgramInv, ReplyInv
    <2>2. ASSUME NEW k \in Actors PROVE ActorInv(k)'
      <3>1. ActorInv(k)
        BY DEF LifeInv, ProgramInv
      <3>2. k \in Alive => k \in Created
        BY DEF Alive
      <3>3. (program.pc \in Asking /\ program.actor = k) => k \in Created
        BY <3>1, <3>2 DEF ActorInv
      <3>4. Gone(k)' <=> Gone(k)
        BY <1>2, <1>12, <1>17 DEF Gone
      <3>5. (k \in Created /\ proxy[HeadOf(k)] = k) =>
                server'[HeadOf(k)] = server[HeadOf(k)] /\ answerStop'[HeadOf(k)] = answerStop[HeadOf(k)]
        BY <1>5, <1>8, <1>13
      <3>. QED
        BY <1>2, <1>12, <1>20, <3>1, <3>2, <3>3, <3>4, <3>5 DEF ActorInv, Asking
    <2>3. program'.pc = "done" => \A q \in Ranks : server'[q] = "barrier"
      BY <1>2, <1>3 DEF LifeInv, ProgramInv
    <2>. QED
      BY <2>1, <2>2, <2>3 DEF ProgramInv
  <1>22. ClientInv'
    <2>1. \A q \in Ranks : mgmt'[Client][q] = mgmt[Client][q]
      BY <1>1, <1>10
    <2>2. ASSUME NEW q \in Ranks, NEW m \in Messages, FromProgram(q, m) PROVE FromProgram(q, m)'
      <3>1. \A k : CreateMsg(k)' = CreateMsg(k)
        BY <1>2 DEF CreateMsg
      <3>2. program.pc = "STOP" => \A k \in Actors : program.actor = k => (HeadReady(k)' <=> HeadReady(k))
        BY <1>20 DEF LifeInv, ProgramInv, ActorInv, Asking, Alive
      <3>. QED
        BY <1>2, <1>12, <2>2, <3>1, <3>2 DEF FromProgram
    <2>. QED
      BY <2>1, <2>2 DEF LifeInv, ClientInv
  <1>. QED
    BY <1>11, <1>14, <1>15, <1>16, <1>18, <1>19, <1>21, <1>22 DEF LifeInv

\* A stop comes from the program or from the worker of the process itself.
LEMMA HandleStopLife ==
    ASSUME LifeInv, NEW p \in Ranks, NEW c \in Procs, HandleStop(p, c)
    PROVE  LifeInv'
  <1>1. c = Client \/ c = p
    BY Sender DEF HandleStop
  <1>. QED
    BY <1>1, HeadStopLife, SlaveStopLife

\* The process is told that the program ends: an actor that is still there is
\* stopped first.
LEMMA HandleStopProcessLife ==
    ASSUME LifeInv, NEW p \in Ranks, NEW c \in Procs, HandleStopProcess(p, c)
    PROVE  LifeInv'
  <1>1. c = Client /\ Receive(p, Client, "STOP_PROCESS")
    BY Sender DEF HandleStopProcess
  <1>2. /\ reply' = reply /\ program' = program /\ group' = group /\ destroyed' = destroyed /\ ncalls' = ncalls
        /\ proxy' = proxy /\ answerStop' = answerStop
        /\ thread' = thread /\ syncs' = syncs /\ functions' = functions /\ executed' = executed
    BY DEF HandleStopProcess, workers
  <1>3. /\ mgmt' \in [Procs -> [Ranks -> Seq(Messages)]] /\ server[p] = "run"
        /\ Head(mgmt[Client][p]).type = "STOP_PROCESS" /\ Head(mgmt[Client][p]) \in Messages
    <2>1. Client \in Procs /\ TypeOK
      BY DEF LifeInv, Procs
    <2>. QED
      BY <1>1, <2>1, ReceiveEffect
  <1>4. /\ FromProgram(p, Head(mgmt[Client][p])) /\ mgmt'[Client][p] = << >>
        /\ \A d \in Ranks, q \in Ranks : mgmt'[d][q] = mgmt[d][q]
        /\ \A q \in Ranks : q # p => mgmt'[Client][q] = mgmt[Client][q]
    <2>1. FromProgram(p, Head(mgmt[Client][p])) /\ mgmt'[Client][p] = << >>
      BY <1>1, ProgramsMessage
    <2>2. /\ \A d \in Ranks, q \in Ranks : mgmt'[d][q] = mgmt[d][q]
          /\ \A q \in Ranks : q # p => mgmt'[Client][q] = mgmt[Client][q]
      BY <1>1, ProgramsMessage
    <2>. QED
      BY <2>1, <2>2
  <1>5. program.pc \in Over
    <2>. DEFINE m == Head(mgmt[Client][p])
    <2>. HIDE DEF m
    <2>1. FromProgram(p, m) /\ m.type = "STOP_PROCESS" /\ m \in Messages
      BY <1>3, <1>4 DEF m
    <2>. QED
      BY <2>1, MessageTells
  <1>6. /\ server' \in [Ranks -> {"run", "stop", "cleanup", "barrier"}]
        /\ \A q \in Ranks : q # p => server'[q] = server[q]
        /\ proxy[p] = NoActor => server'[p] = "barrier"
        /\ proxy[p] # NoActor => server'[p] = "cleanup"
    BY DEF HandleStopProcess, LifeInv, TypeOK
  <1>7. /\ Created' = Created /\ Alive' = Alive
        /\ \A k : Members(k)' = Members(k) /\ HeadOf(k)' = HeadOf(k) /\ Slaves(k)' = Slaves(k)
    BY <1>2, GroupFrame
  <1>8. \A k \in Created : k \in Actors /\ k # NoActor /\ HeadOf(k) \in Ranks
    BY GroupFacts DEF LifeInv
  <1>9. /\ ReplyInv' /\ (program'.pc \in Asking => program'.actor \in Actors)
        /\ \A k \in Actors : ActorInv(k)'
        /\ \A k \in Created : Sent(k)' = Sent(k)
        /\ \A q \in Ranks, m \in Messages : FromProgram(q, m) => FromProgram(q, m)'
    BY <1>2, <1>5, OverKeeps
  <1>10. \* what the queues become
         /\ queue' \in [Actors -> [Ranks -> Seq(Requests)]]
         /\ \A k \in Actors : group[k] = << >> => queue'[k] = queue[k]
         /\ \A k \in Actors, q \in Ranks : q # p /\ NoExit(k, q) => NoExit(k, q)'
         /\ \A k \in Created : CountOf(k)'
    <2>1. CASE proxy[p] = NoActor
      <3>1. queue' = queue
        BY <2>1 DEF HandleStopProcess
      <3>2. \A k \in Created : CountOf(k)'
        BY <1>2, <1>9, <3>1, CountStays
      <3>. QED
        BY <3>1, <3>2 DEF LifeInv, TypeOK, NoExit
    <2>2. CASE proxy[p] # NoActor
      <3>1. proxy[p] \in Actors
        BY <2>2 DEF LifeInv, TypeOK
      <3>2. PICK n \in Created : proxy[p] = n
        BY <3>1 DEF LifeInv, ThreadInv
      <3>3. Posts(n, p, "exit") /\ "exit" \in Requests
        BY <2>2, <3>2 DEF HandleStopProcess, PostExit, Posts, Requests
      <3>4. /\ queue' \in [Actors -> [Ranks -> Seq(Requests)]]
            /\ \A k \in Actors \ {n} : queue'[k] = queue[k]
            /\ \A q \in Ranks : q # p => queue'[n][q] = queue[n][q]
            /\ \A k \in Actors, q \in Ranks : ~(k = n /\ q = p) /\ NoExit(k, q) => NoExit(k, q)'
        BY <3>3, PostEffect
      <3>5. \A k \in Actors : group[k] = << >> => queue'[k] = queue[k]
        BY <3>4 DEF Created
      <3>6. ASSUME NEW k \in Created, ~(k = n /\ HeadOf(k) = p) PROVE CountOf(k)'
        <4>1. queue'[k][HeadOf(k)] = queue[k][HeadOf(k)]
          BY <1>8, <3>4, <3>6
        <4>. QED
          BY <1>2, <1>9, <4>1, CountStays
      <3>7. CASE HeadOf(n) = p
        <4>1. HeadReady(n) /\ Posts(n, HeadOf(n), "exit")
          BY <1>3, <3>2, <3>3, <3>7 DEF HeadReady
        <4>2. CountOf(n)'
          BY <1>2, <1>9, <3>3, <4>1, PostCount
        <4>. QED
          BY <3>4, <3>5, <3>6, <4>2
      <3>8. CASE HeadOf(n) # p
        BY <3>4, <3>5, <3>6, <3>8
      <3>. QED
        BY <3>7, <3>8
    <2>. QED
      BY <2>1, <2>2
  <1>11. TypeOK'
    BY <1>2, <1>3, <1>6, <1>10 DEF LifeInv, TypeOK
  <1>12. UncreatedInv'
    BY <1>2, <1>10 DEF LifeInv, UncreatedInv
  <1>13. GroupInv' /\ ThreadInv' /\ SyncInv' /\ DestroyedInv'
    BY <1>2, GroupStays, ThreadsStay, SyncStays, DestroyedStay
  <1>14. CountInv'
    BY <1>7, <1>10 DEF CountInv
  <1>15. \A k, q : (SlaveLeft(k, q)' <=> SlaveLeft(k, q)) /\ (Leaving(k, q)' <=> Leaving(k, q))
    BY <1>2, <1>7 DEF SlaveLeft, Leaving
  <1>16. SelfInv'
    <2>. SUFFICES ASSUME NEW q \in Ranks
                  PROVE  /\ \A d \in Ranks : d # q => mgmt[d][q] = << >>
                         /\ mgmt[q][q] \in {<< >>, <<GetMsg>>, <<StopMsg>>}
                         /\ mgmt[q][q] = <<GetMsg>> =>
                               \E k \in Created : proxy[q] = k /\ q = HeadOf(k) /\ thread[k][q] = "asking"
                         /\ mgmt[q][q] = <<StopMsg>> =>
                               \/ server'[q] = "barrier"
                               \/ server'[q] \in {"run", "cleanup"} /\ \E k \in Created : SlaveLeft(k, q)
                         /\ (server'[q] = "run" /\ \E k \in Created : SlaveLeft(k, q)) => mgmt[q][q] = <<StopMsg>>
      BY <1>2, <1>4, <1>7, <1>15 DEF SelfInv
    <2>1. CASE q = p
      BY <1>3, <1>6, <2>1 DEF LifeInv, SelfInv
    <2>2. CASE q # p
      BY <1>6, <2>2 DEF LifeInv, SelfInv
    <2>. QED
      BY <2>1, <2>2
  <1>17. ServerInv'
    <2>. SUFFICES ASSUME NEW q \in Ranks
                  PROVE  /\ server'[q] = "barrier" => proxy[q] = NoActor
                         /\ server'[q] \in {"stop", "cleanup"} => proxy[q] # NoActor
                         /\ server'[q] \in {"cleanup", "barrier"} => program.pc \in {"barrier", "done"}
                         /\ (server'[q] = "stop" /\ answerStop[q]) =>
                               /\ program.pc = "STOP" /\ program.to = q /\ program.actor = proxy[q]
                               /\ reply[q] = << >>
                         /\ (server'[q] = "stop" /\ ~answerStop[q]) => \E k \in Created : SlaveLeft(k, q)
                         /\ \A k \in Created : (server'[q] = "run" /\ proxy[q] = k /\ q = HeadOf(k)) =>
                               ~Leaving(k, q) /\ NoExit(k, q)'
      BY <1>2, <1>7, <1>15 DEF ServerInv
    <2>1. CASE q = p
      BY <1>5, <1>6, <2>1 DEF Over
    <2>2. CASE q # p
      <3>1. server'[q] = server[q] /\ \A k \in Created : NoExit(k, q) => NoExit(k, q)'
        BY <1>6, <1>8, <1>10, <2>2
      <3>. QED
        BY <3>1 DEF LifeInv, ServerInv
    <2>. QED
      BY <2>1, <2>2
  <1>18. ProgramInv'
    <2>1. program'.pc = "done" => \A q \in Ranks : server'[q] = "barrier"
      BY <1>2, <1>3 DEF LifeInv, ProgramInv
    <2>. QED
      BY <1>9, <2>1 DEF ProgramInv
  <1>19. ClientInv'
    <2>. SUFFICES ASSUME NEW q \in Ranks
                  PROVE  /\ \A i \in 1..Len(mgmt'[Client][q]), m \in Messages :
                               mgmt'[Client][q][i] = m => FromProgram(q, m)'
                         /\ Len(mgmt'[Client][q]) \in 0..2
                         /\ Len(mgmt'[Client][q]) = 2 =>
                               mgmt'[Client][q][1].type = "CREATE" /\ mgmt'[Client][q][2].type = "STOP_PROCESS"
      BY DEF ClientInv
    <2>1. CASE q = p
      BY <1>4, <2>1
    <2>2. CASE q # p
      <3>1. mgmt'[Client][q] = mgmt[Client][q]
        BY <1>4, <2>2
      <3>. QED
        BY <1>9, <3>1 DEF LifeInv, ClientInv
    <2>. QED
      BY <2>1, <2>2
  <1>. QED
    BY <1>11, <1>12, <1>13, <1>14, <1>16, <1>17, <1>18, <1>19 DEF LifeInv

(***************************************************************************)
(* An actor is created at p.                                               *)
(***************************************************************************)

\* Only an actor that is alive is to be created, and p has no other one any
\* more: the last one was destroyed, and the stop its slave sent was received.
LEMMA CreateArrives ==
    ASSUME LifeInv, SlavesInOrder, NEW p \in Ranks, Receive(p, Client, "CREATE")
    PROVE  /\ proxy[p] = NoActor
           /\ \E n \in Alive :
                 /\ Head(mgmt[Client][p]) = CreateMsg(n) /\ p \in Members(n) /\ thread[n][p] = "none"
                 /\ p = HeadOf(n) => program.pc = "CREATE" /\ program.actor = n /\ reply[p] = << >>
  <1>1. /\ server[p] = "run"
        /\ p \in Overtaking \/ mgmt[p][p] = << >>
        /\ Head(mgmt[Client][p]).type = "CREATE" /\ Head(mgmt[Client][p]) \in Messages
    <2>1. Client \in Procs /\ Client # p /\ TypeOK
      BY DEF LifeInv, Procs
    <2>. QED
      BY <2>1, ReceiveEffect
  <1>2. FromProgram(p, Head(mgmt[Client][p]))
    BY ProgramsMessage
  <1>. DEFINE m == Head(mgmt[Client][p])
  <1>. HIDE DEF m
  <1>3. FromProgram(p, m) /\ m.type = "CREATE" /\ m \in Messages
    BY <1>1, <1>2 DEF m
  <1>4. PICK n \in Alive :
            /\ m = CreateMsg(n) /\ p \in Members(n) /\ thread[n][p] = "none"
            /\ p = HeadOf(n) => program.pc = "CREATE" /\ program.actor = n /\ reply[p] = << >>
    BY <1>3, MessageTells
  <1>5. ASSUME proxy[p] # NoActor PROVE FALSE
    <2>1. proxy[p] \in Actors
      BY <1>5 DEF LifeInv, TypeOK
    <2>2. PICK k \in Created : proxy[p] = k /\ p \in Members(k) /\ thread[k][p] # "none"
      BY <2>1 DEF LifeInv, ThreadInv
    <2>3. k # n
      BY <1>4, <2>2
    <2>4. k \in destroyed
      BY <1>4, <2>2, <2>3 DEF LifeInv, GroupInv, Alive
    <2>5. Gone(k)
      BY <2>4 DEF LifeInv, DestroyedInv
    <2>6. p \in Slaves(k) /\ SlaveLeft(k, p)
      BY <2>2, <2>5 DEF Gone, Slaves, SlaveLeft
    <2>7. mgmt[p][p] = <<StopMsg>> /\ <<StopMsg>> # << >>
      <3>1. server[p] = "run"
        BY <1>1
      <3>2. mgmt[p][p] = <<StopMsg>>
        <4>1. (server[p] = "run" /\ \E i \in Created : SlaveLeft(i, p)) => mgmt[p][p] = <<StopMsg>>
          BY DEF LifeInv, SelfInv
        <4>. QED
          BY <2>6, <3>1, <4>1
      <3>3. <<StopMsg>> # << >>
        OBVIOUS
      <3>. QED
        BY <3>2, <3>3
    <2>8. p \notin Overtaking
      BY <2>6, GroupFacts DEF LifeInv
    <2>. QED
      BY <1>1, <2>7, <2>8
  <1>. QED
    BY <1>4, <1>5 DEF m

\* The worker of n at p starts, where there was none.
Starts(n, p) == thread' = [thread EXCEPT ![n][p] = "start"]

\* What a start changes of what is known of the actors.
LEMMA StartFacts ==
    ASSUME LifeInv, NEW n \in Created, NEW p \in Members(n), thread[n][p] = "none", proxy[p] = NoActor,
           Starts(n, p), proxy' = [proxy EXCEPT ![p] = n],
           group' = group, destroyed' = destroyed, server' = server
    PROVE  /\ thread' \in [Actors -> [Ranks -> ThreadStates]] /\ thread'[n][p] = "start"
           /\ \A k \in Actors \ {n} : thread'[k] = thread[k]
           /\ \A k \in Actors, q \in Ranks : ~(k = n /\ q = p) => thread'[k][q] = thread[k][q]
           /\ \A k \in Actors, q \in Ranks : Leaving(k, q)' <=> Leaving(k, q)
           /\ proxy' \in [Ranks -> Actors \cup {NoActor}] /\ proxy'[p] = n
           /\ \A q \in Ranks : q # p => proxy'[q] = proxy[q]
           /\ \A k \in Created, q \in Ranks : SlaveLeft(k, q)' <=> SlaveLeft(k, q)
           /\ \A k \in Created : (HeadReady(k) => HeadReady(k)') /\ (Gone(k) => Gone(k)')
           /\ ThreadInv' /\ DestroyedInv'
  <1>1. /\ n \in Actors /\ n # NoActor /\ p \in Ranks
        /\ \A k \in Created : k \in Actors /\ k # NoActor /\ HeadOf(k) \in Ranks /\ Members(k) \subseteq Ranks
    BY GroupFacts DEF LifeInv
  <1>2. /\ Created' = Created
        /\ \A k : Members(k)' = Members(k) /\ HeadOf(k)' = HeadOf(k) /\ Slaves(k)' = Slaves(k)
    BY GroupFrame
  <1>3. /\ thread' \in [Actors -> [Ranks -> ThreadStates]] /\ thread'[n][p] = "start"
        /\ \A k \in Actors \ {n} : thread'[k] = thread[k]
        /\ \A k \in Actors, q \in Ranks : ~(k = n /\ q = p) => thread'[k][q] = thread[k][q]
    BY <1>1 DEF Starts, LifeInv, TypeOK, ThreadStates
  <1>4. /\ proxy' \in [Ranks -> Actors \cup {NoActor}] /\ proxy'[p] = n
        /\ \A q \in Ranks : q # p => proxy'[q] = proxy[q]
    BY <1>1 DEF LifeInv, TypeOK
  <1>5. \A k \in Actors, q \in Ranks : Leaving(k, q)' <=> Leaving(k, q)
    <2>. SUFFICES ASSUME NEW k \in Actors, NEW q \in Ranks PROVE Leaving(k, q)' <=> Leaving(k, q)
      OBVIOUS
    <2>1. CASE k = n /\ q = p
      BY <1>3, <2>1 DEF Leaving
    <2>2. CASE ~(k = n /\ q = p)
      BY <1>3, <2>2 DEF Leaving
    <2>. QED
      BY <2>1, <2>2
  <1>6. ~Leaving(n, p)
    BY DEF Leaving
  <1>7. \A k \in Created, q \in Ranks : SlaveLeft(k, q)' <=> SlaveLeft(k, q)
    <2>. SUFFICES ASSUME NEW k \in Created, NEW q \in Ranks PROVE SlaveLeft(k, q)' <=> SlaveLeft(k, q)
      OBVIOUS
    <2>1. CASE q = p
      <3>1. ~SlaveLeft(k, q)
        BY <1>1, <2>1 DEF SlaveLeft
      <3>2. ~SlaveLeft(k, q)'
        BY <1>1, <1>4, <1>5, <1>6, <2>1 DEF SlaveLeft
      <3>. QED
        BY <3>1, <3>2
    <2>2. CASE q # p
      BY <1>1, <1>2, <1>4, <1>5, <2>2 DEF SlaveLeft
    <2>. QED
      BY <2>1, <2>2
  <1>8. \A k \in Created : HeadReady(k) => HeadReady(k)'
    BY <1>1, <1>2, <1>4 DEF HeadReady
  <1>9. \A k \in Created : Gone(k) => Gone(k)'
    <2>. SUFFICES ASSUME NEW k \in Created, Gone(k) PROVE Gone(k)'
      OBVIOUS
    <2>1. k # n
      BY <1>6 DEF Gone
    <2>2. proxy'[HeadOf(k)] # k
      BY <1>1, <1>4, <2>1 DEF Gone
    <2>3. thread'[k][HeadOf(k)] = "done"
      BY <1>1, <1>3, <2>1 DEF Gone
    <2>4. \A q \in Members(k) : Leaving(k, q)'
      BY <1>1, <1>5 DEF Gone
    <2>. QED
      BY <1>2, <2>2, <2>3, <2>4 DEF Gone
  <1>10. ThreadInv'
    <2>. SUFFICES ASSUME NEW k \in Actors, NEW q \in Ranks
                  PROVE  /\ thread'[k][q] # "none" => k \in Created /\ q \in Members(k)
                         /\ thread'[k][q] \notin {"none", "done"} => proxy'[q] = k
                         /\ proxy'[q] = k => thread'[k][q] # "none"
                         /\ thread'[k][q] \in {"asking", "answered"} => q = HeadOf(k)
      BY <1>2 DEF ThreadInv
    <2>1. CASE k = n /\ q = p
      BY <1>3, <1>4, <2>1
    <2>2. CASE k # n /\ q = p
      <3>1. thread'[k][q] = thread[k][q] /\ k # NoActor
        BY <1>3, <2>2 DEF Actors, NoActor
      <3>2. thread[k][q] \in {"none", "done"}
        BY <2>2, <3>1 DEF LifeInv, ThreadInv
      <3>. QED
        BY <1>4, <2>2, <3>1, <3>2 DEF LifeInv, ThreadInv
    <2>3. CASE q # p
      BY <1>3, <1>4, <2>3 DEF LifeInv, ThreadInv
    <2>. QED
      BY <2>1, <2>2, <2>3
  <1>11. DestroyedInv'
    BY <1>2, <1>9 DEF LifeInv, DestroyedInv
  <1>. QED
    BY <1>3, <1>4, <1>5, <1>7, <1>8, <1>9, <1>10, <1>11

\* The barriers are as before: the worker has entered none.
LEMMA StartSync ==
    ASSUME LifeInv, NEW n \in Created, NEW p \in Members(n), thread[n][p] = "none",
           thread'[n][p] = "start", \A q \in Ranks : q # p => thread'[n][q] = thread[n][q],
           group' = group, syncs' = syncs, functions' = functions
    PROVE  SyncOf(n)'
  <1>1. /\ HeadOf(n) \in Ranks /\ Members(n) \subseteq Ranks
        /\ \A q \in Slaves(n) : q \in Members(n) /\ q \in Ranks
    BY GroupFacts DEF LifeInv
  <1>2. Members(n)' = Members(n) /\ HeadOf(n)' = HeadOf(n) /\ Slaves(n)' = Slaves(n)
    BY GroupFrame
  <1>3. BarrierInv(n) /\ BroadcastInv(n) /\ EndInv(n)
    BY DEF LifeInv, SyncInv, SyncOf
  <1>4. \A q \in Ranks : /\ thread'[n][q] \in {"none", "start"} <=> thread[n][q] \in {"none", "start"}
                         /\ thread'[n][q] = "construct" <=> thread[n][q] = "construct"
                         /\ thread'[n][q] \in Early <=> thread[n][q] \in Early
                         /\ thread'[n][q] = "done" <=> thread[n][q] = "done"
                         /\ Leaving(n, q)' <=> Leaving(n, q)
    <2>. SUFFICES ASSUME NEW q \in Ranks
                  PROVE  \/ thread'[n][q] = thread[n][q]
                         \/ thread'[n][q] = "start" /\ thread[n][q] = "none"
      BY DEF Early, Leaving
    <2>. QED
      OBVIOUS
  <1>5. BarrierInv(n)'
    <2>. SUFFICES ASSUME NEW q \in Members(n)
                  PROVE  /\ thread'[n][q] \in {"none", "start"} <=> syncs[n][q] = 0
                         /\ thread'[n][q] = "construct" => syncs[n][q] = 1
                         /\ thread'[n][q] \notin Early => \A s \in Members(n) : syncs[n][s] >= 1
      BY <1>2 DEF BarrierInv
    <2>1. q \in Ranks
      BY <1>1
    <2>. QED
      BY <1>3, <1>4, <2>1 DEF BarrierInv
  <1>6. BroadcastInv(n)'
    BY <1>1, <1>2, <1>3, <1>4 DEF BroadcastInv
  <1>7. EndInv(n)'
    BY <1>1, <1>2, <1>3, <1>4 DEF EndInv
  <1>. QED
    BY <1>5, <1>6, <1>7 DEF SyncOf

\* So are the calls: the worker has executed none.
LEMMA StartCount ==
    ASSUME LifeInv, NEW n \in Created, NEW p \in Members(n), thread[n][p] = "none",
           thread'[n][p] = "start", \A q \in Ranks : q # p => thread'[n][q] = thread[n][q],
           group' = group, ncalls' = ncalls, executed' = executed, queue' = queue, Sent(n)' = Sent(n)
    PROVE  CountOf(n)'
  <1>1. HeadOf(n) \in Ranks
    BY GroupFacts DEF LifeInv
  <1>2. HeadOf(n)' = HeadOf(n)
    BY GroupFrame
  <1>3. \/ thread'[n][HeadOf(n)] = thread[n][HeadOf(n)]
        \/ thread'[n][HeadOf(n)] = "start" /\ thread[n][HeadOf(n)] = "none"
    BY <1>1
  <1>4. HeadQueue(n)' = HeadQueue(n) /\ Busy(n)' = Busy(n) /\ (Off(n)' => Off(n))
    BY <1>2, <1>3 DEF HeadQueue, Busy, Off
  <1>5. Exit(n)' = Exit(n)
    BY <1>4 DEF Exit
  <1>6. CountOf(n)
    BY DEF LifeInv, CountInv
  <1>. QED
    BY <1>4, <1>5, <1>6 DEF CountOf

\* The barriers and the calls of an actor none of whose workers takes a step.
LEMMA SyncOfStays ==
    ASSUME LifeInv, NEW k \in Created, group'[k] = group[k], thread'[k] = thread[k],
           syncs' = syncs, functions' = functions
    PROVE  SyncOf(k)'
  <1>1. Members(k)' = Members(k) /\ HeadOf(k)' = HeadOf(k) /\ Slaves(k)' = Slaves(k)
    BY DEF Members, HeadOf, Slaves
  <1>2. \A q : Leaving(k, q)' <=> Leaving(k, q)
    BY DEF Leaving
  <1>3. BarrierInv(k) /\ BroadcastInv(k) /\ EndInv(k)
    BY DEF LifeInv, SyncInv, SyncOf
  <1>4. BarrierInv(k)'
    BY <1>1, <1>3 DEF BarrierInv
  <1>5. BroadcastInv(k)'
    BY <1>1, <1>2, <1>3 DEF BroadcastInv
  <1>6. EndInv(k)'
    BY <1>1, <1>2, <1>3 DEF EndInv
  <1>. QED
    BY <1>4, <1>5, <1>6 DEF SyncOf

LEMMA CountOfStays ==
    ASSUME LifeInv, NEW k \in Created, group'[k] = group[k], thread'[k] = thread[k],
           ncalls'[k] = ncalls[k], executed' = executed, queue' = queue, Sent(k)' = Sent(k)
    PROVE  CountOf(k)'
  <1>1. HeadOf(k)' = HeadOf(k)
    BY DEF HeadOf
  <1>2. HeadQueue(k)' = HeadQueue(k) /\ Busy(k)' = Busy(k) /\ (Off(k)' <=> Off(k))
    BY <1>1 DEF HeadQueue, Busy, Off
  <1>3. Exit(k)' = Exit(k)
    BY <1>2 DEF Exit
  <1>4. CountOf(k)
    BY DEF LifeInv, CountInv
  <1>. QED
    BY <1>2, <1>3, <1>4 DEF CountOf

\* The process has an actor and its worker starts; the head answers.
LEMMA HandleCreateLife ==
    ASSUME LifeInv, SlavesInOrder, NEW p \in Ranks, NEW c \in Procs, HandleCreate(p, c)
    PROVE  LifeInv'
  <1>1. c = Client /\ Receive(p, Client, "CREATE")
    BY Sender DEF HandleCreate
  <1>2. /\ program' = program /\ group' = group /\ destroyed' = destroyed /\ ncalls' = ncalls
        /\ server' = server /\ answerStop' = answerStop
        /\ syncs' = syncs /\ queue' = queue /\ functions' = functions /\ executed' = executed
    BY DEF HandleCreate
  <1>3. proxy[p] = NoActor
    BY <1>1, CreateArrives
  <1>4. PICK n \in Alive :
            /\ Head(mgmt[Client][p]) = CreateMsg(n) /\ p \in Members(n) /\ thread[n][p] = "none"
            /\ p = HeadOf(n) => program.pc = "CREATE" /\ program.actor = n /\ reply[p] = << >>
    BY <1>1, CreateArrives
  <1>5. n \in Created /\ n \in Actors
    BY SMTT(20) DEF Alive, Created
  <1>6. Head(mgmt[Client][p]).actor = n /\ Head(mgmt[Client][p]).pids = group[n]
    BY SMTT(20), <1>4 DEF CreateMsg
  <1>7. /\ Starts(n, p) /\ proxy' = [proxy EXCEPT ![p] = n]
        /\ p = HeadOf(n) => Answers(p, "CREATE")
        /\ p # HeadOf(n) => reply' = reply
    BY <1>1, <1>6 DEF HandleCreate, Starts, Answers, AnswersCreation, HeadOf
  <1>8. /\ thread' \in [Actors -> [Ranks -> ThreadStates]] /\ thread'[n][p] = "start"
        /\ \A k \in Actors \ {n} : thread'[k] = thread[k]
        /\ \A k \in Actors, q \in Ranks : ~(k = n /\ q = p) => thread'[k][q] = thread[k][q]
        /\ \A k \in Actors, q \in Ranks : Leaving(k, q)' <=> Leaving(k, q)
        /\ proxy' \in [Ranks -> Actors \cup {NoActor}] /\ proxy'[p] = n
        /\ \A q \in Ranks : q # p => proxy'[q] = proxy[q]
        /\ \A k \in Created, q \in Ranks : SlaveLeft(k, q)' <=> SlaveLeft(k, q)
        /\ \A k \in Created : (HeadReady(k) => HeadReady(k)') /\ (Gone(k) => Gone(k)')
        /\ ThreadInv' /\ DestroyedInv'
    BY <1>2, <1>3, <1>4, <1>5, <1>7, StartFacts
  <1>9. /\ reply' \in [Ranks -> Seq({"CREATE", "CALL", "STOP"})]
        /\ \A q \in Ranks : q # p => reply'[q] = reply[q]
        /\ p = HeadOf(n) => reply'[p] = <<"CREATE">> /\ reply'[p] # << >>
    <2>1. "CREATE" \in Asking
      BY DEF Asking
    <2>2. CASE p = HeadOf(n)
      BY <1>4, <1>7, <2>1, <2>2, AnswerEffect
    <2>3. CASE p # HeadOf(n)
      BY <1>7, <2>3 DEF LifeInv, TypeOK
    <2>. QED
      BY <2>2, <2>3
  <1>10. /\ \A d \in Ranks, q \in Ranks : mgmt'[d][q] = mgmt[d][q]
         /\ \A q \in Ranks : q # p => mgmt'[Client][q] = mgmt[Client][q]
         /\ \A i \in 1..Len(mgmt'[Client][p]), m \in Messages :
               mgmt'[Client][p][i] = m => FromProgram(p, m) /\ m.type = "STOP_PROCESS"
         /\ Len(mgmt'[Client][p]) \in 0..1
    BY <1>1, ProgramsMessage
  <1>11. mgmt' \in [Procs -> [Ranks -> Seq(Messages)]] /\ server[p] = "run"
    <2>1. Client \in Procs /\ TypeOK
      BY DEF LifeInv, Procs
    <2>. QED
      BY <1>1, <2>1, ReceiveEffect
  <1>12. TypeOK'
    BY <1>2, <1>8, <1>9, <1>11 DEF LifeInv, TypeOK
  <1>13. /\ Created' = Created /\ Alive' = Alive
         /\ \A k : Members(k)' = Members(k) /\ HeadOf(k)' = HeadOf(k) /\ Slaves(k)' = Slaves(k)
    BY <1>2, GroupFrame
  <1>14. \A k \in Created : k \in Actors /\ k # NoActor /\ HeadOf(k) \in Ranks
    BY GroupFacts DEF LifeInv
  <1>15. UncreatedInv' /\ GroupInv'
    <2>1. group[n] # << >>
      BY <1>5 DEF Created
    <2>2. \A k \in Actors : group[k] = << >> => thread'[k] = thread[k]
      BY <1>8, <2>1
    <2>3. UncreatedInv'
      BY <1>2, <2>2 DEF LifeInv, UncreatedInv
    <2>. QED
      BY <1>2, <2>3, GroupStays
  <1>16. \A q \in Ranks : q # p => thread'[n][q] = thread[n][q]
    BY <1>5, <1>8
  <1>17. ASSUME NEW k \in Created PROVE Sent(k)' = Sent(k)
    <2>1. CASE p = HeadOf(n)
      BY <1>2, <1>4, <2>1 DEF Sent
    <2>2. CASE p # HeadOf(n)
      BY <1>2, <1>7, <1>13, <2>2 DEF Sent
    <2>. QED
      BY <2>1, <2>2
  <1>18. SyncOf(n)' /\ CountOf(n)'
    BY <1>2, <1>4, <1>5, <1>8, <1>16, <1>17, StartSync, StartCount
  <1>19. SyncInv' /\ CountInv'
    <2>1. ASSUME NEW k \in Created, k # n PROVE SyncOf(k)' /\ CountOf(k)'
      <3>1. thread'[k] = thread[k]
        BY <1>8, <1>14, <2>1
      <3>2. SyncOf(k)'
        BY <1>2, <3>1, SyncOfStays
      <3>3. CountOf(k)'
        BY <1>2, <1>17, <3>1, CountOfStays
      <3>. QED
        BY <3>2, <3>3
    <2>. QED
      BY <1>13, <1>18, <2>1 DEF SyncInv, CountInv
  <1>20. SelfInv'
    <2>1. \A k \in Created, q \in Ranks : SlaveLeft(k, q)' <=> SlaveLeft(k, q)
      BY <1>8
    <2>. SUFFICES ASSUME NEW q \in Ranks
                  PROVE  /\ \A d \in Ranks : d # q => mgmt[d][q] = << >>
                         /\ mgmt[q][q] \in {<< >>, <<GetMsg>>, <<StopMsg>>}
                         /\ mgmt[q][q] = <<GetMsg>> =>
                               \E k \in Created : proxy'[q] = k /\ q = HeadOf(k) /\ thread'[k][q] = "asking"
                         /\ mgmt[q][q] = <<StopMsg>> =>
                               \/ server[q] = "barrier"
                               \/ server[q] \in {"run", "cleanup"} /\ \E k \in Created : SlaveLeft(k, q)
                         /\ (server[q] = "run" /\ \E k \in Created : SlaveLeft(k, q)) => mgmt[q][q] = <<StopMsg>>
      <3>1. /\ server' = server /\ Created' = Created /\ \A k : HeadOf(k)' = HeadOf(k)
            /\ \A d \in Ranks, q \in Ranks : mgmt'[d][q] = mgmt[d][q]
        BY <1>2, <1>10, <1>13
      <3>. QED
        BY <2>1, <3>1 DEF SelfInv
    <2>2. mgmt[q][q] = <<GetMsg>> =>
              \E k \in Created : proxy'[q] = k /\ q = HeadOf(k) /\ thread'[k][q] = "asking"
      <3>. SUFFICES ASSUME mgmt[q][q] = <<GetMsg>>
                    PROVE  \E k \in Created : proxy'[q] = k /\ q = HeadOf(k) /\ thread'[k][q] = "asking"
        OBVIOUS
      <3>1. PICK k \in Created : proxy[q] = k /\ q = HeadOf(k) /\ thread[k][q] = "asking"
        BY DEF LifeInv, SelfInv
      <3>2. q # p /\ k \in Actors
        BY <1>3, <1>14, <3>1
      <3>. QED
        BY <1>8, <3>1, <3>2
    <2>3. /\ \A d \in Ranks : d # q => mgmt[d][q] = << >>
          /\ mgmt[q][q] \in {<< >>, <<GetMsg>>, <<StopMsg>>}
          /\ mgmt[q][q] = <<StopMsg>> =>
                \/ server[q] = "barrier"
                \/ server[q] \in {"run", "cleanup"} /\ \E k \in Created : SlaveLeft(k, q)
          /\ (server[q] = "run" /\ \E k \in Created : SlaveLeft(k, q)) => mgmt[q][q] = <<StopMsg>>
      BY DEF LifeInv, SelfInv
    <2>. QED
      BY <2>2, <2>3
  <1>21. ServerInv'
    <2>. SUFFICES ASSUME NEW q \in Ranks
                  PROVE  /\ server[q] = "barrier" => proxy'[q] = NoActor
                         /\ server[q] \in {"stop", "cleanup"} => proxy'[q] # NoActor
                         /\ server[q] \in {"cleanup", "barrier"} => program.pc \in {"barrier", "done"}
                         /\ (server[q] = "stop" /\ answerStop[q]) =>
                               /\ program.pc = "STOP" /\ program.to = q /\ program.actor = proxy'[q]
                               /\ reply'[q] = << >>
                         /\ (server[q] = "stop" /\ ~answerStop[q]) => \E k \in Created : SlaveLeft(k, q)
                         /\ \A k \in Created : (server[q] = "run" /\ proxy'[q] = k /\ q = HeadOf(k)) =>
                               ~Leaving(k, q) /\ NoExit(k, q)
      <3>1. \A k, r : NoExit(k, r)' <=> NoExit(k, r)
        BY <1>2 DEF NoExit
      <3>2. \A k \in Created : k \in Actors
        BY <1>14
      <3>. QED
        BY <1>2, <1>8, <1>13, <3>1, <3>2 DEF ServerInv
    <2>1. CASE q = p
      <3>1. ASSUME p = HeadOf(n) PROVE ~Leaving(n, p) /\ NoExit(n, p)
        <4>1. Off(n) /\ ~Leaving(n, p)
          BY <1>4, <3>1 DEF Off, Leaving
        <4>2. queue[n][p] = << >>
          BY <1>5, <3>1, <4>1 DEF LifeInv, CountInv, CountOf, HeadQueue
        <4>3. Len(queue[n][p]) = 0
          BY <4>2
        <4>. QED
          BY <4>1, <4>3 DEF NoExit
      <3>. QED
        BY <1>8, <1>11, <2>1, <3>1
    <2>2. CASE q # p
      BY <1>8, <1>9, <2>2 DEF LifeInv, ServerInv
    <2>. QED
      BY <2>1, <2>2
  <1>22. ProgramInv'
    <2>1. ReplyInv'
      <3>1. CASE p = HeadOf(n)
        <4>1. ActorInv(n)
          BY <1>5 DEF LifeInv, ProgramInv
        <4>2. program.pc = "CREATE" /\ program.to = p /\ program.pc \in Asking
          BY <1>4, <3>1, <4>1 DEF ActorInv, Asking
        <4>. QED
          BY <1>2, <1>9, <3>1, <4>2 DEF LifeInv, ProgramInv, ReplyInv
      <3>2. CASE p # HeadOf(n)
        BY <1>2, <1>7, <3>2 DEF LifeInv, ProgramInv, ReplyInv
      <3>. QED
        BY <3>1, <3>2
    <2>2. ASSUME NEW k \in Actors PROVE ActorInv(k)'
      <3>1. ActorInv(k)
        BY DEF LifeInv, ProgramInv
      <3>2. k \in Alive => k \in Created
        BY DEF Alive
      <3>3. (program.pc \in Over /\ k \in Created) => thread'[k][HeadOf(k)] # "none"
        <4>1. (program.pc \in Over /\ k \in Created) => thread[k][HeadOf(k)] # "none"
          BY <3>1 DEF ActorInv
        <4>. QED
          BY <1>8, <1>14, <4>1
      <3>4. (program.pc = "CREATE" /\ program.actor = k) =>
                \/ reply'[HeadOf(k)] = << >> /\ thread'[k][HeadOf(k)] = "none"
                \/ reply'[HeadOf(k)] # << >> /\ HeadReady(k)'
        <4>. SUFFICES ASSUME program.pc = "CREATE", program.actor = k
                      PROVE  \/ reply'[HeadOf(k)] = << >> /\ thread'[k][HeadOf(k)] = "none"
                             \/ reply'[HeadOf(k)] # << >> /\ HeadReady(k)'
          OBVIOUS
        <4>1. k \in Created
          BY <3>1, <3>2 DEF ActorInv, Asking
        <4>2. CASE p = HeadOf(n)
          <5>1. k = n
            BY <1>4, <4>2
          <5>2. HeadReady(k)'
            BY <1>2, <1>8, <1>11, <1>13, <4>2, <5>1 DEF HeadReady
          <5>. QED
            BY <1>9, <4>2, <5>1, <5>2
        <4>3. CASE p # HeadOf(n)
          <5>1. reply' = reply /\ thread'[k][HeadOf(k)] = thread[k][HeadOf(k)]
            BY <1>7, <1>8, <1>14, <4>1, <4>3
          <5>. QED
            BY <1>8, <3>1, <4>1, <5>1 DEF ActorInv
        <4>. QED
          BY <4>2, <4>3
      <3>5. (program.pc = "STOP" /\ program.actor = k) =>
                \/ reply'[HeadOf(k)] = << >> /\ HeadReady(k)'
                \/ /\ reply'[HeadOf(k)] = << >> /\ proxy'[HeadOf(k)] = k
                   /\ server[HeadOf(k)] = "stop" /\ answerStop[HeadOf(k)]
                \/ reply'[HeadOf(k)] # << >> /\ Gone(k)'
        <4>. SUFFICES ASSUME program.pc = "STOP", program.actor = k
                      PROVE  \/ reply'[HeadOf(k)] = << >> /\ HeadReady(k)'
                             \/ /\ reply'[HeadOf(k)] = << >> /\ proxy'[HeadOf(k)] = k
                                /\ server[HeadOf(k)] = "stop" /\ answerStop[HeadOf(k)]
                             \/ reply'[HeadOf(k)] # << >> /\ Gone(k)'
          OBVIOUS
        <4>1. k \in Created
          BY <3>1, <3>2 DEF ActorInv, Asking
        <4>2. reply' = reply
          BY <1>4, <1>7
        <4>3. proxy[HeadOf(k)] = k => proxy'[HeadOf(k)] = k
          BY <1>3, <1>8, <1>14, <4>1
        <4>. QED
          BY <1>8, <3>1, <4>1, <4>2, <4>3 DEF ActorInv
      <3>6. /\ (program.pc \in Asking /\ program.actor = k) => k \in Alive /\ program.to = HeadOf(k)
            /\ (program.pc \notin Over /\ k \in Alive) =>
                  HeadReady(k)' \/ (program.pc \in {"CREATE", "STOP"} /\ program.actor = k)
        BY <1>8, <3>1, <3>2 DEF ActorInv
      <3>. QED
        BY <1>2, <1>13, <3>3, <3>4, <3>5, <3>6 DEF ActorInv
    <2>3. /\ program'.pc \in Asking => program'.actor \in Actors
          /\ program'.pc = "done" => \A q \in Ranks : server'[q] = "barrier"
      BY <1>2 DEF LifeInv, ProgramInv
    <2>. QED
      BY <2>1, <2>2, <2>3 DEF ProgramInv
  <1>23. ClientInv'
    <2>. SUFFICES ASSUME NEW q \in Ranks
                  PROVE  /\ \A i \in 1..Len(mgmt'[Client][q]), m \in Messages :
                               mgmt'[Client][q][i] = m => FromProgram(q, m)'
                         /\ Len(mgmt'[Client][q]) \in 0..2
                         /\ Len(mgmt'[Client][q]) = 2 =>
                               mgmt'[Client][q][1].type = "CREATE" /\ mgmt'[Client][q][2].type = "STOP_PROCESS"
      BY DEF ClientInv
    <2>1. CASE q = p
      <3>1. ASSUME NEW m \in Messages, FromProgram(p, m), m.type = "STOP_PROCESS" PROVE FromProgram(p, m)'
        <4>1. program.pc \in Over
          BY <3>1, MessageTells
        <4>. QED
          BY <1>2, <3>1, <4>1 DEF FromProgram
      <3>2. Len(mgmt'[Client][p]) \in 0..2 /\ Len(mgmt'[Client][p]) # 2
        BY <1>10
      <3>. QED
        BY <1>10, <2>1, <3>1, <3>2
    <2>2. CASE q # p
      <3>1. mgmt'[Client][q] = mgmt[Client][q] /\ reply'[q] = reply[q]
        BY <1>9, <1>10, <2>2
      <3>2. ASSUME NEW m \in Messages, FromProgram(q, m) PROVE FromProgram(q, m)'
        <4>1. \A k : CreateMsg(k)' = CreateMsg(k)
          BY <1>2 DEF CreateMsg
        <4>2. \A k \in Alive : thread'[k][q] = thread[k][q]
          BY <1>8, <1>14, <2>2 DEF Alive
        <4>3. (\A k \in Actors : program.actor = k => HeadReady(k)) /\ program.pc = "STOP" =>
                  \A k \in Actors : program.actor = k => HeadReady(k)'
          <5>1. ASSUME NEW k \in Actors, program.pc = "STOP", program.actor = k, HeadReady(k) PROVE HeadReady(k)'
            <6>1. k \in Created
              BY <5>1 DEF LifeInv, ProgramInv, ActorInv, Asking, Alive
            <6>. QED
              BY <1>8, <5>1, <6>1
          <5>. QED
            BY <5>1
        <4>. QED
          BY <1>2, <1>13, <3>1, <3>2, <4>1, <4>2, <4>3 DEF FromProgram
      <3>. QED
        BY <3>1, <3>2 DEF LifeInv, ClientInv
    <2>. QED
      BY <2>1, <2>2
  <1>. QED
    BY <1>8, <1>12, <1>15, <1>19, <1>20, <1>21, <1>22, <1>23 DEF LifeInv

-----------------------------------------------------------------------------
(***************************************************************************)
(* Steps of the program.                                                   *)
(***************************************************************************)

\* The program is between two operations: every answer was received, and only
\* slaves have yet to hear of the creation of their actor.
LEMMA IdleFacts ==
    ASSUME LifeInv, program = Idle
    PROVE  /\ \A q \in Ranks : reply[q] = << >>
           /\ \A q \in Ranks : server[q] \in {"run", "stop"} /\ (server[q] = "stop" => ~answerStop[q])
           /\ \A k \in Alive : HeadReady(k) /\ thread[k][HeadOf(k)] # "none"
           /\ \A k : Sent(k) = 0
           /\ \A q \in Ranks, m \in Messages : FromProgram(q, m) =>
                 /\ m.type = "CREATE"
                 /\ \E k \in Alive : m = CreateMsg(k) /\ q \in Members(k) /\ q # HeadOf(k) /\ thread[k][q] = "none"
           /\ \A q \in Ranks : Len(mgmt[Client][q]) \in 0..1
  <1>1. program.pc = "idle" /\ "idle" \notin Asking /\ "idle" \notin Over
    BY DEF Idle, Asking, Over
  <1>2. \A q \in Ranks : reply[q] = << >>
    BY <1>1 DEF LifeInv, ProgramInv, ReplyInv
  <1>3. ASSUME NEW q \in Ranks PROVE server[q] \in {"run", "stop"} /\ (server[q] = "stop" => ~answerStop[q])
    <2>1. server[q] \in {"run", "stop", "cleanup", "barrier"}
      BY DEF LifeInv, TypeOK
    <2>. QED
      BY <1>1, <2>1 DEF LifeInv, ServerInv
  <1>4. ASSUME NEW k \in Alive PROVE HeadReady(k) /\ thread[k][HeadOf(k)] # "none"
    <2>1. k \in Created
      BY DEF Alive
    <2>2. k \in Actors /\ HeadOf(k) \in Ranks
      BY <2>1, GroupFacts DEF LifeInv
    <2>3. HeadReady(k)
      BY <1>1, <2>2 DEF LifeInv, ProgramInv, ActorInv
    <2>. QED
      BY <2>2, <2>3 DEF HeadReady, LifeInv, ThreadInv
  <1>5. \A k : Sent(k) = 0
    BY <1>1 DEF Sent
  <1>6. ASSUME NEW q \in Ranks, NEW m \in Messages, FromProgram(q, m)
        PROVE  /\ m.type = "CREATE"
               /\ \E k \in Alive : m = CreateMsg(k) /\ q \in Members(k) /\ q # HeadOf(k) /\ thread[k][q] = "none"
    <2>1. PICK k \in Alive : /\ m = CreateMsg(k) /\ q \in Members(k) /\ thread[k][q] = "none"
                             /\ q = HeadOf(k) => program.pc = "CREATE"
      BY <1>1, <1>6 DEF FromProgram
    <2>2. m.type = "CREATE"
      BY <2>1 DEF CreateMsg
    <2>. QED
      BY <1>1, <2>1, <2>2
  <1>7. ASSUME NEW q \in Ranks PROVE Len(mgmt[Client][q]) \in 0..1
    <2>1. /\ \A i \in 1..Len(mgmt[Client][q]), m \in Messages : mgmt[Client][q][i] = m => FromProgram(q, m)
          /\ Len(mgmt[Client][q]) \in 0..2
          /\ Len(mgmt[Client][q]) = 2 => mgmt[Client][q][2].type = "STOP_PROCESS"
      BY DEF LifeInv, ClientInv
    <2>2. ASSUME Len(mgmt[Client][q]) = 2 PROVE FALSE
      <3>1. mgmt[Client][q] \in Seq(Messages) /\ 2 \in 1..Len(mgmt[Client][q])
        BY <2>2 DEF LifeInv, TypeOK, Procs
      <3>2. mgmt[Client][q][2] \in Messages
        BY <3>1
      <3>3. FromProgram(q, mgmt[Client][q][2])
        BY <2>1, <3>1, <3>2, Zenon
      <3>4. mgmt[Client][q][2].type = "CREATE"
        BY <1>6, <3>2, <3>3, Zenon
      <3>. QED
        BY <2>1, <2>2, <3>4
    <2>. QED
      BY <2>1, <2>2
  <1>. QED
    BY <1>2, <1>3, <1>4, <1>5, <1>6, <1>7

\* What an operation of the program on its actors leaves alone.
LEMMA AskKeeps ==
    ASSUME LifeInv, program = Idle,
           UNCHANGED <<reply, group, destroyed, server, proxy, answerStop, workers, queue>>,
           \A c \in Ranks, q \in Ranks : mgmt'[c][q] = mgmt[c][q]
    PROVE  /\ GroupInv' /\ ThreadInv' /\ SyncInv' /\ SelfInv' /\ ServerInv' /\ DestroyedInv'
           /\ Created' = Created /\ Alive' = Alive
           /\ \A k : Members(k)' = Members(k) /\ HeadOf(k)' = HeadOf(k)
           /\ \A k : HeadReady(k)' <=> HeadReady(k)
           /\ \A q \in Ranks, m \in Messages : FromProgram(q, m) => FromProgram(q, m)'
  <1>1. /\ reply' = reply /\ group' = group /\ destroyed' = destroyed /\ server' = server /\ proxy' = proxy
        /\ answerStop' = answerStop /\ thread' = thread /\ syncs' = syncs /\ functions' = functions
        /\ queue' = queue
    BY DEF workers
  <1>2. GroupInv' /\ ThreadInv' /\ SyncInv' /\ SelfInv' /\ DestroyedInv'
    BY <1>1, GroupStays, ThreadsStay, SyncStays, SelfStays, DestroyedStay
  <1>3. /\ Created' = Created /\ Alive' = Alive
        /\ \A k : Members(k)' = Members(k) /\ HeadOf(k)' = HeadOf(k) /\ Slaves(k)' = Slaves(k)
    BY <1>1, GroupFrame
  <1>4. \A k : HeadReady(k)' <=> HeadReady(k)
    BY <1>1, <1>3 DEF HeadReady
  <1>5. ServerInv'
    <2>1. \A k, q : /\ SlaveLeft(k, q)' <=> SlaveLeft(k, q)
                    /\ Leaving(k, q)' <=> Leaving(k, q)
                    /\ NoExit(k, q)' <=> NoExit(k, q)
      BY <1>1, <1>3 DEF SlaveLeft, Leaving, NoExit
    <2>2. \A q \in Ranks : server[q] \in {"run", "stop"} /\ (server[q] = "stop" => ~answerStop[q])
      BY IdleFacts
    <2>. SUFFICES ASSUME NEW q \in Ranks
                  PROVE  /\ server[q] \in {"stop", "cleanup"} => proxy[q] # NoActor
                         /\ (server[q] = "stop" /\ ~answerStop[q]) => \E k \in Created : SlaveLeft(k, q)
                         /\ \A k \in Created : (server[q] = "run" /\ proxy[q] = k /\ q = HeadOf(k)) =>
                               ~Leaving(k, q) /\ NoExit(k, q)
      BY <1>1, <1>3, <2>1, <2>2 DEF ServerInv
    <2>. QED
      BY DEF LifeInv, ServerInv
  <1>6. ASSUME NEW q \in Ranks, NEW m \in Messages, FromProgram(q, m) PROVE FromProgram(q, m)'
    <2>1. PICK k \in Alive : m = CreateMsg(k) /\ q \in Members(k) /\ q # HeadOf(k) /\ thread[k][q] = "none"
      BY <1>6, IdleFacts
    <2>2. CreateMsg(k)' = CreateMsg(k)
      BY <1>1 DEF CreateMsg
    <2>. QED
      BY <1>1, <1>3, <2>1, <2>2 DEF FromProgram
  <1>. QED
    BY <1>2, <1>3, <1>4, <1>5, <1>6

\* The program asks the head of an actor: no other message is on its way there.
LEMMA AskHead ==
    ASSUME LifeInv, program = Idle,
           UNCHANGED <<reply, group, destroyed, server, proxy, answerStop, workers, queue>>,
           NEW n \in Alive, NEW p \in Ranks, p = HeadOf(n), NEW m \in Messages,
           mgmt'[Client][p] = Append(mgmt[Client][p], m),
           \A q \in Ranks : q # p => mgmt'[Client][q] = mgmt[Client][q],
           \A c \in Ranks, q \in Ranks : mgmt'[c][q] = mgmt[c][q],
           FromProgram(p, m)'
    PROVE  ClientInv'
  <1>1. n \in Created
    BY DEF Alive
  <1>2. n \in Actors /\ p \in Members(n)
    BY <1>1, GroupFacts DEF LifeInv
  <1>3. mgmt[Client][p] = << >>
    <2>. DEFINE f == mgmt[Client][p]
    <2>1. f \in Seq(Messages) /\ Len(f) \in 0..1
      <3>1. f \in Seq(Messages)
        BY <1>2 DEF LifeInv, TypeOK, Procs
      <3>2. Len(f) \in 0..1
        BY <1>2, IdleFacts
      <3>. QED
        BY <3>1, <3>2
    <2>2. ASSUME Len(f) = 1 PROVE FALSE
      <3>1. f[1] \in Messages /\ 1 \in 1..Len(f)
        BY <2>1, <2>2
      <3>2. FromProgram(p, f[1])
        <4>1. \A i \in 1..Len(f), x \in Messages : f[i] = x => FromProgram(p, x)
          BY <1>2 DEF LifeInv, ClientInv
        <4>. HIDE DEF f
        <4>. QED
          BY <3>1, <4>1, Zenon
      <3>3. PICK k \in Alive : p \in Members(k) /\ p # HeadOf(k)
        <4>1. \A x \in Messages : FromProgram(p, x) => \E k \in Alive : p \in Members(k) /\ p # HeadOf(k)
          BY IdleFacts
        <4>. HIDE DEF f
        <4>. QED
          BY <3>1, <3>2, <4>1, Zenon
      <3>4. k = n
        BY <1>2, <3>3 DEF LifeInv, GroupInv
      <3>. QED
        BY <3>3, <3>4
    <2>3. Len(f) = 0
      BY <2>1, <2>2
    <2>. QED
      BY <2>1, <2>3, EmptyFacts
  <1>4. /\ mgmt'[Client][p] = <<m>> /\ Len(<<m>>) = 1 /\ <<m>>[1] = m
    BY <1>3, AppendEmpty
  <1>. SUFFICES ASSUME NEW q \in Ranks
                PROVE  /\ \A i \in 1..Len(mgmt'[Client][q]), x \in Messages :
                             mgmt'[Client][q][i] = x => FromProgram(q, x)'
                       /\ Len(mgmt'[Client][q]) \in 0..2
                       /\ Len(mgmt'[Client][q]) = 2 =>
                             mgmt'[Client][q][1].type = "CREATE" /\ mgmt'[Client][q][2].type = "STOP_PROCESS"
    BY DEF ClientInv
  <1>5. CASE q = p
    <2>. DEFINE f == mgmt'[Client][q]
    <2>1. f = <<m>> /\ Len(f) = 1 /\ f[1] = m /\ FromProgram(q, m)'
      BY <1>4, <1>5
    <2>. HIDE DEF f
    <2>2. \A i \in 1..Len(f) : f[i] = m
      BY <2>1
    <2>3. Len(f) \in 0..2 /\ Len(f) # 2
      BY <2>1
    <2>. QED
      BY <2>1, <2>2, <2>3 DEF f
  <1>6. CASE q # p
    <2>1. mgmt'[Client][q] = mgmt[Client][q]
      BY <1>6
    <2>2. \A x \in Messages : FromProgram(q, x) => FromProgram(q, x)'
      BY AskKeeps
    <2>. QED
      BY <2>1, <2>2 DEF LifeInv, ClientInv
  <1>. QED
    BY <1>5, <1>6

\* A call is counted when it is made.
LEMMA CallActorLife ==
    ASSUME LifeInv, NEW n \in Actors, NEW kind \in Kinds, CallActor(n, kind)
    PROVE  LifeInv'
  <1>1. /\ program = Idle /\ n \in Alive /\ ncalls[n] < MaxCalls
        /\ ncalls' = [ncalls EXCEPT ![n] = @ + 1]
        /\ Send(Client, HeadOf(n), [type |-> "CALL", kind |-> kind])
        /\ program' = Waiting("CALL", HeadOf(n), n)
        /\ UNCHANGED <<reply, group, destroyed, server, proxy, answerStop, workers, queue>>
    BY DEF CallActor
  <1>2. n \in Created
    BY <1>1 DEF Alive
  <1>3. HeadOf(n) \in Ranks
    BY <1>2, GroupFacts DEF LifeInv
  <1>. DEFINE m == [type |-> "CALL", kind |-> kind]
  <1>4. m \in Messages
    BY MessagesSent
  <1>5. m.type = "CALL"
    OBVIOUS
  <1>. HIDE DEF m
  <1>6. /\ mgmt' \in [Procs -> [Ranks -> Seq(Messages)]]
        /\ mgmt'[Client][HeadOf(n)] = Append(mgmt[Client][HeadOf(n)], m)
        /\ \A q \in Ranks : q # HeadOf(n) => mgmt'[Client][q] = mgmt[Client][q]
        /\ \A c \in Ranks, q \in Ranks : mgmt'[c][q] = mgmt[c][q]
    <2>1. Client \in Procs /\ Ranks \subseteq Procs /\ TypeOK
      BY DEF Procs, LifeInv
    <2>2. Send(Client, HeadOf(n), m)
      BY <1>1 DEF m
    <2>3. /\ mgmt' \in [Procs -> [Ranks -> Seq(Messages)]]
          /\ mgmt'[Client][HeadOf(n)] = Append(mgmt[Client][HeadOf(n)], m)
          /\ \A d \in Procs, q \in Ranks : ~(d = Client /\ q = HeadOf(n)) => mgmt'[d][q] = mgmt[d][q]
      BY <1>3, <1>4, <2>1, <2>2, SendEffect
    <2>. QED
      BY <2>1, <2>3
  <1>7. /\ GroupInv' /\ ThreadInv' /\ SyncInv' /\ SelfInv' /\ ServerInv' /\ DestroyedInv'
        /\ Created' = Created /\ Alive' = Alive
        /\ \A k : Members(k)' = Members(k) /\ HeadOf(k)' = HeadOf(k)
        /\ \A k : HeadReady(k)' <=> HeadReady(k)
    BY <1>1, <1>6, AskKeeps
  <1>8. program'.pc = "CALL" /\ program'.to = HeadOf(n) /\ program'.actor = n
    BY <1>1 DEF Waiting
  <1>9. /\ \A q \in Ranks : reply[q] = << >>
        /\ \A k \in Alive : HeadReady(k)
        /\ \A k : Sent(k) = 0
    BY <1>1, IdleFacts
  <1>10. /\ reply' = reply /\ group' = group /\ destroyed' = destroyed /\ server' = server /\ proxy' = proxy
         /\ answerStop' = answerStop /\ thread' = thread /\ syncs' = syncs /\ functions' = functions
         /\ queue' = queue /\ executed' = executed
    BY <1>1 DEF workers
  <1>11. ClientInv'
    <2>1. PICK p \in Ranks : p = HeadOf(n)
      BY <1>3
    <2>2. FromProgram(p, m)'
      BY <1>5, <1>8, <1>9, <1>10, <2>1 DEF FromProgram
    <2>. QED
      BY <1>1, <1>4, <1>6, <2>1, <2>2, AskHead
  <1>12. /\ ncalls' \in [Actors -> 0..MaxCalls] /\ ncalls[n] \in Nat /\ ncalls'[n] = ncalls[n] + 1
         /\ \A k \in Actors \ {n} : ncalls'[k] = ncalls[k]
    <2>1. ncalls \in [Actors -> 0..MaxCalls] /\ ncalls[n] \in 0..MaxCalls
      BY DEF LifeInv, TypeOK
    <2>2. ncalls[n] + 1 \in 0..MaxCalls /\ ncalls[n] \in Nat
      BY <1>1, <2>1
    <2>. QED
      BY <1>1, <2>1, <2>2
  <1>13. TypeOK'
    <2>1. program' \in [pc : {"idle", "CREATE", "CALL", "STOP", "barrier", "done"},
                        to : Procs, actor : Actors \cup {NoActor}]
      BY <1>1, <1>3 DEF Waiting, Procs
    <2>. QED
      BY <1>6, <1>10, <1>12, <2>1 DEF LifeInv, TypeOK
  <1>14. UncreatedInv'
    <2>1. \A k \in Actors : group[k] = << >> => ncalls'[k] = ncalls[k]
      BY <1>2, <1>12 DEF Created
    <2>. QED
      BY <1>10, <2>1 DEF LifeInv, UncreatedInv
  <1>15. ProgramInv'
    <2>1. ReplyInv'
      BY <1>9, <1>10 DEF ReplyInv
    <2>2. ASSUME NEW k \in Actors PROVE ActorInv(k)'
      BY <1>1, <1>7, <1>8, <1>9 DEF ActorInv, Asking, Over
    <2>. QED
      BY <1>8, <2>1, <2>2 DEF ProgramInv
  <1>16. CountInv'
    <2>1. CountOf(n)'
      <3>1. HeadQueue(n)' = HeadQueue(n) /\ Busy(n)' = Busy(n) /\ (Off(n)' <=> Off(n))
        BY <1>7, <1>10 DEF HeadQueue, Busy, Off
      <3>2. Exit(n)' = Exit(n)
        BY <3>1 DEF Exit
      <3>3. Sent(n)' = 1
        BY <1>3, <1>7, <1>8, <1>9, <1>10 DEF Sent
      <3>4. CountOf(n)
        BY <1>2 DEF LifeInv, CountInv
      <3>5. executed'[n] + Len(HeadQueue(n)') + Busy(n)' + Sent(n)' = ncalls'[n] + Exit(n)'
        <4>. DEFINE e == executed[n]
                    l == Len(HeadQueue(n))
                    b == Busy(n)
                    x == Exit(n)
                    c == ncalls[n]
        <4>1. e \in Nat /\ b \in {0, 1} /\ x \in {0, 1} /\ c \in Nat
          BY <1>12 DEF LifeInv, TypeOK, Busy, Exit
        <4>2. l \in Nat
          <5>1. HeadQueue(n) \in Seq(Requests)
            BY <1>3 DEF LifeInv, TypeOK, HeadQueue
          <5>. QED
            BY <5>1
        <4>3. e + l + b + 0 = c + x
          BY <1>9, <3>4 DEF CountOf
        <4>. HIDE DEF e, l, b, x, c
        <4>4. e + l + b + 1 = (c + 1) + x
          BY <4>1, <4>2, <4>3
        <4>. QED
          BY <1>10, <1>12, <3>1, <3>2, <3>3, <4>4 DEF e, l, b, x, c
      <3>. QED
        BY <3>1, <3>4, <3>5 DEF CountOf
    <2>2. ASSUME NEW k \in Created, k # n PROVE CountOf(k)'
      <3>1. Sent(k)' = Sent(k)
        <4>1. Sent(k)' = 0
          BY <1>8, <2>2 DEF Sent
        <4>. QED
          BY <1>9, <4>1
      <3>2. ncalls'[k] = ncalls[k]
        BY <1>12, <2>2 DEF Created
      <3>. QED
        BY <1>10, <3>1, <3>2, CountOfStays
    <2>. QED
      BY <1>7, <2>1, <2>2 DEF CountInv
  <1>. QED
    BY <1>7, <1>11, <1>13, <1>14, <1>15, <1>16 DEF LifeInv

\* Only the head is told of the destruction.
LEMMA DestroyObjectLife ==
    ASSUME LifeInv, NEW n \in Actors, DestroyObject(n)
    PROVE  LifeInv'
  <1>1. /\ program = Idle /\ n \in Alive
        /\ SendAll(Client, {HeadOf(n)}, [type |-> "STOP", answer |-> TRUE])
        /\ program' = Waiting("STOP", HeadOf(n), n)
        /\ UNCHANGED <<reply, group, destroyed, ncalls, server, proxy, answerStop, workers, queue>>
    BY DEF DestroyObject, ToldToStop
  <1>2. n \in Created
    BY <1>1 DEF Alive
  <1>3. PICK p \in Ranks : p = HeadOf(n)
    BY <1>2, GroupFacts DEF LifeInv
  <1>. DEFINE m == [type |-> "STOP", answer |-> TRUE]
  <1>4. m \in Messages
    BY MessagesSent
  <1>5. m = [type |-> "STOP", answer |-> TRUE]
    OBVIOUS
  <1>. HIDE DEF m
  <1>6. /\ mgmt' \in [Procs -> [Ranks -> Seq(Messages)]]
        /\ mgmt'[Client][p] = Append(mgmt[Client][p], m)
        /\ \A q \in Ranks : q # p => mgmt'[Client][q] = mgmt[Client][q]
        /\ \A c \in Ranks, q \in Ranks : mgmt'[c][q] = mgmt[c][q]
    <2>1. Client \in Procs /\ Ranks \subseteq Procs \ {Client} /\ TypeOK
      BY DEF Procs, LifeInv
    <2>2. SendAll(Client, {p}, m) /\ {p} \in SUBSET Ranks
      BY <1>1, <1>3, <1>5
    <2>3. /\ mgmt' \in [Procs -> [Ranks -> Seq(Messages)]]
          /\ \A q \in {p} : mgmt'[Client][q] = Append(mgmt[Client][q], m)
          /\ \A q \in Ranks \ {p} : mgmt'[Client][q] = mgmt[Client][q]
          /\ \A d \in Procs \ {Client}, q \in Ranks : mgmt'[d][q] = mgmt[d][q]
      BY <1>4, <2>1, <2>2, SendAllEffect
    <2>. QED
      BY <2>1, <2>3
  <1>7. /\ GroupInv' /\ ThreadInv' /\ SyncInv' /\ SelfInv' /\ ServerInv' /\ DestroyedInv'
        /\ Created' = Created /\ Alive' = Alive
        /\ \A k : Members(k)' = Members(k) /\ HeadOf(k)' = HeadOf(k)
        /\ \A k : HeadReady(k)' <=> HeadReady(k)
    BY <1>1, <1>6, AskKeeps
  <1>8. program'.pc = "STOP" /\ program'.to = p /\ program'.actor = n
    BY <1>1, <1>3 DEF Waiting
  <1>9. /\ \A q \in Ranks : reply[q] = << >>
        /\ \A k \in Alive : HeadReady(k)
        /\ \A k : Sent(k) = 0
    BY <1>1, IdleFacts
  <1>10. /\ reply' = reply /\ group' = group /\ destroyed' = destroyed /\ server' = server /\ proxy' = proxy
         /\ answerStop' = answerStop /\ thread' = thread /\ syncs' = syncs /\ functions' = functions
         /\ queue' = queue /\ executed' = executed /\ ncalls' = ncalls
    BY <1>1 DEF workers
  <1>11. ClientInv'
    <2>1. FromProgram(p, m)'
      BY <1>1, <1>5, <1>7, <1>8, <1>9, <1>10 DEF FromProgram
    <2>. QED
      BY <1>1, <1>3, <1>4, <1>6, <2>1, AskHead
  <1>12. TypeOK'
    <2>1. program' \in [pc : {"idle", "CREATE", "CALL", "STOP", "barrier", "done"},
                        to : Procs, actor : Actors \cup {NoActor}]
      BY <1>1, <1>3 DEF Waiting, Procs
    <2>. QED
      BY <1>6, <1>10, <2>1 DEF LifeInv, TypeOK
  <1>13. UncreatedInv'
    BY <1>10 DEF LifeInv, UncreatedInv
  <1>14. ProgramInv'
    <2>1. ReplyInv'
      BY <1>9, <1>10 DEF ReplyInv
    <2>2. ASSUME NEW k \in Actors PROVE ActorInv(k)'
      BY <1>1, <1>3, <1>7, <1>8, <1>9, <1>10 DEF ActorInv, Asking, Over
    <2>. QED
      BY <1>8, <2>1, <2>2 DEF ProgramInv
  <1>15. CountInv'
    <2>1. ASSUME NEW k \in Created PROVE CountOf(k)'
      <3>1. Sent(k)' = Sent(k)
        <4>1. Sent(k)' = 0
          BY <1>8 DEF Sent
        <4>. QED
          BY <1>9, <4>1
      <3>. QED
        BY <1>10, <3>1, CountOfStays
    <2>. QED
      BY <1>7, <2>1 DEF CountInv
  <1>. QED
    BY <1>7, <1>11, <1>12, <1>13, <1>14, <1>15 DEF LifeInv

\* The program ends: every process is told, behind a creation it has not heard of.
LEMMA FinalizeLife ==
    ASSUME LifeInv, Finalize
    PROVE  LifeInv'
  <1>1. /\ program = Idle
        /\ SendAll(Client, Ranks, [type |-> "STOP_PROCESS"])
        /\ program' = Waiting("barrier", Client, NoActor)
        /\ UNCHANGED <<reply, group, destroyed, ncalls, server, proxy, answerStop, workers, queue>>
    BY DEF Finalize
  <1>. DEFINE m == [type |-> "STOP_PROCESS"]
  <1>2. m \in Messages
    BY MessagesSent
  <1>3. m.type = "STOP_PROCESS" /\ SendAll(Client, Ranks, m)
    BY <1>1
  <1>. HIDE DEF m
  <1>4. /\ mgmt' \in [Procs -> [Ranks -> Seq(Messages)]]
        /\ \A q \in Ranks : mgmt'[Client][q] = Append(mgmt[Client][q], m)
        /\ \A c \in Ranks, q \in Ranks : mgmt'[c][q] = mgmt[c][q]
    <2>1. Client \in Procs /\ Ranks \subseteq Procs \ {Client} /\ TypeOK
      BY DEF Procs, LifeInv
    <2>2. PICK P \in SUBSET Ranks : P = Ranks
      OBVIOUS
    <2>3. /\ mgmt' \in [Procs -> [Ranks -> Seq(Messages)]]
          /\ \A q \in P : mgmt'[Client][q] = Append(mgmt[Client][q], m)
          /\ \A d \in Procs \ {Client}, q \in Ranks : mgmt'[d][q] = mgmt[d][q]
      <3>1. SendAll(Client, P, m)
        BY <1>3, <2>2
      <3>. QED
        BY <1>2, <2>1, <3>1, SendAllEffect
    <2>. QED
      BY <2>1, <2>2, <2>3
  <1>5. /\ GroupInv' /\ ThreadInv' /\ SyncInv' /\ SelfInv' /\ ServerInv' /\ DestroyedInv'
        /\ Created' = Created /\ Alive' = Alive
        /\ \A k : Members(k)' = Members(k) /\ HeadOf(k)' = HeadOf(k)
        /\ \A q \in Ranks, x \in Messages : FromProgram(q, x) => FromProgram(q, x)'
    BY <1>1, <1>4, AskKeeps
  <1>6. program'.pc = "barrier"
    BY <1>1 DEF Waiting
  <1>7. /\ \A q \in Ranks : reply[q] = << >>
        /\ \A k \in Alive : thread[k][HeadOf(k)] # "none"
        /\ \A k : Sent(k) = 0
        /\ \A q \in Ranks, x \in Messages : FromProgram(q, x) => x.type = "CREATE"
        /\ \A q \in Ranks : Len(mgmt[Client][q]) \in 0..1
    BY <1>1, IdleFacts
  <1>8. /\ reply' = reply /\ group' = group /\ destroyed' = destroyed /\ server' = server /\ proxy' = proxy
        /\ answerStop' = answerStop /\ thread' = thread /\ syncs' = syncs /\ functions' = functions
        /\ queue' = queue /\ executed' = executed /\ ncalls' = ncalls
    BY <1>1 DEF workers
  <1>9. ClientInv'
    <2>. SUFFICES ASSUME NEW q \in Ranks
                  PROVE  /\ \A i \in 1..Len(mgmt'[Client][q]), x \in Messages :
                               mgmt'[Client][q][i] = x => FromProgram(q, x)'
                         /\ Len(mgmt'[Client][q]) \in 0..2
                         /\ Len(mgmt'[Client][q]) = 2 =>
                               mgmt'[Client][q][1].type = "CREATE" /\ mgmt'[Client][q][2].type = "STOP_PROCESS"
      BY DEF ClientInv
    <2>. DEFINE f == mgmt[Client][q]
                f1 == mgmt'[Client][q]
    <2>1. f \in Seq(Messages)
      BY DEF LifeInv, TypeOK, Procs
    <2>2. /\ Len(f) \in Nat /\ Len(f1) = Len(f) + 1 /\ f1[Len(f) + 1] = m
          /\ \A i \in 1..Len(f) : f1[i] = f[i]
      BY <1>2, <1>4, <2>1, AppendFacts
    <2>3. Len(f) \in 0..1
      BY <1>7
    <2>4. \A i \in 1..Len(f), x \in Messages : f[i] = x => FromProgram(q, x)' /\ x.type = "CREATE"
      BY <1>5, <1>7 DEF LifeInv, ClientInv
    <2>5. \A i \in 1..Len(f) : f[i] \in Messages
      BY <2>1
    <2>6. FromProgram(q, m)'
      BY <1>3, <1>6 DEF FromProgram, Over
    <2>. HIDE DEF f, f1
    <2>. DEFINE l == Len(f)
    <2>. HIDE DEF l
    <2>7. l \in Nat /\ l \in 0..1 /\ Len(f1) = l + 1 /\ f1[l + 1] = m
      BY <2>2, <2>3 DEF l
    <2>8. \A i \in 1..l : f1[i] = f[i] /\ f[i].type = "CREATE"
      BY <2>2, <2>4, <2>5 DEF l
    <2>9. \A i \in 1..(l + 1) : i \in 1..l \/ i = l + 1
      BY <2>7
    <2>10. \A i \in 1..Len(f1), x \in Messages : f1[i] = x => FromProgram(q, x)'
      <3>. SUFFICES ASSUME NEW i \in 1..Len(f1), NEW x \in Messages, f1[i] = x PROVE FromProgram(q, x)'
        OBVIOUS
      <3>1. CASE i \in 1..l
        <4>1. f[i] = x
          BY <2>8, <3>1
        <4>. QED
          BY <2>4, <3>1, <4>1 DEF l
      <3>2. CASE i = l + 1
        <4>1. x = m
          BY <2>7, <3>2
        <4>. QED
          BY <2>6, <4>1
      <3>. QED
        BY <2>7, <2>9, <3>1, <3>2
    <2>11. Len(f1) \in 0..2
      BY <2>7
    <2>12. Len(f1) = 2 => f1[1].type = "CREATE" /\ f1[2].type = "STOP_PROCESS"
      <3>. SUFFICES ASSUME Len(f1) = 2 PROVE f1[1].type = "CREATE" /\ f1[2].type = "STOP_PROCESS"
        OBVIOUS
      <3>1. l = 1 /\ 1 \in 1..l /\ l + 1 = 2
        BY <2>7
      <3>. QED
        BY <1>3, <2>7, <2>8, <3>1
    <2>. QED
      BY <2>10, <2>11, <2>12 DEF f1
  <1>10. TypeOK'
    <2>1. program' \in [pc : {"idle", "CREATE", "CALL", "STOP", "barrier", "done"},
                        to : Procs, actor : Actors \cup {NoActor}]
      BY <1>1 DEF Waiting, Procs
    <2>. QED
      BY <1>4, <1>8, <2>1 DEF LifeInv, TypeOK
  <1>11. UncreatedInv'
    BY <1>8 DEF LifeInv, UncreatedInv
  <1>12. ProgramInv'
    <2>1. ReplyInv'
      BY <1>7, <1>8 DEF ReplyInv
    <2>2. ASSUME NEW k \in Actors PROVE ActorInv(k)'
      <3>1. k \in Created => thread[k][HeadOf(k)] # "none"
        <4>1. k \in destroyed => thread[k][HeadOf(k)] = "done"
          BY DEF LifeInv, DestroyedInv, Gone
        <4>. QED
          BY <1>7, <4>1 DEF Alive
      <3>. QED
        BY <1>5, <1>6, <1>8, <3>1 DEF ActorInv, Asking, Over
    <2>. QED
      BY <1>6, <2>1, <2>2 DEF ProgramInv, Asking
  <1>13. CountInv'
    <2>1. ASSUME NEW k \in Created PROVE CountOf(k)'
      <3>1. Sent(k)' = Sent(k)
        <4>1. Sent(k)' = 0
          BY <1>6 DEF Sent
        <4>. QED
          BY <1>7, <4>1
      <3>. QED
        BY <1>8, <3>1, CountOfStays
    <2>. QED
      BY <1>5, <2>1 DEF CountInv
  <1>. QED
    BY <1>5, <1>9, <1>10, <1>11, <1>12, <1>13 DEF LifeInv

\* Every process is at the barrier.
LEMMA LeaveBarrierLife ==
    ASSUME LifeInv, LeaveBarrier
    PROVE  LifeInv'
  <1>1. /\ program.pc = "barrier" /\ \A q \in Ranks : server[q] = "barrier"
        /\ program' = Waiting("done", Client, NoActor) /\ program'.pc = "done"
    BY DEF LeaveBarrier, Waiting
  <1>2. /\ mgmt' = mgmt /\ reply' = reply /\ group' = group /\ destroyed' = destroyed /\ ncalls' = ncalls
        /\ server' = server /\ proxy' = proxy /\ answerStop' = answerStop
        /\ thread' = thread /\ syncs' = syncs /\ functions' = functions /\ queue' = queue /\ executed' = executed
    BY DEF LeaveBarrier, workers
  <1>3. /\ Created' = Created /\ Alive' = Alive
        /\ \A k : Members(k)' = Members(k) /\ HeadOf(k)' = HeadOf(k)
    BY <1>2, GroupFrame
  <1>4. TypeOK' /\ UncreatedInv'
    <2>1. program' \in [pc : {"idle", "CREATE", "CALL", "STOP", "barrier", "done"},
                        to : Procs, actor : Actors \cup {NoActor}]
      BY <1>1 DEF Waiting, Procs
    <2>. QED
      BY <1>2, <2>1 DEF LifeInv, TypeOK, UncreatedInv
  <1>5. GroupInv' /\ ThreadInv' /\ SyncInv' /\ SelfInv' /\ DestroyedInv'
    BY <1>2, GroupStays, ThreadsStay, SyncStays, SelfStays, DestroyedStay
  <1>6. ServerInv'
    <2>1. \A q \in Ranks : proxy[q] = NoActor
      BY <1>1 DEF LifeInv, ServerInv
    <2>. QED
      BY <1>1, <1>2, <2>1 DEF ServerInv
  <1>7. ProgramInv'
    <2>1. program.pc \notin Asking /\ program'.pc \notin Asking /\ program.pc \in Over /\ program'.pc \in Over
      BY <1>1 DEF Asking, Over
    <2>2. ReplyInv'
      BY <1>2, <2>1 DEF LifeInv, ProgramInv, ReplyInv
    <2>3. ASSUME NEW k \in Actors PROVE ActorInv(k)'
      <3>1. k \in Created => thread[k][HeadOf(k)] # "none"
        BY <2>1 DEF LifeInv, ProgramInv, ActorInv
      <3>. QED
        BY <1>1, <1>2, <1>3, <2>1, <3>1 DEF ActorInv
    <2>. QED
      BY <1>1, <1>2, <2>1, <2>2, <2>3 DEF ProgramInv
  <1>8. ClientInv'
    <2>1. ASSUME NEW q \in Ranks, NEW m \in Messages, FromProgram(q, m) PROVE FromProgram(q, m)'
      <3>1. \A k : CreateMsg(k)' = CreateMsg(k)
        BY <1>2 DEF CreateMsg
      <3>. QED
        BY <1>1, <1>2, <1>3, <2>1, <3>1 DEF FromProgram, Over
    <2>. QED
      BY <1>2, <2>1 DEF LifeInv, ClientInv
  <1>9. CountInv'
    <2>1. ASSUME NEW k \in Created PROVE CountOf(k)'
      <3>1. Sent(k)' = Sent(k)
        BY <1>1 DEF Sent
      <3>. QED
        BY <1>2, <3>1, CountOfStays
    <2>. QED
      BY <1>3, <2>1 DEF CountInv
  <1>. QED
    BY <1>4, <1>5, <1>6, <1>7, <1>8, <1>9 DEF LifeInv

\* The program gets the answer it waited for: its operation is over.
LEMMA ReceiveResponseLife ==
    ASSUME LifeInv, ReceiveResponse
    PROVE  LifeInv'
  <1>1. /\ program.pc \in Asking /\ reply[program.to] # << >>
        /\ reply' = [reply EXCEPT ![program.to] = Tail(@)]
        /\ destroyed' = IF program.pc = "STOP" THEN destroyed \cup {program.actor} ELSE destroyed
        /\ program' = Idle
    BY DEF ReceiveResponse, Asking
  <1>2. /\ mgmt' = mgmt /\ group' = group /\ ncalls' = ncalls
        /\ server' = server /\ proxy' = proxy /\ answerStop' = answerStop
        /\ thread' = thread /\ syncs' = syncs /\ functions' = functions /\ queue' = queue /\ executed' = executed
    BY DEF ReceiveResponse, workers
  <1>3. PICK n \in Actors : n = program.actor /\ ActorInv(n)
    BY <1>1 DEF LifeInv, ProgramInv
  <1>4. n \in Alive /\ n \in Created /\ program.to = HeadOf(n)
    BY <1>1, <1>3 DEF ActorInv, Alive
  <1>5. PICK p \in Ranks : p = HeadOf(n)
    BY <1>4, GroupFacts DEF LifeInv
  <1>6. reply[p] = <<program.pc>> /\ \A q \in Ranks : q # p => reply[q] = << >>
    BY <1>1, <1>4, <1>5 DEF LifeInv, ProgramInv, ReplyInv
  <1>7. reply' \in [Ranks -> Seq({"CREATE", "CALL", "STOP"})] /\ \A q \in Ranks : reply'[q] = << >>
    <2>1. Tail(<<program.pc>>) = << >>
      OBVIOUS
    <2>2. reply' = [reply EXCEPT ![p] = << >>]
      BY <1>1, <1>4, <1>5, <1>6, <2>1
    <2>3. << >> \in Seq({"CREATE", "CALL", "STOP"})
      OBVIOUS
    <2>. QED
      BY <1>6, <2>2, <2>3 DEF LifeInv, TypeOK
  <1>8. /\ Created' = Created
        /\ \A k : Members(k)' = Members(k) /\ HeadOf(k)' = HeadOf(k) /\ Slaves(k)' = Slaves(k)
    BY <1>2, GroupFrame
  <1>9. /\ destroyed' \subseteq Actors /\ destroyed \subseteq destroyed'
        /\ \A k \in destroyed' : k \in destroyed \/ (k = n /\ program.pc = "STOP")
        /\ program.pc = "STOP" => n \in destroyed'
    BY <1>1, <1>3 DEF LifeInv, TypeOK
  <1>10. Alive' = Created \ destroyed' /\ Alive' \subseteq Alive
    BY <1>8, <1>9 DEF Alive
  <1>11. program'.pc = "idle" /\ "idle" \notin Asking /\ "idle" \notin Over /\ program.pc \notin Over
    BY <1>1 DEF Idle, Asking, Over
  <1>12. \A k : (HeadReady(k)' <=> HeadReady(k)) /\ (Gone(k)' <=> Gone(k))
    BY <1>2, <1>8 DEF HeadReady, Gone, Leaving
  <1>13. program.pc = "STOP" => Gone(n)
    BY <1>3, <1>5, <1>6 DEF ActorInv
  <1>14. TypeOK'
    <2>1. program' \in [pc : {"idle", "CREATE", "CALL", "STOP", "barrier", "done"},
                        to : Procs, actor : Actors \cup {NoActor}]
      BY <1>1 DEF Idle, Procs
    <2>. QED
      BY <1>2, <1>7, <1>9, <2>1 DEF LifeInv, TypeOK
  <1>15. UncreatedInv'
    <2>1. \A k \in Actors : group[k] = << >> => k # n
      BY <1>4 DEF Created
    <2>2. \A k \in Actors : group[k] = << >> => k \notin destroyed'
      BY <1>9, <2>1 DEF LifeInv, UncreatedInv
    <2>. QED
      BY <1>2, <2>2 DEF LifeInv, UncreatedInv
  <1>16. GroupInv'
    BY <1>8, <1>10 DEF LifeInv, GroupInv
  <1>17. ThreadInv' /\ SyncInv' /\ SelfInv'
    BY <1>2, ThreadsStay, SyncStays, SelfStays
  <1>18. DestroyedInv'
    BY <1>4, <1>8, <1>9, <1>12, <1>13 DEF LifeInv, DestroyedInv
  <1>19. ServerInv'
    <2>1. \A k, q : /\ SlaveLeft(k, q)' <=> SlaveLeft(k, q)
                    /\ Leaving(k, q)' <=> Leaving(k, q)
                    /\ NoExit(k, q)' <=> NoExit(k, q)
      BY <1>2, <1>8 DEF SlaveLeft, Leaving, NoExit
    <2>2. ASSUME NEW q \in Ranks
          PROVE  server[q] \in {"run", "stop"} /\ (server[q] = "stop" => ~answerStop[q])
      <3>1. server[q] \in {"run", "stop", "cleanup", "barrier"}
        BY DEF LifeInv, TypeOK
      <3>2. server[q] \notin {"cleanup", "barrier"}
        BY <1>11 DEF LifeInv, ServerInv, Over
      <3>3. ASSUME server[q] = "stop", answerStop[q] PROVE FALSE
        <4>1. program.to = q /\ reply[q] = << >>
          BY <3>3 DEF LifeInv, ServerInv
        <4>. QED
          BY <1>1, <4>1
      <3>. QED
        BY <3>1, <3>2, <3>3
    <2>. SUFFICES ASSUME NEW q \in Ranks
                  PROVE  /\ server[q] \in {"stop", "cleanup"} => proxy[q] # NoActor
                         /\ (server[q] = "stop" /\ ~answerStop[q]) => \E k \in Created : SlaveLeft(k, q)
                         /\ \A k \in Created : (server[q] = "run" /\ proxy[q] = k /\ q = HeadOf(k)) =>
                               ~Leaving(k, q) /\ NoExit(k, q)
      BY <1>2, <1>8, <2>1, <2>2 DEF ServerInv
    <2>. QED
      BY DEF LifeInv, ServerInv
  <1>20. ProgramInv'
    <2>1. ReplyInv'
      BY <1>7 DEF ReplyInv
    <2>2. ASSUME NEW k \in Actors PROVE ActorInv(k)'
      <3>1. k \in Alive' => HeadReady(k)
        <4>. SUFFICES ASSUME k \in Alive' PROVE HeadReady(k)
          OBVIOUS
        <4>1. k \in Alive /\ k \notin destroyed'
          BY <1>10
        <4>2. HeadReady(k) \/ (program.pc \in {"CREATE", "STOP"} /\ program.actor = k)
          BY <1>11, <4>1 DEF LifeInv, ProgramInv, ActorInv
        <4>3. ASSUME program.pc \in {"CREATE", "STOP"}, program.actor = k PROVE HeadReady(k)
          <5>1. k = n /\ program.pc = "CREATE"
            BY <1>3, <1>9, <4>1, <4>3
          <5>. QED
            BY <1>3, <1>5, <1>6, <4>3, <5>1 DEF ActorInv
        <4>. QED
          BY <4>2, <4>3
      <3>2. HeadReady(k)' <=> HeadReady(k)
        BY <1>12
      <3>3. program'.pc = "idle" /\ program'.pc \notin Asking /\ program'.pc \notin Over
        BY <1>11
      <3>. QED
        BY <3>1, <3>2, <3>3 DEF ActorInv
    <2>. QED
      BY <1>11, <2>1, <2>2 DEF ProgramInv
  <1>21. ClientInv'
    <2>1. ASSUME NEW q \in Ranks, NEW m \in Messages, FromProgram(q, m) PROVE FromProgram(q, m)'
      <3>1. ~(program.to = q /\ reply[q] = << >>)
        BY <1>1
      <3>2. PICK k \in Alive : /\ m = CreateMsg(k) /\ q \in Members(k) /\ thread[k][q] = "none"
                               /\ q = HeadOf(k) => program.pc = "CREATE" /\ program.actor = k /\ reply[q] = << >>
        BY <1>11, <2>1, <3>1 DEF FromProgram
      <3>3. q # HeadOf(k)
        BY <1>3, <1>4, <3>1, <3>2
      <3>4. k \notin destroyed'
        <4>1. k = n => program.pc # "STOP"
          BY <1>13, <3>2 DEF Gone, Leaving
        <4>. QED
          BY <1>9, <4>1 DEF Alive
      <3>5. k \in Alive' /\ CreateMsg(k)' = CreateMsg(k)
        BY <1>2, <1>10, <3>4 DEF Alive, CreateMsg
      <3>. QED
        BY <1>2, <1>8, <3>2, <3>3, <3>5 DEF FromProgram
    <2>. QED
      BY <1>2, <2>1 DEF LifeInv, ClientInv
  <1>22. CountInv'
    <2>1. ASSUME NEW k \in Created PROVE CountOf(k)'
      <3>1. Sent(k)' = Sent(k)
        <4>1. Sent(k)' = 0
          BY <1>11 DEF Sent
        <4>2. Sent(k) = 0
          BY <1>1, <1>3, <1>4 DEF Sent
        <4>. QED
          BY <4>1, <4>2
      <3>. QED
        BY <1>2, <3>1, CountOfStays
    <2>. QED
      BY <1>8, <2>1 DEF CountInv
  <1>. QED
    BY <1>14, <1>15, <1>16, <1>17, <1>18, <1>19, <1>20, <1>21, <1>22 DEF LifeInv

\* The next actor is put on processes that no other one is on.
LEMMA CreateActorLife ==
    ASSUME LifeInv, NEW g \in Groups, CreateActor(g)
    PROVE  LifeInv'
  <1>. DEFINE P == {g[i] : i \in 1..Len(g)}
  <1>1. program = Idle
    BY DEF CreateActor
  <1>2. PICK n \in Actors \ Created :
            /\ \A k \in Alive : Members(k) \cap P = {}
            /\ group' = [group EXCEPT ![n] = g]
            /\ SendAll(Client, P, [type |-> "CREATE", actor |-> n, pids |-> g])
            /\ program' = Waiting("CREATE", g[1], n)
    BY DEF CreateActor
  <1>3. /\ reply' = reply /\ destroyed' = destroyed /\ ncalls' = ncalls
        /\ server' = server /\ proxy' = proxy /\ answerStop' = answerStop
        /\ thread' = thread /\ syncs' = syncs /\ functions' = functions /\ queue' = queue /\ executed' = executed
    BY DEF CreateActor, workers
  <1>4. PICK p \in Ranks : p = g[1] /\ p \in P /\ P \subseteq Ranks /\ g # << >>
    <2>1. g \in Seq(Ranks) /\ g # << >>
      OBVIOUS
    <2>2. Len(g) \in Nat /\ Len(g) >= 1
      BY <2>1, EmptyFacts
    <2>3. 1 \in 1..Len(g) /\ \A i \in 1..Len(g) : g[i] \in Ranks
      BY <2>1, <2>2
    <2>. QED
      BY <2>1, <2>3
  <1>5. /\ group' \in [Actors -> Groups \cup {<< >>}] /\ group'[n] = g /\ group[n] = << >>
        /\ \A k \in Actors : k # n => group'[k] = group[k]
    BY <1>2 DEF LifeInv, TypeOK, Created
  <1>6. Members(n)' = P /\ HeadOf(n)' = p
    BY <1>4, <1>5 DEF Members, HeadOf
  <1>. HIDE DEF P
  <1>7. \* nothing is known of n yet
        /\ n \notin destroyed /\ ncalls[n] = 0 /\ executed[n] = 0
        /\ \A q \in Ranks : /\ thread[n][q] = "none" /\ syncs[n][q] = 0
                            /\ queue[n][q] = << >> /\ functions[n][q] = << >> /\ proxy[q] # n
    <2>1. /\ n \notin destroyed /\ ncalls[n] = 0 /\ executed[n] = 0
          /\ \A q \in Ranks : /\ thread[n][q] = "none" /\ syncs[n][q] = 0
                              /\ queue[n][q] = << >> /\ functions[n][q] = << >>
      BY <1>5 DEF LifeInv, UncreatedInv
    <2>2. \A q \in Ranks : proxy[q] # n
      BY <2>1 DEF LifeInv, ThreadInv
    <2>. QED
      BY <2>1, <2>2
  <1>8. Created' = Created \cup {n} /\ n \notin Created /\ n \in Actors
    BY <1>4, <1>5 DEF Created
  <1>9. Alive' = Alive \cup {n} /\ n \notin Alive
    BY <1>3, <1>7, <1>8 DEF Alive
  <1>10. \A k \in Created : k # n /\ k \in Actors /\ HeadOf(k) \in Ranks /\ Members(k) \subseteq Ranks
    BY <1>8, GroupFacts DEF LifeInv
  <1>11. \A k \in Actors : k # n =>
            /\ Members(k)' = Members(k) /\ HeadOf(k)' = HeadOf(k) /\ Slaves(k)' = Slaves(k)
            /\ CreateMsg(k)' = CreateMsg(k)
    BY <1>5 DEF Members, HeadOf, Slaves, CreateMsg
  <1>12. \A k, q : (Leaving(k, q)' <=> Leaving(k, q)) /\ (NoExit(k, q)' <=> NoExit(k, q))
    BY <1>3 DEF Leaving, NoExit
  <1>13. \A q \in Ranks : ~Leaving(n, q)
    BY <1>7 DEF Leaving
  <1>14. /\ \A k \in Created, q \in Ranks : SlaveLeft(k, q)' <=> SlaveLeft(k, q)
         /\ \A q \in Ranks : ~SlaveLeft(n, q)'
         /\ \A k \in Created : (HeadReady(k)' <=> HeadReady(k)) /\ (Gone(k)' <=> Gone(k))
    <2>1. \A k \in Created, q \in Ranks : SlaveLeft(k, q)' <=> SlaveLeft(k, q)
      BY <1>3, <1>10, <1>11, <1>12 DEF SlaveLeft
    <2>2. \A q \in Ranks : ~SlaveLeft(n, q)'
      BY <1>3, <1>7 DEF SlaveLeft
    <2>3. \A k \in Created : (HeadReady(k)' <=> HeadReady(k)) /\ (Gone(k)' <=> Gone(k))
      BY <1>3, <1>10, <1>11, <1>12 DEF HeadReady, Gone
    <2>. QED
      BY <2>1, <2>2, <2>3
  <1>15. /\ \A q \in Ranks : reply[q] = << >>
         /\ \A q \in Ranks : server[q] \in {"run", "stop"} /\ (server[q] = "stop" => ~answerStop[q])
         /\ \A k \in Alive : HeadReady(k)
         /\ \A k : Sent(k) = 0
         /\ \A q \in Ranks, x \in Messages : FromProgram(q, x) =>
               \E k \in Alive : x = CreateMsg(k) /\ q \in Members(k) /\ q # HeadOf(k) /\ thread[k][q] = "none"
         /\ \A q \in Ranks : Len(mgmt[Client][q]) \in 0..1
    BY <1>1, IdleFacts
  <1>16. program'.pc = "CREATE" /\ program'.to = p /\ program'.actor = n
    BY <1>2, <1>4 DEF Waiting
  <1>. DEFINE m == [type |-> "CREATE", actor |-> n, pids |-> g]
  <1>17. m \in Messages
    BY MessagesSent
  <1>18. CreateMsg(n)' = m /\ SendAll(Client, P, m)
    BY <1>2, <1>5 DEF CreateMsg
  <1>. HIDE DEF m
  <1>19. /\ mgmt' \in [Procs -> [Ranks -> Seq(Messages)]]
         /\ \A q \in P : mgmt'[Client][q] = Append(mgmt[Client][q], m)
         /\ \A q \in Ranks : q \notin P => mgmt'[Client][q] = mgmt[Client][q]
         /\ \A c \in Ranks, q \in Ranks : mgmt'[c][q] = mgmt[c][q]
    <2>1. Client \in Procs /\ Ranks \subseteq Procs \ {Client} /\ TypeOK
      BY DEF Procs, LifeInv
    <2>2. PICK Q \in SUBSET Ranks : Q = P
      BY <1>4
    <2>3. SendAll(Client, Q, m)
      BY <1>18, <2>2
    <2>4. /\ mgmt' \in [Procs -> [Ranks -> Seq(Messages)]]
          /\ \A q \in Q : mgmt'[Client][q] = Append(mgmt[Client][q], m)
          /\ \A q \in Ranks \ Q : mgmt'[Client][q] = mgmt[Client][q]
          /\ \A d \in Procs \ {Client}, q \in Ranks : mgmt'[d][q] = mgmt[d][q]
      BY <1>17, <2>1, <2>3, SendAllEffect
    <2>. QED
      BY <2>1, <2>2, <2>4
  <1>20. TypeOK'
    <2>1. program' \in [pc : {"idle", "CREATE", "CALL", "STOP", "barrier", "done"},
                        to : Procs, actor : Actors \cup {NoActor}]
      BY <1>2, <1>4 DEF Waiting, Procs
    <2>. QED
      BY <1>3, <1>5, <1>19, <2>1 DEF LifeInv, TypeOK
  <1>21. UncreatedInv'
    <2>1. \A k \in Actors : group'[k] = << >> => group[k] = << >>
      BY <1>5
    <2>. QED
      BY <1>3, <2>1 DEF LifeInv, UncreatedInv
  <1>22. GroupInv'
    <2>. SUFFICES ASSUME NEW k \in Alive \cup {n}, NEW j \in Alive \cup {n}, k # j
                  PROVE  (Members(k)' \cap Members(j)') = {}
      BY <1>9 DEF GroupInv
    <2>1. \A i \in Alive : i # n /\ Members(i)' = Members(i)
      BY <1>10, <1>11 DEF Alive
    <2>2. CASE k = n
      BY <1>2, <1>6, <2>1, <2>2
    <2>3. CASE j = n
      BY <1>2, <1>6, <2>1, <2>3
    <2>4. CASE k # n /\ j # n
      BY <2>1, <2>4 DEF LifeInv, GroupInv
    <2>. QED
      BY <2>2, <2>3, <2>4
  <1>23. ThreadInv'
    <2>. SUFFICES ASSUME NEW k \in Actors, NEW q \in Ranks
                  PROVE  /\ thread[k][q] # "none" => k \in Created' /\ q \in Members(k)'
                         /\ thread[k][q] \notin {"none", "done"} => proxy[q] = k
                         /\ proxy[q] = k => thread[k][q] # "none"
                         /\ thread[k][q] \in {"asking", "answered"} => q = HeadOf(k)'
      BY <1>3 DEF ThreadInv
    <2>1. CASE k = n
      BY <1>7, <2>1
    <2>2. CASE k # n
      BY <1>8, <1>11, <2>2 DEF LifeInv, ThreadInv
    <2>. QED
      BY <2>1, <2>2
  <1>24. SyncInv'
    <2>1. ASSUME NEW k \in Created PROVE SyncOf(k)'
      BY <1>3, <1>5, <1>10, SyncOfStays
    <2>2. BarrierInv(n)'
      BY <1>3, <1>4, <1>6, <1>7 DEF BarrierInv, Early
    <2>3. BroadcastInv(n)'
      <3>. SUFFICES /\ \A q \in Ranks : functions[n][q] = << >>
                    /\ \A q \in Slaves(n)' :
                          /\ syncs[n][p] >= 1 /\ syncs[n][q] >= 1 =>
                                syncs[n][p] = syncs[n][q] + Len(functions[n][q])
                          /\ \A i \in 1..Len(functions[n][q]) :
                                functions[n][q][i] = 0 <=> (i = Len(functions[n][q]) /\ Leaving(n, p))
                          /\ Leaving(n, q) <=> (functions[n][q] = << >> /\ Leaving(n, p))
        BY <1>3, <1>6, <1>12 DEF BroadcastInv
      <3>1. \A q \in Slaves(n)' : q \in Ranks
        BY <1>4, <1>6 DEF Slaves
      <3>2. ASSUME NEW q \in Slaves(n)', NEW i \in 1..Len(functions[n][q]) PROVE FALSE
        <4>1. functions[n][q] = << >>
          BY <1>7, <3>1
        <4>2. Len(functions[n][q]) = 0
          BY <4>1
        <4>. QED
          BY <4>2
      <3>3. ~(0 >= 1)
        OBVIOUS
      <3>. QED
        BY <1>7, <1>13, <3>1, <3>2, <3>3
    <2>4. EndInv(n)'
      BY <1>3, <1>4, <1>6, <1>7 DEF EndInv
    <2>. QED
      BY <1>8, <2>1, <2>2, <2>3, <2>4 DEF SyncInv, SyncOf
  <1>25. SelfInv'
    <2>. SUFFICES ASSUME NEW q \in Ranks
                  PROVE  /\ \A d \in Ranks : d # q => mgmt[d][q] = << >>
                         /\ mgmt[q][q] \in {<< >>, <<GetMsg>>, <<StopMsg>>}
                         /\ mgmt[q][q] = <<GetMsg>> =>
                               \E k \in Created : proxy[q] = k /\ q = HeadOf(k) /\ thread[k][q] = "asking"
                         /\ mgmt[q][q] = <<StopMsg>> =>
                               \/ server[q] = "barrier"
                               \/ server[q] \in {"run", "cleanup"} /\ \E k \in Created : SlaveLeft(k, q)
                         /\ (server[q] = "run" /\ \E k \in Created : SlaveLeft(k, q)) => mgmt[q][q] = <<StopMsg>>
      <3>1. \A k \in Created : k \in Created' /\ HeadOf(k)' = HeadOf(k)
        BY <1>8, <1>10, <1>11
      <3>2. \A q \in Ranks : (\E k \in Created' : SlaveLeft(k, q)') <=> (\E k \in Created : SlaveLeft(k, q))
        BY <1>8, <1>14
      <3>3. \A d \in Ranks, q \in Ranks : mgmt'[d][q] = mgmt[d][q]
        BY <1>19
      <3>. QED
        BY <1>3, <3>1, <3>2, <3>3 DEF SelfInv
    <2>. QED
      BY DEF LifeInv, SelfInv
  <1>26. ServerInv'
    <2>. SUFFICES ASSUME NEW q \in Ranks
                  PROVE  /\ server[q] \in {"stop", "cleanup"} => proxy[q] # NoActor
                         /\ (server[q] = "stop" /\ ~answerStop[q]) => \E k \in Created : SlaveLeft(k, q)
                         /\ \A k \in Created : (server[q] = "run" /\ proxy[q] = k /\ q = HeadOf(k)) =>
                               ~Leaving(k, q) /\ NoExit(k, q)
      <3>1. \A k \in Created : k \in Created' /\ HeadOf(k)' = HeadOf(k)
        BY <1>8, <1>10, <1>11
      <3>2. \A q \in Ranks, k \in Created' : proxy[q] = k => k \in Created
        BY <1>7, <1>8
      <3>3. \A k \in Created, q \in Ranks : SlaveLeft(k, q)' <=> SlaveLeft(k, q)
        BY <1>14
      <3>. QED
        BY <1>3, <1>12, <1>15, <3>1, <3>2, <3>3 DEF ServerInv
    <2>. QED
      BY DEF LifeInv, ServerInv
  <1>27. ProgramInv'
    <2>1. ReplyInv'
      BY <1>3, <1>15 DEF ReplyInv
    <2>2. ActorInv(n)'
      BY <1>3, <1>4, <1>6, <1>7, <1>9, <1>15, <1>16 DEF ActorInv, Over
    <2>3. ASSUME NEW k \in Actors, k # n PROVE ActorInv(k)'
      <3>1. k \in Alive' => HeadReady(k)'
        <4>1. k \in Alive' => k \in Alive
          BY <1>9, <2>3
        <4>. QED
          BY <1>14, <1>15, <4>1 DEF Alive
      <3>. QED
        BY <1>16, <2>3, <3>1 DEF ActorInv, Over
    <2>. QED
      BY <1>8, <1>16, <2>1, <2>2, <2>3 DEF ProgramInv
  <1>28. ClientInv'
    <2>. SUFFICES ASSUME NEW q \in Ranks
                  PROVE  /\ \A i \in 1..Len(mgmt'[Client][q]), x \in Messages :
                               mgmt'[Client][q][i] = x => FromProgram(q, x)'
                         /\ Len(mgmt'[Client][q]) \in 0..2
                         /\ Len(mgmt'[Client][q]) = 2 =>
                               mgmt'[Client][q][1].type = "CREATE" /\ mgmt'[Client][q][2].type = "STOP_PROCESS"
      BY DEF ClientInv
    <2>1. CASE q \in P
      <3>. DEFINE f == mgmt[Client][q]
                  f1 == mgmt'[Client][q]
      <3>1. f \in Seq(Messages) /\ f1 = Append(f, m)
        BY <1>19, <2>1 DEF LifeInv, TypeOK, Procs
      <3>2. Len(f) \in 0..1
        BY <1>15
      <3>3. \A i \in 1..Len(f), x \in Messages : f[i] = x => FromProgram(q, x)
        BY DEF LifeInv, ClientInv
      <3>. HIDE DEF f, f1
      <3>4. ASSUME Len(f) = 1 PROVE FALSE
        <4>1. f[1] \in Messages /\ 1 \in 1..Len(f)
          BY <3>1, <3>4
        <4>2. FromProgram(q, f[1])
          BY <3>3, <4>1, Zenon
        <4>3. \A x \in Messages : FromProgram(q, x) => \E k \in Alive : q \in Members(k)
          BY <1>15
        <4>4. PICK k \in Alive : q \in Members(k)
          BY <4>1, <4>2, <4>3, Zenon
        <4>. QED
          BY <1>2, <2>1, <4>4
      <3>5. f = << >>
        BY <3>1, <3>2, <3>4, EmptyFacts
      <3>6. f1 = <<m>> /\ Len(f1) = 1 /\ f1[1] = m
        BY <1>17, <3>1, <3>5, AppendEmpty
      <3>7. FromProgram(q, m)'
        <4>1. n \in Alive' /\ m = CreateMsg(n)' /\ q \in Members(n)' /\ thread'[n][q] = "none" /\ reply'[q] = << >>
          BY <1>3, <1>6, <1>7, <1>9, <1>15, <1>18, <2>1
        <4>. QED
          BY <1>16, <4>1 DEF FromProgram
      <3>8. \A i \in 1..Len(f1) : f1[i] = m
        BY <3>6
      <3>9. Len(f1) \in 0..2 /\ Len(f1) # 2
        BY <3>6
      <3>. QED
        BY <3>7, <3>8, <3>9 DEF f1
    <2>2. CASE q \notin P
      <3>1. mgmt'[Client][q] = mgmt[Client][q]
        BY <1>19, <2>2
      <3>2. ASSUME NEW x \in Messages, FromProgram(q, x) PROVE FromProgram(q, x)'
        <4>1. PICK k \in Alive : x = CreateMsg(k) /\ q \in Members(k) /\ q # HeadOf(k) /\ thread[k][q] = "none"
          BY <1>15, <3>2
        <4>2. k \in Alive' /\ k \in Created
          BY <1>9 DEF Alive
        <4>3. CreateMsg(k)' = CreateMsg(k) /\ Members(k)' = Members(k) /\ HeadOf(k)' = HeadOf(k)
          BY <1>10, <1>11, <4>2
        <4>. QED
          BY <1>3, <4>1, <4>2, <4>3 DEF FromProgram
      <3>. QED
        BY <3>1, <3>2 DEF LifeInv, ClientInv
    <2>. QED
      BY <2>1, <2>2
  <1>29. CountInv'
    <2>1. \A k : Sent(k)' = 0
      BY <1>16 DEF Sent
    <2>2. ASSUME NEW k \in Created PROVE CountOf(k)'
      BY <1>3, <1>5, <1>10, <1>15, <2>1, CountOfStays
    <2>3. CountOf(n)'
      <3>1. HeadQueue(n)' = << >> /\ Len(<< >>) = 0
        BY <1>3, <1>6, <1>7 DEF HeadQueue
      <3>2. Busy(n)' = 0
        BY <1>3, <1>6, <1>7 DEF Busy
      <3>3. Exit(n)' = 0
        BY <3>1 DEF Exit
      <3>4. executed'[n] = 0 /\ ncalls'[n] = 0
        BY <1>3, <1>7
      <3>5. \A i \in 1..(0 - 1) : FALSE
        OBVIOUS
      <3>. QED
        BY <2>1, <3>1, <3>2, <3>3, <3>4, <3>5 DEF CountOf
    <2>. QED
      BY <1>8, <2>2, <2>3 DEF CountInv
  <1>30. DestroyedInv'
    BY <1>3, <1>8, <1>14 DEF LifeInv, DestroyedInv
  <1>. QED
    BY <1>20, <1>21, <1>22, <1>23, <1>24, <1>25, <1>26, <1>27, <1>28, <1>29, <1>30 DEF LifeInv

-----------------------------------------------------------------------------
(***************************************************************************)
(* The theorems.                                                           *)
(***************************************************************************)

\* The steps of a management thread and of the program.
LEMMA ServerStepLife ==
    ASSUME LifeInv, SlavesInOrder, NEW p \in Ranks, ServerStep(p)
    PROVE  LifeInv'
  BY HandleCreateLife, HandleCallLife, HandleStopLife, HandleStopProcessLife, HandleGetLife, EndStopLife,
     EndCleanupLife DEF ServerStep

LEMMA ProgramLife ==
    ASSUME LifeInv, ProgramAsks \/ ProgramContinues
    PROVE  LifeInv'
  BY CreateActorLife, CallActorLife, DestroyObjectLife, FinalizeLife, ReceiveResponseLife, LeaveBarrierLife
     DEF ProgramAsks, ProgramContinues

\* Nothing happens.
LEMMA StutterLife ==
    ASSUME LifeInv, UNCHANGED vars
    PROVE  LifeInv'
  <1>1. /\ mgmt' = mgmt /\ reply' = reply /\ program' = program /\ group' = group /\ destroyed' = destroyed
        /\ ncalls' = ncalls /\ server' = server /\ proxy' = proxy /\ answerStop' = answerStop
        /\ thread' = thread /\ syncs' = syncs /\ functions' = functions /\ queue' = queue /\ executed' = executed
    BY DEF vars
  <1>2. /\ Created' = Created /\ Alive' = Alive
        /\ \A k : Members(k)' = Members(k) /\ HeadOf(k)' = HeadOf(k) /\ Slaves(k)' = Slaves(k)
    BY <1>1, GroupFrame
  <1>3. TypeOK' /\ UncreatedInv'
    BY <1>1 DEF LifeInv, TypeOK, UncreatedInv
  <1>4. GroupInv' /\ ThreadInv' /\ SyncInv' /\ SelfInv' /\ DestroyedInv'
    BY <1>1, GroupStays, ThreadsStay, SyncStays, SelfStays, DestroyedStay
  <1>5. /\ \A k : (HeadReady(k)' <=> HeadReady(k)) /\ (Gone(k)' <=> Gone(k)) /\ CreateMsg(k)' = CreateMsg(k)
        /\ \A k, q : SlaveLeft(k, q)' <=> SlaveLeft(k, q)
        /\ \A k, q : Leaving(k, q)' <=> Leaving(k, q)
        /\ \A k, q : NoExit(k, q)' <=> NoExit(k, q)
    BY <1>1, <1>2 DEF HeadReady, Gone, Leaving, CreateMsg, SlaveLeft, NoExit
  <1>6. ServerInv'
    BY <1>1, <1>2, <1>5 DEF LifeInv, ServerInv
  <1>7. ProgramInv'
    <2>1. \A k \in Actors : ActorInv(k)'
      BY <1>1, <1>2, <1>5 DEF LifeInv, ProgramInv, ActorInv
    <2>. QED
      BY <1>1, <2>1 DEF LifeInv, ProgramInv, ReplyInv
  <1>8. ClientInv'
    <2>1. \A q \in Ranks, m \in Messages : FromProgram(q, m) => FromProgram(q, m)'
      BY <1>1, <1>2, <1>5 DEF FromProgram
    <2>. QED
      BY <1>1, <2>1 DEF LifeInv, ClientInv
  <1>9. CountInv'
    <2>1. ASSUME NEW k \in Created PROVE CountOf(k)'
      <3>1. Sent(k)' = Sent(k)
        BY <1>1, <1>2 DEF Sent
      <3>. QED
        BY <1>1, <3>1, CountOfStays
    <2>. QED
      BY <1>2, <2>1 DEF CountInv
  <1>. QED
    BY <1>3, <1>4, <1>6, <1>7, <1>8, <1>9 DEF LifeInv

\* Every step keeps the invariant.
LEMMA NextLife ==
    ASSUME LifeInv, SlavesInOrder, [Next]_vars
    PROVE  LifeInv'
  <1>1. CASE ProgramAsks \/ ProgramContinues
    BY <1>1, ProgramLife
  <1>2. CASE \E p \in Ranks : ServerStep(p)
    BY <1>2, ServerStepLife
  <1>3. CASE \E n \in Actors, p \in Ranks : ThreadStep(n, p)
    BY <1>3, ThreadStepLife
  <1>4. CASE UNCHANGED vars
    BY <1>4, StutterLife
  <1>. QED
    BY <1>1, <1>2, <1>3, <1>4 DEF Next, Done

\* The inductive invariant holds for every list of groups and every number of
\* actors and calls.
THEOREM LifeInductive ==
    ASSUME SlavesInOrder
    PROVE  Spec => []LifeInv
  <1>1. Init => LifeInv
    BY InitLife
  <1>2. LifeInv /\ [Next]_vars => LifeInv'
    BY NextLife
  <1>. QED
    BY <1>1, <1>2, PTL DEF Spec

\* Every variable of the program, the management threads and the workers keeps
\* its type; no actor executes more requests than the program may make.
THEOREM LifecycleTypes ==
    ASSUME SlavesInOrder
    PROVE  Spec => []TypeOK
  <1>1. LifeInv => TypeOK
    BY DEF LifeInv
  <1>. QED
    BY <1>1, LifeInductive, PTL

\* A management thread that takes a call or a stop off its channel has an
\* actor to call or to stop: handleCallActorMessage and handleStopActorMessage
\* never go through a null _actorWorkerProxy.
THEOREM CallsAndStopsFindTheActor ==
    ASSUME SlavesInOrder
    PROVE  Spec => []ActorIsThere
  <1>1. LifeInv => ActorIsThere
    <2>. SUFFICES ASSUME LifeInv, NEW p \in Ranks, NEW c \in Procs,
                         server[p] = "run", mgmt[c][p] # << >>, Head(mgmt[c][p]).type \in {"CALL", "STOP"}
                  PROVE  proxy[p] # NoActor
      BY DEF ActorIsThere
    <2>1. CASE c = Client
      <3>. DEFINE f == mgmt[Client][p]
                  m == Head(f)
      <3>1. f \in Seq(Messages) /\ f # << >>
        BY <2>1 DEF LifeInv, TypeOK, Procs
      <3>2. m \in Messages /\ m = f[1] /\ 1 \in 1..Len(f)
        BY <3>1, TailFacts
      <3>3. m.type \in {"CALL", "STOP"}
        BY <2>1
      <3>4. \A i \in 1..Len(f), x \in Messages : f[i] = x => FromProgram(p, x)
        BY DEF LifeInv, ClientInv
      <3>. HIDE DEF f, m
      <3>5. FromProgram(p, m)
        BY <3>2, <3>4, Zenon
      <3>6. /\ program.pc \in {"CALL", "STOP"} /\ program.to = p
            /\ program.pc = "STOP" => \A n \in Actors : program.actor = n => HeadReady(n)
        BY <3>2, <3>3, <3>5, MessageTells
      <3>7. PICK n \in Actors : n = program.actor /\ ActorInv(n)
        BY <3>6 DEF LifeInv, ProgramInv, Asking
      <3>8. n \in Alive /\ HeadOf(n) = p
        BY <3>6, <3>7 DEF ActorInv, Asking
      <3>9. HeadReady(n)
        BY <3>6, <3>7, <3>8 DEF ActorInv, Over
      <3>. QED
        BY <3>8, <3>9 DEF HeadReady, Actors, NoActor
    <2>2. CASE c \in Ranks
      <3>1. c = p
        BY <2>2 DEF LifeInv, SelfInv
      <3>2. mgmt[p][p] \in {<< >>, <<GetMsg>>, <<StopMsg>>}
        BY DEF LifeInv, SelfInv
      <3>3. mgmt[p][p] # <<GetMsg>>
        <4>1. Head(<<GetMsg>>).type = "GET"
          BY MessagesSent
        <4>. QED
          BY <3>1, <4>1
      <3>4. mgmt[p][p] = <<StopMsg>>
        BY <3>1, <3>2, <3>3
      <3>5. PICK n \in Created : SlaveLeft(n, p)
        BY <3>4 DEF LifeInv, SelfInv
      <3>. QED
        BY <3>5, GroupFacts DEF SlaveLeft, LifeInv
    <2>. QED
      BY <2>1, <2>2 DEF Procs
  <1>. QED
    BY <1>1, LifeInductive, PTL

\* Two actors never have workers on one process at a time.
THEOREM WorkersDoNotMeet ==
    ASSUME SlavesInOrder
    PROVE  Spec => []OneWorkerPerProcess
  <1>1. LifeInv => OneWorkerPerProcess
    BY DEF LifeInv, ThreadInv, OneWorkerPerProcess
  <1>. QED
    BY <1>1, LifeInductive, PTL

\* The management thread of a slave joins only a worker that is leaving.
THEOREM SlavesAreJoinedLeaving ==
    ASSUME SlavesInOrder
    PROVE  Spec => []StopFindsLeavingSlave
  <1>1. LifeInv => StopFindsLeavingSlave
    <2>. SUFFICES ASSUME LifeInv, NEW p \in Ranks, server[p] = "stop", p \in Slaves(proxy[p])
                  PROVE  thread[proxy[p]][p] \in {"leave", "done"}
      BY DEF StopFindsLeavingSlave
    <2>1. CASE answerStop[p]
      <3>1. program.pc = "STOP" /\ program.to = p /\ program.actor = proxy[p]
        BY <2>1 DEF LifeInv, ServerInv
      <3>2. PICK n \in Actors : n = program.actor /\ ActorInv(n)
        BY <3>1 DEF LifeInv, ProgramInv, Asking
      <3>3. p = HeadOf(n)
        BY <3>1, <3>2 DEF ActorInv, Asking
      <3>. QED
        BY <3>1, <3>2, <3>3 DEF Slaves
    <2>2. CASE ~answerStop[p]
      BY <2>2 DEF LifeInv, ServerInv, SlaveLeft, Leaving
    <2>. QED
      BY <2>1, <2>2
  <1>. QED
    BY <1>1, LifeInductive, PTL

\* When destroyObject returns, and when the program ends, every accepted call
\* was executed: the exit request is behind all of them.
THEOREM NoCallIsLost ==
    ASSUME SlavesInOrder
    PROVE  Spec => []CallsAreDrained
  <1>1. LifeInv => CallsAreDrained
    <2>. SUFFICES ASSUME LifeInv, NEW n \in Created, n \in destroyed \/ program.pc = "done"
                  PROVE  executed[n] = ncalls[n]
      BY DEF CallsAreDrained
    <2>1. n \in Actors /\ n # NoActor /\ HeadOf(n) \in Ranks
      BY GroupFacts DEF LifeInv
    <2>2. thread[n][HeadOf(n)] = "done" /\ Sent(n) = 0
      <3>1. CASE n \in destroyed
        <4>1. thread[n][HeadOf(n)] = "done"
          BY <3>1 DEF LifeInv, DestroyedInv, Gone
        <4>2. ~(program.pc = "CALL" /\ program.actor = n)
          BY <2>1, <3>1 DEF LifeInv, ProgramInv, ActorInv, Asking, Alive
        <4>. QED
          BY <4>1, <4>2 DEF Sent
      <3>2. CASE program.pc = "done"
        <4>1. thread[n][HeadOf(n)] # "none"
          BY <2>1, <3>2 DEF LifeInv, ProgramInv, ActorInv, Over
        <4>2. server[HeadOf(n)] = "barrier"
          BY <2>1, <3>2 DEF LifeInv, ProgramInv
        <4>3. proxy[HeadOf(n)] = NoActor
          BY <2>1, <4>2 DEF LifeInv, ServerInv
        <4>4. thread[n][HeadOf(n)] = "done"
          BY <2>1, <4>1, <4>3 DEF LifeInv, ThreadInv
        <4>. QED
          BY <3>2, <4>4 DEF Sent
      <3>. QED
        BY <3>1, <3>2
    <2>3. CountOf(n) /\ Off(n) /\ Busy(n) = 0
      BY <2>2 DEF LifeInv, CountInv, Off, Busy
    <2>4. HeadQueue(n) = << >> /\ Len(<< >>) = 0
      BY <2>3 DEF CountOf
    <2>5. Exit(n) = 0
      BY <2>4 DEF Exit
    <2>6. executed[n] + 0 + 0 + 0 = ncalls[n] + 0
      BY <2>2, <2>3, <2>4, <2>5 DEF CountOf
    <2>7. executed[n] \in Nat /\ ncalls[n] \in Nat
      BY <2>1 DEF LifeInv, TypeOK
    <2>. QED
      BY <2>6, <2>7
  <1>. QED
    BY <1>1, LifeInductive, PTL

\* When destroyObject returns, the worker of every process of the actor has
\* left its loop.
THEOREM DestructionReachesAll ==
    ASSUME SlavesInOrder
    PROVE  Spec => []DestroyedEverywhere
  <1>1. LifeInv => DestroyedEverywhere
    BY DEF LifeInv, DestroyedInv, Gone, Leaving, DestroyedEverywhere
  <1>. QED
    BY <1>1, LifeInductive, PTL

\* receiveResponseCode only ever finds the answer to the operation the program
\* waits for.
THEOREM AnswersMatch ==
    ASSUME SlavesInOrder
    PROVE  Spec => []ResponsesMatch
  <1>1. LifeInv => ResponsesMatch
    BY DEF LifeInv, ProgramInv, ReplyInv, ResponsesMatch
  <1>. QED
    BY <1>1, LifeInductive, PTL

=============================================================================
