----------------------------- MODULE Lifecycle -----------------------------
(***************************************************************************)
(* Creation, use and destruction of actors that span several processes,    *)
(* and the end of the program.                                             *)
(*                                                                         *)
(* An actor is created on a list of processes, the first of which is its   *)
(* head.  Each of them starts a worker thread; the head's executes the     *)
(* requests and makes the others, the slaves, execute SPMD functions with  *)
(* it.  The program destroys an actor with a message to its head only: the *)
(* head's worker tells the slaves to leave, and every slave tells its own  *)
(* management thread.  A management thread that stops an actor joins the   *)
(* worker thread and serves nothing while it does.                         *)
(*                                                                         *)
(* What a request computes and its future are the matter of Futures.tla.   *)
(***************************************************************************)
EXTENDS Integers, Sequences

CONSTANTS
    Client,      \* rank 0, which runs the program
    Ranks,       \* the other processes
    Groups,      \* the lists of processes the program creates actors on
    MaxActors,   \* bound: actors the program creates
    MaxCalls,    \* bound: calls the program makes to one actor
    Kinds,       \* the kinds of requests the program makes
    Overtaking   \* the processes where a message of another process may overtake
                 \* one the process sent to itself earlier: MPI orders neither

(***************************************************************************)
(* "plain" is executed by the head alone; "spmd" runs a function with one  *)
(* bsp_sync on every process of the actor; "ask" asks the management       *)
(* thread of the head something and waits for the answer, as the get of a  *)
(* future of the actor itself does.                                        *)
(***************************************************************************)
ASSUME ClientAssumption     == Client \notin Ranks
ASSUME GroupsAssumption     == /\ \A g \in Groups : g \in Seq(Ranks) /\ g # << >>
                               /\ \A g \in Groups : \A i, j \in 1..Len(g) : g[i] = g[j] => i = j
ASSUME BoundsAssumption     == MaxActors \in Nat /\ MaxCalls \in Nat
ASSUME KindsAssumption      == Kinds \subseteq {"plain", "spmd", "ask"}
ASSUME OvertakingAssumption == Overtaking \subseteq Ranks

Actors == 1..MaxActors    \* actors in the order of their creation
NoActor == 0

Procs == Ranks \cup {Client}
Messages ==
    [type : {"CREATE"}, actor : Actors, pids : Groups]
    \cup [type : {"CALL"}, kind : Kinds]
    \cup [type : {"STOP"}, answer : BOOLEAN]
    \cup [type : {"STOP_PROCESS", "GET"}]
Requests == Kinds \cup {"exit"}

VARIABLES
    mgmt,        \* mgmt[c][p]: messages of tag 0 from process c to process p
    reply,       \* reply[p]: response codes from process p to the program, by what they answer
    program,     \* what the program is doing: [pc, to, actor]
    group,       \* group[n]: the processes of actor n, empty when it is not created
    destroyed,   \* the actors whose destruction the program was told of
    ncalls,      \* ncalls[n]: the calls of actor n the program made
    server,      \* what each management thread is doing
    proxy,       \* ActorServer::_actorWorkerProxy: the actor it stands for
    answerStop,  \* who waits for the end of the stop the management thread is at
    thread,      \* thread[n][p]: what the worker thread of actor n at p is doing
    syncs,       \* syncs[n][p]: the barriers that thread has entered
    queue,       \* queue[n][p]: the requests posted to it
    functions,   \* functions[n][p]: the function ids broadcast to it
    executed     \* executed[n]: the requests of actor n that were executed

workers == <<thread, syncs, functions, executed>>
vars == <<mgmt, reply, program, group, destroyed, ncalls, server, proxy, answerStop,
          thread, syncs, queue, functions, executed>>

Idle == [pc |-> "idle", to |-> Client, actor |-> NoActor]
Waiting(what, p, n) == [pc |-> what, to |-> p, actor |-> n]

Init ==
    /\ mgmt = [c \in Procs |-> [p \in Ranks |-> << >>]]
    /\ reply = [p \in Ranks |-> << >>]
    /\ program = Idle
    /\ group = [n \in Actors |-> << >>]
    /\ destroyed = {}
    /\ ncalls = [n \in Actors |-> 0]
    /\ server = [p \in Ranks |-> "run"]
    /\ proxy = [p \in Ranks |-> NoActor]
    /\ answerStop = [p \in Ranks |-> FALSE]
    /\ thread = [n \in Actors |-> [p \in Ranks |-> "none"]]
    /\ syncs = [n \in Actors |-> [p \in Ranks |-> 0]]
    /\ queue = [n \in Actors |-> [p \in Ranks |-> << >>]]
    /\ functions = [n \in Actors |-> [p \in Ranks |-> << >>]]
    /\ executed = [n \in Actors |-> 0]

-----------------------------------------------------------------------------
(***************************************************************************)
(* The processes of an actor.                                              *)
(***************************************************************************)
Members(n) == {group[n][i] : i \in 1..Len(group[n])}
HeadOf(n) == group[n][1]
Slaves(n) == Members(n) \ {HeadOf(n)}
Created == {n \in Actors : group[n] # << >>}
Alive == Created \ destroyed

Send(c, p, m) == mgmt' = [mgmt EXCEPT ![c][p] = Append(@, m)]
SendAll(c, P, m) ==
    mgmt' = [mgmt EXCEPT ![c] = [p \in Ranks |-> IF p \in P THEN Append(@[p], m) ELSE @[p]]]

-----------------------------------------------------------------------------
(***************************************************************************)
(* The program.                                                            *)
(***************************************************************************)

\* createActiveObject, askCreateActor: every process is told, the head answers.
CreateActor(g) ==
    /\ program = Idle
    /\ \E n \in Actors \ Created :
        /\ \A k \in Actors : k < n => k \in Created
        /\ \A k \in Alive : Members(k) \cap {g[i] : i \in 1..Len(g)} = {}
        /\ group' = [group EXCEPT ![n] = g]
        /\ SendAll(Client, {g[i] : i \in 1..Len(g)}, [type |-> "CREATE", actor |-> n, pids |-> g])
        /\ program' = Waiting("CREATE", g[1], n)
    /\ UNCHANGED <<reply, destroyed, ncalls, server, proxy, answerStop, workers, queue>>

\* ProxyBase::active_call.
CallActor(n, kind) ==
    /\ program = Idle
    /\ n \in Alive
    /\ ncalls[n] < MaxCalls
    /\ ncalls' = [ncalls EXCEPT ![n] = @ + 1]
    /\ Send(Client, HeadOf(n), [type |-> "CALL", kind |-> kind])
    /\ program' = Waiting("CALL", HeadOf(n), n)
    /\ UNCHANGED <<reply, group, destroyed, server, proxy, answerStop, workers, queue>>

\* Who is told of the destruction: the head.
ToldToAll(n) == Members(n)
ToldToStop(n) == {HeadOf(n)}

\* ProxyBase::destroyObject.
DestroyObject(n) ==
    /\ program = Idle
    /\ n \in Alive
    /\ SendAll(Client, ToldToStop(n), [type |-> "STOP", answer |-> TRUE])
    /\ program' = Waiting("STOP", HeadOf(n), n)
    /\ UNCHANGED <<reply, group, destroyed, ncalls, server, proxy, answerStop, workers, queue>>

\* receiveResponseCode, the end of the three operations above.
ReceiveResponse ==
    /\ program.pc \in {"CREATE", "CALL", "STOP"}
    /\ reply[program.to] # << >>
    /\ reply' = [reply EXCEPT ![program.to] = Tail(@)]
    /\ destroyed' = IF program.pc = "STOP" THEN destroyed \cup {program.actor} ELSE destroyed
    /\ program' = Idle
    /\ UNCHANGED <<mgmt, group, ncalls, server, proxy, answerStop, workers, queue>>

\* activebsp_finalize up to the barrier; actors may still be alive.
Finalize ==
    /\ program = Idle
    /\ SendAll(Client, Ranks, [type |-> "STOP_PROCESS"])
    /\ program' = Waiting("barrier", Client, NoActor)
    /\ UNCHANGED <<reply, group, destroyed, ncalls, server, proxy, answerStop, workers, queue>>

\* Every process is at the barrier before MPI_Finalize.
LeaveBarrier ==
    /\ program.pc = "barrier"
    /\ \A p \in Ranks : server[p] = "barrier"
    /\ program' = Waiting("done", Client, NoActor)
    /\ UNCHANGED <<mgmt, reply, group, destroyed, ncalls, server, proxy, answerStop, workers, queue>>

Done == program.pc = "done" /\ UNCHANGED vars

-----------------------------------------------------------------------------
(***************************************************************************)
(* The management thread (ActorServer::run).                               *)
(*                                                                         *)
(* A call or a stop that finds no actor goes through a null pointer: the   *)
(* process is lost and its management thread takes no further step.        *)
(***************************************************************************)

\* The message the management thread of p receives next, from c.  Without
\* overtaking, what a process sent itself is received before what another
\* process sent later; a message sent earlier can still be received before
\* the process sends to itself.
Receive(p, c, type) ==
    /\ server[p] = "run"
    /\ mgmt[c][p] # << >>
    /\ Head(mgmt[c][p]).type = type
    /\ p \in Overtaking \/ c = p \/ mgmt[p][p] = << >>
    /\ mgmt' = [mgmt EXCEPT ![c][p] = Tail(@)]

\* Only the head answers the creation.
EverybodyAnswers(p, pids) == TRUE
AnswersCreation(p, pids) == p = pids[1]

\* handleCreateActorMessage: a proxy and a thread for the actor; the head answers.
HandleCreate(p, c) ==
    LET m == Head(mgmt[c][p]) IN
    /\ Receive(p, c, "CREATE")
    /\ proxy' = [proxy EXCEPT ![p] = m.actor]
    /\ thread' = [thread EXCEPT ![m.actor][p] = "start"]
    /\ reply' = IF AnswersCreation(p, m.pids) THEN [reply EXCEPT ![p] = Append(@, "CREATE")] ELSE reply
    /\ UNCHANGED <<program, group, destroyed, ncalls, server, answerStop, syncs, queue,
                   functions, executed>>

\* handleCallActorMessage: post the request, answer with its key.
HandleCall(p, c) ==
    /\ Receive(p, c, "CALL")
    /\ proxy[p] # NoActor
    /\ queue' = [queue EXCEPT ![proxy[p]][p] = Append(@, Head(mgmt[c][p]).kind)]
    /\ reply' = [reply EXCEPT ![p] = Append(@, "CALL")]
    /\ UNCHANGED <<program, group, destroyed, ncalls, server, proxy, answerStop, workers>>

\* ThreadedActorWorkerProxy::stopActor up to pthread_join.
PostNothing(p) == queue' = queue
PostExitFirst(p) == queue' = [queue EXCEPT ![proxy[p]][p] = <<"exit">> \o @]
PostExit(p) == queue' = [queue EXCEPT ![proxy[p]][p] = Append(@, "exit")]

\* handleStopActorMessage up to pthread_join.
HandleStop(p, c) ==
    /\ Receive(p, c, "STOP")
    /\ proxy[p] # NoActor
    /\ PostExit(p)
    /\ server' = [server EXCEPT ![p] = "stop"]
    /\ answerStop' = [answerStop EXCEPT ![p] = Head(mgmt[c][p]).answer]
    /\ UNCHANGED <<reply, program, group, destroyed, ncalls, proxy, workers>>

\* The pthread_join of stopActor returns.
NotJoined(p) == TRUE
Joined(p) == thread[proxy[p]][p] = "done"

\* handleStopActorMessage after pthread_join.
EndStop(p) ==
    /\ server[p] = "stop"
    /\ Joined(p)
    /\ proxy' = [proxy EXCEPT ![p] = NoActor]
    /\ server' = [server EXCEPT ![p] = "run"]
    /\ reply' = IF answerStop[p] THEN [reply EXCEPT ![p] = Append(@, "STOP")] ELSE reply
    /\ answerStop' = [answerStop EXCEPT ![p] = FALSE]
    /\ UNCHANGED <<mgmt, program, group, destroyed, ncalls, workers, queue>>

\* The answer to a question of the worker: its own management thread sends it.
HandleGet(p) ==
    /\ Receive(p, p, "GET")
    /\ \E n \in Actors :
        /\ thread[n][p] = "asking"
        /\ thread' = [thread EXCEPT ![n][p] = "answered"]
    /\ UNCHANGED <<reply, program, group, destroyed, ncalls, server, proxy, answerStop, syncs,
                   queue, functions, executed>>

\* handleStopActorProcessMessage and the end of run: an actor that is still
\* there is stopped before the process goes to the barrier.
HandleStopProcess(p, c) ==
    /\ Receive(p, c, "STOP_PROCESS")
    /\ IF proxy[p] = NoActor
       THEN server' = [server EXCEPT ![p] = "barrier"] /\ UNCHANGED queue
       ELSE server' = [server EXCEPT ![p] = "cleanup"] /\ PostExit(p)
    /\ UNCHANGED <<reply, program, group, destroyed, ncalls, proxy, answerStop, workers>>

EndCleanup(p) ==
    /\ server[p] = "cleanup"
    /\ Joined(p)
    /\ proxy' = [proxy EXCEPT ![p] = NoActor]
    /\ server' = [server EXCEPT ![p] = "barrier"]
    /\ UNCHANGED <<mgmt, reply, program, group, destroyed, ncalls, answerStop, workers, queue>>

-----------------------------------------------------------------------------
(***************************************************************************)
(* The worker threads.                                                     *)
(***************************************************************************)

\* A thread enters a barrier of its actor, and can leave it when every
\* process of the actor has entered it.
EnterSync(n, p) == syncs' = [syncs EXCEPT ![n][p] = @ + 1]
CanLeaveSync(n, p) == \A q \in Members(n) : syncs[n][q] >= syncs[n][p]

\* MPI_Bcast of a function id by the head.
BroadcastShifted(n, id) ==
    functions' = [functions EXCEPT ![n] =
        [p \in Ranks |-> IF p \in Slaves(n) THEN Append(@[p], id + 1) ELSE @[p]]]
BroadcastToOthers(n, id) ==
    functions' = IF id = 0 THEN functions ELSE [functions EXCEPT ![n] =
        [p \in Ranks |-> IF p \in Slaves(n) THEN Append(@[p], id) ELSE @[p]]]
Broadcast(n, id) ==
    functions' = [functions EXCEPT ![n] =
        [p \in Ranks |-> IF p \in Slaves(n) THEN Append(@[p], id) ELSE @[p]]]

\* createBSPlib and the constructor of ActorBase up to its bsp_sync.
StartThread(n, p) ==
    /\ thread[n][p] = "start"
    /\ thread' = [thread EXCEPT ![n][p] = "construct"]
    /\ EnterSync(n, p)
    /\ UNCHANGED <<mgmt, reply, program, group, destroyed, ncalls, server, proxy, answerStop,
                   queue, functions, executed>>

\* The actor is constructed: ActorWorker::handler enters its loop.
EnterLoop(n, p) ==
    /\ thread[n][p] = "construct"
    /\ CanLeaveSync(n, p)
    /\ thread' = [thread EXCEPT ![n][p] = "loop"]
    /\ UNCHANGED <<mgmt, reply, program, group, destroyed, ncalls, server, proxy, answerStop,
                   syncs, queue, functions, executed>>

\* The head takes its next request.
Takes(n, p, r) ==
    /\ thread[n][p] = "loop"
    /\ p = HeadOf(n)
    /\ queue[n][p] # << >>
    /\ Head(queue[n][p]) = r
    /\ queue' = [queue EXCEPT ![n][p] = Tail(@)]

\* master_loop executes a request on the head alone.
ExecutePlain(n, p) ==
    /\ Takes(n, p, "plain")
    /\ executed' = [executed EXCEPT ![n] = @ + 1]
    /\ UNCHANGED <<mgmt, reply, program, group, destroyed, ncalls, server, proxy, answerStop,
                   thread, syncs, functions>>

\* bsp_run: the head broadcasts the function id and runs the function up to its bsp_sync.
ExecuteSpmd(n, p) ==
    /\ Takes(n, p, "spmd")
    /\ Broadcast(n, 1)
    /\ EnterSync(n, p)
    /\ thread' = [thread EXCEPT ![n][p] = "function"]
    /\ UNCHANGED <<mgmt, reply, program, group, destroyed, ncalls, server, proxy, answerStop,
                   executed>>

\* slave_loop receives a function id and runs the function up to its bsp_sync.
SlaveFunction(n, p) ==
    /\ thread[n][p] = "loop"
    /\ functions[n][p] # << >>
    /\ Head(functions[n][p]) = 1
    /\ functions' = [functions EXCEPT ![n][p] = Tail(@)]
    /\ EnterSync(n, p)
    /\ thread' = [thread EXCEPT ![n][p] = "function"]
    /\ UNCHANGED <<mgmt, reply, program, group, destroyed, ncalls, server, proxy, answerStop,
                   queue, executed>>

\* The function returns; on the head this ends the request.
EndFunction(n, p) ==
    /\ thread[n][p] = "function"
    /\ CanLeaveSync(n, p)
    /\ thread' = [thread EXCEPT ![n][p] = "loop"]
    /\ executed' = IF p = HeadOf(n) THEN [executed EXCEPT ![n] = @ + 1] ELSE executed
    /\ UNCHANGED <<mgmt, reply, program, group, destroyed, ncalls, server, proxy, answerStop,
                   syncs, queue, functions>>

\* A function asks the management thread of its own process and waits.
ExecuteAsk(n, p) ==
    /\ Takes(n, p, "ask")
    /\ Send(p, p, [type |-> "GET"])
    /\ thread' = [thread EXCEPT ![n][p] = "asking"]
    /\ UNCHANGED <<reply, program, group, destroyed, ncalls, server, proxy, answerStop,
                   syncs, functions, executed>>

EndAsk(n, p) ==
    /\ thread[n][p] = "answered"
    /\ thread' = [thread EXCEPT ![n][p] = "loop"]
    /\ executed' = [executed EXCEPT ![n] = @ + 1]
    /\ UNCHANGED <<mgmt, reply, program, group, destroyed, ncalls, server, proxy, answerStop,
                   syncs, queue, functions>>

\* destroyMasterObject: the slave sends a stop to its own management thread.
StopTwice(p) == [mgmt EXCEPT ![p][p] = @ \o << [type |-> "STOP", answer |-> FALSE],
                                               [type |-> "STOP", answer |-> FALSE] >>]
StopOwnProcess(p) == [mgmt EXCEPT ![p][p] = Append(@, [type |-> "STOP", answer |-> FALSE])]

\* destroyActor: every process but the head stops its own management thread.
StopsItself(n, p) == p # HeadOf(n)
DestroyActor(n, p) ==
    /\ mgmt' = IF StopsItself(n, p) THEN StopOwnProcess(p) ELSE mgmt
    /\ EnterSync(n, p)
    /\ thread' = [thread EXCEPT ![n][p] = "leave"]

\* master_loop takes the exit request; destroyActor tells the slaves and
\* enters the last bsp_sync.
KillSlaves(n, p) ==
    /\ Takes(n, p, "exit")
    /\ Broadcast(n, 0)
    /\ DestroyActor(n, p)
    /\ UNCHANGED <<reply, program, group, destroyed, ncalls, server, proxy, answerStop, executed>>

\* slave_loop receives function id 0; destroyActor sends a stop to the
\* management thread of its own process and enters the last bsp_sync.
SlaveLeaves(n, p) ==
    /\ thread[n][p] = "loop"
    /\ functions[n][p] # << >>
    /\ Head(functions[n][p]) = 0
    /\ functions' = [functions EXCEPT ![n][p] = Tail(@)]
    /\ DestroyActor(n, p)
    /\ UNCHANGED <<reply, program, group, destroyed, ncalls, server, proxy, answerStop,
                   queue, executed>>

\* The thread ends after the last bsp_sync.
EndThread(n, p) ==
    /\ thread[n][p] = "leave"
    /\ CanLeaveSync(n, p)
    /\ thread' = [thread EXCEPT ![n][p] = "done"]
    /\ UNCHANGED <<mgmt, reply, program, group, destroyed, ncalls, server, proxy, answerStop,
                   syncs, queue, functions, executed>>

-----------------------------------------------------------------------------
ProgramAsks ==
    \/ \E g \in Groups : CreateActor(g)
    \/ \E n \in Actors, kind \in Kinds : CallActor(n, kind)
    \/ \E n \in Actors : DestroyObject(n)
    \/ Finalize

ProgramContinues == ReceiveResponse \/ LeaveBarrier

ServerStep(p) ==
    \/ \E c \in Procs : \/ HandleCreate(p, c)
                        \/ HandleCall(p, c)
                        \/ HandleStop(p, c)
                        \/ HandleStopProcess(p, c)
    \/ HandleGet(p)
    \/ EndStop(p)
    \/ EndCleanup(p)

ThreadStep(n, p) ==
    \/ StartThread(n, p) \/ EnterLoop(n, p)
    \/ ExecutePlain(n, p) \/ ExecuteSpmd(n, p) \/ SlaveFunction(n, p) \/ EndFunction(n, p)
    \/ ExecuteAsk(n, p) \/ EndAsk(n, p)
    \/ KillSlaves(n, p) \/ SlaveLeaves(n, p) \/ EndThread(n, p)

Next ==
    \/ ProgramAsks
    \/ ProgramContinues
    \/ \E p \in Ranks : ServerStep(p)
    \/ \E n \in Actors, p \in Ranks : ThreadStep(n, p)
    \/ Done

(***************************************************************************)
(* Every thread keeps running and the program takes the answers it waits   *)
(* for.  Nothing obliges it to make or to destroy actors.                  *)
(***************************************************************************)
Fairness ==
    /\ WF_vars(ProgramContinues)
    /\ \A p \in Ranks : WF_vars(ServerStep(p))
    /\ \A n \in Actors, p \in Ranks : WF_vars(ThreadStep(n, p))

Spec == Init /\ [][Next]_vars
FairSpec == Spec /\ Fairness

-----------------------------------------------------------------------------
(***************************************************************************)
(* Properties.                                                             *)
(***************************************************************************)
ThreadStates ==
    {"none", "start", "construct", "loop", "function", "asking", "answered", "leave", "done"}

\* The type of every variable.
TypeOK ==
    /\ mgmt \in [Procs -> [Ranks -> Seq(Messages)]]
    /\ reply \in [Ranks -> Seq({"CREATE", "CALL", "STOP"})]
    /\ program \in [pc : {"idle", "CREATE", "CALL", "STOP", "barrier", "done"},
                    to : Procs, actor : Actors \cup {NoActor}]
    /\ group \in [Actors -> Groups \cup {<< >>}]
    /\ destroyed \subseteq Actors
    /\ ncalls \in [Actors -> 0..MaxCalls]
    /\ server \in [Ranks -> {"run", "stop", "cleanup", "barrier"}]
    /\ proxy \in [Ranks -> Actors \cup {NoActor}]
    /\ answerStop \in [Ranks -> BOOLEAN]
    /\ thread \in [Actors -> [Ranks -> ThreadStates]]
    /\ syncs \in [Actors -> [Ranks -> Nat]]
    /\ queue \in [Actors -> [Ranks -> Seq(Requests)]]
    /\ functions \in [Actors -> [Ranks -> Seq({0, 1})]]
    /\ executed \in [Actors -> 0..MaxCalls]

\* A management thread that comes to a call or to a stop has an actor to
\* call or to stop: the slaves' stops and the program's calls, stops and
\* creations never meet in a wrong order.
ActorIsThere ==
    \A p \in Ranks, c \in Procs :
        (server[p] = "run" /\ mgmt[c][p] # << >> /\ Head(mgmt[c][p]).type \in {"CALL", "STOP"}
         /\ (p \in Overtaking \/ c = p \/ mgmt[p][p] = << >>)) => proxy[p] # NoActor

\* A process never runs the workers of two actors, not even while the first
\* is on its way out: they would share one BSPlib.
OneWorkerPerProcess ==
    \A p \in Ranks : \A n, k \in Actors :
        (thread[n][p] \notin {"none", "done"} /\ thread[k][p] \notin {"none", "done"}) => n = k

\* The management thread of a slave joins its worker only when the worker is
\* leaving, so it does not stop serving while the actor is in use.
StopFindsLeavingSlave ==
    \A p \in Ranks :
        (server[p] = "stop" /\ p \in Slaves(proxy[p])) => thread[proxy[p]][p] \in {"leave", "done"}

\* When destroyObject returns, and when the program ends, every call that
\* was accepted has been executed.
CallsAreDrained ==
    \A n \in Created :
        (n \in destroyed \/ program.pc = "done") => executed[n] = ncalls[n]

\* When destroyObject returns, no process of the actor executes any more.
DestroyedEverywhere ==
    \A n \in destroyed : \A p \in Members(n) : thread[n][p] \in {"leave", "done"}

\* A response code reaches the program only while it waits for it, and is
\* the one to the operation it waits for.
ResponsesMatch ==
    \A p \in Ranks : reply[p] # << >> => program.to = p /\ reply[p] = <<program.pc>>

\* A management thread waits for a worker that waits for that very
\* management thread.
JoinsAsker ==
    \E p \in Ranks :
        server[p] \in {"stop", "cleanup"} /\ thread[proxy[p]][p] = "asking"

\* Creations, calls and destructions return, unless an actor is destroyed
\* while a request asks its own management thread.
OperationsReturn ==
    program.pc \in {"CREATE", "CALL", "STOP"} ~> (program = Idle \/ JoinsAsker)

\* The program ends once it is finalized, whether or not its actors were
\* destroyed, unless a request asks its own management thread at that time.
ProgramEnds == program.pc = "barrier" ~> (program.pc = "done" \/ JoinsAsker)
=============================================================================
