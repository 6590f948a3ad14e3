------------------------------ MODULE Futures ------------------------------
(***************************************************************************)
(* Active calls, first-class futures and their release.                    *)
(*                                                                         *)
(* The program (rank 0, Client) calls methods of actors and receives a     *)
(* future for each call; it may pass a future it holds to another call,    *)
(* get its value and release it.  A process that owns an actor runs two    *)
(* threads: the management thread (ActorServer::run), which serves the     *)
(* messages of tag 0 one at a time, and the worker thread                  *)
(* (ActorWorker::master_loop), which executes the queued requests one at a *)
(* time and, when a request was given a future, is itself a caller of the  *)
(* management thread of the process that owns that future, which may be    *)
(* its own.                                                                *)
(*                                                                         *)
(* MPI orders the messages of one sender to one receiver with one tag and  *)
(* nothing else, so there is one FIFO channel per pair of processes and    *)
(* tag.  The answers of tag 1 carry no key: a caller takes the first one   *)
(* that comes from the process it asked.                                   *)
(*                                                                         *)
(* The data of a call is its ticket, the number of the call: a request     *)
(* returns its ticket, so a value tells the call it comes from.            *)
(***************************************************************************)
EXTENDS Integers, Sequences, FiniteSets

CONSTANTS
    Client,      \* rank 0, which runs the program
    Actors,      \* the head processes of the actors
    MaxCalls,    \* bound: calls the program makes
    Kinds,       \* the kinds of requests the program makes
    Operations,  \* what the program does with a future besides passing it on
    None         \* no data, no future, no outstanding question

Tickets    == 1..MaxCalls
Error      == 0                   \* the result of a function that is not registered
Values     == {Error} \cup Tickets
Keys       == 0..(MaxCalls - 1)   \* each call takes at most one key of its actor
FutureRefs == [at : Actors, key : Keys]

(***************************************************************************)
(* "value" returns at once; "get" and "consume" were given a future, get   *)
(* its value and, for "consume", release it; "unknown" names a function    *)
(* the actor does not have.                                                *)
(***************************************************************************)
UsesFuture == {"get", "consume"}
AllKinds   == UsesFuture \cup {"value", "unknown"}

ASSUME ClientAssumption == Client \notin Actors
ASSUME BoundAssumption  == MaxCalls \in Nat
ASSUME KindsAssumption  == Kinds \subseteq AllKinds
ASSUME OperationsAssumption == Operations \subseteq {"get", "release"}

Procs == Actors \cup {Client}

CallMsgs     ==
    {m \in [type : {"CALL"}, ticket : Tickets, kind : Kinds, arg : FutureRefs \cup {None}] :
        m.kind \in UsesFuture <=> m.arg # None}
GetMsgs      == [type : {"GET"}, key : Keys]
ReleaseMsgs  == [type : {"RELEASE"}, key : Keys]
RegisterMsgs == [type : {"REGISTER"}, key : Keys, value : Values]
Messages     == CallMsgs \cup GetMsgs \cup ReleaseMsgs \cup RegisterMsgs
Replies      == [type : {"KEY"}, value : Keys] \cup [type : {"DATA"}, value : Values]
Requests     == [key : Keys, msg : CallMsgs]
Questions    == [to : Actors, msg : CallMsgs \cup GetMsgs]

ASSUME NoneAssumption == None \notin Values \cup FutureRefs \cup Requests \cup Questions

\* What the function a request names computes.
ResultOf(m) == IF m.kind = "unknown" THEN Error ELSE m.ticket

VARIABLES
    mgmt,          \* mgmt[c][a]: messages of tag 0 from process c to process a
    reply,         \* reply[a][c]: messages of tag 1 from process a to process c
    wait,          \* wait[c]: the question process c is blocked on
    nextKey,       \* FutureKeyManager::_next of each process
    queue,         \* SharedMemoryRequestQueue::_messages
    store,         \* ActorServer::_futureDataStore
    pending,       \* ActorServer::_pendingFutureRequests
    askedDelete,   \* ActorServer::_askedFutureDelete, the keys marked true
    worker,        \* what the worker thread of each actor is doing
    ncalls,        \* calls made so far
    ticketOf,      \* the futures the program holds, with the call of each
    data,          \* Future::_data of the futures the program holds
    released,      \* history: which process sent a release of which future
    calls          \* history: the calls each actor accepted, in key order

tables == <<store, pending, askedDelete>>
program == <<ncalls, ticketOf, data>>
vars == <<mgmt, reply, wait, nextKey, queue, store, pending, askedDelete, worker,
          ncalls, ticketOf, data, released, calls>>

NotRunning == [pc |-> "idle", req |-> None, got |-> None]

Init ==
    /\ mgmt = [c \in Procs |-> [a \in Actors |-> << >>]]
    /\ reply = [a \in Actors |-> [c \in Procs |-> << >>]]
    /\ wait = [c \in Procs |-> None]
    /\ nextKey = [a \in Actors |-> 0]
    /\ queue = [a \in Actors |-> << >>]
    /\ store = [a \in Actors |-> [k \in Keys |-> None]]
    /\ pending = [a \in Actors |-> [k \in Keys |-> << >>]]
    /\ askedDelete = [a \in Actors |-> {}]
    /\ worker = [a \in Actors |-> NotRunning]
    /\ ncalls = 0
    /\ ticketOf = [f \in FutureRefs |-> None]
    /\ data = [f \in FutureRefs |-> None]
    /\ released = {}
    /\ calls = [a \in Actors |-> << >>]

-----------------------------------------------------------------------------
(***************************************************************************)
(* Sending and receiving.                                                  *)
(***************************************************************************)

\* MPIActorCommunicator::sendActorMessage.
Send(c, a, m) == mgmt' = [mgmt EXCEPT ![c][a] = Append(@, m)]

\* A process sends a question and blocks in MPI_Recv or MPI_Probe on the
\* process it asked.
Ask(c, a, m) ==
    /\ Send(c, a, m)
    /\ wait' = [wait EXCEPT ![c] = [to |-> a, msg |-> m]]

\* The blocked process takes the first message of tag 1 of the process it asked.
HasAnswer(c) == wait[c] # None /\ reply[wait[c].to][c] # << >>
Answer(c) == Head(reply[wait[c].to][c]).value
TakeAnswer(c) ==
    /\ HasAnswer(c)
    /\ reply' = [reply EXCEPT ![wait[c].to][c] = Tail(@)]
    /\ wait' = [wait EXCEPT ![c] = None]

\* The management thread of a receives a message of type t from c.
Receive(a, c, t) ==
    /\ mgmt[c][a] # << >>
    /\ Head(mgmt[c][a]).type = t
    /\ mgmt' = [mgmt EXCEPT ![c][a] = Tail(@)]

-----------------------------------------------------------------------------
(***************************************************************************)
(* The program.                                                            *)
(***************************************************************************)
ProgramRunning == wait[Client] = None
Holds(f) == ticketOf[f] # None

\* ProxyBase::active_call up to the wait for the response code.
ActiveCall(a, kind, arg) ==
    /\ ProgramRunning
    /\ ncalls < MaxCalls
    /\ IF kind \in UsesFuture THEN arg # None /\ Holds(arg) ELSE arg = None
    /\ ncalls' = ncalls + 1
    /\ Ask(Client, a, [type |-> "CALL", ticket |-> ncalls + 1, kind |-> kind, arg |-> arg])
    /\ UNCHANGED <<reply, nextKey, queue, tables, worker, ticketOf, data, released, calls>>

\* ProxyBase::active_call receives the key and makes the future.
ReceiveKey ==
    /\ wait[Client] # None
    /\ wait[Client].msg.type = "CALL"
    /\ TakeAnswer(Client)
    /\ ticketOf' = [ticketOf EXCEPT ![[at |-> wait[Client].to, key |-> Answer(Client)]] =
                        wait[Client].msg.ticket]
    /\ UNCHANGED <<mgmt, nextKey, queue, tables, worker, ncalls, data, released, calls>>

\* Future::get on a future whose data is not here yet.
GetFuture(f) ==
    /\ "get" \in Operations
    /\ ProgramRunning
    /\ Holds(f)
    /\ data[f] = None
    /\ Ask(Client, f.at, [type |-> "GET", key |-> f.key])
    /\ UNCHANGED <<reply, nextKey, queue, tables, worker, program, released, calls>>

\* Future::get receives the data and keeps it.
ReceiveData ==
    /\ wait[Client] # None
    /\ wait[Client].msg.type = "GET"
    /\ TakeAnswer(Client)
    /\ data' = [data EXCEPT ![[at |-> wait[Client].to, key |-> wait[Client].msg.key]] =
                    Answer(Client)]
    /\ UNCHANGED <<mgmt, nextKey, queue, tables, worker, ncalls, ticketOf, released, calls>>

\* FutureBase::release.  Bound: the program releases a future once.
ReleaseFuture(f) ==
    /\ "release" \in Operations
    /\ ProgramRunning
    /\ Holds(f)
    /\ <<Client, f>> \notin released
    /\ Send(Client, f.at, [type |-> "RELEASE", key |-> f.key])
    /\ released' = released \cup {<<Client, f>>}
    /\ UNCHANGED <<reply, wait, nextKey, queue, tables, worker, program, calls>>

-----------------------------------------------------------------------------
(***************************************************************************)
(* The management thread.                                                  *)
(***************************************************************************)

\* FutureKeyManager::takeKey.
TakeTwoKeys(a) == nextKey' = [nextKey EXCEPT ![a] = @ + 2]
TakeKey(a) == nextKey' = [nextKey EXCEPT ![a] = @ + 1]

\* MPIActorCommunicator::sendResponseCode.
ResponseCode(a, c, k) == [reply EXCEPT ![a][c] = Append(@, [type |-> "KEY", value |-> k])]

\* ActorServer::handleCallActorMessage.
HandleCall(a, c) ==
    /\ Receive(a, c, "CALL")
    /\ TakeKey(a)
    /\ queue' = [queue EXCEPT ![a] = Append(@, [key |-> nextKey[a], msg |-> Head(mgmt[c][a])])]
    /\ reply' = ResponseCode(a, c, nextKey[a])
    /\ calls' = [calls EXCEPT ![a] = Append(@, Head(mgmt[c][a]))]
    /\ UNCHANGED <<wait, tables, worker, program, released>>

\* ActorServer::handleGetFutureData, the data is in the store.
ServeGet(a, c) ==
    LET k == Head(mgmt[c][a]).key IN
    /\ Receive(a, c, "GET")
    /\ store[a][k] # None
    /\ reply' = [reply EXCEPT ![a][c] = Append(@, [type |-> "DATA", value |-> store[a][k]])]
    /\ UNCHANGED <<wait, nextKey, queue, tables, worker, program, released, calls>>

\* ActorServer::handleGetFutureData, the data is not in the store.
DeferGet(a, c) ==
    LET k == Head(mgmt[c][a]).key IN
    /\ Receive(a, c, "GET")
    /\ store[a][k] = None
    /\ pending' = [pending EXCEPT ![a][k] = Append(@, c)]
    /\ UNCHANGED <<reply, wait, nextKey, queue, store, askedDelete, worker, program, released, calls>>

\* ActorServer::handleReleaseFutureMessage.
HandleRelease(a, c) ==
    LET k == Head(mgmt[c][a]).key IN
    /\ Receive(a, c, "RELEASE")
    /\ store' = [store EXCEPT ![a][k] = None]
    /\ askedDelete' = IF store[a][k] # None THEN askedDelete
                      ELSE [askedDelete EXCEPT ![a] = @ \cup {k}]
    /\ UNCHANGED <<reply, wait, nextKey, queue, pending, worker, program, released, calls>>

\* Whether registerFuture drops the data at once: nobody waits for it and its
\* release came first.
ForgottenIfReleased(a, k) == k \in askedDelete[a]
Forgotten(a, k) == pending[a][k] = << >> /\ k \in askedDelete[a]

\* ActorServer::registerFuture, the data is dropped.
ForgetResult(a, c) ==
    LET k == Head(mgmt[c][a]).key IN
    /\ Receive(a, c, "REGISTER")
    /\ Forgotten(a, k)
    /\ askedDelete' = [askedDelete EXCEPT ![a] = @ \ {k}]
    /\ UNCHANGED <<reply, wait, nextKey, queue, store, pending, worker, program, released, calls>>

\* The answers the waiting processes of a future receive: one for each time
\* they are listed.
Times(c, waiting) == Cardinality({j \in DOMAIN waiting : waiting[j] = c})
SendToFirst(a, waiting, v) ==
    [reply EXCEPT ![a] =
        [c \in Procs |-> IF waiting # << >> /\ c = Head(waiting)
                         THEN Append(reply[a][c], [type |-> "DATA", value |-> v])
                         ELSE reply[a][c]]]
SendToWaiting(a, waiting, v) ==
    [reply EXCEPT ![a] =
        [c \in Procs |-> reply[a][c] \o
            [i \in 1..Times(c, waiting) |-> [type |-> "DATA", value |-> v]]]]

\* The list of waiting processes is erased once they are served.
StillListed(a, k) == pending
Unlisted(a, k) == [pending EXCEPT ![a][k] = << >>]

\* What is left in the store of data whose release may have come first.
AlwaysKept(a, k, v) == v
Kept(a, k, v) == IF k \in askedDelete[a] THEN None ELSE v

\* ActorServer::registerFuture in the other cases: store the data, send it to
\* the processes that wait for it, and drop it if its release came first.
\* No prefetch is under way in this module, so checkFutureRequired finds
\* nothing to do.
StoreResult(a, c) ==
    LET m == Head(mgmt[c][a])
        k == m.key
    IN
    /\ Receive(a, c, "REGISTER")
    /\ ~Forgotten(a, k)
    /\ reply' = SendToWaiting(a, pending[a][k], m.value)
    /\ pending' = Unlisted(a, k)
    /\ store' = [store EXCEPT ![a][k] = Kept(a, k, m.value)]
    /\ askedDelete' = [askedDelete EXCEPT ![a] = @ \ {k}]
    /\ UNCHANGED <<wait, nextKey, queue, worker, program, released, calls>>

-----------------------------------------------------------------------------
(***************************************************************************)
(* The worker thread (ActorWorker::master_loop).                           *)
(***************************************************************************)

\* The request queue is a queue: its front is taken and removed.
BackRequest(q) == q[Len(q)]
NextRequest(q) == Head(q)
NotRemoved(q) == q
Removed(q) == Tail(q)

\* SharedMemoryMasterProxy::getNextRequest.
TakeRequest(a) ==
    /\ worker[a].pc = "idle"
    /\ queue[a] # << >>
    /\ worker' = [worker EXCEPT ![a] = [pc |-> "run", req |-> NextRequest(queue[a]), got |-> None]]
    /\ queue' = [queue EXCEPT ![a] = Removed(@)]
    /\ UNCHANGED <<mgmt, reply, wait, nextKey, tables, program, released, calls>>

\* The function gets the value of the future it was given.
WorkerGet(a) ==
    LET m == worker[a].req.msg IN
    /\ worker[a].pc = "run"
    /\ m.kind \in UsesFuture
    /\ Ask(a, m.arg.at, [type |-> "GET", key |-> m.arg.key])
    /\ worker' = [worker EXCEPT ![a].pc = "blocked"]
    /\ UNCHANGED <<reply, nextKey, queue, tables, program, released, calls>>

\* The value has arrived.
WorkerReceive(a) ==
    /\ worker[a].pc = "blocked"
    /\ TakeAnswer(a)
    /\ worker' = [worker EXCEPT ![a] = [pc |-> "got", req |-> @.req, got |-> Answer(a)]]
    /\ UNCHANGED <<mgmt, nextKey, queue, tables, program, released, calls>>

\* The function releases the future it was given, once it has its value.
WorkerRelease(a) ==
    LET f == worker[a].req.msg.arg IN
    /\ worker[a].pc = "got"
    /\ worker[a].req.msg.kind = "consume"
    /\ Send(a, f.at, [type |-> "RELEASE", key |-> f.key])
    /\ worker' = [worker EXCEPT ![a].pc = "released"]
    /\ released' = released \cup {<<a, f>>}
    /\ UNCHANGED <<reply, wait, nextKey, queue, tables, program, calls>>

\* Whether the function of the current request has returned.
Finished(a) ==
    LET kind == worker[a].req.msg.kind IN
    \/ worker[a].pc = "run" /\ kind \notin UsesFuture
    \/ worker[a].pc = "got" /\ kind = "get"
    \/ worker[a].pc = "released"

\* The key a result is registered under is the one of the request, not the one
\* in the message, which active_call leaves at zero.
MessageKey(r) == 0
ResultKey(r) == r.key

\* LazyResultPublisher::publishResult: the worker sends the result to the
\* management thread of its own process.
Publish(a) ==
    LET r == worker[a].req IN
    /\ worker[a].pc # "idle"
    /\ Finished(a)
    /\ Send(a, a, [type |-> "REGISTER", key |-> ResultKey(r), value |-> ResultOf(r.msg)])
    /\ worker' = [worker EXCEPT ![a] = NotRunning]
    /\ UNCHANGED <<reply, wait, nextKey, queue, tables, program, released, calls>>

-----------------------------------------------------------------------------
ProgramAsks ==
    \/ \E a \in Actors, kind \in Kinds, arg \in FutureRefs \cup {None} : ActiveCall(a, kind, arg)
    \/ \E f \in FutureRefs : GetFuture(f) \/ ReleaseFuture(f)

ProgramReceives == ReceiveKey \/ ReceiveData

ServerStep(a) ==
    \E c \in Procs :
        \/ HandleCall(a, c)
        \/ ServeGet(a, c)
        \/ DeferGet(a, c)
        \/ HandleRelease(a, c)
        \/ ForgetResult(a, c)
        \/ StoreResult(a, c)

WorkerStep(a) ==
    \/ TakeRequest(a)
    \/ WorkerGet(a)
    \/ WorkerReceive(a)
    \/ WorkerRelease(a)
    \/ Publish(a)

Next ==
    \/ ProgramAsks
    \/ ProgramReceives
    \/ \E a \in Actors : ServerStep(a) \/ WorkerStep(a)

(***************************************************************************)
(* Both threads of a process keep running, and a blocked program takes the *)
(* answer that has arrived.  Nothing obliges the program to call, get or   *)
(* release.                                                                *)
(***************************************************************************)
Fairness ==
    /\ WF_vars(ProgramReceives)
    /\ \A a \in Actors : WF_vars(ServerStep(a)) /\ WF_vars(WorkerStep(a))

Spec == Init /\ [][Next]_vars
FairSpec == Spec /\ Fairness

-----------------------------------------------------------------------------
(***************************************************************************)
(* Properties.                                                             *)
(***************************************************************************)
WorkerStates ==
    [pc : {"idle", "run", "blocked", "got", "released"},
     req : Requests \cup {None}, got : Values \cup {None}]

\* The type of every variable.
TypeOK ==
    /\ mgmt \in [Procs -> [Actors -> Seq(Messages)]]
    /\ reply \in [Actors -> [Procs -> Seq(Replies)]]
    /\ wait \in [Procs -> Questions \cup {None}]
    /\ nextKey \in [Actors -> 0..MaxCalls]
    /\ queue \in [Actors -> Seq(Requests)]
    /\ store \in [Actors -> [Keys -> Values \cup {None}]]
    /\ pending \in [Actors -> [Keys -> Seq(Procs)]]
    /\ askedDelete \in [Actors -> SUBSET Keys]
    /\ worker \in [Actors -> WorkerStates]
    /\ ncalls \in 0..MaxCalls
    /\ ticketOf \in [FutureRefs -> Tickets \cup {None}]
    /\ data \in [FutureRefs -> Values \cup {None}]
    /\ released \subseteq Procs \X FutureRefs
    /\ calls \in [Actors -> Seq(CallMsgs)]

\* The three places the answer to a question of c to a can be owed from: the
\* question is the last message of c to a, or c is listed as waiting for the
\* future, or the answer is under way.
IsQuestion(m) == m.type \in {"CALL", "GET"}
InChannel(c, a) == mgmt[c][a] # << >> /\ IsQuestion(mgmt[c][a][Len(mgmt[c][a])])
Listed(c, a) == \E k \in Keys : \E i \in DOMAIN pending[a][k] : pending[a][k][i] = c
UnderWay(c, a) == reply[a][c] # << >>

\* A process that is not blocked is owed nothing by anybody.  A process that
\* is blocked is owed exactly one answer, by the process it asked: its
\* question is never lost, never answered twice, and never both listed and
\* answered (handleGetFutureData and registerFuture between them).
ExactlyOneAnswerOwed ==
    \A c \in Procs, a \in Actors :
        IF wait[c] = None \/ (wait[c] # None /\ wait[c].to # a)
        THEN ~InChannel(c, a) /\ ~Listed(c, a) /\ ~UnderWay(c, a)
        ELSE /\ InChannel(c, a) \/ Listed(c, a) \/ UnderWay(c, a)
             /\ ~(InChannel(c, a) /\ Listed(c, a))
             /\ ~(InChannel(c, a) /\ UnderWay(c, a))
             /\ ~(Listed(c, a) /\ UnderWay(c, a))
             /\ Len(reply[a][c]) <= 1

\* The answer under way to a process is the one to the question it asked: the
\* key of that very call, or the result of the call the future was made for.
RepliesMatch ==
    \A c \in Procs, a \in Actors : \A i \in 1..Len(reply[a][c]) :
        LET r == reply[a][c][i]  q == wait[c].msg IN
        /\ wait[c] # None
        /\ q.type = "CALL" => /\ r.type = "KEY"
                              /\ r.value < Len(calls[a])
                              /\ calls[a][r.value + 1] = q
        /\ q.type = "GET"  => /\ r.type = "DATA"
                              /\ q.key < Len(calls[a])
                              /\ r.value = ResultOf(calls[a][q.key + 1])

\* The value the program has obtained is the result of the future's call.
DataMatch ==
    \A f \in FutureRefs : data[f] # None =>
        /\ f.key < Len(calls[f.at])
        /\ calls[f.at][f.key + 1].ticket = ticketOf[f]
        /\ data[f] = ResultOf(calls[f.at][f.key + 1])

\* The value a function has obtained is the result of the future's call.
GotMatch ==
    \A a \in Actors : worker[a].got # None =>
        LET f == worker[a].req.msg.arg IN
        /\ f.key < Len(calls[f.at])
        /\ worker[a].got = ResultOf(calls[f.at][f.key + 1])

\* Answers carry no key, yet the answer that reaches a process is the one to
\* the question it asked, and the value it obtains is the right one.
AnswersMatch == RepliesMatch /\ DataMatch /\ GotMatch

\* The results of actor a that are on their way to its store: sent by the
\* worker to its management thread, being computed, or queued.
IsRegister(a, i) == mgmt[a][a][i].type = "REGISTER"
IsSent(a, k) == \E i \in 1..Len(mgmt[a][a]) : IsRegister(a, i) /\ mgmt[a][a][i].key = k
IsRunning(a, k) == worker[a].pc # "idle" /\ worker[a].req.key = k
IsQueued(a, k) == \E i \in 1..Len(queue[a]) : queue[a][i].key = k

ToBeRegistered(a, k) == IsSent(a, k) \/ IsRunning(a, k) \/ IsQueued(a, k)
ReleasedBySomebody(f) == \E c \in Procs : <<c, f>> \in released

\* The calls of actor a that were executed: those that left its queue, but
\* for the one that is running.
Executed(a) == nextKey[a] - Len(queue[a]) - (IF worker[a].pc = "idle" THEN 0 ELSE 1)

\* The requests queued are the last calls accepted, in the order of their
\* keys, and the one that is running comes just before them.
QueueOrder(a) ==
    /\ Executed(a) \in Nat
    /\ worker[a].pc # "idle" => worker[a].req.key = Executed(a)
    /\ \A i \in 1..Len(queue[a]) : queue[a][i].key = nextKey[a] - Len(queue[a]) + i - 1

\* Results travel in the order of their keys.
SentOrder(a) ==
    \A i, j \in 1..Len(mgmt[a][a]) :
        i < j /\ IsRegister(a, i) /\ IsRegister(a, j) => mgmt[a][a][i].key < mgmt[a][a][j].key

\* Of the results of the executed calls, the first r have been registered,
\* each is in the store unless its future was released, and the others are
\* under way and in no store.
RegisteredUpTo(a, r) ==
    /\ \A k \in Keys : IsSent(a, k) <=> (r <= k /\ k < Executed(a))
    /\ \A k \in Keys : k < r /\ store[a][k] = None => ReleasedBySomebody([at |-> a, key |-> k])
    /\ \A k \in Keys : r <= k => store[a][k] = None

\* Calls are executed once each and in the order of their keys: the keys that
\* are still to be registered are the last ones taken, in order, without gap
\* or repetition, and the result of every earlier one is in the store unless
\* its future was released.
PipelineOrder ==
    \A a \in Actors :
        /\ QueueOrder(a)
        /\ SentOrder(a)
        /\ \E r \in 0..Executed(a) : RegisteredUpTo(a, r)

\* Nobody is left listed as waiting for data that is already there, and a
\* process that is listed will be served: the result is still to be
\* registered, or the future was released before the process asked.
ListedWillBeServed ==
    \A a \in Actors, k \in Keys : pending[a][k] # << >> =>
        /\ store[a][k] = None
        /\ \/ ToBeRegistered(a, k)
           \/ ReleasedBySomebody([at |-> a, key |-> k])

\* When the result of a call reaches the management thread, everybody listed
\* for it is answered in that very step, also when the future was released
\* between the question and the result.
ResultServesListed ==
    [][\A a \in Actors, k \in Keys :
          ToBeRegistered(a, k) /\ ~ToBeRegistered(a, k)' =>
              /\ pending'[a][k] = << >>
              /\ \A i \in DOMAIN pending[a][k] : reply'[a][pending[a][k][i]] # << >>]_vars

\* The runtime implements active objects: calls resolve in the order they
\* were accepted and no process sees another value than the resolved one.
Published(a) ==
    {k \in 0..(nextKey[a] - 1) : ~IsRunning(a, k) /\ ~IsQueued(a, k)}
View(c) ==
    IF c = Client
    THEN {[at |-> f.at, key |-> f.key, value |-> data[f]] : f \in {g \in FutureRefs : data[g] # None}}
    ELSE IF worker[c].got = None THEN {}
         ELSE LET f == worker[c].req.msg.arg
              IN {[at |-> f.at, key |-> f.key, value |-> worker[c].got]}

AO == INSTANCE ActiveObjects WITH
        Calls <- CallMsgs, Value <- ResultOf,
        resolved <- [a \in Actors |-> Published(a)],
        view <- [c \in Procs |-> View(c)]

ImplementsActiveObjects == AO!AOSpec

\* The program is never left waiting for the key of a call.
CallsAccepted == (wait[Client] # None /\ wait[Client].msg.type = "CALL") ~> (wait[Client] = None)

\* Somebody asked for a future after its data was released: nothing will
\* answer it any more, and a worker that asked executes nothing any more.
UsedAfterRelease ==
    \E f \in FutureRefs :
        /\ pending[f.at][f.key] # << >>
        /\ ~ToBeRegistered(f.at, f.key)
        /\ ReleasedBySomebody(f)

\* A get returns, wherever it is made and whatever the order in which the
\* question, the result and the release reach the management thread, unless
\* somebody uses a future after its release.
Gets(c, f) == wait[c] # None /\ wait[c].to = f.at /\ wait[c].msg = [type |-> "GET", key |-> f.key]
GetsReturn ==
    \A c \in Procs, f \in FutureRefs : Gets(c, f) ~> (~Gets(c, f) \/ UsedAfterRelease)

\* A caller that is blocked, in active_call or in get, goes on, unless
\* somebody uses a future after its release.
CallersReturn == CallsAccepted /\ GetsReturn

\* A worker waits for a call that is queued or running at actor b.
WaitsFor(a, b) ==
    /\ worker[a].pc = "blocked" /\ worker[a].req.msg.arg.at = b
    /\ \/ IsRunning(b, worker[a].req.msg.arg.key)
       \/ IsQueued(b, worker[a].req.msg.arg.key)

\* Futures are passed to calls of the same actor and around cycles of actors,
\* and a function blocks its worker while it waits for one (master_loop); yet
\* workers never wait for each other in a cycle, nor one for a request that is
\* queued behind its own.
NoWaitCycle ==
    \A W \in (SUBSET Actors) \ {{}} : \E a \in W : \A b \in W : ~ WaitsFor(a, b)

\* The data of a released future does not stay in the store, even when the
\* release comes before the result or while somebody waits for it.
ReleasedAreCollected ==
    \A f \in FutureRefs :
        ReleasedBySomebody(f) ~> [](store[f.at][f.key] = None)

-----------------------------------------------------------------------------
(***************************************************************************)
(* The inductive invariant behind ExactlyOneAnswerOwed and AnswersMatch.   *)
(***************************************************************************)

\* A worker is blocked exactly while it waits for the future of its request.
WorkerInv ==
    \A a \in Actors :
        /\ worker[a].pc = "idle" <=> worker[a].req = None
        /\ worker[a].pc \notin {"got", "released"} => worker[a].got = None
        /\ worker[a].pc \notin {"idle", "run"} => worker[a].req.msg.kind \in UsesFuture
        /\ wait[a] = IF worker[a].pc # "blocked" THEN None
                     ELSE [to |-> worker[a].req.msg.arg.at,
                           msg |-> [type |-> "GET", key |-> worker[a].req.msg.arg.key]]

\* A question is the last message of its sender, who is blocked on it; only
\* the program calls, only the worker of a process registers there.
ChannelInv ==
    \A c \in Procs, a \in Actors : \A i \in 1..Len(mgmt[c][a]) :
        LET m == mgmt[c][a][i] IN
        /\ IsQuestion(m) => i = Len(mgmt[c][a]) /\ wait[c] = [to |-> a, msg |-> m]
        /\ m.type = "CALL" => c = Client
        /\ m.type = "REGISTER" => c = a

\* A listed process is listed once, is blocked on that future, and its
\* question and its answer are not under way.
PendingInv ==
    \A a \in Actors, k \in Keys : \A i \in 1..Len(pending[a][k]) :
        LET c == pending[a][k][i] IN
        /\ wait[c] = [to |-> a, msg |-> [type |-> "GET", key |-> k]]
        /\ \A j \in 1..Len(pending[a][k]) : pending[a][k][j] = c => j = i
        /\ ~InChannel(c, a)
        /\ reply[a][c] = << >>

\* An answer goes to a process blocked on its sender, whose question is gone.
ReplyInv ==
    \A a \in Actors, c \in Procs : reply[a][c] # << >> =>
        /\ Len(reply[a][c]) = 1
        /\ wait[c] # None /\ wait[c].to = a
        /\ ~InChannel(c, a)

\* A blocked process is owed an answer.
OwedInv ==
    \A c \in Procs : wait[c] # None =>
        LET a == wait[c].to IN InChannel(c, a) \/ Listed(c, a) \/ UnderWay(c, a)

\* Every call takes one key of one actor.
KeyInv ==
    \A a \in Actors :
        /\ nextKey[a] = Len(calls[a])
        /\ nextKey[a] <= ncalls
        /\ (InChannel(Client, a) /\ wait[Client].msg.type = "CALL") => nextKey[a] < ncalls

\* Whether m is the call with key k of actor a.
IsCall(a, k, m) == k < Len(calls[a]) /\ calls[a][k + 1] = m
\* Whether v is the result of the call with key k of actor a.
IsResult(a, k, v) == k < Len(calls[a]) /\ v = ResultOf(calls[a][k + 1])

\* Requests are the calls of their keys.
QueueInv ==
    \A a \in Actors : \A i \in 1..Len(queue[a]) : IsCall(a, queue[a][i].key, queue[a][i].msg)
RunningInv ==
    \A a \in Actors : worker[a].pc # "idle" => IsCall(a, worker[a].req.key, worker[a].req.msg)

\* Results under way or stored are the results of the calls of their keys.
ResultsInv ==
    \A c \in Procs, a \in Actors : \A i \in 1..Len(mgmt[c][a]) :
        mgmt[c][a][i].type = "REGISTER" => IsResult(a, mgmt[c][a][i].key, mgmt[c][a][i].value)
StoreInv ==
    \A a \in Actors, k \in Keys : store[a][k] # None => IsResult(a, k, store[a][k])

\* The futures the program holds were made for the calls of their keys.
TicketInv ==
    \A f \in FutureRefs : ticketOf[f] # None =>
        f.key < Len(calls[f.at]) /\ calls[f.at][f.key + 1].ticket = ticketOf[f]

ValueInv == QueueInv /\ RunningInv /\ ResultsInv /\ StoreInv /\ TicketInv

\* The futures whose data the program is asking for or has are futures it holds.
HoldsInv ==
    /\ \A f \in FutureRefs : data[f] # None => ticketOf[f] # None
    /\ wait[Client] # None /\ wait[Client].msg.type = "GET" =>
        ticketOf[[at |-> wait[Client].to, key |-> wait[Client].msg.key]] # None

IndInv ==
    /\ TypeOK /\ WorkerInv /\ ChannelInv /\ PendingInv /\ ReplyInv /\ OwedInv
    /\ KeyInv /\ ValueInv /\ HoldsInv /\ AnswersMatch

-----------------------------------------------------------------------------
(***************************************************************************)
(* The inductive invariant behind PipelineOrder, ListedWillBeServed and    *)
(* the refinement of ActiveObjects.                                        *)
(***************************************************************************)

\* A release that is under way, or that came before the result, was sent.
ReleaseInv ==
    /\ \A c \in Procs, a \in Actors : \A i \in 1..Len(mgmt[c][a]) :
        mgmt[c][a][i].type = "RELEASE" => <<c, [at |-> a, key |-> mgmt[c][a][i].key]>> \in released
    /\ \A a \in Actors : \A k \in askedDelete[a] : ReleasedBySomebody([at |-> a, key |-> k])

\* A future is only passed to a call once its own call was accepted.
KnownKey(f) == f.key < nextKey[f.at]
ArgumentInv ==
    /\ \A a \in Actors : \A i \in 1..Len(calls[a]) : calls[a][i].arg # None => KnownKey(calls[a][i].arg)
    /\ wait[Client] # None /\ wait[Client].msg.type = "CALL" =>
        (wait[Client].msg.arg # None => KnownKey(wait[Client].msg.arg))

\* Nobody is listed beside data that is there.
ListedInv == \A a \in Actors, k \in Keys : pending[a][k] # << >> => store[a][k] = None

\* The answer under way to a get is the result of an executed call.
ServedInv ==
    \A a \in Actors, c \in Procs :
        reply[a][c] # << >> /\ wait[c].msg.type = "GET" => wait[c].msg.key < Executed(a)

PipelineInv ==
    PipelineOrder /\ ReleaseInv /\ ArgumentInv /\ ListedInv /\ ServedInv

-----------------------------------------------------------------------------
(***************************************************************************)
(* The inductive invariant behind NoWaitCycle: tickets follow the order in *)
(* which the program calls, and a call is given futures of earlier calls.  *)
(***************************************************************************)
GivenEarlier(cs, m) ==
    m.arg # None => /\ m.arg.key < Len(cs[m.arg.at])
                    /\ cs[m.arg.at][m.arg.key + 1].ticket < m.ticket

AcceptedBefore(cs, n) == \A a \in Actors : \A i \in 1..Len(cs[a]) : cs[a][i].ticket < n

Calling == wait[Client] # None /\ wait[Client].msg.type = "CALL"

TicketOrderInv ==
    /\ AcceptedBefore(calls, ncalls + 1)
    /\ \A a \in Actors : \A i, j \in 1..Len(calls[a]) : i < j => calls[a][i].ticket < calls[a][j].ticket
    /\ \A a \in Actors : \A i \in 1..Len(calls[a]) : GivenEarlier(calls, calls[a][i])
    /\ Calling => /\ wait[Client].msg.ticket = ncalls /\ GivenEarlier(calls, wait[Client].msg)
                  /\ \A a \in Actors : InChannel(Client, a) => AcceptedBefore(calls, ncalls)
=============================================================================
