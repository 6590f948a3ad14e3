---------------------------- MODULE RequestQueue ----------------------------
(***************************************************************************)
(* SharedMemoryRequestQueue: the queue through which the management thread *)
(* hands requests to the worker thread of its process, protected by one    *)
(* mutex and one condition variable.                                       *)
(*                                                                         *)
(* Every pthread call is a step of its own, so that all interleavings of   *)
(* the threads are there.  pthread_cond_wait releases the mutex and blocks *)
(* in one step; a thread that waits is woken by a signal or by nothing at  *)
(* all, and has to take the mutex again before it goes on.                 *)
(***************************************************************************)
EXTENDS Integers, Sequences

CONSTANTS
    Posters,     \* the threads that post; the runtime has one per queue
    Worker,      \* the thread that takes
    MaxPosts,    \* bound: requests each poster posts
    Free         \* nobody holds the mutex

ASSUME WorkerAssumption   == Worker \notin Posters
ASSUME FreeAssumption     == Free \notin Posters \cup {Worker}
ASSUME MaxPostsAssumption == MaxPosts \in Nat

Threads  == Posters \cup {Worker}
Requests == [by : Posters, n : 1..MaxPosts]

VARIABLES
    lock,        \* SharedMemoryRequestQueue::_lock, the thread that holds it
    messages,    \* SharedMemoryRequestQueue::_messages
    pc,          \* where each thread is
    posted,      \* the requests each poster has posted
    taken,       \* the requests the worker has received, oldest first
    size         \* the number of requests the worker was last told, less those it took since

vars == <<lock, messages, pc, posted, taken, size>>

Init ==
    /\ lock = Free
    /\ messages = << >>
    /\ pc = [t \in Threads |-> "idle"]
    /\ posted = [p \in Posters |-> 0]
    /\ taken = << >>
    /\ size = 0

-----------------------------------------------------------------------------
\* pthread_mutex_lock by a thread that goes on at step next.
Lock(t, next) ==
    /\ lock = Free
    /\ lock' = t
    /\ pc' = [pc EXCEPT ![t] = next]

\* pthread_mutex_unlock, the last step of every operation.
Unlock(t) ==
    /\ lock' = Free
    /\ pc' = [pc EXCEPT ![t] = "idle"]

-----------------------------------------------------------------------------
(***************************************************************************)
(* postMessage.                                                            *)
(***************************************************************************)
PostLock(p) ==
    /\ pc[p] = "idle"
    /\ posted[p] < MaxPosts
    /\ Lock(p, "push")
    /\ UNCHANGED <<messages, posted, taken, size>>

PostPush(p) ==
    /\ pc[p] = "push"
    /\ messages' = Append(messages, [by |-> p, n |-> posted[p] + 1])
    /\ posted' = [posted EXCEPT ![p] = @ + 1]
    /\ pc' = [pc EXCEPT ![p] = "signal"]
    /\ UNCHANGED <<lock, taken, size>>

\* pthread_cond_signal wakes the worker if it waits.
SignalLost(p) == [pc EXCEPT ![p] = "unlock"]
Signalled(p) ==
    [pc EXCEPT ![p] = "unlock", ![Worker] = IF @ = "wait" THEN "woken" ELSE @]

PostSignal(p) ==
    /\ pc[p] = "signal"
    /\ pc' = Signalled(p)
    /\ UNCHANGED <<lock, messages, posted, taken, size>>

PostUnlock(p) ==
    /\ pc[p] = "unlock"
    /\ Unlock(p)
    /\ UNCHANGED <<messages, posted, taken, size>>

-----------------------------------------------------------------------------
(***************************************************************************)
(* getNextMessage.                                                         *)
(***************************************************************************)
GetLock ==
    /\ pc[Worker] = "idle"
    /\ Lock(Worker, "check")
    /\ UNCHANGED <<messages, posted, taken, size>>

\* The queue is empty: pthread_cond_wait gives the mutex back and blocks.
ReleasesMutex == Free
GetWait ==
    /\ pc[Worker] = "check"
    /\ messages = << >>
    /\ lock' = ReleasesMutex
    /\ pc' = [pc EXCEPT ![Worker] = "wait"]
    /\ UNCHANGED <<messages, posted, taken, size>>

\* A wait may return without a signal.
SpuriousWakeup ==
    /\ pc[Worker] = "wait"
    /\ pc' = [pc EXCEPT ![Worker] = "woken"]
    /\ UNCHANGED <<lock, messages, posted, taken, size>>

\* Where a wait that returns goes on: the condition is looked at again.
NotCheckedAgain == "pop"
AfterWait == "check"

GetWake ==
    /\ pc[Worker] = "woken"
    /\ Lock(Worker, AfterWait)
    /\ UNCHANGED <<messages, posted, taken, size>>

GetLeaveLoop ==
    /\ pc[Worker] = "check"
    /\ messages # << >>
    /\ pc' = [pc EXCEPT ![Worker] = "pop"]
    /\ UNCHANGED <<lock, messages, posted, taken, size>>

\* The front is copied and removed.
Back(q) == q[Len(q)]
Front(q) == Head(q)
GetPop ==
    /\ pc[Worker] = "pop"
    /\ taken' = Append(taken, Front(messages))
    /\ messages' = Tail(messages)
    /\ size' = IF size = 0 THEN 0 ELSE size - 1
    /\ pc' = [pc EXCEPT ![Worker] = "unlock"]
    /\ UNCHANGED <<lock, posted>>

-----------------------------------------------------------------------------
(***************************************************************************)
(* getNPendingRequests, and isEmpty, which compares the size with zero.    *)
(***************************************************************************)
SizeLock ==
    /\ pc[Worker] = "idle"
    /\ Lock(Worker, "size")
    /\ UNCHANGED <<messages, posted, taken, size>>

\* What the worker is told.
CountedTaken == Len(messages) + Len(taken)
Pending == Len(messages)
SizeRead ==
    /\ pc[Worker] = "size"
    /\ size' = Pending
    /\ pc' = [pc EXCEPT ![Worker] = "unlock"]
    /\ UNCHANGED <<lock, messages, posted, taken>>

WorkerUnlock ==
    /\ pc[Worker] = "unlock"
    /\ Unlock(Worker)
    /\ UNCHANGED <<messages, posted, taken, size>>

-----------------------------------------------------------------------------
PosterStep(p) == PostLock(p) \/ PostPush(p) \/ PostSignal(p) \/ PostUnlock(p)
GetStep == GetLock \/ GetWait \/ GetWake \/ GetLeaveLoop \/ GetPop \/ WorkerUnlock
SizeStep == SizeLock \/ SizeRead

Next ==
    \/ \E p \in Posters : PosterStep(p)
    \/ GetStep
    \/ SizeStep
    \/ SpuriousWakeup

(***************************************************************************)
(* A thread inside an operation goes on, and the worker always comes back  *)
(* to ask for the next request (master_loop), whatever else it does with   *)
(* the queue.  Nothing obliges a poster to post, the worker to ask for the *)
(* size, or a wait to end by itself.                                       *)
(***************************************************************************)
Fairness ==
    /\ \A p \in Posters : WF_vars(PostPush(p) \/ PostSignal(p) \/ PostUnlock(p))
    /\ SF_vars(GetLock)
    /\ WF_vars(GetWait \/ GetWake \/ GetLeaveLoop \/ GetPop \/ WorkerUnlock)
    /\ WF_vars(SizeRead)

Spec == Init /\ [][Next]_vars
FairSpec == Spec /\ Fairness

-----------------------------------------------------------------------------
(***************************************************************************)
(* Properties.                                                             *)
(***************************************************************************)
Inside == {"push", "signal", "unlock", "check", "pop", "size"}

\* The type of every variable.
TypeOK ==
    /\ lock \in Threads \cup {Free}
    /\ messages \in Seq(Requests)
    /\ pc \in [Threads -> Inside \cup {"idle", "wait", "woken"}]
    /\ posted \in [Posters -> 0..MaxPosts]
    /\ taken \in Seq(Requests)
    /\ size \in Nat

\* A thread holds the mutex exactly while it is between the lock and the
\* unlock of an operation and does not wait on the condition variable.
MutexHeld == \A t \in Threads : pc[t] \in Inside <=> lock = t

\* The worker never takes the front of an empty queue, although a wait can
\* return without a signal and a request can be gone when it does
\* (getNextMessage looks at the queue again after every wait).
PopsNonEmpty == pc[Worker] = "pop" => messages # << >>

\* The worker never waits beside a request that is there: a poster that
\* pushed one is about to signal (postMessage pushes and signals under the
\* mutex under which getNextMessage finds the queue empty and waits).
NoLostWakeup ==
    pc[Worker] = "wait" /\ messages # << >> => \E p \in Posters : pc[p] = "signal"

\* As many requests as the worker was told are pending stay there until it
\* takes them: when hasRequest says yes, getNextMessage does not wait.
ToldIsThere == size <= Len(messages)

Fifo == INSTANCE RequestFifo WITH waiting <- messages

\* The queue with its mutex and condition variable implements a queue whose
\* operations are single steps.
ImplementsFifo == Fifo!FifoSpec

\* Every request posted is eventually received by the worker.
RequestsTaken ==
    \A p \in Posters, i \in 1..MaxPosts :
        posted[p] >= i ~> \E j \in DOMAIN taken : taken[j] = [by |-> p, n |-> i]

-----------------------------------------------------------------------------
\* A poster about to push has not posted all its requests.
PushInv == \A p \in Posters :
    /\ pc[p] \in {"idle", "push", "signal", "unlock"}
    /\ pc[p] = "push" => posted[p] < MaxPosts

\* The inductive invariant behind the properties above.
IndInv == TypeOK /\ MutexHeld /\ PushInv /\ PopsNonEmpty /\ NoLostWakeup /\ ToldIsThere
=============================================================================
