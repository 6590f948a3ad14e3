-------------------------- MODULE RequestQueueProofs --------------------------
(***************************************************************************)
(* The request queue for any set of posters and any number of requests:    *)
(* its invariants, and that it implements RequestFifo.                     *)
(***************************************************************************)
EXTENDS RequestQueue, TLAPS

LEMMA InitInv == Init => IndInv
BY FreeAssumption, MaxPostsAssumption
   DEF Init, IndInv, TypeOK, MutexHeld, PushInv, PopsNonEmpty, NoLostWakeup, ToldIsThere,
       Threads, Inside

\* The steps of a poster preserve the invariant.
LEMMA PosterStepInv ==
    ASSUME IndInv, NEW p \in Posters, PosterStep(p)
    PROVE  IndInv'
<1> USE WorkerAssumption, FreeAssumption, MaxPostsAssumption
<1>0. p \in Threads /\ Worker \in Threads /\ p # Worker
  BY DEF Threads
<1>1. CASE PostLock(p)
  BY <1>0, <1>1 DEF PostLock, Lock, IndInv, TypeOK, MutexHeld, PushInv, PopsNonEmpty,
     NoLostWakeup, ToldIsThere, Threads, Inside
<1>2. CASE PostPush(p)
  <2> DEFINE r == [by |-> p, n |-> posted[p] + 1]
  <2>1. r \in Requests /\ posted[p] + 1 \in 0..MaxPosts
    BY <1>2 DEF PostPush, IndInv, TypeOK, PushInv, Requests
  <2>2. /\ messages' \in Seq(Requests)
        /\ messages' # << >>
        /\ Len(messages') = Len(messages) + 1
    BY <1>2, <2>1 DEF PostPush, IndInv, TypeOK
  <2> HIDE DEF r
  <2>3. TypeOK'
    BY <1>0, <1>2, <2>1, <2>2 DEF PostPush, IndInv, TypeOK, Inside
  <2>4. MutexHeld' /\ PushInv'
    BY <1>0, <1>2 DEF PostPush, IndInv, TypeOK, MutexHeld, PushInv, Threads, Inside
  <2>5. PopsNonEmpty' /\ NoLostWakeup' /\ ToldIsThere'
    BY <1>0, <1>2, <2>2 DEF PostPush, IndInv, TypeOK, PopsNonEmpty, NoLostWakeup, ToldIsThere
  <2> QED
    BY <2>3, <2>4, <2>5 DEF IndInv
<1>3. CASE PostSignal(p)
  BY <1>0, <1>3 DEF PostSignal, Signalled, IndInv, TypeOK, MutexHeld, PushInv, PopsNonEmpty,
     NoLostWakeup, ToldIsThere, Threads, Inside
<1>4. CASE PostUnlock(p)
  BY <1>0, <1>4 DEF PostUnlock, Unlock, IndInv, TypeOK, MutexHeld, PushInv, PopsNonEmpty,
     NoLostWakeup, ToldIsThere, Threads, Inside
<1> QED
  BY <1>1, <1>2, <1>3, <1>4 DEF PosterStep

\* The steps of the worker preserve the invariant.
LEMMA WorkerStepInv ==
    ASSUME IndInv, GetStep \/ SizeStep \/ SpuriousWakeup
    PROVE  IndInv'
<1> USE WorkerAssumption, FreeAssumption, MaxPostsAssumption
<1>0. Worker \in Threads /\ \A p \in Posters : p \in Threads /\ p # Worker
  BY DEF Threads
<1>1. CASE GetLock
  BY <1>0, <1>1 DEF GetLock, Lock, IndInv, TypeOK, MutexHeld, PushInv, PopsNonEmpty,
     NoLostWakeup, ToldIsThere, Threads, Inside
<1>2. CASE GetWait
  BY <1>0, <1>2 DEF GetWait, ReleasesMutex, IndInv, TypeOK, MutexHeld, PushInv, PopsNonEmpty,
     NoLostWakeup, ToldIsThere, Threads, Inside
<1>3. CASE SpuriousWakeup
  BY <1>0, <1>3 DEF SpuriousWakeup, IndInv, TypeOK, MutexHeld, PushInv, PopsNonEmpty,
     NoLostWakeup, ToldIsThere, Threads, Inside
<1>4. CASE GetWake
  BY <1>0, <1>4 DEF GetWake, AfterWait, Lock, IndInv, TypeOK, MutexHeld, PushInv,
     PopsNonEmpty, NoLostWakeup, ToldIsThere, Threads, Inside
<1>5. CASE GetLeaveLoop
  BY <1>0, <1>5 DEF GetLeaveLoop, IndInv, TypeOK, MutexHeld, PushInv, PopsNonEmpty,
     NoLostWakeup, ToldIsThere, Threads, Inside
<1>6. CASE GetPop
  <2>1. messages # << >>
    BY <1>6 DEF GetPop, IndInv, PopsNonEmpty
  <2>2. /\ Tail(messages) \in Seq(Requests)
        /\ Len(Tail(messages)) = Len(messages) - 1
        /\ Head(messages) \in Requests
    BY <2>1 DEF IndInv, TypeOK
  <2>3. Append(taken, Head(messages)) \in Seq(Requests)
    BY <2>2 DEF IndInv, TypeOK
  <2>4. TypeOK' /\ ToldIsThere'
    BY <1>0, <1>6, <2>2, <2>3 DEF GetPop, Front, IndInv, TypeOK, ToldIsThere, Inside
  <2>5. MutexHeld' /\ PushInv' /\ PopsNonEmpty' /\ NoLostWakeup'
    BY <1>0, <1>6 DEF GetPop, IndInv, TypeOK, MutexHeld, PushInv, PopsNonEmpty,
       NoLostWakeup, Threads, Inside
  <2> QED
    BY <2>4, <2>5 DEF IndInv
<1>7. CASE WorkerUnlock
  BY <1>0, <1>7 DEF WorkerUnlock, Unlock, IndInv, TypeOK, MutexHeld, PushInv, PopsNonEmpty,
     NoLostWakeup, ToldIsThere, Threads, Inside
<1>8. CASE SizeLock
  BY <1>0, <1>8 DEF SizeLock, Lock, IndInv, TypeOK, MutexHeld, PushInv, PopsNonEmpty,
     NoLostWakeup, ToldIsThere, Threads, Inside
<1>9. CASE SizeRead
  BY <1>0, <1>9 DEF SizeRead, Pending, IndInv, TypeOK, MutexHeld, PushInv, PopsNonEmpty,
     NoLostWakeup, ToldIsThere, Threads, Inside
<1> QED
  BY <1>1, <1>2, <1>3, <1>4, <1>5, <1>6, <1>7, <1>8, <1>9 DEF GetStep, SizeStep

LEMMA NextInv == IndInv /\ [Next]_vars => IndInv'
<1> SUFFICES ASSUME IndInv, [Next]_vars PROVE IndInv'
  OBVIOUS
<1>1. CASE UNCHANGED vars
  BY <1>1 DEF vars, IndInv, TypeOK, MutexHeld, PushInv, PopsNonEmpty, NoLostWakeup, ToldIsThere
<1>2. CASE Next
  BY <1>2, PosterStepInv, WorkerStepInv DEF Next
<1> QED
  BY <1>1, <1>2

\* The queue keeps its inductive invariant.
THEOREM QueueInductive == Spec => []IndInv
BY InitInv, NextInv, PTL DEF Spec

\* The mutex is held exactly inside the operations (pthread_mutex_lock and
\* pthread_mutex_unlock of every operation).
THEOREM QueueMutex == Spec => []MutexHeld
<1>1. IndInv => MutexHeld
  BY DEF IndInv
<1> QED
  BY <1>1, QueueInductive, PTL

\* getNextMessage never takes the front of an empty queue.
THEOREM QueuePopsNonEmpty == Spec => []PopsNonEmpty
<1>1. IndInv => PopsNonEmpty
  BY DEF IndInv
<1> QED
  BY <1>1, QueueInductive, PTL

\* No wakeup of the worker is lost.
THEOREM QueueNoLostWakeup == Spec => []NoLostWakeup
<1>1. IndInv => NoLostWakeup
  BY DEF IndInv
<1> QED
  BY <1>1, QueueInductive, PTL

\* The size the worker is told is a promise.
THEOREM QueueToldIsThere == Spec => []ToldIsThere
<1>1. IndInv => ToldIsThere
  BY DEF IndInv
<1> QED
  BY <1>1, QueueInductive, PTL

LEMMA InitImplements == Init => Fifo!FifoInit
BY DEF Init, Fifo!FifoInit

\* A step of the queue is a step of the queue with single-step operations:
\* a push is a post, a pop is a take, and every other step changes nothing.
LEMMA StepImplements == IndInv /\ [Next]_vars => [Fifo!FifoNext]_(Fifo!fifoVars)
<1> SUFFICES ASSUME IndInv, [Next]_vars, ~ UNCHANGED <<messages, taken>>
             PROVE  Fifo!FifoNext
  BY DEF Fifo!fifoVars
<1>1. GetPop \/ \E p \in Posters : PostPush(p)
  BY DEF Next, vars, PosterStep, PostLock, PostSignal, PostUnlock, GetStep, GetLock, GetWait,
     GetWake, GetLeaveLoop, WorkerUnlock, SizeStep, SizeLock, SizeRead, SpuriousWakeup
<1>2. CASE GetPop
  <2>1. messages # << >>
    BY <1>2 DEF GetPop, IndInv, PopsNonEmpty
  <2>2. Fifo!Take
    BY <1>2, <2>1 DEF GetPop, Front, Fifo!Take
  <2> QED
    BY <2>2 DEF Fifo!FifoNext
<1>3. ASSUME NEW p \in Posters, PostPush(p)
      PROVE  Fifo!FifoNext
  <2> DEFINE r == [by |-> p, n |-> posted[p] + 1]
  <2>1. r \in Requests
    BY <1>3, MaxPostsAssumption DEF PostPush, IndInv, TypeOK, PushInv, Requests
  <2>2. Fifo!Post(r)
    BY <1>3 DEF PostPush, Fifo!Post
  <2> QED
    BY <2>1, <2>2 DEF Fifo!FifoNext
<1> QED
  BY <1>1, <1>2, <1>3

\* The queue implements RequestFifo, for any number of posters and requests.
THEOREM QueueImplementsFifo == Spec => ImplementsFifo
BY InitImplements, QueueInductive, StepImplements, PTL
   DEF Spec, ImplementsFifo, Fifo!FifoSpec
=============================================================================
