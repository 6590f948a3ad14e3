---------------------------- MODULE RequestFifo ----------------------------
(***************************************************************************)
(* What the request queue of a worker promises: posting a request and      *)
(* taking one are single steps, requests come out once each and in the     *)
(* order they went in.                                                     *)
(***************************************************************************)
EXTENDS Sequences

CONSTANT Requests    \* what can be posted

VARIABLES
    waiting,         \* the requests posted and not taken, oldest first
    taken            \* the requests taken, oldest first

fifoVars == <<waiting, taken>>

FifoInit == waiting = << >> /\ taken = << >>

Post(r) == waiting' = Append(waiting, r) /\ taken' = taken

Take ==
    /\ waiting # << >>
    /\ taken' = Append(taken, Head(waiting))
    /\ waiting' = Tail(waiting)

FifoNext == Take \/ \E r \in Requests : Post(r)

FifoSpec == FifoInit /\ [][FifoNext]_fifoVars

=============================================================================
