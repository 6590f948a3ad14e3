--------------------------- MODULE ActiveObjects ---------------------------
(***************************************************************************)
(* What active objects promise to a program, with no message in sight.     *)
(*                                                                         *)
(* Every actor keeps the log of the calls it accepted; the call at index   *)
(* k + 1 is the one whose future has key k.  An actor resolves its calls   *)
(* one at a time in the order of the log.  A process that asks for a       *)
(* future may only ever see the value of the call the future was made      *)
(* for, and only once that call is resolved.                               *)
(*                                                                         *)
(* Futures.tla, the translation of the runtime, implements this module.    *)
(***************************************************************************)
EXTENDS Integers, Sequences

CONSTANTS
    Procs,       \* every process that can wait for a future
    Actors,      \* the processes that own an actor
    Calls,       \* what can be asked of an actor
    Values,      \* what a call can return
    Value(_),    \* the value a call returns
    None         \* no value

VARIABLES
    calls,       \* calls[a]: the calls actor a accepted, oldest first
    resolved,    \* resolved[a]: the keys of the calls of a that are resolved
    view         \* view[c]: the futures c knows the value of, with the value

aoVars == <<calls, resolved, view>>

AOInit ==
    /\ calls = [a \in Actors |-> << >>]
    /\ resolved = [a \in Actors |-> {}]
    /\ view = [c \in Procs |-> {}]

\* Actor a accepts a call.
Accept(a) ==
    /\ \E m \in Calls : calls' = [calls EXCEPT ![a] = Append(@, m)]
    /\ UNCHANGED <<resolved, view>>

\* Actor a resolves the oldest of its unresolved calls and forgets the
\* futures that call received as arguments.
Resolve(a) ==
    \E k \in 0..(Len(calls[a]) - 1) :
        /\ resolved[a] = 0..(k - 1)
        /\ resolved' = [resolved EXCEPT ![a] = 0..k]
        /\ view' = [view EXCEPT ![a] = {}]
        /\ UNCHANGED calls

\* Process c obtains the value of a future that is resolved.
Obtain(c) ==
    \E a \in Actors : \E k \in resolved[a] :
        /\ view' = [view EXCEPT ![c] =
                        @ \cup {[at |-> a, key |-> k, value |-> Value(calls[a][k + 1])]}]
        /\ UNCHANGED <<calls, resolved>>

AONext ==
    \/ \E a \in Actors : Accept(a) \/ Resolve(a)
    \/ \E c \in Procs : Obtain(c)

AOSpec == AOInit /\ [][AONext]_aoVars

=============================================================================
