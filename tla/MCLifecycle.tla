---------------------------- MODULE MCLifecycle ----------------------------
(***************************************************************************)
(* Three processes beside the program.  The lists of processes overlap, so *)
(* that a process is reused in the role of head and of slave; one process  *)
(* has actors of its own, whose messages any other may overtake.           *)
(***************************************************************************)
EXTENDS Lifecycle

Overlapping == {<<1, 2>>, <<2, 1>>, <<3>>}
SameTwice == {<<1, 2>>}
=============================================================================
