--------------------------- MODULE MCResultParts ---------------------------
(***************************************************************************)
(* An actor on two processes and one on a third; two actors that live one  *)
(* after the other on a common process, with different heads; one actor;   *)
(* the first two, and then one with another head on the processes of both. *)
(***************************************************************************)
EXTENDS ResultParts

TwoActors == {<<1, 2>>, <<3>>}
ActorsInTurn == {<<1, 2>>, <<3, 2>>}
OneActor == {<<1, 2>>}
ThreeInTurn == {<<1, 2>>, <<3>>, <<3, 2>>}
=============================================================================
