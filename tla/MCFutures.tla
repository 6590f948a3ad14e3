----------------------------- MODULE MCFutures -----------------------------
(***************************************************************************)
(* Two actors and a program that makes up to MaxCalls calls.  Actors are   *)
(* interchangeable in the safety runs.                                     *)
(***************************************************************************)
EXTENDS Futures, TLC

ActorSymmetry == Permutations(Actors)
=============================================================================
