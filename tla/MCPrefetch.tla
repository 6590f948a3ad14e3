---------------------------- MODULE MCPrefetch -----------------------------
(***************************************************************************)
(* Two actors on two processes each, one of which produces.                *)
(***************************************************************************)
EXTENDS Prefetch

TwoByTwo == {<<1, 2>>, <<3, 4>>}
FirstOfTwo == {<<1, 2>>}
=============================================================================
