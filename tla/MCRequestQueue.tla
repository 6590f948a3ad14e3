--------------------------- MODULE MCRequestQueue ---------------------------
(***************************************************************************)
(* Two posters, three requests each: the worker finds the queue empty, is  *)
(* woken with and without a signal, and finds several requests at once.    *)
(***************************************************************************)
EXTENDS RequestQueue
=============================================================================
