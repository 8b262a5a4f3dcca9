---------------------------- MODULE MCThreadQueue ----------------------------
(* Two windows, one of them with a timer; a client may peek for anything  *)
(* or for the second window only.                                         *)
EXTENDS ThreadQueue

CONSTANTS w1, w2, c1

MCFilters == {Targets, {w2}}
=============================================================================
