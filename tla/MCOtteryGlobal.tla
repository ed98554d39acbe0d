--------------------------- MODULE MCOtteryGlobal ---------------------------
(***************************************************************************)
(* OtteryGlobal for TLC.  The worker threads are interchangeable, and so   *)
(* are the children; the runs about liveness do not use that.              *)
(***************************************************************************)
EXTENDS OtteryGlobal, TLC

ThreadSymmetry == Permutations(Workers) \cup Permutations(Children)
=============================================================================
