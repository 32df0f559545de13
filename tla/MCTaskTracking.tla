--------------------------- MODULE MCTaskTracking ---------------------------
(* TaskTracking for TLC: a root, its child and a third process that is the   *)
(* child of either, on two CPUs.                                             *)
EXTENDS TaskTracking
=============================================================================
