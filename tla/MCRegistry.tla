----------------------------- MODULE MCRegistry -----------------------------
(* Registry for TLC: four commands, so that the table of events runs full    *)
(* with two adds in progress while an event-set is added.                    *)
EXTENDS Registry, TLC

Symmetry == Permutations(Commands)
=============================================================================
