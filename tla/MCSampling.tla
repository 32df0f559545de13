----------------------------- MODULE MCSampling -----------------------------
(* Sampling for TLC: two monitored tasks on two CPUs, which are interchangeable. *)
(* Behind a sample that was read from another task's counter, counts may be in   *)
(* two samples and grow for ever: such a state is checked, and not explored.     *)
EXTENDS Sampling, TLC

Symmetry == Permutations(Tasks) \cup Permutations(CPUs)

BeforeStray == ~stray
=============================================================================
