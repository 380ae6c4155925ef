--------------------------- MODULE MCInterrUsleep ---------------------------
(* InterrUsleep for TLC. The threads are interchangeable. *)
EXTENDS InterrUsleep, TLC

Symmetry == Permutations(Threads)
=============================================================================
