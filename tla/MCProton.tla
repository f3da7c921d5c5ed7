------------------------------ MODULE MCProton ------------------------------
(* Small instances of the managed Proton Bridge. *)
EXTENDS ManagedProton, TLC

CONSTANTS a1, a2

Symmetry == Permutations({a1, a2})
=============================================================================
