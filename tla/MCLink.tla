-------------------------------- MODULE MCLink --------------------------------
(* A small instance of the child process lifecycle. *)
EXTENDS ControllerLink, TLC

Symmetry == Permutations(Calls)
===============================================================================
