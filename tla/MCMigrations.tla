---------------------------- MODULE MCMigrations ----------------------------
(* One account with two operations, or two accounts with one, between two  *)
(* processes.                                                              *)
EXTENDS Migrations, TLC

Symmetry == Permutations(Processes) \cup Permutations(Keys)
=============================================================================
