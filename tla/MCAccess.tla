------------------------------- MODULE MCAccess -------------------------------
(* A small instance of access profiles and their tokens. *)
EXTENDS AccessProfiles, TLC

Symmetry == Permutations(Accounts) \cup Permutations(Profiles) \cup Permutations(Tokens)

SendOrAll == {{"send"}, {"read", "draft", "send"}}
===============================================================================
