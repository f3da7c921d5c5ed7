----------------------------- MODULE MCAccounts -----------------------------
(* A small instance of the account registry. *)
EXTENDS AccountRegistry, TLC

CONSTANTS o1, o2, b1, r1, r2, s1, i1, i2, gmail, microsoft_graph

Symmetry == Permutations({o1, o2}) \cup Permutations({r1, r2})
            \cup Permutations({i1, i2}) \cup Permutations({gmail, microsoft_graph})
=============================================================================
