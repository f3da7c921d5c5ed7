-------------------------------- MODULE MCSend --------------------------------
(***************************************************************************)
(* A small instance of SendOperations for TLC.                             *)
(***************************************************************************)
EXTENDS SendOperations, TLC

CONSTANT a1

(* A provider whose answer may be a confirmed rejection or ambiguous. *)
OneKind == [a \in {a1} |-> "gmail"]

RequestSymmetry == Permutations(Requests)
===============================================================================
