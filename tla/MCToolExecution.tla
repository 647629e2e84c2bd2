-------------------------- MODULE MCToolExecution --------------------------
(* Instances of ToolExecution for TLC: the calls are interchangeable. *)
EXTENDS ToolExecution, TLC

CONSTANTS c1, c2, c3

AnyOrder == Permutations(Calls)
=============================================================================
