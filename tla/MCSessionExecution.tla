------------------------ MODULE MCSessionExecution ------------------------
(* Instances of SessionExecution for TLC: where each call is served. *)
EXTENDS SessionExecution, TLC

CONSTANTS r1, r2, s1, n1, n2

(* The second request and the stop reach another node than the first. *)
SpreadOverNodes == [c \in Callers |-> IF c = r1 THEN n1 ELSE n2]
OneNode == [c \in Callers |-> n1]
=============================================================================
