-------------------------- MODULE MCWorkerExecutor --------------------------
(* Instances of WorkerExecutor for TLC. *)
EXTENDS WorkerExecutor

CONSTANTS c1, c2, c3

(* Two sub-agent calls of one user request and one of another. *)
TwoRequests == [c \in Callers |-> IF c = c3 THEN 2 ELSE 1]
=============================================================================
