----------------------------- MODULE MCPlanGraph -----------------------------
(* Two runs of one session, about the same question or about two.  All     *)
(* trips have the same key in the plan store: one trip stands for them.    *)
EXTENDS PlanGraph, TLC

CONSTANTS r1, r2, s1, q1, q2, t1, t2, k1

OneSession == [r \in Runs |-> s1]
Requests == [r \in Runs |-> IF r = r1 THEN {q1} ELSE {q1, q2}]
SameDeparture == [t \in Trips |-> k1]
=============================================================================
