----------------------------- MODULE DurablePlan -----------------------------
(***************************************************************************)
(* What the durable record of a plan run promises, session by session: it  *)
(* begins before the plan is created, goes through the stages in order,    *)
(* is repaired at most MaxRepairs times and is dropped in the end or when  *)
(* another question takes its place.  A session whose runs have overlapped *)
(* is promised nothing any more.                                           *)
(***************************************************************************)
EXTENDS Naturals

CONSTANTS Sessions, MaxRepairs

VARIABLE progress   \* by session: NoPlan, Unpromised, or a stage and a round

NoPlan == [stage |-> "none", round |-> 0]
Unpromised == [stage |-> "unpromised", round |-> 0]

PlanStages == {"create_plan", "load_constraints", "ensure_candidates", "generate_proposals",
               "review_proposals", "repair_plan", "render_plan"}

At(stage, round) == [stage |-> stage, round |-> round]

(* The stages that may follow one another, and what becomes of the round.  *)
Follows(p, q) ==
    \/ p = NoPlan /\ q = At("create_plan", 0)
    \/ q.round = p.round
       /\ \/ p.stage = "create_plan" /\ q.stage = "load_constraints"
          \/ p.stage = "load_constraints" /\ q.stage = "ensure_candidates"
          \/ p.stage = "ensure_candidates" /\ q.stage = "generate_proposals"
          \/ p.stage = "generate_proposals" /\ q.stage \in {"review_proposals", "render_plan"}
          \/ p.stage = "review_proposals" /\ q.stage = "render_plan"
          \/ p.stage = "review_proposals" /\ q.stage = "repair_plan" /\ p.round < MaxRepairs
    \/ q.round = p.round + 1 /\ p.stage = "repair_plan"
       /\ q.stage \in {"generate_proposals", "render_plan"}
-----------------------------------------------------------------------------
Init == progress = [s \in Sessions |-> NoPlan]

Advance(s, q) == Follows(progress[s], q) /\ progress' = [progress EXCEPT ![s] = q]

Drop(s) == progress[s] # Unpromised /\ progress' = [progress EXCEPT ![s] = NoPlan]

Release(s) == progress' = [progress EXCEPT ![s] = Unpromised]

Next ==
    \E s \in Sessions :
        \/ \E q \in [stage : PlanStages, round : 0..MaxRepairs] : Advance(s, q)
        \/ Drop(s)
        \/ Release(s)

Spec == Init /\ [][Next]_progress
=============================================================================
