--------------------------- MODULE PlanGraphProofs ---------------------------
(***************************************************************************)
(* PlanGraph implements DurablePlan, for any number of runs and sessions   *)
(* and any bound on the repairs: the durable record of a session goes      *)
(* through the stages in order, whichever runs are stopped or restored.    *)
(*                                                                         *)
(* A record is written from the state of a run, so the step of the record  *)
(* is right only if the run started from what the record holds.  That is   *)
(* FollowInv, which needs the run to be the only one at work in its        *)
(* session (AloneInv), and the bound of the repairs to be in every state   *)
(* that may be saved and restored (RoundInv).                              *)
(*                                                                         *)
(* The second part proves the two invariants that relate a run to what     *)
(* lies outside its record: the plan store and the notebook.               *)
(***************************************************************************)
EXTENDS PlanGraph, TLAPS

Cell(state) == [stage |-> state.stage, round |-> state.round]

(* The progress that DurablePlan speaks of. *)
Progress == [s \in Sessions |-> IF s \in overlapped THEN [stage |-> "unpromised", round |-> 0]
                                ELSE Cell(saved[s])]

Bounded(state) == state.stage = "repair_plan" => state.round < MaxRepairs

RecordTypes ==
    /\ saved \in [Sessions -> States \cup {NoRecord}]
    /\ mem \in [Runs -> States]
    /\ pc \in [Runs -> {"idle", "node", "checkpoint", "delete", "asked", "completed", "stopped"}]
    /\ overlapped \subseteq Sessions

RoundInv ==
    /\ \A r \in Runs : Bounded(mem[r])
    /\ \A s \in Sessions : Bounded(saved[s]) /\ saved[s].stage # "validate_input"

IdleInv ==
    \A r \in Runs : pc[r] = "idle" => mem[r].stage = "validate_input" /\ mem[r].round = 0

AloneInv ==
    \A r, o \in Live : SessionOf[r] = SessionOf[o] /\ SessionOf[r] \notin overlapped => r = o

Started(r) ==
    IF mem[r].stage = "validate_input"
    THEN saved[SessionOf[r]] = NoRecord /\ mem[r].round = 0
    ELSE Cell(saved[SessionOf[r]]) = Cell(mem[r])

FollowInv ==
    \A r \in Runs :
        SessionOf[r] \notin overlapped =>
            /\ pc[r] = "node" => Started(r)
            /\ pc[r] = "checkpoint" =>
                 /\ mem[r].stage # "validate_input"
                 /\ Durable!Follows(Cell(saved[SessionOf[r]]), Cell(mem[r]))

SavedFrom == \A r \in Runs : pc[r] = "checkpoint" => mem[r].stage # "validate_input"

Inv == RecordTypes /\ RoundInv /\ IdleInv /\ AloneInv /\ FollowInv /\ SavedFrom
-----------------------------------------------------------------------------
LEMMA InitInv == Init => Inv
<1> SUFFICES ASSUME Init PROVE Inv
  OBVIOUS
<1>1. PICK asked \in [Runs -> Questions] : mem = [r \in Runs |-> Fresh(asked[r])]
  BY DEF Init
<1>2. RecordTypes
  BY <1>1, PlanGraphAssumption DEF Init, RecordTypes, Fresh, States, Stages, NoRecord
<1>3. RoundInv /\ IdleInv
  BY <1>1 DEF Init, RoundInv, IdleInv, Bounded, Fresh, NoRecord
<1>4. AloneInv /\ FollowInv /\ SavedFrom
  BY DEF Init, AloneInv, FollowInv, SavedFrom, Live
<1>5. QED
  BY <1>2, <1>3, <1>4 DEF Inv

(* A stage that ends keeps the invariant, if what it leaves in memory may  *)
(* follow the record of its session.                                       *)
LEMMA EndsStep ==
    ASSUME Inv, NEW r \in Runs, NEW stage, NEW state \in States, Ends(r, stage, state),
           Bounded(state), state.stage # "validate_input",
           SessionOf[r] \notin overlapped =>
               Durable!Follows(Cell(saved[SessionOf[r]]), Cell(state))
    PROVE  Inv' /\ Progress' = Progress
<1>1. /\ saved' = saved /\ overlapped' = overlapped /\ pc[r] = "node"
      /\ mem' = [mem EXCEPT ![r] = state] /\ pc' = [pc EXCEPT ![r] = "checkpoint"]
  BY DEF Ends
<1>2. RecordTypes'
  BY <1>1 DEF Inv, RecordTypes
<1>3. RoundInv' /\ IdleInv' /\ SavedFrom'
  BY <1>1 DEF Inv, RecordTypes, RoundInv, IdleInv, SavedFrom, Bounded
<1>4. AloneInv'
  <2>1. Live' = Live
    BY <1>1 DEF Inv, RecordTypes, Live
  <2>2. QED
    BY <1>1, <2>1 DEF Inv, AloneInv
<1>5. FollowInv'
  <2> SUFFICES ASSUME NEW q \in Runs, SessionOf[q] \notin overlapped
               PROVE  /\ pc'[q] = "node" => Started(q)'
                      /\ pc'[q] = "checkpoint" =>
                           /\ mem'[q].stage # "validate_input"
                           /\ Durable!Follows(Cell(saved[SessionOf[q]]), Cell(mem'[q]))
    BY <1>1 DEF FollowInv, Cell
  <2>1. CASE q = r
    BY <1>1, <2>1 DEF Inv, RecordTypes
  <2>2. CASE q # r
    <3>1. pc'[q] = pc[q] /\ mem'[q] = mem[q]
      BY <1>1, <2>2 DEF Inv, RecordTypes
    <3>2. QED
      BY <1>1, <3>1 DEF Inv, FollowInv, Started, Cell
  <2>3. QED
    BY <2>1, <2>2
<1>6. Progress' = Progress
  BY <1>1 DEF Progress, Cell
<1>7. QED
  BY <1>2, <1>3, <1>4, <1>5, <1>6 DEF Inv

(* Every stage of a run whose state is in memory. *)
LEMMA StageStep ==
    ASSUME Inv, NEW r \in Runs,
           \/ \E trip \in Trips : ValidateInput(r, trip)
           \/ CreatePlan(r) \/ LoadConstraints(r) \/ EnsureCandidates(r)
           \/ GenerateProposals(r)
           \/ \E continue \in BOOLEAN : ReviewProposals(r, continue)
           \/ \E changed \in BOOLEAN : RepairPlan(r, changed)
    PROVE  Inv' /\ Progress' = Progress
<1> DEFINE m == mem[r]
<1>1. /\ m \in States /\ m.round \in 0..MaxRepairs /\ Bounded(m)
      /\ m = [question |-> m.question, trip |-> m.trip, stage |-> m.stage, round |-> m.round,
              stop |-> m.stop, plan |-> m.plan]
  BY DEF Inv, RecordTypes, RoundInv, States
<1>2. pc[r] = "node" /\ SessionOf[r] \notin overlapped => Started(r)
  BY DEF Inv, FollowInv
<1>3. SessionOf[r] \in Sessions
  BY PlanGraphAssumption
<1>4. ASSUME NEW trip \in Trips, ValidateInput(r, trip)
      PROVE  Inv' /\ Progress' = Progress
  <2> DEFINE next == [m EXCEPT !.stage = "create_plan", !.trip = trip]
  <2>1. Ends(r, "validate_input", next) /\ m.stage = "validate_input"
    BY <1>4 DEF ValidateInput, Ends
  <2>2. next \in States /\ next.stage = "create_plan" /\ next.round = m.round
    BY <1>1 DEF States, Stages
  <2>3. SessionOf[r] \notin overlapped =>
            Durable!Follows(Cell(saved[SessionOf[r]]), Cell(next))
    BY <1>2, <2>1, <2>2 DEF Ends, Started, Cell, NoRecord, Durable!Follows, Durable!NoPlan,
       Durable!At
  <2>4. QED
    BY <2>1, <2>2, <2>3, EndsStep DEF Bounded
<1>5. CASE CreatePlan(r)
  <2> DEFINE next == [m EXCEPT !.stage = "load_constraints"]
  <2>1. Ends(r, "create_plan", next) /\ m.stage = "create_plan"
    BY <1>5 DEF CreatePlan, Ends
  <2>2. next \in States /\ next.stage = "load_constraints" /\ next.round = m.round
    BY <1>1 DEF States, Stages
  <2>3. SessionOf[r] \notin overlapped =>
            Durable!Follows(Cell(saved[SessionOf[r]]), Cell(next))
    BY <1>2, <2>1, <2>2 DEF Ends, Started, Cell, Durable!Follows
  <2>4. QED
    BY <2>1, <2>2, <2>3, EndsStep DEF Bounded
<1>6. CASE LoadConstraints(r)
  <2> DEFINE next == [m EXCEPT !.stage = "ensure_candidates"]
  <2>1. Ends(r, "load_constraints", next) /\ m.stage = "load_constraints"
    BY <1>6 DEF LoadConstraints, Ends
  <2>2. next \in States /\ next.stage = "ensure_candidates" /\ next.round = m.round
    BY <1>1 DEF States, Stages
  <2>3. SessionOf[r] \notin overlapped =>
            Durable!Follows(Cell(saved[SessionOf[r]]), Cell(next))
    BY <1>2, <2>1, <2>2 DEF Ends, Started, Cell, Durable!Follows
  <2>4. QED
    BY <2>1, <2>2, <2>3, EndsStep DEF Bounded
<1>7. CASE EnsureCandidates(r)
  <2> DEFINE next == [m EXCEPT !.stage = "generate_proposals"]
  <2>1. Ends(r, "ensure_candidates", next) /\ m.stage = "ensure_candidates"
    BY <1>7 DEF EnsureCandidates, Ends
  <2>2. next \in States /\ next.stage = "generate_proposals" /\ next.round = m.round
    BY <1>1 DEF States, Stages
  <2>3. SessionOf[r] \notin overlapped =>
            Durable!Follows(Cell(saved[SessionOf[r]]), Cell(next))
    BY <1>2, <2>1, <2>2 DEF Ends, Started, Cell, Durable!Follows
  <2>4. QED
    BY <2>1, <2>2, <2>3, EndsStep DEF Bounded
<1>8. CASE GenerateProposals(r)
  <2> DEFINE next(stage, plan) == [m EXCEPT !.stage = stage, !.plan = plan]
  <2>1. PICK stage \in {"review_proposals", "render_plan"}, plan \in Plan \cup {None} :
            Ends(r, "generate_proposals", next(stage, plan))
    BY <1>8 DEF GenerateProposals
  <2>2. m.stage = "generate_proposals"
    BY <2>1 DEF Ends
  <2>3. /\ next(stage, plan) \in States /\ next(stage, plan).stage = stage
        /\ next(stage, plan).round = m.round
    BY <1>1 DEF States, Stages
  <2>4. SessionOf[r] \notin overlapped =>
            Durable!Follows(Cell(saved[SessionOf[r]]), Cell(next(stage, plan)))
    BY <1>2, <2>1, <2>2, <2>3 DEF Ends, Started, Cell, Durable!Follows
  <2> HIDE DEF next
  <2>5. QED
    BY <2>1, <2>3, <2>4, EndsStep DEF Bounded
<1>9. ASSUME NEW continue \in BOOLEAN, ReviewProposals(r, continue)
      PROVE  Inv' /\ Progress' = Progress
  <2> DEFINE after == IF ShouldRepair(m, continue) THEN "repair_plan" ELSE "render_plan"
             next == [m EXCEPT !.stage = after]
  <2>1. Ends(r, "review_proposals", next) /\ m.stage = "review_proposals"
    BY <1>9 DEF ReviewProposals, Ends
  <2>2. next \in States /\ next.stage = after /\ next.round = m.round
    BY <1>1 DEF States, Stages
  <2>3. after \in {"repair_plan", "render_plan"} /\ (after = "repair_plan" => m.round < MaxRepairs)
    BY DEF ShouldRepair
  <2> HIDE DEF after
  <2>4. SessionOf[r] \notin overlapped =>
            Durable!Follows(Cell(saved[SessionOf[r]]), Cell(next))
    BY <1>2, <2>1, <2>2, <2>3 DEF Ends, Started, Cell, Durable!Follows
  <2>5. QED
    BY <2>1, <2>2, <2>3, <2>4, EndsStep DEF Bounded
<1>10. ASSUME NEW changed \in BOOLEAN, RepairPlan(r, changed)
       PROVE  Inv' /\ Progress' = Progress
  <2> DEFINE after == IF changed THEN "generate_proposals" ELSE "render_plan"
             next == [m EXCEPT !.stage = after, !.round = @ + 1, !.stop = ~changed]
  <2>1. Ends(r, "repair_plan", next) /\ m.stage = "repair_plan"
    BY <1>10 DEF RepairPlan, Ends
  <2>2. m.round + 1 \in 0..MaxRepairs
    BY <1>1, <2>1, PlanGraphAssumption DEF Bounded
  <2>3. next \in States /\ next.stage = after /\ next.round = m.round + 1
    BY <1>1, <2>2 DEF States, Stages
  <2>4. after \in {"generate_proposals", "render_plan"}
    OBVIOUS
  <2> HIDE DEF after
  <2>5. SessionOf[r] \notin overlapped =>
            Durable!Follows(Cell(saved[SessionOf[r]]), Cell(next))
    BY <1>2, <2>1, <2>3, <2>4 DEF Ends, Started, Cell, Durable!Follows
  <2>6. QED
    BY <2>1, <2>3, <2>4, <2>5, EndsStep DEF Bounded
<1>11. QED
  BY <1>4, <1>5, <1>6, <1>7, <1>8, <1>9, <1>10

(* A run that leaves, with a question, stopped, or to delete its record. *)
LEMMA LeaveStep ==
    ASSUME Inv, NEW r \in Runs, NEW there \in {"asked", "stopped", "delete"},
           r \in Live, pc' = [pc EXCEPT ![r] = there], UNCHANGED <<saved, mem, overlapped>>
    PROVE  Inv' /\ Progress' = Progress
<1>1. RecordTypes' /\ RoundInv' /\ IdleInv' /\ SavedFrom'
  BY DEF Inv, RecordTypes, RoundInv, IdleInv, SavedFrom, Bounded
<1>2. Live' \subseteq Live
  BY DEF Inv, RecordTypes, Live
<1>3. AloneInv'
  BY <1>2 DEF Inv, AloneInv
<1>4. \A q \in Runs : pc'[q] \in {"node", "checkpoint"} => pc'[q] = pc[q]
  BY DEF Inv, RecordTypes
<1>5. FollowInv'
  BY <1>4 DEF Inv, FollowInv, Started, Cell
<1>6. QED
  BY <1>1, <1>3, <1>5 DEF Inv, Progress, Cell

(* A step that concerns neither records nor runs. *)
LEMMA FrameStep ==
    ASSUME Inv, UNCHANGED <<saved, mem, pc, overlapped>>
    PROVE  Inv' /\ Progress' = Progress
  BY DEF Inv, RecordTypes, RoundInv, IdleInv, AloneInv, FollowInv, SavedFrom, Live, Started,
     Bounded, Cell, Progress
-----------------------------------------------------------------------------
(* The steps of DurablePlan, for the progress of this module. *)
LEMMA AbstractStep ==
    ASSUME NEW s \in Sessions, NEW cell, Progress' = [Progress EXCEPT ![s] = cell],
           \/ /\ cell \in [stage : Durable!PlanStages, round : 0..MaxRepairs]
              /\ Durable!Follows(Progress[s], cell)
           \/ cell = Durable!NoPlan /\ Progress[s] # Durable!Unpromised
           \/ cell = Durable!Unpromised
    PROVE  Durable!Next
<1>1. Durable!Advance(s, cell)
         <=> Durable!Follows(Progress[s], cell) /\ Progress' = [Progress EXCEPT ![s] = cell]
  BY DEF Durable!Advance, Progress, Cell
<1>2. Durable!Drop(s) <=> /\ Progress[s] # Durable!Unpromised
                          /\ Progress' = [Progress EXCEPT ![s] = Durable!NoPlan]
  BY DEF Durable!Drop, Progress, Cell
<1>3. Durable!Release(s) <=> Progress' = [Progress EXCEPT ![s] = Durable!Unpromised]
  BY DEF Durable!Release, Progress, Cell
<1>4. QED
  BY <1>1, <1>2, <1>3 DEF Durable!Next

(* One session's record is written, and the session may have become one    *)
(* of overlapping runs.                                                    *)
LEMMA OneRecordWritten ==
    ASSUME RecordTypes, NEW s \in Sessions, NEW record,
           saved' = [saved EXCEPT ![s] = record],
           overlapped' = overlapped \/ overlapped' = overlapped \cup {s}
    PROVE  /\ s \notin overlapped' => Progress' = [Progress EXCEPT ![s] = Cell(record)]
           /\ s \in overlapped' => Progress' = [Progress EXCEPT ![s] = Durable!Unpromised]
           /\ s \in overlapped => Progress' = Progress
           /\ s \notin overlapped => Progress[s] = Cell(saved[s])
  BY DEF RecordTypes, Progress, Cell, Durable!Unpromised

LEMMA RestoreStep ==
    ASSUME Inv, NEW r \in Runs, NEW continuation \in BOOLEAN, RestorePlan(r, continuation)
    PROVE  Inv' /\ (Durable!Next \/ Progress' = Progress)
<1> DEFINE s == SessionOf[r]
<1>1. s \in Sessions /\ saved[s] \in States \cup {NoRecord} /\ mem[r] \in States
  BY PlanGraphAssumption DEF Inv, RecordTypes
<1>2. /\ pc[r] = "idle" /\ pc' = [pc EXCEPT ![r] = "node"]
      /\ overlapped' = IF \E o \in Live : SessionOf[o] = s THEN overlapped \cup {s}
                       ELSE overlapped
  BY DEF RestorePlan
<1>3. PICK record \in {saved[s], NoRecord} :
         /\ saved' = [saved EXCEPT ![s] = record]
         /\ \/ record = NoRecord /\ mem' = mem
            \/ /\ record = saved[s] /\ record # NoRecord
               /\ mem' = [mem EXCEPT ![r] = [record EXCEPT !.question = mem[r].question]]
  BY <1>1 DEF RestorePlan, Inv, RecordTypes
<1>4. mem'[r] \in States /\ (record # NoRecord => Cell(mem'[r]) = Cell(record))
  BY <1>1, <1>3 DEF Inv, RecordTypes, States, Cell
<1>5. record.stage # "validate_input" /\ Bounded(record) /\ Bounded(mem'[r])
  <2>1. NoRecord.stage = "none"
    BY DEF NoRecord
  <2>2. record.stage # "validate_input" /\ Bounded(record)
    BY <1>1, <1>3, <2>1 DEF Inv, RoundInv, Bounded
  <2>3. QED
    BY <1>3, <1>4, <2>2 DEF Inv, RoundInv, Bounded, Cell
<1>6. \A q \in Runs : q # r => mem'[q] = mem[q] /\ pc'[q] = pc[q]
  BY <1>2, <1>3 DEF Inv, RecordTypes
<1>7. pc'[r] = "node"
  BY <1>2 DEF Inv, RecordTypes
<1>8. \A t \in Sessions : t # s => saved'[t] = saved[t]
  BY <1>3 DEF Inv, RecordTypes
<1>9. saved'[s] = record
  BY <1>1, <1>3 DEF Inv, RecordTypes
<1>10. RecordTypes'
  BY <1>1, <1>2, <1>3, <1>4, <1>6 DEF Inv, RecordTypes
<1>11. RoundInv' /\ IdleInv' /\ SavedFrom'
  BY <1>5, <1>6, <1>7, <1>8, <1>9 DEF Inv, RoundInv, IdleInv, SavedFrom, Bounded
<1>12. Live' = Live \cup {r} /\ r \notin Live
  BY <1>2, <1>6, <1>7 DEF Live
<1>13. \A t \in Sessions : t \notin overlapped' => t \notin overlapped
  BY <1>2
<1>14. s \notin overlapped' => \A o \in Live : SessionOf[o] # s
  BY <1>2
<1>15. AloneInv'
  BY <1>12, <1>13, <1>14, PlanGraphAssumption DEF Inv, AloneInv, Live
<1>16. FollowInv'
  <2> SUFFICES ASSUME NEW q \in Runs, SessionOf[q] \notin overlapped'
               PROVE  /\ pc'[q] = "node" => Started(q)'
                      /\ pc'[q] = "checkpoint" =>
                           /\ mem'[q].stage # "validate_input"
                           /\ Durable!Follows(Cell(saved'[SessionOf[q]]), Cell(mem'[q]))
    BY DEF FollowInv, Cell
  <2>1. CASE q = r
    <3>1. CASE record = NoRecord
      BY <1>2, <1>3, <1>7, <1>9, <2>1, <3>1 DEF Started, Inv, IdleInv
    <3>2. CASE record # NoRecord
      <4>1. mem'[r].stage = record.stage
        BY <1>4, <3>2 DEF Cell
      <4>2. QED
        BY <1>4, <1>5, <1>7, <1>9, <2>1, <3>2, <4>1 DEF Started, Cell
    <3>3. QED
      BY <3>1, <3>2
  <2>2. CASE q # r /\ pc[q] \in {"node", "checkpoint"}
    <3>1. q \in Live
      BY <2>2 DEF Live
    <3>2. SessionOf[q] # s /\ SessionOf[q] \in Sessions
      BY <1>14, <3>1, PlanGraphAssumption
    <3>3. saved'[SessionOf[q]] = saved[SessionOf[q]] /\ SessionOf[q] \notin overlapped
      BY <1>8, <1>13, <3>2
    <3>4. QED
      BY <1>6, <2>2, <3>3 DEF Inv, FollowInv, Started, Cell
  <2>3. CASE q # r /\ pc[q] \notin {"node", "checkpoint"}
    BY <1>6, <2>3
  <2>4. QED
    BY <2>1, <2>2, <2>3
<1>17. Durable!Next \/ Progress' = Progress
  <2>1. overlapped' = overlapped \/ overlapped' = overlapped \cup {s}
    BY <1>2
  <2>2. /\ s \notin overlapped' => Progress' = [Progress EXCEPT ![s] = Cell(record)]
        /\ s \in overlapped' => Progress' = [Progress EXCEPT ![s] = Durable!Unpromised]
        /\ s \in overlapped => Progress' = Progress
        /\ s \notin overlapped => Progress[s] = Cell(saved[s])
    BY <1>1, <1>3, <2>1, OneRecordWritten DEF Inv
  <2>3. CASE s \in overlapped'
    BY <1>1, <2>2, <2>3, AbstractStep
  <2>4. CASE s \notin overlapped' /\ record = saved[s]
    BY <2>2, <2>4, <1>13, <1>1 DEF Progress
  <2>5. CASE s \notin overlapped' /\ record = NoRecord
    <3>1. Cell(record) = Durable!NoPlan
      BY <2>5 DEF Cell, NoRecord, Durable!NoPlan
    <3>2. Progress[s] # Durable!Unpromised
      BY <1>1, <1>13, <2>2, <2>5 DEF Cell, Durable!Unpromised, NoRecord, States, Stages
    <3>3. QED
      BY <1>1, <2>2, <2>5, <3>1, <3>2, AbstractStep
  <2>6. QED
    BY <1>3, <2>3, <2>4, <2>5
<1>18. QED
  BY <1>10, <1>11, <1>15, <1>16, <1>17 DEF Inv

(* A record written or deleted by the run whose it is. *)
LEMMA RecordStep ==
    ASSUME Inv, NEW r \in Runs, r \in Live, NEW record \in States \cup {NoRecord},
           NEW there \in {"node", "completed"},
           saved' = [saved EXCEPT ![SessionOf[r]] = record],
           pc' = [pc EXCEPT ![r] = there], UNCHANGED <<mem, overlapped>>,
           record.stage # "validate_input", Bounded(record),
           there = "node" => record = mem[r],
           SessionOf[r] \notin overlapped =>
               record = NoRecord \/ Durable!Follows(Cell(saved[SessionOf[r]]), Cell(record))
    PROVE  Inv' /\ (Durable!Next \/ Progress' = Progress)
<1> DEFINE s == SessionOf[r]
<1>1. s \in Sessions /\ saved[s] \in States \cup {NoRecord}
  BY PlanGraphAssumption DEF Inv, RecordTypes
<1>2. RecordTypes'
  BY DEF Inv, RecordTypes
<1>3. RoundInv' /\ IdleInv' /\ SavedFrom'
  BY DEF Inv, RecordTypes, RoundInv, IdleInv, SavedFrom, Bounded
<1>4. Live' \subseteq Live
  BY DEF Inv, RecordTypes, Live
<1>5. AloneInv'
  BY <1>4 DEF Inv, AloneInv
<1>6. FollowInv'
  <2> SUFFICES ASSUME NEW q \in Runs, SessionOf[q] \notin overlapped,
                      pc'[q] \in {"node", "checkpoint"}
               PROVE  /\ pc'[q] = "node" => Started(q)'
                      /\ pc'[q] = "checkpoint" =>
                           /\ mem'[q].stage # "validate_input"
                           /\ Durable!Follows(Cell(saved'[SessionOf[q]]), Cell(mem'[q]))
    BY DEF FollowInv, Cell
  <2>1. CASE q = r
    <3>1. pc'[r] = "node" /\ saved'[s] = mem[r] /\ mem' = mem /\ mem[r].stage # "validate_input"
      BY <1>1, <2>1 DEF Inv, RecordTypes
    <3>2. QED
      BY <2>1, <3>1 DEF Started, Cell
  <2>2. CASE q # r
    <3>1. pc'[q] = pc[q] /\ q \in Live
      BY <2>2 DEF Inv, RecordTypes, Live
    <3>2. SessionOf[q] # s
      BY <2>2, <3>1 DEF Inv, AloneInv
    <3>3. saved'[SessionOf[q]] = saved[SessionOf[q]]
      BY <3>2, PlanGraphAssumption DEF Inv, RecordTypes
    <3>4. QED
      BY <3>1, <3>3 DEF Inv, FollowInv, Started, Cell
  <2>3. QED
    BY <2>1, <2>2
<1>7. Durable!Next \/ Progress' = Progress
  <2>1. /\ s \notin overlapped => Progress' = [Progress EXCEPT ![s] = Cell(record)]
        /\ s \in overlapped => Progress' = Progress
        /\ s \notin overlapped => Progress[s] = Cell(saved[s])
    BY <1>1, OneRecordWritten DEF Inv
  <2>2. CASE s \in overlapped
    BY <2>1, <2>2
  <2>3. CASE s \notin overlapped /\ record = NoRecord
    <3>1. Cell(record) = Durable!NoPlan
      BY <2>3 DEF Cell, NoRecord, Durable!NoPlan
    <3>2. Progress[s] # Durable!Unpromised
      BY <1>1, <2>1, <2>3 DEF Cell, Durable!Unpromised, NoRecord, States, Stages
    <3>3. QED
      BY <1>1, <2>1, <2>3, <3>1, <3>2, AbstractStep
  <2>4. CASE s \notin overlapped /\ record # NoRecord
    <3>1. Cell(record) \in [stage : Durable!PlanStages, round : 0..MaxRepairs]
      BY <2>4 DEF Cell, States, Stages, Durable!PlanStages
    <3>2. QED
      BY <1>1, <2>1, <2>4, <3>1, AbstractStep
  <2>5. QED
    BY <2>2, <2>3, <2>4
<1>8. QED
  BY <1>2, <1>3, <1>5, <1>6, <1>7 DEF Inv

LEMMA NextStep == Inv /\ [Next]_vars => Inv' /\ (Durable!Next \/ Progress' = Progress)
<1> SUFFICES ASSUME Inv, [Next]_vars
             PROVE  Inv' /\ (Durable!Next \/ Progress' = Progress)
  OBVIOUS
<1>1. ASSUME NEW r \in Runs, NEW continuation \in BOOLEAN, RestorePlan(r, continuation)
      PROVE  Inv' /\ (Durable!Next \/ Progress' = Progress)
  BY <1>1, RestoreStep
<1>2. ASSUME NEW r \in Runs, Step(r)
      PROVE  Inv' /\ (Durable!Next \/ Progress' = Progress)
  <2>1. CASE AskForMissing(r)
    BY <2>1, LeaveStep DEF AskForMissing, Live
  <2>2. CASE RenderPlan(r)
    BY <2>2, LeaveStep DEF RenderPlan, Live
  <2>3. CASE DeleteRecord(r)
    <3>1. NoRecord.stage = "none"
      BY DEF NoRecord
    <3>2. QED
      BY <2>3, <3>1, RecordStep DEF DeleteRecord, Live, Bounded
  <2>4. CASE Checkpoint(r)
    <3>1. mem[r] \in States /\ Bounded(mem[r]) /\ mem[r].stage # "validate_input"
      BY <2>4 DEF Checkpoint, Inv, RecordTypes, RoundInv, SavedFrom
    <3>2. SessionOf[r] \notin overlapped =>
              Durable!Follows(Cell(saved[SessionOf[r]]), Cell(mem[r]))
      BY <2>4 DEF Checkpoint, Inv, FollowInv
    <3>3. QED
      BY <2>4, <3>1, <3>2, RecordStep DEF Checkpoint, Live
  <2>5. CASE GiveUpAttempt(r)
    <3>1. /\ UNCHANGED <<saved, mem, overlapped>> /\ r \in Live
          /\ pc' = pc \/ pc' = [pc EXCEPT ![r] = "stopped"]
      BY <2>5 DEF GiveUpAttempt, Live
    <3>2. QED
      BY <3>1, FrameStep, LeaveStep
  <2>6. QED
    BY <1>2, <2>1, <2>2, <2>3, <2>4, <2>5, StageStep DEF Step
<1>3. ASSUME NEW r \in Runs, Stop(r)
      PROVE  Inv' /\ (Durable!Next \/ Progress' = Progress)
  BY <1>3, LeaveStep DEF Stop
<1>4. ASSUME NEW k \in Keys, OtherSession(k)
      PROVE  Inv' /\ (Durable!Next \/ Progress' = Progress)
  BY <1>4, FrameStep DEF OtherSession
<1>5. ASSUME NEW attempt \in late, StoresLate(attempt)
      PROVE  Inv' /\ (Durable!Next \/ Progress' = Progress)
  BY <1>5, FrameStep DEF StoresLate
<1>6. CASE UNCHANGED vars
  BY <1>6, FrameStep DEF vars
<1>7. QED
  BY <1>1, <1>2, <1>3, <1>4, <1>5, <1>6 DEF Next
-----------------------------------------------------------------------------
(* Every reachable state has the invariant: in particular a state that may *)
(* be saved and restored never has more than MaxRepairs repairs behind it, *)
(* and a run alone in its session starts from what the record holds.       *)
(* (_should_repair, _checkpoint, _restore_plan)                            *)
THEOREM Invariance == Spec => []Inv
<1>1. Inv /\ [Next]_vars => Inv'
  BY NextStep
<1>2. QED
  BY InitInv, <1>1, PTL DEF Spec

(* The durable record implements DurablePlan, whichever runs are stopped   *)
(* or restored and however many there are: the stages follow one another   *)
(* and at most MaxRepairs repairs are made.  (DurableProgress)             *)
THEOREM Implementation == Spec => DurableProgress
<1>1. Init => Durable!Init
  BY DEF Init, Durable!Init, Durable!NoPlan, NoRecord
<1>2. Inv /\ [Next]_vars => Durable!Next \/ Progress' = Progress
  BY NextStep
<1>3. Inv /\ [Next]_vars => [Durable!Next]_Progress
  BY <1>2
<1>4. QED
  BY <1>1, <1>3, Invariance, PTL DEF Spec, DurableProgress, Durable!Spec, Progress, Cell
-----------------------------------------------------------------------------
(* The plan store and the notebook.  Both are written when a stage ends    *)
(* and read a checkpoint or a restore later, so what is true of the state  *)
(* of a run must be true of the record as well, and of every stage on the  *)
(* way: ReviewInv for the stored plan, BookInv for the notebook.           *)

TripInv ==
    /\ \A r \in Runs : mem[r].stage # "validate_input" => mem[r].trip \in Trips
    /\ \A s \in Sessions : saved[s] # NoRecord => saved[s].trip \in Trips

Holds(s, state) ==
    state.stage = "review_proposals" =>
        LET stored == plans[PlanKey[state.trip]]
        IN  stored # state.plan =>
                \/ stored = Foreign
                \/ stored \in Plan /\ SessionOf[stored.by] # s
                \/ stored \in givenUp

ReviewInv ==
    \A s \in Sessions \ overlapped :
        /\ Holds(s, saved[s])
        /\ \A r \in Live : SessionOf[r] = s => Holds(s, mem[r])

Stored ==
    /\ plans \in [Keys -> Plan \cup {None, Foreign}]
    /\ late \subseteq [key : Keys, plan : Plan] /\ givenUp \subseteq Plan

LateInv == \A attempt \in late : attempt.plan \in givenUp

Books == [1..5 -> {"todo", "done", "abandoned"}]

Shows(book, stage) ==
    stage \notin {"validate_input", "create_plan"} =>
        /\ book # NoBook
        /\ stage \in {"review_proposals", "repair_plan"} =>
             \A i \in 2..StageOrder(stage) : book[i] \in {"done", "abandoned"}

BookInv ==
    /\ notebook \in [Sessions -> Books \cup {NoBook}]
    /\ \A r \in Runs :
         pc[r] \in {"node", "checkpoint"} /\ SessionOf[r] \notin overlapped
            => Shows(notebook[SessionOf[r]], mem[r].stage)

(* The effects of the stages on memory, one by one. *)
LEMMA Sessioned == ASSUME NEW r \in Runs PROVE SessionOf[r] \in Sessions
  BY PlanGraphAssumption

LEMMA RestoreLeaves ==
    ASSUME Inv, NEW r \in Runs, NEW continuation \in BOOLEAN, RestorePlan(r, continuation)
    PROVE  /\ plans' = plans /\ pc[r] = "idle" /\ pc' = [pc EXCEPT ![r] = "node"]
           /\ overlapped \subseteq overlapped'
           /\ SessionOf[r] \notin overlapped' => \A q \in Live : SessionOf[q] # SessionOf[r]
           /\ \A s \in Sessions : saved'[s] = saved[s] \/ saved'[s] = NoRecord
           /\ \A q \in Runs \ {r} : mem'[q] = mem[q]
           /\ \/ mem'[r] = mem[r] /\ mem[r].stage = "validate_input" /\ notebook' = notebook
              \/ /\ saved[SessionOf[r]] # NoRecord
                 /\ mem'[r].stage = saved[SessionOf[r]].stage
                 /\ mem'[r].trip = saved[SessionOf[r]].trip
                 /\ mem'[r].plan = saved[SessionOf[r]].plan
                 /\ notebook' = [notebook EXCEPT ![SessionOf[r]] =
                                    RestoredBook(saved[SessionOf[r]].stage)]
<1> DEFINE s == SessionOf[r]
           record == saved[s]
<1>1. s \in Sessions /\ record \in States \cup {NoRecord} /\ mem \in [Runs -> States]
  BY Sessioned DEF Inv, RecordTypes
<1>2. /\ plans' = plans /\ pc[r] = "idle" /\ pc' = [pc EXCEPT ![r] = "node"]
      /\ overlapped' = IF \E o \in Live : SessionOf[o] = s THEN overlapped \cup {s}
                       ELSE overlapped
  BY DEF RestorePlan, store
<1>3. mem[r].stage = "validate_input"
  BY <1>2 DEF Inv, IdleInv
<1>4. CASE record = NoRecord /\ UNCHANGED <<saved, mem, notebook>>
  BY <1>1, <1>2, <1>3, <1>4
<1>5. CASE saved' = [saved EXCEPT ![s] = NoRecord] /\ UNCHANGED <<mem, notebook>>
  BY <1>1, <1>2, <1>3, <1>5 DEF Inv, RecordTypes
<1>6. CASE /\ record # NoRecord
           /\ mem' = [mem EXCEPT ![r] = [record EXCEPT !.question = mem[r].question]]
           /\ notebook' = [notebook EXCEPT ![s] = RestoredBook(record.stage)]
           /\ UNCHANGED saved
  <2>1. record \in States
    BY <1>1, <1>6
  <2>2. /\ mem'[r] = [record EXCEPT !.question = mem[r].question]
        /\ \A q \in Runs \ {r} : mem'[q] = mem[q]
    BY <1>1, <1>6
  <2>3. mem'[r].stage = record.stage /\ mem'[r].trip = record.trip /\ mem'[r].plan = record.plan
    BY <2>1, <2>2 DEF States
  <2>4. QED
    BY <1>2, <1>6, <2>2, <2>3
<1>7. QED
  BY <1>4, <1>5, <1>6 DEF RestorePlan

(* A stage: what it leaves in memory, in the store and in the notebook. *)
Leaves(r, from, to) ==
    /\ pc[r] = "node" /\ mem[r].stage = from
    /\ pc' = [pc EXCEPT ![r] = "checkpoint"]
    /\ \A q \in Runs \ {r} : mem'[q] = mem[q]
    /\ mem'[r].stage = to
    /\ IF from = "validate_input" THEN mem'[r].trip \in Trips ELSE mem'[r].trip = mem[r].trip
    /\ UNCHANGED <<saved, overlapped>>

LEMMA StageLeaves ==
    ASSUME Inv, NEW r \in Runs, NEW from, NEW state, Ends(r, from, state),
           IF from = "validate_input" THEN state.trip \in Trips ELSE state.trip = mem[r].trip
    PROVE  Leaves(r, from, state.stage) /\ mem'[r] = state
<1>1. mem \in [Runs -> States]
  BY DEF Inv, RecordTypes
<1>2. QED
  BY <1>1 DEF Ends, Leaves

StageAction(r) ==
    \/ \E trip \in Trips : ValidateInput(r, trip)
    \/ CreatePlan(r) \/ LoadConstraints(r) \/ EnsureCandidates(r)
    \/ GenerateProposals(r)
    \/ \E continue \in BOOLEAN : ReviewProposals(r, continue)
    \/ \E changed \in BOOLEAN : RepairPlan(r, changed)

LEMMA StageKinds ==
    ASSUME Inv, NEW r \in Runs, StageAction(r)
    PROVE  \/ /\ Leaves(r, "validate_input", "create_plan") /\ UNCHANGED <<plans, notebook>>
           \/ /\ Leaves(r, "create_plan", "load_constraints") /\ UNCHANGED plans
              /\ notebook' = [notebook EXCEPT ![SessionOf[r]] = NewBook]
           \/ /\ Leaves(r, "load_constraints", "ensure_candidates") /\ UNCHANGED plans
              /\ Marked(r, 1, "done")
           \/ Leaves(r, "ensure_candidates", "generate_proposals") /\ UNCHANGED <<plans, notebook>>
           \/ /\ Leaves(r, "generate_proposals", "review_proposals") /\ Marked(r, 2, "done")
              /\ \E made \in Plan :
                   /\ made.by = r /\ mem'[r].plan = made
                   /\ plans' = [plans EXCEPT ![PlanKey[mem[r].trip]] = made]
           \/ /\ Leaves(r, "generate_proposals", "render_plan") /\ Marked(r, 2, "abandoned")
              /\ UNCHANGED plans
           \/ /\ \E to \in {"repair_plan", "render_plan"} : Leaves(r, "review_proposals", to)
              /\ Marked(r, 3, "done") /\ UNCHANGED plans
           \/ /\ \E to \in {"generate_proposals", "render_plan"} : Leaves(r, "repair_plan", to)
              /\ Marked(r, 4, "done") /\ UNCHANGED plans
<1> DEFINE m == mem[r]
<1>1. m \in States
  BY DEF Inv, RecordTypes
<1>2. ASSUME NEW trip \in Trips, ValidateInput(r, trip)
      PROVE  Leaves(r, "validate_input", "create_plan") /\ UNCHANGED <<plans, notebook>>
  <2> DEFINE next == [m EXCEPT !.stage = "create_plan", !.trip = trip]
  <2>1. Ends(r, "validate_input", next) /\ UNCHANGED <<plans, notebook>>
    BY <1>2 DEF ValidateInput, store
  <2>2. next.stage = "create_plan" /\ next.trip \in Trips
    BY <1>1 DEF States
  <2> HIDE DEF next
  <2>3. Leaves(r, "validate_input", "create_plan")
    BY <2>1, <2>2, StageLeaves
  <2>4. QED
    BY <2>1, <2>3
<1>3. CASE CreatePlan(r)
  <2> DEFINE next == [m EXCEPT !.stage = "load_constraints"]
  <2>1. Ends(r, "create_plan", next)
    BY <1>3 DEF CreatePlan
  <2>2. next.stage = "load_constraints" /\ next.trip = m.trip
    BY <1>1 DEF States
  <2> HIDE DEF next
  <2>3. Leaves(r, "create_plan", "load_constraints")
    BY <2>1, <2>2, StageLeaves
  <2>4. QED
    BY <1>3, <2>3 DEF CreatePlan, store
<1>4. CASE LoadConstraints(r)
  <2> DEFINE next == [m EXCEPT !.stage = "ensure_candidates"]
  <2>1. Ends(r, "load_constraints", next)
    BY <1>4 DEF LoadConstraints
  <2>2. next.stage = "ensure_candidates" /\ next.trip = m.trip
    BY <1>1 DEF States
  <2> HIDE DEF next
  <2>3. Leaves(r, "load_constraints", "ensure_candidates")
    BY <2>1, <2>2, StageLeaves
  <2>4. QED
    BY <1>4, <2>3 DEF LoadConstraints, store
<1>5. CASE EnsureCandidates(r)
  <2> DEFINE next == [m EXCEPT !.stage = "generate_proposals"]
  <2>1. Ends(r, "ensure_candidates", next)
    BY <1>5 DEF EnsureCandidates
  <2>2. next.stage = "generate_proposals" /\ next.trip = m.trip
    BY <1>1 DEF States
  <2> HIDE DEF next
  <2>3. Leaves(r, "ensure_candidates", "generate_proposals")
    BY <2>1, <2>2, StageLeaves
  <2>4. QED
    BY <1>5, <2>3 DEF EnsureCandidates, store
<1>6. CASE GenerateProposals(r)
  <2>0. PICK made \in Plan :
         /\ InHand(r, made)
         /\ \/ /\ Ends(r, "generate_proposals",
                        [m EXCEPT !.stage = "review_proposals", !.plan = made])
               /\ plans' = [plans EXCEPT ![PlanKey[m.trip]] = made] /\ Marked(r, 2, "done")
            \/ /\ Ends(r, "generate_proposals", [m EXCEPT !.stage = "render_plan", !.plan = None])
               /\ Marked(r, 2, "abandoned") /\ UNCHANGED plans
    BY <1>6 DEF GenerateProposals
  <2> DEFINE planned == [m EXCEPT !.stage = "review_proposals", !.plan = made]
             failed == [m EXCEPT !.stage = "render_plan", !.plan = None]
  <2>1. \/ /\ Ends(r, "generate_proposals", planned)
           /\ plans' = [plans EXCEPT ![PlanKey[m.trip]] = made] /\ Marked(r, 2, "done")
        \/ /\ Ends(r, "generate_proposals", failed) /\ Marked(r, 2, "abandoned")
           /\ UNCHANGED plans
    BY <2>0
  <2>2. /\ planned.stage = "review_proposals" /\ planned.trip = m.trip /\ planned.plan = made
        /\ failed.stage = "render_plan" /\ failed.trip = m.trip
    BY <1>1 DEF States
  <2> HIDE DEF planned, failed
  <2>3. CASE Ends(r, "generate_proposals", planned) /\ Marked(r, 2, "done")
             /\ plans' = [plans EXCEPT ![PlanKey[m.trip]] = made]
    <3>1. Leaves(r, "generate_proposals", "review_proposals") /\ mem'[r] = planned
      BY <2>2, <2>3, StageLeaves
    <3>2. made.by = r /\ mem'[r].plan = made
      BY <2>0, <2>2, <3>1 DEF InHand
    <3>3. QED
      BY <2>3, <3>1, <3>2
  <2>4. CASE Ends(r, "generate_proposals", failed) /\ Marked(r, 2, "abandoned")
             /\ UNCHANGED plans
    <3>1. Leaves(r, "generate_proposals", "render_plan")
      BY <2>2, <2>4, StageLeaves
    <3>2. QED
      BY <2>4, <3>1
  <2>5. QED
    BY <2>1, <2>3, <2>4
<1>7. ASSUME NEW continue \in BOOLEAN, ReviewProposals(r, continue)
      PROVE  /\ \E to \in {"repair_plan", "render_plan"} : Leaves(r, "review_proposals", to)
             /\ Marked(r, 3, "done") /\ UNCHANGED plans
  <2> DEFINE next == [m EXCEPT !.stage = IF ShouldRepair(m, continue) THEN "repair_plan"
                                                                      ELSE "render_plan"]
  <2>1. Ends(r, "review_proposals", next) /\ Marked(r, 3, "done") /\ UNCHANGED plans
    BY <1>7 DEF ReviewProposals, store
  <2>2. next.stage \in {"repair_plan", "render_plan"} /\ next.trip = m.trip
    BY <1>1 DEF States
  <2> HIDE DEF next
  <2>3. Leaves(r, "review_proposals", next.stage)
    BY <2>1, <2>2, StageLeaves
  <2>4. QED
    BY <2>1, <2>2, <2>3
<1>8. ASSUME NEW changed \in BOOLEAN, RepairPlan(r, changed)
      PROVE  /\ \E to \in {"generate_proposals", "render_plan"} : Leaves(r, "repair_plan", to)
             /\ Marked(r, 4, "done") /\ UNCHANGED plans
  <2> DEFINE next == [m EXCEPT !.stage = IF changed THEN "generate_proposals" ELSE "render_plan",
                               !.round = @ + 1, !.stop = ~changed]
  <2>1. Ends(r, "repair_plan", next) /\ Marked(r, 4, "done") /\ UNCHANGED plans
    BY <1>8 DEF RepairPlan, store
  <2>2. next.stage \in {"generate_proposals", "render_plan"} /\ next.trip = m.trip
    BY <1>1 DEF States
  <2> HIDE DEF next
  <2>3. Leaves(r, "repair_plan", next.stage)
    BY <2>1, <2>2, StageLeaves
  <2>4. QED
    BY <2>1, <2>2, <2>3
<1>9. QED
  BY <1>2, <1>3, <1>4, <1>5, <1>6, <1>7, <1>8 DEF StageAction

(* The other steps of runs: nothing is left in memory. *)
LEMMA OtherSteps ==
    ASSUME Inv, NEW r \in Runs,
           \/ AskForMissing(r) \/ GiveUpAttempt(r) \/ RenderPlan(r) \/ DeleteRecord(r)
           \/ Checkpoint(r) \/ Stop(r)
    PROVE  /\ r \in Live /\ UNCHANGED <<mem, plans, overlapped>>
           /\ \A q \in Runs \ {r} : pc'[q] = pc[q]
           /\ \A s \in Sessions :
                \/ saved'[s] = saved[s]
                \/ saved'[s] = NoRecord
                \/ saved'[s] = mem[r] /\ s = SessionOf[r] /\ mem[r].stage # "validate_input"
           /\ \/ notebook' = notebook /\ (pc'[r] = "node" => pc[r] \in {"node", "checkpoint"})
              \/ /\ notebook' = [notebook EXCEPT ![SessionOf[r]] = NoBook]
                 /\ pc'[r] \notin {"node", "checkpoint"}
<1>1. /\ saved \in [Sessions -> States \cup {NoRecord}] /\ DOMAIN pc = Runs
      /\ pc[r] = "checkpoint" => mem[r].stage # "validate_input"
  BY DEF Inv, RecordTypes, SavedFrom
<1>2. CASE AskForMissing(r)
  BY <1>1, <1>2 DEF AskForMissing, Live, store
<1>3. CASE RenderPlan(r)
  BY <1>1, <1>3 DEF RenderPlan, Live, store
<1>4. CASE DeleteRecord(r)
  BY <1>1, <1>4 DEF DeleteRecord, Live, store
<1>5. CASE Checkpoint(r)
  BY <1>1, <1>5 DEF Checkpoint, Live, store
<1>6. CASE Stop(r)
  BY <1>1, <1>6 DEF Stop, Live, store
<1>7. CASE GiveUpAttempt(r)
  BY <1>1, <1>7 DEF GiveUpAttempt, Live
<1>8. QED
  BY <1>2, <1>3, <1>4, <1>5, <1>6, <1>7

OtherStep(r) ==
    \/ AskForMissing(r) \/ GiveUpAttempt(r) \/ RenderPlan(r) \/ DeleteRecord(r)
    \/ Checkpoint(r) \/ Stop(r)

LEMMA Kinds ==
    ASSUME [Next]_vars
    PROVE  \/ \E r \in Runs, continuation \in BOOLEAN : RestorePlan(r, continuation)
           \/ \E r \in Runs : StageAction(r) \/ OtherStep(r)
           \/ \E attempt \in late : StoresLate(attempt)
           \/ \E k \in Keys : OtherSession(k)
           \/ UNCHANGED vars
  BY DEF Next, Step, StageAction, OtherStep

LEMMA TripStep == Inv /\ TripInv /\ [Next]_vars => TripInv'
<1> SUFFICES ASSUME Inv, TripInv, [Next]_vars PROVE TripInv'
  OBVIOUS
<1>1. ASSUME NEW r \in Runs, NEW continuation \in BOOLEAN, RestorePlan(r, continuation)
      PROVE  TripInv'
  <2>1. SessionOf[r] \in Sessions
    BY Sessioned
  <2>2. QED
    BY <1>1, <2>1, RestoreLeaves DEF TripInv
<1>2. ASSUME NEW r \in Runs, StageAction(r) PROVE TripInv'
  <2>1. PICK from, to : Leaves(r, from, to) /\ from \in Stages
    BY <1>2, StageKinds DEF Stages
  <2>2. QED
    BY <2>1 DEF Leaves, TripInv
<1>3. ASSUME NEW r \in Runs, OtherStep(r) PROVE TripInv'
  BY <1>3, OtherSteps DEF OtherStep, TripInv
<1>4. ASSUME NEW k \in Keys, OtherSession(k) PROVE TripInv'
  BY <1>4 DEF OtherSession, TripInv
<1>5. ASSUME NEW attempt \in late, StoresLate(attempt) PROVE TripInv'
  BY <1>5 DEF StoresLate, TripInv
<1>6. CASE UNCHANGED vars
  BY <1>6 DEF vars, TripInv
<1>7. QED
  BY <1>1, <1>2, <1>3, <1>4, <1>5, <1>6, Kinds

(* What the plan store and the attempts given up go through in a step. *)
LEMMA StoreStep ==
    ASSUME [Next]_vars
    PROVE  \/ UNCHANGED store
           \/ /\ \E r \in Runs, plan \in Plan :
                   /\ mem[r].stage = "generate_proposals"
                   /\ plans' = [plans EXCEPT ![PlanKey[mem[r].trip]] = plan]
              /\ UNCHANGED <<late, givenUp>>
           \/ /\ \E r \in Runs, plan \in Plan :
                   /\ mem[r].stage = "generate_proposals"
                   /\ givenUp' = givenUp \cup {plan}
                   /\ late' = late \cup {[key |-> PlanKey[mem[r].trip], plan |-> plan]}
              /\ plans' = plans
           \/ /\ \E attempt \in late :
                   /\ plans' = [plans EXCEPT ![attempt.key] = attempt.plan]
                   /\ late' = late \ {attempt}
              /\ givenUp' = givenUp
           \/ /\ \E k \in Keys : plans' = [plans EXCEPT ![k] = Foreign]
              /\ UNCHANGED <<late, givenUp>>
<1>1. ASSUME NEW r \in Runs, GenerateProposals(r)
      PROVE  /\ \/ plans' = plans
                \/ \E plan \in Plan : /\ mem[r].stage = "generate_proposals"
                                      /\ plans' = [plans EXCEPT ![PlanKey[mem[r].trip]] = plan]
             /\ UNCHANGED <<late, givenUp>>
  BY <1>1 DEF GenerateProposals, Ends
<1>2. ASSUME NEW r \in Runs, GiveUpAttempt(r)
      PROVE  /\ \E plan \in Plan :
                   /\ mem[r].stage = "generate_proposals"
                   /\ givenUp' = givenUp \cup {plan}
                   /\ late' = late \cup {[key |-> PlanKey[mem[r].trip], plan |-> plan]}
             /\ plans' = plans
  BY <1>2 DEF GiveUpAttempt
<1>3. ASSUME NEW attempt \in late, StoresLate(attempt)
      PROVE  /\ plans' = [plans EXCEPT ![attempt.key] = attempt.plan]
             /\ late' = late \ {attempt} /\ givenUp' = givenUp
  BY <1>3 DEF StoresLate
<1>4. ASSUME NEW k \in Keys, OtherSession(k)
      PROVE  plans' = [plans EXCEPT ![k] = Foreign] /\ UNCHANGED <<late, givenUp>>
  BY <1>4 DEF OtherSession
<1>5. ASSUME NEW r \in Runs,
             \/ \E continuation \in BOOLEAN : RestorePlan(r, continuation)
             \/ \E trip \in Trips : ValidateInput(r, trip)
             \/ AskForMissing(r) \/ CreatePlan(r) \/ LoadConstraints(r) \/ EnsureCandidates(r)
             \/ \E continue \in BOOLEAN : ReviewProposals(r, continue)
             \/ \E changed \in BOOLEAN : RepairPlan(r, changed)
             \/ RenderPlan(r) \/ DeleteRecord(r) \/ Checkpoint(r) \/ Stop(r)
      PROVE  UNCHANGED store
  BY <1>5 DEF RestorePlan, ValidateInput, AskForMissing, CreatePlan, LoadConstraints,
     EnsureCandidates, ReviewProposals, RepairPlan, RenderPlan, DeleteRecord, Checkpoint, Stop
<1>6. UNCHANGED vars => UNCHANGED store
  BY DEF vars
<1>7. QED
  BY <1>1, <1>2, <1>3, <1>4, <1>5, <1>6 DEF Next, Step, store

LEMMA StoredStep ==
    Inv /\ TripInv /\ Stored /\ LateInv /\ [Next]_vars => Stored' /\ LateInv' /\ givenUp \subseteq givenUp'
<1> SUFFICES ASSUME Inv, TripInv, Stored, LateInv, [Next]_vars
             PROVE  Stored' /\ LateInv' /\ givenUp \subseteq givenUp'
  OBVIOUS
<1>1. \A r \in Runs : mem[r].stage = "generate_proposals" => PlanKey[mem[r].trip] \in Keys
  BY PlanGraphAssumption DEF TripInv
<1>2. CASE UNCHANGED store
  BY <1>2 DEF store, Stored, LateInv
<1>3. ASSUME NEW r \in Runs, NEW plan \in Plan, UNCHANGED <<late, givenUp>>,
             plans' = [plans EXCEPT ![PlanKey[mem[r].trip]] = plan]
      PROVE  Stored' /\ LateInv' /\ givenUp \subseteq givenUp'
  BY <1>3 DEF Stored, LateInv
<1>4. ASSUME NEW r \in Runs, NEW plan \in Plan, mem[r].stage = "generate_proposals",
             givenUp' = givenUp \cup {plan}, plans' = plans,
             late' = late \cup {[key |-> PlanKey[mem[r].trip], plan |-> plan]}
      PROVE  Stored' /\ LateInv' /\ givenUp \subseteq givenUp'
  BY <1>1, <1>4 DEF Stored, LateInv
<1>5. ASSUME NEW attempt \in late, plans' = [plans EXCEPT ![attempt.key] = attempt.plan],
             late' = late \ {attempt}, givenUp' = givenUp
      PROVE  Stored' /\ LateInv' /\ givenUp \subseteq givenUp'
  BY <1>5 DEF Stored, LateInv
<1>6. ASSUME NEW k \in Keys, plans' = [plans EXCEPT ![k] = Foreign], UNCHANGED <<late, givenUp>>
      PROVE  Stored' /\ LateInv' /\ givenUp \subseteq givenUp'
  BY <1>6 DEF Stored, LateInv
<1>7. QED
  BY <1>2, <1>3, <1>4, <1>5, <1>6, StoreStep

(* Types, with the plan store and the attempts that may still write it,    *)
(* whose keys are those of the trips.                                      *)
THEOREM TypeCorrect == Spec => []TypeOK
<1>1. Init => TripInv /\ Stored /\ LateInv
  BY DEF Init, TripInv, Stored, LateInv, NoRecord, Fresh
<1>2. Inv /\ Stored => TypeOK
  BY DEF Inv, RecordTypes, Stored, TypeOK
<1>3. QED
  BY <1>1, <1>2, TripStep, StoredStep, Invariance, PTL DEF Spec

(* A run that is at work in a session without overlap is the only one. *)
LEMMA Alone ==
    ASSUME Inv, NEW r \in Live, NEW q \in Live, SessionOf[q] = SessionOf[r],
           SessionOf[r] \notin overlapped
    PROVE  q = r
  BY DEF Inv, AloneInv

LEMMA ReviewStep ==
    Inv /\ TripInv /\ Stored /\ LateInv /\ ReviewInv /\ [Next]_vars => ReviewInv'
<1> SUFFICES ASSUME Inv, TripInv, Stored, LateInv, ReviewInv, [Next]_vars,
                    NEW s \in Sessions, s \notin overlapped'
             PROVE  /\ Holds(s, saved[s])'
                    /\ \A r \in Live' : SessionOf[r] = s => Holds(s, mem[r])'
  BY DEF ReviewInv
<1>0. givenUp \subseteq givenUp'
  BY StoredStep
<1>1. ASSUME NEW r \in Runs, NEW continuation \in BOOLEAN, RestorePlan(r, continuation)
      PROVE  /\ Holds(s, saved[s])'
             /\ \A q \in Live' : SessionOf[q] = s => Holds(s, mem[q])'
  <2>1. /\ plans' = plans /\ pc' = [pc EXCEPT ![r] = "node"] /\ s \notin overlapped
        /\ saved'[s] = saved[s] \/ saved'[s] = NoRecord
        /\ \A q \in Runs \ {r} : mem'[q] = mem[q]
        /\ \/ mem'[r].stage = "validate_input"
           \/ /\ mem'[r].stage = saved[SessionOf[r]].stage
              /\ mem'[r].trip = saved[SessionOf[r]].trip
              /\ mem'[r].plan = saved[SessionOf[r]].plan
    BY <1>1, RestoreLeaves
  <2>2. Holds(s, saved[s]) /\ \A q \in Live : SessionOf[q] = s => Holds(s, mem[q])
    BY <2>1 DEF ReviewInv
  <2>3. NoRecord.stage # "review_proposals"
    BY DEF NoRecord
  <2>4. Holds(s, saved[s])'
    BY <1>0, <2>1, <2>2, <2>3 DEF Holds
  <2>5. ASSUME NEW q \in Live', SessionOf[q] = s PROVE Holds(s, mem[q])'
    <3>1. CASE q = r
      BY <1>0, <2>1, <2>2, <2>5, <3>1 DEF Holds
    <3>2. CASE q # r
      <4>1. q \in Live /\ mem'[q] = mem[q]
        BY <2>1, <3>2 DEF Live, Inv, RecordTypes
      <4>2. QED
        BY <1>0, <2>1, <2>2, <2>5, <4>1 DEF Holds
    <3>3. QED
      BY <3>1, <3>2
  <2>6. QED
    BY <2>4, <2>5
<1>2. ASSUME NEW r \in Runs, StageAction(r)
      PROVE  /\ Holds(s, saved[s])'
             /\ \A q \in Live' : SessionOf[q] = s => Holds(s, mem[q])'
  <2>1. PICK from, to :
          /\ Leaves(r, from, to)
          /\ \/ plans' = plans /\ to # "review_proposals"
             \/ /\ from = "generate_proposals"
                /\ \E made \in Plan :
                     /\ made.by = r /\ mem'[r].plan = made
                     /\ plans' = [plans EXCEPT ![PlanKey[mem[r].trip]] = made]
    BY <1>2, StageKinds
  <2>2. /\ s \notin overlapped /\ saved'[s] = saved[s] /\ r \in Live
        /\ \A q \in Runs \ {r} : mem'[q] = mem[q]
        /\ Live' = Live
    BY <2>1 DEF Leaves, Live, Inv, RecordTypes
  <2>3. Holds(s, saved[s]) /\ \A q \in Live : SessionOf[q] = s => Holds(s, mem[q])
    BY <2>2 DEF ReviewInv
  <2>4. CASE plans' = plans /\ to # "review_proposals"
    <3>1. mem'[r].stage # "review_proposals"
      BY <2>1, <2>4 DEF Leaves
    <3>2. Holds(s, saved[s])'
      BY <1>0, <2>2, <2>3, <2>4 DEF Holds
    <3>3. ASSUME NEW q \in Live, SessionOf[q] = s PROVE Holds(s, mem[q])'
      <4>1. CASE q = r
        BY <1>0, <3>1, <4>1 DEF Holds
      <4>2. CASE q # r
        <5>1. mem'[q] = mem[q]
          BY <2>2, <4>2 DEF Live
        <5>2. QED
          BY <1>0, <2>3, <2>4, <3>3, <5>1 DEF Holds
      <4>3. QED
        BY <4>1, <4>2
    <3>4. QED
      BY <2>2, <3>2, <3>3
  <2>5. ASSUME from = "generate_proposals",
               NEW made \in Plan, made.by = r, mem'[r].plan = made,
               plans' = [plans EXCEPT ![PlanKey[mem[r].trip]] = made]
        PROVE  /\ Holds(s, saved[s])'
               /\ \A q \in Live' : SessionOf[q] = s => Holds(s, mem[q])'
    <3>1. /\ mem[r].stage = "generate_proposals" /\ mem'[r].trip = mem[r].trip
          /\ pc[r] = "node"
      BY <2>1, <2>5 DEF Leaves
    <3>2. PlanKey[mem[r].trip] \in Keys /\ plans \in [Keys -> Plan \cup {None, Foreign}]
      BY <3>1, PlanGraphAssumption DEF TripInv, Stored
    <3>3. made \in Plan /\ made.by = r
      BY <2>5
    <3>4. \A k : plans'[k] = plans[k] \/ plans'[k] = made
      BY <2>5, <3>2
    <3>5. CASE SessionOf[r] # s
      <4>1. \A q \in Live : SessionOf[q] = s => mem'[q] = mem[q]
        BY <2>2, <3>5 DEF Live
      <4>2. Holds(s, saved[s])'
        BY <1>0, <2>2, <2>3, <3>3, <3>4, <3>5 DEF Holds
      <4>3. ASSUME NEW q \in Live, SessionOf[q] = s PROVE Holds(s, mem[q])'
        BY <1>0, <2>3, <3>3, <3>4, <3>5, <4>1, <4>3 DEF Holds
      <4>4. QED
        BY <2>2, <4>2, <4>3
    <3>6. CASE SessionOf[r] = s
      <4>1. saved[s].stage = "generate_proposals"
        BY <2>2, <3>1, <3>6 DEF Inv, FollowInv, Started, Cell
      <4>2. \A q \in Live : SessionOf[q] = s => q = r
        BY <2>2, <3>6, Alone
      <4>3. plans'[PlanKey[mem'[r].trip]] = mem'[r].plan
        BY <2>5, <3>1, <3>2
      <4>4. QED
        BY <1>0, <2>2, <4>1, <4>2, <4>3 DEF Holds
    <3>7. QED
      BY <3>5, <3>6
  <2>6. QED
    BY <2>1, <2>4, <2>5
<1>3. ASSUME NEW r \in Runs, OtherStep(r)
      PROVE  /\ Holds(s, saved[s])'
             /\ \A q \in Live' : SessionOf[q] = s => Holds(s, mem[q])'
  <2>1. /\ r \in Live /\ mem' = mem /\ plans' = plans /\ s \notin overlapped
        /\ \A q \in Runs \ {r} : pc'[q] = pc[q]
        /\ \/ saved'[s] = saved[s]
           \/ saved'[s] = NoRecord
           \/ saved'[s] = mem[r] /\ s = SessionOf[r]
    BY <1>3, OtherSteps DEF OtherStep
  <2>2. Holds(s, saved[s]) /\ \A q \in Live : SessionOf[q] = s => Holds(s, mem[q])
    BY <2>1 DEF ReviewInv
  <2>3. Live' \subseteq Live
    BY <2>1 DEF Live
  <2>4. NoRecord.stage # "review_proposals"
    BY DEF NoRecord
  <2>5. QED
    BY <1>0, <2>1, <2>2, <2>3, <2>4 DEF Holds
<1>4. ASSUME NEW k \in Keys, OtherSession(k)
      PROVE  /\ Holds(s, saved[s])'
             /\ \A q \in Live' : SessionOf[q] = s => Holds(s, mem[q])'
  <2>1. /\ saved'[s] = saved[s] /\ Live' = Live /\ s \notin overlapped
        /\ \A q \in Live : mem'[q] = mem[q]
        /\ plans' = [plans EXCEPT ![k] = Foreign]
    BY <1>4 DEF OtherSession, Live
  <2>2. Holds(s, saved[s]) /\ \A q \in Live : SessionOf[q] = s => Holds(s, mem[q])
    BY <2>1 DEF ReviewInv
  <2>3. \A j : plans'[j] = plans[j] \/ plans'[j] = Foreign
    BY <2>1 DEF Stored
  <2>4. QED
    BY <1>0, <2>1, <2>2, <2>3 DEF Holds
<1>5. ASSUME NEW attempt \in late, StoresLate(attempt)
      PROVE  /\ Holds(s, saved[s])'
             /\ \A q \in Live' : SessionOf[q] = s => Holds(s, mem[q])'
  <2>1. /\ saved'[s] = saved[s] /\ Live' = Live /\ s \notin overlapped
        /\ \A q \in Live : mem'[q] = mem[q]
        /\ plans' = [plans EXCEPT ![attempt.key] = attempt.plan]
    BY <1>5 DEF StoresLate, Live
  <2>2. Holds(s, saved[s]) /\ \A q \in Live : SessionOf[q] = s => Holds(s, mem[q])
    BY <2>1 DEF ReviewInv
  <2>3. attempt.plan \in givenUp'
    BY <1>0, <1>5 DEF LateInv
  <2>4. \A j : plans'[j] = plans[j] \/ plans'[j] = attempt.plan
    BY <2>1 DEF Stored
  <2>5. QED
    BY <1>0, <2>1, <2>2, <2>3, <2>4 DEF Holds
<1>6. CASE UNCHANGED vars
  BY <1>6 DEF vars, ReviewInv, Holds, Live, store
<1>7. QED
  BY <1>1, <1>2, <1>3, <1>4, <1>5, <1>6, Kinds

(* The notebook. *)
LEMMA BookMarked ==
    ASSUME NEW book \in Books \cup {NoBook}, NEW i \in 1..5,
           NEW state \in {"todo", "done", "abandoned"}
    PROVE  /\ Mark(book, i, state) \in Books \cup {NoBook}
           /\ book # NoBook =>
                /\ Mark(book, i, state) # NoBook
                /\ Mark(book, i, state)[i] = state
                /\ \A j \in 1..5 \ {i} : Mark(book, i, state)[j] = book[j]
<1>1. \A b \in Books : b # NoBook
  BY DEF Books, NoBook
<1>2. CASE book = NoBook
  BY <1>2 DEF Mark
<1>3. CASE book \in Books /\ book # NoBook
  <2>1. /\ Mark(book, i, state) = [book EXCEPT ![i] = state]
        /\ [book EXCEPT ![i] = state] \in Books
    BY <1>3 DEF Mark, Books
  <2>2. QED
    BY <1>1, <1>3, <2>1 DEF Books
<1>4. QED
  BY <1>2, <1>3

LEMMA BookRestored ==
    ASSUME NEW stage
    PROVE  /\ RestoredBook(stage) \in Books /\ RestoredBook(stage) # NoBook
           /\ Shows(RestoredBook(stage), stage)
<1>1. StageOrder(stage) \in 0..4
  BY DEF StageOrder
<1>2. RestoredBook(stage) \in Books
  BY <1>1 DEF RestoredBook, Books
<1>3. RestoredBook(stage) # NoBook
  BY <1>2 DEF Books, NoBook
<1>4. \A i \in 2..StageOrder(stage) : RestoredBook(stage)[i] = "done"
  BY <1>1 DEF RestoredBook
<1>5. QED
  BY <1>2, <1>3, <1>4 DEF Shows

AtWork(q) == pc[q] \in {"node", "checkpoint"} /\ SessionOf[q] \notin overlapped

(* What a run at work does to the notebook of its session concerns no      *)
(* other run of which something is claimed.                                *)
LEMMA BookOfOthers ==
    ASSUME Inv, BookInv, NEW r \in Live, NEW q \in Runs \ {r}, overlapped' = overlapped,
           pc'[q] = pc[q], mem'[q] = mem[q], AtWork(q)',
           \A t \in Sessions \ {SessionOf[r]} : notebook'[t] = notebook[t]
    PROVE  Shows(notebook'[SessionOf[q]], mem'[q].stage)
<1>1. q \in Live /\ AtWork(q) /\ SessionOf[q] \in Sessions
  BY Sessioned DEF AtWork, Live
<1>2. SessionOf[q] # SessionOf[r]
  BY <1>1, Alone DEF AtWork
<1>3. QED
  BY <1>1, <1>2 DEF BookInv, AtWork

(* A stage shows in the notebook what it leaves behind. *)
LEMMA StageBook ==
    ASSUME Inv, BookInv, NEW r \in Runs, StageAction(r)
    PROVE  /\ notebook' \in [Sessions -> Books \cup {NoBook}]
           /\ \A t \in Sessions \ {SessionOf[r]} : notebook'[t] = notebook[t]
           /\ SessionOf[r] \notin overlapped =>
                Shows(notebook'[SessionOf[r]], mem'[r].stage)
<1> DEFINE s == SessionOf[r]
           book == notebook[s]
<1>1. s \in Sessions /\ book \in Books \cup {NoBook} /\ pc[r] = "node"
  BY Sessioned, StageKinds DEF BookInv, Leaves
<1>2. s \notin overlapped => Shows(book, mem[r].stage)
  BY <1>1 DEF BookInv
<1>3. NewBook \in Books /\ NewBook # NoBook
  BY DEF NewBook, Books, NoBook
<1>4. StageOrder("review_proposals") = 2 /\ StageOrder("repair_plan") = 3
  BY DEF StageOrder
<1>5. \A i \in 1..4 : \A state \in {"done", "abandoned"} :
        Marked(r, i, state) => /\ notebook' = [notebook EXCEPT ![s] = Mark(book, i, state)]
                               /\ notebook' \in [Sessions -> Books \cup {NoBook}]
                               /\ notebook'[s] = Mark(book, i, state)
                               /\ \A t \in Sessions \ {s} : notebook'[t] = notebook[t]
  BY <1>1, BookMarked DEF BookInv, Marked
<1>6. CASE Leaves(r, "validate_input", "create_plan") /\ UNCHANGED <<plans, notebook>>
  BY <1>6 DEF BookInv, Leaves, Shows
<1>7. CASE /\ Leaves(r, "create_plan", "load_constraints")
           /\ notebook' = [notebook EXCEPT ![s] = NewBook]
  BY <1>1, <1>3, <1>7 DEF BookInv, Leaves, Shows
<1>8. CASE Leaves(r, "load_constraints", "ensure_candidates") /\ Marked(r, 1, "done")
  BY <1>1, <1>2, <1>5, <1>8, BookMarked DEF Leaves, Shows
<1>9. CASE Leaves(r, "ensure_candidates", "generate_proposals") /\ notebook' = notebook
  BY <1>2, <1>9 DEF BookInv, Leaves, Shows
<1>10. CASE Leaves(r, "generate_proposals", "review_proposals") /\ Marked(r, 2, "done")
  <2>1. s \notin overlapped => book # NoBook
    BY <1>2, <1>10 DEF Leaves, Shows
  <2>2. \A i \in 2..StageOrder("review_proposals") : i = 2
    BY <1>4
  <2>3. mem'[r].stage = "review_proposals" /\ notebook'[s] = Mark(book, 2, "done")
    BY <1>5, <1>10 DEF Leaves
  <2>4. s \notin overlapped => Mark(book, 2, "done") # NoBook /\ Mark(book, 2, "done")[2] = "done"
    BY <1>1, <2>1, BookMarked
  <2>5. s \notin overlapped => Shows(notebook'[s], mem'[r].stage)
    BY <2>2, <2>3, <2>4 DEF Shows
  <2>6. QED
    BY <1>5, <1>10, <2>5
<1>11. CASE Leaves(r, "generate_proposals", "render_plan") /\ Marked(r, 2, "abandoned")
  BY <1>1, <1>2, <1>5, <1>11, BookMarked DEF Leaves, Shows
<1>12. CASE /\ \E to \in {"repair_plan", "render_plan"} : Leaves(r, "review_proposals", to)
            /\ Marked(r, 3, "done")
  <2>1. /\ s \notin overlapped => book # NoBook /\ book[2] \in {"done", "abandoned"}
        /\ mem'[r].stage \in {"repair_plan", "render_plan"}
        /\ notebook'[s] = Mark(book, 3, "done")
    BY <1>2, <1>4, <1>5, <1>12 DEF Leaves, Shows
  <2>2. \A i \in 2..StageOrder("repair_plan") : i \in {2, 3}
    BY <1>4
  <2>3. s \notin overlapped =>
          /\ Mark(book, 3, "done") # NoBook /\ Mark(book, 3, "done")[3] = "done"
          /\ Mark(book, 3, "done")[2] = book[2]
    BY <1>1, <2>1, BookMarked
  <2>4. s \notin overlapped => Shows(notebook'[s], mem'[r].stage)
    BY <2>1, <2>2, <2>3 DEF Shows
  <2>5. QED
    BY <1>5, <1>12, <2>4
<1>13. CASE /\ \E to \in {"generate_proposals", "render_plan"} : Leaves(r, "repair_plan", to)
            /\ Marked(r, 4, "done")
  BY <1>1, <1>2, <1>5, <1>13, BookMarked DEF Leaves, Shows
<1>14. QED
  BY <1>6, <1>7, <1>8, <1>9, <1>10, <1>11, <1>12, <1>13, StageKinds

LEMMA BookStep == Inv /\ BookInv /\ [Next]_vars => BookInv'
<1> DEFINE Typing == notebook' \in [Sessions -> Books \cup {NoBook}]
           Claim(q) == AtWork(q)' => Shows(notebook'[SessionOf[q]], mem'[q].stage)
<1> SUFFICES ASSUME Inv, BookInv, [Next]_vars PROVE Typing /\ \A q \in Runs : Claim(q)
  BY DEF BookInv, AtWork
<1>0. \A q \in Runs : SessionOf[q] \in Sessions
  BY Sessioned
<1>1. ASSUME NEW r \in Runs, NEW continuation \in BOOLEAN, RestorePlan(r, continuation)
      PROVE  Typing /\ \A q \in Runs : Claim(q)
  <2> DEFINE stage == saved[SessionOf[r]].stage
  <2>1. /\ pc[r] = "idle" /\ pc' = [pc EXCEPT ![r] = "node"] /\ overlapped \subseteq overlapped'
        /\ SessionOf[r] \notin overlapped' => \A q \in Live : SessionOf[q] # SessionOf[r]
        /\ \A q \in Runs \ {r} : mem'[q] = mem[q]
        /\ \/ mem'[r].stage = "validate_input" /\ notebook' = notebook
           \/ /\ mem'[r].stage = stage
              /\ notebook' = [notebook EXCEPT ![SessionOf[r]] = RestoredBook(stage)]
    BY <1>1, RestoreLeaves
  <2>2. /\ RestoredBook(stage) \in Books /\ RestoredBook(stage) # NoBook
        /\ Shows(RestoredBook(stage), stage)
    BY BookRestored
  <2> HIDE DEF stage
  <2>3. /\ Typing
        /\ \A t \in Sessions \ {SessionOf[r]} : notebook'[t] = notebook[t]
        /\ \/ mem'[r].stage = "validate_input"
           \/ mem'[r].stage = stage /\ notebook'[SessionOf[r]] = RestoredBook(stage)
    BY <1>0, <2>1, <2>2 DEF BookInv
  <2>4. Claim(r)
    BY <2>2, <2>3 DEF Shows
  <2>5. ASSUME NEW q \in Runs, q # r, AtWork(q)' PROVE Shows(notebook'[SessionOf[q]], mem'[q].stage)
    <3>1. q \in Live /\ AtWork(q) /\ pc'[q] = pc[q]
      BY <2>1, <2>5 DEF AtWork, Live, Inv, RecordTypes
    <3>2. SessionOf[q] # SessionOf[r] /\ mem'[q] = mem[q]
      BY <2>1, <2>5, <3>1 DEF AtWork
    <3>3. QED
      BY <1>0, <2>3, <2>5, <3>1, <3>2 DEF BookInv, AtWork
  <2>6. QED
    BY <2>3, <2>4, <2>5
<1>2. ASSUME NEW r \in Runs, StageAction(r) PROVE Typing /\ \A q \in Runs : Claim(q)
  <2>1. /\ r \in Live /\ overlapped' = overlapped
        /\ \A q \in Runs \ {r} : pc'[q] = pc[q] /\ mem'[q] = mem[q]
    BY <1>2, StageKinds DEF Leaves, Live, Inv, RecordTypes
  <2>2. Claim(r)
    BY <1>2, <2>1, StageBook DEF AtWork
  <2>3. \A q \in Runs \ {r} : Claim(q)
    BY <1>2, <2>1, StageBook, BookOfOthers
  <2>4. QED
    BY <1>2, <2>2, <2>3, StageBook
<1>3. ASSUME NEW r \in Runs, OtherStep(r) PROVE Typing /\ \A q \in Runs : Claim(q)
  <2>1. /\ r \in Live /\ overlapped' = overlapped /\ mem' = mem
        /\ \A q \in Runs \ {r} : pc'[q] = pc[q]
        /\ \/ notebook' = notebook /\ (pc'[r] = "node" => pc[r] \in {"node", "checkpoint"})
           \/ /\ notebook' = [notebook EXCEPT ![SessionOf[r]] = NoBook]
              /\ pc'[r] \notin {"node", "checkpoint"}
    BY <1>3, OtherSteps DEF OtherStep
  <2>2. Typing /\ \A t \in Sessions \ {SessionOf[r]} : notebook'[t] = notebook[t]
    BY <1>0, <2>1 DEF BookInv
  <2>3. pc'[r] # "checkpoint"
    BY <1>3 DEF OtherStep, AskForMissing, GiveUpAttempt, RenderPlan, DeleteRecord, Checkpoint, Stop,
       Inv, RecordTypes
  <2>4. Claim(r)
    BY <2>1, <2>3 DEF BookInv, AtWork
  <2>5. \A q \in Runs \ {r} : Claim(q)
    BY <2>1, <2>2, BookOfOthers
  <2>6. QED
    BY <2>2, <2>4, <2>5
<1>4. ASSUME NEW k \in Keys, OtherSession(k) PROVE Typing /\ \A q \in Runs : Claim(q)
  BY <1>4 DEF OtherSession, BookInv, AtWork
<1>5. ASSUME NEW attempt \in late, StoresLate(attempt) PROVE Typing /\ \A q \in Runs : Claim(q)
  BY <1>5 DEF StoresLate, BookInv, AtWork
<1>6. CASE UNCHANGED vars
  BY <1>6 DEF vars, BookInv, AtWork
<1>7. QED
  BY <1>1, <1>2, <1>3, <1>4, <1>5, <1>6, Kinds

(* For any number of runs, sessions, attempts, trips and keys: the plan a  *)
(* run is about to review is the one it holds, unless another session, an  *)
(* overlapping run or an attempt given up has replaced it in the store.    *)
(* (ReviewsOwnPlan)                                                        *)
THEOREM ReviewSafety == Spec => []ReviewsOwnPlan
<1>1. Init => TripInv /\ Stored /\ LateInv /\ ReviewInv
  BY DEF Init, TripInv, Stored, LateInv, ReviewInv, Holds, Live, NoRecord, Fresh
<1>2. Inv /\ ReviewInv => ReviewsOwnPlan
  <2> SUFFICES ASSUME Inv, ReviewInv, NEW r \in Live, pc[r] = "node",
                      mem[r].stage = "review_proposals",
                      plans[PlanKey[mem[r].trip]] # mem[r].plan,
                      SessionOf[r] \notin overlapped
               PROVE  LET stored == plans[PlanKey[mem[r].trip]]
                      IN  \/ stored = Foreign
                          \/ stored \in Plan /\ SessionOf[stored.by] # SessionOf[r]
                          \/ stored \in givenUp
    BY DEF ReviewsOwnPlan
  <2>1. SessionOf[r] \in Sessions
    BY Sessioned DEF Live
  <2>2. QED
    BY <2>1 DEF ReviewInv, Holds
<1>3. QED
  BY <1>1, <1>2, TripStep, StoredStep, ReviewStep, Invariance, PTL DEF Spec

(* For any number of runs and sessions, and wherever a crash has lost the  *)
(* notebook: what lies behind a run alone in its session is closed in it.  *)
(* (NotebookAgrees)                                                        *)
THEOREM NotebookSafety == Spec => []NotebookAgrees
<1>1. Init => BookInv
  BY DEF Init, BookInv
<1>2. BookInv => NotebookAgrees
  BY DEF BookInv, NotebookAgrees, Live, Shows
<1>3. QED
  BY <1>1, <1>2, BookStep, Invariance, PTL DEF Spec
=============================================================================
