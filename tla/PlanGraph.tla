------------------------------ MODULE PlanGraph ------------------------------
(***************************************************************************)
(* The plan-and-execute graph of the itinerary agent                       *)
(* (workflow/itinerary_plan_graph.py): runs of the sessions of one         *)
(* user go through its stages, save their state after every stage, may be  *)
(* stopped or killed between any two steps, and are resumed by a later run *)
(* of the session.  They share the store of plans, whose key leaves the    *)
(* return date out, and the session's notebook, which is kept in memory.   *)
(*                                                                         *)
(* A stage is two steps: what it does, and the checkpoint it writes.  The  *)
(* candidates, proposals and findings are those of PlanningRounds; here a  *)
(* plan is the run, round and attempt that made it, and whether planning   *)
(* succeeds, the review goes on and a repair changes anything is left      *)
(* open.                                                                   *)
(*                                                                         *)
(* The planner is called with a soft timeout and retried: an attempt that  *)
(* takes too long is given up, but its thread goes on and stores its plan  *)
(* whenever it gets there (runtime/resilient_tool.py, runtime/retry.py).   *)
(***************************************************************************)
EXTENDS Naturals, Sequences

CONSTANTS
    Runs,        \* invocations of the agent
    Sessions,
    SessionOf,   \* the session of a run
    Questions,   \* the requests' texts
    Asks,        \* what the request of a run may be
    Trips,       \* origin, destination and both dates
    Keys,
    PlanKey,     \* trip_key of the plan store: origin, destination, departure
    Fragile,     \* the runs that may be stopped or killed
    Slow,        \* the runs whose planner may exceed its soft timeout
    MaxAttempts, \* tool_default_max_attempts
    MaxRepairs,  \* _MAX_REPAIRS
    None,        \* no plan, no trip
    Foreign      \* a plan made in a session that is not modelled

Plan == [by : Runs, round : 0..MaxRepairs, attempt : 1..MaxAttempts]

ASSUME PlanGraphAssumption ==
    /\ SessionOf \in [Runs -> Sessions]
    /\ Asks \in [Runs -> SUBSET Questions]
    /\ PlanKey \in [Trips -> Keys]
    /\ MaxRepairs \in Nat /\ MaxAttempts \in Nat \ {0}
    /\ None \notin Trips /\ {None, Foreign} \cap Plan = {}

VARIABLES
    saved,      \* the durable plan-run record of each session
    mem,        \* the graph state of each run
    pc,         \* where a run is: idle, node, checkpoint, delete or its end
    plans,      \* itinerary_plan_store
    late,       \* the attempts given up that are still at work, with their keys
    givenUp,    \* history: the plans of all attempts given up
    notebook,   \* the open notebook of each session, << >> if there is none
    overlapped  \* sessions of which two runs were at work together

store == <<plans, late, givenUp>>
vars == <<saved, mem, pc, store, notebook, overlapped>>

Stages == {"validate_input", "create_plan", "load_constraints", "ensure_candidates",
           "generate_proposals", "review_proposals", "repair_plan", "render_plan"}
States == [question : Questions, trip : Trips \cup {None}, stage : Stages,
           round : 0..MaxRepairs, stop : BOOLEAN, plan : Plan \cup {None}]

NoRecord == [stage |-> "none", round |-> 0]
NoBook == << >>
Live == {r \in Runs : pc[r] \in {"node", "checkpoint", "delete"}}
-----------------------------------------------------------------------------
Fresh(q) == [question |-> q, trip |-> None, stage |-> "validate_input", round |-> 0,
             stop |-> FALSE, plan |-> None]

Init ==
    /\ saved = [s \in Sessions |-> NoRecord]
    /\ \E asked \in [Runs -> Questions] :
         /\ \A r \in Runs : asked[r] \in Asks[r]
         /\ mem = [r \in Runs |-> Fresh(asked[r])]
    /\ pc = [r \in Runs |-> "idle"]
    /\ plans = [k \in Keys |-> None] /\ late = {} /\ givenUp = {}
    /\ notebook = [s \in Sessions |-> NoBook]
    /\ overlapped = {}
-----------------------------------------------------------------------------
(* The notebook: five tasks; an update without a notebook does nothing. *)
NewBook == [i \in 1..5 |-> "todo"]
Mark(book, i, state) == IF book = NoBook THEN NoBook ELSE [book EXCEPT ![i] = state]

StageOrder(stage) ==
    CASE stage = "generate_proposals" -> 1
      [] stage = "review_proposals" -> 2
      [] stage = "repair_plan" -> 3
      [] stage = "render_plan" -> 4
      [] OTHER -> 0

(* Mutant: a restored run opens an empty notebook. *)
EmptyBook(stage) == NewBook

RestoredBook(stage) == [i \in 1..5 |-> IF i <= StageOrder(stage) THEN "done" ELSE "todo"]
-----------------------------------------------------------------------------
(* restore_plan: the run goes on where the session's record stands, if it  *)
(* is about the same question or a continuation, and starts afresh         *)
(* otherwise.                                                              *)
RestorePlan(r, continuation) ==
    LET s == SessionOf[r]
        record == saved[s]
        same == continuation \/ record.question = mem[r].question
    IN  /\ pc[r] = "idle"
        /\ pc' = [pc EXCEPT ![r] = "node"]
        /\ overlapped' = IF \E o \in Live : SessionOf[o] = s THEN overlapped \cup {s}
                         ELSE overlapped
        /\ \/ /\ record = NoRecord
              /\ UNCHANGED <<saved, mem, notebook>>
           \/ /\ record # NoRecord /\ ~same
              /\ saved' = [saved EXCEPT ![s] = NoRecord]
              /\ UNCHANGED <<mem, notebook>>
           \/ /\ record # NoRecord /\ same
              /\ mem' = [mem EXCEPT ![r] = [record EXCEPT !.question = mem[r].question]]
              /\ notebook' = [notebook EXCEPT ![s] = RestoredBook(record.stage)]
              /\ UNCHANGED saved
        /\ UNCHANGED store

(* A stage ends with its updates in memory and the checkpoint to write.    *)
Ends(r, stage, state) ==
    /\ pc[r] = "node" /\ mem[r].stage = stage
    /\ mem' = [mem EXCEPT ![r] = state]
    /\ pc' = [pc EXCEPT ![r] = "checkpoint"]
    /\ UNCHANGED <<saved, overlapped>>

Marked(r, i, state) ==
    notebook' = [notebook EXCEPT ![SessionOf[r]] = Mark(@, i, state)]

(* The cities and dates are those the session has carried over, else those *)
(* of the text, else those of the latest travel order: any trip.           *)
ValidateInput(r, trip) ==
    /\ Ends(r, "validate_input", [mem[r] EXCEPT !.stage = "create_plan", !.trip = trip])
    /\ UNCHANGED <<store, notebook>>

(* With a city or a date missing the run ends with a question, and without *)
(* a checkpoint.                                                           *)
AskForMissing(r) ==
    /\ pc[r] = "node" /\ mem[r].stage = "validate_input"
    /\ pc' = [pc EXCEPT ![r] = "asked"]
    /\ UNCHANGED <<saved, mem, store, notebook, overlapped>>

CreatePlan(r) ==
    /\ Ends(r, "create_plan", [mem[r] EXCEPT !.stage = "load_constraints"])
    /\ notebook' = [notebook EXCEPT ![SessionOf[r]] = NewBook]
    /\ UNCHANGED store

LoadConstraints(r) ==
    /\ Ends(r, "load_constraints", [mem[r] EXCEPT !.stage = "ensure_candidates"])
    /\ Marked(r, 1, "done")
    /\ UNCHANGED store

EnsureCandidates(r) ==
    /\ Ends(r, "ensure_candidates", [mem[r] EXCEPT !.stage = "generate_proposals"])
    /\ UNCHANGED <<store, notebook>>

(* The attempts of a stage follow one another: made is the plan of the     *)
(* first one that is not given up.                                         *)
InHand(r, made) ==
    /\ made.by = r /\ made.round = mem[r].round /\ made \notin givenUp
    /\ \A a \in 1..(made.attempt - 1) : [made EXCEPT !.attempt = a] \in givenUp

(* Mutant: the plans of the repair rounds are not stored. *)
GenerateStoresOnce(r) ==
    \E made \in Plan :
        /\ InHand(r, made)
        /\ Ends(r, "generate_proposals",
                [mem[r] EXCEPT !.stage = "review_proposals", !.plan = made])
        /\ plans' = IF mem[r].round = 0 THEN [plans EXCEPT ![PlanKey[mem[r].trip]] = made]
                    ELSE plans
        /\ Marked(r, 2, "done")
        /\ UNCHANGED <<late, givenUp>>

(* The planner stores the plan it makes, and nothing when it fails. *)
GenerateProposals(r) ==
    \E made \in Plan :
        /\ InHand(r, made)
        /\ \/ /\ Ends(r, "generate_proposals",
                       [mem[r] EXCEPT !.stage = "review_proposals", !.plan = made])
              /\ plans' = [plans EXCEPT ![PlanKey[mem[r].trip]] = made]
              /\ Marked(r, 2, "done")
           \/ /\ Ends(r, "generate_proposals",
                       [mem[r] EXCEPT !.stage = "render_plan", !.plan = None])
              /\ Marked(r, 2, "abandoned")
              /\ UNCHANGED plans
        /\ UNCHANGED <<late, givenUp>>

(* An attempt exceeds its timeout.  The next one is made, or, with no      *)
(* attempt or no time left, the error ends the run.                        *)
GiveUpAttempt(r) ==
    /\ pc[r] = "node" /\ mem[r].stage = "generate_proposals" /\ r \in Slow
    /\ \E made \in Plan :
         /\ InHand(r, made)
         /\ givenUp' = givenUp \cup {made}
         /\ late' = late \cup {[key |-> PlanKey[mem[r].trip], plan |-> made]}
         /\ \/ made.attempt < MaxAttempts /\ pc' = pc
            \/ pc' = [pc EXCEPT ![r] = "stopped"]
    /\ UNCHANGED <<saved, mem, plans, notebook, overlapped>>

(* The thread of an attempt given up comes to its end, whatever has become *)
(* of the run in the meantime.  (One that dies with its process does not.) *)
StoresLate(attempt) ==
    /\ attempt \in late
    /\ plans' = [plans EXCEPT ![attempt.key] = attempt.plan]
    /\ late' = late \ {attempt}
    /\ UNCHANGED <<saved, mem, pc, givenUp, notebook, overlapped>>

(* Mutant: one repair more than allowed. *)
RepairOnceMore(state, continue) == continue /\ state.round <= MaxRepairs /\ ~state.stop

ShouldRepair(state, continue) == continue /\ state.round < MaxRepairs /\ ~state.stop

(* review_itinerary reads the stored plan; without one it does not go on.  *)
ReviewProposals(r, continue) ==
    /\ Ends(r, "review_proposals",
            [mem[r] EXCEPT !.stage = IF ShouldRepair(mem[r], continue) THEN "repair_plan"
                                                                      ELSE "render_plan"])
    /\ continue => plans[PlanKey[mem[r].trip]] # None
    /\ Marked(r, 3, "done")
    /\ UNCHANGED store

(* Mutant: the repair is not counted. *)
RepairUncounted(r, changed) ==
    /\ Ends(r, "repair_plan",
            [mem[r] EXCEPT !.stage = IF changed THEN "generate_proposals" ELSE "render_plan"])
    /\ Marked(r, 4, "done")
    /\ UNCHANGED store

RepairPlan(r, changed) ==
    /\ Ends(r, "repair_plan",
            [mem[r] EXCEPT !.stage = IF changed THEN "generate_proposals" ELSE "render_plan",
                           !.round = @ + 1, !.stop = ~changed])
    /\ Marked(r, 4, "done")
    /\ UNCHANGED store

(* The notebook is closed first, then the record deleted. *)
RenderPlan(r) ==
    /\ pc[r] = "node" /\ mem[r].stage = "render_plan"
    /\ pc' = [pc EXCEPT ![r] = "delete"]
    /\ notebook' = [notebook EXCEPT ![SessionOf[r]] = NoBook]
    /\ UNCHANGED <<saved, mem, store, overlapped>>

DeleteRecord(r) ==
    /\ pc[r] = "delete"
    /\ saved' = [saved EXCEPT ![SessionOf[r]] = NoRecord]
    /\ pc' = [pc EXCEPT ![r] = "completed"]
    /\ UNCHANGED <<mem, store, notebook, overlapped>>

Checkpoint(r) ==
    /\ pc[r] = "checkpoint"
    /\ saved' = [saved EXCEPT ![SessionOf[r]] = mem[r]]
    /\ pc' = [pc EXCEPT ![r] = "node"]
    /\ UNCHANGED <<mem, store, notebook, overlapped>>

Step(r) ==
    \/ \E trip \in Trips : ValidateInput(r, trip)
    \/ AskForMissing(r)
    \/ CreatePlan(r) \/ LoadConstraints(r) \/ EnsureCandidates(r)
    \/ GenerateProposals(r) \/ GiveUpAttempt(r)
    \/ \E continue \in BOOLEAN : ReviewProposals(r, continue)
    \/ \E changed \in BOOLEAN : RepairPlan(r, changed)
    \/ RenderPlan(r) \/ DeleteRecord(r)
    \/ Checkpoint(r)

(* A deadline, a stop or an error ends a run anywhere; when its process    *)
(* dies the notebook is gone with it.                                      *)
Stop(r) ==
    /\ r \in Live \cap Fragile
    /\ pc' = [pc EXCEPT ![r] = "stopped"]
    /\ notebook' \in {notebook, [notebook EXCEPT ![SessionOf[r]] = NoBook]}
    /\ UNCHANGED <<saved, mem, store, overlapped>>

(* Another session of the user plans a trip with the same key. *)
OtherSession(k) ==
    /\ plans' = [plans EXCEPT ![k] = Foreign]
    /\ UNCHANGED <<saved, mem, pc, late, givenUp, notebook, overlapped>>

Next ==
    \/ \E r \in Runs :
        \/ \E continuation \in BOOLEAN : RestorePlan(r, continuation)
        \/ Step(r)
        \/ Stop(r)
    \/ \E attempt \in late : StoresLate(attempt)
    \/ \E k \in Keys : OtherSession(k)

Spec == Init /\ [][Next]_vars

(* A run at work is a thread that goes on. *)
FairSpec == Spec /\ \A r \in Runs : WF_vars(Step(r))
-----------------------------------------------------------------------------
(* Properties. *)

TypeOK ==
    /\ saved \in [Sessions -> States \cup {NoRecord}]
    /\ mem \in [Runs -> States]
    /\ pc \in [Runs -> {"idle", "node", "checkpoint", "delete", "asked", "completed", "stopped"}]
    /\ plans \in [Keys -> Plan \cup {None, Foreign}]
    /\ late \subseteq [key : Keys, plan : Plan] /\ givenUp \subseteq Plan
    /\ overlapped \subseteq Sessions

(* The durable record keeps the promise of DurablePlan whatever run is     *)
(* killed where: a restored run takes up the stage and the round at which  *)
(* the last one left off, so that the repairs of a plan stay bounded, and  *)
(* no stage is left out.  (_checkpoint, _restore_plan, _should_repair)     *)
Durable == INSTANCE DurablePlan WITH
    progress <- [s \in Sessions |->
                    IF s \in overlapped THEN [stage |-> "unpromised", round |-> 0]
                    ELSE [stage |-> saved[s].stage, round |-> saved[s].round]]

DurableProgress == Durable!Spec

(* The plan a run is about to review, which it reads from the store, is    *)
(* the one it holds and will repair, across rounds and restores.  Another  *)
(* one can only come from another session of the user, from a run that     *)
(* overlapped this one, or from an attempt at planning that was given up   *)
(* and has stored its plan late: never from a plan the session had         *)
(* accepted before.  (review_itinerary, itinerary_plan_store)              *)
ReviewsOwnPlan ==
    \A r \in Live :
        pc[r] = "node" /\ mem[r].stage = "review_proposals" =>
            LET stored == plans[PlanKey[mem[r].trip]]
            IN  stored # mem[r].plan =>
                    \/ stored = Foreign
                    \/ stored \in Plan /\ SessionOf[stored.by] # SessionOf[r]
                    \/ stored \in givenUp
                    \/ SessionOf[r] \in overlapped

(* The notebook of a session at work shows the proposals and the review    *)
(* that lie behind a run as closed, also when a crash has lost the         *)
(* notebook and the run was restored.  (The first task is left out: a run  *)
(* restored at ensure_candidates shows it as open.)  (_restore_notebook)   *)
NotebookAgrees ==
    \A r \in Live :
        LET book == notebook[SessionOf[r]]
        IN  SessionOf[r] \notin overlapped /\ pc[r] # "delete"
            /\ mem[r].stage \in {"review_proposals", "repair_plan"} =>
                /\ book # NoBook
                /\ \A i \in 2..StageOrder(mem[r].stage) : book[i] \in {"done", "abandoned"}

(* Every run that begins ends: the review and repair loop is bounded. *)
EveryRunEnds == \A r \in Runs : r \in Live ~> r \notin Live
=============================================================================
