---------------------------- MODULE Remediation ----------------------------
(***************************************************************************)
(* RemediationService (services/remediation_service.py): the items of a    *)
(* review compiled into actions (domain/planning.py), and the actions      *)
(* applied to the planner's exclusions and score overrides.                *)
(*                                                                         *)
(* An item names its action and target, or words from which they are       *)
(* inferred: says ("search", "rescore", "other"), about ("hotel", "train", *)
(* "flight", "other"), leg ("return", "outbound", "both").  A proposal has *)
(* an id and the candidate ids of its two legs and its hotel.              *)
(***************************************************************************)
EXTENDS Integers

ActionTypes == {"exclude", "rescore", "supplement_search", "manual"}
TargetTypes == {"transport", "flight", "train", "hotel", "proposal"}
-----------------------------------------------------------------------------
InferActionType(item) ==
    IF item.action \in ActionTypes THEN item.action
    ELSE IF ~item.fixable THEN "manual"
    ELSE IF item.says = "search" THEN "supplement_search"
    ELSE IF item.says = "rescore" THEN "rescore"
    ELSE "exclude"

InferTargetType(item) ==
    IF item.target \in TargetTypes THEN item.target
    ELSE IF item.about = "other" THEN "transport"
    ELSE item.about

(* The candidates of the affected proposals that the item is about. *)
CandidateIds(affected, proposals, target, leg) ==
    LET named == {p \in proposals : p.id \in affected}
    IN  IF target = "hotel" THEN {p.hotel : p \in named}
        ELSE (IF leg # "outbound" THEN {p.back : p \in named} ELSE {})
             \cup (IF leg # "return" THEN {p.out : p \in named} ELSE {})

(* At least 1; a missing one (0) and a malformed one count as 99. *)
Priority(item) ==
    IF item.priority = 0 THEN 99 ELSE IF item.priority < 1 THEN 1 ELSE item.priority

(* An exclusion or a new score without a candidate becomes manual work;    *)
(* place is the item's place in the review.                                *)
CompileItem(item, place, proposals) ==
    LET wanted == InferActionType(item)
        target == InferTargetType(item)
        ids == IF item.ids = {} /\ wanted \in {"exclude", "rescore"}
               THEN CandidateIds(item.affected, proposals, target, item.leg)
               ELSE item.ids
        idle == wanted \in {"exclude", "rescore"} /\ ids = {}
    IN  [action |-> IF idle THEN "manual" ELSE wanted,
         target |-> target, ids |-> ids,
         scores |-> IF wanted = "rescore" /\ item.scores = << >>
                    THEN [id \in ids |-> 0] ELSE item.scores,
         priority |-> Priority(item), place |-> place,
         fixable |-> item.fixable /\ ~idle]

Manual == [action |-> "manual", target |-> "proposal", ids |-> {}, scores |-> << >>,
           priority |-> 1, place |-> 0, fixable |-> FALSE]

(* Without a usable item, the candidates behind the objective failures.    *)
(* finding: what a failed dimension says of a proposal, as an item.  The   *)
(* order of exclusions does not matter.                                    *)
FallbackActions(findings, proposals) ==
    LET exclude(f) == [action |-> "exclude", target |-> InferTargetType(f),
                       ids |-> CandidateIds(f.affected, proposals, InferTargetType(f), f.leg),
                       scores |-> << >>, priority |-> 1, place |-> 0, fixable |-> TRUE]
        actions == {a \in {exclude(f) : f \in findings} : a.ids # {}}
    IN  IF actions = {} THEN {Manual} ELSE actions

(* The actions of a review, and the order they are sorted in: by priority, *)
(* and the sort is stable.                                                 *)
Compile(items, findings, continue, proposals) ==
    IF items = << >> /\ continue THEN FallbackActions(findings, proposals)
    ELSE {CompileItem(items[i], i, proposals) : i \in DOMAIN items}

Before(a, b) ==
    \/ a.priority < b.priority
    \/ a.priority = b.priority /\ a.place < b.place

Executable(actions) == {a \in actions : a.fixable /\ a.action # "manual"}
-----------------------------------------------------------------------------
(* apply: the constraints the planner and the search get next.  Of several *)
(* actions that give a candidate a score the last one counts.              *)
NewScores(a) ==
    [id \in a.ids \cup DOMAIN a.scores |-> IF id \in DOMAIN a.scores THEN a.scores[id] ELSE 0]

Override(scores, rescores) ==
    LET naming(id) == {a \in rescores : id \in DOMAIN NewScores(a)}
        last(id) == CHOOSE a \in naming(id) : \A b \in naming(id) : ~Before(a, b)
    IN  [id \in DOMAIN scores \cup UNION {DOMAIN NewScores(a) : a \in rescores} |->
            IF naming(id) = {} THEN scores[id] ELSE NewScores(last(id))[id]]

(* limits has the excluded transports and hotels and the score overrides. *)
Apply(actions, limits) ==
    LET doing(what) == {a \in Executable(actions) : a.action = what}
        excluded(hotels) ==
            UNION {a.ids : a \in {b \in doing("exclude") : (b.target = "hotel") = hotels}}
    IN  [transports |-> limits.transports \cup excluded(FALSE),
         hotels |-> limits.hotels \cup excluded(TRUE),
         overrides |-> Override(limits.overrides, doing("rescore")),
         searches |-> {a.target : a \in doing("supplement_search")}]
=============================================================================
