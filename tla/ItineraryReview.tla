-------------------------- MODULE ItineraryReview --------------------------
(***************************************************************************)
(* review_itinerary (tools/review.py): the six objective checks of every   *)
(* proposal of a plan, the batch verdict, the assessors, the arbitration   *)
(* with its veto, and the decision to go on repairing.  What the language  *)
(* models answer is a parameter; an answer that is missing or malformed is *)
(* the fallback.                                                           *)
(*                                                                         *)
(* An itinerary view has the fields the checks read, None for a field the  *)
(* proposal does not fill: dates in days, times in minutes of a day.  A    *)
(* problem is <<status, part>>, where part is what its text speaks of: the *)
(* "hotel", the "outbound" or the "return" leg, or the "trip"; "nothing"   *)
(* if no issue is made of it.  An issue is <<proposal id, part>>.  The     *)
(* issues of the arbitrator, which are not part of the report, are left    *)
(* out.                                                                    *)
(***************************************************************************)
EXTENDS Integers, FiniteSets, Sequences

None == -1
NoProposal == 0

Given(v) == v # None
-----------------------------------------------------------------------------
(* The six checks: each returns the problems it finds. *)
Problem(found, status, part) == IF found THEN {<<status, part>>} ELSE {}

Worst(statuses) ==
    IF "fail" \in statuses THEN "fail" ELSE IF "warning" \in statuses THEN "warning" ELSE "pass"

(* Origin, destination, dates, days, legs and hotels are all there. *)
Completeness(v) ==
    LET lacks(leg) == \A i \in DOMAIN v.days : leg \notin v.days[i].legs
    IN  Problem(~v.named, "fail", "trip")
        \cup Problem(~Given(v.departure), "fail", "outbound")
        \cup Problem(~Given(v.return), "fail", "return")
        \cup Problem(v.days = << >>, "fail", "trip")
        \cup Problem(v.days # << >> /\ lacks("outbound"), "fail", "outbound")
        \cup Problem(v.days # << >> /\ lacks("return"), "fail", "return")
        \cup Problem(\E i \in 1..(Len(v.days) - 1) : ~v.days[i].hotel, "fail", "hotel")

(* Dates: return after departure, not past, nights that add up, in time. *)
DateProblems(v, today, advance) ==
    IF ~(Given(v.departure) /\ Given(v.return)) THEN {}
    ELSE Problem(v.return <= v.departure, "fail", "return")
         \cup Problem(v.departure < today, "warning", "outbound")
         \cup Problem(v.nights > 0 /\ v.nights # v.return - v.departure, "warning", "hotel")
         \cup Problem(advance > 0 /\ v.departure - today < advance, "warning", "trip")

(* One day: an hour after arrival and before departure, sane connections,  *)
(* no flight by night.                                                     *)
DayProblems(day, first) ==
    LET after == day.activityFirst - day.arrives
        before == day.leaves - day.activityLast
        arriving == first /\ Given(day.arrives) /\ Given(day.activityFirst)
        leaving == Given(day.leaves) /\ Given(day.activityLast)
    IN  Problem(arriving /\ after \in 0..59, "warning", "trip")
        \cup Problem(leaving /\ before < 0, "fail", "return")
        \cup Problem(leaving /\ before \in 0..59, "warning", "return")
        \cup Problem(/\ day.transfer > 0
                     /\ \/ day.transfer < IF day.abroad THEN 90 ELSE 60
                        \/ day.transfer > 240,
                     "warning", "trip")
        \cup {<<"warning", leg>> : leg \in day.redEye}

Timing(v, today, advance) ==
    IF v.days = << >> THEN {<<"warning", "nothing">>}
    ELSE DateProblems(v, today, advance)
         \cup UNION {DayProblems(v.days[i], i = 1) : i \in DOMAIN v.days}

OriginDestination(v) == Problem(~v.asApproved, "fail", "trip")

(* No policy is a warning; a limit exceeded is one, never a failure. *)
Budget(v, policy) ==
    IF ~policy.known THEN {<<"warning", "nothing">>}
    ELSE Problem(v.nightly > policy.hotel, "warning", "hotel")
         \cup Problem(v.stars > policy.stars, "warning", "hotel")
         \cup Problem(v.total > policy.threshold, "warning", "trip")

Transport(v, policy) ==
    IF ~policy.known THEN {<<"warning", "nothing">>}
    ELSE {<<"warning", leg>> : leg \in {l \in {"outbound", "return"} : v.class[l] > policy.class}}

(* Legs between the trip's cities, a hotel within 15 km: suggestions only. *)
Route(v) ==
    Problem(v.days # << >> /\ ~(v.routed /\ v.distance <= 15), "warning", "nothing")

(* objective_review *)
ObjectiveReview(v, policy, today) ==
    LET problems == Completeness(v) \cup Timing(v, today, policy.advance)
                    \cup OriginDestination(v) \cup Budget(v, policy)
                    \cup Transport(v, policy) \cup Route(v)
    IN  [overall |-> Worst({p[1] : p \in problems}),
         issues |-> {p[2] : p \in problems} \ {"nothing"}]
-----------------------------------------------------------------------------
(* _objective_batch: the batch verdict and the best proposal, the first of *)
(* the greatest weighted score (an overall score of 0 to 10000 hundredths, *)
(* rounded half to even).  Proposals come in the order of the plan.        *)
Weighted(overall, status) ==
    LET weight == [pass |-> 10, warning |-> 7, fail |-> 0]
        score == overall * weight[status]
        whole == score \div 1000
        rest == score % 1000
    IN  IF rest > 500 \/ (rest = 500 /\ whole % 2 = 1) THEN whole + 1 ELSE whole

ObjectiveBatch(proposals, policy, today) ==
    LET review == [i \in DOMAIN proposals |->
                        ObjectiveReview(proposals[i].view, policy, today)]
        score(i) == Weighted(proposals[i].overall, review[i].overall)
        best == CHOOSE i \in DOMAIN proposals :
                    \A j \in DOMAIN proposals : score(i) > score(j) \/ (score(i) = score(j) /\ i <= j)
    IN  IF proposals = << >>
        THEN [verdict |-> "fail", best |-> NoProposal, issues |-> {<<NoProposal, "trip">>},
              status |-> << >>]
        ELSE [verdict |-> Worst({review[i].overall : i \in DOMAIN proposals}),
              best |-> proposals[best].id,
              issues |-> UNION {{<<proposals[i].id, part>> : part \in review[i].issues} :
                                i \in DOMAIN proposals},
              status |-> [i \in DOMAIN proposals |-> review[i].overall]]
-----------------------------------------------------------------------------
(* An assessor's verdict is the model's, or a warning when it fails.       *)
Assessed(answer) == IF answer = "none" THEN "warning" ELSE answer

FallbackArbitrate(objective, subjective) ==
    [verdict |-> IF objective.verdict = "fail" THEN "fail"
                 ELSE IF "warning" \in {objective.verdict} \cup subjective THEN "warning"
                 ELSE "pass",
     items |-> << >>, recommended |-> NoProposal]

(* The arbitrator: verdict, remediation items and a recommended            *)
(* proposal of the model, or the fallback.                                 *)
Arbitrate(objective, subjective, answer) ==
    IF answer.failed THEN FallbackArbitrate(objective, subjective)
    ELSE [verdict |-> answer.verdict, items |-> answer.items, recommended |-> answer.recommended]

(* Mutant: only the arbitrator's issues get the veto, its verdict stays. *)
VetoedInIssues(objective, arbitration) == arbitration

(* A failed objective check overrides the arbitrator. *)
Vetoed(objective, arbitration) ==
    IF objective.verdict # "fail" THEN arbitration
    ELSE [arbitration EXCEPT !.verdict = "fail"]

ContinueRemediation(arbitration) ==
    LET items == {arbitration.items[i] : i \in DOMAIN arbitration.items}
        urgent == {i \in DOMAIN arbitration.items :
                    arbitration.items[i].fixable /\ arbitration.items[i].priority <= 3}
    IN  \/ arbitration.verdict = "fail"
        \/ \E item \in items : item.hard
        \/ \E i \in urgent : arbitration.recommended \in arbitration.items[i].affected
        \/ Cardinality(urgent) >= 2

(* review_itinerary on the stored plan. *)
ReviewItinerary(proposals, policy, today, assessors, answer) ==
    LET objective == ObjectiveBatch(proposals, policy, today)
        subjective == {Assessed(a) : a \in assessors}
        arbitration == Vetoed(objective, Arbitrate(objective, subjective, answer))
    IN  [verdict |-> arbitration.verdict, vetoed |-> objective.verdict = "fail",
         continue |-> ContinueRemediation(arbitration), best |-> objective.best,
         items |-> arbitration.items,
         objective |-> objective, subjective |-> subjective]
=============================================================================
