--------------------------- MODULE PlanningRounds ---------------------------
(***************************************************************************)
(* The candidate search, the planner, the review and the repairs of one    *)
(* itinerary plan at work together: the candidates captured or searched,   *)
(* plan_itinerary on them, review_itinerary on the plan, and the actions   *)
(* of the review applied to the next planner call, at most MaxRepairs      *)
(* times, in the order of the stages candidates, generate, review and      *)
(* repair of workflow/itinerary_plan_graph.py.                             *)
(*                                                                         *)
(* Crashes, restores and other runs are PlanGraph's matter; here the data  *)
(* is the point.  What a language model answers is any member of Answers.  *)
(***************************************************************************)
EXTENDS Planner, SequencesExt

CONSTANTS
    Trips,       \* what a plan starts from: candidates, wishes, policy, dates
    Markets,     \* what the providers may answer to one search
    MaxCaptures, \* bound: answers to shell searches that are captured
    Assessments, \* sets of verdicts of the three assessors
    Verdicts,    \* verdicts of the arbitrator
    ItemKinds,   \* remediation items, without the proposals they name
    MaxRepairs,
    TransportIds, HotelIds   \* the ids of candidates

Sourcing == INSTANCE CandidateSearch
Review == INSTANCE ItineraryReview
Repairs == INSTANCE Remediation

(* Candidates as they are found and planned with, and what providers,      *)
(* users and the arbitrator give.                                          *)
Wishes == DOMAIN Gain
Hours == Nat \cup {Unknown}
Routes == {"there", "back", "other"}

Legs == [id : TransportIds, marked : {"none", "outbound", "return"}, route : Routes,
         departs : Hours, arrives : Hours, price : Nat, kind : {"flight", "train"},
         class : Nat, meets : SUBSET Wishes]

Stays == [id : HotelIds, price : Nat, nights : Nat, stars : Nat, distance : Nat,
          meets : SUBSET Wishes]

Scoring(f) == \A id \in DOMAIN f : f[id] \in Int
Unique(candidates) == \A c, d \in candidates : c.id = d.id => c = d

Request(trip) ==
    /\ {"transports", "hotels", "excludedTransports", "excludedHotels", "returnDay", "wishes",
        "supplied", "given", "overrides", "policy", "badWeather", "today"} \subseteq DOMAIN trip
    /\ trip.transports \subseteq Legs /\ Unique(trip.transports)
    /\ trip.hotels \subseteq Stays /\ Unique(trip.hotels)
    /\ trip.returnDay \in Int
    /\ Scoring(trip.supplied) /\ Scoring(trip.given) /\ Scoring(trip.overrides)

Places(kind) == [id : IF kind = "hotel" THEN HotelIds ELSE TransportIds, class : Nat,
                 price : Nat, left : BOOLEAN, meets : SUBSET Wishes]

Offers(kind) == [kind : {kind}, run : Nat, way : Routes, departs : Hours, arrives : Hours,
                 places : (SUBSET Places(kind)) \ {{}}]

Calls == ({"flight", "train"} \X {"there", "back"}) \cup {<<"hotel", "stay">>}

(* Offers by call. *)
Catalogue(answers) ==
    \A call \in DOMAIN answers : call \in Calls /\ answers[call] \in Seq(Offers(call[1]))

Providers == {"tuniu-cli", "flyai", "flight-manager", "rolling-go-hotel"}

ItemList(items) ==
    /\ IsFiniteSet(DOMAIN items) /\ DOMAIN items \subseteq Nat
    /\ \A i \in DOMAIN items :
         /\ {"affected", "priority", "scores"} \subseteq DOMAIN items[i]
         /\ items[i].priority \in Int /\ Scoring(items[i].scores)

ASSUME RoundsAssumption ==
    /\ MaxRepairs \in Nat \ {0}
    /\ IsFiniteSet(TransportIds) /\ TransportIds \subseteq Nat
    /\ IsFiniteSet(HotelIds) /\ HotelIds \subseteq Nat /\ TransportIds \cap HotelIds = {}
    /\ \A trip \in Trips : Request(trip)
    /\ \A market \in Markets : /\ market.ready \subseteq Providers
                               /\ \A p \in Providers : Catalogue(market.answers[p])
    /\ \A kinds \in ItemKinds : ItemList(kinds)

(* The hotels a trip starts with are for its nights, like those it finds.  *)
SameNights == \A trip \in Trips : \A h \in trip.hotels : h.nights = Max({1, trip.returnDay})

VARIABLES
    store,   \* the search entries of this trip, by call
    caught,  \* how many answers have been captured
    in,      \* the planner's input, with the exclusions and score overrides
    plan,    \* what plan_itinerary returned last
    report,  \* what review_itinerary returned last
    round,   \* repair_count
    stage    \* next_plan_stage

vars == <<store, caught, in, plan, report, round, stage>>
-----------------------------------------------------------------------------
NoReport == [verdict |-> "none"]

Init ==
    /\ store = << >> /\ caught = 0 /\ in \in Trips
    /\ plan = Failed("none") /\ report = NoReport
    /\ round = 0 /\ stage = "candidates"

(* An agent's shell search before the plan, in a request of its own, whose *)
(* answer _capture_search keeps.                                           *)
ShellSearch(call, offers) ==
    /\ stage = "candidates" /\ caught < MaxCaptures
    /\ store' = Sourcing!Capture(store, TRUE, [c \in {call} |-> offers])
    /\ caught' = caught + 1
    /\ UNCHANGED <<in, plan, report, round, stage>>

Nights == Max({1, in.returnDay})
Candidates == [transports |-> in.transports, hotels |-> in.hotels]

(* ensure_candidates: the store is read when the chat brought too little,  *)
(* and the providers are asked when that is not enough either.             *)
EnsureCandidates(market) ==
    LET stored == IF Sourcing!Plannable(Candidates) THEN Candidates
                  ELSE Sourcing!MergeCandidates(Candidates, Sourcing!BuildCandidates(store, Nights))
        all == IF Sourcing!Plannable(stored) THEN stored
               ELSE Sourcing!MergeCandidates(stored, Sourcing!Search({}, store, market, Nights))
    IN  /\ stage = "candidates"
        /\ in' = [in EXCEPT !.transports = all.transports, !.hotels = all.hotels]
        /\ stage' = "generate"
        /\ UNCHANGED <<store, caught, plan, report, round>>

(* generate_proposals *)
Generate ==
    /\ stage = "generate"
    /\ plan' = PlanItinerary(in)
    /\ stage' = IF plan'.ok THEN "review" ELSE "render"
    /\ UNCHANGED <<store, caught, in, report, round>>
-----------------------------------------------------------------------------
(* A proposal as the review sees it; ids are numbers, 0 is none.           *)
Ident(c) == c.out.id * 10000 + c.hotel.id * 100 + c.back.id

FirstTag(p) == Min({i \in 1..4 : Tags[i] \in p.tags})

(* Flights that leave at 22 or later and arrive by 7. *)
NightFlight(o) ==
    /\ o.kind = "flight" /\ Known(o.departs) /\ Known(o.arrives)
    /\ o.departs % 24 >= 22 /\ o.arrives % 24 <= 6

(* A planner's proposal fills two days and no activity or connection.      *)
Day(leg, option, hotel) ==
    [legs |-> {leg}, hotel |-> hotel, arrives |-> Review!None, leaves |-> Review!None,
     activityFirst |-> Review!None, activityLast |-> Review!None, transfer |-> 0,
     abroad |-> FALSE, redEye |-> IF NightFlight(option) THEN {leg} ELSE {}]

View(c) ==
    [named |-> TRUE, asApproved |-> TRUE, departure |-> 0, return |-> in.returnDay,
     days |-> <<Day("outbound", c.out, TRUE), Day("return", c.back, FALSE)>>,
     nights |-> c.hotel.nights, nightly |-> c.hotel.price, stars |-> c.hotel.stars,
     distance |-> IF c.hotel.distance = Sourcing!Unlisted THEN Review!None ELSE c.hotel.distance,
     total |-> TotalPrice(c),
     class |-> [outbound |-> c.out.class, return |-> c.back.class],
     routed |-> c.out.route # "back" /\ c.back.route # "there"]

(* The proposals in the order of the plan: by overall score, then by tag.  *)
Ordered(proposals) ==
    SetToSortSeq(proposals,
        LAMBDA p, q : \/ p.row.overall > q.row.overall
                      \/ p.row.overall = q.row.overall /\ FirstTag(p) < FirstTag(q))

Reviewed ==
    LET rows == Ordered(plan.proposals)
    IN  [i \in DOMAIN rows |-> [id |-> Ident(rows[i].row.combo),
                                overall |-> rows[i].row.overall,
                                view |-> View(rows[i].row.combo)]]

(* The arbitrator fails, or answers with at most two items that concern    *)
(* the proposal it recommends.                                             *)
Answers ==
    {[failed |-> TRUE, verdict |-> "none", items |-> << >>,
      recommended |-> Review!NoProposal]}
    \cup {[failed |-> FALSE, verdict |-> v, recommended |-> p,
           items |-> [i \in DOMAIN kinds |-> [kinds[i] EXCEPT !.affected = {p}]]] :
            v \in Verdicts, kinds \in ItemKinds,
            p \in {Ident(q.row.combo) : q \in plan.proposals}}

ShouldRepair(review) == review.continue /\ round < MaxRepairs

(* review_proposals *)
ReviewProposals(assessors, answer) ==
    /\ stage = "review"
    /\ report' = Review!ReviewItinerary(Reviewed, in.policy, in.today, assessors, answer)
    /\ stage' = IF ShouldRepair(report') THEN "repair" ELSE "render"
    /\ UNCHANGED <<store, caught, in, plan, round>>
-----------------------------------------------------------------------------
(* The candidates of the proposals, as the remediation looks them up.      *)
ProposalIndex ==
    {[id |-> Ident(p.row.combo), out |-> p.row.combo.out.id, back |-> p.row.combo.back.id,
      hotel |-> p.row.combo.hotel.id] : p \in plan.proposals}

(* What failed assessors say counts when the arbitrator gave no items:     *)
(* issues that name a proposal and a part of the trip, at most two of them *)
(* (bound).                                                                *)
Remarks ==
    LET issues == {p.id : p \in ProposalIndex} \X {"hotel", "outbound", "return", "trip"}
    IN  IF report.items = << >> /\ "fail" \in report.subjective
        THEN {{}} \cup {{a, b} : a, b \in issues}
        ELSE {{}}

(* The issues of the failed dimensions. *)
Findings(remarks) ==
    LET finding(issue) ==
            [affected |-> {issue[1]}, target |-> "unknown",
             about |-> IF issue[2] = "hotel" THEN "hotel" ELSE "other",
             leg |-> IF issue[2] \in {"outbound", "return"} THEN issue[2] ELSE "both"]
    IN  {finding(i) : i \in remarks \cup IF report.vetoed THEN report.objective.issues ELSE {}}

Limits == [transports |-> in.excludedTransports, hotels |-> in.excludedHotels,
           overrides |-> in.overrides]

(* repair_plan: a repair without an executable action, or one that changes *)
(* nothing the planner looks at, ends the loop.                            *)
RepairPlan(remarks, market) ==
    LET actions == Repairs!Compile(report.items, Findings(remarks),
                                   report.continue, ProposalIndex)
        next == Repairs!Apply(actions, Limits)
        requests == {[target |-> t, direction |-> "both"] : t \in next.searches}
        all == IF requests = {} THEN Candidates
               ELSE Sourcing!MergeCandidates(Candidates,
                                             Sourcing!Search(requests, store, market, Nights))
        changed == /\ Repairs!Executable(actions) # {}
                   /\ \/ <<next.transports, next.hotels, next.overrides>>
                          # <<Limits.transports, Limits.hotels, Limits.overrides>>
                      \/ all # Candidates
    IN  /\ stage = "repair"
        /\ in' = [in EXCEPT !.excludedTransports = next.transports,
                            !.excludedHotels = next.hotels,
                            !.overrides = next.overrides,
                            !.transports = all.transports, !.hotels = all.hotels]
        /\ round' = round + 1
        /\ stage' = IF changed THEN "generate" ELSE "render"
        /\ UNCHANGED <<store, caught, plan, report>>

(* render_plan ends the run. *)
RenderPlan ==
    /\ stage = "render" /\ stage' = "completed"
    /\ UNCHANGED <<store, caught, in, plan, report, round>>

Next ==
    \/ \E market \in Markets :
        \/ \E call \in DOMAIN market.answers["tuniu-cli"] :
              ShellSearch(call, market.answers["tuniu-cli"][call])
        \/ EnsureCandidates(market)
        \/ stage = "repair" /\ \E remarks \in Remarks : RepairPlan(remarks, market)
    \/ Generate
    \/ \E assessors \in Assessments, answer \in Answers : ReviewProposals(assessors, answer)
    \/ RenderPlan

Spec == Init /\ [][Next]_vars
-----------------------------------------------------------------------------
(* Properties. *)

Space == SearchSpace(in)
Cheapest(options) == {c \in options : \A d \in options : c.price <= d.price}
Tagged(t) == {p \in plan.proposals : t \in p.tags}

(* A plan that goes to the review offers each tag once, only candidates    *)
(* that no repair so far has excluded, and only returns that leave after   *)
(* the arrival; an id names one candidate, however often it was found and  *)
(* at whatever price; its cheapest proposal is no more than 15 percent above any *)
(* other, and is free of experience flags when a flagged one is cheaper.   *)
(* (plan_itinerary: exclusion, time filter, _pick_experience_aware;        *)
(* _merge_candidates)                                                      *)
RepresentativesSound ==
    stage = "review" =>
        /\ plan.proposals # {} /\ \A t \in TagNames : Cardinality(Tagged(t)) = 1
        /\ \A p \in plan.proposals :
             LET c == p.row.combo
             IN  /\ {c.out.id, c.back.id} \cap in.excludedTransports = {}
                 /\ c.hotel.id \notin in.excludedHotels
                 /\ InOrder(c.out, c.back)
        /\ \A c, d \in in.transports \cup in.hotels : c.id = d.id => c = d
        /\ \A p \in Tagged("price"), q \in plan.proposals :
             /\ 100 * p.row.price <= 115 * q.row.price
             /\ q.row.price < p.row.price => q.row.flagged /\ ~p.row.flagged

(* However many candidates the pruning drops, the cheapest outbound leg,   *)
(* return leg and priced hotel stay: if they go together in time, no       *)
(* combination of the whole search space with a priced hotel undercuts the *)
(* plan's cheapest proposal by more than the 15 percent granted to its     *)
(* comfort.  A hotel whose price could not be read is pruned first, though *)
(* the totals count it as free: of its combinations nothing is promised.   *)
(* (The hotels of one search are for the same nights.)                     *)
(* (_prune_candidate_space)                                                *)
CheapestSurvives ==
    stage = "review" /\ (\A o \in Cheapest(Space.out), b \in Cheapest(Space.back) : InOrder(o, b)) =>
        \A p \in Tagged("price"), c \in Combinations(Space) :
            c.hotel.price > 0 => 100 * p.row.price <= 115 * TotalPrice(c)

(* A failed objective check of any proposal fails the plan, whatever the   *)
(* assessors and the arbitrator say: the report asks for a repair, and no  *)
(* run ends on a failed report untried.                                    *)
(* (review_itinerary: hard veto; _should_repair)                           *)
VetoStands ==
    report # NoReport =>
        /\ (\E i \in DOMAIN report.objective.status : report.objective.status[i] = "fail") =>
             /\ report.verdict = "fail" /\ report.vetoed /\ report.continue
        /\ stage = "completed" /\ report.verdict = "fail" => round > 0

(* The arbitrator's rules (resources/prompts/review/review-arbitrator.md,  *)
(* line 24): a dimension that fails, subjective ones included, fails the   *)
(* whole plan.                                                             *)
AnyFailFails ==
    report # NoReport /\ "fail" \in report.subjective => report.verdict = "fail"
=============================================================================
