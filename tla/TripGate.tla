------------------------------ MODULE TripGate ------------------------------
(***************************************************************************)
(* The conflict gate before the travel orders of a user: the tools that    *)
(* submit and modify an order (tools/order.py) look for an identical order *)
(* and for conflicting trips (tools/conflict.py, with the estimates of     *)
(* services/city_transit_time.py) before they write.  Looking and writing  *)
(* are transactions of their own, so calls interleave between them.        *)
(*                                                                         *)
(* The approvals that go with an order are those of TravelOrders; here a   *)
(* cancellation and a decision are one step each, and a decision may come  *)
(* whatever has become of the order.  An order is known by its index.      *)
(* Days are numbers.                                                       *)
(***************************************************************************)
EXTENDS Naturals, Sequences, TLC

CONSTANTS
    Calls,       \* the calls that create and modify orders
    Names,       \* the cities as written
    Days,
    Purposes,
    CityOf,      \* normalize_city
    Tier,        \* _tier of a city: 0, 1, 2, or 3 for any other one
    Configured,  \* city_pair_minutes: from pairs of cities to minutes
    Requests,    \* the trips that may be submitted
    Changes      \* the values that a modification may give

Trips == [from : Names, to : Names, dep : Days, ret : Days, purpose : Purposes]

ASSUME TripGateAssumption ==
    /\ Days \subseteq Nat
    /\ Requests \subseteq Trips
    /\ \A c \in Changes, t \in Trips : c @@ t \in Trips
    /\ \A n \in Names : Tier[CityOf[n]] \in 0..3
    /\ \A pair \in DOMAIN Configured : Configured[pair] \in Nat \ {0}

VARIABLES
    orders,   \* the rows: trip, status; and as history, the calls that wrote
              \* the trip, whether the last one went on over conflicts, and
              \* whether the order was since put in force again by a decision
    pc,       \* the next step of each call
    call,     \* what each call does: its trip or change, its order, ignore_conflicts
    beside    \* history: pairs of calls that were at work together

vars == <<orders, pc, call, beside>>
-----------------------------------------------------------------------------
(* estimate_minutes *)
ByTier(tier) == IF tier = 3 THEN 360 ELSE IF tier = 2 THEN 300 ELSE 270

EstimateMinutes(from, to) ==
    LET a == CityOf[from]
        b == CityOf[to]
    IN  IF a = b THEN 0
        ELSE IF {a, b} \in DOMAIN Configured THEN Configured[{a, b}]
        ELSE ByTier(IF Tier[a] < Tier[b] THEN Tier[b] ELSE Tier[a])

SameCity(a, b) == CityOf[a] = CityOf[b]

(* _same_day_conflict, _adjacent_day_conflict, _overlap_conflict: the       *)
(* severity, or "none".                                                     *)
SameDay(end, start) ==
    LET minutes == EstimateMinutes(end, start)
    IN  IF minutes = 0 THEN "none" ELSE IF minutes > 24 * 60 THEN "HIGH" ELSE "MEDIUM"

NextDay(end, start) == IF EstimateMinutes(end, start) <= 8 * 60 THEN "none" ELSE "MEDIUM"

SameTime(e, c) ==
    IF SameCity(e.from, c.from) /\ SameCity(e.to, c.to) THEN "LOW" ELSE "HIGH"

(* One trip ends on the day the other begins; two trips within one and the *)
(* same day overlap.                                                       *)
HandsOver(first, second) == first.ret = second.dep /\ first.dep # second.ret

Overlap(e, c) == e.ret >= c.dep /\ e.dep <= c.ret

(* _detect: the existing trip e against the candidate c. *)
Detect(e, c) ==
    IF HandsOver(e, c) THEN SameDay(e.to, c.from)
    ELSE IF HandsOver(c, e) THEN SameDay(c.to, e.from)
    ELSE IF Overlap(e, c) THEN SameTime(e, c)
    ELSE IF e.ret + 1 = c.dep THEN NextDay(e.to, c.from)
    ELSE IF c.ret + 1 = e.dep THEN NextDay(c.to, e.from)
    ELSE "none"
-----------------------------------------------------------------------------
ActiveStatuses == {"DRAFT", "SUBMITTED", "APPROVED"}
Active == {o \in DOMAIN orders : orders[o].status \in ActiveStatuses}
Blocking == {"HIGH", "MEDIUM"}
WellFormed(trip) == trip.dep <= trip.ret

(* Mutant: only the trips that overlap the candidate are looked at. *)
InWindowNarrow(e, c) == Overlap(e, c)

InWindow(e, c) == e.ret + 1 >= c.dep /\ e.dep <= c.ret + 1

(* build_conflict_report of a valid candidate, without the order modified. *)
ConflictReport(c, exclude) ==
    {Detect(orders[o].trip, c) :
        o \in {o \in Active \ exclude : WellFormed(orders[o].trip) /\ InWindow(orders[o].trip, c)}}

RequiresConfirmation(p, c, exclude) ==
    ~call[p].ignore /\ ConflictReport(c, exclude) \cap Blocking # {}

(* Mutant: an order whose approval was never filed is not a duplicate. *)
FiledDuplicates(t) == {o \in Active : orders[o].status # "DRAFT" /\ orders[o].trip = t}

(* _matching_active_order *)
MatchingActive(t) == {o \in Active : orders[o].trip = t}
-----------------------------------------------------------------------------
NoCall == [kind |-> "none"]
Settled == {"idle", "ended"}
Goto(p, there) == pc' = [pc EXCEPT ![p] = there]

Ends(p) ==
    /\ Goto(p, "ended")
    /\ call' = [call EXCEPT ![p] = [kind |-> @.kind]]

Init ==
    /\ orders = <<>>
    /\ pc = [p \in Calls |-> "idle"]
    /\ call = [p \in Calls |-> NoCall]
    /\ beside = {}

Starts(p, c) ==
    /\ pc[p] = "idle"
    /\ call' = [call EXCEPT ![p] = c]
    /\ beside' = beside \cup {{p, q} : q \in {q \in Calls : pc[q] \notin Settled}}

(* submit_travel_approval: an identical order is the answer to a repeated  *)
(* submission ...                                                          *)
Submits(p, t, ignore) ==
    /\ Starts(p, [kind |-> "submit", trip |-> t, ignore |-> ignore])
    /\ Goto(p, IF MatchingActive(t) # {} THEN "repeated" ELSE "report")
    /\ UNCHANGED orders

(* The endpoint POST /travel/orders creates an order without looking. *)
CreatesDirectly(p, t) ==
    /\ Starts(p, [kind |-> "direct", trip |-> t, ignore |-> TRUE])
    /\ Goto(p, "write")
    /\ UNCHANGED orders

(* modify_travel_order: the candidate is made from the row fetched ... *)
Fetches(p, o, change, ignore) ==
    /\ Starts(p, [kind |-> "modify", order |-> o, change |-> change, ignore |-> ignore,
                  trip |-> change @@ orders[o].trip])
    /\ Goto(p, "report")
    /\ UNCHANGED orders

(* ... a conflict report then refuses, or lets the call write, ... *)
Excluded(p) == IF call[p].kind = "modify" THEN {call[p].order} ELSE {}

Passes(p) ==
    /\ pc[p] = "report"
    /\ WellFormed(call[p].trip)
    /\ ~RequiresConfirmation(p, call[p].trip, Excluded(p))
    /\ Goto(p, "write")
    /\ UNCHANGED <<orders, call, beside>>

(* The call returns or its process dies: the trip was submitted before;    *)
(* the report is INVALID, FAILED (the orders could not be read) or to be   *)
(* unchecked; or a crash, which leaves what was written.                   *)
Returns(p) ==
    /\ pc[p] \notin Settled
    /\ Ends(p)
    /\ UNCHANGED <<orders, beside>>

(* ... and the order is created ... *)
Creates(p) ==
    /\ pc[p] = "write" /\ call[p].kind \in {"submit", "direct"}
    /\ orders' = Append(orders, [trip |-> call[p].trip, status |-> "DRAFT",
                                 by |-> {p}, unchecked |-> call[p].ignore,
                                 revived |-> FALSE])
    /\ call' = [call EXCEPT ![p] = [kind |-> @.kind, order |-> Len(orders) + 1]]
    /\ Goto(p, "promote")
    /\ UNCHANGED beside

(* ... or gets the values given, the others being what they are by now. *)
Rewrites(p) ==
    LET o == call[p].order IN
    /\ pc[p] = "write" /\ call[p].kind = "modify"
    /\ orders' = [orders EXCEPT ![o] =
                    [trip |-> call[p].change @@ @.trip, status |-> "DRAFT",
                     by |-> @.by \cup {p}, unchecked |-> call[p].ignore, revived |-> FALSE]]
    /\ Goto(p, "promote")
    /\ UNCHANGED <<call, beside>>

(* With its approval filed the order is SUBMITTED. *)
Promotes(p) ==
    /\ pc[p] = "promote"
    /\ orders' = [orders EXCEPT ![call[p].order].status = "SUBMITTED"]
    /\ Ends(p)
    /\ UNCHANGED beside

(* cancel_travel_order; the administrator's decision, which asks for an    *)
(* approval still pending and never for the status of the order: the one   *)
(* that a cancellation which died did not withdraw puts the order in force *)
(* again.                                                                  *)
Cancels(o) ==
    /\ orders[o].status # "CANCELLED"
    /\ orders' = [orders EXCEPT ![o].status = "CANCELLED", ![o].revived = FALSE]
    /\ UNCHANGED <<pc, call, beside>>

Decided(o, status) ==
    /\ orders' = [orders EXCEPT ![o].status = status,
                    ![o].revived = status = "APPROVED" /\ (@ \/ o \notin Active)]
    /\ UNCHANGED <<pc, call, beside>>

Next ==
    \/ \E p \in Calls :
        \/ \E t \in Requests, ignore \in BOOLEAN : Submits(p, t, ignore)
        \/ \E t \in Requests : CreatesDirectly(p, t)
        \/ \E o \in DOMAIN orders, c \in Changes, ignore \in BOOLEAN : Fetches(p, o, c, ignore)
        \/ Passes(p) \/ Creates(p) \/ Rewrites(p) \/ Promotes(p) \/ Returns(p)
    \/ \E o \in DOMAIN orders :
        \/ Cancels(o)
        \/ \E status \in {"APPROVED", "REJECTED"} : Decided(o, status)

Spec == Init /\ [][Next]_vars
-----------------------------------------------------------------------------
(* Properties. *)

(* Two calls wrote the trips of a and b, and were at work together. *)
Raced(a, b) ==
    \E p \in orders[a].by, q \in orders[a].by \cup orders[b].by : p # q /\ {p, q} \in beside

(* The orders in force that no decision brought back. *)
Standing == {o \in Active : ~orders[o].revived}

(* No two orders in force ask their traveller to be at two places at once, *)
(* or to change between them in too little time, unless the user was asked *)
(* and confirmed, an endpoint was used that does not look, the calls that  *)
(* wrote them overlapped, or one was no longer in force when it was        *)
(* approved.  It takes the report to see the same conflicts whichever trip *)
(* was there first, and every later modification, cancellation and         *)
(* decision to keep to it.                                                 *)
(* (_conflict_report_or_error before every write, build_conflict_report)   *)
NoUnseenConflict ==
    \A a, b \in Standing :
        a # b /\ ~orders[a].unchecked /\ ~orders[b].unchecked /\ ~Raced(a, b) /\ ~Raced(b, a)
            => Detect(orders[a].trip, orders[b].trip) \notin Blocking

(* Submitting once more a trip that was submitted, be it after a crash     *)
(* that left the first order a draft, makes no second order in force,      *)
(* whatever the user confirms; unless the two submissions overlapped, an   *)
(* order was modified since or came from the endpoint, or one was no       *)
(* longer in force when it was approved.                                   *)
(* (_matching_active_order)                                                *)
SubmittedOnce ==
    \A a, b \in Standing :
        /\ a # b /\ orders[a].trip = orders[b].trip /\ ~Raced(a, b)
        => \E o \in {a, b} : \E p \in orders[o].by : call[p].kind # "submit"
=============================================================================
