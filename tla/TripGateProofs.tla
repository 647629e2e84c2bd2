---------------------------- MODULE TripGateProofs ----------------------------
(***************************************************************************)
(* The two safety properties of TripGate, for any number of calls, any     *)
(* cities and estimates, and any trips.                                    *)
(*                                                                         *)
(* A call writes an order some steps after it looked at the other ones.    *)
(* What it found stays true of an order, unless the order was written      *)
(* since, and then by a call at work at the same time: CheckedInv for the  *)
(* conflicts, LookedInv for identical trips.  A modification checks the    *)
(* trip it computed from the row it fetched, which is the one it writes    *)
(* unless another call changed the row: FetchedInv.  An order that was     *)
(* cancelled may be put in force again by the call that wrote it, so       *)
(* everything is said of the orders in force and of those to be promoted:  *)
(* Alive.  A decision may bring any other one back, and nothing is said of *)
(* those.  Last, the check must not depend on which of two trips was there *)
(* first: DetectSymmetric.                                                 *)
(***************************************************************************)
EXTENDS TripGate, TLAPS

Row == [trip : Trips, status : {"DRAFT", "SUBMITTED", "APPROVED", "REJECTED", "CANCELLED"},
        by : SUBSET Calls, unchecked : BOOLEAN, revived : BOOLEAN]

Alive == Standing \cup {call[p].order : p \in {p \in Calls : pc[p] = "promote"}}

(* Two calls that wrote a were at work together; p and one that wrote a.   *)
Tangled(a) == \E p, q \in orders[a].by : p # q /\ {p, q} \in beside
Beside(p, a) == \E q \in orders[a].by : p # q /\ {p, q} \in beside

AskedOtherwise(a) == \E p \in orders[a].by : call[p].kind # "submit"

CallInv ==
    \A p \in Calls :
        /\ pc[p] \in {"report", "write"} =>
             /\ call[p].trip \in Trips /\ call[p].ignore \in BOOLEAN
             /\ call[p].kind = "modify" =>
                  call[p].order \in DOMAIN orders /\ call[p].change \in Changes
             /\ pc[p] = "write" /\ ~call[p].ignore => WellFormed(call[p].trip)
        /\ pc[p] = "promote" =>
             call[p].order \in DOMAIN orders /\ p \in orders[call[p].order].by

Typed ==
    /\ orders \in Seq(Row)
    /\ pc \in [Calls -> Settled \cup {"report", "repeated", "write", "promote"}]
    /\ call = [p \in Calls |-> call[p]]
    /\ CallInv

BesideInv ==
    \A p, q \in Calls :
        p # q /\ pc[p] \notin Settled /\ pc[q] \notin Settled => {p, q} \in beside

(* Writers have started; of two writers of an order one has modified it.   *)
WriterInv ==
    \A a \in DOMAIN orders :
        /\ \A p \in orders[a].by : pc[p] # "idle"
        /\ \A p, q \in orders[a].by : p # q => AskedOtherwise(a)

ShapeInv ==
    \A a \in DOMAIN orders : WellFormed(orders[a].trip) \/ orders[a].unchecked \/ Tangled(a)

FetchedInv ==
    \A p \in Calls :
        pc[p] \in {"report", "write"} /\ call[p].kind = "modify" =>
            \/ call[p].trip = call[p].change @@ orders[call[p].order].trip
            \/ Beside(p, call[p].order)

CheckedInv ==
    \A p \in Calls :
        pc[p] = "write" /\ ~call[p].ignore =>
            \A b \in Alive \ Excluded(p) :
                \/ orders[b].unchecked \/ Tangled(b) \/ Beside(p, b)
                \/ Detect(orders[b].trip, call[p].trip) \notin Blocking

PairInv ==
    \A a, b \in Alive :
        a # b /\ ~orders[a].unchecked /\ ~orders[b].unchecked /\ ~Raced(a, b) /\ ~Raced(b, a)
            => Detect(orders[a].trip, orders[b].trip) \notin Blocking

LookedInv ==
    \A p \in Calls :
        pc[p] \in {"report", "write"} /\ call[p].kind = "submit" =>
            \A b \in Alive :
                orders[b].trip = call[p].trip => Beside(p, b) \/ AskedOtherwise(b)

TwiceInv ==
    \A a, b \in Alive :
        a # b /\ orders[a].trip = orders[b].trip
            => Raced(a, b) \/ AskedOtherwise(a) \/ AskedOtherwise(b)

Base == Typed /\ BesideInv /\ WriterInv /\ ShapeInv /\ FetchedInv
Inv == Base /\ CheckedInv /\ PairInv /\ LookedInv /\ TwiceInv
-----------------------------------------------------------------------------
LEMMA DaysOfTrips ==
    ASSUME NEW t \in Trips
    PROVE  t.dep \in Nat /\ t.ret \in Nat /\ t.from \in Names /\ t.to \in Names
  BY TripGateAssumption DEF Trips

(* The report says the same of two trips whichever was there first: an     *)
(* order is refused for a trip exactly if the trip would be refused for    *)
(* the order.  (_detect)                                                   *)
THEOREM DetectSymmetric ==
    ASSUME NEW e \in Trips, NEW c \in Trips, WellFormed(e), WellFormed(c)
    PROVE  Detect(e, c) = Detect(c, e)
<1>1. /\ e.dep \in Nat /\ e.ret \in Nat /\ e.dep <= e.ret
      /\ c.dep \in Nat /\ c.ret \in Nat /\ c.dep <= c.ret
  BY DaysOfTrips DEF WellFormed
<1>2. CASE HandsOver(e, c)
  BY <1>1, <1>2 DEF HandsOver, Detect
<1>3. CASE HandsOver(c, e)
  BY <1>1, <1>3 DEF HandsOver, Detect
<1>4. CASE ~HandsOver(e, c) /\ ~HandsOver(c, e) /\ Overlap(e, c)
  <2>1. Overlap(c, e)
    BY <1>1, <1>4 DEF Overlap
  <2>2. SameTime(e, c) = SameTime(c, e)
    BY DEF SameTime, SameCity
  <2>3. QED
    BY <1>4, <2>1, <2>2 DEF Detect
<1>5. CASE ~HandsOver(e, c) /\ ~HandsOver(c, e) /\ ~Overlap(e, c)
  <2>1. ~Overlap(c, e) /\ ~(e.ret + 1 = c.dep /\ c.ret + 1 = e.dep)
    BY <1>1, <1>5 DEF Overlap
  <2>2. QED
    BY <1>5, <2>1 DEF Detect
<1>6. QED
  BY <1>2, <1>3, <1>4, <1>5

(* The window of orders read for the report leaves no conflict out: a trip *)
(* that ends two days before the other begins is none.                     *)
(* (build_conflict_report)                                                 *)
THEOREM WindowComplete ==
    ASSUME NEW e \in Trips, NEW c \in Trips, WellFormed(e), WellFormed(c),
           Detect(e, c) # "none"
    PROVE  InWindow(e, c)
<1>1. /\ e.dep \in Nat /\ e.ret \in Nat /\ e.dep <= e.ret
      /\ c.dep \in Nat /\ c.ret \in Nat /\ c.dep <= c.ret
  BY DaysOfTrips DEF WellFormed
<1>2. HandsOver(e, c) \/ HandsOver(c, e) \/ Overlap(e, c)
        \/ e.ret + 1 = c.dep \/ c.ret + 1 = e.dep
  BY DEF Detect
<1>3. QED
  BY <1>1, <1>2 DEF HandsOver, Overlap, InWindow
-----------------------------------------------------------------------------
(* What the steps leave of the orders. *)
LEMMA RowTypes ==
    ASSUME Typed
    PROVE  \A a \in DOMAIN orders :
               orders[a] \in Row /\ orders[a].trip \in Trips /\ orders[a].by \subseteq Calls
<1>1. orders \in Seq(Row)
  BY DEF Typed
<1>2. \A a \in DOMAIN orders : orders[a] \in Row
  BY <1>1
<1>3. QED
  BY <1>2 DEF Row

LEMMA OrderAdded ==
    ASSUME Typed, NEW p \in Calls, Creates(p), NEW new, new = Len(orders) + 1
    PROVE  /\ orders' \in Seq(Row) /\ DOMAIN orders' = DOMAIN orders \cup {new}
           /\ new \notin DOMAIN orders
           /\ \A a \in DOMAIN orders : orders'[a] = orders[a]
           /\ orders'[new].trip = call[p].trip /\ orders'[new].by = {p}
           /\ orders'[new].unchecked = call[p].ignore
<1> DEFINE row == [trip |-> call[p].trip, status |-> "DRAFT", by |-> {p},
                   unchecked |-> call[p].ignore, revived |-> FALSE]
<1>1. orders \in Seq(Row) /\ orders' = Append(orders, row)
  BY DEF Typed, Creates
<1>2. call[p].trip \in Trips /\ call[p].ignore \in BOOLEAN
  BY DEF Typed, CallInv, Creates
<1>3. row \in Row
  BY <1>2 DEF Row
<1>4. row.trip = call[p].trip /\ row.by = {p} /\ row.unchecked = call[p].ignore
  OBVIOUS
<1> HIDE DEF row
<1>5. /\ orders' \in Seq(Row) /\ Len(orders') = new /\ Len(orders) \in Nat
      /\ DOMAIN orders = 1..Len(orders) /\ DOMAIN orders' = 1..Len(orders')
      /\ \A a \in 1..Len(orders) : orders'[a] = orders[a]
      /\ orders'[new] = row
  BY <1>1, <1>3
<1>6. QED
  BY <1>4, <1>5

LEMMA OrderWritten ==
    ASSUME Typed, NEW o \in DOMAIN orders, NEW row \in Row, orders' = [orders EXCEPT ![o] = row]
    PROVE  /\ orders' \in Seq(Row) /\ DOMAIN orders' = DOMAIN orders /\ orders'[o] = row
           /\ \A a \in DOMAIN orders : a # o => orders'[a] = orders[a]
<1>1. orders \in Seq(Row) /\ Len(orders) \in Nat /\ DOMAIN orders = 1..Len(orders)
  BY DEF Typed
<1>2. orders \in [1..Len(orders) -> Row]
  BY <1>1
<1>3. orders' \in [1..Len(orders) -> Row]
  BY <1>1, <1>2
<1>4. orders' \in Seq(Row)
  BY <1>1, <1>3
<1>5. QED
  BY <1>1, <1>2, <1>3, <1>4

LEMMA OrderRewritten ==
    ASSUME Typed, NEW p \in Calls, Rewrites(p), NEW o, o = call[p].order
    PROVE  /\ orders' \in Seq(Row) /\ DOMAIN orders' = DOMAIN orders /\ o \in DOMAIN orders
           /\ \A a \in DOMAIN orders : a # o => orders'[a] = orders[a]
           /\ orders'[o].trip = call[p].change @@ orders[o].trip
           /\ orders'[o].by = orders[o].by \cup {p}
           /\ orders'[o].unchecked = call[p].ignore
<1> DEFINE trip == call[p].change @@ orders[o].trip
           row == [trip |-> trip, status |-> "DRAFT", by |-> orders[o].by \cup {p},
                   unchecked |-> call[p].ignore, revived |-> FALSE]
<1>1. /\ o \in DOMAIN orders /\ call[p].change \in Changes /\ call[p].ignore \in BOOLEAN
  BY DEF Typed, CallInv, Rewrites
<1>2. orders[o].trip \in Trips /\ orders[o].by \subseteq Calls
  BY <1>1, RowTypes
<1>3. trip \in Trips
  BY <1>1, <1>2, TripGateAssumption
<1>4. orders' = [orders EXCEPT ![o] = row]
  BY DEF Rewrites
<1> HIDE DEF trip
<1>5. row \in Row
  BY <1>1, <1>2, <1>3 DEF Row
<1>6. /\ row.trip = trip /\ row.by = orders[o].by \cup {p} /\ row.unchecked = call[p].ignore
  OBVIOUS
<1> HIDE DEF row
<1>7. QED
  BY <1>1, <1>4, <1>5, <1>6, OrderWritten DEF trip

LEMMA StatusWritten ==
    ASSUME Typed, NEW o \in DOMAIN orders, NEW revived \in BOOLEAN,
           NEW status \in {"SUBMITTED", "APPROVED", "REJECTED", "CANCELLED"},
           orders' = [orders EXCEPT ![o].status = status, ![o].revived = revived]
    PROVE  /\ orders' \in Seq(Row) /\ DOMAIN orders' = DOMAIN orders
           /\ \A a \in DOMAIN orders :
                /\ orders'[a].trip = orders[a].trip /\ orders'[a].by = orders[a].by
                /\ orders'[a].unchecked = orders[a].unchecked
                /\ a # o => orders'[a] = orders[a]
           /\ orders'[o].status = status /\ orders'[o].revived = revived
<1> DEFINE row == [orders[o] EXCEPT !.status = status, !.revived = revived]
<1>1. orders[o] \in Row
  BY RowTypes
<1>2. /\ row \in Row /\ row.trip = orders[o].trip /\ row.by = orders[o].by
      /\ row.unchecked = orders[o].unchecked /\ row.status = status /\ row.revived = revived
  BY <1>1 DEF Row
<1>3. orders' = [orders EXCEPT ![o] = row]
  BY DEF Typed
<1> HIDE DEF row
<1>4. QED
  BY <1>2, <1>3, OrderWritten
-----------------------------------------------------------------------------
(* The steps that leave trips, writers and flags as they are: those of a   *)
(* call before and after it writes, and those on the status.               *)
Quiet(p) ==
    \/ \E t \in Requests, ignore \in BOOLEAN : Submits(p, t, ignore)
    \/ \E t \in Requests : CreatesDirectly(p, t)
    \/ \E o \in DOMAIN orders, c \in Changes, ignore \in BOOLEAN : Fetches(p, o, c, ignore)
    \/ Passes(p) \/ Returns(p)

OnStatus(o) == Cancels(o) \/ \E status \in {"APPROVED", "REJECTED"} : Decided(o, status)

(* What a step on the status or by a quiet call leaves as it was.          *)
Unwritten ==
    /\ DOMAIN orders' = DOMAIN orders
    /\ \A a \in DOMAIN orders :
         /\ orders'[a].trip = orders[a].trip /\ orders'[a].by = orders[a].by
         /\ orders'[a].unchecked = orders[a].unchecked
    /\ beside \subseteq beside'

OthersStay(p) ==
    \A q \in Calls : q # p => pc'[q] = pc[q] /\ call'[q] = call[q]

LEMMA QuietUnwritten ==
    ASSUME Typed, NEW p \in Calls, Quiet(p)
    PROVE  orders' = orders /\ Unwritten /\ OthersStay(p) /\ Alive' \subseteq Alive
<1>1. orders' = orders /\ Unwritten
  BY DEF Quiet, Unwritten, Submits, CreatesDirectly, Fetches, Passes, Returns, Starts
<1>2. pc \in [Calls -> Settled \cup {"report", "repeated", "write", "promote"}]
      /\ call = [q \in Calls |-> call[q]]
  BY DEF Typed
<1>3. OthersStay(p)
  BY <1>2 DEF Quiet, OthersStay, Submits, CreatesDirectly, Fetches, Passes, Returns, Starts, Ends,
     Goto
<1>4. pc'[p] # "promote"
  BY <1>2 DEF Quiet, Submits, CreatesDirectly, Fetches, Passes, Returns, Ends, Goto
<1>5. Alive' \subseteq Alive
  BY <1>1, <1>3, <1>4 DEF OthersStay, Alive, Standing, Active
<1>6. QED
  BY <1>1, <1>3, <1>5

LEMMA StatusUnwritten ==
    ASSUME Typed, NEW o \in DOMAIN orders, OnStatus(o)
    PROVE  /\ orders' \in Seq(Row) /\ Unwritten /\ UNCHANGED <<pc, call, beside>>
           /\ Alive' \subseteq Alive
<1>1. PICK status \in {"APPROVED", "REJECTED", "CANCELLED"}, revived \in BOOLEAN :
         /\ orders' = [orders EXCEPT ![o].status = status, ![o].revived = revived]
         /\ status = "APPROVED" /\ o \notin Standing => revived
  <2>1. orders \in Seq(Row) /\ orders[o] \in Row /\ orders[o].revived \in BOOLEAN
    BY RowTypes DEF Typed, Row
  <2>2. CASE Cancels(o)
    BY <2>2 DEF Cancels
  <2>3. ASSUME NEW status \in {"APPROVED", "REJECTED"}, Decided(o, status)
        PROVE  \E revived \in BOOLEAN :
                  /\ orders' = [orders EXCEPT ![o].status = status, ![o].revived = revived]
                  /\ status = "APPROVED" /\ o \notin Standing => revived
    <3> DEFINE revived == status = "APPROVED" /\ (orders[o].revived \/ o \notin Active)
    <3>1. orders' = [orders EXCEPT ![o].status = status, ![o].revived = revived]
      BY <2>1, <2>3 DEF Decided
    <3>2. revived \in BOOLEAN
      OBVIOUS
    <3>3. status = "APPROVED" /\ o \notin Standing => revived
      BY DEF Standing
    <3> HIDE DEF revived
    <3>4. QED
      BY <3>1, <3>2, <3>3
  <2>4. QED
    BY <2>2, <2>3 DEF OnStatus
<1>2. UNCHANGED <<pc, call, beside>>
  BY DEF OnStatus, Cancels, Decided
<1>3. /\ orders' \in Seq(Row) /\ DOMAIN orders' = DOMAIN orders
      /\ \A a \in DOMAIN orders :
           /\ orders'[a].trip = orders[a].trip /\ orders'[a].by = orders[a].by
           /\ orders'[a].unchecked = orders[a].unchecked
           /\ a # o => orders'[a] = orders[a]
      /\ orders'[o].status = status /\ orders'[o].revived = revived
  BY <1>1, StatusWritten
<1>4. Standing' \subseteq Standing
  BY <1>1, <1>3 DEF Standing, Active, ActiveStatuses
<1>5. QED
  BY <1>2, <1>3, <1>4 DEF Unwritten, Alive

LEMMA PromotesUnwritten ==
    ASSUME Typed, NEW p \in Calls, Promotes(p)
    PROVE  /\ orders' \in Seq(Row) /\ Unwritten /\ OthersStay(p) /\ beside' = beside
           /\ Alive' \subseteq Alive /\ pc'[p] = "ended" /\ call'[p].kind = call[p].kind
<1> DEFINE o == call[p].order
<1>1. /\ pc[p] = "promote" /\ o \in DOMAIN orders
      /\ orders' = [orders EXCEPT ![o].status = "SUBMITTED"]
  BY DEF Promotes, Typed, CallInv
<1> DEFINE revived == orders[o].revived
<1>10. orders[o] \in Row /\ revived \in BOOLEAN
  BY <1>1, RowTypes DEF Row
<1>11. orders' = [orders EXCEPT ![o].status = "SUBMITTED", ![o].revived = revived]
  BY <1>1, <1>10 DEF Typed, Row
<1>2. /\ orders' \in Seq(Row) /\ DOMAIN orders' = DOMAIN orders
      /\ \A a \in DOMAIN orders :
           /\ orders'[a].trip = orders[a].trip /\ orders'[a].by = orders[a].by
           /\ orders'[a].unchecked = orders[a].unchecked
           /\ a # o => orders'[a] = orders[a]
  BY <1>1, <1>10, <1>11, StatusWritten
<1>3. /\ OthersStay(p) /\ beside' = beside /\ pc'[p] = "ended"
      /\ call'[p].kind = call[p].kind
  BY DEF Promotes, Ends, Goto, Typed, OthersStay
<1>4. Standing' \subseteq Standing \cup {o}
  BY <1>2 DEF Standing, Active
<1>5. o \in Alive
  BY <1>1 DEF Alive
<1>6. Alive' \subseteq Alive
  <2>1. {call'[q].order : q \in {q \in Calls : pc'[q] = "promote"}}
           \subseteq {call[q].order : q \in {q \in Calls : pc[q] = "promote"}}
    BY <1>3 DEF OthersStay
  <2>2. QED
    BY <1>4, <1>5, <2>1 DEF Alive
<1>7. QED
  BY <1>2, <1>3, <1>6 DEF Unwritten

(* An order written by p: the new one or the one modified. *)
Written(p, o) ==
    /\ pc[p] = "write" /\ pc'[p] = "promote" /\ OthersStay(p) /\ beside' = beside
    /\ call'[p].kind = call[p].kind
    /\ DOMAIN orders' = DOMAIN orders \cup {o}
    /\ \A a \in DOMAIN orders : a # o => orders'[a] = orders[a]
    /\ Alive' \subseteq Alive \cup {o} /\ (o \in Alive => o \in DOMAIN orders)
    /\ Excluded(p) \subseteq {o}
    /\ p \in orders'[o].by /\ (o \in DOMAIN orders => orders[o].by \subseteq orders'[o].by)
    /\ orders'[o].by \subseteq Calls
    /\ \A q \in orders'[o].by : q = p \/ (o \in DOMAIN orders /\ q \in orders[o].by)
    /\ orders'[o].unchecked = call[p].ignore
    /\ orders'[o].trip = call[p].trip \/ (o \in DOMAIN orders /\ Beside(p, o))
    /\ \/ call[p].kind = "modify"
       \/ o \notin DOMAIN orders /\ orders'[o].trip = call[p].trip

LEMMA AliveWritten ==
    ASSUME Typed, NEW p \in Calls, NEW o, OthersStay(p), call'[p].order = o,
           \A a \in DOMAIN orders : a # o => orders'[a] = orders[a],
           DOMAIN orders' = DOMAIN orders \cup {o}
    PROVE  Alive' \subseteq Alive \cup {o}
<1>1. Standing' \subseteq Standing \cup {o}
  BY DEF Standing, Active
<1>2. {call'[q].order : q \in {q \in Calls : pc'[q] = "promote"}}
         \subseteq {call[q].order : q \in {q \in Calls : pc[q] = "promote"}} \cup {o}
  BY DEF OthersStay
<1>3. QED
  BY <1>1, <1>2 DEF Alive

LEMMA AliveOrders == ASSUME Typed PROVE Alive \subseteq DOMAIN orders
  BY DEF Typed, CallInv, Alive, Standing, Active

LEMMA CreatesWritten ==
    ASSUME Typed, NEW p \in Calls, Creates(p)
    PROVE  Written(p, Len(orders) + 1) /\ orders' \in Seq(Row) /\ call'[p].order = Len(orders) + 1
<1> DEFINE new == Len(orders) + 1
<1>1. /\ orders' \in Seq(Row) /\ DOMAIN orders' = DOMAIN orders \cup {new}
      /\ new \notin DOMAIN orders
      /\ \A a \in DOMAIN orders : orders'[a] = orders[a]
      /\ orders'[new].trip = call[p].trip /\ orders'[new].by = {p}
      /\ orders'[new].unchecked = call[p].ignore
  BY OrderAdded
<1>2. /\ pc[p] = "write" /\ pc'[p] = "promote" /\ OthersStay(p) /\ beside' = beside
      /\ call'[p].kind = call[p].kind /\ call'[p].order = new
  BY DEF Creates, Goto, Typed, OthersStay
<1>3. call[p].kind # "modify"
  BY DEF Creates
<1> HIDE DEF new
<1>4. Alive' \subseteq Alive \cup {new}
  BY <1>1, <1>2, AliveWritten
<1>5. Written(p, new)
  BY <1>1, <1>2, <1>3, <1>4, AliveOrders DEF Written, Excluded
<1>6. QED
  BY <1>1, <1>2, <1>5 DEF new

LEMMA RewritesWritten ==
    ASSUME Typed, FetchedInv, NEW p \in Calls, Rewrites(p)
    PROVE  Written(p, call[p].order) /\ orders' \in Seq(Row) /\ call' = call
<1> DEFINE o == call[p].order
<1>1. /\ orders' \in Seq(Row) /\ DOMAIN orders' = DOMAIN orders /\ o \in DOMAIN orders
      /\ \A a \in DOMAIN orders : a # o => orders'[a] = orders[a]
      /\ orders'[o].trip = call[p].change @@ orders[o].trip
      /\ orders'[o].by = orders[o].by \cup {p}
      /\ orders'[o].unchecked = call[p].ignore
  BY OrderRewritten
<1>2. /\ pc[p] = "write" /\ pc'[p] = "promote" /\ OthersStay(p) /\ beside' = beside
      /\ call' = call /\ call[p].kind = "modify"
  BY DEF Rewrites, Goto, Typed, OthersStay
<1>3. orders'[o].trip = call[p].trip \/ Beside(p, o)
  BY <1>1, <1>2 DEF FetchedInv
<1>4. orders[o].by \subseteq Calls
  BY <1>1, RowTypes
<1> HIDE DEF o
<1>5. Excluded(p) = {o}
  BY <1>2 DEF Excluded, o
<1>6. Alive' \subseteq Alive \cup {o}
  <2>1. call'[p].order = o
    BY <1>2 DEF o
  <2>2. QED
    BY <1>1, <1>2, <2>1, AliveWritten
<1>7. Written(p, o)
  BY <1>1, <1>2, <1>3, <1>4, <1>5, <1>6, AliveOrders DEF Written
<1>8. QED
  BY <1>1, <1>2, <1>7 DEF o

(* The cases of a step. *)
LEMMA Steps ==
    ASSUME Typed, FetchedInv, [Next]_vars
    PROVE  \/ \E p \in Calls : Quiet(p)
           \/ \E o \in DOMAIN orders : OnStatus(o)
           \/ \E p \in Calls : Promotes(p)
           \/ \E p \in Calls : \E o : Written(p, o)
           \/ UNCHANGED vars
<1>1. ASSUME NEW p \in Calls, Creates(p) PROVE \E o : Written(p, o)
  BY <1>1, CreatesWritten
<1>2. ASSUME NEW p \in Calls, Rewrites(p) PROVE \E o : Written(p, o)
  BY <1>2, RewritesWritten
<1>3. QED
  BY <1>1, <1>2 DEF Next, Quiet, OnStatus
-----------------------------------------------------------------------------
LEMMA TypedStep == Typed /\ FetchedInv /\ [Next]_vars => Typed'
<1> SUFFICES ASSUME Typed, FetchedInv, [Next]_vars PROVE Typed'
  OBVIOUS
<1> DEFINE Places == Settled \cup {"report", "repeated", "write", "promote"}
<1>1. pc \in [Calls -> Places] /\ call = [q \in Calls |-> call[q]] /\ CallInv
  BY DEF Typed
<1>2. pc' \in [Calls -> Places] /\ call' = [q \in Calls |-> call'[q]]
  BY <1>1 DEF Next, vars, Submits, CreatesDirectly, Fetches, Passes, Returns, Creates, Rewrites,
     Promotes, Cancels, Decided, Starts, Ends, Goto, Settled
<1>3. ASSUME NEW p \in Calls, Quiet(p) PROVE Typed'
  <2>1. orders' = orders /\ Unwritten /\ OthersStay(p)
    BY <1>3, QuietUnwritten
  <2>2. /\ pc'[p] \in {"report", "write"} =>
             /\ call'[p].trip \in Trips /\ call'[p].ignore \in BOOLEAN
             /\ call'[p].kind = "modify" =>
                  call'[p].order \in DOMAIN orders /\ call'[p].change \in Changes
             /\ pc'[p] = "write" /\ ~call'[p].ignore => WellFormed(call'[p].trip)
        /\ pc'[p] # "promote"
    <3>1. ASSUME NEW t \in Requests, NEW ignore \in BOOLEAN, Submits(p, t, ignore)
          PROVE  /\ pc'[p] \in {"report", "repeated"} /\ call'[p].kind = "submit"
                 /\ call'[p].trip \in Trips /\ call'[p].ignore \in BOOLEAN
      BY <1>1, <3>1, TripGateAssumption DEF Submits, Starts, Goto
    <3>2. ASSUME NEW t \in Requests, CreatesDirectly(p, t)
          PROVE  /\ pc'[p] = "write" /\ call'[p].kind = "direct"
                 /\ call'[p].trip \in Trips /\ call'[p].ignore = TRUE
      BY <1>1, <3>2, TripGateAssumption DEF CreatesDirectly, Starts, Goto
    <3>3. ASSUME NEW o \in DOMAIN orders, NEW c \in Changes, NEW ignore \in BOOLEAN,
                 Fetches(p, o, c, ignore)
          PROVE  /\ pc'[p] = "report" /\ call'[p].order = o /\ call'[p].change = c
                 /\ call'[p].trip \in Trips /\ call'[p].ignore \in BOOLEAN
      <4>1. c @@ orders[o].trip \in Trips
        BY RowTypes, TripGateAssumption
      <4>2. call' = [call EXCEPT ![p] =
                        [kind |-> "modify", order |-> o, change |-> c, ignore |-> ignore,
                         trip |-> c @@ orders[o].trip]]
            /\ pc' = [pc EXCEPT ![p] = "report"]
        BY <3>3 DEF Fetches, Starts, Goto
      <4> DEFINE trip == c @@ orders[o].trip
      <4> HIDE DEF trip
      <4>3. call' = [call EXCEPT ![p] =
                        [kind |-> "modify", order |-> o, change |-> c, ignore |-> ignore,
                         trip |-> trip]]
        BY <4>2 DEF trip
      <4>4. trip \in Trips
        BY <4>1 DEF trip
      <4>5. QED
        BY <1>1, <4>2, <4>3, <4>4
    <3>4. CASE Passes(p)
      BY <1>1, <3>4 DEF Passes, Goto, CallInv
    <3>5. CASE Returns(p)
      BY <1>1, <3>5 DEF Returns, Ends, Goto
    <3>6. QED
      BY <1>3, <3>1, <3>2, <3>3, <3>4, <3>5 DEF Quiet
  <2>3. CallInv'
    BY <1>1, <2>1, <2>2 DEF CallInv, OthersStay, WellFormed
  <2>4. QED
    BY <1>2, <2>1, <2>3 DEF Typed
<1>4. ASSUME Unwritten, orders' \in Seq(Row), NEW p \in Calls, OthersStay(p),
             pc'[p] = "ended"
      PROVE  Typed'
  <2>1. CallInv'
    BY <1>1, <1>4 DEF CallInv, OthersStay, Unwritten, WellFormed
  <2>2. QED
    BY <1>2, <1>4, <2>1 DEF Typed
<1>5. ASSUME NEW o \in DOMAIN orders, OnStatus(o) PROVE Typed'
  <2>1. /\ orders' \in Seq(Row) /\ Unwritten /\ UNCHANGED <<pc, call, beside>>
    BY <1>5, StatusUnwritten
  <2>2. CallInv'
    BY <1>1, <2>1 DEF CallInv, Unwritten, WellFormed
  <2>3. QED
    BY <1>2, <2>1, <2>2 DEF Typed
<1>6. ASSUME NEW p \in Calls, Promotes(p) PROVE Typed'
  <2>1. Unwritten /\ orders' \in Seq(Row) /\ OthersStay(p) /\ pc'[p] = "ended"
    BY <1>6, PromotesUnwritten
  <2>2. QED
    BY <1>4, <2>1
<1>7. ASSUME NEW p \in Calls, NEW o, Written(p, o), orders' \in Seq(Row), call'[p].order = o
      PROVE  Typed'
  <2>1. CallInv'
    BY <1>1, <1>7 DEF CallInv, Written, OthersStay, WellFormed
  <2>2. QED
    BY <1>2, <1>7, <2>1 DEF Typed
<1>8. CASE UNCHANGED vars
  BY <1>1, <1>2, <1>8 DEF vars, Typed, CallInv, WellFormed
<1>9. QED
  BY <1>3, <1>5, <1>6, <1>7, <1>8, CreatesWritten, RewritesWritten DEF Next, Quiet, OnStatus
-----------------------------------------------------------------------------
(* The history only grows, so an excuse stays one. *)
Grows ==
    /\ DOMAIN orders \subseteq DOMAIN orders' /\ beside \subseteq beside'
    /\ \A a \in DOMAIN orders : orders[a].by \subseteq orders'[a].by
    /\ \A q \in Calls : pc[q] # "idle" => pc'[q] # "idle" /\ call'[q].kind = call[q].kind

LEMMA KindsStay ==
    ASSUME Typed, [Next]_vars
    PROVE  \A q \in Calls : pc[q] # "idle" => pc'[q] # "idle" /\ call'[q].kind = call[q].kind
<1>1. call = [q \in Calls |-> call[q]] /\ pc \in [Calls -> Settled \cup {"report", "repeated", "write", "promote"}]
  BY DEF Typed
<1>2. ASSUME NEW p \in Calls, Quiet(p) \/ Creates(p) \/ Rewrites(p) \/ Promotes(p)
      PROVE  \A q \in Calls : pc[q] # "idle" => pc'[q] # "idle" /\ call'[q].kind = call[q].kind
  BY <1>1, <1>2 DEF Quiet, Submits, CreatesDirectly, Fetches, Passes, Returns, Creates, Rewrites,
     Promotes, Starts, Ends, Goto
<1>3. CASE UNCHANGED <<pc, call>>
  BY <1>3
<1>4. QED
  BY <1>2, <1>3 DEF Next, Quiet, Cancels, Decided, vars

LEMMA HistoryGrows == ASSUME Typed, FetchedInv, [Next]_vars PROVE Grows
<1>1. ASSUME NEW p \in Calls, NEW o, Written(p, o)
      PROVE  /\ DOMAIN orders \subseteq DOMAIN orders' /\ beside \subseteq beside'
             /\ \A a \in DOMAIN orders : orders[a].by \subseteq orders'[a].by
  BY <1>1 DEF Written
<1>2. ASSUME Unwritten
      PROVE  /\ DOMAIN orders \subseteq DOMAIN orders' /\ beside \subseteq beside'
             /\ \A a \in DOMAIN orders : orders[a].by \subseteq orders'[a].by
  BY <1>2 DEF Unwritten
<1>3. CASE UNCHANGED vars
  BY <1>3, KindsStay DEF vars, Grows
<1>4. QED
  BY <1>1, <1>2, <1>3, Steps, KindsStay, QuietUnwritten, StatusUnwritten, PromotesUnwritten DEF Grows

LEMMA ExcusesStay ==
    ASSUME Typed, WriterInv, Grows
    PROVE  /\ \A a \in DOMAIN orders :
                /\ Tangled(a) => Tangled(a)'
                /\ AskedOtherwise(a) => AskedOtherwise(a)'
                /\ \A p \in Calls : Beside(p, a) => Beside(p, a)'
           /\ \A a, b \in DOMAIN orders : Raced(a, b) => Raced(a, b)'
<1>1. \A a \in DOMAIN orders : orders[a].by \subseteq Calls
  BY RowTypes
<1>2. ASSUME NEW a \in DOMAIN orders, AskedOtherwise(a) PROVE AskedOtherwise(a)'
  BY <1>1, <1>2 DEF AskedOtherwise, Grows, WriterInv
<1>3. \A a \in DOMAIN orders :
          /\ Tangled(a) => Tangled(a)'
          /\ \A p \in Calls : Beside(p, a) => Beside(p, a)'
  BY DEF Tangled, Beside, Grows
<1>4. ASSUME NEW a \in DOMAIN orders, NEW b \in DOMAIN orders, Raced(a, b) PROVE Raced(a, b)'
  BY <1>4 DEF Raced, Grows
<1>5. QED
  BY <1>2, <1>3, <1>4

LEMMA BesideStep ==
    ASSUME Typed, BesideInv, [Next]_vars
    PROVE  BesideInv'
<1> USE DEF Settled
<1>1. ASSUME NEW p \in Calls, NEW c, Starts(p, c), NEW there, Goto(p, there)
      PROVE  BesideInv'
  BY <1>1 DEF Starts, Goto, BesideInv, Typed
<1>2. ASSUME NEW p \in Calls, pc[p] \notin Settled, beside' = beside, NEW there, Goto(p, there)
      PROVE  BesideInv'
  BY <1>2 DEF Goto, BesideInv, Typed
<1>3. CASE UNCHANGED <<pc, beside>>
  BY <1>3 DEF BesideInv
<1>4. ASSUME NEW p \in Calls,
             \/ \E t \in Requests, ignore \in BOOLEAN : Submits(p, t, ignore)
             \/ \E t \in Requests : CreatesDirectly(p, t)
             \/ \E o \in DOMAIN orders, c \in Changes, ignore \in BOOLEAN : Fetches(p, o, c, ignore)
      PROVE  BesideInv'
  BY <1>1, <1>4 DEF Submits, CreatesDirectly, Fetches
<1>5. ASSUME NEW p \in Calls, Passes(p) \/ Creates(p) \/ Rewrites(p) \/ Promotes(p) \/ Returns(p)
      PROVE  BesideInv'
  BY <1>2, <1>5 DEF Passes, Creates, Rewrites, Promotes, Returns, Ends
<1>6. QED
  BY <1>3, <1>4, <1>5 DEF Next, Cancels, Decided, vars

LEMMA WriterStep ==
    ASSUME Typed, FetchedInv, WriterInv, [Next]_vars
    PROVE  WriterInv'
<1>1. Grows
  BY HistoryGrows
<1>2. \A a \in DOMAIN orders : AskedOtherwise(a) => AskedOtherwise(a)'
  BY <1>1, ExcusesStay
<1>3. \A a \in DOMAIN orders : orders[a].by \subseteq Calls
  BY RowTypes
<1>4. ASSUME Unwritten PROVE WriterInv'
  BY <1>1, <1>2, <1>3, <1>4 DEF WriterInv, Unwritten, Grows
<1>5. ASSUME NEW p \in Calls, NEW o, Written(p, o) PROVE WriterInv'
  <2>1. /\ DOMAIN orders' = DOMAIN orders \cup {o}
        /\ \A a \in DOMAIN orders : a # o => orders'[a] = orders[a]
        /\ pc'[p] # "idle"
        /\ \A q \in orders'[o].by : q = p \/ (o \in DOMAIN orders /\ q \in orders[o].by)
    BY <1>5 DEF Written
  <2>2. \A a \in DOMAIN orders' : \A q \in orders'[a].by : pc'[q] # "idle"
    BY <1>1, <1>3, <2>1 DEF WriterInv, Grows
  <2>3. \/ AskedOtherwise(o)'
        \/ o \notin DOMAIN orders
    BY <1>5 DEF Written, AskedOtherwise
  <2>4. \A a \in DOMAIN orders' : \A q, r \in orders'[a].by : q # r => AskedOtherwise(a)'
    <3> SUFFICES ASSUME NEW a \in DOMAIN orders', NEW q \in orders'[a].by,
                        NEW r \in orders'[a].by, q # r
                 PROVE  AskedOtherwise(a)'
      OBVIOUS
    <3>1. CASE a = o
      BY <2>1, <2>3, <3>1
    <3>2. CASE a # o
      BY <1>2, <2>1, <3>2 DEF WriterInv
    <3>3. QED
      BY <3>1, <3>2
  <2>5. QED
    BY <2>2, <2>4 DEF WriterInv
<1>6. CASE UNCHANGED vars
  BY <1>6 DEF vars, WriterInv, AskedOtherwise
<1>7. QED
  BY <1>4, <1>5, <1>6, Steps, QuietUnwritten, StatusUnwritten, PromotesUnwritten

LEMMA ShapeStep ==
    ASSUME Typed, FetchedInv, WriterInv, BesideInv, ShapeInv, [Next]_vars
    PROVE  ShapeInv'
<1>1. Grows /\ \A a \in DOMAIN orders : Tangled(a) => Tangled(a)'
  BY HistoryGrows, ExcusesStay
<1>2. ASSUME Unwritten PROVE ShapeInv'
  BY <1>1, <1>2 DEF ShapeInv, Unwritten, WellFormed
<1>3. ASSUME NEW p \in Calls, NEW o, Written(p, o) PROVE ShapeInv'
  <2>1. /\ DOMAIN orders' = DOMAIN orders \cup {o}
        /\ \A a \in DOMAIN orders : a # o => orders'[a] = orders[a]
        /\ orders'[o].unchecked = call[p].ignore
        /\ pc[p] = "write" /\ p \in orders'[o].by /\ beside' = beside
        /\ orders'[o].trip = call[p].trip \/ (o \in DOMAIN orders /\ Beside(p, o))
        /\ o \in DOMAIN orders => orders[o].by \subseteq orders'[o].by
    BY <1>3 DEF Written
  <2>2. WellFormed(call[p].trip) \/ call[p].ignore
    BY <2>1 DEF Typed, CallInv
  <2>3. WellFormed(orders'[o].trip) \/ orders'[o].unchecked \/ Tangled(o)'
    BY <2>1, <2>2 DEF Tangled, Beside
  <2>4. QED
    BY <1>1, <2>1, <2>3 DEF ShapeInv, WellFormed
<1>4. CASE UNCHANGED vars
  BY <1>4 DEF vars, ShapeInv, Tangled, WellFormed
<1>5. QED
  BY <1>2, <1>3, <1>4, Steps, QuietUnwritten, StatusUnwritten, PromotesUnwritten

LEMMA FetchedStep ==
    ASSUME Typed, FetchedInv, WriterInv, BesideInv, [Next]_vars
    PROVE  FetchedInv'
<1>1. Grows /\ \A a \in DOMAIN orders, p \in Calls : Beside(p, a) => Beside(p, a)'
  BY HistoryGrows, ExcusesStay
<1> DEFINE Fetched(q) ==
        pc[q] \in {"report", "write"} /\ call[q].kind = "modify" =>
            \/ call[q].trip = call[q].change @@ orders[call[q].order].trip
            \/ Beside(q, call[q].order)
<1>2. \A q \in Calls : pc[q] \in {"report", "write"} /\ call[q].kind = "modify" =>
          call[q].order \in DOMAIN orders
  BY DEF Typed, CallInv
<1>3. ASSUME Unwritten, NEW q \in Calls, pc'[q] = pc[q], call'[q] = call[q]
      PROVE  Fetched(q)'
  BY <1>1, <1>2, <1>3 DEF FetchedInv, Unwritten
<1>4. ASSUME NEW p \in Calls, Quiet(p) PROVE Fetched(p)'
  <2>1. orders' = orders
    BY <1>4, QuietUnwritten
  <2>2. call = [q \in Calls |-> call[q]]
        /\ pc \in [Calls -> Settled \cup {"report", "repeated", "write", "promote"}]
    BY DEF Typed
  <2>3. ASSUME NEW o \in DOMAIN orders, NEW c \in Changes, NEW ignore \in BOOLEAN,
               Fetches(p, o, c, ignore)
        PROVE  Fetched(p)'
    <3> DEFINE trip == c @@ orders[o].trip
    <3>1. call' = [call EXCEPT ![p] = [kind |-> "modify", order |-> o, change |-> c,
                                       ignore |-> ignore, trip |-> trip]]
      BY <2>3 DEF Fetches, Starts
    <3> HIDE DEF trip
    <3>2. call'[p].order = o /\ call'[p].change = c /\ call'[p].trip = trip
      BY <2>2, <3>1
    <3>3. call'[p].trip = call'[p].change @@ orders'[call'[p].order].trip
      BY <2>1, <3>2 DEF trip
    <3>4. QED
      BY <3>3
  <2>4. CASE Passes(p)
    BY <1>1, <1>2, <2>1, <2>2, <2>4 DEF Passes, Goto, FetchedInv
  <2>5. CASE Returns(p)
    BY <2>2, <2>5 DEF Returns, Ends, Goto
  <2>6. ASSUME NEW t \in Requests, NEW ignore \in BOOLEAN,
               Submits(p, t, ignore) \/ CreatesDirectly(p, t)
        PROVE  call'[p].kind # "modify"
    BY <2>2, <2>6 DEF Submits, CreatesDirectly, Starts
  <2>7. QED
    BY <1>4, <2>3, <2>4, <2>5, <2>6 DEF Quiet
<1>5. ASSUME NEW p \in Calls, NEW o, Written(p, o), NEW q \in Calls PROVE Fetched(q)'
  <2>1. /\ pc'[p] = "promote" /\ OthersStay(p) /\ beside' = beside /\ p \in orders'[o].by
        /\ \A a \in DOMAIN orders : a # o => orders'[a] = orders[a]
        /\ pc[p] = "write"
    BY <1>5 DEF Written
  <2>2. CASE q = p
    BY <2>1, <2>2
  <2>3. CASE q # p /\ call[q].order # o
    BY <1>1, <1>2, <2>1, <2>3 DEF OthersStay, FetchedInv
  <2>4. CASE q # p /\ call[q].order = o /\ pc[q] \in {"report", "write"}
    BY <2>1, <2>4 DEF OthersStay, BesideInv, Settled, Beside
  <2>5. CASE q # p /\ pc[q] \notin {"report", "write"}
    BY <2>1, <2>5 DEF OthersStay
  <2>6. QED
    BY <2>2, <2>3, <2>4, <2>5
<1>6. ASSUME NEW p \in Calls, Promotes(p), NEW q \in Calls PROVE Fetched(q)'
  <2>1. Unwritten /\ OthersStay(p) /\ pc'[p] = "ended"
    BY <1>6, PromotesUnwritten
  <2>2. QED
    BY <1>3, <2>1 DEF OthersStay
<1>7. ASSUME NEW p \in Calls, Quiet(p), NEW q \in Calls PROVE Fetched(q)'
  <2>1. Unwritten /\ OthersStay(p)
    BY <1>7, QuietUnwritten
  <2>2. QED
    BY <1>3, <1>4, <1>7, <2>1 DEF OthersStay
<1>8. ASSUME NEW o \in DOMAIN orders, OnStatus(o), NEW q \in Calls PROVE Fetched(q)'
  <2>1. Unwritten /\ pc' = pc /\ call' = call
    BY <1>8, StatusUnwritten
  <2>2. QED
    BY <1>3, <2>1
<1>9. ASSUME UNCHANGED vars, NEW q \in Calls PROVE Fetched(q)'
  BY <1>3, <1>9 DEF vars, Unwritten
<1>10. \A q \in Calls : Fetched(q)'
  BY <1>5, <1>6, <1>7, <1>8, <1>9, Steps
<1>11. QED
  BY <1>10 DEF FetchedInv
-----------------------------------------------------------------------------
(* What a call at work beside p, which writes o, knows of o afterwards.    *)
LEMMA WrittenBeside ==
    ASSUME Typed, BesideInv, NEW p \in Calls, NEW o, Written(p, o),
           NEW q \in Calls, q # p, pc[q] \notin Settled
    PROVE  Beside(q, o)'
  BY DEF Written, BesideInv, Settled, Beside

(* An order that is alive and not in force was written by a call that will *)
(* promote it, which is at work.                                           *)
LEMMA AliveByWork ==
    ASSUME Typed, BesideInv, NEW p \in Calls, pc[p] \notin Settled, pc[p] # "promote",
           NEW b \in Alive, b \notin Active
    PROVE  Beside(p, b)
<1>1. PICK q \in Calls : pc[q] = "promote" /\ call[q].order = b
  BY DEF Alive, Standing
<1>2. q \in orders[b].by /\ q # p /\ {p, q} \in beside
  BY <1>1 DEF Typed, CallInv, BesideInv, Settled
<1>3. QED
  BY <1>2 DEF Beside

(* The report of a call that passes it. *)
LEMMA PassesChecked ==
    ASSUME Base, NEW p \in Calls, Passes(p), ~call[p].ignore, NEW b \in Alive \ Excluded(p)
    PROVE  \/ orders[b].unchecked \/ Tangled(b) \/ Beside(p, b)
           \/ Detect(orders[b].trip, call[p].trip) \notin Blocking
<1>1. /\ pc[p] = "report" /\ WellFormed(call[p].trip)
      /\ ConflictReport(call[p].trip, Excluded(p)) \cap Blocking = {}
  BY DEF Passes, RequiresConfirmation
<1>2. call[p].trip \in Trips /\ b \in DOMAIN orders /\ orders[b].trip \in Trips
  BY <1>1, AliveOrders, RowTypes DEF Base, Typed, CallInv
<1>3. CASE b \notin Active
  BY <1>1, <1>3, AliveByWork DEF Base, Settled
<1>4. CASE b \in Active /\ WellFormed(orders[b].trip)
  <2>1. CASE InWindow(orders[b].trip, call[p].trip)
    <3>1. Detect(orders[b].trip, call[p].trip) \in ConflictReport(call[p].trip, Excluded(p))
      BY <1>4, <2>1 DEF ConflictReport
    <3>2. QED
      BY <1>1, <3>1
  <2>2. CASE ~InWindow(orders[b].trip, call[p].trip)
    <3>1. Detect(orders[b].trip, call[p].trip) = "none"
      BY <1>1, <1>2, <1>4, <2>2, WindowComplete
    <3>2. QED
      BY <3>1 DEF Blocking
  <2>3. QED
    BY <2>1, <2>2
<1>5. CASE ~WellFormed(orders[b].trip)
  BY <1>2, <1>5 DEF Base, ShapeInv
<1>6. QED
  BY <1>3, <1>4, <1>5

LEMMA CheckedStep ==
    ASSUME Base, CheckedInv, [Next]_vars
    PROVE  CheckedInv'
<1> DEFINE Sure(q, b) == \/ orders[b].unchecked \/ Tangled(b) \/ Beside(q, b)
                         \/ Detect(orders[b].trip, call[q].trip) \notin Blocking
           Checked(q) == pc[q] = "write" /\ ~call[q].ignore =>
                             \A b \in Alive \ Excluded(q) : Sure(q, b)
<1>1. Typed /\ BesideInv /\ WriterInv /\ FetchedInv /\ Grows
  BY HistoryGrows DEF Base
<1>2. \A a \in DOMAIN orders, q \in Calls :
          (Tangled(a) => Tangled(a)') /\ (Beside(q, a) => Beside(q, a)')
  BY <1>1, ExcusesStay
<1>3. \A q \in Calls : Checked(q)
  BY DEF CheckedInv
<1>4. Alive \subseteq DOMAIN orders
  BY <1>1, AliveOrders
<1>5. ASSUME NEW q \in Calls, NEW b \in DOMAIN orders, Sure(q, b), call'[q] = call[q],
             orders'[b].trip = orders[b].trip, orders'[b].unchecked = orders[b].unchecked
      PROVE  Sure(q, b)'
  <2>1. CASE Tangled(b) \/ Beside(q, b)
    BY <1>2, <2>1
  <2>2. CASE orders[b].unchecked
    BY <1>5, <2>2
  <2>3. CASE Detect(orders[b].trip, call[q].trip) \notin Blocking
    <3>1. Detect(orders'[b].trip, call'[q].trip) \notin Blocking
      BY <1>5, <2>3
    <3>2. QED
      BY <3>1
  <2>4. QED
    BY <1>5, <2>1, <2>2, <2>3
<1> HIDE DEF Sure
<1>6. ASSUME Unwritten, Alive' \subseteq Alive, NEW q \in Calls, pc'[q] = pc[q], call'[q] = call[q]
      PROVE  Checked(q)'
  <2> SUFFICES ASSUME pc'[q] = "write", ~call'[q].ignore, NEW b \in Alive' \ Excluded(q)'
               PROVE  Sure(q, b)'
    OBVIOUS
  <2>1. b \in Alive \ Excluded(q) /\ pc[q] = "write" /\ ~call[q].ignore
    BY <1>6 DEF Excluded
  <2>2. b \in DOMAIN orders /\ Sure(q, b)
    BY <1>3, <1>4, <2>1
  <2>3. QED
    BY <1>5, <1>6, <2>2 DEF Unwritten
<1>7. ASSUME NEW p \in Calls, Quiet(p) PROVE Checked(p)'
  <2> SUFFICES ASSUME pc'[p] = "write", ~call'[p].ignore, NEW b \in Alive' \ Excluded(p)'
               PROVE  Sure(p, b)'
    OBVIOUS
  <2>1. Passes(p)
    BY <1>1, <1>7 DEF Quiet, Submits, CreatesDirectly, Fetches, Returns, Starts, Ends, Goto, Typed
  <2>2. call' = call /\ Unwritten /\ Alive' \subseteq Alive
    BY <1>1, <1>7, <2>1, QuietUnwritten DEF Passes
  <2>3. b \in Alive \ Excluded(p) /\ ~call[p].ignore
    BY <2>2 DEF Excluded
  <2>4. Sure(p, b) /\ b \in DOMAIN orders
    BY <1>4, <2>1, <2>3, PassesChecked DEF Sure
  <2>5. QED
    BY <1>5, <2>2, <2>4 DEF Unwritten
<1>8. ASSUME NEW p \in Calls, NEW o, Written(p, o), NEW q \in Calls PROVE Checked(q)'
  <2> SUFFICES ASSUME pc'[q] = "write", ~call'[q].ignore, NEW b \in Alive' \ Excluded(q)'
               PROVE  Sure(q, b)'
    OBVIOUS
  <2>1. /\ pc'[p] = "promote" /\ OthersStay(p) /\ Alive' \subseteq Alive \cup {o}
        /\ \A a \in DOMAIN orders : a # o => orders'[a] = orders[a]
    BY <1>8 DEF Written
  <2>2. q # p /\ pc[q] = "write" /\ call'[q] = call[q]
    BY <2>1 DEF OthersStay
  <2>3. CASE b = o
    <3>1. Beside(q, b)'
      BY <1>1, <1>8, <2>2, <2>3, WrittenBeside DEF Settled
    <3>2. QED
      BY <3>1 DEF Sure
  <2>4. CASE b # o
    <3>1. b \in Alive \ Excluded(q) /\ b \in DOMAIN orders
      BY <1>4, <2>1, <2>2, <2>4 DEF Excluded
    <3>2. Sure(q, b)
      BY <1>3, <2>2, <3>1
    <3>3. QED
      BY <1>5, <2>1, <2>2, <2>4, <3>1, <3>2
  <2>5. QED
    BY <2>3, <2>4
<1>9. ASSUME NEW p \in Calls, Promotes(p), NEW q \in Calls PROVE Checked(q)'
  <2>1. Unwritten /\ Alive' \subseteq Alive /\ OthersStay(p) /\ pc'[p] = "ended"
    BY <1>1, <1>9, PromotesUnwritten
  <2>2. QED
    BY <1>6, <2>1 DEF OthersStay
<1>10. ASSUME NEW p \in Calls, Quiet(p), NEW q \in Calls PROVE Checked(q)'
  <2>1. Unwritten /\ Alive' \subseteq Alive /\ OthersStay(p)
    BY <1>1, <1>10, QuietUnwritten
  <2>2. CASE q = p
    BY <1>7, <1>10, <2>2
  <2>3. CASE q # p
    BY <1>6, <2>1, <2>3 DEF OthersStay
  <2>4. QED
    BY <2>2, <2>3
<1>11. ASSUME NEW o \in DOMAIN orders, OnStatus(o), NEW q \in Calls PROVE Checked(q)'
  <2>1. Unwritten /\ Alive' \subseteq Alive /\ pc' = pc /\ call' = call
    BY <1>1, <1>11, StatusUnwritten
  <2>2. QED
    BY <1>6, <2>1
<1>12. ASSUME UNCHANGED vars, NEW q \in Calls PROVE Checked(q)'
  <2>1. Unwritten /\ Alive' \subseteq Alive /\ pc' = pc /\ call' = call
    BY <1>12 DEF vars, Unwritten, Alive, Standing, Active
  <2>2. QED
    BY <1>6, <2>1
<1>13. \A q \in Calls : Checked(q)'
  BY <1>1, <1>8, <1>9, <1>10, <1>11, <1>12, Steps
<1>14. QED
  BY <1>13 DEF CheckedInv, Sure

LEMMA PairStep ==
    ASSUME Base, Base', CheckedInv, PairInv, [Next]_vars
    PROVE  PairInv'
<1>1. Typed /\ BesideInv /\ WriterInv /\ FetchedInv /\ Grows
  BY HistoryGrows DEF Base
<1>2. /\ \A a \in DOMAIN orders, q \in Calls :
            (Tangled(a) => Tangled(a)') /\ (Beside(q, a) => Beside(q, a)')
      /\ \A a, b \in DOMAIN orders : Raced(a, b) => Raced(a, b)'
  BY <1>1, ExcusesStay
<1>3. Alive \subseteq DOMAIN orders
  BY <1>1, AliveOrders
<1>4. ASSUME NEW a \in Alive, NEW b \in Alive, a # b,
             ~orders'[a].unchecked, ~orders'[b].unchecked, ~Raced(a, b)', ~Raced(b, a)',
             orders'[a].trip = orders[a].trip, orders'[a].unchecked = orders[a].unchecked,
             orders'[b].trip = orders[b].trip, orders'[b].unchecked = orders[b].unchecked
      PROVE  Detect(orders'[a].trip, orders'[b].trip) \notin Blocking
  BY <1>2, <1>3, <1>4 DEF PairInv
<1>5. ASSUME Unwritten, Alive' \subseteq Alive PROVE PairInv'
  <2> SUFFICES ASSUME NEW a \in Alive', NEW b \in Alive', a # b, ~orders'[a].unchecked,
                      ~orders'[b].unchecked, ~Raced(a, b)', ~Raced(b, a)'
               PROVE  Detect(orders'[a].trip, orders'[b].trip) \notin Blocking
    BY DEF PairInv
  <2>1. a \in Alive /\ b \in Alive /\ a \in DOMAIN orders /\ b \in DOMAIN orders
    BY <1>3, <1>5
  <2>2. QED
    BY <1>4, <1>5, <2>1 DEF Unwritten
<1>6. ASSUME NEW p \in Calls, NEW o, Written(p, o), NEW b \in Alive, b # o,
             ~orders'[o].unchecked, ~orders'[b].unchecked, ~Raced(o, b)', ~Raced(b, o)'
      PROVE  /\ Detect(orders'[b].trip, orders'[o].trip) \notin Blocking
             /\ Detect(orders'[o].trip, orders'[b].trip) \notin Blocking
  <2>1. /\ pc[p] = "write" /\ ~call[p].ignore /\ p \in orders'[o].by /\ beside' = beside
        /\ orders'[b] = orders[b] /\ Excluded(p) \subseteq {o} /\ o \in DOMAIN orders'
        /\ orders'[o].trip = call[p].trip \/ (o \in DOMAIN orders /\ Beside(p, o))
        /\ b \in DOMAIN orders /\ b \in DOMAIN orders'
    BY <1>3, <1>6 DEF Written
  <2>2. ~Tangled(o)' /\ ~Tangled(b)' /\ ~Beside(p, b)' /\ ~Beside(p, o)'
    BY <1>6, <2>1 DEF Tangled, Beside, Raced
  <2>3. orders'[o].trip = call[p].trip
    BY <1>2, <2>1, <2>2
  <2>4. Detect(orders[b].trip, call[p].trip) \notin Blocking
    <3>1. ~Tangled(b) /\ ~Beside(p, b) /\ ~orders[b].unchecked
      BY <1>2, <1>6, <2>1, <2>2
    <3>2. b \in Alive \ Excluded(p)
      BY <1>6, <2>1
    <3>3. QED
      BY <2>1, <3>1, <3>2 DEF CheckedInv
  <2>5. /\ WellFormed(orders'[o].trip) /\ WellFormed(orders'[b].trip)
    BY <1>6, <2>1, <2>2 DEF Base, ShapeInv, WellFormed
  <2>6. orders'[o].trip \in Trips /\ orders'[b].trip \in Trips
    <3>1. Typed'
      BY DEF Base
    <3>2. \A a \in DOMAIN orders' : orders'[a].trip \in Trips
      <4>1. orders' \in Seq(Row)
        BY <3>1 DEF Typed
      <4>2. \A a \in DOMAIN orders' : orders'[a] \in Row
        BY <4>1
      <4>3. QED
        BY <4>2 DEF Row
    <3>3. QED
      BY <2>1, <3>2
  <2>7. Detect(orders'[b].trip, orders'[o].trip) = Detect(orders'[o].trip, orders'[b].trip)
    BY <2>5, <2>6, DetectSymmetric
  <2>8. QED
    BY <2>1, <2>3, <2>4, <2>7
<1>7. ASSUME NEW p \in Calls, NEW o, Written(p, o) PROVE PairInv'
  <2> SUFFICES ASSUME NEW a \in Alive', NEW b \in Alive', a # b, ~orders'[a].unchecked,
                      ~orders'[b].unchecked, ~Raced(a, b)', ~Raced(b, a)'
               PROVE  Detect(orders'[a].trip, orders'[b].trip) \notin Blocking
    BY DEF PairInv
  <2>1. /\ Alive' \subseteq Alive \cup {o}
        /\ \A c \in DOMAIN orders : c # o => orders'[c] = orders[c]
    BY <1>7 DEF Written
  <2>2. CASE a = o
    BY <1>6, <1>7, <2>1, <2>2
  <2>3. CASE b = o
    BY <1>6, <1>7, <2>1, <2>3
  <2>4. CASE a # o /\ b # o
    BY <1>3, <1>4, <2>1, <2>4
  <2>5. QED
    BY <2>2, <2>3, <2>4
<1>8. CASE UNCHANGED vars
  <2>1. Unwritten /\ Alive' \subseteq Alive
    BY <1>8 DEF vars, Unwritten, Alive, Standing, Active
  <2>2. QED
    BY <1>5, <2>1
<1>9. QED
  BY <1>1, <1>5, <1>7, <1>8, Steps, QuietUnwritten, StatusUnwritten, PromotesUnwritten

LEMMA LookedStep ==
    ASSUME Base, LookedInv, [Next]_vars
    PROVE  LookedInv'
<1> DEFINE Looked(q) == pc[q] \in {"report", "write"} /\ call[q].kind = "submit" =>
                            \A b \in Alive :
                                orders[b].trip = call[q].trip => Beside(q, b) \/ AskedOtherwise(b)
<1>1. Typed /\ BesideInv /\ WriterInv /\ FetchedInv /\ Grows
  BY HistoryGrows DEF Base
<1>2. \A a \in DOMAIN orders, q \in Calls :
          (AskedOtherwise(a) => AskedOtherwise(a)') /\ (Beside(q, a) => Beside(q, a)')
  BY <1>1, ExcusesStay
<1>3. Alive \subseteq DOMAIN orders
  BY <1>1, AliveOrders
<1>4. ASSUME Unwritten, Alive' \subseteq Alive, NEW q \in Calls, pc'[q] = pc[q], call'[q] = call[q]
      PROVE  Looked(q)'
  <2> SUFFICES ASSUME pc'[q] \in {"report", "write"}, call'[q].kind = "submit", NEW b \in Alive',
                      orders'[b].trip = call'[q].trip
               PROVE  Beside(q, b)' \/ AskedOtherwise(b)'
    OBVIOUS
  <2>1. b \in Alive /\ b \in DOMAIN orders /\ orders[b].trip = call[q].trip
    BY <1>3, <1>4 DEF Unwritten
  <2>2. QED
    BY <1>2, <1>4, <2>1 DEF LookedInv
<1>5. ASSUME NEW p \in Calls, Quiet(p) PROVE Looked(p)'
  <2> SUFFICES ASSUME pc'[p] \in {"report", "write"}, call'[p].kind = "submit", NEW b \in Alive',
                      orders'[b].trip = call'[p].trip
               PROVE  Beside(p, b)' \/ AskedOtherwise(b)'
    OBVIOUS
  <2>1. orders' = orders /\ Alive' \subseteq Alive /\ b \in DOMAIN orders /\ b \in Alive
    BY <1>1, <1>3, <1>5, QuietUnwritten
  <2>2. call = [q \in Calls |-> call[q]]
        /\ pc \in [Calls -> Settled \cup {"report", "repeated", "write", "promote"}]
    BY <1>1 DEF Typed
  <2>3. CASE Passes(p)
    BY <1>2, <2>1, <2>2, <2>3 DEF Passes, Goto, LookedInv
  <2>4. ASSUME NEW t \in Requests, NEW ignore \in BOOLEAN, Submits(p, t, ignore)
        PROVE  Beside(p, b)'
    <3>1. call'[p].trip = t
      BY <2>2, <2>4 DEF Submits, Starts
    <3>2. MatchingActive(t) = {} /\ pc[p] = "idle"
      BY <2>2, <2>4 DEF Submits, Starts, Goto
    <3>3. b \notin Active
      BY <2>1, <3>1, <3>2 DEF MatchingActive
    <3>4. PICK q \in Calls : pc[q] = "promote" /\ call[q].order = b
      BY <2>1, <3>3 DEF Alive, Standing
    <3>5. q \in orders[b].by /\ q # p
      BY <1>1, <3>2, <3>4 DEF Typed, CallInv
    <3>6. {p, q} \in beside'
      BY <2>4, <3>4 DEF Submits, Starts, Settled
    <3>7. QED
      BY <2>1, <3>5, <3>6 DEF Beside
  <2>5. ASSUME NEW t \in Requests, CreatesDirectly(p, t) PROVE FALSE
    BY <2>2, <2>5 DEF CreatesDirectly, Starts
  <2>6. ASSUME NEW o \in DOMAIN orders, NEW c \in Changes, NEW ignore \in BOOLEAN,
               Fetches(p, o, c, ignore)
        PROVE  FALSE
    <3> DEFINE trip == c @@ orders[o].trip
    <3>1. call' = [call EXCEPT ![p] = [kind |-> "modify", order |-> o, change |-> c,
                                       ignore |-> ignore, trip |-> trip]]
      BY <2>6 DEF Fetches, Starts
    <3> HIDE DEF trip
    <3>2. call'[p].kind = "modify"
      BY <2>2, <3>1
    <3>3. QED
      BY <3>2
  <2>7. CASE Returns(p)
    BY <2>2, <2>7 DEF Returns, Ends, Goto
  <2>8. QED
    BY <1>5, <2>3, <2>4, <2>5, <2>6, <2>7 DEF Quiet
<1>6. ASSUME NEW p \in Calls, NEW o, Written(p, o), NEW q \in Calls PROVE Looked(q)'
  <2> SUFFICES ASSUME pc'[q] \in {"report", "write"}, call'[q].kind = "submit", NEW b \in Alive',
                      orders'[b].trip = call'[q].trip
               PROVE  Beside(q, b)' \/ AskedOtherwise(b)'
    OBVIOUS
  <2>1. /\ pc'[p] = "promote" /\ OthersStay(p) /\ Alive' \subseteq Alive \cup {o}
        /\ \A a \in DOMAIN orders : a # o => orders'[a] = orders[a]
    BY <1>6 DEF Written
  <2>2. q # p /\ pc[q] \in {"report", "write"} /\ call'[q] = call[q]
    BY <2>1 DEF OthersStay
  <2>3. CASE b = o
    BY <1>1, <1>6, <2>2, <2>3, WrittenBeside DEF Settled
  <2>4. CASE b # o
    <3>1. b \in Alive /\ b \in DOMAIN orders /\ orders'[b] = orders[b]
      BY <1>3, <2>1, <2>4
    <3>2. QED
      BY <1>2, <2>2, <3>1 DEF LookedInv
  <2>5. QED
    BY <2>3, <2>4
<1>7. ASSUME NEW p \in Calls, Promotes(p), NEW q \in Calls PROVE Looked(q)'
  <2>1. Unwritten /\ Alive' \subseteq Alive /\ OthersStay(p) /\ pc'[p] = "ended"
    BY <1>1, <1>7, PromotesUnwritten
  <2>2. QED
    BY <1>4, <2>1 DEF OthersStay
<1>8. ASSUME NEW p \in Calls, Quiet(p), NEW q \in Calls PROVE Looked(q)'
  <2>1. Unwritten /\ Alive' \subseteq Alive /\ OthersStay(p)
    BY <1>1, <1>8, QuietUnwritten
  <2>2. CASE q = p
    BY <1>5, <1>8, <2>2
  <2>3. CASE q # p
    BY <1>4, <2>1, <2>3 DEF OthersStay
  <2>4. QED
    BY <2>2, <2>3
<1>9. ASSUME NEW o \in DOMAIN orders, OnStatus(o), NEW q \in Calls PROVE Looked(q)'
  <2>1. Unwritten /\ Alive' \subseteq Alive /\ pc' = pc /\ call' = call
    BY <1>1, <1>9, StatusUnwritten
  <2>2. QED
    BY <1>4, <2>1
<1>10. ASSUME UNCHANGED vars, NEW q \in Calls PROVE Looked(q)'
  <2>1. Unwritten /\ Alive' \subseteq Alive /\ pc' = pc /\ call' = call
    BY <1>10 DEF vars, Unwritten, Alive, Standing, Active
  <2>2. QED
    BY <1>4, <2>1
<1>11. \A q \in Calls : Looked(q)'
  BY <1>1, <1>6, <1>7, <1>8, <1>9, <1>10, Steps
<1>12. QED
  BY <1>11 DEF LookedInv

LEMMA TwiceStep ==
    ASSUME Base, LookedInv, TwiceInv, [Next]_vars
    PROVE  TwiceInv'
<1>1. Typed /\ BesideInv /\ WriterInv /\ FetchedInv /\ Grows
  BY HistoryGrows DEF Base
<1>2. /\ \A a \in DOMAIN orders :
            /\ AskedOtherwise(a) => AskedOtherwise(a)'
            /\ \A q \in Calls : Beside(q, a) => Beside(q, a)'
      /\ \A a, b \in DOMAIN orders : Raced(a, b) => Raced(a, b)'
  BY <1>1, ExcusesStay
<1>3. Alive \subseteq DOMAIN orders
  BY <1>1, AliveOrders
<1> DEFINE Excused(a, b) == Raced(a, b) \/ AskedOtherwise(a) \/ AskedOtherwise(b)
<1>4. ASSUME NEW a \in Alive, NEW b \in Alive, a # b, orders'[a].trip = orders'[b].trip,
             orders'[a].trip = orders[a].trip, orders'[b].trip = orders[b].trip
      PROVE  Excused(a, b)'
  <2>1. a \in DOMAIN orders /\ b \in DOMAIN orders /\ orders[a].trip = orders[b].trip
    BY <1>3, <1>4
  <2>2. Raced(a, b) \/ AskedOtherwise(a) \/ AskedOtherwise(b)
    BY <1>4, <2>1 DEF TwiceInv
  <2>3. Raced(a, b)' \/ AskedOtherwise(a)' \/ AskedOtherwise(b)'
    BY <1>2, <2>1, <2>2
  <2>4. QED
    BY <2>3
<1>5. ASSUME Unwritten, Alive' \subseteq Alive PROVE TwiceInv'
  <2> SUFFICES ASSUME NEW a \in Alive', NEW b \in Alive', a # b, orders'[a].trip = orders'[b].trip
               PROVE  Excused(a, b)'
    BY DEF TwiceInv
  <2>1. a \in Alive /\ b \in Alive /\ a \in DOMAIN orders /\ b \in DOMAIN orders
    BY <1>3, <1>5
  <2>2. QED
    BY <1>4, <1>5, <2>1 DEF Unwritten
<1>6. ASSUME NEW p \in Calls, NEW o, Written(p, o), NEW b \in Alive, b # o,
             orders'[o].trip = orders'[b].trip
      PROVE  Excused(o, b)' /\ Excused(b, o)'
  <2>1. /\ pc[p] = "write" /\ p \in orders'[o].by /\ orders'[b] = orders[b]
        /\ call'[p].kind = call[p].kind /\ b \in DOMAIN orders
        /\ call[p].kind = "modify" \/ orders'[o].trip = call[p].trip
    BY <1>3, <1>6 DEF Written
  <2>2. CASE call[p].kind # "submit"
    <3>1. AskedOtherwise(o)'
      BY <2>1, <2>2 DEF AskedOtherwise
    <3>2. QED
      BY <3>1
  <2>3. CASE call[p].kind = "submit"
    <3>1. orders[b].trip = call[p].trip
      BY <1>6, <2>1, <2>3
    <3>2. Beside(p, b)' \/ AskedOtherwise(b)'
      BY <1>2, <1>6, <2>1, <2>3, <3>1 DEF LookedInv
    <3>3. Beside(p, b)' => Raced(o, b)' /\ Raced(b, o)'
      BY <2>1 DEF Beside, Raced
    <3>4. QED
      BY <3>2, <3>3
  <2>4. QED
    BY <2>2, <2>3
<1>7. ASSUME NEW p \in Calls, NEW o, Written(p, o) PROVE TwiceInv'
  <2> SUFFICES ASSUME NEW a \in Alive', NEW b \in Alive', a # b, orders'[a].trip = orders'[b].trip
               PROVE  Excused(a, b)'
    BY DEF TwiceInv
  <2>1. /\ Alive' \subseteq Alive \cup {o}
        /\ \A c \in DOMAIN orders : c # o => orders'[c] = orders[c]
    BY <1>7 DEF Written
  <2>2. CASE a = o
    BY <1>6, <1>7, <2>1, <2>2
  <2>3. CASE b = o
    BY <1>6, <1>7, <2>1, <2>3
  <2>4. CASE a # o /\ b # o
    BY <1>3, <1>4, <2>1, <2>4
  <2>5. QED
    BY <2>2, <2>3, <2>4
<1>8. CASE UNCHANGED vars
  <2>1. Unwritten /\ Alive' \subseteq Alive
    BY <1>8 DEF vars, Unwritten, Alive, Standing, Active
  <2>2. QED
    BY <1>5, <2>1
<1>9. QED
  BY <1>1, <1>5, <1>7, <1>8, Steps, QuietUnwritten, StatusUnwritten, PromotesUnwritten
-----------------------------------------------------------------------------
LEMMA Invariance == Spec => []Inv
<1>1. Init => Inv
  <2> SUFFICES ASSUME Init PROVE Inv
    OBVIOUS
  <2>1. orders = <<>> /\ orders \in Seq(Row) /\ DOMAIN orders = {}
    BY DEF Init
  <2>2. pc = [p \in Calls |-> "idle"] /\ call = [p \in Calls |-> NoCall]
    BY DEF Init
  <2>3. Base
    BY <2>1, <2>2 DEF Base, Typed, CallInv, BesideInv, WriterInv, ShapeInv, FetchedInv, Settled
  <2>4. Alive = {}
    BY <2>1, <2>2 DEF Alive, Standing, Active
  <2>5. QED
    BY <2>2, <2>3, <2>4 DEF Inv, CheckedInv, PairInv, LookedInv, TwiceInv
<1>2. Base /\ [Next]_vars => Base'
  BY TypedStep, BesideStep, WriterStep, ShapeStep, FetchedStep DEF Base
<1>3. Inv /\ [Next]_vars => Inv'
  BY <1>2, CheckedStep, PairStep, LookedStep, TwiceStep DEF Inv
<1>4. QED
  BY <1>1, <1>3, PTL DEF Spec

(* No two orders in force conflict unseen, whatever the trips, the cities  *)
(* and the estimates, and however many calls interleave, die or write      *)
(* again.  (NoUnseenConflict)                                              *)
THEOREM ConflictSafety == Spec => []NoUnseenConflict
<1>1. Inv => NoUnseenConflict
  BY DEF Inv, PairInv, NoUnseenConflict, Alive
<1>2. QED
  BY <1>1, Invariance, PTL

(* A trip submitted again makes no second order in force, unless the two   *)
(* submissions overlapped or an order came about otherwise.                *)
(* (SubmittedOnce)                                                         *)
THEOREM SubmissionSafety == Spec => []SubmittedOnce
<1>1. Inv => SubmittedOnce
  BY DEF Inv, TwiceInv, SubmittedOnce, Alive, AskedOtherwise
<1>2. QED
  BY <1>1, Invariance, PTL
=============================================================================
