------------------------- MODULE TravelOrdersProofs -------------------------
(***************************************************************************)
(* Proofs about TravelOrders, for any number of calls, overlapping and     *)
(* dying anywhere, and any set of trips.  An order becomes APPROVED only   *)
(* by a call that carries a decision it has written to one of the order's  *)
(* approvals (GrantInv), which needs the indices the calls hold to be in   *)
(* range (PlaceInv).                                                       *)
(*                                                                         *)
(* On a calm order, one no two calls overlapped on, at most one call is at *)
(* work (AloneInv).  The open approval, if any, is then the latest one and *)
(* the one the row or the call points to (CalmInv), so each flow withdraws *)
(* it before it files another; RestInv adds what the flows keep between    *)
(* row and approval when none of them died.                                *)
(***************************************************************************)
EXTENDS TravelOrders, TLAPS

PlaceInv ==
    /\ \A o \in DOMAIN orders : orders[o].approval <= Len(approvals)
    /\ \A a \in DOMAIN approvals : approvals[a].order \in DOMAIN orders
    /\ \A p \in Ops :
         /\ pc[p] # "idle" => order[p] \in DOMAIN orders
         /\ pc[p] \in {"promote", "look", "void", "decide", "sync"}
              => held[p] \in DOMAIN approvals
         /\ pc[p] = "file" => form[p] \in Trips
         /\ pc[p] \in {"decide", "sync"} => form[p] \in Decisions

Typed == TypeOK /\ PlaceInv

GrantInv ==
    /\ \A o \in DOMAIN orders : orders[o].status = "APPROVED"
                                => \E g \in granted : g.order = o
    /\ \A p \in Ops : pc[p] = "sync" /\ form[p] = "APPROVED"
                       => \E g \in granted : g.order = order[p]

(* Calls on one order overlap only where mixed says so. *)
AloneInv ==
    \A p, q \in Ops :
        p # q /\ pc[p] \notin Settled /\ pc[q] \notin Settled /\ order[p] = order[q]
          => order[p] \in mixed

(* Rows and calls point to approvals of their order. *)
Holding == {"promote", "cancel", "find", "look", "void", "decide", "sync"}

LinkInv ==
    /\ \A o \in DOMAIN orders :
         orders[o].approval # 0 => approvals[orders[o].approval].order = o
    /\ \A p \in Ops :
         pc[p] \in Holding /\ held[p] # 0 => approvals[held[p]].order = order[p]

(* A call that files or decides is not a cancellation, one that cancels is. *)
KindInv ==
    \A p \in Ops :
        /\ pc[p] \in {"file", "promote", "redraft", "refresh", "decide", "sync"} => kind[p] # "cancel"
        /\ pc[p] = "cancel" => kind[p] = "cancel"

Open(o) == {a \in ApprovalsOf(o) : IsPending(a)}
Granted(o) == [order |-> o, trip |-> orders[o].trip] \in granted

(* A calm order and the one call at work on it. *)
RowInv(o) ==
    /\ \A a \in Open(o) : a \in Latest(o) /\ approvals[a].trip = orders[o].trip
    /\ orders[o].approval # 0 => orders[o].approval \in Latest(o)
    /\ orders[o].status = "APPROVED" => Granted(o)

CallInv(p, o) ==
    /\ pc[p] \in {"cancel", "find"} => held[p] = orders[o].approval
    /\ pc[p] \in {"look", "void"} => held[p] \in Latest(o)
    /\ pc[p] \in {"redraft", "refresh", "file"} => Open(o) = {}
    /\ pc[p] \in {"refresh", "file", "promote"} => orders[o].approval = 0
    /\ pc[p] = "file" => form[p] = orders[o].trip
    /\ pc[p] \in {"promote", "decide"} => held[p] \in Open(o)
    /\ pc[p] = "sync" /\ form[p] = "APPROVED" => Granted(o)

CalmInv ==
    \A o \in DOMAIN orders : Calm(o) =>
        RowInv(o) /\ \A p \in Ops : order[p] = o => CallInv(p, o)

(* ... and on which nothing died. *)
Linked(o) ==
    LET mine == orders[o].approval
    IN  mine \in ApprovalsOf(o) /\ approvals[mine].trip = orders[o].trip

FlowInv(p, o) ==
    /\ pc[p] \in {"cancel", "decide"} => Agree(o)
    /\ kind[p] = "cancel" /\ pc[p] \in {"find", "look", "void"}
         => Linked(o) /\ orders[o].status = "CANCELLED"
    /\ pc[p] = "sync" => /\ Linked(o) /\ held[p] = orders[o].approval
                         /\ approvals[held[p]].status = form[p]

RestInv ==
    \A o \in DOMAIN orders : Calm(o) /\ ~Broken(o) =>
        /\ ~AtWork(o) => Agree(o)
        /\ \A p \in Ops : order[p] = o => FlowInv(p, o)

(* A calm order that is cancelled: a cancellation is withdrawing its       *)
(* approval or died before it did, or nothing is left to decide or to file. *)
Cancelling(o) ==
    \E p \in Ops : /\ order[p] = o /\ kind[p] = "cancel"
                   /\ pc[p] \in {"find", "look", "void", "lost"}

Withheld(o) ==
    Open(o) = {} /\ \A p \in Ops : order[p] = o => pc[p] \notin {"refresh", "file", "sync"}

StayInv ==
    \A o \in DOMAIN orders :
        Calm(o) /\ orders[o].status = "CANCELLED" => Cancelling(o) \/ Withheld(o)

Inv ==
    /\ Typed /\ GrantInv /\ LinkInv /\ AloneInv /\ KindInv
    /\ CalmInv /\ RestInv /\ StayInv
-----------------------------------------------------------------------------
(* Changing one row of a table keeps its type and its keys. *)
LEMMA RowChanged ==
    ASSUME NEW S, NEW s \in Seq(S), NEW i \in DOMAIN s, NEW e \in S
    PROVE  /\ [s EXCEPT ![i] = e] \in Seq(S)
           /\ Len([s EXCEPT ![i] = e]) = Len(s)
           /\ DOMAIN [s EXCEPT ![i] = e] = DOMAIN s
  OBVIOUS

(* Inserting a row keeps the type and the other rows. *)
LEMMA RowAdded ==
    ASSUME NEW S, NEW s \in Seq(S), NEW e \in S
    PROVE  /\ Append(s, e) \in Seq(S)
           /\ Len(Append(s, e)) = Len(s) + 1
           /\ DOMAIN Append(s, e) = DOMAIN s \cup {Len(s) + 1}
           /\ \A i \in DOMAIN s : Append(s, e)[i] = s[i]
           /\ Append(s, e)[Len(s) + 1] = e
  OBVIOUS

(* The fields of the rows. *)
LEMMA RowTypes ==
    ASSUME Typed
    PROVE  /\ DOMAIN orders = 1 .. Len(orders) /\ Len(orders) \in Nat
           /\ DOMAIN approvals = 1 .. Len(approvals) /\ Len(approvals) \in Nat
           /\ \A o \in DOMAIN orders :
                /\ orders[o] \in OrderRows /\ orders[o].status \in OrderStatus
                /\ orders[o].approval \in 0 .. Len(approvals) /\ orders[o].trip \in Trips
           /\ \A a \in DOMAIN approvals :
                /\ approvals[a] \in ApprovalRows /\ approvals[a].status \in ApprovalStatus
                /\ approvals[a].order \in DOMAIN orders /\ approvals[a].trip \in Trips
<1>1. /\ DOMAIN orders = 1 .. Len(orders) /\ Len(orders) \in Nat
      /\ DOMAIN approvals = 1 .. Len(approvals) /\ Len(approvals) \in Nat
  BY DEF Typed, TypeOK
<1>2. ASSUME NEW o \in DOMAIN orders
      PROVE  /\ orders[o] \in OrderRows /\ orders[o].status \in OrderStatus
             /\ orders[o].approval \in 0 .. Len(approvals) /\ orders[o].trip \in Trips
  <2>1. orders[o] \in OrderRows
    BY DEF Typed, TypeOK
  <2>2. QED
    BY <1>1, <2>1 DEF Typed, PlaceInv, OrderRows
<1>3. ASSUME NEW a \in DOMAIN approvals
      PROVE  /\ approvals[a] \in ApprovalRows /\ approvals[a].status \in ApprovalStatus
             /\ approvals[a].order \in DOMAIN orders /\ approvals[a].trip \in Trips
  <2>1. approvals[a] \in ApprovalRows
    BY DEF Typed, TypeOK
  <2>2. QED
    BY <1>1, <2>1 DEF Typed, PlaceInv, ApprovalRows
<1>4. QED
  BY <1>1, <1>2, <1>3

-----------------------------------------------------------------------------
(* Every action keeps the types and the indices in range. *)
LEMMA TypedStep ==
    ASSUME Typed, [Next]_vars
    PROVE  Typed'
<1> USE OrdersAssumption DEF Typed, TypeOK, PlaceInv, Settled
<1>1. CASE UNCHANGED vars
  BY <1>1 DEF vars, calls
<1>2. ASSUME NEW p \in Ops, NEW t \in Trips, Submits(p, t) PROVE Typed'
  <2> DEFINE row == [status |-> "DRAFT", approval |-> 0, trip |-> t]
  <2>1. row \in OrderRows
    BY <1>2 DEF Submits, WorksOn, Goto, OrderRows, ApprovalRows, OrderStatus,
       ApprovalStatus, Decisions
  <2>2. orders' = Append(orders, row)
    BY <1>2 DEF Submits, WorksOn, Goto
  <2>3. /\ orders' \in Seq(OrderRows)
        /\ Len(orders') = Len(orders) + 1
        /\ DOMAIN orders' = DOMAIN orders \cup {Len(orders) + 1}
        /\ \A i \in DOMAIN orders : orders'[i] = orders[i]
        /\ orders'[Len(orders) + 1] = row
    BY <2>1, <2>2, RowAdded
  <2>4. TypeOK'
    BY <1>2, <2>3 DEF Submits, WorksOn, Goto
  <2>5. PlaceInv'
    BY <1>2, <2>1, <2>3, RowTypes DEF Submits, WorksOn, Goto
  <2>6. QED
    BY <2>4, <2>5
<1>3. ASSUME NEW p \in Ops, Files(p) PROVE Typed'
  <2> DEFINE row == [order |-> order[p], status |-> "PENDING", trip |-> form[p]]
  <2>1. row \in ApprovalRows
    BY <1>3 DEF Files, Goto, OrderRows, ApprovalRows, OrderStatus, ApprovalStatus,
       Decisions
  <2>2. approvals' = Append(approvals, row)
    BY <1>3 DEF Files, Goto
  <2>3. /\ approvals' \in Seq(ApprovalRows)
        /\ Len(approvals') = Len(approvals) + 1
        /\ DOMAIN approvals' = DOMAIN approvals \cup {Len(approvals) + 1}
        /\ \A i \in DOMAIN approvals : approvals'[i] = approvals[i]
        /\ approvals'[Len(approvals) + 1] = row
    BY <2>1, <2>2, RowAdded
  <2>4. TypeOK'
    BY <1>3, <2>3 DEF Files, Goto
  <2>5. PlaceInv'
    BY <1>3, <2>1, <2>3, RowTypes DEF Files, Goto
  <2>6. QED
    BY <2>4, <2>5
<1>4. ASSUME NEW p \in Ops, Promotes(p) PROVE Typed'
  <2> DEFINE row == [orders[order[p]] EXCEPT !.status = "SUBMITTED", !.approval = held[p]]
  <2>1. order[p] \in DOMAIN orders /\ row \in OrderRows
    <3>1. /\ order[p] \in DOMAIN orders /\ held[p] \in Nat
          /\ form[p] \in Trips \cup Decisions \cup {"none"}
      BY <1>4 DEF Promotes, Goto
    <3>2. orders[order[p]] \in OrderRows
      BY <3>1, RowTypes
    <3>3. QED
      BY <1>4, <3>1, <3>2 DEF Promotes, Goto, OrderRows, OrderStatus,
         ApprovalStatus, Decisions
  <2>2. orders' = [orders EXCEPT ![order[p]] = row]
    BY <1>4, <2>1, RowTypes DEF Promotes, Goto
  <2>3. /\ orders' \in Seq(OrderRows)
        /\ Len(orders') = Len(orders) /\ DOMAIN orders' = DOMAIN orders
    BY <2>1, <2>2, RowChanged
  <2>4. TypeOK'
    BY <1>4, <2>1, <2>3, RowTypes DEF Promotes, Goto
  <2>5. PlaceInv'
    BY <1>4, <2>1, <2>2, <2>3, RowTypes DEF Promotes, Goto, OrderRows
  <2>6. QED
    BY <2>4, <2>5
<1>5. ASSUME NEW p \in Ops, NEW k \in {"cancel", "modify"}, NEW o \in DOMAIN orders,
             Fetches(p, k, o)
      PROVE  Typed'
  <2>1. orders[o].approval \in 0 .. Len(approvals)
    BY RowTypes
  <2>2. QED
    BY <1>5, <2>1 DEF Fetches, WorksOn, Goto
<1>6. ASSUME NEW p \in Ops, Cancels(p) PROVE Typed'
  <2> DEFINE row == [orders[order[p]] EXCEPT !.status = "CANCELLED"]
  <2>1. order[p] \in DOMAIN orders /\ row \in OrderRows
    <3>1. /\ order[p] \in DOMAIN orders /\ held[p] \in Nat
          /\ form[p] \in Trips \cup Decisions \cup {"none"}
      BY <1>6 DEF Cancels, Goto
    <3>2. orders[order[p]] \in OrderRows
      BY <3>1, RowTypes
    <3>3. QED
      BY <1>6, <3>1, <3>2 DEF Cancels, Goto, OrderRows, OrderStatus,
         ApprovalStatus, Decisions
  <2>2. orders' = [orders EXCEPT ![order[p]] = row]
    BY <1>6, <2>1, RowTypes DEF Cancels, Goto
  <2>3. /\ orders' \in Seq(OrderRows)
        /\ Len(orders') = Len(orders) /\ DOMAIN orders' = DOMAIN orders
    BY <2>1, <2>2, RowChanged
  <2>4. TypeOK'
    BY <1>6, <2>1, <2>3, RowTypes DEF Cancels, Goto
  <2>5. PlaceInv'
    BY <1>6, <2>1, <2>2, <2>3, RowTypes DEF Cancels, Goto, OrderRows
  <2>6. QED
    BY <2>4, <2>5
<1>7. ASSUME NEW p \in Ops, FindsApproval(p) PROVE Typed'
  <2>1. CASE UNCHANGED held /\ Goto(p, Withdrawn(p))
    BY <1>7, <2>1 DEF FindsApproval, Goto, Withdrawn
  <2>2. ASSUME NEW a \in ToWithdraw(p), held' = [held EXCEPT ![p] = a], Goto(p, "look")
        PROVE  Typed'
    <3>1. a \in DOMAIN approvals
      BY <2>2, RowTypes DEF ToWithdraw, Latest, ApprovalsOf
    <3>2. QED
      BY <1>7, <2>2, <3>1, RowTypes DEF FindsApproval, Goto
  <2>3. QED
    BY <1>7, <2>1, <2>2 DEF FindsApproval
<1>8. ASSUME NEW p \in Ops, LooksAtApproval(p) PROVE Typed'
  BY <1>8 DEF LooksAtApproval, Goto, Withdrawn
<1>9. ASSUME NEW p \in Ops, VoidsApproval(p) PROVE Typed'
  <2> DEFINE row == [approvals[held[p]] EXCEPT !.status = "CANCELLED"]
  <2>1. held[p] \in DOMAIN approvals /\ row \in ApprovalRows
    <3>1. /\ held[p] \in DOMAIN approvals /\ held[p] \in Nat
          /\ form[p] \in Trips \cup Decisions \cup {"none"}
      BY <1>9 DEF VoidsApproval, Goto
    <3>2. approvals[held[p]] \in ApprovalRows
      BY <3>1, RowTypes
    <3>3. QED
      BY <1>9, <3>1, <3>2 DEF VoidsApproval, Goto, Withdrawn, ApprovalRows,
         OrderStatus, ApprovalStatus, Decisions
  <2>2. approvals' = [approvals EXCEPT ![held[p]] = row]
    BY <1>9, <2>1, RowTypes DEF VoidsApproval, Goto, Withdrawn
  <2>3. /\ approvals' \in Seq(ApprovalRows)
        /\ Len(approvals') = Len(approvals) /\ DOMAIN approvals' = DOMAIN approvals
    BY <2>1, <2>2, RowChanged
  <2>4. TypeOK'
    BY <1>9, <2>1, <2>3, RowTypes DEF VoidsApproval, Goto, Withdrawn
  <2>5. PlaceInv'
    <3>1. \A x \in DOMAIN approvals : approvals'[x].order = approvals[x].order
      BY <2>1, <2>2, RowTypes DEF ApprovalRows
    <3>2. pc'[p] \in {"done", "redraft"} /\ \A q \in Ops \ {p} : pc'[q] = pc[q]
      BY <1>9 DEF VoidsApproval, Goto, Withdrawn
    <3>3. QED
      BY <1>9, <2>1, <2>3, <3>1, <3>2, RowTypes DEF VoidsApproval
  <2>6. QED
    BY <2>4, <2>5
<1>10. ASSUME NEW p \in Ops, NEW t \in Trips, Redrafts(p, t) PROVE Typed'
  <2> DEFINE row == Redraft(orders[order[p]], t)
  <2>1. order[p] \in DOMAIN orders /\ row \in OrderRows
    <3>1. /\ order[p] \in DOMAIN orders /\ held[p] \in Nat
          /\ form[p] \in Trips \cup Decisions \cup {"none"}
      BY <1>10 DEF Redrafts, Goto
    <3>2. orders[order[p]] \in OrderRows
      BY <3>1, RowTypes
    <3>3. QED
      BY <1>10, <3>1, <3>2 DEF Redrafts, Goto, Redraft, OrderRows, OrderStatus,
         ApprovalStatus, Decisions
  <2>2. orders' = [orders EXCEPT ![order[p]] = row]
    BY <1>10, <2>1, RowTypes DEF Redrafts, Goto, Redraft
  <2>3. /\ orders' \in Seq(OrderRows)
        /\ Len(orders') = Len(orders) /\ DOMAIN orders' = DOMAIN orders
    BY <2>1, <2>2, RowChanged
  <2>4. TypeOK'
    BY <1>10, <2>1, <2>3, RowTypes DEF Redrafts, Goto, Redraft
  <2>5. PlaceInv'
    BY <1>10, <2>1, <2>2, <2>3, RowTypes DEF Redrafts, Goto, Redraft, OrderRows
  <2>6. QED
    BY <2>4, <2>5
<1>11. ASSUME NEW p \in Ops, Refreshes(p) PROVE Typed'
  <2>1. order[p] \in DOMAIN orders /\ orders[order[p]].trip \in Trips
    BY <1>11, RowTypes DEF Refreshes
  <2>2. QED
    BY <1>11, <2>1 DEF Refreshes, Goto
<1>12. ASSUME NEW p \in Ops, NEW a \in DOMAIN approvals, NEW s \in Decisions,
             LooksToDecide(p, a, s)
      PROVE  Typed'
  BY <1>12 DEF LooksToDecide, WorksOn, Goto, IsPending
<1>13. ASSUME NEW p \in Ops, Decides(p) PROVE Typed'
  <2> DEFINE row == [approvals[held[p]] EXCEPT !.status = form[p]]
  <2>1. held[p] \in DOMAIN approvals /\ row \in ApprovalRows
    <3>1. /\ held[p] \in DOMAIN approvals /\ held[p] \in Nat
          /\ form[p] \in Trips \cup Decisions \cup {"none"}
      BY <1>13 DEF Decides, Goto
    <3>2. approvals[held[p]] \in ApprovalRows
      BY <3>1, RowTypes
    <3>3. QED
      BY <1>13, <3>1, <3>2 DEF Decides, Goto, ApprovalRows, OrderStatus,
         ApprovalStatus, Decisions
  <2>2. approvals' = [approvals EXCEPT ![held[p]] = row]
    BY <1>13, <2>1, RowTypes DEF Decides, Goto
  <2>3. /\ approvals' \in Seq(ApprovalRows)
        /\ Len(approvals') = Len(approvals) /\ DOMAIN approvals' = DOMAIN approvals
    BY <2>1, <2>2, RowChanged
  <2>4. TypeOK'
    BY <1>13, <2>1, <2>3, RowTypes DEF Decides, Goto
  <2>5. PlaceInv'
    BY <1>13, <2>1, <2>2, <2>3, RowTypes DEF Decides, Goto, ApprovalRows
  <2>6. QED
    BY <2>4, <2>5
<1>14. ASSUME NEW p \in Ops, SyncsOrder(p) PROVE Typed'
  <2> DEFINE row == [orders[order[p]] EXCEPT !.status = form[p]]
  <2>1. order[p] \in DOMAIN orders /\ row \in OrderRows
    <3>1. /\ order[p] \in DOMAIN orders /\ held[p] \in Nat
          /\ form[p] \in Trips \cup Decisions \cup {"none"}
      BY <1>14 DEF SyncsOrder, Goto
    <3>2. orders[order[p]] \in OrderRows
      BY <3>1, RowTypes
    <3>3. QED
      BY <1>14, <3>1, <3>2 DEF SyncsOrder, Goto, Decision, OrderRows, OrderStatus,
         ApprovalStatus, Decisions
  <2>2. orders' = [orders EXCEPT ![order[p]] = row]
    BY <1>14, <2>1, RowTypes DEF SyncsOrder, Goto, Decision
  <2>3. /\ orders' \in Seq(OrderRows)
        /\ Len(orders') = Len(orders) /\ DOMAIN orders' = DOMAIN orders
    BY <2>1, <2>2, RowChanged
  <2>4. TypeOK'
    BY <1>14, <2>1, <2>3, RowTypes DEF SyncsOrder, Goto, Decision
  <2>5. PlaceInv'
    BY <1>14, <2>1, <2>2, <2>3, RowTypes DEF SyncsOrder, Goto, Decision, OrderRows
  <2>6. QED
    BY <2>4, <2>5
<1>15. ASSUME NEW p \in Ops, Dies(p) PROVE Typed'
  BY <1>15 DEF Dies, Goto
<1>16. QED
  BY <1>1, <1>2, <1>3, <1>4, <1>5, <1>6, <1>7, <1>8, <1>9, <1>10, <1>11, <1>12, <1>13,
     <1>14, <1>15 DEF Next, Starts, Goes

(* Only SyncsOrder makes an order APPROVED, after Decides has granted it. *)
LEMMA GrantStep ==
    ASSUME Typed, GrantInv, [Next]_vars
    PROVE  GrantInv'
<1> USE DEF Typed, TypeOK, PlaceInv, GrantInv, OrderRows
<1>1. CASE UNCHANGED vars
  BY <1>1 DEF vars, calls
<1>2. ASSUME NEW p \in Ops, NEW t \in Trips, Submits(p, t) PROVE GrantInv'
  BY <1>2 DEF Submits, WorksOn, Goto, Settled
<1>3. ASSUME NEW p \in Ops, Files(p) PROVE GrantInv'
  BY <1>3 DEF Files, Goto
<1>4. ASSUME NEW p \in Ops, Promotes(p) PROVE GrantInv'
  BY <1>4 DEF Promotes, Goto
<1>5. ASSUME NEW p \in Ops, NEW k \in {"cancel", "modify"}, NEW o \in DOMAIN orders,
             Fetches(p, k, o)
      PROVE  GrantInv'
  BY <1>5 DEF Fetches, WorksOn, Goto, Settled
<1>6. ASSUME NEW p \in Ops, Cancels(p) PROVE GrantInv'
  BY <1>6 DEF Cancels, Goto
<1>7. ASSUME NEW p \in Ops, FindsApproval(p) PROVE GrantInv'
  BY <1>7 DEF FindsApproval, Goto, ToWithdraw, Latest, ApprovalsOf, Withdrawn
<1>8. ASSUME NEW p \in Ops, LooksAtApproval(p) PROVE GrantInv'
  BY <1>8 DEF LooksAtApproval, Goto, Withdrawn
<1>9. ASSUME NEW p \in Ops, VoidsApproval(p) PROVE GrantInv'
  BY <1>9 DEF VoidsApproval, Goto, Withdrawn
<1>10. ASSUME NEW p \in Ops, NEW t \in Trips, Redrafts(p, t) PROVE GrantInv'
  BY <1>10 DEF Redrafts, Goto, Redraft
<1>11. ASSUME NEW p \in Ops, Refreshes(p) PROVE GrantInv'
  BY <1>11 DEF Refreshes, Goto
<1>12. ASSUME NEW p \in Ops, NEW a \in DOMAIN approvals, NEW s \in Decisions,
             LooksToDecide(p, a, s)
      PROVE  GrantInv'
  BY <1>12 DEF LooksToDecide, WorksOn, Goto, IsPending, Settled
<1>13. ASSUME NEW p \in Ops, Decides(p) PROVE GrantInv'
  <2>1. order[p] \in DOMAIN orders /\ held[p] \in DOMAIN approvals
    BY <1>13 DEF Decides
  <2>2. granted \subseteq granted'
    BY <1>13 DEF Decides
  <2>3. form[p] = "APPROVED" => \E g \in granted' : g.order = order[p]
    <3>1. SUFFICES ASSUME form[p] = "APPROVED"
                   PROVE  \E g \in granted' : g.order = order[p]
      OBVIOUS
    <3>2. [order |-> order[p], trip |-> approvals[held[p]].trip] \in granted'
      BY <1>13, <3>1 DEF Decides
    <3>3. QED
      BY <3>2
  <2>4. QED
    BY <1>13, <2>1, <2>2, <2>3 DEF Decides, Goto
<1>14. ASSUME NEW p \in Ops, SyncsOrder(p) PROVE GrantInv'
  BY <1>14 DEF SyncsOrder, Goto, Decision
<1>15. ASSUME NEW p \in Ops, Dies(p) PROVE GrantInv'
  BY <1>15 DEF Dies, Goto, Settled
<1>16. QED
  BY <1>1, <1>2, <1>3, <1>4, <1>5, <1>6, <1>7, <1>8, <1>9, <1>10, <1>11, <1>12, <1>13,
     <1>14, <1>15 DEF Next, Starts, Goes

-----------------------------------------------------------------------------
(* What an operation leaves of the tables: the row it writes, the others,  *)
(* and the keys.                                                           *)
LEMMA OrderWritten ==
    ASSUME Typed, NEW p \in Ops, pc[p] \notin Settled,
           \/ Promotes(p) \/ Cancels(p) \/ SyncsOrder(p) \/ \E t \in Trips : Redrafts(p, t)
    PROVE  /\ DOMAIN orders' = DOMAIN orders /\ approvals' = approvals
           /\ \A o \in DOMAIN orders \ {order[p]} : orders'[o] = orders[o]
           /\ order[p] \in DOMAIN orders
           /\ Promotes(p) => /\ orders'[order[p]].status = "SUBMITTED"
                             /\ orders'[order[p]].approval = held[p]
                             /\ orders'[order[p]].trip = orders[order[p]].trip
           /\ Cancels(p) => /\ orders'[order[p]].status = "CANCELLED"
                            /\ orders'[order[p]].approval = orders[order[p]].approval
                            /\ orders'[order[p]].trip = orders[order[p]].trip
           /\ SyncsOrder(p) => /\ orders'[order[p]].status = form[p]
                               /\ orders'[order[p]].approval = orders[order[p]].approval
                               /\ orders'[order[p]].trip = orders[order[p]].trip
           /\ (\E t \in Trips : Redrafts(p, t)) => /\ orders'[order[p]].status = "DRAFT"
                                                   /\ orders'[order[p]].approval = 0
<1>1. order[p] \in DOMAIN orders /\ orders[order[p]] \in OrderRows
  BY RowTypes DEF Typed, PlaceInv, Settled
<1>2. orders \in Seq(OrderRows)
  BY DEF Typed, TypeOK
<1>3. CASE Promotes(p)
  BY <1>1, <1>2, <1>3 DEF Promotes, Cancels, SyncsOrder, Redrafts, OrderRows
<1>4. CASE Cancels(p)
  BY <1>1, <1>2, <1>4 DEF Promotes, Cancels, SyncsOrder, Redrafts, OrderRows
<1>5. CASE SyncsOrder(p)
  BY <1>1, <1>2, <1>5 DEF Promotes, Cancels, SyncsOrder, Redrafts, Decision, OrderRows
<1>6. ASSUME NEW t \in Trips, Redrafts(p, t)
      PROVE  /\ DOMAIN orders' = DOMAIN orders /\ approvals' = approvals
             /\ \A o \in DOMAIN orders \ {order[p]} : orders'[o] = orders[o]
             /\ orders'[order[p]].status = "DRAFT" /\ orders'[order[p]].approval = 0
             /\ pc[p] = "redraft"
  BY <1>1, <1>2, <1>6 DEF Redrafts, Redraft, OrderRows
<1>7. CASE \E t \in Trips : Redrafts(p, t)
  BY <1>1, <1>6, <1>7 DEF Promotes, Cancels, SyncsOrder
<1>8. QED
  BY <1>3, <1>4, <1>5, <1>7

(* The approval a call writes, and the others. *)
LEMMA ApprovalWritten ==
    ASSUME Typed, NEW p \in Ops, VoidsApproval(p) \/ Decides(p)
    PROVE  /\ DOMAIN approvals' = DOMAIN approvals /\ orders' = orders
           /\ held[p] \in DOMAIN approvals
           /\ \A a \in DOMAIN approvals \ {held[p]} : approvals'[a] = approvals[a]
           /\ \A a \in DOMAIN approvals : /\ approvals'[a].order = approvals[a].order
                                          /\ approvals'[a].trip = approvals[a].trip
           /\ VoidsApproval(p) => approvals'[held[p]].status = "CANCELLED"
           /\ Decides(p) => approvals'[held[p]].status = form[p]
<1>1. held[p] \in DOMAIN approvals /\ approvals[held[p]] \in ApprovalRows
  BY RowTypes DEF Typed, PlaceInv, VoidsApproval, Decides
<1>2. approvals \in Seq(ApprovalRows)
  BY DEF Typed, TypeOK
<1>3. CASE VoidsApproval(p)
  BY <1>1, <1>2, <1>3 DEF VoidsApproval, Decides, ApprovalRows
<1>4. CASE Decides(p)
  BY <1>1, <1>2, <1>4 DEF VoidsApproval, Decides, ApprovalRows
<1>5. QED
  BY <1>3, <1>4

(* A new order has a new key and no approval. *)
LEMMA OrderAdded ==
    ASSUME Typed, NEW p \in Ops, NEW t \in Trips, Submits(p, t)
    PROVE  /\ DOMAIN orders' = DOMAIN orders \cup {Len(orders) + 1} /\ approvals' = approvals
           /\ \A o \in DOMAIN orders : orders'[o] = orders[o]
           /\ Len(orders) + 1 \notin DOMAIN orders /\ order'[p] = Len(orders) + 1
           /\ orders'[Len(orders) + 1] = [status |-> "DRAFT", approval |-> 0, trip |-> t]
<1> DEFINE row == [status |-> "DRAFT", approval |-> 0, trip |-> t]
<1>1. row \in OrderRows /\ orders \in Seq(OrderRows)
  BY DEF Typed, TypeOK, OrderRows, OrderStatus
<1>2. orders' = Append(orders, row) /\ approvals' = approvals /\ order'[p] = Len(orders) + 1
  BY DEF Submits, WorksOn, Typed, TypeOK
<1> HIDE DEF row
<1>3. Len(orders) + 1 \notin DOMAIN orders
  BY RowTypes
<1>4. /\ DOMAIN orders' = DOMAIN orders \cup {Len(orders) + 1}
      /\ \A i \in DOMAIN orders : orders'[i] = orders[i]
      /\ orders'[Len(orders) + 1] = row
  BY <1>1, <1>2, RowAdded
<1>5. QED
  BY <1>2, <1>3, <1>4 DEF row

(* A new approval is the latest. *)
LEMMA ApprovalAdded ==
    ASSUME Typed, NEW p \in Ops, Files(p)
    PROVE  /\ DOMAIN approvals' = DOMAIN approvals \cup {Len(approvals) + 1} /\ orders' = orders
           /\ \A a \in DOMAIN approvals : approvals'[a] = approvals[a]
           /\ \A a \in DOMAIN approvals : a < Len(approvals) + 1
           /\ held'[p] = Len(approvals) + 1
           /\ approvals'[Len(approvals) + 1]
                = [order |-> order[p], status |-> "PENDING", trip |-> form[p]]
<1> DEFINE row == [order |-> order[p], status |-> "PENDING", trip |-> form[p]]
<1>1. row \in ApprovalRows /\ approvals \in Seq(ApprovalRows)
  <2>1. order[p] \in Nat /\ form[p] \in Trips
    BY DEF Typed, TypeOK, PlaceInv, Files
  <2>2. QED
    BY <2>1 DEF Typed, TypeOK, ApprovalRows, ApprovalStatus
<1>2. approvals' = Append(approvals, row) /\ orders' = orders /\ held'[p] = Len(approvals) + 1
  BY DEF Files, Typed, TypeOK
<1> HIDE DEF row
<1>3. \A a \in DOMAIN approvals : a < Len(approvals) + 1
  BY RowTypes
<1>4. /\ DOMAIN approvals' = DOMAIN approvals \cup {Len(approvals) + 1}
      /\ \A i \in DOMAIN approvals : approvals'[i] = approvals[i]
      /\ approvals'[Len(approvals) + 1] = row
  BY <1>1, <1>2, RowAdded
<1>5. QED
  BY <1>2, <1>3, <1>4 DEF row
-----------------------------------------------------------------------------
Step(p) == Starts(p) \/ Goes(p) \/ Dies(p)

(* What a step changes of the calls. *)
LEMMA CallChanges ==
    ASSUME Typed, NEW p \in Ops, Step(p)
    PROVE  /\ \A q \in Ops \ {p} : /\ pc'[q] = pc[q] /\ kind'[q] = kind[q] /\ order'[q] = order[q]
                                   /\ held'[q] = held[q] /\ form'[q] = form[q]
           /\ mixed \subseteq mixed' /\ granted \subseteq granted'
           /\ Starts(p) => /\ pc[p] = "idle"
                           /\ mixed' = IF \E q \in Ops : pc[q] \notin Settled /\ order[q] = order'[p]
                                       THEN mixed \cup {order'[p]} ELSE mixed
           /\ ~Starts(p) => pc[p] \notin Settled /\ mixed' = mixed /\ order' = order /\ kind' = kind
           /\ pc'[p] # "idle"
           /\ pc'[p] = "lost" => Dies(p)
<1> USE DEF Typed, TypeOK, Goto, Settled
<1>1. ASSUME NEW t \in Trips, Submits(p, t)
      PROVE  /\ \A q \in Ops \ {p} : /\ pc'[q] = pc[q] /\ kind'[q] = kind[q] /\ order'[q] = order[q]
                                     /\ held'[q] = held[q] /\ form'[q] = form[q]
             /\ mixed \subseteq mixed' /\ granted' = granted /\ pc[p] = "idle" /\ pc'[p] = "file"
             /\ mixed' = IF \E q \in Ops : pc[q] \notin Settled /\ order[q] = order'[p]
                         THEN mixed \cup {order'[p]} ELSE mixed
  BY <1>1, OrderAdded DEF Submits, WorksOn
<1>2. ASSUME NEW k \in {"cancel", "modify"}, NEW o \in DOMAIN orders, Fetches(p, k, o)
      PROVE  /\ \A q \in Ops \ {p} : /\ pc'[q] = pc[q] /\ kind'[q] = kind[q] /\ order'[q] = order[q]
                                     /\ held'[q] = held[q] /\ form'[q] = form[q]
             /\ mixed \subseteq mixed' /\ granted' = granted /\ pc[p] = "idle"
             /\ pc'[p] \in {"cancel", "find"}
             /\ mixed' = IF \E q \in Ops : pc[q] \notin Settled /\ order[q] = order'[p]
                         THEN mixed \cup {order'[p]} ELSE mixed
  BY <1>2 DEF Fetches, WorksOn
<1>3. ASSUME NEW a \in DOMAIN approvals, NEW s \in Decisions, LooksToDecide(p, a, s)
      PROVE  /\ \A q \in Ops \ {p} : /\ pc'[q] = pc[q] /\ kind'[q] = kind[q] /\ order'[q] = order[q]
                                     /\ held'[q] = held[q] /\ form'[q] = form[q]
             /\ mixed \subseteq mixed' /\ granted' = granted /\ pc[p] = "idle" /\ pc'[p] = "decide"
             /\ mixed' = IF \E q \in Ops : pc[q] \notin Settled /\ order[q] = order'[p]
                         THEN mixed \cup {order'[p]} ELSE mixed
  BY <1>3, RowTypes DEF LooksToDecide, WorksOn
<1>4. CASE Starts(p)
  BY <1>1, <1>2, <1>3, <1>4 DEF Starts
<1>5. CASE Goes(p)
  <2>1. CASE Files(p) \/ Promotes(p) \/ Cancels(p) \/ SyncsOrder(p) \/ Refreshes(p)
    BY <2>1 DEF Files, Promotes, Cancels, SyncsOrder, Refreshes, Starts, Submits, Fetches,
       LooksToDecide, WorksOn
  <2>2. CASE FindsApproval(p)
    BY <2>2 DEF FindsApproval, Withdrawn, Starts, Submits, Fetches, LooksToDecide, WorksOn
  <2>3. CASE LooksAtApproval(p) \/ VoidsApproval(p)
    BY <2>3 DEF LooksAtApproval, VoidsApproval, Withdrawn, Starts, Submits, Fetches,
       LooksToDecide, WorksOn
  <2>4. CASE \E t \in Trips : Redrafts(p, t)
    BY <2>4 DEF Redrafts, Starts, Submits, Fetches, LooksToDecide, WorksOn
  <2>5. CASE Decides(p)
    BY <2>5 DEF Decides, Starts, Submits, Fetches, LooksToDecide, WorksOn
  <2>6. QED
    BY <1>5, <2>1, <2>2, <2>3, <2>4, <2>5 DEF Goes
<1>6. CASE Dies(p)
  BY <1>6 DEF Dies, Starts, Submits, Fetches, LooksToDecide, WorksOn
<1>7. QED
  BY <1>4, <1>5, <1>6 DEF Step

(* Whoever joins a call on an order is noted in mixed. *)
LEMMA AloneStep ==
    ASSUME Typed, AloneInv, [Next]_vars
    PROVE  AloneInv'
<1>1. CASE UNCHANGED vars
  BY <1>1 DEF vars, calls, AloneInv
<1>2. ASSUME NEW p \in Ops, Step(p)
      PROVE  AloneInv'
  <2>1. CASE Starts(p)
    BY <1>2, <2>1, CallChanges DEF AloneInv, Settled
  <2>2. CASE ~Starts(p)
    BY <1>2, <2>2, CallChanges DEF AloneInv
  <2>3. QED
    BY <2>1, <2>2
<1>3. QED
  BY <1>1, <1>2 DEF Next, Step

(* The pointers from rows and calls to approvals stay within an order. *)
LEMMA LinkStep ==
    ASSUME Typed, LinkInv, [Next]_vars
    PROVE  LinkInv'
<1> USE DEF Typed, TypeOK, Goto, Holding
<1>1. CASE UNCHANGED vars
  BY <1>1 DEF vars, calls, LinkInv
<1>2. ASSUME NEW p \in Ops, NEW t \in Trips, Submits(p, t) PROVE LinkInv'
  BY <1>2, OrderAdded DEF Submits, WorksOn, LinkInv
<1>3. ASSUME NEW p \in Ops, Files(p) PROVE LinkInv'
  <2>1. /\ \A o \in DOMAIN orders : orders[o].approval # 0 => orders[o].approval \in DOMAIN approvals
        /\ \A q \in Ops : held[q] # 0 => held[q] \in DOMAIN approvals
    BY RowTypes
  <2>2. /\ \A o \in DOMAIN orders' :
             orders'[o].approval # 0 => approvals'[orders'[o].approval].order = o
    <3>1. orders' = orders /\ \A a \in DOMAIN approvals : approvals'[a] = approvals[a]
      BY <1>3, ApprovalAdded
    <3>2. \A o \in DOMAIN orders : orders[o].approval # 0 => approvals[orders[o].approval].order = o
      BY DEF LinkInv
    <3>3. QED
      BY <2>1, <3>1, <3>2
  <2>3. \A q \in Ops \ {p} : pc'[q] = pc[q] /\ held'[q] = held[q] /\ order'[q] = order[q]
    BY <1>3 DEF Files
  <2>4. approvals'[held'[p]].order = order'[p]
    BY <1>3, ApprovalAdded DEF Files
  <2>5. QED
    <3>1. \A a \in DOMAIN approvals : approvals'[a] = approvals[a]
      BY <1>3, ApprovalAdded
    <3>2. ASSUME NEW q \in Ops \ {p}, pc'[q] \in Holding, held'[q] # 0
          PROVE  approvals'[held'[q]].order = order'[q]
      BY <2>1, <2>3, <3>1, <3>2 DEF LinkInv
    <3>3. QED
      BY <2>2, <2>4, <3>2 DEF LinkInv
<1>4. ASSUME NEW p \in Ops, Promotes(p) PROVE LinkInv'
  BY <1>4, OrderWritten DEF Promotes, LinkInv, Settled
<1>5. ASSUME NEW p \in Ops, NEW k \in {"cancel", "modify"}, NEW o \in DOMAIN orders,
             Fetches(p, k, o)
      PROVE  LinkInv'
  BY <1>5 DEF Fetches, WorksOn, LinkInv, Settled
<1>6. ASSUME NEW p \in Ops, Cancels(p) PROVE LinkInv'
  BY <1>6, OrderWritten DEF Cancels, LinkInv, Settled
<1>7. ASSUME NEW p \in Ops, FindsApproval(p) PROVE LinkInv'
  BY <1>7 DEF FindsApproval, ToWithdraw, Latest, ApprovalsOf, Withdrawn, LinkInv
<1>8. ASSUME NEW p \in Ops, LooksAtApproval(p) PROVE LinkInv'
  BY <1>8 DEF LooksAtApproval, Withdrawn, LinkInv
<1>9. ASSUME NEW p \in Ops, VoidsApproval(p) PROVE LinkInv'
  <2>1. /\ \A o \in DOMAIN orders : orders[o].approval # 0 => orders[o].approval \in DOMAIN approvals
        /\ \A q \in Ops : held[q] # 0 => held[q] \in DOMAIN approvals
    BY RowTypes
  <2>2. QED
    <3>1. orders' = orders /\ \A a \in DOMAIN approvals : approvals'[a].order = approvals[a].order
      BY <1>9, ApprovalWritten
    <3>2. /\ held' = held /\ order' = order
          /\ \A q \in Ops : pc'[q] \in Holding => pc[q] \in Holding
      BY <1>9 DEF VoidsApproval, Withdrawn
    <3>3. QED
      BY <2>1, <3>1, <3>2 DEF LinkInv
<1>10. ASSUME NEW p \in Ops, NEW t \in Trips, Redrafts(p, t) PROVE LinkInv'
  <2>1. pc[p] \notin Settled
    BY <1>10 DEF Redrafts, Settled
  <2>2. /\ DOMAIN orders' = DOMAIN orders /\ approvals' = approvals
        /\ \A o \in DOMAIN orders \ {order[p]} : orders'[o] = orders[o]
        /\ orders'[order[p]].approval = 0
    BY <1>10, <2>1, OrderWritten
  <2>3. /\ held' = held /\ order' = order
        /\ \A q \in Ops : pc'[q] \in Holding => pc[q] \in Holding
    BY <1>10 DEF Redrafts
  <2>4. QED
    BY <2>2, <2>3 DEF LinkInv
<1>11. ASSUME NEW p \in Ops, Refreshes(p) PROVE LinkInv'
  BY <1>11 DEF Refreshes, LinkInv
<1>12. ASSUME NEW p \in Ops, NEW a \in DOMAIN approvals, NEW s \in Decisions,
              LooksToDecide(p, a, s)
       PROVE  LinkInv'
  BY <1>12, RowTypes DEF LooksToDecide, WorksOn, LinkInv, Settled
<1>13. ASSUME NEW p \in Ops, Decides(p) PROVE LinkInv'
  <2>1. /\ \A o \in DOMAIN orders : orders[o].approval # 0 => orders[o].approval \in DOMAIN approvals
        /\ \A q \in Ops : held[q] # 0 => held[q] \in DOMAIN approvals
    BY RowTypes
  <2>2. QED
    BY <1>13, <2>1, ApprovalWritten DEF Decides, LinkInv
<1>14. ASSUME NEW p \in Ops, SyncsOrder(p) PROVE LinkInv'
  BY <1>14, OrderWritten DEF SyncsOrder, LinkInv, Settled
<1>15. ASSUME NEW p \in Ops, Dies(p) PROVE LinkInv'
  BY <1>15 DEF Dies, LinkInv
<1>16. QED
  BY <1>1, <1>2, <1>3, <1>4, <1>5, <1>6, <1>7, <1>8, <1>9, <1>10, <1>11, <1>12, <1>13, <1>14,
     <1>15 DEF Next, Starts, Goes
-----------------------------------------------------------------------------
(* What is said of an order depends on its row and its approvals only. *)
LEMMA SameOrder ==
    ASSUME NEW o, orders'[o] = orders[o], ApprovalsOf(o)' = ApprovalsOf(o),
           \A a \in ApprovalsOf(o) : approvals'[a] = approvals[a]
    PROVE  /\ Latest(o)' = Latest(o) /\ Open(o)' = Open(o)
           /\ Agree(o)' = Agree(o) /\ Linked(o)' = Linked(o)
<1>1. Latest(o)' = Latest(o)
  BY DEF Latest
<1>2. Open(o)' = Open(o)
  BY DEF Open, IsPending
<1>3. Agree(o)' = Agree(o)
  BY DEF Agree
<1>4. Linked(o)' = Linked(o)
  BY DEF Linked
<1>5. QED
  BY <1>1, <1>2, <1>3, <1>4

(* A step of a call leaves the orders it does not work on alone. *)
LEMMA OfOthers ==
    ASSUME Typed, LinkInv, NEW p \in Ops, Step(p), NEW o \in DOMAIN orders, order'[p] # o
    PROVE  /\ orders'[o] = orders[o] /\ ApprovalsOf(o)' = ApprovalsOf(o)
           /\ \A a \in ApprovalsOf(o) : approvals'[a] = approvals[a]
<1>1. CASE orders' = orders /\ approvals' = approvals
  BY <1>1 DEF ApprovalsOf
<1>2. ASSUME NEW t \in Trips, Submits(p, t)
      PROVE  orders'[o] = orders[o] /\ approvals' = approvals
  BY <1>2, OrderAdded
<1>3. CASE Files(p)
  <2>1. /\ DOMAIN approvals' = DOMAIN approvals \cup {Len(approvals) + 1} /\ orders' = orders
        /\ \A a \in DOMAIN approvals : approvals'[a] = approvals[a]
        /\ approvals'[Len(approvals) + 1].order = order[p]
    <3>1. approvals'[Len(approvals) + 1]
            = [order |-> order[p], status |-> "PENDING", trip |-> form[p]]
      BY <1>3, ApprovalAdded
    <3>2. approvals'[Len(approvals) + 1].order = order[p]
      BY <3>1
    <3>3. QED
      BY <1>3, <3>2, ApprovalAdded
  <2>2. order[p] # o
    BY <1>3 DEF Files
  <2>3. QED
    BY <2>1, <2>2 DEF ApprovalsOf
<1>4. CASE Promotes(p) \/ Cancels(p) \/ SyncsOrder(p) \/ \E t \in Trips : Redrafts(p, t)
  <2>1. pc[p] \notin Settled /\ order' = order
    BY <1>4 DEF Promotes, Cancels, SyncsOrder, Redrafts, Settled
  <2>2. approvals' = approvals /\ \A i \in DOMAIN orders \ {order[p]} : orders'[i] = orders[i]
    BY <1>4, <2>1, OrderWritten
  <2>3. QED
    BY <2>1, <2>2 DEF ApprovalsOf
<1>5. CASE VoidsApproval(p) \/ Decides(p)
  <2>1. order' = order /\ pc[p] \in {"void", "decide"}
    BY <1>5 DEF VoidsApproval, Decides
  <2>2. /\ DOMAIN approvals' = DOMAIN approvals /\ orders' = orders
        /\ held[p] \in DOMAIN approvals
        /\ \A a \in DOMAIN approvals \ {held[p]} : approvals'[a] = approvals[a]
        /\ \A a \in DOMAIN approvals : approvals'[a].order = approvals[a].order
    BY <1>5, ApprovalWritten
  <2>3. approvals[held[p]].order # o
    <3>1. held[p] # 0
      BY <2>2, RowTypes
    <3>2. QED
      BY <2>1, <3>1 DEF LinkInv, Holding
  <2>4. QED
    BY <2>2, <2>3 DEF ApprovalsOf
<1>6. CASE \/ Refreshes(p) \/ FindsApproval(p) \/ LooksAtApproval(p) \/ Dies(p)
           \/ (\E k \in {"cancel", "modify"}, i \in DOMAIN orders : Fetches(p, k, i))
           \/ (\E a \in DOMAIN approvals, s \in Decisions : LooksToDecide(p, a, s))
  BY <1>1, <1>6 DEF Refreshes, FindsApproval, LooksAtApproval, Dies, Fetches, LooksToDecide
<1>7. QED
  BY <1>2, <1>3, <1>4, <1>5, <1>6 DEF Step, Starts, Goes, ApprovalsOf
-----------------------------------------------------------------------------
(* Where no calls overlapped, the call that steps is alone on its order.   *)
LEMMA AloneThere ==
    ASSUME Typed, AloneInv, NEW p \in Ops, Step(p), order'[p] \notin mixed'
    PROVE  /\ order'[p] \notin mixed
           /\ \A q \in Ops \ {p} : order[q] = order'[p] => pc[q] \in Settled /\ pc'[q] \in Settled
           /\ Starts(p) => ~AtWork(order'[p])
<1>1. CASE Starts(p)
  <2>1. ~\E q \in Ops : pc[q] \notin Settled /\ order[q] = order'[p]
    BY <1>1, CallChanges
  <2>2. QED
    BY <2>1, CallChanges DEF AtWork
<1>2. CASE ~Starts(p)
  BY <1>2, CallChanges DEF AloneInv
<1>3. QED
  BY <1>1, <1>2

(* A call that died on an order stays so. *)
LEMMA StillBroken ==
    ASSUME Typed, NEW p \in Ops, Step(p), NEW o, Broken(o)
    PROVE  Broken(o)'
<1>1. PICK q \in Ops : pc[q] = "lost" /\ order[q] = o
  BY DEF Broken
<1>2. q # p
  BY <1>1, CallChanges DEF Settled
<1>3. QED
  BY <1>1, <1>2, CallChanges DEF Broken

(* One open approval is all there is to withdraw. *)
LEMMA LatestIsOne ==
    ASSUME Typed, NEW o, NEW a \in Latest(o), NEW b \in Latest(o)
    PROVE  a = b
  BY RowTypes DEF Latest, ApprovalsOf

(* The same of the approvals alone. *)
LEMMA SameApprovals ==
    ASSUME approvals' = approvals, NEW o
    PROVE  ApprovalsOf(o)' = ApprovalsOf(o) /\ Latest(o)' = Latest(o) /\ Open(o)' = Open(o)
  BY DEF ApprovalsOf, Latest, Open, IsPending

(* What holds of an order and the only call at work on it, and what the    *)
(* call leaves there when it ends.                                         *)
Here(p, o) == RowInv(o) /\ CallInv(p, o) /\ (~Broken(o) => FlowInv(p, o))
After(p, o) ==
    /\ Here(p, o) /\ (pc[p] \in Settled /\ ~Broken(o) => Agree(o))
    /\ kind[p] = "cancel" /\ pc[p] = "done" => Open(o) = {}

(* The steps that write no row. *)
LEMMA OwnFetch ==
    ASSUME Typed, NEW p \in Ops, NEW k \in {"cancel", "modify"}, NEW o \in DOMAIN orders,
           Fetches(p, k, o), RowInv(o), ~Broken(o) => Agree(o), Broken(o) => Broken(o)'
    PROVE  After(p, o)'
<1>1. orders' = orders /\ approvals' = approvals /\ granted' = granted
  BY DEF Fetches
<1>2. /\ Latest(o)' = Latest(o) /\ Open(o)' = Open(o)
      /\ Agree(o)' = Agree(o) /\ Linked(o)' = Linked(o)
  BY <1>1, SameApprovals, SameOrder
<1>3. /\ held'[p] = orders[o].approval
      /\ \/ kind'[p] = "cancel" /\ pc'[p] = "cancel"
         \/ kind'[p] = "modify" /\ pc'[p] = "find"
  BY DEF Fetches, WorksOn, Goto, Typed, TypeOK
<1>4. RowInv(o)' /\ CallInv(p, o)'
  BY <1>1, <1>2, <1>3 DEF RowInv, CallInv, Granted
<1>5. ~Broken(o)' => FlowInv(p, o)'
  BY <1>2, <1>3 DEF FlowInv
<1>6. QED
  BY <1>3, <1>4, <1>5 DEF After, Here, Settled

(* A decision takes the order's open approval. *)
LEMMA OwnLookToDecide ==
    ASSUME Typed, NEW p \in Ops, NEW a \in DOMAIN approvals, NEW s \in Decisions,
           LooksToDecide(p, a, s), NEW o, o = approvals[a].order,
           RowInv(o), ~Broken(o) => Agree(o), Broken(o) => Broken(o)'
    PROVE  After(p, o)'
<1>1. orders' = orders /\ approvals' = approvals /\ granted' = granted
  BY DEF LooksToDecide
<1>2. /\ Latest(o)' = Latest(o) /\ Open(o)' = Open(o)
      /\ Agree(o)' = Agree(o) /\ Linked(o)' = Linked(o)
  BY <1>1, SameApprovals, SameOrder
<1>3. held'[p] = a /\ pc'[p] = "decide" /\ a \in Open(o)
  BY DEF LooksToDecide, WorksOn, Goto, Typed, TypeOK, Open, ApprovalsOf
<1>4. RowInv(o)' /\ CallInv(p, o)'
  BY <1>1, <1>2, <1>3 DEF RowInv, CallInv, Granted
<1>5. ~Broken(o)' => FlowInv(p, o)'
  BY <1>2, <1>3 DEF FlowInv
<1>6. QED
  BY <1>3, <1>4, <1>5 DEF After, Here, Settled

(* The search finds the latest approval, or there is nothing open. *)
LEMMA OwnSearch ==
    ASSUME Typed, LinkInv, NEW p \in Ops, FindsApproval(p), NEW o, o = order[p],
           o \in DOMAIN orders, Here(p, o), Broken(o) => Broken(o)'
    PROVE  After(p, o)'
<1>1. orders' = orders /\ approvals' = approvals /\ granted' = granted /\ kind' = kind
  BY DEF FindsApproval
<1>2. /\ Latest(o)' = Latest(o) /\ Open(o)' = Open(o)
      /\ Agree(o)' = Agree(o) /\ Linked(o)' = Linked(o)
  BY <1>1, SameApprovals, SameOrder
<1>3. pc[p] = "find" /\ held[p] = orders[o].approval
  BY DEF FindsApproval, Here, CallInv
<1>4. ToWithdraw(p) \subseteq Latest(o)
  BY <1>3 DEF ToWithdraw, Here, RowInv
<1>5. CASE ToWithdraw(p) = {} /\ Goto(p, Withdrawn(p))
  <2>1. held[p] = 0 /\ Open(o) = {}
    BY <1>5 DEF ToWithdraw, Here, RowInv
  <2>2. 0 \notin ApprovalsOf(o)
    BY RowTypes DEF ApprovalsOf
  <2>3. ~Broken(o) => kind[p] # "cancel"
    BY <1>3, <2>1, <2>2 DEF Here, FlowInv, Linked
  <2>4. pc'[p] = (IF kind[p] = "cancel" THEN "done" ELSE "redraft")
    BY <1>5 DEF Goto, Withdrawn, Typed, TypeOK
  <2>5. RowInv(o)' /\ CallInv(p, o)'
    BY <1>1, <1>2, <2>1, <2>4 DEF RowInv, CallInv, Granted, Here
  <2>6. FlowInv(p, o)'
    BY <2>4 DEF FlowInv
  <2>7. QED
    BY <1>2, <2>1, <2>3, <2>4, <2>5, <2>6 DEF After, Here, Settled
<1>6. ASSUME NEW a \in ToWithdraw(p), held' = [held EXCEPT ![p] = a], Goto(p, "look")
      PROVE  After(p, o)'
  <2>1. held'[p] = a /\ pc'[p] = "look"
    BY <1>6 DEF Goto, Typed, TypeOK
  <2>2. RowInv(o)' /\ CallInv(p, o)'
    BY <1>1, <1>2, <1>4, <2>1 DEF RowInv, CallInv, Granted, Here
  <2>3. ~Broken(o)' => FlowInv(p, o)'
    BY <1>1, <1>2, <1>3, <2>1 DEF FlowInv, Here
  <2>4. QED
    BY <2>1, <2>2, <2>3 DEF After, Here, Settled
<1>7. QED
  BY <1>5, <1>6 DEF FindsApproval

(* A cancelled approval leaves nothing to withdraw. *)
LEMMA OwnLook ==
    ASSUME Typed, NEW p \in Ops, LooksAtApproval(p), NEW o, o = order[p],
           o \in DOMAIN orders, Here(p, o), Broken(o) => Broken(o)'
    PROVE  After(p, o)'
<1>1. /\ orders' = orders /\ approvals' = approvals /\ granted' = granted
      /\ kind' = kind /\ held' = held
  BY DEF LooksAtApproval
<1>2. /\ Latest(o)' = Latest(o) /\ Open(o)' = Open(o)
      /\ Agree(o)' = Agree(o) /\ Linked(o)' = Linked(o)
  BY <1>1, SameApprovals, SameOrder
<1>3. pc[p] = "look" /\ held[p] \in Latest(o)
  BY DEF LooksAtApproval, Here, CallInv
<1>4. CASE approvals[held[p]].status = "CANCELLED"
  <2>1. Open(o) = {}
    <3>1. \A a \in Open(o) : a = held[p] /\ IsPending(a)
      BY <1>3, LatestIsOne DEF Here, RowInv, Open
    <3>2. QED
      BY <1>4, <3>1 DEF IsPending
  <2>2. pc'[p] = (IF kind[p] = "cancel" THEN "done" ELSE "redraft")
    BY <1>4 DEF LooksAtApproval, Goto, Withdrawn, Typed, TypeOK
  <2>3. RowInv(o)' /\ CallInv(p, o)'
    BY <1>1, <1>2, <2>1, <2>2 DEF RowInv, CallInv, Granted, Here
  <2>4. FlowInv(p, o)'
    BY <2>2 DEF FlowInv
  <2>5. ASSUME ~Broken(o), kind[p] = "cancel"
        PROVE  Agree(o)
    <3>1. Linked(o) /\ orders[o].status = "CANCELLED"
      BY <1>3, <2>5 DEF Here, FlowInv
    <3>2. orders[o].approval # 0
      BY <3>1, RowTypes DEF Linked, ApprovalsOf
    <3>3. orders[o].approval = held[p]
      BY <1>3, <3>2, LatestIsOne DEF Here, RowInv
    <3>4. QED
      BY <1>4, <3>1, <3>3 DEF Agree, Linked
  <2>6. QED
    BY <1>2, <2>1, <2>2, <2>3, <2>4, <2>5 DEF After, Here, Settled
<1>5. CASE approvals[held[p]].status # "CANCELLED"
  <2>1. pc'[p] = "void"
    BY <1>5 DEF LooksAtApproval, Goto, Typed, TypeOK
  <2>2. RowInv(o)' /\ CallInv(p, o)'
    BY <1>1, <1>2, <1>3, <2>1 DEF RowInv, CallInv, Granted, Here
  <2>3. ~Broken(o)' => FlowInv(p, o)'
    BY <1>1, <1>2, <1>3, <2>1 DEF FlowInv, Here
  <2>4. QED
    BY <2>1, <2>2, <2>3 DEF After, Here, Settled
<1>6. QED
  BY <1>4, <1>5

(* A reread order is filed as it stands; a death marks the order. *)
LEMMA OwnRefresh ==
    ASSUME Typed, NEW p \in Ops, Refreshes(p) \/ Dies(p), NEW o, o = order[p],
           o \in DOMAIN orders, Here(p, o), Broken(o) => Broken(o)'
    PROVE  After(p, o)'
<1>1. /\ orders' = orders /\ approvals' = approvals /\ granted' = granted
      /\ kind' = kind /\ held' = held
  BY DEF Refreshes, Dies
<1>2. /\ Latest(o)' = Latest(o) /\ Open(o)' = Open(o)
      /\ Agree(o)' = Agree(o) /\ Linked(o)' = Linked(o)
  BY <1>1, SameApprovals, SameOrder
<1>3. CASE Refreshes(p)
  <2>1. pc'[p] = "file" /\ pc[p] = "refresh" /\ form'[p] = orders[o].trip
    BY <1>3 DEF Refreshes, Goto, Typed, TypeOK
  <2>2. RowInv(o)' /\ CallInv(p, o)'
    BY <1>1, <1>2, <2>1 DEF RowInv, CallInv, Granted, Here
  <2>3. FlowInv(p, o)'
    BY <2>1 DEF FlowInv
  <2>4. QED
    BY <2>1, <2>2, <2>3 DEF After, Here, Settled
<1>4. CASE Dies(p)
  <2>1. pc'[p] = "lost" /\ order'[p] = o
    BY <1>4 DEF Dies, Goto, Typed, TypeOK
  <2>2. RowInv(o)' /\ CallInv(p, o)' /\ Broken(o)'
    BY <1>1, <1>2, <2>1 DEF RowInv, CallInv, Granted, Here, Broken
  <2>3. QED
    BY <2>1, <2>2 DEF After, Here
<1>5. QED
  BY <1>3, <1>4


(* The steps that write a row. *)
LEMMA OwnSubmit ==
    ASSUME Typed, NEW p \in Ops, NEW t \in Trips, Submits(p, t), NEW o, o = order'[p]
    PROVE  After(p, o)'
<1>1. /\ o = Len(orders) + 1 /\ o \notin DOMAIN orders /\ approvals' = approvals
      /\ orders'[o] = [status |-> "DRAFT", approval |-> 0, trip |-> t]
  BY OrderAdded
<1>2. orders'[o].status = "DRAFT" /\ orders'[o].approval = 0 /\ orders'[o].trip = t
  BY <1>1
<1>3. ApprovalsOf(o) = {}
  BY <1>1, RowTypes DEF ApprovalsOf
<1>4. Open(o)' = {}
  BY <1>1, <1>3, SameApprovals DEF Open
<1>5. pc'[p] = "file" /\ form'[p] = t
  BY DEF Submits, Goto, Typed, TypeOK
<1>6. RowInv(o)' /\ CallInv(p, o)'
  BY <1>2, <1>4, <1>5 DEF RowInv, CallInv
<1>7. FlowInv(p, o)'
  BY <1>5 DEF FlowInv
<1>8. QED
  BY <1>5, <1>6, <1>7 DEF After, Here, Settled

(* The approval filed is the only open one. *)
LEMMA OwnFile ==
    ASSUME Typed, NEW p \in Ops, Files(p), NEW o, o = order[p], o \in DOMAIN orders, Here(p, o)
    PROVE  After(p, o)'
<1> DEFINE n == Len(approvals) + 1
<1>1. /\ DOMAIN approvals' = DOMAIN approvals \cup {n} /\ orders' = orders
      /\ \A a \in DOMAIN approvals : approvals'[a] = approvals[a] /\ a < n
      /\ held'[p] = n /\ n \in Nat
      /\ approvals'[n] = [order |-> order[p], status |-> "PENDING", trip |-> form[p]]
  <2>1. n \in Nat
    BY RowTypes
  <2>2. QED
    BY <2>1, ApprovalAdded
<1> HIDE DEF n
<1>2. /\ approvals'[n].order = o /\ approvals'[n].status = "PENDING"
      /\ approvals'[n].trip = orders[o].trip
  BY <1>1 DEF Files, Here, CallInv
<1>3. orders[o].approval = 0 /\ Open(o) = {}
  BY DEF Files, Here, CallInv
<1>4. ApprovalsOf(o)' = ApprovalsOf(o) \cup {n}
  BY <1>1, <1>2 DEF ApprovalsOf
<1>5. Open(o)' = {n}
  BY <1>1, <1>2, <1>3, <1>4 DEF Open, IsPending, ApprovalsOf
<1>6. n \in Latest(o)'
  BY <1>1, <1>4, RowTypes DEF Latest, ApprovalsOf
<1>7. pc'[p] = "promote" /\ granted' = granted
  BY DEF Files, Goto, Typed, TypeOK
<1>8. RowInv(o)'
  BY <1>1, <1>2, <1>3, <1>5, <1>6, <1>7 DEF RowInv, Granted, Here
<1>9. CallInv(p, o)' /\ FlowInv(p, o)'
  BY <1>1, <1>3, <1>5, <1>7 DEF CallInv, FlowInv
<1>10. QED
  BY <1>7, <1>8, <1>9 DEF After, Here, Settled

(* A promoted order agrees with its approval. *)
LEMMA OwnPromote ==
    ASSUME Typed, KindInv, NEW p \in Ops, Promotes(p), NEW o, o = order[p],
           o \in DOMAIN orders, Here(p, o)
    PROVE  After(p, o)'
<1>1. /\ approvals' = approvals /\ orders'[o].status = "SUBMITTED"
      /\ orders'[o].approval = held[p] /\ orders'[o].trip = orders[o].trip
  BY OrderWritten DEF Promotes, Settled
<1>2. Latest(o)' = Latest(o) /\ Open(o)' = Open(o) /\ ApprovalsOf(o)' = ApprovalsOf(o)
  BY <1>1, SameApprovals
<1>3. held[p] \in Open(o)
  BY DEF Promotes, Here, CallInv
<1>4. pc'[p] = "done"
  BY DEF Promotes, Goto, Typed, TypeOK
<1>5. RowInv(o)'
  BY <1>1, <1>2, <1>3 DEF RowInv, Here
<1>6. CallInv(p, o)' /\ FlowInv(p, o)'
  BY <1>4 DEF CallInv, FlowInv
<1>7. held[p] \in ApprovalsOf(o) /\ IsPending(held[p]) /\ approvals[held[p]].trip = orders[o].trip
  BY <1>3 DEF Open, Here, RowInv
<1>8. Agree(o)'
  BY <1>1, <1>2, <1>7 DEF Agree, IsPending
<1>9. kind'[p] # "cancel"
  BY DEF Promotes, KindInv
<1>10. QED
  BY <1>5, <1>6, <1>8, <1>9 DEF After, Here

(* A cancelled order keeps its approval for the search. *)
LEMMA OwnCancel ==
    ASSUME Typed, NEW p \in Ops, Cancels(p), NEW o, o = order[p], o \in DOMAIN orders,
           Here(p, o), Broken(o) => Broken(o)'
    PROVE  After(p, o)'
<1>1. /\ approvals' = approvals /\ orders'[o].status = "CANCELLED"
      /\ orders'[o].approval = orders[o].approval /\ orders'[o].trip = orders[o].trip
  BY OrderWritten DEF Cancels, Settled
<1>2. Latest(o)' = Latest(o) /\ Open(o)' = Open(o) /\ ApprovalsOf(o)' = ApprovalsOf(o)
  BY <1>1, SameApprovals
<1>3. pc'[p] = "find" /\ held'[p] = held[p] /\ pc[p] = "cancel"
  BY DEF Cancels, Goto, Typed, TypeOK
<1>4. RowInv(o)' /\ CallInv(p, o)'
  BY <1>1, <1>2, <1>3 DEF RowInv, CallInv, Here
<1>5. ~Broken(o)' => Linked(o)'
  BY <1>1, <1>2, <1>3 DEF Here, FlowInv, Agree, Linked
<1>6. ~Broken(o)' => FlowInv(p, o)'
  BY <1>1, <1>3, <1>5 DEF FlowInv
<1>7. QED
  BY <1>3, <1>4, <1>6 DEF After, Here, Settled

(* A redrafted order has lost its approval, which is withdrawn. *)
LEMMA OwnRedraft ==
    ASSUME Typed, NEW p \in Ops, NEW t \in Trips, Redrafts(p, t), NEW o, o = order[p],
           o \in DOMAIN orders, Here(p, o)
    PROVE  After(p, o)'
<1>1. approvals' = approvals /\ orders'[o].status = "DRAFT" /\ orders'[o].approval = 0
  BY OrderWritten DEF Redrafts, Settled
<1>2. Open(o)' = {}
  BY <1>1, SameApprovals DEF Redrafts, Here, CallInv
<1>3. pc'[p] = "refresh"
  BY DEF Redrafts, Goto, Typed, TypeOK
<1>4. RowInv(o)' /\ CallInv(p, o)' /\ FlowInv(p, o)'
  BY <1>1, <1>2, <1>3 DEF RowInv, CallInv, FlowInv
<1>5. QED
  BY <1>3, <1>4 DEF After, Here, Settled

(* An order takes the decision of its approval. *)
LEMMA OwnSync ==
    ASSUME Typed, KindInv, NEW p \in Ops, SyncsOrder(p), NEW o, o = order[p], o \in DOMAIN orders,
           Here(p, o), Broken(o) => Broken(o)'
    PROVE  After(p, o)'
<1>1. /\ approvals' = approvals /\ orders'[o].status = form[p]
      /\ orders'[o].approval = orders[o].approval /\ orders'[o].trip = orders[o].trip
  BY OrderWritten DEF SyncsOrder, Settled
<1>2. Latest(o)' = Latest(o) /\ Open(o)' = Open(o) /\ ApprovalsOf(o)' = ApprovalsOf(o)
  BY <1>1, SameApprovals
<1>3. pc'[p] = "done" /\ pc[p] = "sync" /\ granted' = granted /\ form[p] \in Decisions
  BY DEF SyncsOrder, Goto, Typed, TypeOK, PlaceInv
<1>4. RowInv(o)'
  BY <1>1, <1>2, <1>3 DEF RowInv, CallInv, Granted, Here
<1>5. CallInv(p, o)' /\ FlowInv(p, o)'
  BY <1>3 DEF CallInv, FlowInv
<1>6. ~Broken(o)' => Agree(o)'
  BY <1>1, <1>2, <1>3 DEF Here, FlowInv, Linked, Agree, Decisions
<1>7. kind'[p] # "cancel"
  BY DEF SyncsOrder, KindInv
<1>8. QED
  BY <1>4, <1>5, <1>6, <1>7 DEF After, Here

(* What writing to the one open approval leaves open. *)
LEMMA ClosesTheOpen ==
    ASSUME Typed, NEW p \in Ops, VoidsApproval(p) \/ Decides(p), NEW o, RowInv(o),
           held[p] \in Latest(o), approvals'[held[p]].status # "PENDING"
    PROVE  Latest(o)' = Latest(o) /\ ApprovalsOf(o)' = ApprovalsOf(o) /\ Open(o)' = {}
<1>1. /\ DOMAIN approvals' = DOMAIN approvals
      /\ \A a \in DOMAIN approvals \ {held[p]} : approvals'[a] = approvals[a]
      /\ \A a \in DOMAIN approvals : approvals'[a].order = approvals[a].order
  BY ApprovalWritten
<1>2. ApprovalsOf(o)' = ApprovalsOf(o)
  BY <1>1 DEF ApprovalsOf
<1>3. Latest(o)' = Latest(o)
  BY <1>2 DEF Latest
<1>4. ASSUME NEW a \in ApprovalsOf(o), approvals'[a].status = "PENDING"
      PROVE  FALSE
  <2>1. a # held[p] /\ a \in Open(o)
    BY <1>1, <1>4 DEF Open, IsPending, ApprovalsOf
  <2>2. QED
    BY <2>1, LatestIsOne DEF RowInv
<1>5. QED
  BY <1>2, <1>3, <1>4 DEF Open, IsPending

(* Withdrawing the open approval leaves none open. *)
LEMMA OwnVoid ==
    ASSUME Typed, NEW p \in Ops, VoidsApproval(p), NEW o, o = order[p], o \in DOMAIN orders,
           Here(p, o), Broken(o) => Broken(o)'
    PROVE  After(p, o)'
<1>1. /\ orders' = orders /\ approvals'[held[p]].status = "CANCELLED" /\ granted' = granted
      /\ \A a \in DOMAIN approvals : approvals'[a].trip = approvals[a].trip
  BY ApprovalWritten DEF VoidsApproval
<1>2. held[p] \in Latest(o) /\ RowInv(o) /\ pc[p] = "void"
  BY DEF VoidsApproval, Here, CallInv
<1>3. Latest(o)' = Latest(o) /\ ApprovalsOf(o)' = ApprovalsOf(o) /\ Open(o)' = {}
  BY <1>1, <1>2, ClosesTheOpen
<1>4. pc'[p] = (IF kind[p] = "cancel" THEN "done" ELSE "redraft")
  BY DEF VoidsApproval, Goto, Withdrawn, Typed, TypeOK
<1>5. RowInv(o)' /\ CallInv(p, o)' /\ FlowInv(p, o)'
  BY <1>1, <1>2, <1>3, <1>4 DEF RowInv, CallInv, FlowInv, Granted
<1>6. ASSUME ~Broken(o), kind[p] = "cancel"
      PROVE  Agree(o)'
  <2>1. Linked(o) /\ orders[o].status = "CANCELLED"
    BY <1>2, <1>6 DEF Here, FlowInv
  <2>2. orders[o].approval # 0 /\ orders[o].approval \in DOMAIN approvals
    BY <2>1, RowTypes DEF Linked, ApprovalsOf
  <2>3. orders[o].approval = held[p]
    BY <1>2, <2>2, LatestIsOne DEF RowInv
  <2>4. QED
    BY <1>1, <1>3, <2>1, <2>2, <2>3 DEF Agree, Linked
<1>7. QED
  BY <1>3, <1>4, <1>5, <1>6 DEF After, Here, Settled

(* Deciding the open approval leaves none open. *)
LEMMA OwnDecide ==
    ASSUME Typed, NEW p \in Ops, Decides(p), NEW o, o = order[p], o \in DOMAIN orders,
           Here(p, o), Broken(o) => Broken(o)'
    PROVE  After(p, o)'
<1>1. /\ orders' = orders /\ approvals'[held[p]].status = form[p]
      /\ \A a \in DOMAIN approvals : approvals'[a].trip = approvals[a].trip
      /\ held[p] \in DOMAIN approvals
  BY ApprovalWritten
<1>2. held[p] \in Open(o) /\ RowInv(o) /\ pc[p] = "decide" /\ form[p] \in Decisions
  BY DEF Decides, Here, CallInv, Typed, PlaceInv
<1>3. held[p] \in Latest(o) /\ approvals[held[p]].trip = orders[o].trip
  BY <1>2 DEF RowInv
<1>4. Latest(o)' = Latest(o) /\ ApprovalsOf(o)' = ApprovalsOf(o) /\ Open(o)' = {}
  BY <1>1, <1>2, <1>3, ClosesTheOpen DEF Decisions
<1>5. pc'[p] = "sync" /\ held' = held /\ form' = form /\ granted \subseteq granted'
  BY DEF Decides, Goto, Typed, TypeOK
<1>6. form[p] = "APPROVED" => [order |-> o, trip |-> orders[o].trip] \in granted'
  BY <1>3 DEF Decides
<1>7. RowInv(o)'
  BY <1>1, <1>2, <1>4, <1>5 DEF RowInv, Granted
<1>8. CallInv(p, o)'
  BY <1>1, <1>5, <1>6 DEF CallInv, Granted
<1>9. ASSUME ~Broken(o)
      PROVE  FlowInv(p, o)'
  <2>1. Agree(o)
    BY <1>2, <1>9 DEF Here, FlowInv
  <2>2. orders[o].approval \in ApprovalsOf(o) /\ approvals[orders[o].approval].trip = orders[o].trip
    BY <2>1 DEF Agree
  <2>3. orders[o].approval # 0 /\ orders[o].approval \in DOMAIN approvals
    BY <2>2, RowTypes DEF ApprovalsOf
  <2>4. orders[o].approval = held[p]
    BY <1>2, <1>3, <2>3, LatestIsOne DEF RowInv
  <2>5. Linked(o)'
    BY <1>1, <1>4, <2>2, <2>3 DEF Linked
  <2>6. QED
    BY <1>1, <1>5, <2>4, <2>5 DEF FlowInv
<1>10. QED
  BY <1>5, <1>7, <1>8, <1>9 DEF After, Here, Settled
-----------------------------------------------------------------------------
(* A call leaves its order as After says, if no call overlapped it there.  *)
LEMMA OwnOrder ==
    ASSUME Typed, LinkInv, AloneInv, KindInv, CalmInv, RestInv,
           NEW p \in Ops, Step(p), NEW o \in DOMAIN orders', o = order'[p], o \notin mixed'
    PROVE  After(p, o)'
<1>1. o \notin mixed /\ (Starts(p) => ~AtWork(o))
  BY AloneThere
<1>2. Broken(o) => Broken(o)'
  BY StillBroken
<1>3. ASSUME NEW t \in Trips, Submits(p, t)
      PROVE  After(p, o)'
  BY <1>3, OwnSubmit
<1>4. ASSUME o \in DOMAIN orders
      PROVE  RowInv(o) /\ (Starts(p) /\ ~Broken(o) => Agree(o))
  BY <1>1, <1>4 DEF CalmInv, RestInv, Calm
<1>5. ASSUME NEW k \in {"cancel", "modify"}, NEW i \in DOMAIN orders, Fetches(p, k, i)
      PROVE  After(p, o)'
  <2>1. o = i
    BY <1>5 DEF Fetches, WorksOn, Typed, TypeOK
  <2>2. Starts(p)
    BY <1>5 DEF Starts
  <2>3. QED
    BY <1>2, <1>4, <1>5, <2>1, <2>2, OwnFetch
<1>6. ASSUME NEW a \in DOMAIN approvals, NEW s \in Decisions, LooksToDecide(p, a, s)
      PROVE  After(p, o)'
  <2>1. o = approvals[a].order /\ o \in DOMAIN orders
    BY <1>6, RowTypes DEF LooksToDecide, WorksOn, Typed, TypeOK
  <2>2. Starts(p)
    BY <1>6 DEF Starts
  <2>3. QED
    BY <1>2, <1>4, <1>6, <2>1, <2>2, OwnLookToDecide
<1>7. ASSUME ~Starts(p)
      PROVE  o = order[p] /\ o \in DOMAIN orders /\ Here(p, o)
  <2>1. order' = order /\ pc[p] # "idle"
    BY <1>7, CallChanges DEF Settled
  <2>2. o = order[p] /\ o \in DOMAIN orders
    BY <2>1 DEF Typed, PlaceInv
  <2>3. QED
    BY <1>1, <2>2 DEF CalmInv, RestInv, Calm, Here
<1>8. CASE Starts(p)
  BY <1>3, <1>5, <1>6, <1>8 DEF Starts
<1>9. CASE ~Starts(p)
  <2>1. CASE FindsApproval(p)
    BY <1>2, <1>7, <1>9, <2>1, OwnSearch
  <2>2. CASE LooksAtApproval(p)
    BY <1>2, <1>7, <1>9, <2>2, OwnLook
  <2>3. CASE Refreshes(p) \/ Dies(p)
    BY <1>2, <1>7, <1>9, <2>3, OwnRefresh
  <2>4. CASE Files(p)
    BY <1>7, <1>9, <2>4, OwnFile
  <2>5. CASE Promotes(p)
    BY <1>7, <1>9, <2>5, OwnPromote
  <2>6. CASE Cancels(p)
    BY <1>2, <1>7, <1>9, <2>6, OwnCancel
  <2>7. CASE \E t \in Trips : Redrafts(p, t)
    BY <1>7, <1>9, <2>7, OwnRedraft
  <2>8. CASE SyncsOrder(p)
    BY <1>2, <1>7, <1>9, <2>8, OwnSync
  <2>9. CASE VoidsApproval(p)
    BY <1>2, <1>7, <1>9, <2>9, OwnVoid
  <2>10. CASE Decides(p)
    BY <1>2, <1>7, <1>9, <2>10, OwnDecide
  <2>11. QED
    BY <1>9, <2>1, <2>2, <2>3, <2>4, <2>5, <2>6, <2>7, <2>8, <2>9, <2>10 DEF Step, Goes
<1>10. QED
  BY <1>8, <1>9

(* The orders a call can change are those there were and the one it adds. *)
LEMMA OrdersThere ==
    ASSUME Typed, NEW p \in Ops, Step(p), NEW o \in DOMAIN orders', o # order'[p]
    PROVE  o \in DOMAIN orders
<1>1. ASSUME NEW t \in Trips, Submits(p, t)
      PROVE  o \in DOMAIN orders
  BY <1>1, OrderAdded
<1>2. CASE Promotes(p) \/ Cancels(p) \/ SyncsOrder(p) \/ \E t \in Trips : Redrafts(p, t)
  <2>1. pc[p] \notin Settled
    BY <1>2 DEF Promotes, Cancels, SyncsOrder, Redrafts, Settled
  <2>2. QED
    BY <1>2, <2>1, OrderWritten
<1>3. CASE orders' = orders
  BY <1>3
<1>4. QED
  BY <1>1, <1>2, <1>3 DEF Step, Starts, Goes, Dies, Fetches, LooksToDecide, Files, FindsApproval,
     LooksAtApproval, VoidsApproval, Refreshes, Decides

(* Every order stays as CalmInv and RestInv say. *)
LEMMA CalmStep ==
    ASSUME Typed, LinkInv, AloneInv, KindInv, CalmInv, RestInv, [Next]_vars
    PROVE  CalmInv' /\ RestInv'
<1>1. CASE UNCHANGED vars
  <2>1. UNCHANGED <<orders, approvals, pc, kind, order, held, form, mixed, granted>>
    BY <1>1 DEF vars, calls
  <2>2. CalmInv'
    BY <2>1 DEF CalmInv, Calm, RowInv, CallInv, Open, Latest, ApprovalsOf, IsPending, Granted
  <2>3. RestInv'
    BY <2>1 DEF RestInv, Calm, Broken, AtWork, Agree, FlowInv, Linked, ApprovalsOf
  <2>4. QED
    BY <2>2, <2>3
<1>2. ASSUME NEW p \in Ops, Step(p), NEW o \in DOMAIN orders', o \notin mixed'
      PROVE  /\ RowInv(o)' /\ \A q \in Ops : order'[q] = o => CallInv(q, o)'
             /\ ~Broken(o)' => /\ ~AtWork(o)' => Agree(o)'
                               /\ \A q \in Ops : order'[q] = o => FlowInv(q, o)'
  <2>1. CASE o = order'[p]
    <3>1. After(p, o)'
      BY <1>2, <2>1, OwnOrder
    <3>2. \A q \in Ops \ {p} : order'[q] = o => pc'[q] \in Settled
      BY <1>2, <2>1, AloneThere, CallChanges
    <3>3. \A q \in Ops \ {p} : order'[q] = o => CallInv(q, o)' /\ FlowInv(q, o)'
      BY <3>2 DEF CallInv, FlowInv, Settled
    <3>4. ~AtWork(o)' => pc'[p] \in Settled
      BY <2>1 DEF AtWork
    <3>5. QED
      BY <3>1, <3>3, <3>4 DEF After, Here
  <2>2. CASE o # order'[p]
    <3>1. o \in DOMAIN orders /\ o \notin mixed
      BY <1>2, <2>2, OrdersThere, CallChanges
    <3>2. /\ orders'[o] = orders[o] /\ ApprovalsOf(o)' = ApprovalsOf(o)
          /\ \A a \in ApprovalsOf(o) : approvals'[a] = approvals[a]
      BY <1>2, <2>2, <3>1, OfOthers
    <3>3. /\ Latest(o)' = Latest(o) /\ Open(o)' = Open(o)
          /\ Agree(o)' = Agree(o) /\ Linked(o)' = Linked(o)
      BY <3>2, SameOrder
    <3>4. granted \subseteq granted'
      BY <1>2, CallChanges
    <3>5. RowInv(o) /\ \A q \in Ops : order[q] = o => CallInv(q, o)
      BY <3>1 DEF CalmInv, Calm
    <3>6. \A a \in Open(o) \cup Latest(o) : approvals'[a] = approvals[a]
      BY <3>2 DEF Open, Latest
    <3>7. RowInv(o)'
      BY <3>2, <3>3, <3>4, <3>5, <3>6 DEF RowInv, Granted
    <3>8. \A q \in Ops : order'[q] = o =>
             /\ q # p /\ order[q] = o /\ pc'[q] = pc[q] /\ kind'[q] = kind[q]
             /\ held'[q] = held[q] /\ form'[q] = form[q]
      BY <1>2, <2>2, CallChanges
    <3>9. \A q \in Ops : order'[q] = o => CallInv(q, o)'
      BY <3>2, <3>3, <3>4, <3>5, <3>8 DEF CallInv, Granted
    <3>10. Broken(o) => Broken(o)'
      BY <1>2, StillBroken
    <3>11. AtWork(o) => AtWork(o)'
      <4>1. ASSUME NEW q \in Ops, pc[q] \notin Settled, order[q] = o
            PROVE  pc'[q] \notin Settled /\ order'[q] = o
        <5>1. q # p
          BY <1>2, <2>2, <4>1, CallChanges DEF Settled
        <5>2. QED
          BY <1>2, <4>1, <5>1, CallChanges
      <4>2. QED
        BY <4>1 DEF AtWork
    <3>12. ASSUME ~Broken(o)', ~AtWork(o)'
           PROVE  Agree(o)'
      BY <3>1, <3>3, <3>10, <3>11, <3>12 DEF RestInv, Calm
    <3>13. ASSUME ~Broken(o)', NEW q \in Ops, order'[q] = o
           PROVE  FlowInv(q, o)'
      <4>1. FlowInv(q, o)
        BY <3>1, <3>8, <3>10, <3>13 DEF RestInv, Calm
      <4>2. pc[q] = "sync" => held[q] \in ApprovalsOf(o)
        BY <4>1 DEF FlowInv, Linked
      <4>3. QED
        BY <3>2, <3>3, <3>8, <3>13, <4>1, <4>2 DEF FlowInv
    <3>14. QED
      BY <3>7, <3>9, <3>12, <3>13
  <2>3. QED
    BY <2>1, <2>2
<1>3. ASSUME NEW p \in Ops, Step(p)
      PROVE  CalmInv' /\ RestInv'
  <2>1. CalmInv'
    BY <1>2, <1>3 DEF CalmInv, Calm
  <2>2. RestInv'
    BY <1>2, <1>3 DEF RestInv, Calm
  <2>3. QED
    BY <2>1, <2>2
<1>4. QED
  BY <1>1, <1>3 DEF Next, Step

(* A cancellation never files or decides. *)
LEMMA KindStep ==
    ASSUME Typed, KindInv, [Next]_vars
    PROVE  KindInv'
<1> USE DEF Typed, TypeOK, Goto, KindInv
<1>1. CASE UNCHANGED vars
  BY <1>1 DEF vars, calls
<1>2. ASSUME NEW p \in Ops, Starts(p)
      PROVE  KindInv'
  <2>1. ASSUME NEW t \in Trips, Submits(p, t) PROVE KindInv'
    BY <2>1 DEF Submits, WorksOn
  <2>2. ASSUME NEW k \in {"cancel", "modify"}, NEW o \in DOMAIN orders, Fetches(p, k, o)
        PROVE  KindInv'
    BY <2>2 DEF Fetches, WorksOn
  <2>3. ASSUME NEW a \in DOMAIN approvals, NEW s \in Decisions, LooksToDecide(p, a, s)
        PROVE  KindInv'
    BY <2>3 DEF LooksToDecide, WorksOn
  <2>4. QED
    BY <1>2, <2>1, <2>2, <2>3 DEF Starts
<1>3. ASSUME NEW p \in Ops, Goes(p)
      PROVE  KindInv'
  <2>1. CASE Files(p) \/ Promotes(p) \/ Cancels(p) \/ SyncsOrder(p) \/ Refreshes(p) \/ Decides(p)
    BY <2>1 DEF Files, Promotes, Cancels, SyncsOrder, Refreshes, Decides
  <2>2. CASE FindsApproval(p) \/ LooksAtApproval(p) \/ VoidsApproval(p)
    BY <2>2 DEF FindsApproval, LooksAtApproval, VoidsApproval, Withdrawn
  <2>3. CASE \E t \in Trips : Redrafts(p, t)
    BY <2>3 DEF Redrafts
  <2>4. QED
    BY <1>3, <2>1, <2>2, <2>3 DEF Goes
<1>4. ASSUME NEW p \in Ops, Dies(p)
      PROVE  KindInv'
  BY <1>4 DEF Dies
<1>5. QED
  BY <1>1, <1>2, <1>3, <1>4 DEF Next

(* A calm order that is cancelled stays so until it is redrafted. *)
LEMMA StayStep ==
    ASSUME Typed, LinkInv, AloneInv, KindInv, CalmInv, RestInv, StayInv, [Next]_vars
    PROVE  StayInv'
<1>1. CASE UNCHANGED vars
  <2>1. UNCHANGED <<orders, approvals, pc, kind, order, mixed>>
    BY <1>1 DEF vars, calls
  <2>2. \A o : /\ Cancelling(o)' = Cancelling(o) /\ Calm(o)' = Calm(o)
              /\ Withheld(o)' = Withheld(o)
    BY <2>1, SameApprovals DEF Cancelling, Withheld, Calm
  <2>3. QED
    BY <2>1, <2>2 DEF StayInv
<1>2. ASSUME NEW p \in Ops, Step(p), NEW o \in DOMAIN orders', o \notin mixed',
             orders'[o].status = "CANCELLED"
      PROVE  Cancelling(o)' \/ Withheld(o)'
  <2>1. CASE o # order'[p]
    <3>1. o \in DOMAIN orders /\ o \notin mixed
      BY <1>2, <2>1, OrdersThere, CallChanges
    <3>2. orders'[o] = orders[o] /\ Open(o)' = Open(o)
      BY <1>2, <2>1, <3>1, OfOthers, SameOrder
    <3>3. \A q \in Ops : order'[q] = o => q # p /\ order[q] = o /\ pc'[q] = pc[q]
      BY <1>2, <2>1, CallChanges
    <3>4. \A q \in Ops : pc[q] # "idle" /\ order[q] = o => q # p
      BY <1>2, <2>1, CallChanges DEF Settled
    <3>5. Cancelling(o) => Cancelling(o)'
      BY <1>2, <3>4, CallChanges DEF Cancelling
    <3>6. Withheld(o) => Withheld(o)'
      BY <3>2, <3>3 DEF Withheld
    <3>7. QED
      BY <1>2, <3>1, <3>2, <3>5, <3>6 DEF StayInv, Calm
  <2>2. CASE o = order'[p]
    <3>1. After(p, o)' /\ o \notin mixed
      BY <1>2, <2>2, OwnOrder, AloneThere
    <3>2. \A q \in Ops \ {p} : order[q] = o =>
             /\ pc[q] \in Settled /\ pc'[q] = pc[q] /\ order'[q] = o /\ kind'[q] = kind[q]
      BY <1>2, <2>2, AloneThere, CallChanges
    <3>3. \A q \in Ops \ {p} : order'[q] = o => pc'[q] \in Settled
      BY <1>2, <2>2, AloneThere, CallChanges
    <3>4. ASSUME NEW q \in Ops \ {p}, order[q] = o, kind[q] = "cancel", pc[q] = "lost"
          PROVE  Cancelling(o)'
      BY <3>2, <3>4 DEF Cancelling
    <3>5. ASSUME Open(o)' = {}, pc'[p] \notin {"refresh", "file", "sync"}
          PROVE  Withheld(o)'
      BY <3>3, <3>5 DEF Withheld, Settled
    <3>6. CASE Starts(p)
      <4>1. pc[p] = "idle" /\ approvals' = approvals
        BY <1>2, <3>6, CallChanges DEF Starts, Submits, Fetches, LooksToDecide
      <4>2. ~\E t \in Trips : Submits(p, t)
        <5>1. ASSUME NEW t \in Trips, Submits(p, t) PROVE FALSE
          <6>1. orders'[o] = [status |-> "DRAFT", approval |-> 0, trip |-> t]
            BY <2>2, <5>1, OrderAdded
          <6>2. QED
            BY <1>2, <6>1
        <5>2. QED
          BY <5>1
      <4>3. orders' = orders
        BY <3>6, <4>2 DEF Starts, Fetches, LooksToDecide
      <4>4. Cancelling(o) \/ Withheld(o)
        BY <1>2, <3>1, <4>3 DEF StayInv, Calm
      <4>5. Cancelling(o) => Cancelling(o)'
        BY <3>2, <3>4, <4>1 DEF Cancelling, Settled
      <4>6. ASSUME Withheld(o) PROVE Withheld(o)'
        <5>1. Open(o)' = {}
          BY <4>1, <4>6, SameApprovals DEF Withheld
        <5>2. pc'[p] \in {"cancel", "find", "decide"}
          BY <3>6, <4>2 DEF Starts, Fetches, LooksToDecide, WorksOn, Goto, Typed, TypeOK
        <5>3. QED
          BY <3>5, <5>1, <5>2
      <4>7. QED
        BY <4>4, <4>5, <4>6
    <3>7. CASE ~Starts(p)
      <4>1. /\ order' = order /\ kind' = kind /\ pc[p] \notin Settled /\ order[p] = o
            /\ (Goes(p) \/ Dies(p))
        BY <1>2, <2>2, <3>7, CallChanges DEF Step
      <4>2. o \in DOMAIN orders /\ CallInv(p, o)
        BY <3>1, <4>1 DEF Typed, PlaceInv, CalmInv, Calm, Settled
      <4>3. CASE Cancels(p)
        BY <4>1, <4>3 DEF Cancels, Cancelling, Goto, KindInv, Typed, TypeOK
      <4>4. ~Promotes(p) /\ ~SyncsOrder(p) /\ ~\E t \in Trips : Redrafts(p, t)
        <5>1. SyncsOrder(p) => form[p] \in Decisions
          BY DEF SyncsOrder, Typed, PlaceInv
        <5>2. QED
          BY <1>2, <4>1, <5>1, OrderWritten DEF Decisions
      <4>5. CASE ~Cancels(p)
        <5>1. orders' = orders
          BY <4>1, <4>4, <4>5 DEF Goes, Files, FindsApproval, LooksAtApproval, VoidsApproval,
             Refreshes, Decides, Dies
        <5>2. Cancelling(o) \/ Withheld(o)
          BY <1>2, <3>1, <5>1 DEF StayInv, Calm
        <5>3. ASSUME Withheld(o), ~Cancelling(o)' PROVE Withheld(o)'
          <6>1. /\ Open(o) = {} /\ pc[p] \notin {"refresh", "file", "sync", "decide", "promote"}
            BY <4>1, <4>2, <5>3 DEF Withheld, CallInv
          <6>2. FindsApproval(p) \/ LooksAtApproval(p) \/ VoidsApproval(p) \/ Dies(p)
            BY <4>1, <4>4, <4>5, <6>1 DEF Goes, Files, Refreshes, Decides
          <6>3. pc'[p] \in {"look", "void", "redraft", "done", "lost"}
            BY <6>2 DEF FindsApproval, LooksAtApproval, VoidsApproval, Dies, Withdrawn, Goto,
               Typed, TypeOK
          <6>4. CASE approvals' = approvals
            BY <3>5, <6>1, <6>3, <6>4, SameApprovals
          <6>5. CASE VoidsApproval(p)
            <7>1. /\ DOMAIN approvals' = DOMAIN approvals
                  /\ \A a \in DOMAIN approvals : approvals'[a].order = approvals[a].order
                  /\ \A a \in DOMAIN approvals :
                       approvals'[a] = approvals[a] \/ approvals'[a].status = "CANCELLED"
              BY <6>5, ApprovalWritten
            <7>2. Open(o)' \subseteq Open(o)
              BY <7>1 DEF Open, ApprovalsOf, IsPending
            <7>3. QED
              BY <3>5, <6>1, <6>3, <7>2
          <6>6. QED
            BY <6>2, <6>4, <6>5 DEF FindsApproval, LooksAtApproval, Dies
        <5>4. ASSUME Cancelling(o), ~Cancelling(o)' PROVE Withheld(o)'
          <6>1. /\ kind[p] = "cancel" /\ pc[p] \in {"find", "look", "void"}
            BY <3>2, <3>4, <4>1, <5>4 DEF Cancelling, Settled
          <6>2. FindsApproval(p) \/ LooksAtApproval(p) \/ VoidsApproval(p) \/ Dies(p)
            BY <4>1, <4>4, <4>5, <6>1 DEF Goes, Files, Refreshes, Decides
          <6>3. pc'[p] \in {"look", "void", "done", "lost"}
            BY <6>1, <6>2 DEF FindsApproval, LooksAtApproval, VoidsApproval, Dies, Withdrawn,
               Goto, Typed, TypeOK
          <6>4. pc'[p] = "done"
            BY <4>1, <5>4, <6>1, <6>3 DEF Cancelling
          <6>5. Open(o)' = {}
            BY <3>1, <4>1, <6>1, <6>4 DEF After
          <6>6. QED
            BY <3>5, <6>4, <6>5
        <5>5. QED
          BY <5>2, <5>3, <5>4
      <4>6. QED
        BY <4>3, <4>5
    <3>8. QED
      BY <3>6, <3>7
  <2>3. QED
    BY <2>1, <2>2
<1>3. ASSUME NEW p \in Ops, Step(p) PROVE StayInv'
  BY <1>2, <1>3 DEF StayInv, Calm
<1>4. QED
  BY <1>1, <1>3 DEF Next, Step

-----------------------------------------------------------------------------
(* The initial states. *)
LEMMA InitInv == Init => Inv
<1> SUFFICES ASSUME Init PROVE Inv
  OBVIOUS
<1>1. TypeOK /\ PlaceInv
  <2>1. CASE orders = <<>> /\ approvals = <<>>
    BY <2>1 DEF Init, TypeOK, PlaceInv, Settled
  <2>2. ASSUME NEW t \in Trips,
               orders = <<[status |-> "SUBMITTED", approval |-> 1, trip |-> t]>>,
               approvals = <<[order |-> 1, status |-> "PENDING", trip |-> t]>>
        PROVE  TypeOK /\ PlaceInv
    <3>1. /\ [status |-> "SUBMITTED", approval |-> 1, trip |-> t] \in OrderRows
          /\ [order |-> 1, status |-> "PENDING", trip |-> t] \in ApprovalRows
      BY DEF OrderRows, ApprovalRows, OrderStatus, ApprovalStatus
    <3>2. orders \in Seq(OrderRows) /\ approvals \in Seq(ApprovalRows)
      BY <2>2, <3>1
    <3>3. QED
      BY <2>2, <3>2 DEF Init, TypeOK, PlaceInv, Settled
  <2>3. QED
    BY <2>1, <2>2 DEF Init
<1>2. GrantInv /\ AloneInv /\ KindInv
  BY DEF Init, GrantInv, AloneInv, KindInv, Settled
<1>3. ASSUME orders = <<>>
      PROVE  LinkInv /\ CalmInv /\ RestInv
  <2>1. \A o \in DOMAIN orders : FALSE
    <3>1. Len(orders) = 0 /\ DOMAIN orders = 1 .. Len(orders)
      BY <1>1, <1>3 DEF TypeOK
    <3>2. QED
      BY <3>1
  <2>2. \A p \in Ops : pc[p] = "idle"
    BY DEF Init
  <2>3. LinkInv
    BY <2>1, <2>2 DEF LinkInv, Holding
  <2>4. CalmInv
    BY <2>1 DEF CalmInv
  <2>5. RestInv
    BY <2>1 DEF RestInv
  <2>6. QED
    BY <2>3, <2>4, <2>5
<1>4. ASSUME NEW t \in Trips,
             orders = <<[status |-> "SUBMITTED", approval |-> 1, trip |-> t]>>,
             approvals = <<[order |-> 1, status |-> "PENDING", trip |-> t]>>
      PROVE  LinkInv /\ CalmInv /\ RestInv
  <2>1. /\ DOMAIN orders = {1} /\ DOMAIN approvals = {1}
        /\ orders[1] = [status |-> "SUBMITTED", approval |-> 1, trip |-> t]
        /\ approvals[1] = [order |-> 1, status |-> "PENDING", trip |-> t]
    BY <1>4
  <2>2. /\ orders[1].status = "SUBMITTED" /\ orders[1].approval = 1 /\ orders[1].trip = t
        /\ approvals[1].order = 1 /\ approvals[1].status = "PENDING" /\ approvals[1].trip = t
    BY <2>1
  <2>3. \A p \in Ops : pc[p] = "idle"
    BY DEF Init
  <2>4. ApprovalsOf(1) = {1} /\ Latest(1) = {1} /\ Open(1) = {1}
    BY <2>1, <2>2 DEF ApprovalsOf, Latest, Open, IsPending
  <2>5. LinkInv
    BY <2>1, <2>2, <2>3 DEF LinkInv, Holding
  <2>6. RowInv(1) /\ \A p \in Ops : CallInv(p, 1) /\ FlowInv(p, 1)
    BY <2>2, <2>3, <2>4 DEF RowInv, CallInv, FlowInv
  <2>7. Agree(1)
    BY <2>2, <2>4 DEF Agree
  <2>8. QED
    BY <2>1, <2>5, <2>6, <2>7 DEF CalmInv, RestInv
<1>5. StayInv
  BY DEF Init, StayInv
<1>6. QED
  BY <1>1, <1>2, <1>3, <1>4, <1>5 DEF Inv, Typed, Init
-----------------------------------------------------------------------------
(* Inv is inductive. *)
THEOREM Invariance == Spec => []Inv
<1>1. Inv /\ [Next]_vars => Inv'
  BY TypedStep, GrantStep, LinkStep, AloneStep, KindStep, CalmStep, StayStep DEF Inv
<1>2. QED
  BY InitInv, <1>1, PTL DEF Spec

(* Types: in particular, no call ever follows an id to a missing row. *)
THEOREM TypeCorrect == Spec => []TypeOK
<1>1. Inv => TypeOK
  BY DEF Inv, Typed
<1>2. QED
  BY Invariance, <1>1, PTL

(* An APPROVED order has an approval that was decided APPROVED, whatever   *)
(* calls overlap on it and wherever they die.                              *)
THEOREM ApprovalBehindOrder == Spec => []ApprovedByDecision
<1>1. Inv => ApprovedByDecision
  BY DEF Inv, GrantInv, ApprovedByDecision
<1>2. QED
  BY Invariance, <1>1, PTL


(* Where no calls overlapped, an APPROVED order was approved for the trip  *)
(* it holds, whatever died after a modification (modify_and_resubmit).     *)
THEOREM ApprovedForTheTrip == Spec => []ApprovedAsFiled
<1>1. Inv => ApprovedAsFiled
  BY DEF Inv, CalmInv, RowInv, Granted, ApprovedAsFiled
<1>2. QED
  BY Invariance, <1>1, PTL

(* Where no calls overlapped, an order has one approval to decide at most, *)
(* however many filings died half way (find_latest_by_order_id).           *)
THEOREM OneApproval == Spec => []OneOpenApproval
<1>1. ASSUME Inv, NEW a \in DOMAIN approvals, NEW b \in DOMAIN approvals,
             approvals[a].order = approvals[b].order, Calm(approvals[a].order),
             IsPending(a), IsPending(b)
      PROVE  a = b
  <2>1. approvals[a].order \in DOMAIN orders
    BY <1>1 DEF Inv, Typed, PlaceInv
  <2>2. a \in Open(approvals[a].order) /\ b \in Open(approvals[a].order)
    BY <1>1 DEF Open, ApprovalsOf
  <2>3. a \in Latest(approvals[a].order) /\ b \in Latest(approvals[a].order)
    BY <1>1, <2>1, <2>2 DEF Inv, CalmInv, RowInv
  <2>4. QED
    BY <1>1, <2>3, LatestIsOne DEF Inv
<1>2. Inv => OneOpenApproval
  BY <1>1 DEF OneOpenApproval
<1>3. QED
  BY Invariance, <1>2, PTL

(* The flows behave like atomic ones where none overlapped or died: order  *)
(* and approval agree when nobody works on them.                           *)
THEOREM RestAgreement == Spec => []AgreeAtRest
<1>1. Inv => AgreeAtRest
  BY DEF Inv, RestInv, AgreeAtRest
<1>2. QED
  BY Invariance, <1>1, PTL

(* A cancellation that completes leaves no approval of the order open      *)
(* (cancel_with_approval).                                                 *)
THEOREM CancelSafety == Spec => CancelWithdraws
<1>1. ASSUME Inv, [Next]_vars, NEW p \in Ops, pc'[p] = "done", pc[p] # "done",
             kind[p] = "cancel", Calm(order[p])
      PROVE  \A a \in ApprovalsOf(order[p]) : approvals'[a].status # "PENDING"
  <2>1. Step(p)
    <3>1. PICK q \in Ops : Step(q)
      BY <1>1 DEF Next, Step, vars, calls
    <3>2. q = p
      BY <1>1, <3>1, CallChanges DEF Inv
    <3>3. QED
      BY <3>1, <3>2
  <2>2. \/ FindsApproval(p) \/ LooksAtApproval(p) \/ VoidsApproval(p)
    <3>1. ~Starts(p) /\ ~Dies(p)
      BY <1>1 DEF Inv, Typed, TypeOK, Starts, Submits, Fetches, LooksToDecide, Dies, Goto
    <3>2. ~Files(p) /\ ~Promotes(p) /\ ~Decides(p) /\ ~SyncsOrder(p)
      BY <1>1 DEF Inv, KindInv, Files, Promotes, Decides, SyncsOrder
    <3>3. ~Cancels(p) /\ ~Refreshes(p) /\ ~\E t \in Trips : Redrafts(p, t)
      BY <1>1 DEF Inv, Typed, TypeOK, Cancels, Refreshes, Redrafts, Goto
    <3>4. QED
      BY <2>1, <3>1, <3>2, <3>3 DEF Step, Goes
  <2>3. order' = order /\ orders' = orders /\ mixed' = mixed /\ kind' = kind
    BY <2>2 DEF FindsApproval, LooksAtApproval, VoidsApproval
  <2>4. order[p] \in DOMAIN orders
    BY <1>1, <2>2 DEF FindsApproval, LooksAtApproval, VoidsApproval, Inv, Typed, PlaceInv
  <2>5. PICK o \in DOMAIN orders : o = order[p]
    BY <2>4
  <2>6. After(p, o)'
    BY <1>1, <2>1, <2>3, <2>5, OwnOrder DEF Inv, Calm
  <2>7. Open(o)' = {}
    BY <1>1, <2>3, <2>6 DEF After
  <2>8. ApprovalsOf(o)' = ApprovalsOf(o)
    <3>1. \/ approvals' = approvals
          \/ /\ DOMAIN approvals' = DOMAIN approvals
             /\ \A a \in DOMAIN approvals : approvals'[a].order = approvals[a].order
      BY <1>1, <2>2, ApprovalWritten DEF Inv, FindsApproval, LooksAtApproval
    <3>2. QED
      BY <3>1 DEF ApprovalsOf
  <2>9. QED
    BY <2>5, <2>7, <2>8 DEF Open, IsPending
<1>2. Inv /\ [Next]_vars => [\A p \in Ops :
         pc'[p] = "done" /\ pc[p] # "done" /\ kind[p] = "cancel" /\ Calm(order[p])
           => \A a \in ApprovalsOf(order[p]) : approvals'[a].status # "PENDING"]_vars
  BY <1>1
<1>3. QED
  BY Invariance, <1>2, PTL DEF Spec, CancelWithdraws

(* Where no calls overlapped, a decided approval is never decided again,   *)
(* and a withdrawn one never comes back (ApprovalRepository.decide).       *)
THEOREM DecisionSafety == Spec => DecisionStands
<1>1. ASSUME Inv, [Next]_vars, NEW a \in DOMAIN approvals,
             approvals'[a].status # approvals[a].status, approvals'[a].order \notin mixed'
      PROVE  approvals[a].status = "PENDING" \/ approvals'[a].status = "CANCELLED"
  <2>1. PICK p \in Ops : Step(p)
    BY <1>1 DEF Next, Step, vars, calls
  <2>2. CASE VoidsApproval(p)
    BY <1>1, <2>2, ApprovalWritten DEF Inv
  <2>3. CASE Decides(p)
    <3>1. a = held[p] /\ approvals'[a].order = approvals[a].order /\ pc[p] = "decide"
      BY <1>1, <2>3, ApprovalWritten DEF Inv, Decides
    <3>2. approvals[a].order = order[p]
      <4>1. a # 0
        BY <1>1, RowTypes DEF Inv
      <4>2. QED
        BY <1>1, <3>1, <4>1 DEF Inv, LinkInv, Holding
    <3>3. order[p] \in DOMAIN orders /\ order[p] \notin mixed
      BY <1>1, <2>3, <3>1, <3>2 DEF Inv, Typed, PlaceInv, Decides
    <3>4. held[p] \in Open(order[p])
      BY <1>1, <3>1, <3>3 DEF Inv, CalmInv, CallInv, Calm
    <3>5. QED
      BY <3>1, <3>4 DEF Open, IsPending
  <2>4. CASE Files(p)
    BY <1>1, <2>4, ApprovalAdded DEF Inv
  <2>5. CASE approvals' = approvals
    BY <1>1, <2>5
  <2>6. QED
    BY <2>1, <2>2, <2>3, <2>4, <2>5 DEF Step, Starts, Goes, Dies, Submits, Fetches, LooksToDecide,
       Promotes, Cancels, FindsApproval, LooksAtApproval, Redrafts, Refreshes, SyncsOrder
<1>2. Inv /\ [Next]_vars => [\A a \in DOMAIN approvals :
         approvals'[a].status # approvals[a].status /\ Calm(approvals[a].order)'
           => approvals[a].status = "PENDING" \/ approvals'[a].status = "CANCELLED"]_vars
  BY <1>1 DEF Calm
<1>3. QED
  BY Invariance, <1>2, PTL DEF Spec, DecisionStands

(* Where no calls overlapped, a cancelled order comes back by a            *)
(* modification only, unless a cancellation of it died                     *)
(* (cancel_with_approval, decide_and_sync_order).                          *)
THEOREM CancelledSafety == Spec => CancelledStays
<1>1. ASSUME Inv, [Next]_vars, NEW o \in DOMAIN orders, orders[o].status = "CANCELLED",
             orders'[o].status # "CANCELLED", o \notin mixed'
      PROVE  \E p \in Ops :
                /\ order[p] = o
                /\ \/ pc[p] = "redraft"
                   \/ pc[p] = "lost" /\ kind[p] = "cancel"
  <2>1. PICK p \in Ops : Step(p)
    BY <1>1 DEF Next, Step, vars, calls
  <2>2. order'[p] = o
    BY <1>1, <2>1, OfOthers DEF Inv
  <2>3. o \notin mixed /\ \A q \in Ops \ {p} : order[q] = o => pc[q] \in Settled
    BY <1>1, <2>1, <2>2, AloneThere DEF Inv
  <2>4. Promotes(p) \/ SyncsOrder(p) \/ \E t \in Trips : Redrafts(p, t)
    <3>1. ~\E t \in Trips : Submits(p, t)
      BY <1>1, OrderAdded DEF Inv
    <3>2. ~Cancels(p)
      <4>1. ASSUME Cancels(p) PROVE FALSE
        <5>1. order' = order /\ pc[p] \notin Settled
          BY <4>1 DEF Cancels, Settled
        <5>2. QED
          BY <1>1, <2>2, <4>1, <5>1, OrderWritten DEF Inv
      <4>2. QED
        BY <4>1
    <3>3. orders' # orders
      BY <1>1
    <3>4. QED
      BY <2>1, <3>1, <3>2, <3>3 DEF Step, Starts, Goes, Dies, Fetches, LooksToDecide, Files,
         FindsApproval, LooksAtApproval, VoidsApproval, Refreshes, Decides
  <2>5. order[p] = o /\ pc[p] \in {"promote", "sync", "redraft"}
    BY <2>2, <2>4 DEF Promotes, SyncsOrder, Redrafts
  <2>6. CASE pc[p] = "redraft"
    BY <2>5, <2>6
  <2>7. CASE pc[p] \in {"promote", "sync"}
    <3>1. ~Withheld(o)
      BY <1>1, <2>3, <2>5, <2>7 DEF Withheld, Inv, CalmInv, CallInv, Calm
    <3>2. PICK q \in Ops : order[q] = o /\ kind[q] = "cancel" /\ pc[q] \in {"find", "look", "void", "lost"}
      BY <1>1, <2>3, <3>1 DEF Inv, StayInv, Calm, Cancelling
    <3>3. q # p
      BY <2>7, <3>2
    <3>4. QED
      BY <2>3, <3>2, <3>3 DEF Settled
  <2>8. QED
    BY <2>5, <2>6, <2>7
<1>2. Inv /\ [Next]_vars => [\A o \in DOMAIN orders :
         orders[o].status = "CANCELLED" /\ orders'[o].status # "CANCELLED" /\ Calm(o)'
           => \E p \in Ops :
                /\ order[p] = o
                /\ \/ pc[p] = "redraft"
                   \/ pc[p] = "lost" /\ kind[p] = "cancel"]_vars
  BY <1>1 DEF Calm
<1>3. QED
  BY Invariance, <1>2, PTL DEF Spec, CancelledStays
=============================================================================
