---------------------------- MODULE TravelOrders ----------------------------
(***************************************************************************)
(* Travel orders and their approvals: TravelOrderService                   *)
(* (services/order_service.py) over TravelOrderRepository and              *)
(* ApprovalRepository (infrastructure/repositories.py), called by the      *)
(* agents' tools (tools/order.py), the HTTP API, the administrator's       *)
(* decision and the DingTalk callback (api/routers.py).                    *)
(*                                                                         *)
(* Each repository method is a transaction of its own and nothing locks an *)
(* order or an approval across two of them, so operations interleave       *)
(* between any two, and one whose process dies, or whose next transaction  *)
(* fails, leaves what it had written.  decide and cancel read the approval *)
(* before they write it; their transactions interleave too.                *)
(*                                                                         *)
(* An order or an approval is known by its index; 0 stands for None.       *)
(***************************************************************************)
EXTENDS Naturals, Sequences

CONSTANTS
    Ops,    \* the calls of the service
    Kinds,  \* what they may be, a subset of AllKinds
    Trips   \* destinations and dates of a trip

AllKinds == {"submit", "cancel", "modify", "decide"}

ASSUME OrdersAssumption == Kinds \subseteq AllKinds

VARIABLES
    orders,     \* TravelOrder rows: status, approval_id and the trip
    approvals,  \* ApprovalRecord rows: order_id, status and the form's trip
    pc,         \* the next step of each call
    kind,       \* which operation it is
    order,      \* the order it works on
    held,       \* the approval it works on
    form,       \* the trip it files for approval, or its decision
    mixed,      \* history: orders two calls worked on at the same time
    granted     \* history: approvals decided APPROVED, with their trip

calls == <<pc, kind, order, held, form>>
vars == <<orders, approvals, calls, mixed, granted>>
-----------------------------------------------------------------------------
Decisions == {"APPROVED", "REJECTED"}
OrderStatus == {"DRAFT", "SUBMITTED", "CANCELLED"} \cup Decisions
ApprovalStatus == {"PENDING", "CANCELLED"} \cup Decisions
OrderRows == [status : OrderStatus, approval : Nat, trip : Trips]
ApprovalRows == [order : Nat, status : ApprovalStatus, trip : Trips]

ApprovalsOf(o) == {a \in DOMAIN approvals : approvals[a].order = o}

(* find_latest_by_order_id: one approval or none. *)
Latest(o) == {a \in ApprovalsOf(o) : \A b \in ApprovalsOf(o) : b <= a}

(* Before these calls: nothing, or one order that waits for its approval. *)
Init ==
    /\ \/ orders = <<>> /\ approvals = <<>>
       \/ \E t \in Trips :
            /\ orders = <<[status |-> "SUBMITTED", approval |-> 1, trip |-> t]>>
            /\ approvals = <<[order |-> 1, status |-> "PENDING", trip |-> t]>>
    /\ pc = [p \in Ops |-> "idle"]
    /\ kind = [p \in Ops |-> "none"]
    /\ order = [p \in Ops |-> 0]
    /\ held = [p \in Ops |-> 0]
    /\ form = [p \in Ops |-> "none"]
    /\ mixed = {} /\ granted = {}

Settled == {"idle", "done", "lost"}
Goto(p, there) == pc' = [pc EXCEPT ![p] = there]

(* A call starts to work on order o, perhaps beside another one. *)
WorksOn(p, k, o) ==
    /\ pc[p] = "idle" /\ k \in Kinds
    /\ kind' = [kind EXCEPT ![p] = k]
    /\ order' = [order EXCEPT ![p] = o]
    /\ mixed' = IF \E q \in Ops : pc[q] \notin Settled /\ order[q] = o
                THEN mixed \cup {o} ELSE mixed
-----------------------------------------------------------------------------
(* create_and_submit: the order is created DRAFT ... *)
Submits(p, t) ==
    LET o == Len(orders) + 1 IN
    /\ WorksOn(p, "submit", o)
    /\ orders' = Append(orders, [status |-> "DRAFT", approval |-> 0, trip |-> t])
    /\ form' = [form EXCEPT ![p] = t]
    /\ Goto(p, "file")
    /\ UNCHANGED <<approvals, held, granted>>

(* ... its approval is filed PENDING ... *)
Files(p) ==
    /\ pc[p] = "file"
    /\ approvals' = Append(approvals, [order |-> order[p], status |-> "PENDING",
                                       trip |-> form[p]])
    /\ held' = [held EXCEPT ![p] = Len(approvals) + 1]
    /\ Goto(p, "promote")
    /\ UNCHANGED <<orders, kind, order, form, mixed, granted>>

(* ... and the order becomes SUBMITTED with the approval's id. *)
Promotes(p) ==
    /\ pc[p] = "promote"
    /\ orders' = [orders EXCEPT ![order[p]].status = "SUBMITTED",
                                ![order[p]].approval = held[p]]
    /\ Goto(p, "done")
    /\ UNCHANGED <<approvals, kind, order, held, form, mixed, granted>>
-----------------------------------------------------------------------------
(* cancel_with_approval and modify_and_resubmit work on the row that the   *)
(* tool or the endpoint fetched.  An approved order asks for force, and    *)
(* modifying for a look at conflicting trips: a call refused there changes *)
(* nothing; no other status is refused.                                    *)
Fetches(p, k, o) ==
    /\ WorksOn(p, k, o)
    /\ held' = [held EXCEPT ![p] = orders[o].approval]
    /\ Goto(p, IF k = "cancel" THEN "cancel" ELSE "find")
    /\ UNCHANGED <<orders, approvals, form, granted>>

Cancels(p) ==
    /\ pc[p] = "cancel"
    /\ orders' = [orders EXCEPT ![order[p]].status = "CANCELLED"]
    /\ Goto(p, "find")
    /\ UNCHANGED <<approvals, kind, order, held, form, mixed, granted>>

(* The approval to withdraw: the row's, or else the order's latest. *)
NoSearch(p) == {held[p]} \ {0}
ToWithdraw(p) == IF held[p] # 0 THEN {held[p]} ELSE Latest(order[p])

Withdrawn(p) == IF kind[p] = "cancel" THEN "done" ELSE "redraft"

FindsApproval(p) ==
    /\ pc[p] = "find"
    /\ \/ /\ \E a \in ToWithdraw(p) : held' = [held EXCEPT ![p] = a]
          /\ Goto(p, "look")
       \/ /\ ToWithdraw(p) = {}
          /\ Goto(p, Withdrawn(p)) /\ UNCHANGED held
    /\ UNCHANGED <<orders, approvals, kind, order, form, mixed, granted>>

(* ApprovalRepository.cancel: read the status, then write CANCELLED. *)
LooksAtApproval(p) ==
    /\ pc[p] = "look"
    /\ Goto(p, IF approvals[held[p]].status = "CANCELLED" THEN Withdrawn(p) ELSE "void")
    /\ UNCHANGED <<orders, approvals, kind, order, held, form, mixed, granted>>

VoidsApproval(p) ==
    /\ pc[p] = "void"
    /\ approvals' = [approvals EXCEPT ![held[p]].status = "CANCELLED"]
    /\ Goto(p, Withdrawn(p))
    /\ UNCHANGED <<orders, kind, order, held, form, mixed, granted>>

(* modify: the new values, DRAFT again and no approval ... *)
OnlyStatus(o, t) == [o EXCEPT !.trip = t, !.status = "DRAFT"]
Redraft(o, t) == [o EXCEPT !.trip = t, !.status = "DRAFT", !.approval = 0]

Redrafts(p, t) ==
    /\ pc[p] = "redraft"
    /\ orders' = [orders EXCEPT ![order[p]] = Redraft(@, t)]
    /\ Goto(p, "refresh")
    /\ UNCHANGED <<approvals, kind, order, held, form, mixed, granted>>

(* ... then the order is read back and filed like a new one. *)
Refreshes(p) ==
    /\ pc[p] = "refresh"
    /\ form' = [form EXCEPT ![p] = orders[order[p]].trip]
    /\ Goto(p, "file")
    /\ UNCHANGED <<orders, approvals, kind, order, held, mixed, granted>>
-----------------------------------------------------------------------------
(* decide_and_sync_order: ApprovalRepository.decide reads the approval and *)
(* goes on only when it is PENDING ...                                     *)
AnyStatus(a) == TRUE
IsPending(a) == approvals[a].status = "PENDING"

LooksToDecide(p, a, status) ==
    /\ IsPending(a)
    /\ WorksOn(p, "decide", approvals[a].order)
    /\ held' = [held EXCEPT ![p] = a]
    /\ form' = [form EXCEPT ![p] = status]
    /\ Goto(p, "decide")
    /\ UNCHANGED <<orders, approvals, granted>>

(* ... writes the decision, and update_status copies it to the order. *)
Decides(p) ==
    /\ pc[p] = "decide"
    /\ approvals' = [approvals EXCEPT ![held[p]].status = form[p]]
    /\ granted' = IF form[p] = "APPROVED"
                  THEN granted \cup {[order |-> order[p], trip |-> approvals[held[p]].trip]}
                  ELSE granted
    /\ Goto(p, "sync")
    /\ UNCHANGED <<orders, kind, order, held, form, mixed>>

AlwaysApproved(p) == "APPROVED"
RawResult(p) == IF form[p] = "APPROVED" THEN "agree" ELSE "refuse"
Decision(p) == form[p]

SyncsOrder(p) ==
    /\ pc[p] = "sync"
    /\ orders' = [orders EXCEPT ![order[p]].status = Decision(p)]
    /\ Goto(p, "done")
    /\ UNCHANGED <<approvals, kind, order, held, form, mixed, granted>>

(* The process dies, or a transaction fails and the call raises. *)
Dies(p) ==
    /\ pc[p] \notin Settled
    /\ Goto(p, "lost")
    /\ UNCHANGED <<orders, approvals, kind, order, held, form, mixed, granted>>

Starts(p) ==
    \/ \E t \in Trips : Submits(p, t)
    \/ \E k \in {"cancel", "modify"}, o \in DOMAIN orders : Fetches(p, k, o)
    \/ \E a \in DOMAIN approvals, s \in Decisions : LooksToDecide(p, a, s)

Goes(p) ==
    \/ Files(p) \/ Promotes(p)
    \/ Cancels(p) \/ FindsApproval(p) \/ LooksAtApproval(p) \/ VoidsApproval(p)
    \/ (\E t \in Trips : Redrafts(p, t)) \/ Refreshes(p)
    \/ Decides(p) \/ SyncsOrder(p)

Next == \E p \in Ops : Starts(p) \/ Goes(p) \/ Dies(p)

Spec == Init /\ [][Next]_vars
-----------------------------------------------------------------------------
TypeOK ==
    /\ orders \in Seq(OrderRows)
    /\ approvals \in Seq(ApprovalRows)
    /\ pc \in [Ops -> Settled \cup {"file", "promote", "cancel", "find", "look", "void",
                                    "redraft", "refresh", "decide", "sync"}]
    /\ kind \in [Ops -> AllKinds \cup {"none"}]
    /\ order \in [Ops -> 0 .. Len(orders)]
    /\ held \in [Ops -> 0 .. Len(approvals)]
    /\ form \in [Ops -> Trips \cup Decisions \cup {"none"}]
    /\ mixed \subseteq DOMAIN orders
    /\ granted \subseteq [order : DOMAIN orders, trip : Trips]

AtWork(o) == \E p \in Ops : pc[p] \notin Settled /\ order[p] = o
Broken(o) == \E p \in Ops : pc[p] = "lost" /\ order[p] = o
Calm(o) == o \notin mixed

(* An approved order was approved by somebody: whatever overlaps or dies,  *)
(* some approval filed for it was decided APPROVED.                        *)
ApprovedByDecision ==
    \A o \in DOMAIN orders :
        orders[o].status = "APPROVED" => \E g \in granted : g.order = o

(* ... and, when no two calls overlapped on the order, for the very trip   *)
(* the order now holds: after a modification, even one that died half way, *)
(* an approval of the former trip approves nothing.                        *)
ApprovedAsFiled ==
    \A o \in DOMAIN orders :
        Calm(o) /\ orders[o].status = "APPROVED"
            => [order |-> o, trip |-> orders[o].trip] \in granted

(* An order never has two approvals to decide, whatever died before.       *)
OneOpenApproval ==
    \A a, b \in DOMAIN approvals :
        /\ approvals[a].order = approvals[b].order /\ Calm(approvals[a].order)
        /\ IsPending(a) /\ IsPending(b)
        => a = b

(* A cancellation that completes leaves nothing that could still be        *)
(* approved, even after operations that died before the order got the id   *)
(* of its approval (find_latest_by_order_id is there for them).            *)
CancelWithdraws ==
    [][\A p \in Ops :
         pc'[p] = "done" /\ pc[p] # "done" /\ kind[p] = "cancel" /\ Calm(order[p])
           => \A a \in ApprovalsOf(order[p]) : approvals'[a].status # "PENDING"]_vars

(* A cancelled order comes back by a modification, and by nothing else: no *)
(* decision finds an approval that is still open, be it one that an        *)
(* operation which died never gave to the order.  Only a cancellation that *)
(* died itself may have left it.                                           *)
CancelledStays ==
    [][\A o \in DOMAIN orders :
         orders[o].status = "CANCELLED" /\ orders'[o].status # "CANCELLED" /\ Calm(o)'
           => \E p \in Ops :
                /\ order[p] = o
                /\ \/ pc[p] = "redraft"
                   \/ pc[p] = "lost" /\ kind[p] = "cancel"]_vars

(* A decision is not reversed: a decided approval can only be withdrawn, a *)
(* withdrawn one comes never back, however often it is decided again.      *)
DecisionStands ==
    [][\A a \in DOMAIN approvals :
         approvals'[a].status # approvals[a].status /\ Calm(approvals[a].order)'
           => approvals[a].status = "PENDING" \/ approvals'[a].status = "CANCELLED"]_vars

(* The flows behave like atomic ones: an order nobody works on, and on     *)
(* which nothing died, agrees with its approval.                           *)
Agree(o) ==
    LET mine == orders[o].approval
        status == orders[o].status
    IN  /\ mine \in ApprovalsOf(o)
        /\ approvals[mine].trip = orders[o].trip
        /\ approvals[mine].status = (IF status = "SUBMITTED" THEN "PENDING" ELSE status)

AgreeAtRest ==
    \A o \in DOMAIN orders : ~AtWork(o) /\ ~Broken(o) /\ Calm(o) => Agree(o)

(* The same with no word about overlapping calls, which is what the        *)
(* service's docstring says of its flows.                                  *)
AtomicFlows ==
    \A o \in DOMAIN orders : ~AtWork(o) /\ ~Broken(o) => Agree(o)
=============================================================================
