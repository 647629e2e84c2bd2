------------------------------ MODULE Bookings ------------------------------
(***************************************************************************)
(* The booking records of a user and the orders behind them on the         *)
(* external platform.  Records come from the results of booking commands   *)
(* (services/tool_result_side_effects.py), and are cancelled by            *)
(* BookingCancellationService (services/booking_cancellation.py), platform *)
(* first, or after a successful raw cancellation command, and deleted by   *)
(* the user.  Every call is a sequence of separate requests and            *)
(* transactions, may overlap with others and may die between two of them.  *)
(*                                                                         *)
(* An order is known by its external number, a record by its index.        *)
(***************************************************************************)
EXTENDS Naturals, Sequences

CONSTANTS
    Calls,      \* tool calls and requests of the user
    Numbers,    \* external order numbers
    TypeOf      \* the business type of an order

ASSUME BookingsAssumption == TypeOf \in [Numbers -> {"FLIGHT", "TRAIN", "HOTEL"}]

VARIABLES
    platform,  \* the state of each order on the platform
    rows,      \* booking_record: number, status, deleted; history: the call that made it
    pc,        \* the next step of each call
    work,      \* the number or the record it works on, or 0
    beside,    \* history: pairs of calls that were at work together
    misread    \* history: orders the platform refused to cancel, in plain text

vars == <<platform, rows, pc, work, beside, misread>>
-----------------------------------------------------------------------------
(* An answer of the platform, read through the layers around it: the shell *)
(* command and the platform's envelope succeed or not, and within them the *)
(* business result reads as a success, as a failure, or not at all.        *)
Answers == [envelope : BOOLEAN, business : {"success", "failure", "text"}]

(* Mutant: a command that went well is a success. *)
EnvelopeSucceeds(answer) == answer.envelope

(* _cancel_on_platform with _business_payload: when nothing can be read    *)
(* within the envelope, the envelope itself is taken for the payload.      *)
CancelConfirmed(answer) ==
    answer.envelope /\ answer.business \in {"success", "text"}

(* _business_result with require_business_success *)
BusinessSucceeds(answer) == answer.envelope /\ answer.business = "success"

PlatformFirst == {"FLIGHT", "TRAIN"}  \* _PLATFORM_COMMANDS
-----------------------------------------------------------------------------
Settled == {"idle", "ended"}
Goto(p, there) == pc' = [pc EXCEPT ![p] = there]
Ends(p) == Goto(p, "ended") /\ work' = [work EXCEPT ![p] = 0]

Init ==
    /\ platform = [n \in Numbers |-> "none"]
    /\ rows = <<>>
    /\ pc = [p \in Calls |-> "idle"]
    /\ work = [p \in Calls |-> 0]
    /\ beside = {} /\ misread = {}

Starts(p, on, there) ==
    /\ pc[p] = "idle"
    /\ Goto(p, there)
    /\ work' = [work EXCEPT ![p] = IF there = "ended" THEN 0 ELSE on]
    /\ beside' = beside \cup {{p, q} : q \in {q \in Calls : pc[q] \notin Settled}}

Kept == {i \in DOMAIN rows : ~rows[i].deleted}

(* Mutant: a cancelled record is not found. *)
FindActive(n) == {i \in Kept : rows[i].number = n /\ rows[i].status # "CANCELLED"}

(* find_by_user_platform_type_external_order; with two records it raises. *)
FindBooking(n) == {i \in Kept : rows[i].number = n}
-----------------------------------------------------------------------------
(* A booking command creates an order, or the platform answers with the    *)
(* one it has; a refused one changes nothing.  Unless the answer is lost   *)
(* it is recorded: first a look for the number ...                         *)
Books(p, n, answer) ==
    /\ platform[n] \in {"none", "live"}
    /\ answer.business = "success"
    /\ Starts(p, n, IF BusinessSucceeds(answer) THEN "find" ELSE "ended")
    /\ platform' = [platform EXCEPT ![n] = "live"]
    /\ UNCHANGED <<rows, misread>>

FindsNone(p) ==
    /\ pc[p] = "find"
    /\ FindBooking(work[p]) = {}
    /\ Goto(p, "create")
    /\ UNCHANGED <<platform, rows, work, beside, misread>>

(* ... then the record. *)
Records(p) ==
    /\ pc[p] = "create"
    /\ rows' = Append(rows, [number |-> work[p], status |-> "CREATED", deleted |-> FALSE,
                             by |-> p])
    /\ Ends(p)
    /\ UNCHANGED <<platform, beside, misread>>
-----------------------------------------------------------------------------
(* The platform is asked to cancel order n and answers: it cancels and     *)
(* says so or the answer is lost; it refuses, in its format or in plain    *)
(* text; it may take a repeated cancellation for either.                   *)
PlatformCancels(n, answer) ==
    \/ /\ platform[n] = "live" /\ answer.business = "success"
       /\ platform' = [platform EXCEPT ![n] = "cancelled"]
       /\ UNCHANGED misread
    \/ /\ platform[n] = "live" /\ answer.business \in {"failure", "text"}
       /\ misread' = IF answer.business = "text" /\ answer.envelope THEN misread \cup {n} ELSE misread
       /\ UNCHANGED platform
    \/ /\ platform[n] = "cancelled"
       /\ UNCHANGED <<platform, misread>>

(* BookingCancellationService.cancel: a record that is not cancelled yet   *)
(* goes to the platform first, if its type has a command ...               *)
ReadsRecord(p, i) ==
    /\ i \in Kept /\ rows[i].status # "CANCELLED"
    /\ Starts(p, i, IF TypeOf[rows[i].number] \in PlatformFirst THEN "ask" ELSE "update")
    /\ UNCHANGED <<platform, rows, misread>>

AsksPlatform(p, answer) ==
    /\ pc[p] = "ask"
    /\ PlatformCancels(rows[work[p]].number, answer)
    /\ IF CancelConfirmed(answer) THEN Goto(p, "update") /\ UNCHANGED work ELSE Ends(p)
    /\ UNCHANGED <<rows, beside>>

(* ... and is marked cancelled, unless it was deleted meanwhile. *)
MarksCancelled(p) ==
    /\ pc[p] = "update"
    /\ rows' = IF work[p] \in Kept THEN [rows EXCEPT ![work[p]].status = "CANCELLED"] ELSE rows
    /\ Ends(p)
    /\ UNCHANGED <<platform, beside, misread>>

(* A raw cancellation command: when it succeeded, the order's record is    *)
(* looked up and marked like the above.                                    *)
CancelsRaw(p, n, answer) ==
    /\ TypeOf[n] \in PlatformFirst /\ platform[n] # "none"
    /\ PlatformCancels(n, answer)
    /\ Starts(p, n, IF BusinessSucceeds(answer) THEN "lookup" ELSE "ended")
    /\ UNCHANGED rows

LooksUp(p) ==
    /\ pc[p] = "lookup"
    /\ \E i \in FindBooking(work[p]) :
         /\ FindBooking(work[p]) = {i} /\ rows[i].status # "CANCELLED"
         /\ work' = [work EXCEPT ![p] = i]
    /\ Goto(p, "update")
    /\ UNCHANGED <<platform, rows, beside, misread>>

(* delete_by_user *)
Deletes(i) ==
    /\ i \in Kept
    /\ rows' = [rows EXCEPT ![i].deleted = TRUE]
    /\ UNCHANGED <<platform, pc, work, beside, misread>>

(* Nothing is left to do, the call raises, or its process dies. *)
Leaves(p) ==
    /\ pc[p] \notin Settled
    /\ Ends(p)
    /\ UNCHANGED <<platform, rows, beside, misread>>

Next ==
    \/ \E p \in Calls :
        \/ \E n \in Numbers, answer \in Answers : Books(p, n, answer) \/ CancelsRaw(p, n, answer)
        \/ FindsNone(p) \/ Records(p)
        \/ \E i \in DOMAIN rows : ReadsRecord(p, i)
        \/ \E answer \in Answers : AsksPlatform(p, answer)
        \/ MarksCancelled(p) \/ LooksUp(p)
        \/ Leaves(p)
    \/ \E i \in DOMAIN rows : Deletes(i)

Spec == Init /\ [][Next]_vars
-----------------------------------------------------------------------------
(* Properties. *)

TypeOK ==
    /\ platform \in [Numbers -> {"none", "live", "cancelled"}]
    /\ rows \in Seq([number : Numbers, status : {"CREATED", "CANCELLED"}, deleted : BOOLEAN,
                     by : Calls])
    /\ pc \in [Calls -> Settled \cup {"find", "create", "ask", "update", "lookup"}]
    /\ \A p \in Calls :
         /\ pc[p] \in {"find", "create", "lookup"} => work[p] \in Numbers
         /\ pc[p] \in {"ask", "update"} => work[p] \in DOMAIN rows

(* A flight or train booking is never shown as cancelled while its order   *)
(* stands, whichever of the two paths cancelled it, whatever they          *)
(* overlapped with and wherever one died; except after a refusal in plain  *)
(* text, which the service takes for a success.                            *)
(* (BookingCancellationService.cancel, _persist_booking)                   *)
CancelledOnPlatform ==
    \A i \in DOMAIN rows :
        LET n == rows[i].number
        IN  rows[i].status = "CANCELLED" /\ TypeOf[n] \in PlatformFirst
                => platform[n] = "cancelled" \/ n \in misread

(* An order has one record, although the platform may answer with the same *)
(* order again, also after its record was cancelled; unless the calls that *)
(* made the records overlapped.  (_find_booking in _persist_booking)       *)
OneRecord ==
    \A i, j \in Kept :
        i # j /\ rows[i].number = rows[j].number => {rows[i].by, rows[j].by} \in beside
=============================================================================
