---------------------------- MODULE BookingsProofs ----------------------------
(***************************************************************************)
(* The two safety properties of Bookings, for any number of calls and      *)
(* orders.                                                                 *)
(*                                                                         *)
(* A record is marked cancelled some steps after the platform was asked,   *)
(* so CancelledOnPlatform needs that a call about to mark one, or to look  *)
(* one up for that, stands on an order that is gone: PendingInv.  A record *)
(* is made some steps after the look for another one, so OneRecord needs   *)
(* that whatever came between was written by a call at work at the same    *)
(* time: CreateInv.                                                        *)
(***************************************************************************)
EXTENDS Bookings, TLAPS

Row == [number : Numbers, status : {"CREATED", "CANCELLED"}, deleted : BOOLEAN, by : Calls]

Typed == TypeOK /\ work \in [Calls -> Numbers \cup Nat]

Gone(n) == platform[n] = "cancelled" \/ n \in misread

PendingInv ==
    \A p \in Calls :
        /\ pc[p] = "lookup" => Gone(work[p])
        /\ pc[p] = "update" /\ TypeOf[rows[work[p]].number] \in PlatformFirst
             => Gone(rows[work[p]].number)

BesideInv ==
    \A p, q \in Calls :
        p # q /\ pc[p] \notin Settled /\ pc[q] \notin Settled => {p, q} \in beside

CreateInv ==
    \A p \in Calls, i \in Kept :
        pc[p] = "create" /\ rows[i].number = work[p] => {rows[i].by, p} \in beside

Inv == Typed /\ PendingInv /\ CancelledOnPlatform /\ BesideInv /\ CreateInv /\ OneRecord
-----------------------------------------------------------------------------
(* The steps of a call between two others; what they leave of the records. *)
Between(p) ==
    \/ FindsNone(p)
    \/ \E i \in DOMAIN rows : ReadsRecord(p, i)
    \/ \E answer \in Answers : AsksPlatform(p, answer)
    \/ LooksUp(p) \/ Leaves(p)
    \/ \E n \in Numbers, answer \in Answers : Books(p, n, answer) \/ CancelsRaw(p, n, answer)

LEMMA RowsOfBetween == ASSUME NEW p \in Calls, Between(p) PROVE rows' = rows
  BY DEF Between, FindsNone, ReadsRecord, AsksPlatform, LooksUp, Leaves, Books, CancelsRaw

LEMMA RowTypes ==
    ASSUME Typed
    PROVE  /\ rows \in Seq(Row)
           /\ \A i \in DOMAIN rows :
                rows[i] \in Row /\ rows[i].number \in Numbers /\ rows[i].by \in Calls
<1>1. rows \in Seq(Row)
  BY DEF Typed, TypeOK, Row
<1>2. \A i \in DOMAIN rows : rows[i] \in Row
  BY <1>1
<1>3. QED
  BY <1>1, <1>2 DEF Row

LEMMA RowAdded ==
    ASSUME Typed, NEW p \in Calls, Records(p)
    PROVE  /\ rows' \in Seq(Row)
           /\ DOMAIN rows' = DOMAIN rows \cup {Len(rows) + 1}
           /\ \A i \in DOMAIN rows : rows'[i] = rows[i]
           /\ Len(rows) + 1 \notin DOMAIN rows
           /\ rows'[Len(rows) + 1].number = work[p] /\ rows'[Len(rows) + 1].by = p
           /\ rows'[Len(rows) + 1].status = "CREATED"
<1> DEFINE row == [number |-> work[p], status |-> "CREATED", deleted |-> FALSE, by |-> p]
<1>1. rows \in Seq(Row) /\ row \in Row /\ rows' = Append(rows, row)
  BY RowTypes DEF Typed, TypeOK, Row, Records
<1>2. row.number = work[p] /\ row.by = p /\ row.status = "CREATED"
  OBVIOUS
<1> HIDE DEF row
<1>3. /\ rows' \in Seq(Row) /\ Len(rows') = Len(rows) + 1 /\ Len(rows) \in Nat
      /\ DOMAIN rows = 1..Len(rows) /\ DOMAIN rows' = 1..Len(rows')
      /\ \A i \in 1..Len(rows) : rows'[i] = rows[i]
      /\ rows'[Len(rows) + 1] = row
  BY <1>1
<1>4. QED
  BY <1>2, <1>3

(* A record written where it was: status and deletion apart, it stays. *)
LEMMA RowWritten ==
    ASSUME Typed, NEW i \in DOMAIN rows, NEW row \in Row, rows' = [rows EXCEPT ![i] = row]
    PROVE  /\ rows' \in Seq(Row) /\ DOMAIN rows' = DOMAIN rows /\ rows'[i] = row
           /\ \A j \in DOMAIN rows : j # i => rows'[j] = rows[j]
<1>1. rows \in Seq(Row) /\ Len(rows) \in Nat /\ DOMAIN rows = 1..Len(rows)
  BY DEF Typed, TypeOK, Row
<1>2. rows \in [1..Len(rows) -> Row]
  BY <1>1
<1>3. rows' \in [1..Len(rows) -> Row]
  BY <1>1, <1>2
<1>4. rows' \in Seq(Row)
  BY <1>1, <1>3
<1>5. QED
  BY <1>1, <1>2, <1>3, <1>4

LEMMA Marked ==
    ASSUME Typed, NEW p \in Calls, MarksCancelled(p)
    PROVE  /\ rows' \in Seq(Row) /\ DOMAIN rows' = DOMAIN rows /\ work[p] \in DOMAIN rows
           /\ \A i \in DOMAIN rows :
                /\ rows'[i].number = rows[i].number /\ rows'[i].by = rows[i].by
                /\ rows'[i].deleted = rows[i].deleted
                /\ rows'[i].status = rows[i].status \/ i = work[p]
<1>1. rows \in Seq(Row) /\ work[p] \in DOMAIN rows
  BY DEF Typed, TypeOK, Row, MarksCancelled
<1>2. CASE work[p] \in Kept
  <2> DEFINE row == [rows[work[p]] EXCEPT !.status = "CANCELLED"]
  <2>1. rows[work[p]] \in Row
    BY <1>1
  <2>2. /\ row \in Row /\ row.number = rows[work[p]].number /\ row.by = rows[work[p]].by
        /\ row.deleted = rows[work[p]].deleted
    BY <2>1 DEF Row
  <2>3. rows' = [rows EXCEPT ![work[p]] = row]
    BY <1>2 DEF MarksCancelled
  <2> HIDE DEF row
  <2>4. QED
    BY <1>1, <2>2, <2>3, RowWritten
<1>3. CASE work[p] \notin Kept
  BY <1>1, <1>3 DEF MarksCancelled
<1>4. QED
  BY <1>2, <1>3

LEMMA Deleted ==
    ASSUME Typed, NEW d \in DOMAIN rows, Deletes(d)
    PROVE  /\ rows' \in Seq(Row) /\ DOMAIN rows' = DOMAIN rows
           /\ \A i \in DOMAIN rows :
                /\ rows'[i].number = rows[i].number /\ rows'[i].by = rows[i].by
                /\ rows'[i].status = rows[i].status
                /\ rows[i].deleted => rows'[i].deleted
<1> DEFINE row == [rows[d] EXCEPT !.deleted = TRUE]
<1>1. rows[d] \in Row
  BY RowTypes
<1>2. /\ row \in Row /\ row.number = rows[d].number /\ row.by = rows[d].by
      /\ row.status = rows[d].status /\ row.deleted
  BY <1>1 DEF Row
<1>3. rows' = [rows EXCEPT ![d] = row]
  BY DEF Deletes
<1> HIDE DEF row
<1>4. QED
  BY <1>1, <1>2, <1>3, RowWritten
-----------------------------------------------------------------------------
LEMMA TypedStep == Typed /\ [Next]_vars => Typed'
<1> SUFFICES ASSUME Typed, [Next]_vars PROVE Typed'
  OBVIOUS
<1>1. ASSUME NEW p \in Calls, Between(p) PROVE Typed'
  <2> USE <1>1, RowsOfBetween, BookingsAssumption DEF Typed, TypeOK, Goto, Ends, Starts, Settled
  <2>1. CASE FindsNone(p)
    BY <2>1 DEF FindsNone
  <2>2. CASE \E i \in DOMAIN rows : ReadsRecord(p, i)
    BY <2>2 DEF ReadsRecord
  <2>3. ASSUME NEW answer \in Answers, AsksPlatform(p, answer) PROVE Typed'
    BY <2>3 DEF AsksPlatform, PlatformCancels
  <2>4. CASE LooksUp(p)
    BY <2>4 DEF LooksUp, FindBooking, Kept
  <2>5. CASE Leaves(p)
    BY <2>5 DEF Leaves
  <2>6. ASSUME NEW n \in Numbers, NEW answer \in Answers, Books(p, n, answer) PROVE Typed'
    BY <2>6 DEF Books
  <2>7. ASSUME NEW n \in Numbers, NEW answer \in Answers, CancelsRaw(p, n, answer) PROVE Typed'
    BY <2>7 DEF CancelsRaw, PlatformCancels
  <2>8. QED
    BY <2>1, <2>2, <2>3, <2>4, <2>5, <2>6, <2>7 DEF Between
<1>2. ASSUME NEW p \in Calls, Records(p) PROVE Typed'
  BY <1>2, RowAdded DEF Typed, TypeOK, Row, Records, Goto, Ends, Settled
<1>3. ASSUME NEW p \in Calls, MarksCancelled(p) PROVE Typed'
  BY <1>3, Marked DEF Typed, TypeOK, Row, MarksCancelled, Goto, Ends, Settled
<1>4. ASSUME NEW i \in DOMAIN rows, Deletes(i) PROVE Typed'
  BY <1>4, Deleted DEF Typed, TypeOK, Row, Deletes
<1>5. CASE UNCHANGED vars
  BY <1>5 DEF vars, Typed, TypeOK
<1>6. QED
  BY <1>1, <1>2, <1>3, <1>4, <1>5 DEF Next, Between
-----------------------------------------------------------------------------
LEMMA GoneStays ==
    ASSUME Typed, [Next]_vars
    PROVE  \A n \in Numbers : Gone(n) => Gone(n)'
<1>1. ASSUME NEW n \in Numbers, NEW answer \in Answers, PlatformCancels(n, answer)
      PROVE  \A m \in Numbers : Gone(m) => Gone(m)'
  BY <1>1 DEF PlatformCancels, Gone, Typed, TypeOK
<1>2. ASSUME NEW p \in Calls, NEW n \in Numbers, NEW answer \in Answers, Books(p, n, answer)
      PROVE  \A m \in Numbers : Gone(m) => Gone(m)'
  BY <1>2 DEF Books, Gone, Typed, TypeOK
<1>3. ASSUME NEW p \in Calls, NEW answer \in Answers, AsksPlatform(p, answer)
      PROVE  \A m \in Numbers : Gone(m) => Gone(m)'
  <2>1. rows[work[p]].number \in Numbers
    BY <1>3, RowTypes DEF AsksPlatform, Typed, TypeOK
  <2>2. QED
    BY <1>1, <1>3, <2>1 DEF AsksPlatform
<1>4. ASSUME NEW p \in Calls, NEW n \in Numbers, NEW answer \in Answers, CancelsRaw(p, n, answer)
      PROVE  \A m \in Numbers : Gone(m) => Gone(m)'
  BY <1>1, <1>4 DEF CancelsRaw
<1>5. CASE UNCHANGED <<platform, misread>>
  BY <1>5 DEF Gone
<1>6. QED
  BY <1>2, <1>3, <1>4, <1>5 DEF Next, vars, FindsNone, Records, ReadsRecord, MarksCancelled,
     LooksUp, Leaves, Deletes

(* An answer taken for a confirmation leaves the order gone. *)
LEMMA ConfirmedIsGone ==
    ASSUME Typed, NEW n \in Numbers, NEW answer \in Answers, PlatformCancels(n, answer),
           CancelConfirmed(answer) \/ BusinessSucceeds(answer)
    PROVE  Gone(n)'
  BY DEF Typed, TypeOK, PlatformCancels, CancelConfirmed, BusinessSucceeds, Answers, Gone

LEMMA CancelStep ==
    ASSUME Typed, PendingInv, CancelledOnPlatform, [Next]_vars
    PROVE  PendingInv' /\ CancelledOnPlatform'
<1>1. ASSUME NEW p \in Calls, Between(p) PROVE PendingInv' /\ CancelledOnPlatform'
  <2>1. rows' = rows /\ \A n \in Numbers : Gone(n) => Gone(n)'
    BY <1>1, RowsOfBetween, GoneStays
  <2>2. \A i \in DOMAIN rows : rows[i].number \in Numbers
    BY RowTypes
  <2>3. CancelledOnPlatform'
    BY <2>1, <2>2 DEF CancelledOnPlatform, Gone
  <2>4. \A q \in Calls : q # p => pc'[q] = pc[q] /\ work'[q] = work[q]
    BY <1>1 DEF Between, FindsNone, ReadsRecord, AsksPlatform, LooksUp, Leaves, Books, CancelsRaw,
       Starts, Goto, Ends, Typed, TypeOK
  <2>5. \A q \in Calls : /\ pc[q] = "lookup" => work[q] \in Numbers
                         /\ pc[q] = "update" => work[q] \in DOMAIN rows
    BY DEF Typed, TypeOK
  <2>6. /\ pc'[p] = "lookup" => Gone(work[p])'
        /\ pc'[p] = "update" /\ TypeOf[rows[work'[p]].number] \in PlatformFirst
             => Gone(rows[work[p]].number)'
    <3> USE DEF Goto, Ends, Starts, Settled, Typed, TypeOK
    <3>1. CASE FindsNone(p)
      BY <3>1 DEF FindsNone
    <3>2. CASE \E i \in DOMAIN rows : ReadsRecord(p, i)
      BY <3>2 DEF ReadsRecord
    <3>3. ASSUME NEW answer \in Answers, AsksPlatform(p, answer)
          PROVE  /\ pc'[p] # "lookup"
                 /\ pc'[p] = "update" => Gone(rows[work[p]].number)'
      <4> DEFINE n == rows[work[p]].number
      <4>1. n \in Numbers /\ PlatformCancels(n, answer)
        BY <2>2, <3>3 DEF AsksPlatform
      <4>2. /\ pc'[p] # "lookup"
            /\ pc'[p] = "update" => CancelConfirmed(answer) /\ work' = work
        BY <3>3 DEF AsksPlatform
      <4>3. ASSUME NEW m \in Numbers, PlatformCancels(m, answer), CancelConfirmed(answer)
            PROVE  platform'[m] = "cancelled" \/ m \in misread'
        BY <4>3, ConfirmedIsGone DEF Gone
      <4>4. CancelConfirmed(answer) => platform'[n] = "cancelled" \/ n \in misread'
        BY <4>1, <4>3
      <4>5. QED
        BY <2>1, <4>2, <4>4 DEF Gone
    <3>4. CASE LooksUp(p)
      <4>1. PICK i \in FindBooking(work[p]) : work' = [work EXCEPT ![p] = i]
        BY <3>4 DEF LooksUp
      <4>2. rows[i].number = work[p] /\ pc[p] = "lookup" /\ pc'[p] = "update" /\ work'[p] = i
        BY <3>4, <4>1 DEF LooksUp, FindBooking
      <4>3. Gone(work[p]) /\ work[p] \in Numbers
        BY <4>2 DEF PendingInv
      <4>4. Gone(rows[i].number)'
        BY <2>1, <4>2, <4>3 DEF Gone
      <4>5. QED
        BY <2>1, <4>2, <4>4 DEF Gone
    <3>5. CASE Leaves(p)
      BY <3>5 DEF Leaves
    <3>6. ASSUME NEW n \in Numbers, NEW answer \in Answers, Books(p, n, answer)
          PROVE  pc'[p] \notin {"lookup", "update"}
      BY <3>6 DEF Books
    <3>7. ASSUME NEW n \in Numbers, NEW answer \in Answers, CancelsRaw(p, n, answer)
          PROVE  /\ pc'[p] # "update"
                 /\ pc'[p] = "lookup" => Gone(work[p])'
      <4>1. PlatformCancels(n, answer)
        BY <3>7 DEF CancelsRaw
      <4>2. /\ pc'[p] # "update"
            /\ pc'[p] = "lookup" => BusinessSucceeds(answer) /\ work'[p] = n
        BY <3>7 DEF CancelsRaw
      <4>3. BusinessSucceeds(answer) => Gone(n)'
        BY <4>1, ConfirmedIsGone
      <4>4. QED
        BY <4>2, <4>3 DEF Gone
    <3>8. QED
      BY <1>1, <3>1, <3>2, <3>3, <3>4, <3>5, <3>6, <3>7 DEF Between
  <2>7. PendingInv'
    <3> SUFFICES ASSUME NEW q \in Calls
                 PROVE  /\ pc'[q] = "lookup" => Gone(work[q])'
                        /\ pc'[q] = "update" /\ TypeOf[rows'[work'[q]].number] \in PlatformFirst
                             => Gone(rows[work[q]].number)'
      BY DEF PendingInv
    <3>1. CASE q = p
      BY <2>1, <2>6, <3>1
    <3>2. CASE q # p
      BY <2>1, <2>2, <2>4, <2>5, <3>2 DEF PendingInv, Gone
    <3>3. QED
      BY <3>1, <3>2
  <2>8. QED
    BY <2>3, <2>7
<1>2. ASSUME NEW p \in Calls, Records(p) PROVE PendingInv' /\ CancelledOnPlatform'
  <2>1. /\ DOMAIN rows' = DOMAIN rows \cup {Len(rows) + 1}
        /\ \A i \in DOMAIN rows : rows'[i] = rows[i]
        /\ rows'[Len(rows) + 1].status = "CREATED"
    BY <1>2, RowAdded
  <2>2. platform' = platform /\ misread' = misread
    BY <1>2 DEF Records
  <2>3. CancelledOnPlatform'
    BY <2>1, <2>2 DEF CancelledOnPlatform
  <2>4. \A q \in Calls : pc'[q] \in {"lookup", "update"} => pc'[q] = pc[q] /\ work'[q] = work[q]
    BY <1>2 DEF Records, Ends, Goto, Typed, TypeOK
  <2>5. \A q \in Calls : pc[q] = "update" => work[q] \in DOMAIN rows
    BY DEF Typed, TypeOK
  <2>6. QED
    BY <2>1, <2>2, <2>3, <2>4, <2>5 DEF PendingInv, Gone
<1>3. ASSUME NEW p \in Calls, MarksCancelled(p) PROVE PendingInv' /\ CancelledOnPlatform'
  <2>1. /\ DOMAIN rows' = DOMAIN rows /\ work[p] \in DOMAIN rows
        /\ \A i \in DOMAIN rows : /\ rows'[i].number = rows[i].number
                                  /\ rows'[i].status = rows[i].status \/ i = work[p]
    BY <1>3, Marked
  <2>2. platform' = platform /\ misread' = misread
    BY <1>3 DEF MarksCancelled
  <2>3. TypeOf[rows[work[p]].number] \in PlatformFirst => Gone(rows[work[p]].number)
    BY <1>3 DEF MarksCancelled, PendingInv
  <2>4. CancelledOnPlatform'
    BY <2>1, <2>2, <2>3 DEF CancelledOnPlatform, Gone
  <2>5. \A q \in Calls : pc'[q] \in {"lookup", "update"} => pc'[q] = pc[q] /\ work'[q] = work[q]
    BY <1>3 DEF MarksCancelled, Ends, Goto, Typed, TypeOK
  <2>6. \A q \in Calls : pc[q] = "update" => work[q] \in DOMAIN rows
    BY DEF Typed, TypeOK
  <2>7. QED
    BY <2>1, <2>2, <2>4, <2>5, <2>6 DEF PendingInv, Gone
<1>4. ASSUME NEW d \in DOMAIN rows, Deletes(d) PROVE PendingInv' /\ CancelledOnPlatform'
  <2>1. /\ DOMAIN rows' = DOMAIN rows
        /\ \A i \in DOMAIN rows : rows'[i].number = rows[i].number /\ rows'[i].status = rows[i].status
    BY <1>4, Deleted
  <2>2. UNCHANGED <<platform, misread, pc, work>>
    BY <1>4 DEF Deletes
  <2>3. \A q \in Calls : pc[q] = "update" => work[q] \in DOMAIN rows
    BY DEF Typed, TypeOK
  <2>4. QED
    BY <2>1, <2>2, <2>3 DEF PendingInv, CancelledOnPlatform, Gone
<1>5. CASE UNCHANGED vars
  BY <1>5 DEF vars, PendingInv, CancelledOnPlatform, Gone
<1>6. QED
  BY <1>1, <1>2, <1>3, <1>4, <1>5 DEF Next, Between
-----------------------------------------------------------------------------
(* A call that moves leaves the other ones where they were, and a call     *)
(* that starts was beside every one at work.                               *)
LEMMA BesideStep ==
    ASSUME Typed, BesideInv, [Next]_vars
    PROVE  BesideInv' /\ beside \subseteq beside'
<1> USE DEF Settled
<1>1. ASSUME NEW p \in Calls, NEW on, NEW there, Starts(p, on, there)
      PROVE  BesideInv' /\ beside \subseteq beside'
  BY <1>1 DEF Starts, Goto, BesideInv, Typed, TypeOK
<1>2. ASSUME NEW p \in Calls, pc[p] \notin Settled, beside' = beside, NEW there, Goto(p, there)
      PROVE  BesideInv' /\ beside \subseteq beside'
  BY <1>2 DEF Goto, BesideInv, Typed, TypeOK
<1>3. CASE UNCHANGED <<pc, beside>>
  BY <1>3 DEF BesideInv
<1>4. ASSUME NEW p \in Calls, Between(p) \/ Records(p) \/ MarksCancelled(p)
      PROVE  BesideInv' /\ beside \subseteq beside'
  <2>1. ASSUME NEW answer \in Answers, AsksPlatform(p, answer)
        PROVE  BesideInv' /\ beside \subseteq beside'
    BY <1>2, <2>1 DEF AsksPlatform, Ends
  <2>2. QED
    BY <1>1, <1>2, <1>4, <2>1 DEF Between, FindsNone, Records, MarksCancelled, ReadsRecord, LooksUp,
       Leaves, Books, CancelsRaw, Ends
<1>5. QED
  BY <1>3, <1>4 DEF Next, Between, Deletes, vars

LEMMA OneStep ==
    ASSUME Typed, BesideInv, CreateInv, OneRecord, [Next]_vars
    PROVE  CreateInv' /\ OneRecord'
<1>1. beside \subseteq beside'
  BY BesideStep
<1>2. ASSUME NEW p \in Calls, Between(p) PROVE CreateInv' /\ OneRecord'
  <2>1. rows' = rows
    BY <1>2, RowsOfBetween
  <2>2. OneRecord'
    BY <1>1, <2>1 DEF OneRecord, Kept
  <2>3. \A q \in Calls : pc'[q] = "create" =>
            \/ pc[q] = "create" /\ work'[q] = work[q]
            \/ FindBooking(work[q]) = {} /\ work'[q] = work[q]
    BY <1>2 DEF Between, FindsNone, ReadsRecord, AsksPlatform, LooksUp, Leaves, Books, CancelsRaw,
       Starts, Goto, Ends, Typed, TypeOK
  <2>4. QED
    BY <1>1, <2>1, <2>2, <2>3 DEF CreateInv, FindBooking, Kept
<1>3. ASSUME NEW p \in Calls, Records(p) PROVE CreateInv' /\ OneRecord'
  <2> DEFINE new == Len(rows) + 1
  <2>1. /\ DOMAIN rows' = DOMAIN rows \cup {new} /\ new \notin DOMAIN rows
        /\ \A i \in DOMAIN rows : rows'[i] = rows[i]
        /\ rows'[new].number = work[p] /\ rows'[new].by = p
    BY <1>3, RowAdded
  <2> HIDE DEF new
  <2>2. Kept' \subseteq Kept \cup {new}
    BY <2>1 DEF Kept
  <2>3. pc[p] = "create" /\ beside' = beside
    BY <1>3 DEF Records
  <2>4. \A q \in Calls : pc'[q] = "create" => q # p /\ pc[q] = "create" /\ work'[q] = work[q]
    BY <1>3 DEF Records, Ends, Goto, Typed, TypeOK
  <2>5. \A i \in Kept : rows'[i] = rows[i] /\ i # new
    BY <2>1 DEF Kept
  <2>6. CreateInv'
    <3> SUFFICES ASSUME NEW q \in Calls, NEW i \in Kept', pc'[q] = "create",
                        rows'[i].number = work'[q]
                 PROVE  {rows'[i].by, q} \in beside
      BY <2>3 DEF CreateInv
    <3>1. CASE i = new
      BY <2>1, <2>3, <2>4, <3>1 DEF BesideInv, Settled
    <3>2. CASE i \in Kept
      BY <2>4, <2>5, <3>2 DEF CreateInv
    <3>3. QED
      BY <2>2, <3>1, <3>2
  <2>7. OneRecord'
    <3> SUFFICES ASSUME NEW i \in Kept', NEW j \in Kept', i # j, rows'[i].number = rows'[j].number
                 PROVE  {rows'[i].by, rows'[j].by} \in beside
      BY <2>3 DEF OneRecord
    <3>1. ASSUME NEW k \in Kept, rows[k].number = work[p] PROVE {rows[k].by, p} \in beside
      BY <2>3, <3>1 DEF CreateInv
    <3>2. CASE i = new
      <4>1. j \in Kept /\ rows'[j] = rows[j]
        BY <2>2, <2>5, <3>2
      <4>2. {rows[j].by, p} \in beside
        BY <2>1, <3>1, <3>2, <4>1
      <4>3. QED
        BY <2>1, <3>2, <4>1, <4>2
    <3>3. CASE j = new
      BY <2>1, <2>2, <2>5, <3>1, <3>3
    <3>4. CASE i \in Kept /\ j \in Kept
      BY <2>5, <3>4 DEF OneRecord
    <3>5. QED
      BY <2>2, <3>2, <3>3, <3>4
  <2>8. QED
    BY <2>6, <2>7
<1>4. ASSUME DOMAIN rows' = DOMAIN rows,
             \A i \in DOMAIN rows : /\ rows'[i].number = rows[i].number
                                    /\ rows'[i].by = rows[i].by
                                    /\ rows[i].deleted => rows'[i].deleted,
             \A q \in Calls : pc'[q] = "create" => pc[q] = "create" /\ work'[q] = work[q]
      PROVE  CreateInv' /\ OneRecord'
  <2>1. Kept' \subseteq Kept
    BY <1>4 DEF Kept
  <2>2. \A i \in Kept : i \in DOMAIN rows
    BY DEF Kept
  <2>3. QED
    BY <1>1, <1>4, <2>1, <2>2 DEF CreateInv, OneRecord
<1>5. ASSUME NEW p \in Calls, MarksCancelled(p) PROVE CreateInv' /\ OneRecord'
  <2>1. \A q \in Calls : pc'[q] = "create" => pc[q] = "create" /\ work'[q] = work[q]
    BY <1>5 DEF MarksCancelled, Ends, Goto, Typed, TypeOK
  <2>2. QED
    BY <1>4, <1>5, <2>1, Marked
<1>6. ASSUME NEW d \in DOMAIN rows, Deletes(d) PROVE CreateInv' /\ OneRecord'
  <2>1. UNCHANGED <<pc, work>>
    BY <1>6 DEF Deletes
  <2>2. QED
    BY <1>4, <1>6, <2>1, Deleted
<1>7. CASE UNCHANGED vars
  BY <1>7 DEF vars, CreateInv, OneRecord, Kept
<1>8. QED
  BY <1>2, <1>3, <1>5, <1>6, <1>7 DEF Next, Between
-----------------------------------------------------------------------------
LEMMA Invariance == Spec => []Inv
<1>1. Init => Inv
  <2> SUFFICES ASSUME Init PROVE Inv
    OBVIOUS
  <2>1. rows = <<>> /\ rows \in Seq(Row) /\ DOMAIN rows = {}
    BY DEF Init
  <2>2. Typed
    BY <2>1 DEF Init, Typed, TypeOK, Settled, Row
  <2>3. Kept = {}
    BY <2>1 DEF Kept
  <2>4. QED
    BY <2>1, <2>2, <2>3 DEF Init, Inv, PendingInv, CancelledOnPlatform, BesideInv,
       CreateInv, OneRecord, Settled
<1>2. Inv /\ [Next]_vars => Inv'
  BY TypedStep, CancelStep, BesideStep, OneStep DEF Inv
<1>3. QED
  BY <1>1, <1>2, PTL DEF Spec

(* Types, and the number or the record that each step of a call works on.  *)
THEOREM TypeCorrect == Spec => []TypeOK
<1>1. Inv => TypeOK
  BY DEF Inv, Typed
<1>2. QED
  BY <1>1, Invariance, PTL

(* A flight or train booking is never shown as cancelled while its order   *)
(* stands, however many calls overlap, die or have their answers lost,     *)
(* unless the platform refused in plain text.                              *)
(* (BookingCancellationService.cancel, _persist_booking)                   *)
THEOREM CancellationSafety == Spec => []CancelledOnPlatform
<1>1. Inv => CancelledOnPlatform
  BY DEF Inv
<1>2. QED
  BY <1>1, Invariance, PTL

(* Two kept records of an order were made by calls that overlapped,        *)
(* however many calls there are.  (_find_booking in _persist_booking)      *)
THEOREM RecordedOnce == Spec => []OneRecord
<1>1. Inv => OneRecord
  BY DEF Inv
<1>2. QED
  BY <1>1, Invariance, PTL
=============================================================================
