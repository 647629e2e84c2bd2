------------------------ MODULE WorkerExecutorProofs ------------------------
(***************************************************************************)
(* The safety of the worker processes, for any number of calls.            *)
(*                                                                         *)
(* Responses are matched by a request_id that several calls share, so a    *)
(* call gets its own response only because a worker never holds more than  *)
(* one envelope.  CarryInv says that: the worker of a call that waits      *)
(* carries its envelope once, as request, work or response, and a worker   *)
(* that the next call may be given carries nothing.                        *)
(***************************************************************************)
EXTENDS WorkerExecutor, FiniteSetTheorems, SequenceTheorems, TLAPS

Inside == {"ensure", "starting", "send", "waiting"}
Before == {"open", "list"}   \* close() has not asked the worker yet

LockInv == \A c \in Callers : pc[c] \in Inside <=> lock = c

UsedInv ==
    /\ \A c \in Callers : pc[c] \in {"starting", "send", "waiting"} => mine[c] \in 1 .. launched
    /\ closer = "grace" => closing # 0

(* Each call launches one worker at most. *)
Beyond == {c \in Callers : pc[c] \notin {"idle", "queued", "ensure"}}
LaunchInv == launched <= Cardinality(Beyond)

FreshInv ==
    \A w \in Workers : w > launched => inbox[w] = <<>> /\ busy[w] = Nobody /\ outbox[w] = <<>>

QuitInv == closer \in Before => \A w \in Workers : inbox[w] \in Seq(Callers)

CurrentInv ==
    /\ shut # {} => closer \in {"clear", "done"}
    /\ closer \in Before =>
         closing = 0 /\ \A c \in Callers : pc[c] \in {"send", "waiting"} => current = mine[c]
    /\ \A c \in Callers : pc[c] = "starting" => current = 0
    /\ closer \notin Before /\ ~slipped => current = 0

(* A worker whose queues and work carry no call, and call c once. *)
Nothing(in, work, out) == in \in {<<>>, <<Quit>>} /\ work = Nobody /\ out = <<>>

Once(in, work, out, c) ==
    \/ in \in {<<c>>, <<c, Quit>>, <<Quit, c>>} /\ work = Nobody /\ out = <<>>
    \/ in \in {<<>>, <<Quit>>} /\ work = c /\ out = <<>>
    \/ in \in {<<>>, <<Quit>>} /\ work = Nobody /\ out = <<c>>

Idle(w) == Nothing(inbox[w], busy[w], outbox[w])
Loaded(w, c) == Once(inbox[w], busy[w], outbox[w], c)

(* The registered worker may be given to the next call. *)
Offered == (lock = Nobody /\ closer \in Before) \/ \E c \in Callers : pc[c] = "ensure"

CarryInv ==
    /\ \A c \in Callers : pc[c] \in {"starting", "send"} => Idle(mine[c])
    /\ \A c \in Callers : pc[c] = "waiting" => Loaded(mine[c], c)
    /\ current # 0 /\ Offered => Idle(current)

LiveInv ==
    /\ ~slipped => \A w \in live :
         w = closing \/ w = current \/ \E c \in Callers : pc[c] = "starting" /\ mine[c] = w
    /\ closer \in {"clear", "done"} => closing \notin live

Inv ==
    /\ TypeOK /\ LockInv /\ UsedInv /\ LaunchInv /\ FreshInv /\ QuitInv /\ CurrentInv
    /\ CarryInv /\ LiveInv /\ OwnResponse
-----------------------------------------------------------------------------
(* The steps by which a call gives up its worker, and those that change    *)
(* neither a call nor a queue.                                             *)
GivesUp(c) == SeesStop(c) \/ SeesDeadWorker(c) \/ TimesOut(c)
Aside == (\E w \in Workers : WorkerDies(w)) \/ WindowPasses \/ Closes \/ CloseEnds \/ CloseClears

(* The number of calls is a number. *)
LEMMA Sizes == Cardinality(Callers) \in Nat
  BY WorkerAssumption, FS_CardinalityType

(* A call that may launch a worker is not yet counted among those beyond. *)
LEMMA LaunchRoom ==
    ASSUME TypeOK, LaunchInv, NEW c \in Callers, pc[c] = "ensure"
    PROVE  launched + 1 \in 1 .. Cardinality(Callers)
<1>1. Beyond \subseteq Callers \ {c}
  BY DEF Beyond
<1>2. IsFiniteSet(Callers \ {c}) /\ Cardinality(Callers \ {c}) = Cardinality(Callers) - 1
  BY WorkerAssumption, FS_RemoveElement
<1>3. Cardinality(Beyond) <= Cardinality(Callers) - 1
  BY <1>1, <1>2, FS_Subset
<1>4. Cardinality(Beyond) \in Nat
  BY <1>1, <1>2, FS_Subset, FS_CardinalityType
<1>5. QED
  BY <1>3, <1>4, Sizes DEF LaunchInv, TypeOK

(* A launch takes a call beyond, and no call comes back. *)
LEMMA LaunchStep ==
    ASSUME TypeOK, LaunchInv, [Next]_vars
    PROVE  LaunchInv'
<1>1. /\ IsFiniteSet(Beyond) /\ IsFiniteSet(Beyond')
      /\ Cardinality(Beyond) \in Nat /\ Cardinality(Beyond') \in Nat
  BY WorkerAssumption, FS_Subset, FS_CardinalityType DEF Beyond
<1>2. CASE Beyond \subseteq Beyond' /\ launched' = launched
  BY <1>1, <1>2, FS_Subset DEF LaunchInv, TypeOK
<1>3. ASSUME NEW c \in Callers, Launches(c), ~TooMany
      PROVE  LaunchInv'
  <2>1. Beyond' = Beyond \cup {c} /\ c \notin Beyond /\ launched' = launched + 1
    BY <1>3 DEF Launches, Goto, Beyond, TypeOK
  <2>2. Cardinality(Beyond') = Cardinality(Beyond) + 1
    BY <1>1, <2>1, FS_AddElement
  <2>3. QED
    BY <1>1, <2>1, <2>2 DEF LaunchInv, TypeOK
<1>4. ASSUME NEW c \in Callers, Arrives(c) \/ CallerStep(c), ~(Launches(c) /\ ~TooMany)
      PROVE  Beyond \subseteq Beyond' /\ launched' = launched
  <2>1. CASE Arrives(c)
    BY <2>1 DEF Arrives, Goto, Beyond, TypeOK, pool
  <2>2. CASE Enters(c) \/ Reuses(c)
    BY <2>2 DEF Enters, Reuses, Goto, Beyond, TypeOK, pool
  <2>3. CASE Launches(c)
    BY <1>4, <2>3 DEF Launches, Leave, Goto, Beyond, TypeOK
  <2>4. CASE BecomesReady(c) \/ StartFails(c)
    BY <2>4 DEF BecomesReady, StartFails, Leave, Goto, Beyond, TypeOK
  <2>5. CASE Sends(c)
    BY <2>5 DEF Sends, Leave, Goto, Beyond, TypeOK, pool
  <2>6. CASE GivesUp(c)
    BY <2>6 DEF GivesUp, SeesStop, SeesDeadWorker, TimesOut, Leave, Goto, Beyond, TypeOK
  <2>7. CASE Receives(c)
    BY <2>7 DEF Receives, Leave, Goto, Beyond, TypeOK, pool
  <2>8. CASE FindsQueueShut(c)
    BY <2>8 DEF FindsQueueShut, Leave, Goto, Beyond, TypeOK, pool
  <2>9. QED
    BY <1>4, <2>1, <2>2, <2>3, <2>4, <2>5, <2>6, <2>7, <2>8 DEF CallerStep, GivesUp
<1>5. ASSUME NEW w \in Workers, Takes(w) \/ Responds(w)
      PROVE  Beyond \subseteq Beyond' /\ launched' = launched
  BY <1>5 DEF Takes, Responds, Beyond, pool
<1>6. ASSUME Aside \/ CloseAsks
      PROVE  Beyond \subseteq Beyond' /\ launched' = launched
  BY <1>6 DEF Aside, WorkerDies, WindowPasses, Closes, CloseAsks, CloseEnds, CloseClears, Beyond, pool
<1>7. CASE UNCHANGED vars
  BY <1>2, <1>7 DEF vars, pool, Beyond
<1>8. QED
  BY <1>2, <1>3, <1>4, <1>5, <1>6, <1>7 DEF Next, CloseStep, Aside, CallerStep
-----------------------------------------------------------------------------
(* Two appended to one. *)
LEMMA AppendPair ==
    ASSUME NEW a, NEW b
    PROVE  Append(<<a>>, b) = <<a, b>>
<1> DEFINE q == Append(<<a>>, b)
           r == <<a, b>>
<1>1. q \in Seq({a, b}) /\ r \in Seq({a, b})
  OBVIOUS
<1>2. Len(q) = 2 /\ Len(r) = 2
  OBVIOUS
<1>3. q[1] = a /\ q[2] = b /\ r[1] = a /\ r[2] = b
  OBVIOUS
<1> HIDE DEF q, r
<1>4. \A i \in 1 .. Len(q) : q[i] = r[i]
  <2>1. \A i \in 1 .. 2 : i = 1 \/ i = 2
    OBVIOUS
  <2>2. QED
    BY <1>2, <1>3, <2>1
<1>5. q = r
  BY <1>1, <1>2, <1>4, SeqEqual
<1>6. QED
  BY <1>5 DEF q, r

(* The queues a worker can have, and what taking from them leaves. *)
LEMMA Queues ==
    ASSUME NEW c \in Callers
    PROVE  /\ Append(<<>>, c) = <<c>> /\ Append(<<>>, Quit) = <<Quit>>
           /\ Append(<<c>>, Quit) = <<c, Quit>> /\ Append(<<Quit>>, c) = <<Quit, c>>
           /\ Head(<<c>>) = c /\ Head(<<Quit>>) = Quit
           /\ Head(<<c, Quit>>) = c /\ Head(<<Quit, c>>) = Quit
           /\ Tail(<<c>>) = <<>> /\ Tail(<<Quit>>) = <<>>
           /\ Tail(<<c, Quit>>) = <<Quit>> /\ Tail(<<Quit, c>>) = <<c>>
           /\ <<c>> # <<>> /\ <<Quit>> # <<>> /\ c # Quit /\ c # Nobody
           /\ <<Quit>> \notin Seq(Callers) /\ <<c, Quit>> \notin Seq(Callers)
           /\ <<Quit, c>> \notin Seq(Callers)
<1>1. c # Quit /\ c # Nobody /\ Quit \notin Callers
  BY WorkerAssumption
<1>2. <<c>> # <<>> /\ <<Quit>> # <<>>
  OBVIOUS
<1>3. \A q \in Seq(Callers) : \A i \in 1 .. Len(q) : q[i] \in Callers
  OBVIOUS
<1>4. /\ <<Quit>>[1] = Quit /\ <<c, Quit>>[2] = Quit /\ <<Quit, c>>[1] = Quit
      /\ Len(<<Quit>>) = 1 /\ Len(<<c, Quit>>) = 2 /\ Len(<<Quit, c>>) = 2
  OBVIOUS
<1>5. <<Quit>> \notin Seq(Callers) /\ <<c, Quit>> \notin Seq(Callers) /\ <<Quit, c>> \notin Seq(Callers)
  BY <1>1, <1>3, <1>4
<1>6. /\ Append(<<>>, c) = <<c>> /\ Append(<<>>, Quit) = <<Quit>>
      /\ Append(<<c>>, Quit) = <<c, Quit>> /\ Append(<<Quit>>, c) = <<Quit, c>>
  <2>1. Append(<<>>, c) = <<c>>
    OBVIOUS
  <2>2. Append(<<>>, Quit) = <<Quit>>
    OBVIOUS
  <2>3. QED
    BY <2>1, <2>2, AppendPair
<1>7. /\ Head(<<c>>) = c /\ Head(<<Quit>>) = Quit
      /\ Head(<<c, Quit>>) = c /\ Head(<<Quit, c>>) = Quit
  OBVIOUS
<1>8. /\ Tail(<<c>>) = <<>> /\ Tail(<<Quit>>) = <<>>
      /\ Tail(<<c, Quit>>) = <<Quit>> /\ Tail(<<Quit, c>>) = <<c>>
  OBVIOUS
<1>9. QED
  BY <1>1, <1>2, <1>5, <1>6, <1>7, <1>8

(* Appending to a queue, and taking from it. *)
LEMMA QueueTypes ==
    ASSUME NEW S, NEW q \in Seq(S)
    PROVE  /\ \A x \in S : Append(q, x) \in Seq(S)
           /\ q # <<>> => Head(q) \in S /\ Tail(q) \in Seq(S)
  OBVIOUS
-----------------------------------------------------------------------------
(* Every step keeps every variable in its type. *)
LEMMA TypeStep ==
    ASSUME TypeOK, LaunchInv, UsedInv, [Next]_vars
    PROVE  TypeOK'
<1> USE Sizes
<1> USE DEF TypeOK, Ended, Workers
<1>1. ASSUME NEW c \in Callers, Arrives(c)
      PROVE  TypeOK'
  BY <1>1 DEF Arrives, Goto, pool, queues, ending
<1>2. ASSUME NEW c \in Callers, Enters(c)
      PROVE  TypeOK'
  BY <1>2 DEF Enters, Goto, pool, queues, ending
<1>3. ASSUME NEW c \in Callers, Reuses(c)
      PROVE  TypeOK'
  BY <1>3 DEF Reuses, Goto, pool, queues, ending
<1>4. ASSUME NEW c \in Callers, Launches(c)
      PROVE  TypeOK'
  <2>1. launched + 1 \in 1 .. Cardinality(Callers)
    BY <1>4, LaunchRoom DEF Launches
  <2>2. TooMany \/ recent + 1 \in 0 .. MaxRestarts
    BY WorkerAssumption DEF TooMany
  <2>3. lock' \in Callers \cup {Nobody} /\ closing' = closing /\ shut' = shut
    BY <1>4 DEF Launches, Leave, Released, ending
  <2>4. CASE TooMany
    <3>1. /\ current' = 0 /\ UNCHANGED <<launched, live, recent, mine, queues, answer, ending>>
          /\ pc' = [pc EXCEPT ![c] = "crashed"]
      BY <1>4, <2>4 DEF Launches, Leave, Goto
    <3>2. QED
      BY <2>3, <3>1 DEF queues, ending
  <2>5. CASE ~TooMany
    <3>1. recent' = recent + 1 /\ launched' = launched + 1 /\ current' = 0
      BY <1>4, <2>5 DEF Launches
    <3>2. live' = live \cup {launched + 1} /\ mine' = [mine EXCEPT ![c] = launched + 1]
      BY <1>4, <2>5 DEF Launches
    <3>3. live' \subseteq 1 .. launched' /\ shut' \subseteq 1 .. launched'
      BY <2>1, <2>3, <3>1, <3>2
    <3>4. mine' \in [Callers -> 0 .. launched'] /\ closing' \in 0 .. launched'
      BY <2>1, <2>3, <3>1, <3>2
    <3>5. QED
      BY <1>4, <2>1, <2>2, <2>3, <2>5, <3>1, <3>3, <3>4 DEF Launches, Goto, queues, ending
  <2>6. QED
    BY <2>4, <2>5
<1>5. ASSUME NEW c \in Callers, BecomesReady(c)
      PROVE  TypeOK'
  BY <1>5 DEF BecomesReady, Goto, queues, closed
<1>6. ASSUME NEW c \in Callers, StartFails(c)
      PROVE  TypeOK'
  BY <1>6 DEF StartFails, Terminated, Leave, Released, Goto, queues, ending
<1>7. ASSUME NEW c \in Callers, Sends(c)
      PROVE  TypeOK'
  <2>1. mine[c] \in Workers
    BY <1>7 DEF Sends, UsedInv
  <2>2. Append(inbox[mine[c]], c) \in Seq(Callers \cup {Quit})
    BY <2>1, QueueTypes
  <2>3. inbox' \in [Workers -> Seq(Callers \cup {Quit})]
    BY <1>7, <2>1, <2>2 DEF Sends
  <2>4. QED
    BY <1>7, <2>3 DEF Sends, Leave, Released, Goto, pool, ending
<1>8. ASSUME NEW c \in Callers, GivesUp(c)
      PROVE  TypeOK'
  <2>1. /\ current' = 0 /\ live' \subseteq live /\ lock' \in {lock, Nobody}
        /\ UNCHANGED <<launched, recent, shut, queues, mine, answer, ending>>
    BY <1>8 DEF GivesUp, SeesStop, SeesDeadWorker, TimesOut, OnTimeout, Discarded, Leave, Released
  <2>2. pc' \in {[pc EXCEPT ![c] = how] : how \in Ended}
    BY <1>8 DEF GivesUp, SeesStop, SeesDeadWorker, TimesOut, Leave, Goto
  <2>3. pc' \in [Callers -> Ended \cup {"idle", "queued", "ensure", "starting", "send", "waiting"}]
    BY <2>2
  <2>4. lock' \in Callers \cup {Nobody} /\ live' \subseteq 1 .. launched'
    BY <2>1
  <2>5. UNCHANGED <<launched, recent, shut, inbox, busy, outbox, mine, answer, closer, closing, slipped>>
    BY <2>1 DEF queues, ending
  <2>6. QED
    BY <2>1, <2>3, <2>4, <2>5
<1>9. ASSUME NEW c \in Callers, Receives(c)
      PROVE  TypeOK'
  <2>1. mine[c] \in Workers /\ outbox[mine[c]] \in Seq(Callers) /\ outbox[mine[c]] # <<>>
    BY <1>9 DEF Receives, UsedInv
  <2>2. Head(outbox[mine[c]]) \in Callers /\ Tail(outbox[mine[c]]) \in Seq(Callers)
    BY <2>1, QueueTypes
  <2>3. outbox' \in [Workers -> Seq(Callers)]
    BY <1>9, <2>1, <2>2 DEF Receives
  <2>4. QED
    BY <1>9, <2>2, <2>3 DEF Receives, Leave, Released, Goto, pool, ending
<1>10. ASSUME NEW c \in Callers, FindsQueueShut(c)
       PROVE  TypeOK'
  BY <1>10 DEF FindsQueueShut, Leave, Released, Goto, pool, queues, ending
<1>11. ASSUME NEW w \in Workers, Takes(w)
       PROVE  TypeOK'
  <2>1. inbox[w] \in Seq(Callers \cup {Quit}) /\ inbox[w] # <<>>
    BY <1>11 DEF Takes
  <2>2. Head(inbox[w]) \in Callers \cup {Quit} /\ Tail(inbox[w]) \in Seq(Callers \cup {Quit})
    BY <2>1, QueueTypes
  <2>3. inbox' \in [Workers -> Seq(Callers \cup {Quit})]
    BY <1>11, <2>2 DEF Takes
  <2>4. QED
    BY <1>11, <2>2, <2>3 DEF Takes, ending
<1>12. ASSUME NEW w \in Workers, Responds(w)
       PROVE  TypeOK'
  <2>1. busy[w] \in Callers /\ outbox[w] \in Seq(Callers)
    BY <1>12 DEF Responds
  <2>2. Append(outbox[w], busy[w]) \in Seq(Callers)
    BY <2>1, QueueTypes
  <2>3. outbox' \in [Workers -> Seq(Callers)]
    BY <1>12, <2>2 DEF Responds
  <2>4. QED
    BY <1>12, <2>3 DEF Responds, pool, ending
<1>13. CASE Aside
  <2>1. CASE \E w \in Workers : WorkerDies(w)
    BY <2>1 DEF WorkerDies, queues, ending
  <2>2. CASE WindowPasses
    BY <2>2, WorkerAssumption DEF WindowPasses, queues, ending
  <2>3. CASE Closes
    BY <2>3 DEF Closes, pool, queues
  <2>4. CASE CloseEnds
    BY <2>4 DEF CloseEnds, UsedInv, queues
  <2>5. CASE CloseClears
    BY <2>5 DEF CloseClears, queues
  <2>6. QED
    BY <1>13, <2>1, <2>2, <2>3, <2>4, <2>5 DEF Aside
<1>14. CASE CloseAsks
  <2>1. CASE current = 0
    BY <1>14, <2>1 DEF CloseAsks
  <2>2. CASE current # 0
    <3>1. Append(inbox[current], Quit) \in Seq(Callers \cup {Quit})
      <4>1. inbox[current] \in Seq(Callers \cup {Quit}) /\ Quit \in Callers \cup {Quit}
        <5>1. current \in Workers
          BY <2>2
        <5>2. QED
          BY <5>1
      <4>2. QED
        BY <4>1, QueueTypes
    <3>2. inbox' \in [Workers -> Seq(Callers \cup {Quit})]
      BY <1>14, <2>2, <3>1 DEF CloseAsks
    <3>3. QED
      BY <1>14, <2>2, <3>2 DEF CloseAsks
  <2>3. QED
    BY <2>1, <2>2
<1>15. CASE UNCHANGED vars
  BY <1>15 DEF vars, pool, queues, ending
<1>16. QED
  BY <1>1, <1>2, <1>3, <1>4, <1>5, <1>6, <1>7, <1>8, <1>9, <1>10, <1>11, <1>12, <1>13, <1>14, <1>15
     DEF Next, CallerStep, CloseStep, Aside, GivesUp
-----------------------------------------------------------------------------
(* The lock is held by the one call inside. *)
LEMMA LockStep ==
    ASSUME TypeOK, LockInv, [Next]_vars
    PROVE  LockInv'
<1>1. ASSUME NEW c \in Callers, Arrives(c)
      PROVE  LockInv'
  BY <1>1, WorkerAssumption DEF Arrives, Goto, pool, queues, ending, TypeOK, Ended, LockInv,
     Inside
<1>2. ASSUME NEW c \in Callers, Enters(c)
      PROVE  LockInv'
  BY <1>2, WorkerAssumption DEF Enters, Goto, LockIsFree, closed, pool, queues, ending, TypeOK,
     Ended, LockInv, Inside
<1>3. ASSUME NEW c \in Callers, Reuses(c)
      PROVE  LockInv'
  BY <1>3, WorkerAssumption DEF Reuses, Goto, pool, queues, ending, TypeOK, Ended, LockInv,
     Inside
<1>4. ASSUME NEW c \in Callers, Launches(c)
      PROVE  LockInv'
  BY <1>4, WorkerAssumption DEF Launches, Leave, Released, Goto, queues, ending, TypeOK, Ended,
     LockInv, Inside
<1>5. ASSUME NEW c \in Callers, BecomesReady(c)
      PROVE  LockInv'
  BY <1>5, WorkerAssumption DEF BecomesReady, Goto, closed, queues, TypeOK, Ended, LockInv,
     Inside
<1>6. ASSUME NEW c \in Callers, StartFails(c)
      PROVE  LockInv'
  BY <1>6, WorkerAssumption DEF StartFails, Terminated, Leave, Released, Goto, queues, ending,
     TypeOK, Ended, LockInv, Inside
<1>7. ASSUME NEW c \in Callers, Sends(c)
      PROVE  LockInv'
  BY <1>7, WorkerAssumption DEF Sends, Leave, Released, Goto, pool, ending, TypeOK, Ended,
     LockInv, Inside
<1>8. ASSUME NEW c \in Callers, GivesUp(c)
      PROVE  LockInv'
  BY <1>8, WorkerAssumption DEF GivesUp, SeesStop, SeesDeadWorker, TimesOut, OnTimeout,
     Discarded, Leave, Released, Goto, queues, ending, TypeOK, Ended, LockInv, Inside
<1>9. ASSUME NEW c \in Callers, Receives(c)
      PROVE  LockInv'
  BY <1>9, WorkerAssumption DEF Receives, Leave, Released, Goto, pool, ending, TypeOK, Ended,
     LockInv, Inside
<1>10. ASSUME NEW c \in Callers, FindsQueueShut(c)
       PROVE  LockInv'
  BY <1>10, WorkerAssumption DEF FindsQueueShut, Leave, Released, Goto, pool, queues, ending,
     TypeOK, Ended, LockInv, Inside
<1>11. ASSUME NEW w \in Workers, Takes(w)
       PROVE  LockInv'
  BY <1>11, WorkerAssumption DEF Takes, ending, TypeOK, Ended, LockInv, Inside
<1>12. ASSUME NEW w \in Workers, Responds(w)
       PROVE  LockInv'
  BY <1>12, WorkerAssumption DEF Responds, pool, ending, TypeOK, Ended, LockInv, Inside
<1>13. ASSUME NEW w \in Workers, WorkerDies(w)
       PROVE  LockInv'
  BY <1>13, WorkerAssumption DEF WorkerDies, queues, ending, TypeOK, Ended, LockInv, Inside
<1>14. CASE WindowPasses
  BY <1>14, WorkerAssumption DEF WindowPasses, queues, ending, TypeOK, Ended, LockInv, Inside
<1>15. CASE Closes
  BY <1>15, WorkerAssumption DEF Closes, pool, queues, TypeOK, Ended, LockInv, Inside
<1>16. CASE CloseAsks
  BY <1>16, WorkerAssumption DEF CloseAsks, TypeOK, Ended, LockInv, Inside
<1>17. CASE CloseEnds
  BY <1>17, WorkerAssumption DEF CloseEnds, queues, TypeOK, Ended, LockInv, Inside
<1>18. CASE CloseClears
  BY <1>18, WorkerAssumption DEF CloseClears, queues, TypeOK, Ended, LockInv, Inside
<1>19. CASE UNCHANGED vars
  BY <1>19, WorkerAssumption DEF vars, pool, queues, ending, TypeOK, Ended, LockInv, Inside
<1>20. QED
  BY <1>1, <1>2, <1>3, <1>4, <1>5, <1>6, <1>7, <1>8, <1>9, <1>10, <1>11, <1>12, <1>13, <1>14,
     <1>15, <1>16, <1>17, <1>18, <1>19 DEF Next, CallerStep, CloseStep, GivesUp

(* The workers in use have been launched. *)
LEMMA UsedStep ==
    ASSUME TypeOK, UsedInv, [Next]_vars
    PROVE  UsedInv'
<1>1. ASSUME NEW c \in Callers, Arrives(c)
      PROVE  UsedInv'
  BY <1>1 DEF Arrives, Goto, pool, queues, ending, TypeOK, Ended, UsedInv
<1>2. ASSUME NEW c \in Callers, Enters(c)
      PROVE  UsedInv'
  BY <1>2 DEF Enters, Goto, LockIsFree, closed, pool, queues, ending, TypeOK, Ended, UsedInv
<1>3. ASSUME NEW c \in Callers, Reuses(c)
      PROVE  UsedInv'
  BY <1>3 DEF Reuses, Goto, pool, queues, ending, TypeOK, Ended, UsedInv
<1>4. ASSUME NEW c \in Callers, Launches(c)
      PROVE  UsedInv'
  BY <1>4 DEF Launches, Leave, Released, Goto, queues, ending, TypeOK, Ended, UsedInv
<1>5. ASSUME NEW c \in Callers, BecomesReady(c)
      PROVE  UsedInv'
  BY <1>5 DEF BecomesReady, Goto, closed, queues, TypeOK, Ended, UsedInv
<1>6. ASSUME NEW c \in Callers, StartFails(c)
      PROVE  UsedInv'
  BY <1>6 DEF StartFails, Terminated, Leave, Released, Goto, queues, ending, TypeOK, Ended,
     UsedInv
<1>7. ASSUME NEW c \in Callers, Sends(c)
      PROVE  UsedInv'
  BY <1>7 DEF Sends, Leave, Released, Goto, pool, ending, TypeOK, Ended, UsedInv
<1>8. ASSUME NEW c \in Callers, GivesUp(c)
      PROVE  UsedInv'
  BY <1>8 DEF GivesUp, SeesStop, SeesDeadWorker, TimesOut, OnTimeout, Discarded, Leave,
     Released, Goto, queues, ending, TypeOK, Ended, UsedInv
<1>9. ASSUME NEW c \in Callers, Receives(c)
      PROVE  UsedInv'
  BY <1>9 DEF Receives, Leave, Released, Goto, pool, ending, TypeOK, Ended, UsedInv
<1>10. ASSUME NEW c \in Callers, FindsQueueShut(c)
       PROVE  UsedInv'
  BY <1>10 DEF FindsQueueShut, Leave, Released, Goto, pool, queues, ending, TypeOK, Ended,
     UsedInv
<1>11. ASSUME NEW w \in Workers, Takes(w)
       PROVE  UsedInv'
  BY <1>11 DEF Takes, ending, TypeOK, Ended, UsedInv
<1>12. ASSUME NEW w \in Workers, Responds(w)
       PROVE  UsedInv'
  BY <1>12 DEF Responds, pool, ending, TypeOK, Ended, UsedInv
<1>13. ASSUME NEW w \in Workers, WorkerDies(w)
       PROVE  UsedInv'
  BY <1>13 DEF WorkerDies, queues, ending, TypeOK, Ended, UsedInv
<1>14. CASE WindowPasses
  BY <1>14 DEF WindowPasses, queues, ending, TypeOK, Ended, UsedInv
<1>15. CASE Closes
  BY <1>15 DEF Closes, pool, queues, TypeOK, Ended, UsedInv
<1>16. CASE CloseAsks
  BY <1>16 DEF CloseAsks, TypeOK, Ended, UsedInv
<1>17. CASE CloseEnds
  BY <1>17 DEF CloseEnds, queues, TypeOK, Ended, UsedInv
<1>18. CASE CloseClears
  BY <1>18 DEF CloseClears, queues, TypeOK, Ended, UsedInv
<1>19. CASE UNCHANGED vars
  BY <1>19 DEF vars, pool, queues, ending, TypeOK, Ended, UsedInv
<1>20. QED
  BY <1>1, <1>2, <1>3, <1>4, <1>5, <1>6, <1>7, <1>8, <1>9, <1>10, <1>11, <1>12, <1>13, <1>14,
     <1>15, <1>16, <1>17, <1>18, <1>19 DEF Next, CallerStep, CloseStep, GivesUp

(* A worker not yet launched has empty queues. *)
LEMMA FreshStep ==
    ASSUME TypeOK, UsedInv, FreshInv, [Next]_vars
    PROVE  FreshInv'
<1>1. ASSUME NEW c \in Callers, Arrives(c)
      PROVE  FreshInv'
  BY <1>1, Sizes DEF Arrives, Goto, pool, queues, ending, TypeOK, Ended, Workers, UsedInv,
     FreshInv
<1>2. ASSUME NEW c \in Callers, Enters(c)
      PROVE  FreshInv'
  BY <1>2, Sizes DEF Enters, Goto, LockIsFree, closed, pool, queues, ending, TypeOK, Ended,
     Workers, UsedInv, FreshInv
<1>3. ASSUME NEW c \in Callers, Reuses(c)
      PROVE  FreshInv'
  BY <1>3, Sizes DEF Reuses, Goto, pool, queues, ending, TypeOK, Ended, Workers, UsedInv,
     FreshInv
<1>4. ASSUME NEW c \in Callers, Launches(c)
      PROVE  FreshInv'
  BY <1>4, Sizes DEF Launches, Leave, Released, Goto, queues, ending, TypeOK, Ended, Workers,
     UsedInv, FreshInv
<1>5. ASSUME NEW c \in Callers, BecomesReady(c)
      PROVE  FreshInv'
  BY <1>5, Sizes DEF BecomesReady, Goto, closed, queues, TypeOK, Ended, Workers, UsedInv,
     FreshInv
<1>6. ASSUME NEW c \in Callers, StartFails(c)
      PROVE  FreshInv'
  BY <1>6, Sizes DEF StartFails, Terminated, Leave, Released, Goto, queues, ending, TypeOK,
     Ended, Workers, UsedInv, FreshInv
<1>7. ASSUME NEW c \in Callers, Sends(c)
      PROVE  FreshInv'
  BY <1>7, Sizes DEF Sends, Leave, Released, Goto, pool, ending, TypeOK, Ended, Workers,
     UsedInv, FreshInv
<1>8. ASSUME NEW c \in Callers, GivesUp(c)
      PROVE  FreshInv'
  BY <1>8, Sizes DEF GivesUp, SeesStop, SeesDeadWorker, TimesOut, OnTimeout, Discarded, Leave,
     Released, Goto, queues, ending, TypeOK, Ended, Workers, UsedInv, FreshInv
<1>9. ASSUME NEW c \in Callers, Receives(c)
      PROVE  FreshInv'
  BY <1>9, Sizes DEF Receives, Leave, Released, Goto, pool, ending, TypeOK, Ended, Workers,
     UsedInv, FreshInv
<1>10. ASSUME NEW c \in Callers, FindsQueueShut(c)
       PROVE  FreshInv'
  BY <1>10, Sizes DEF FindsQueueShut, Leave, Released, Goto, pool, queues, ending, TypeOK,
     Ended, Workers, UsedInv, FreshInv
<1>11. ASSUME NEW w \in Workers, Takes(w)
       PROVE  FreshInv'
  BY <1>11, Sizes DEF Takes, ending, TypeOK, Ended, Workers, UsedInv, FreshInv
<1>12. ASSUME NEW w \in Workers, Responds(w)
       PROVE  FreshInv'
  BY <1>12, Sizes DEF Responds, pool, ending, TypeOK, Ended, Workers, UsedInv, FreshInv
<1>13. ASSUME NEW w \in Workers, WorkerDies(w)
       PROVE  FreshInv'
  BY <1>13, Sizes DEF WorkerDies, queues, ending, TypeOK, Ended, Workers, UsedInv, FreshInv
<1>14. CASE WindowPasses
  BY <1>14, Sizes DEF WindowPasses, queues, ending, TypeOK, Ended, Workers, UsedInv, FreshInv
<1>15. CASE Closes
  BY <1>15, Sizes DEF Closes, pool, queues, TypeOK, Ended, Workers, UsedInv, FreshInv
<1>16. CASE CloseAsks
  BY <1>16, Sizes DEF CloseAsks, TypeOK, Ended, Workers, UsedInv, FreshInv
<1>17. CASE CloseEnds
  BY <1>17, Sizes DEF CloseEnds, queues, TypeOK, Ended, Workers, UsedInv, FreshInv
<1>18. CASE CloseClears
  BY <1>18, Sizes DEF CloseClears, queues, TypeOK, Ended, Workers, UsedInv, FreshInv
<1>19. CASE UNCHANGED vars
  BY <1>19, Sizes DEF vars, pool, queues, ending, TypeOK, Ended, Workers, UsedInv, FreshInv
<1>20. QED
  BY <1>1, <1>2, <1>3, <1>4, <1>5, <1>6, <1>7, <1>8, <1>9, <1>10, <1>11, <1>12, <1>13, <1>14,
     <1>15, <1>16, <1>17, <1>18, <1>19 DEF Next, CallerStep, CloseStep, GivesUp

(* Only close() asks a worker to quit. *)
LEMMA QuitStep ==
    ASSUME TypeOK, UsedInv, QuitInv, [Next]_vars
    PROVE  QuitInv'
<1>1. ASSUME NEW c \in Callers, Arrives(c)
      PROVE  QuitInv'
  BY <1>1, Sizes DEF Arrives, Goto, pool, queues, ending, TypeOK, Ended, Workers, UsedInv,
     QuitInv, Before
<1>2. ASSUME NEW c \in Callers, Enters(c)
      PROVE  QuitInv'
  BY <1>2, Sizes DEF Enters, Goto, LockIsFree, closed, pool, queues, ending, TypeOK, Ended,
     Workers, UsedInv, QuitInv, Before
<1>3. ASSUME NEW c \in Callers, Reuses(c)
      PROVE  QuitInv'
  BY <1>3, Sizes DEF Reuses, Goto, pool, queues, ending, TypeOK, Ended, Workers, UsedInv,
     QuitInv, Before
<1>4. ASSUME NEW c \in Callers, Launches(c)
      PROVE  QuitInv'
  BY <1>4, Sizes DEF Launches, Leave, Released, Goto, queues, ending, TypeOK, Ended, Workers,
     UsedInv, QuitInv, Before
<1>5. ASSUME NEW c \in Callers, BecomesReady(c)
      PROVE  QuitInv'
  BY <1>5, Sizes DEF BecomesReady, Goto, closed, queues, TypeOK, Ended, Workers, UsedInv,
     QuitInv, Before
<1>6. ASSUME NEW c \in Callers, StartFails(c)
      PROVE  QuitInv'
  BY <1>6, Sizes DEF StartFails, Terminated, Leave, Released, Goto, queues, ending, TypeOK,
     Ended, Workers, UsedInv, QuitInv, Before
<1>7. ASSUME NEW c \in Callers, Sends(c)
      PROVE  QuitInv'
  <2>1. mine[c] \in Workers
    BY <1>7, Sizes DEF Sends, UsedInv, TypeOK, Workers
  <2>2. closer \in Before => Append(inbox[mine[c]], c) \in Seq(Callers)
    <3>1. closer \in Before => inbox[mine[c]] \in Seq(Callers)
      BY <2>1 DEF QuitInv
    <3>2. QED
      BY <3>1, QueueTypes
  <2>3. inbox' \in {inbox, [inbox EXCEPT ![mine[c]] = Append(@, c)]} /\ closer' = closer
    BY <1>7 DEF Sends, Leave, ending
  <2>4. QED
    BY <2>2, <2>3 DEF QuitInv, TypeOK
<1>8. ASSUME NEW c \in Callers, GivesUp(c)
      PROVE  QuitInv'
  BY <1>8, Sizes DEF GivesUp, SeesStop, SeesDeadWorker, TimesOut, OnTimeout, Discarded, Leave,
     Released, Goto, queues, ending, TypeOK, Ended, Workers, UsedInv, QuitInv, Before
<1>9. ASSUME NEW c \in Callers, Receives(c)
      PROVE  QuitInv'
  BY <1>9, Sizes DEF Receives, Leave, Released, Goto, pool, ending, TypeOK, Ended, Workers,
     UsedInv, QuitInv, Before
<1>10. ASSUME NEW c \in Callers, FindsQueueShut(c)
       PROVE  QuitInv'
  BY <1>10, Sizes DEF FindsQueueShut, Leave, Released, Goto, pool, queues, ending, TypeOK,
     Ended, Workers, UsedInv, QuitInv, Before
<1>11. ASSUME NEW w \in Workers, Takes(w)
       PROVE  QuitInv'
  BY <1>11, Sizes DEF Takes, ending, TypeOK, Ended, Workers, UsedInv, QuitInv, Before
<1>12. ASSUME NEW w \in Workers, Responds(w)
       PROVE  QuitInv'
  BY <1>12, Sizes DEF Responds, pool, ending, TypeOK, Ended, Workers, UsedInv, QuitInv, Before
<1>13. ASSUME NEW w \in Workers, WorkerDies(w)
       PROVE  QuitInv'
  BY <1>13, Sizes DEF WorkerDies, queues, ending, TypeOK, Ended, Workers, UsedInv, QuitInv,
     Before
<1>14. CASE WindowPasses
  BY <1>14, Sizes DEF WindowPasses, queues, ending, TypeOK, Ended, Workers, UsedInv, QuitInv,
     Before
<1>15. CASE Closes
  BY <1>15, Sizes DEF Closes, pool, queues, TypeOK, Ended, Workers, UsedInv, QuitInv, Before
<1>16. CASE CloseAsks
  BY <1>16, Sizes DEF CloseAsks, TypeOK, Ended, Workers, UsedInv, QuitInv, Before
<1>17. CASE CloseEnds
  BY <1>17, Sizes DEF CloseEnds, queues, TypeOK, Ended, Workers, UsedInv, QuitInv, Before
<1>18. CASE CloseClears
  BY <1>18, Sizes DEF CloseClears, queues, TypeOK, Ended, Workers, UsedInv, QuitInv, Before
<1>19. CASE UNCHANGED vars
  BY <1>19, Sizes DEF vars, pool, queues, ending, TypeOK, Ended, Workers, UsedInv, QuitInv,
     Before
<1>20. QED
  BY <1>1, <1>2, <1>3, <1>4, <1>5, <1>6, <1>7, <1>8, <1>9, <1>10, <1>11, <1>12, <1>13, <1>14,
     <1>15, <1>16, <1>17, <1>18, <1>19 DEF Next, CallerStep, CloseStep, GivesUp

(* The registered worker is that of the call inside. *)
LEMMA CurrentStep ==
    ASSUME TypeOK, LockInv, CurrentInv, [Next]_vars
    PROVE  CurrentInv'
<1>1. ASSUME NEW c \in Callers, Arrives(c)
      PROVE  CurrentInv'
  BY <1>1, WorkerAssumption DEF Arrives, Goto, pool, queues, ending, TypeOK, Ended, LockInv,
     Inside, CurrentInv, Before
<1>2. ASSUME NEW c \in Callers, Enters(c)
      PROVE  CurrentInv'
  BY <1>2, WorkerAssumption DEF Enters, Goto, LockIsFree, closed, pool, queues, ending, TypeOK,
     Ended, LockInv, Inside, CurrentInv, Before
<1>3. ASSUME NEW c \in Callers, Reuses(c)
      PROVE  CurrentInv'
  BY <1>3, WorkerAssumption DEF Reuses, Goto, pool, queues, ending, TypeOK, Ended, LockInv,
     Inside, CurrentInv, Before
<1>4. ASSUME NEW c \in Callers, Launches(c)
      PROVE  CurrentInv'
  BY <1>4, WorkerAssumption DEF Launches, Leave, Released, Goto, queues, ending, TypeOK, Ended,
     LockInv, Inside, CurrentInv, Before
<1>5. ASSUME NEW c \in Callers, BecomesReady(c)
      PROVE  CurrentInv'
  BY <1>5, WorkerAssumption DEF BecomesReady, Goto, closed, queues, TypeOK, Ended, LockInv,
     Inside, CurrentInv, Before
<1>6. ASSUME NEW c \in Callers, StartFails(c)
      PROVE  CurrentInv'
  BY <1>6, WorkerAssumption DEF StartFails, Terminated, Leave, Released, Goto, queues, ending,
     TypeOK, Ended, LockInv, Inside, CurrentInv, Before
<1>7. ASSUME NEW c \in Callers, Sends(c)
      PROVE  CurrentInv'
  BY <1>7, WorkerAssumption DEF Sends, Leave, Released, Goto, pool, ending, TypeOK, Ended,
     LockInv, Inside, CurrentInv, Before
<1>8. ASSUME NEW c \in Callers, GivesUp(c)
      PROVE  CurrentInv'
  BY <1>8, WorkerAssumption DEF GivesUp, SeesStop, SeesDeadWorker, TimesOut, OnTimeout,
     Discarded, Leave, Released, Goto, queues, ending, TypeOK, Ended, LockInv, Inside,
     CurrentInv, Before
<1>9. ASSUME NEW c \in Callers, Receives(c)
      PROVE  CurrentInv'
  BY <1>9, WorkerAssumption DEF Receives, Leave, Released, Goto, pool, ending, TypeOK, Ended,
     LockInv, Inside, CurrentInv, Before
<1>10. ASSUME NEW c \in Callers, FindsQueueShut(c)
       PROVE  CurrentInv'
  BY <1>10, WorkerAssumption DEF FindsQueueShut, Leave, Released, Goto, pool, queues, ending,
     TypeOK, Ended, LockInv, Inside, CurrentInv, Before
<1>11. ASSUME NEW w \in Workers, Takes(w)
       PROVE  CurrentInv'
  BY <1>11, WorkerAssumption DEF Takes, ending, TypeOK, Ended, LockInv, Inside, CurrentInv,
     Before
<1>12. ASSUME NEW w \in Workers, Responds(w)
       PROVE  CurrentInv'
  BY <1>12, WorkerAssumption DEF Responds, pool, ending, TypeOK, Ended, LockInv, Inside,
     CurrentInv, Before
<1>13. ASSUME NEW w \in Workers, WorkerDies(w)
       PROVE  CurrentInv'
  BY <1>13, WorkerAssumption DEF WorkerDies, queues, ending, TypeOK, Ended, LockInv, Inside,
     CurrentInv, Before
<1>14. CASE WindowPasses
  BY <1>14, WorkerAssumption DEF WindowPasses, queues, ending, TypeOK, Ended, LockInv, Inside,
     CurrentInv, Before
<1>15. CASE Closes
  BY <1>15, WorkerAssumption DEF Closes, pool, queues, TypeOK, Ended, LockInv, Inside,
     CurrentInv, Before
<1>16. CASE CloseAsks
  BY <1>16, WorkerAssumption DEF CloseAsks, TypeOK, Ended, LockInv, Inside, CurrentInv, Before
<1>17. CASE CloseEnds
  BY <1>17, WorkerAssumption DEF CloseEnds, queues, TypeOK, Ended, LockInv, Inside, CurrentInv,
     Before
<1>18. CASE CloseClears
  BY <1>18, WorkerAssumption DEF CloseClears, queues, TypeOK, Ended, LockInv, Inside,
     CurrentInv, Before
<1>19. CASE UNCHANGED vars
  BY <1>19, WorkerAssumption DEF vars, pool, queues, ending, TypeOK, Ended, LockInv, Inside,
     CurrentInv, Before
<1>20. QED
  BY <1>1, <1>2, <1>3, <1>4, <1>5, <1>6, <1>7, <1>8, <1>9, <1>10, <1>11, <1>12, <1>13, <1>14,
     <1>15, <1>16, <1>17, <1>18, <1>19 DEF Next, CallerStep, CloseStep, GivesUp
-----------------------------------------------------------------------------
(* What the steps of a worker, of its caller and of close() make of what   *)
(* it carries.                                                             *)
LEMMA NothingSteps ==
    ASSUME NEW in, NEW work, NEW out, Nothing(in, work, out)
    PROVE  /\ work = Nobody /\ out = <<>>
           /\ \A c \in Callers : Once(Append(in, c), work, out, c)
           /\ in # <<>> => Head(in) = Quit /\ Nothing(Tail(in), work, out)
           /\ in \in Seq(Callers) => Nothing(Append(in, Quit), work, out)
<1>1. work = Nobody /\ out = <<>> /\ in \in {<<>>, <<Quit>>}
  BY DEF Nothing
<1>2. \A c \in Callers : Once(Append(in, c), work, out, c)
  BY <1>1, Queues DEF Once
<1>3. in # <<>> => Head(in) = Quit /\ Tail(in) = <<>>
  <2>1. Head(<<Quit>>) = Quit /\ Tail(<<Quit>>) = <<>>
    OBVIOUS
  <2>2. QED
    BY <1>1, <2>1
<1>4. Append(<<>>, Quit) = <<Quit>> /\ <<Quit>> \notin Seq(Callers)
  <2>1. Append(<<>>, Quit) = <<Quit>>
    OBVIOUS
  <2>2. <<Quit>> \in Seq(Callers) => <<Quit>>[1] \in Callers
    OBVIOUS
  <2>3. QED
    BY <2>1, <2>2, WorkerAssumption
<1>5. in \in Seq(Callers) => Nothing(Append(in, Quit), work, out)
  BY <1>1, <1>4 DEF Nothing
<1>6. QED
  BY <1>1, <1>2, <1>3, <1>5 DEF Nothing

LEMMA OnceSteps ==
    ASSUME NEW c \in Callers, NEW in, NEW work, NEW out, Once(in, work, out, c)
    PROVE  /\ work \in {c, Nobody}
           /\ work = Nobody /\ in # <<>> =>
                \/ Head(in) = Quit /\ Once(Tail(in), work, out, c)
                \/ Head(in) = c /\ Once(Tail(in), c, out, c)
           /\ work # Nobody => Once(in, Nobody, Append(out, work), c)
           /\ out # <<>> => Head(out) = c /\ Nothing(in, work, Tail(out))
           /\ in \in Seq(Callers) => Once(Append(in, Quit), work, out, c)
<1>1. work \in {c, Nobody}
  BY DEF Once
<1>2. work = Nobody /\ in # <<>> =>
        \/ Head(in) = Quit /\ Once(Tail(in), work, out, c)
        \/ Head(in) = c /\ Once(Tail(in), c, out, c)
  BY Queues DEF Once
<1>3. work # Nobody => Once(in, Nobody, Append(out, work), c)
  BY Queues DEF Once
<1>4. out # <<>> => Head(out) = c /\ Nothing(in, work, Tail(out))
  BY Queues DEF Once, Nothing
<1>5. in \in Seq(Callers) => Once(Append(in, Quit), work, out, c)
  BY Queues DEF Once
<1>6. QED
  BY <1>1, <1>2, <1>3, <1>4, <1>5

(* The workers CarryInv speaks of are there. *)
LEMMA InUse ==
    ASSUME TypeOK, UsedInv
    PROVE  /\ \A c \in Callers : pc[c] \in {"starting", "send", "waiting"} => mine[c] \in Workers
           /\ current # 0 => current \in Workers
  BY Sizes DEF TypeOK, UsedInv, Workers
-----------------------------------------------------------------------------
(* A worker carries the call that waits for it once, and no other. *)
LEMMA CarryStep ==
    ASSUME TypeOK, LockInv, LaunchInv, UsedInv, FreshInv, QuitInv, CurrentInv, CarryInv, [Next]_vars
    PROVE  CarryInv'
<1>1. ASSUME NEW c \in Callers, Arrives(c)
      PROVE  CarryInv'
  BY <1>1, WorkerAssumption DEF Arrives, Goto, pool, queues, ending, TypeOK, Ended, LockInv,
     Inside, UsedInv, CurrentInv, Before, CarryInv, Idle, Loaded, Offered
<1>2. ASSUME NEW c \in Callers, Enters(c)
      PROVE  CarryInv'
  BY <1>2, WorkerAssumption DEF Enters, Goto, LockIsFree, closed, pool, queues, ending, TypeOK,
     Ended, LockInv, Inside, UsedInv, CurrentInv, Before, CarryInv, Idle, Loaded, Offered
<1>3. ASSUME NEW c \in Callers, Reuses(c)
      PROVE  CarryInv'
  BY <1>3, WorkerAssumption DEF Reuses, Goto, pool, queues, ending, TypeOK, Ended, LockInv,
     Inside, UsedInv, CurrentInv, Before, CarryInv, Idle, Loaded, Offered
<1>4. ASSUME NEW c \in Callers, Launches(c)
      PROVE  CarryInv'
  <2>1. current' = 0 /\ UNCHANGED queues
    BY <1>4 DEF Launches
  <2>2. \A d \in Callers \ {c} : pc[d] \notin Inside /\ pc'[d] = pc[d]
    BY <1>4 DEF Launches, Leave, Goto, LockInv, Inside, TypeOK
  <2>3. CASE TooMany
    <3>1. pc'[c] = "crashed"
      BY <1>4, <2>3 DEF Launches, Leave, Goto, TypeOK
    <3>2. QED
      BY <2>1, <2>2, <3>1 DEF CarryInv, Inside
  <2>4. CASE ~TooMany
    <3>1. pc'[c] = "starting" /\ mine'[c] = launched + 1
      BY <1>4, <2>4 DEF Launches, Goto, TypeOK
    <3>2. launched + 1 \in Workers /\ launched + 1 > launched
      BY <1>4, LaunchRoom DEF Launches, Workers, TypeOK
    <3>3. inbox[launched + 1] = <<>> /\ busy[launched + 1] = Nobody /\ outbox[launched + 1] = <<>>
      BY <3>2 DEF FreshInv
    <3>4. Nothing(inbox[launched + 1], busy[launched + 1], outbox[launched + 1])
      BY <3>3 DEF Nothing
    <3>5. Nothing(inbox'[mine'[c]], busy'[mine'[c]], outbox'[mine'[c]])
      BY <2>1, <3>1, <3>4 DEF queues
    <3>6. QED
      BY <2>1, <2>2, <3>1, <3>5 DEF CarryInv, Inside, Idle
  <2>5. QED
    BY <2>3, <2>4
<1>5. ASSUME NEW c \in Callers, BecomesReady(c)
      PROVE  CarryInv'
  BY <1>5, WorkerAssumption DEF BecomesReady, Goto, closed, queues, TypeOK, Ended, LockInv,
     Inside, UsedInv, CurrentInv, Before, CarryInv, Idle, Loaded, Offered
<1>6. ASSUME NEW c \in Callers, StartFails(c)
      PROVE  CarryInv'
  BY <1>6, WorkerAssumption DEF StartFails, Terminated, Leave, Released, Goto, queues, ending,
     TypeOK, Ended, LockInv, Inside, UsedInv, CurrentInv, Before, CarryInv, Idle, Loaded,
     Offered
<1>7. ASSUME NEW c \in Callers, Sends(c)
      PROVE  CarryInv'
  <2>1. \A d \in Callers \ {c} : pc[d] \notin Inside /\ pc'[d] = pc[d]
    BY <1>7 DEF Sends, Leave, Goto, LockInv, Inside, TypeOK
  <2>2. mine[c] \in Workers /\ mine' = mine /\ current' = current /\ closer' = closer
    BY <1>7, Sizes DEF Sends, UsedInv, TypeOK, Workers, pool, ending
  <2>3. CASE mine[c] \in shut
    <3>1. pc'[c] = "crashed" /\ closer \notin Before
      BY <1>7, <2>3 DEF Sends, Leave, Goto, TypeOK, CurrentInv, Before
    <3>2. QED
      BY <2>1, <2>2, <3>1 DEF CarryInv, Inside, Offered
  <2>4. CASE mine[c] \notin shut
    <3>1. pc'[c] = "waiting" /\ lock' = c
      BY <1>7, <2>4 DEF Sends, Goto, TypeOK, LockInv, Inside
    <3>2. inbox'[mine[c]] = Append(inbox[mine[c]], c) /\ UNCHANGED <<busy, outbox>>
      BY <1>7, <2>2, <2>4 DEF Sends, TypeOK
    <3>3. Nothing(inbox[mine[c]], busy[mine[c]], outbox[mine[c]])
      BY <1>7 DEF Sends, CarryInv, Idle
    <3>4. Once(Append(inbox[mine[c]], c), busy[mine[c]], outbox[mine[c]], c)
      BY <3>3, NothingSteps
    <3>5. Once(inbox'[mine'[c]], busy'[mine'[c]], outbox'[mine'[c]], c)
      BY <2>2, <3>2, <3>4
    <3>6. ~Offered'
      BY <2>1, <3>1, WorkerAssumption DEF Offered, Inside
    <3>7. QED
      BY <2>1, <3>1, <3>5, <3>6 DEF CarryInv, Inside, Loaded
  <2>5. QED
    BY <2>3, <2>4
<1>8. ASSUME NEW c \in Callers, GivesUp(c)
      PROVE  CarryInv'
  BY <1>8, WorkerAssumption DEF GivesUp, SeesStop, SeesDeadWorker, TimesOut, OnTimeout,
     Discarded, Leave, Released, Goto, queues, ending, TypeOK, Ended, LockInv, Inside, UsedInv,
     CurrentInv, Before, CarryInv, Idle, Loaded, Offered
<1>9. ASSUME NEW c \in Callers, Receives(c)
      PROVE  CarryInv'
  <2>1. \A d \in Callers \ {c} : pc[d] \notin Inside /\ pc'[d] = pc[d]
    BY <1>9 DEF Receives, Leave, Goto, LockInv, Inside, TypeOK
  <2>2. /\ mine[c] \in Workers /\ mine' = mine /\ current' = current /\ closer' = closer
        /\ inbox' = inbox /\ busy' = busy
    BY <1>9, Sizes DEF Receives, UsedInv, TypeOK, Workers, pool, ending
  <2>3. outbox[mine[c]] # <<>> /\ outbox'[mine[c]] = Tail(outbox[mine[c]])
    BY <1>9, <2>2 DEF Receives, TypeOK
  <2>4. Once(inbox[mine[c]], busy[mine[c]], outbox[mine[c]], c)
    BY <1>9 DEF Receives, CarryInv, Loaded
  <2>5. /\ Head(outbox[mine[c]]) = c
        /\ Nothing(inbox[mine[c]], busy[mine[c]], Tail(outbox[mine[c]]))
    BY <2>3, <2>4, OnceSteps
  <2>6. Nothing(inbox'[mine'[c]], busy'[mine'[c]], outbox'[mine'[c]])
    BY <2>2, <2>3, <2>5
  <2>7. pc'[c] = "answered"
    BY <1>9, <2>5 DEF Receives, Leave, Goto, TypeOK
  <2>8. current' # 0 /\ Offered' => current' = mine'[c]
    <3>1. ~(\E d \in Callers : pc'[d] = "ensure")
      BY <2>1, <2>7 DEF Inside
    <3>2. closer \in Before => current = mine[c]
      BY <1>9 DEF Receives, CurrentInv
    <3>3. QED
      BY <2>2, <3>1, <3>2 DEF Offered
  <2>9. QED
    BY <2>1, <2>6, <2>7, <2>8 DEF CarryInv, Inside, Idle
<1>10. ASSUME NEW c \in Callers, FindsQueueShut(c)
       PROVE  CarryInv'
  BY <1>10, WorkerAssumption DEF FindsQueueShut, Leave, Released, Goto, pool, queues, ending,
     TypeOK, Ended, LockInv, Inside, UsedInv, CurrentInv, Before, CarryInv, Idle, Loaded,
     Offered
<1>11. ASSUME NEW w \in Workers, Takes(w)
       PROVE  CarryInv'
  <2>1. UNCHANGED <<lock, current, outbox, pc, mine, closer>>
    BY <1>11 DEF Takes, ending
  <2>2. /\ busy[w] = Nobody /\ inbox[w] # <<>> /\ inbox'[w] = Tail(inbox[w])
        /\ Head(inbox[w]) = Quit => busy'[w] = busy[w]
        /\ Head(inbox[w]) # Quit => busy'[w] = Head(inbox[w])
    BY <1>11 DEF Takes, TypeOK
  <2>3. \A v \in Workers \ {w} : inbox'[v] = inbox[v] /\ busy'[v] = busy[v]
    BY <1>11 DEF Takes, TypeOK
  <2>4. ASSUME NEW v \in Workers, Nothing(inbox[v], busy[v], outbox[v])
        PROVE  Nothing(inbox'[v], busy'[v], outbox'[v])
    <3>1. CASE v # w
      BY <2>1, <2>3, <2>4, <3>1
    <3>2. CASE v = w
      <4>1. Head(inbox[w]) = Quit /\ Nothing(Tail(inbox[w]), busy[w], outbox[w])
        BY <2>2, <2>4, <3>2, NothingSteps
      <4>2. QED
        BY <2>1, <2>2, <3>2, <4>1
    <3>3. QED
      BY <3>1, <3>2
  <2>5. ASSUME NEW v \in Workers, NEW c \in Callers, Once(inbox[v], busy[v], outbox[v], c)
        PROVE  Once(inbox'[v], busy'[v], outbox'[v], c)
    <3>1. CASE v # w
      BY <2>1, <2>3, <2>5, <3>1
    <3>2. CASE v = w
      <4>1. \/ Head(inbox[w]) = Quit /\ Once(Tail(inbox[w]), busy[w], outbox[w], c)
            \/ Head(inbox[w]) = c /\ Once(Tail(inbox[w]), c, outbox[w], c)
        BY <2>2, <2>5, <3>2, OnceSteps
      <4>2. c # Quit
        BY WorkerAssumption
      <4>3. QED
        BY <2>1, <2>2, <3>2, <4>1, <4>2
    <3>3. QED
      BY <3>1, <3>2
  <2>6. QED
    BY <2>1, <2>4, <2>5, InUse DEF CarryInv, Idle, Loaded, Offered
<1>12. ASSUME NEW w \in Workers, Responds(w)
       PROVE  CarryInv'
  <2>1. UNCHANGED <<lock, current, inbox, pc, mine, closer>>
    BY <1>12 DEF Responds, pool, ending
  <2>2. busy[w] # Nobody /\ busy'[w] = Nobody /\ outbox'[w] = Append(outbox[w], busy[w])
    BY <1>12 DEF Responds, TypeOK
  <2>3. \A v \in Workers \ {w} : outbox'[v] = outbox[v] /\ busy'[v] = busy[v]
    BY <1>12 DEF Responds, TypeOK
  <2>4. ASSUME NEW v \in Workers, Nothing(inbox[v], busy[v], outbox[v])
        PROVE  Nothing(inbox'[v], busy'[v], outbox'[v])
    BY <2>1, <2>2, <2>3, <2>4, NothingSteps
  <2>5. ASSUME NEW v \in Workers, NEW c \in Callers, Once(inbox[v], busy[v], outbox[v], c)
        PROVE  Once(inbox'[v], busy'[v], outbox'[v], c)
    <3>1. CASE v # w
      BY <2>1, <2>3, <2>5, <3>1
    <3>2. CASE v = w
      <4>1. Once(inbox[w], Nobody, Append(outbox[w], busy[w]), c)
        BY <2>2, <2>5, <3>2, OnceSteps
      <4>2. QED
        BY <2>1, <2>2, <3>2, <4>1
    <3>3. QED
      BY <3>1, <3>2
  <2>6. QED
    BY <2>1, <2>4, <2>5, InUse DEF CarryInv, Idle, Loaded, Offered
<1>13. ASSUME NEW w \in Workers, WorkerDies(w)
       PROVE  CarryInv'
  BY <1>13, WorkerAssumption DEF WorkerDies, queues, ending, TypeOK, Ended, LockInv, Inside,
     UsedInv, CurrentInv, Before, CarryInv, Idle, Loaded, Offered
<1>14. CASE WindowPasses
  BY <1>14, WorkerAssumption DEF WindowPasses, queues, ending, TypeOK, Ended, LockInv, Inside,
     UsedInv, CurrentInv, Before, CarryInv, Idle, Loaded, Offered
<1>15. CASE Closes
  BY <1>15, WorkerAssumption DEF Closes, pool, queues, TypeOK, Ended, LockInv, Inside, UsedInv,
     CurrentInv, Before, CarryInv, Idle, Loaded, Offered
<1>16. CASE CloseAsks
  <2>1. /\ closer = "list" /\ current' = 0
        /\ UNCHANGED <<lock, busy, outbox, pc, mine>>
    BY <1>16 DEF CloseAsks
  <2>2. \A v \in Workers : inbox[v] \in Seq(Callers)
    BY <2>1 DEF QuitInv, Before
  <2>3. \A v \in Workers : inbox'[v] \in {inbox[v], Append(inbox[v], Quit)}
    BY <1>16 DEF CloseAsks, TypeOK
  <2>4. ASSUME NEW v \in Workers, Nothing(inbox[v], busy[v], outbox[v])
        PROVE  Nothing(inbox'[v], busy'[v], outbox'[v])
    <3>1. inbox[v] \in Seq(Callers) /\ inbox'[v] \in {inbox[v], Append(inbox[v], Quit)}
      BY <2>2, <2>3
    <3>2. Nothing(Append(inbox[v], Quit), busy[v], outbox[v])
      BY <2>4, <3>1, NothingSteps
    <3>3. QED
      BY <2>1, <2>4, <3>1, <3>2
  <2>5. ASSUME NEW v \in Workers, NEW c \in Callers, Once(inbox[v], busy[v], outbox[v], c)
        PROVE  Once(inbox'[v], busy'[v], outbox'[v], c)
    <3>1. inbox[v] \in Seq(Callers) /\ inbox'[v] \in {inbox[v], Append(inbox[v], Quit)}
      BY <2>2, <2>3
    <3>2. Once(Append(inbox[v], Quit), busy[v], outbox[v], c)
      BY <2>5, <3>1, OnceSteps
    <3>3. QED
      BY <2>1, <2>5, <3>1, <3>2
  <2>6. QED
    BY <2>1, <2>4, <2>5, InUse DEF CarryInv, Idle, Loaded
<1>17. CASE CloseEnds
  BY <1>17, WorkerAssumption DEF CloseEnds, queues, TypeOK, Ended, LockInv, Inside, UsedInv,
     CurrentInv, Before, CarryInv, Idle, Loaded, Offered
<1>18. CASE CloseClears
  BY <1>18, WorkerAssumption DEF CloseClears, queues, TypeOK, Ended, LockInv, Inside, UsedInv,
     CurrentInv, Before, CarryInv, Idle, Loaded, Offered
<1>19. CASE UNCHANGED vars
  BY <1>19, WorkerAssumption DEF vars, pool, queues, ending, TypeOK, Ended, LockInv, Inside,
     UsedInv, CurrentInv, Before, CarryInv, Idle, Loaded, Offered
<1>20. QED
  BY <1>1, <1>2, <1>3, <1>4, <1>5, <1>6, <1>7, <1>8, <1>9, <1>10, <1>11, <1>12, <1>13, <1>14,
     <1>15, <1>16, <1>17, <1>18, <1>19 DEF Next, CallerStep, CloseStep, GivesUp

(* A live worker is registered, is starting, or is being shut down. *)
LEMMA LiveStep ==
    ASSUME TypeOK, LockInv, UsedInv, CurrentInv, LiveInv, [Next]_vars
    PROVE  LiveInv'
<1>1. ASSUME NEW c \in Callers, Arrives(c)
      PROVE  LiveInv'
  BY <1>1, WorkerAssumption DEF Arrives, Goto, pool, queues, ending, TypeOK, Ended, LockInv,
     Inside, UsedInv, CurrentInv, Before, LiveInv
<1>2. ASSUME NEW c \in Callers, Enters(c)
      PROVE  LiveInv'
  BY <1>2, WorkerAssumption DEF Enters, Goto, LockIsFree, closed, pool, queues, ending, TypeOK,
     Ended, LockInv, Inside, UsedInv, CurrentInv, Before, LiveInv
<1>3. ASSUME NEW c \in Callers, Reuses(c)
      PROVE  LiveInv'
  BY <1>3, WorkerAssumption DEF Reuses, Goto, pool, queues, ending, TypeOK, Ended, LockInv,
     Inside, UsedInv, CurrentInv, Before, LiveInv
<1>4. ASSUME NEW c \in Callers, Launches(c)
      PROVE  LiveInv'
  <2>1. \A d \in Callers \ {c} : pc'[d] = pc[d] /\ mine'[d] = mine[d]
    BY <1>4 DEF Launches, Leave, Goto, TypeOK
  <2>2. UNCHANGED <<closer, closing, slipped>> /\ current \notin live
    BY <1>4 DEF Launches, ending
  <2>3. ~slipped => \A w \in live :
          w = closing \/ \E d \in Callers \ {c} : pc[d] = "starting" /\ mine[d] = w
    BY <1>4, <2>2 DEF LiveInv, Launches
  <2>4. CASE TooMany
    <3>1. live' = live
      BY <1>4, <2>4 DEF Launches
    <3>2. QED
      BY <2>1, <2>2, <2>3, <3>1 DEF LiveInv
  <2>5. CASE ~TooMany
    <3>1. /\ live' = live \cup {launched + 1}
          /\ pc'[c] = "starting" /\ mine'[c] = launched + 1
      BY <1>4, <2>5 DEF Launches, Goto, TypeOK
    <3>2. closing # launched + 1
      BY DEF TypeOK
    <3>3. QED
      BY <2>1, <2>2, <2>3, <3>1, <3>2 DEF LiveInv
  <2>6. QED
    BY <2>4, <2>5
<1>5. ASSUME NEW c \in Callers, BecomesReady(c)
      PROVE  LiveInv'
  BY <1>5, WorkerAssumption DEF BecomesReady, Goto, closed, queues, TypeOK, Ended, LockInv,
     Inside, UsedInv, CurrentInv, Before, LiveInv
<1>6. ASSUME NEW c \in Callers, StartFails(c)
      PROVE  LiveInv'
  BY <1>6, WorkerAssumption DEF StartFails, Terminated, Leave, Released, Goto, queues, ending,
     TypeOK, Ended, LockInv, Inside, UsedInv, CurrentInv, Before, LiveInv
<1>7. ASSUME NEW c \in Callers, Sends(c)
      PROVE  LiveInv'
  BY <1>7, WorkerAssumption DEF Sends, Leave, Released, Goto, pool, ending, TypeOK, Ended,
     LockInv, Inside, UsedInv, CurrentInv, Before, LiveInv
<1>8. ASSUME NEW c \in Callers, GivesUp(c)
      PROVE  LiveInv'
  BY <1>8, WorkerAssumption DEF GivesUp, SeesStop, SeesDeadWorker, TimesOut, OnTimeout,
     Discarded, Leave, Released, Goto, queues, ending, TypeOK, Ended, LockInv, Inside, UsedInv,
     CurrentInv, Before, LiveInv
<1>9. ASSUME NEW c \in Callers, Receives(c)
      PROVE  LiveInv'
  BY <1>9, WorkerAssumption DEF Receives, Leave, Released, Goto, pool, ending, TypeOK, Ended,
     LockInv, Inside, UsedInv, CurrentInv, Before, LiveInv
<1>10. ASSUME NEW c \in Callers, FindsQueueShut(c)
       PROVE  LiveInv'
  BY <1>10, WorkerAssumption DEF FindsQueueShut, Leave, Released, Goto, pool, queues, ending,
     TypeOK, Ended, LockInv, Inside, UsedInv, CurrentInv, Before, LiveInv
<1>11. ASSUME NEW w \in Workers, Takes(w)
       PROVE  LiveInv'
  BY <1>11, WorkerAssumption DEF Takes, ending, TypeOK, Ended, LockInv, Inside, UsedInv,
     CurrentInv, Before, LiveInv
<1>12. ASSUME NEW w \in Workers, Responds(w)
       PROVE  LiveInv'
  BY <1>12, WorkerAssumption DEF Responds, pool, ending, TypeOK, Ended, LockInv, Inside,
     UsedInv, CurrentInv, Before, LiveInv
<1>13. ASSUME NEW w \in Workers, WorkerDies(w)
       PROVE  LiveInv'
  BY <1>13, WorkerAssumption DEF WorkerDies, queues, ending, TypeOK, Ended, LockInv, Inside,
     UsedInv, CurrentInv, Before, LiveInv
<1>14. CASE WindowPasses
  BY <1>14, WorkerAssumption DEF WindowPasses, queues, ending, TypeOK, Ended, LockInv, Inside,
     UsedInv, CurrentInv, Before, LiveInv
<1>15. CASE Closes
  BY <1>15, WorkerAssumption DEF Closes, pool, queues, TypeOK, Ended, LockInv, Inside, UsedInv,
     CurrentInv, Before, LiveInv
<1>16. CASE CloseAsks
  BY <1>16, WorkerAssumption DEF CloseAsks, TypeOK, Ended, LockInv, Inside, UsedInv, CurrentInv,
     Before, LiveInv
<1>17. CASE CloseEnds
  BY <1>17, WorkerAssumption DEF CloseEnds, queues, TypeOK, Ended, LockInv, Inside, UsedInv,
     CurrentInv, Before, LiveInv
<1>18. CASE CloseClears
  BY <1>18, WorkerAssumption DEF CloseClears, queues, TypeOK, Ended, LockInv, Inside, UsedInv,
     CurrentInv, Before, LiveInv
<1>19. CASE UNCHANGED vars
  BY <1>19, WorkerAssumption DEF vars, pool, queues, ending, TypeOK, Ended, LockInv, Inside,
     UsedInv, CurrentInv, Before, LiveInv
<1>20. QED
  BY <1>1, <1>2, <1>3, <1>4, <1>5, <1>6, <1>7, <1>8, <1>9, <1>10, <1>11, <1>12, <1>13, <1>14,
     <1>15, <1>16, <1>17, <1>18, <1>19 DEF Next, CallerStep, CloseStep, GivesUp
-----------------------------------------------------------------------------
(* The response a call takes is the one its worker carries for it. *)
LEMMA OwnStep ==
    ASSUME TypeOK, CarryInv, OwnResponse, [Next]_vars
    PROVE  OwnResponse'
<1>1. ASSUME NEW c \in Callers, Receives(c)
      PROVE  OwnResponse'
  <2>1. Once(inbox[mine[c]], busy[mine[c]], outbox[mine[c]], c) /\ outbox[mine[c]] # <<>>
    BY <1>1 DEF Receives, CarryInv, Loaded
  <2>2. Head(outbox[mine[c]]) = c
    BY <2>1, OnceSteps
  <2>3. answer' = [answer EXCEPT ![c] = c] /\ pc' = [pc EXCEPT ![c] = "answered"]
    BY <1>1, <2>2 DEF Receives, Leave, Goto
  <2>4. QED
    BY <2>3 DEF OwnResponse, TypeOK
<1>2. ASSUME NEW c \in Callers, Arrives(c) \/ CallerStep(c), ~Receives(c)
      PROVE  /\ answer' = answer
             /\ \A d \in Callers : pc'[d] = "answered" => pc[d] = "answered"
  <2>1. CASE Arrives(c) \/ Enters(c) \/ Reuses(c)
    BY <2>1 DEF Arrives, Enters, Reuses, Goto, TypeOK
  <2>2. CASE Launches(c)
    BY <2>2 DEF Launches, Leave, Goto, TypeOK
  <2>3. CASE BecomesReady(c) \/ StartFails(c)
    BY <2>3 DEF BecomesReady, StartFails, Leave, Goto, TypeOK
  <2>4. CASE Sends(c) \/ FindsQueueShut(c)
    BY <2>4 DEF Sends, FindsQueueShut, Leave, Goto, TypeOK
  <2>5. CASE GivesUp(c)
    BY <2>5 DEF GivesUp, SeesStop, SeesDeadWorker, TimesOut, Leave, Goto, TypeOK
  <2>6. QED
    BY <1>2, <2>1, <2>2, <2>3, <2>4, <2>5 DEF CallerStep, GivesUp
<1>3. ASSUME NEW w \in Workers, Takes(w) \/ Responds(w)
      PROVE  answer' = answer /\ pc' = pc
  BY <1>3 DEF Takes, Responds
<1>4. ASSUME Aside \/ CloseAsks
      PROVE  answer' = answer /\ pc' = pc
  BY <1>4 DEF Aside, WorkerDies, WindowPasses, Closes, CloseAsks, CloseEnds, CloseClears
<1>5. CASE UNCHANGED vars
  BY <1>5 DEF vars, OwnResponse
<1>6. QED
  BY <1>1, <1>2, <1>3, <1>4, <1>5 DEF Next, CallerStep, CloseStep, Aside, OwnResponse
-----------------------------------------------------------------------------
(* No caller has come and no worker is launched. *)
LEMMA InvInit == Init => Inv
<1> SUFFICES ASSUME Init PROVE Inv
  OBVIOUS
<1>1. TypeOK
  <2>1. <<>> \in Seq(Callers) /\ <<>> \in Seq(Callers \cup {Quit})
    OBVIOUS
  <2>2. 0 \in 0 .. MaxRestarts
    BY WorkerAssumption
  <2>3. inbox \in [Workers -> Seq(Callers \cup {Quit})] /\ outbox \in [Workers -> Seq(Callers)]
    BY <2>1 DEF Init
  <2>4. busy \in [Workers -> Callers \cup {Nobody}] /\ answer \in [Callers -> Callers \cup {Nobody}]
    BY DEF Init
  <2>5. /\ pc \in [Callers -> Ended \cup {"idle", "queued", "ensure", "starting", "send", "waiting"}]
        /\ mine \in [Callers -> 0 .. launched]
    BY DEF Init
  <2>6. /\ lock \in Callers \cup {Nobody} /\ launched \in 0 .. Cardinality(Callers)
        /\ current \in 0 .. launched /\ closing \in 0 .. launched
        /\ live \subseteq 1 .. launched /\ shut \subseteq 1 .. launched
    BY Sizes DEF Init
  <2>7. /\ recent \in 0 .. MaxRestarts /\ slipped \in BOOLEAN
        /\ closer \in {"open", "list", "grace", "clear", "done"}
    BY <2>2 DEF Init
  <2>8. QED
    BY <2>3, <2>4, <2>5, <2>6, <2>7 DEF TypeOK
<1>2. LockInv /\ UsedInv /\ FreshInv
  BY WorkerAssumption DEF Init, LockInv, Inside, UsedInv, FreshInv
<1>3. LaunchInv
  <2>1. Cardinality(Beyond) \in Nat
    BY WorkerAssumption, FS_Subset, FS_CardinalityType DEF Beyond
  <2>2. QED
    BY <2>1 DEF Init, LaunchInv
<1>4. QuitInv
  <2>1. <<>> \in Seq(Callers)
    OBVIOUS
  <2>2. QED
    BY <2>1 DEF Init, QuitInv
<1>5. CurrentInv /\ CarryInv /\ LiveInv /\ OwnResponse
  BY DEF Init, CurrentInv, Before, CarryInv, LiveInv, OwnResponse
<1>6. QED
  BY <1>1, <1>2, <1>3, <1>4, <1>5 DEF Inv

(* What every step of the calls, the workers and close() preserves: where  *)
(* each call and each worker stands, and what each worker carries.         *)
THEOREM InvInvariant == Spec => []Inv
<1>1. Init => Inv
  BY InvInit
<1>2. Inv /\ [Next]_vars => Inv'
  BY TypeStep, LockStep, UsedStep, LaunchStep, FreshStep, QuitStep, CurrentStep, CarryStep,
     LiveStep, OwnStep DEF Inv
<1>3. QED
  BY <1>1, <1>2, PTL DEF Spec

(* Every variable of the executor and its workers keeps its type. *)
THEOREM TypeCorrect == Spec => []TypeOK
<1>1. Inv => TypeOK
  BY DEF Inv
<1>2. QED
  BY <1>1, InvInvariant, PTL

(* A call never returns the response to the envelope of another call, not  *)
(* even of one with the same request_id (_execute).                        *)
THEOREM OwnResponses == Spec => []OwnResponse
<1>1. Inv => OwnResponse
  BY DEF Inv
<1>2. QED
  BY <1>1, InvInvariant, PTL

(* A worker that works does so for a call that waits for it, unless        *)
(* close() shuts it down or was overtaken by its launch (_discard_worker). *)
THEOREM AbandonedSafety == Spec => []NoAbandonedWork
<1>1. ASSUME Inv, ~slipped, NEW w \in live \ {closing}, busy[w] # Nobody
      PROVE  pc[busy[w]] = "waiting" /\ mine[busy[w]] = w
  <2>1. ~Idle(w) /\ w # 0
    BY <1>1 DEF Idle, Nothing, Inv, TypeOK
  <2>2. w = current
    BY <1>1, <2>1 DEF Inv, LiveInv, CarryInv
  <2>3. closer \in Before /\ ~Offered
    BY <1>1, <2>1, <2>2 DEF Inv, CurrentInv, CarryInv
  <2>4. PICK c \in Callers : lock = c
    BY <1>1, <2>3 DEF Inv, TypeOK, Offered
  <2>5. pc[c] \in {"starting", "send", "waiting"}
    BY <1>1, <2>3, <2>4 DEF Inv, LockInv, Inside, Offered
  <2>6. pc[c] # "starting"
    BY <1>1, <2>1, <2>2 DEF Inv, CurrentInv
  <2>7. mine[c] = w
    BY <1>1, <2>2, <2>3, <2>5, <2>6 DEF Inv, CurrentInv
  <2>8. pc[c] = "waiting" /\ Loaded(w, c)
    BY <1>1, <2>1, <2>5, <2>6, <2>7 DEF Inv, CarryInv
  <2>9. busy[w] = c
    BY <1>1, <2>8, OnceSteps DEF Loaded
  <2>10. QED
    BY <2>7, <2>8, <2>9
<1>2. Inv => NoAbandonedWork
  BY <1>1 DEF NoAbandonedWork
<1>3. QED
  BY <1>2, InvInvariant, PTL

(* When close() and the calls inside have ended, no worker is alive, but   *)
(* for one launched across close() (close, _ensure_worker).                *)
THEOREM CloseSafety == Spec => []NoWorkerLeft
<1>1. ASSUME Inv, closer = "done", ~slipped,
             \A c \in Callers : pc[c] \in Ended \cup {"idle", "queued"}
      PROVE  live = {}
  <2>1. current = 0 /\ closing \notin live
    BY <1>1 DEF Inv, CurrentInv, Before, LiveInv
  <2>2. \A c \in Callers : pc[c] # "starting"
    BY <1>1 DEF Ended
  <2>3. 0 \notin live
    BY <1>1 DEF Inv, TypeOK
  <2>4. QED
    BY <1>1, <2>1, <2>2, <2>3 DEF Inv, LiveInv
<1>2. Inv => NoWorkerLeft
  BY <1>1 DEF NoWorkerLeft
<1>3. QED
  BY <1>2, InvInvariant, PTL
=============================================================================
