--------------------------- MODULE ToolCallProofs ---------------------------
(***************************************************************************)
(* Proofs about a tool call, for any number of calls: first about          *)
(* ToolExecution, the attempts and their idempotency record, then about    *)
(* CircuitBreaker, the breaker that all calls of a tool share.             *)
(*                                                                         *)
(* ToolExecution: the inductive invariant Inv adds four facts to the type  *)
(* invariant: an attempt that has not applied its effect still has room to *)
(* (RoomInv), only one call inserts the row and only it goes on to the     *)
(* attempts (OwnerInv), a one-shot call has a single attempt, which may    *)
(* only be left behind by a timeout (OnceInv), and a stored result comes   *)
(* from an attempt that applied its effect (StoredInv).                    *)
(*                                                                         *)
(* CircuitBreaker: two facts make the safety properties inductive: a probe *)
(* at work holds the key while none has outlived its lease (HolderInv),    *)
(* and a failure count at the threshold with no open state is about to be  *)
(* opened or reset by some call, unless that call was killed (CountInv).   *)
(***************************************************************************)
EXTENDS ToolExecution, CircuitBreaker, TLAPS


(* An attempt counts itself before it is applied or left behind.           *)
(* There is an attempt left whenever one may be started.                   *)
RoomInv ==
    \A c \in Calls :
        /\ pc[c] \in {"idle", "create", "load"} => tries[c] = 0
        /\ pc[c] = "next" => tries[c] < MaxAttempts
        /\ pc[c] = "running" /\ c \notin hot => late[c] + applied[c] < tries[c]

(* One owner, and only the owner gets past the cache. *)
OwnerInv ==
    /\ row = "absent" => owner = {}
    /\ \A c, d \in owner : c = d
    /\ \A c \in Calls : pc[c] = "create" => Keyed(c)
    /\ \A c \in Calls :
         Keyed(c) /\ (tries[c] > 0 \/ pc[c] \in {"next", "running", "complete", "fail"})
           => c \in owner

(* One attempt, and what it left behind is reported as unknown. *)
OnceInv ==
    \A c \in Calls : Once(c) =>
        /\ pc[c] \in {"idle", "next"} => tries[c] = 0
        /\ tries[c] <= 1
        /\ late[c] > 0 => pc[c] \in {"fail", "unknown"} /\ ~timely[c]

(* What is stored was applied. *)
SomeApplied == \E d \in Calls : Keyed(d) /\ applied[d] > 0
StoredInv ==
    /\ \A c \in Calls : c \in hot => applied[c] > 0
    /\ \A c \in Calls : pc[c] = "complete" => Keyed(c) /\ applied[c] > 0
    /\ row = "SUCCEEDED" => SomeApplied
    /\ CachedWasApplied

Inv == TypeOK /\ RoomInv /\ OwnerInv /\ OnceInv /\ StoredInv
-----------------------------------------------------------------------------
(* Every action keeps the types, and the attempts accounted for. *)
LEMMA TypeStep ==
    ASSUME TypeOK, RoomInv, OwnerInv, [Next]_vars
    PROVE  TypeOK'
<1> USE ToolAssumption DEF TypeOK, RoomInv, OwnerInv, Keyed, Ended
<1>1. CASE UNCHANGED vars
  BY <1>1 DEF vars
<1>2. ASSUME NEW k \in Calls, Arrives(k) PROVE TypeOK'
  BY <1>2 DEF Arrives, Goto
<1>3. ASSUME NEW k \in Calls, Creates(k) PROVE TypeOK'
  BY <1>3 DEF Creates, Goto, KeyIsNew
<1>4. ASSUME NEW k \in Calls, Loads(k) PROVE TypeOK'
  BY <1>4 DEF Loads, Goto, Stored
<1>5. ASSUME NEW k \in Calls, DeadlinePassed(k) PROVE TypeOK'
  BY <1>5 DEF DeadlinePassed, Goto
<1>6. ASSUME NEW k \in Calls, Attempts(k) PROVE TypeOK'
  BY <1>6 DEF Attempts, Goto
<1>7. ASSUME NEW k \in Calls, Applies(k) PROVE TypeOK'
  BY <1>7 DEF Applies
<1>8. ASSUME NEW k \in Calls, Returns(k) PROVE TypeOK'
  BY <1>8 DEF Returns, Goto
<1>9. ASSUME NEW k \in Calls, Raises(k) PROVE TypeOK'
  BY <1>9 DEF Raises, Goto, AfterError, MayRetry
<1>10. ASSUME NEW k \in Calls, FailsStructured(k) PROVE TypeOK'
  BY <1>10 DEF FailsStructured, Goto, MayRetry
<1>11. ASSUME NEW k \in Calls, TimesOut(k) PROVE TypeOK'
  BY <1>11 DEF TimesOut, Goto, AfterError, MayRetry
<1>12. ASSUME NEW k \in Calls, AppliesLate(k) PROVE TypeOK'
  BY <1>12 DEF AppliesLate
<1>13. ASSUME NEW k \in Calls, EndsLate(k) PROVE TypeOK'
  BY <1>13 DEF EndsLate
<1>14. ASSUME NEW k \in Calls, Completes(k) PROVE TypeOK'
  BY <1>14 DEF Completes, Goto
<1>15. ASSUME NEW k \in Calls, CompleteRaises(k) PROVE TypeOK'
  BY <1>15 DEF CompleteRaises, Goto
<1>16. ASSUME NEW k \in Calls, FailsCall(k) PROVE TypeOK'
  BY <1>16 DEF FailsCall, Once, Goto, Outcome
<1>17. ASSUME NEW k \in Calls, Dies(k) PROVE TypeOK'
  BY <1>17 DEF Dies, Goto
<1>18. QED
  BY <1>1, <1>2, <1>3, <1>4, <1>5, <1>6, <1>7, <1>8, <1>9, <1>10, <1>11, <1>12, <1>13,
     <1>14, <1>15, <1>16, <1>17 DEF Next
(* The room of a running attempt. *)
LEMMA RoomStep ==
    ASSUME TypeOK, RoomInv, [Next]_vars
    PROVE  RoomInv'
<1> USE ToolAssumption DEF TypeOK, RoomInv, Keyed, Ended
<1>1. CASE UNCHANGED vars
  BY <1>1 DEF vars
<1>2. ASSUME NEW k \in Calls, Arrives(k) PROVE RoomInv'
  BY <1>2 DEF Arrives, Goto
<1>3. ASSUME NEW k \in Calls, Creates(k) PROVE RoomInv'
  BY <1>3 DEF Creates, Goto, KeyIsNew
<1>4. ASSUME NEW k \in Calls, Loads(k) PROVE RoomInv'
  BY <1>4 DEF Loads, Goto, Stored
<1>5. ASSUME NEW k \in Calls, DeadlinePassed(k) PROVE RoomInv'
  BY <1>5 DEF DeadlinePassed, Goto
<1>6. ASSUME NEW k \in Calls, Attempts(k) PROVE RoomInv'
  BY <1>6 DEF Attempts, Goto
<1>7. ASSUME NEW k \in Calls, Applies(k) PROVE RoomInv'
  BY <1>7 DEF Applies
<1>8. ASSUME NEW k \in Calls, Returns(k) PROVE RoomInv'
  BY <1>8 DEF Returns, Goto
<1>9. ASSUME NEW k \in Calls, Raises(k) PROVE RoomInv'
  BY <1>9 DEF Raises, Goto, AfterError, MayRetry
<1>10. ASSUME NEW k \in Calls, FailsStructured(k) PROVE RoomInv'
  BY <1>10 DEF FailsStructured, Goto, MayRetry
<1>11. ASSUME NEW k \in Calls, TimesOut(k) PROVE RoomInv'
  BY <1>11 DEF TimesOut, Goto, AfterError, MayRetry
<1>12. ASSUME NEW k \in Calls, AppliesLate(k) PROVE RoomInv'
  BY <1>12 DEF AppliesLate
<1>13. ASSUME NEW k \in Calls, EndsLate(k) PROVE RoomInv'
  BY <1>13 DEF EndsLate
<1>14. ASSUME NEW k \in Calls, Completes(k) PROVE RoomInv'
  BY <1>14 DEF Completes, Goto
<1>15. ASSUME NEW k \in Calls, CompleteRaises(k) PROVE RoomInv'
  BY <1>15 DEF CompleteRaises, Goto
<1>16. ASSUME NEW k \in Calls, FailsCall(k) PROVE RoomInv'
  BY <1>16 DEF FailsCall, Once, Goto, Outcome
<1>17. ASSUME NEW k \in Calls, Dies(k) PROVE RoomInv'
  BY <1>17 DEF Dies, Goto
<1>18. QED
  BY <1>1, <1>2, <1>3, <1>4, <1>5, <1>6, <1>7, <1>8, <1>9, <1>10, <1>11, <1>12, <1>13,
     <1>14, <1>15, <1>16, <1>17 DEF Next
(* The unique key lets one call through. *)
LEMMA OwnerStep ==
    ASSUME TypeOK, RoomInv, OwnerInv, [Next]_vars
    PROVE  OwnerInv'
<1> USE ToolAssumption DEF TypeOK, RoomInv, OwnerInv, Keyed, Ended
<1>1. CASE UNCHANGED vars
  BY <1>1 DEF vars
<1>2. ASSUME NEW k \in Calls, Arrives(k) PROVE OwnerInv'
  BY <1>2 DEF Arrives, Goto
<1>3. ASSUME NEW k \in Calls, Creates(k) PROVE OwnerInv'
  BY <1>3 DEF Creates, Goto, KeyIsNew
<1>4. ASSUME NEW k \in Calls, Loads(k) PROVE OwnerInv'
  BY <1>4 DEF Loads, Goto, Stored
<1>5. ASSUME NEW k \in Calls, DeadlinePassed(k) PROVE OwnerInv'
  BY <1>5 DEF DeadlinePassed, Goto
<1>6. ASSUME NEW k \in Calls, Attempts(k) PROVE OwnerInv'
  BY <1>6 DEF Attempts, Goto
<1>7. ASSUME NEW k \in Calls, Applies(k) PROVE OwnerInv'
  BY <1>7 DEF Applies
<1>8. ASSUME NEW k \in Calls, Returns(k) PROVE OwnerInv'
  BY <1>8 DEF Returns, Goto
<1>9. ASSUME NEW k \in Calls, Raises(k) PROVE OwnerInv'
  BY <1>9 DEF Raises, Goto, AfterError, MayRetry
<1>10. ASSUME NEW k \in Calls, FailsStructured(k) PROVE OwnerInv'
  BY <1>10 DEF FailsStructured, Goto, MayRetry
<1>11. ASSUME NEW k \in Calls, TimesOut(k) PROVE OwnerInv'
  BY <1>11 DEF TimesOut, Goto, AfterError, MayRetry
<1>12. ASSUME NEW k \in Calls, AppliesLate(k) PROVE OwnerInv'
  BY <1>12 DEF AppliesLate
<1>13. ASSUME NEW k \in Calls, EndsLate(k) PROVE OwnerInv'
  BY <1>13 DEF EndsLate
<1>14. ASSUME NEW k \in Calls, Completes(k) PROVE OwnerInv'
  BY <1>14 DEF Completes, Goto
<1>15. ASSUME NEW k \in Calls, CompleteRaises(k) PROVE OwnerInv'
  BY <1>15 DEF CompleteRaises, Goto
<1>16. ASSUME NEW k \in Calls, FailsCall(k) PROVE OwnerInv'
  BY <1>16 DEF FailsCall, Once, Goto, Outcome
<1>17. ASSUME NEW k \in Calls, Dies(k) PROVE OwnerInv'
  BY <1>17 DEF Dies, Goto
<1>18. QED
  BY <1>1, <1>2, <1>3, <1>4, <1>5, <1>6, <1>7, <1>8, <1>9, <1>10, <1>11, <1>12, <1>13,
     <1>14, <1>15, <1>16, <1>17 DEF Next
(* A one-shot call is never retried. *)
LEMMA OnceStep ==
    ASSUME TypeOK, RoomInv, OnceInv, [Next]_vars
    PROVE  OnceInv'
<1> USE ToolAssumption DEF TypeOK, RoomInv, OnceInv, Keyed, Once, Ended
<1>1. CASE UNCHANGED vars
  BY <1>1 DEF vars
<1>2. ASSUME NEW k \in Calls, Arrives(k) PROVE OnceInv'
  BY <1>2 DEF Arrives, Goto
<1>3. ASSUME NEW k \in Calls, Creates(k) PROVE OnceInv'
  BY <1>3 DEF Creates, Goto, KeyIsNew
<1>4. ASSUME NEW k \in Calls, Loads(k) PROVE OnceInv'
  BY <1>4 DEF Loads, Goto, Stored
<1>5. ASSUME NEW k \in Calls, DeadlinePassed(k) PROVE OnceInv'
  BY <1>5 DEF DeadlinePassed, Goto
<1>6. ASSUME NEW k \in Calls, Attempts(k) PROVE OnceInv'
  BY <1>6 DEF Attempts, Goto
<1>7. ASSUME NEW k \in Calls, Applies(k) PROVE OnceInv'
  BY <1>7 DEF Applies
<1>8. ASSUME NEW k \in Calls, Returns(k) PROVE OnceInv'
  BY <1>8 DEF Returns, Goto
<1>9. ASSUME NEW k \in Calls, Raises(k) PROVE OnceInv'
  BY <1>9 DEF Raises, Goto, AfterError, MayRetry
<1>10. ASSUME NEW k \in Calls, FailsStructured(k) PROVE OnceInv'
  BY <1>10 DEF FailsStructured, Goto, MayRetry
<1>11. ASSUME NEW k \in Calls, TimesOut(k) PROVE OnceInv'
  BY <1>11 DEF TimesOut, Goto, AfterError, MayRetry
<1>12. ASSUME NEW k \in Calls, AppliesLate(k) PROVE OnceInv'
  BY <1>12 DEF AppliesLate
<1>13. ASSUME NEW k \in Calls, EndsLate(k) PROVE OnceInv'
  BY <1>13 DEF EndsLate
<1>14. ASSUME NEW k \in Calls, Completes(k) PROVE OnceInv'
  BY <1>14 DEF Completes, Goto
<1>15. ASSUME NEW k \in Calls, CompleteRaises(k) PROVE OnceInv'
  BY <1>15 DEF CompleteRaises, Goto
<1>16. ASSUME NEW k \in Calls, FailsCall(k) PROVE OnceInv'
  BY <1>16 DEF FailsCall, Goto, Outcome
<1>17. ASSUME NEW k \in Calls, Dies(k) PROVE OnceInv'
  BY <1>17 DEF Dies, Goto
<1>18. QED
  BY <1>1, <1>2, <1>3, <1>4, <1>5, <1>6, <1>7, <1>8, <1>9, <1>10, <1>11, <1>12, <1>13,
     <1>14, <1>15, <1>16, <1>17 DEF Next
(* Only an applied result is stored, only a stored one is returned. *)
LEMMA StoredStep ==
    ASSUME TypeOK, StoredInv, [Next]_vars
    PROVE  StoredInv'
<1> USE ToolAssumption DEF TypeOK, StoredInv, SomeApplied, CachedWasApplied, Keyed, Ended
<1>1. CASE UNCHANGED vars
  BY <1>1 DEF vars
<1>2. ASSUME NEW k \in Calls, Arrives(k) PROVE StoredInv'
  BY <1>2 DEF Arrives, Goto
<1>3. ASSUME NEW k \in Calls, Creates(k) PROVE StoredInv'
  BY <1>3 DEF Creates, Goto, KeyIsNew
<1>4. ASSUME NEW k \in Calls, Loads(k) PROVE StoredInv'
  BY <1>4 DEF Loads, Goto, Stored
<1>5. ASSUME NEW k \in Calls, DeadlinePassed(k) PROVE StoredInv'
  BY <1>5 DEF DeadlinePassed, Goto
<1>6. ASSUME NEW k \in Calls, Attempts(k) PROVE StoredInv'
  BY <1>6 DEF Attempts, Goto
<1>7. ASSUME NEW k \in Calls, Applies(k) PROVE StoredInv'
  BY <1>7 DEF Applies
<1>8. ASSUME NEW k \in Calls, Returns(k) PROVE StoredInv'
  BY <1>8 DEF Returns, Goto
<1>9. ASSUME NEW k \in Calls, Raises(k) PROVE StoredInv'
  BY <1>9 DEF Raises, Goto, AfterError, MayRetry
<1>10. ASSUME NEW k \in Calls, FailsStructured(k) PROVE StoredInv'
  BY <1>10 DEF FailsStructured, Goto, MayRetry
<1>11. ASSUME NEW k \in Calls, TimesOut(k) PROVE StoredInv'
  BY <1>11 DEF TimesOut, Goto, AfterError, MayRetry
<1>12. ASSUME NEW k \in Calls, AppliesLate(k) PROVE StoredInv'
  BY <1>12 DEF AppliesLate
<1>13. ASSUME NEW k \in Calls, EndsLate(k) PROVE StoredInv'
  BY <1>13 DEF EndsLate
<1>14. ASSUME NEW k \in Calls, Completes(k) PROVE StoredInv'
  BY <1>14 DEF Completes, Goto
<1>15. ASSUME NEW k \in Calls, CompleteRaises(k) PROVE StoredInv'
  BY <1>15 DEF CompleteRaises, Goto
<1>16. ASSUME NEW k \in Calls, FailsCall(k) PROVE StoredInv'
  BY <1>16 DEF FailsCall, Once, Goto, Outcome
<1>17. ASSUME NEW k \in Calls, Dies(k) PROVE StoredInv'
  BY <1>17 DEF Dies, Goto
<1>18. QED
  BY <1>1, <1>2, <1>3, <1>4, <1>5, <1>6, <1>7, <1>8, <1>9, <1>10, <1>11, <1>12, <1>13,
     <1>14, <1>15, <1>16, <1>17 DEF Next
(* The initial states. *)
LEMMA InitInv == Init => Inv
  BY ToolAssumption DEF Init, Inv, TypeOK, RoomInv, OwnerInv, OnceInv, StoredInv, SomeApplied,
     CachedWasApplied, Keyed, Once, Ended
-----------------------------------------------------------------------------
(* Inv is inductive. *)
THEOREM Invariance == Spec => []Inv
<1>1. Inv /\ [Next]_vars => Inv'
  BY TypeStep, RoomStep, OwnerStep, OnceStep, StoredStep DEF Inv
<1>2. QED
  BY InitInv, <1>1, PTL DEF Spec

(* Types, and every attempt given up is one that was started. *)
THEOREM TypeCorrect == Spec => []TypeOK
  BY Invariance, PTL DEF Inv

(* However many processes race for an idempotency key, and whatever dies   *)
(* or times out, one call executes the tool at most.                       *)
THEOREM SingleExecutor == Spec => []OneExecutor
<1>1. Inv => OneExecutor
  BY DEF Inv, OwnerInv, OneExecutor
<1>2. QED
  BY Invariance, <1>1, PTL

(* A cached result is that of a tool which was executed. *)
THEOREM CacheIsReal == Spec => []CachedWasApplied
  BY Invariance, PTL DEF Inv, StoredInv

(* A non-idempotent write is never applied twice. *)
THEOREM AtMostOnce == Spec => []AppliedAtMostOnce
<1>1. ASSUME Inv, NEW c \in Calls, Once(c) PROVE applied[c] <= 1
  <2>1. /\ applied[c] \in Nat /\ late[c] \in Nat /\ tries[c] \in Nat
        /\ late[c] + applied[c] <= tries[c]
    BY <1>1, ToolAssumption DEF Inv, TypeOK
  <2>2. tries[c] <= 1
    BY <1>1 DEF Inv, OnceInv
  <2>3. QED
    BY <2>1, <2>2
<1>2. Inv => AppliedAtMostOnce
  BY <1>1 DEF AppliedAtMostOnce
<1>3. QED
  BY Invariance, <1>2, PTL

(* An ordinary error of a non-idempotent write is final: nothing left      *)
(* behind can still apply it.                                              *)
THEOREM ErrorsAreFinal == Spec => ErrorIsFinal
<1> DEFINE Final(c) == Once(c) /\ pc[c] = "error" => applied'[c] = applied[c]
<1>1. ASSUME Inv, [Next]_vars, NEW c \in Calls PROVE Final(c)
  <2> USE <1>1 DEF Inv, TypeOK, OnceInv
  <2>1. CASE UNCHANGED vars
    BY <2>1 DEF vars
  <2>2. ASSUME NEW k \in Calls, Arrives(k) PROVE Final(c)
    BY <2>2 DEF Arrives, Once
  <2>3. ASSUME NEW k \in Calls, Creates(k) PROVE Final(c)
    BY <2>3 DEF Creates, Once
  <2>4. ASSUME NEW k \in Calls, Loads(k) PROVE Final(c)
    BY <2>4 DEF Loads, Once
  <2>5. ASSUME NEW k \in Calls, DeadlinePassed(k) PROVE Final(c)
    BY <2>5 DEF DeadlinePassed, Once
  <2>6. ASSUME NEW k \in Calls, Attempts(k) PROVE Final(c)
    BY <2>6 DEF Attempts, Once
  <2>7. ASSUME NEW k \in Calls, Applies(k) PROVE Final(c)
    BY <2>7 DEF Applies, Once
  <2>8. ASSUME NEW k \in Calls, Returns(k) PROVE Final(c)
    BY <2>8 DEF Returns, Once
  <2>9. ASSUME NEW k \in Calls, Raises(k) PROVE Final(c)
    BY <2>9 DEF Raises, Once
  <2>10. ASSUME NEW k \in Calls, FailsStructured(k) PROVE Final(c)
    BY <2>10 DEF FailsStructured, Once
  <2>11. ASSUME NEW k \in Calls, TimesOut(k) PROVE Final(c)
    BY <2>11 DEF TimesOut, Once
  <2>12. ASSUME NEW k \in Calls, AppliesLate(k) PROVE Final(c)
    BY <2>12 DEF AppliesLate, Once
  <2>13. ASSUME NEW k \in Calls, EndsLate(k) PROVE Final(c)
    BY <2>13 DEF EndsLate, Once
  <2>14. ASSUME NEW k \in Calls, Completes(k) PROVE Final(c)
    BY <2>14 DEF Completes, Once
  <2>15. ASSUME NEW k \in Calls, CompleteRaises(k) PROVE Final(c)
    BY <2>15 DEF CompleteRaises, Once
  <2>16. ASSUME NEW k \in Calls, FailsCall(k) PROVE Final(c)
    BY <2>16 DEF FailsCall, Once
  <2>17. ASSUME NEW k \in Calls, Dies(k) PROVE Final(c)
    BY <2>17 DEF Dies, Once
  <2>18. QED
    BY <2>1, <2>2, <2>3, <2>4, <2>5, <2>6, <2>7, <2>8, <2>9, <2>10, <2>11, <2>12,
       <2>13, <2>14, <2>15, <2>16, <2>17 DEF Next
<1>2. Inv /\ [Next]_vars
        => [\A c \in Calls : Once(c) /\ pc[c] = "error" => applied'[c] = applied[c]]_vars
  BY <1>1
<1>3. QED
  BY Invariance, <1>2, PTL DEF Spec, ErrorIsFinal
-----------------------------------------------------------------------------
(* The breaker. *)

HolderInv ==
    /\ \A c \in Monitored : phase[c] = "idle" => c \notin sawOpen
    /\ ~overrun => \A c \in Monitored : Probing(c) => slot = c

CountInv ==
    failures >= Threshold /\ gen = 0 => \E c \in Monitored : phase[c] \in {"open", "reset", "lost"}

BreakerInv == BreakerTypeOK /\ HolderInv /\ CountInv
-----------------------------------------------------------------------------
(* Every action keeps the types; the key and its lease go together. *)
LEMMA BreakerTypeStep ==
    ASSUME BreakerTypeOK, [BreakerNext]_breakerVars
    PROVE  BreakerTypeOK'
<1> USE BreakerAssumption DEF BreakerTypeOK, AtWork
<1>1. CASE UNCHANGED breakerVars
  BY <1>1 DEF breakerVars
<1>2. CASE Tick
  BY <1>2 DEF Tick, KeyExpires, Smaller
<1>3. ASSUME NEW k \in Monitored, ReadsOpen(k) PROVE BreakerTypeOK'
  BY <1>3 DEF ReadsOpen, Moves
<1>4. ASSUME NEW k \in Monitored, ReadsAt(k) PROVE BreakerTypeOK'
  BY <1>4 DEF ReadsAt, Moves
<1>5. ASSUME NEW k \in Monitored, ReadsGeneration(k) PROVE BreakerTypeOK'
  BY <1>5 DEF ReadsGeneration, Moves
<1>6. ASSUME NEW k \in Monitored, Acquires(k) PROVE BreakerTypeOK'
  BY <1>6 DEF Acquires, Moves, SlotIsFree
<1>7. ASSUME NEW k \in Monitored, Succeeds(k) PROVE BreakerTypeOK'
  BY <1>7 DEF Succeeds, Moves
<1>8. ASSUME NEW k \in Monitored, Cancelled(k) PROVE BreakerTypeOK'
  BY <1>8 DEF Cancelled, Moves, Finish
<1>9. ASSUME NEW k \in Monitored, Clears(k) PROVE BreakerTypeOK'
  BY <1>9 DEF Clears, Moves
<1>10. ASSUME NEW k \in Monitored, Resets(k) PROVE BreakerTypeOK'
  BY <1>10 DEF Resets, Moves, Finish
<1>11. ASSUME NEW k \in Monitored, Fails(k) PROVE BreakerTypeOK'
  BY <1>11 DEF Fails, Moves
<1>12. ASSUME NEW k \in Monitored, Counts(k) PROVE BreakerTypeOK'
  BY <1>12 DEF Counts, Moves, Reached
<1>13. ASSUME NEW k \in Monitored, Opens(k) PROVE BreakerTypeOK'
  BY <1>13 DEF Opens, Moves, Finish
<1>14. ASSUME NEW k \in Monitored, Releases(k) PROVE BreakerTypeOK'
  BY <1>14 DEF Releases, Moves, OwnToken
<1>15. ASSUME NEW k \in Monitored, ProcessDies(k) PROVE BreakerTypeOK'
  BY <1>15 DEF ProcessDies, Moves
<1>16. QED
  BY <1>1, <1>2, <1>3, <1>4, <1>5, <1>6, <1>7, <1>8, <1>9, <1>10, <1>11, <1>12, <1>13,
     <1>14, <1>15 DEF BreakerNext, CallStep

(* Only the holder of the key is a probe at work. *)
LEMMA HolderStep ==
    ASSUME BreakerTypeOK, HolderInv, [BreakerNext]_breakerVars
    PROVE  HolderInv'
<1> USE BreakerAssumption DEF BreakerTypeOK, HolderInv, Probing, AtWork
<1>1. CASE UNCHANGED breakerVars
  BY <1>1 DEF breakerVars
<1>2. CASE Tick
  BY <1>2 DEF Tick, KeyExpires, Smaller
<1>3. ASSUME NEW k \in Monitored, ReadsOpen(k) PROVE HolderInv'
  BY <1>3 DEF ReadsOpen, Moves
<1>4. ASSUME NEW k \in Monitored, ReadsAt(k) PROVE HolderInv'
  BY <1>4 DEF ReadsAt, Moves
<1>5. ASSUME NEW k \in Monitored, ReadsGeneration(k) PROVE HolderInv'
  BY <1>5 DEF ReadsGeneration, Moves
<1>6. ASSUME NEW k \in Monitored, Acquires(k) PROVE HolderInv'
  BY <1>6 DEF Acquires, Moves, SlotIsFree
<1>7. ASSUME NEW k \in Monitored, Succeeds(k) PROVE HolderInv'
  BY <1>7 DEF Succeeds, Moves
<1>8. ASSUME NEW k \in Monitored, Cancelled(k) PROVE HolderInv'
  BY <1>8 DEF Cancelled, Moves, Finish
<1>9. ASSUME NEW k \in Monitored, Clears(k) PROVE HolderInv'
  BY <1>9 DEF Clears, Moves
<1>10. ASSUME NEW k \in Monitored, Resets(k) PROVE HolderInv'
  BY <1>10 DEF Resets, Moves, Finish
<1>11. ASSUME NEW k \in Monitored, Fails(k) PROVE HolderInv'
  BY <1>11 DEF Fails, Moves
<1>12. ASSUME NEW k \in Monitored, Counts(k) PROVE HolderInv'
  BY <1>12 DEF Counts, Moves, Reached
<1>13. ASSUME NEW k \in Monitored, Opens(k) PROVE HolderInv'
  BY <1>13 DEF Opens, Moves, Finish
<1>14. ASSUME NEW k \in Monitored, Releases(k) PROVE HolderInv'
  BY <1>14 DEF Releases, Moves, OwnToken
<1>15. ASSUME NEW k \in Monitored, ProcessDies(k) PROVE HolderInv'
  BY <1>15 DEF ProcessDies, Moves
<1>16. QED
  BY <1>1, <1>2, <1>3, <1>4, <1>5, <1>6, <1>7, <1>8, <1>9, <1>10, <1>11, <1>12, <1>13,
     <1>14, <1>15 DEF BreakerNext, CallStep

(* Whoever reaches the threshold opens the breaker. *)
LEMMA CountStep ==
    ASSUME BreakerTypeOK, CountInv, [BreakerNext]_breakerVars
    PROVE  CountInv'
<1> USE BreakerAssumption DEF BreakerTypeOK, CountInv
<1>1. CASE UNCHANGED breakerVars
  BY <1>1 DEF breakerVars
<1>2. CASE Tick
  BY <1>2 DEF Tick, KeyExpires, Smaller, AtWork
<1>3. ASSUME NEW k \in Monitored, ReadsOpen(k) PROVE CountInv'
  BY <1>3 DEF ReadsOpen, Moves
<1>4. ASSUME NEW k \in Monitored, ReadsAt(k) PROVE CountInv'
  BY <1>4 DEF ReadsAt, Moves
<1>5. ASSUME NEW k \in Monitored, ReadsGeneration(k) PROVE CountInv'
  BY <1>5 DEF ReadsGeneration, Moves
<1>6. ASSUME NEW k \in Monitored, Acquires(k) PROVE CountInv'
  BY <1>6 DEF Acquires, Moves, SlotIsFree
<1>7. ASSUME NEW k \in Monitored, Succeeds(k) PROVE CountInv'
  BY <1>7 DEF Succeeds, Moves
<1>8. ASSUME NEW k \in Monitored, Cancelled(k) PROVE CountInv'
  BY <1>8 DEF Cancelled, Moves, Finish
<1>9. ASSUME NEW k \in Monitored, Clears(k) PROVE CountInv'
  BY <1>9 DEF Clears, Moves
<1>10. ASSUME NEW k \in Monitored, Resets(k) PROVE CountInv'
  BY <1>10 DEF Resets, Moves, Finish
<1>11. ASSUME NEW k \in Monitored, Fails(k) PROVE CountInv'
  BY <1>11 DEF Fails, Moves
<1>12. ASSUME NEW k \in Monitored, Counts(k) PROVE CountInv'
  BY <1>12 DEF Counts, Moves, Reached
<1>13. ASSUME NEW k \in Monitored, Opens(k) PROVE CountInv'
  BY <1>13 DEF Opens, Moves, Finish
<1>14. ASSUME NEW k \in Monitored, Releases(k) PROVE CountInv'
  BY <1>14 DEF Releases, Moves, OwnToken
<1>15. ASSUME NEW k \in Monitored, ProcessDies(k) PROVE CountInv'
  BY <1>15 DEF ProcessDies, Moves, AtWork
<1>16. QED
  BY <1>1, <1>2, <1>3, <1>4, <1>5, <1>6, <1>7, <1>8, <1>9, <1>10, <1>11, <1>12, <1>13,
     <1>14, <1>15 DEF BreakerNext, CallStep

(* The initial states. *)
LEMMA BreakerStarts == BreakerInit => BreakerInv
<1> SUFFICES ASSUME BreakerInit PROVE BreakerInv
  OBVIOUS
<1> USE BreakerAssumption DEF BreakerInit
<1>1. BreakerTypeOK
  <2>1. /\ age \in 0 .. Ceiling /\ lease \in 0 .. Lease
        /\ elapsed \in [Monitored -> 0 .. Ceiling]
    OBVIOUS
  <2>2. QED
    BY <2>1 DEF BreakerTypeOK
<1>2. HolderInv
  BY DEF HolderInv, Probing, AtWork
<1>3. CountInv
  BY DEF CountInv
<1>4. QED
  BY <1>1, <1>2, <1>3 DEF BreakerInv
-----------------------------------------------------------------------------
(* BreakerInv is inductive. *)
THEOREM BreakerInvariance == BreakerSpec => []BreakerInv
<1>1. BreakerInv /\ [BreakerNext]_breakerVars => BreakerInv'
  BY BreakerTypeStep, HolderStep, CountStep DEF BreakerInv
<1>2. QED
  BY BreakerStarts, <1>1, PTL DEF BreakerSpec

(* Types. *)
THEOREM BreakerTypeCorrect == BreakerSpec => []BreakerTypeOK
  BY BreakerInvariance, PTL DEF BreakerInv

(* Never two probes at work together while no lease has been outlived,     *)
(* although the state is read in several commands before the key is taken. *)
THEOREM SingleProbe == BreakerSpec => []OneProbe
<1>1. BreakerInv => OneProbe
  BY DEF BreakerInv, HolderInv, OneProbe
<1>2. QED
  BY BreakerInvariance, <1>1, PTL

(* Once every call is over, a failure count at the threshold means open.   *)
THEOREM CountedFailuresOpen == BreakerSpec => []ClosedBelowThreshold
<1>1. BreakerInv => ClosedBelowThreshold
  BY BreakerAssumption DEF BreakerInv, BreakerTypeOK, CountInv, ClosedBelowThreshold
<1>2. QED
  BY BreakerInvariance, <1>1, PTL

(* A probe never throws away the key of another. *)
THEOREM OnlyHolderFrees == BreakerSpec => FreedByHolder
<1> DEFINE Freed == slot # Free /\ slot' = Free => lease = 1 \/ phase[slot] = "release"
<1>1. ASSUME BreakerInv, [BreakerNext]_breakerVars PROVE Freed
  <2> USE <1>1, BreakerAssumption DEF BreakerInv, BreakerTypeOK
  <2>1. CASE UNCHANGED breakerVars
    BY <2>1 DEF breakerVars
  <2>2. CASE Tick
    BY <2>2 DEF Tick, KeyExpires
  <2>3. ASSUME NEW k \in Monitored, ReadsOpen(k) PROVE Freed
    BY <2>3 DEF ReadsOpen
  <2>4. ASSUME NEW k \in Monitored, ReadsAt(k) PROVE Freed
    BY <2>4 DEF ReadsAt
  <2>5. ASSUME NEW k \in Monitored, ReadsGeneration(k) PROVE Freed
    BY <2>5 DEF ReadsGeneration
  <2>6. ASSUME NEW k \in Monitored, Acquires(k) PROVE Freed
    BY <2>6 DEF Acquires, SlotIsFree
  <2>7. ASSUME NEW k \in Monitored, Succeeds(k) PROVE Freed
    BY <2>7 DEF Succeeds
  <2>8. ASSUME NEW k \in Monitored, Cancelled(k) PROVE Freed
    BY <2>8 DEF Cancelled
  <2>9. ASSUME NEW k \in Monitored, Clears(k) PROVE Freed
    BY <2>9 DEF Clears
  <2>10. ASSUME NEW k \in Monitored, Resets(k) PROVE Freed
    BY <2>10 DEF Resets
  <2>11. ASSUME NEW k \in Monitored, Fails(k) PROVE Freed
    BY <2>11 DEF Fails
  <2>12. ASSUME NEW k \in Monitored, Counts(k) PROVE Freed
    BY <2>12 DEF Counts
  <2>13. ASSUME NEW k \in Monitored, Opens(k) PROVE Freed
    BY <2>13 DEF Opens
  <2>14. ASSUME NEW k \in Monitored, Releases(k) PROVE Freed
    BY <2>14 DEF Releases, OwnToken
  <2>15. ASSUME NEW k \in Monitored, ProcessDies(k) PROVE Freed
    BY <2>15 DEF ProcessDies
  <2>16. QED
    BY <2>1, <2>2, <2>3, <2>4, <2>5, <2>6, <2>7, <2>8, <2>9, <2>10, <2>11, <2>12,
       <2>13, <2>14, <2>15 DEF BreakerNext, CallStep
<1>2. BreakerInv /\ [BreakerNext]_breakerVars => [Freed]_breakerVars
  BY <1>1
<1>3. QED
  BY BreakerInvariance, <1>2, PTL DEF BreakerSpec, FreedByHolder
=============================================================================
