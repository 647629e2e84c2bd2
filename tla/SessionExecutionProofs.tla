----------------------- MODULE SessionExecutionProofs -----------------------
(***************************************************************************)
(* What SessionExecution promises, proved for every set of requests, stops *)
(* and nodes, every placement of the calls on the nodes and every node     *)
(* that may crash.                                                         *)
(*                                                                         *)
(* The inductive invariant is Inv, the conjunction of TypeOK with five     *)
(* facts about generations: each running request has drawn its own (GenInv *)
(* and DrawnInv), what a request writes is stamped with the one it drew    *)
(* (StampInv), nothing carries a generation the fence has not reached      *)
(* (BoundInv), and a writer between its fence check and its write still    *)
(* holds the fence's generation unless a request overtook it (WindowInv).  *)
(***************************************************************************)
EXTENDS SessionExecution, TLAPS

(* _interrupted_result keeps the messages and the generation of its state. *)
LEMMA InterruptedType ==
    ASSUME NEW x \in Checkpoint
    PROVE  /\ Interrupted(x) \in Checkpoint
           /\ Interrupted(x).gen = x.gen /\ Interrupted(x).turns = x.turns
BY DEF Interrupted, Checkpoint, Interactions

(* A function of the type keeps it when one value is replaced by another.  *)
LEMMA UpdateType ==
    ASSUME NEW S, NEW C, NEW f \in [S -> C], NEW g, NEW r \in S, NEW y \in C,
           g = f \/ g = [f EXCEPT ![r] = y]
    PROVE  g \in [S -> C]
OBVIOUS

(* A call that moves without entering or leaving the registry's places     *)
(* leaves the registry equal to the set of requests at those places.       *)
LEMMA MoveType ==
    ASSUME NEW r \in Requests, NEW p \in CallPlaces,
           pc \in [Callers -> CallPlaces], pc' = [pc EXCEPT ![r] = p],
           registered = {q \in Requests : pc[q] \in LivePlaces},
           pc[r] \in LivePlaces, p \in LivePlaces, registered' = registered
    PROVE  /\ pc' \in [Callers -> CallPlaces]
           /\ registered' = {q \in Requests : pc'[q] \in LivePlaces}
  <1>1. \A q \in Requests : pc'[q] \in LivePlaces <=> pc[q] \in LivePlaces
    BY DEF Callers
  <1> QED BY <1>1 DEF Callers

(* Every step of every thread preserves the types and the registry. *)
LEMMA TypeStep == ASSUME TypeOK, [Next]_vars PROVE TypeOK'
  <1> USE ConstantsAssumption DEF TypeOK, Callers, Actors, CallPlaces, LivePlaces,
          shared, calls, registry, signals, history
  <1>1. ASSUME NEW r \in Requests, ChatArrives(r) PROVE TypeOK'
    BY <1>1, SMTT(60) DEF ChatArrives, Goto
  <1>2. ASSUME NEW r \in Requests, AnswerArrives(r) PROVE TypeOK'
    BY <1>2, SMTT(60) DEF AnswerArrives, Goto
  <1>3. ASSUME NEW r \in Requests, ChatRoutes(r) PROVE TypeOK'
    <2>1. pc' \in {[pc EXCEPT ![r] = "begin"], [pc EXCEPT ![r] = "active"]}
      BY <1>3 DEF ChatRoutes, Goto
    <2>2. mode' = [mode EXCEPT ![r] = "run"] /\ pc[r] = "interrupting"
          /\ UNCHANGED <<shared, gen, snap, result, registry, signals, history>>
      BY <1>3 DEF ChatRoutes
    <2> QED BY <2>1, <2>2
  <1>4. ASSUME NEW r \in Requests, RunActiveLoads(r) PROVE TypeOK'
    BY <1>4, SMTT(60) DEF RunActiveLoads, Goto, PendingOf, Exists
  <1>5. ASSUME NEW r \in Requests, ResumeLoads(r) PROVE TypeOK'
    <2>1. pc' \in {[pc EXCEPT ![r] = "begin"], [pc EXCEPT ![r] = "confirm"]}
      BY <1>5 DEF ResumeLoads, Goto
    <2>2. mode' \in {mode, [mode EXCEPT ![r] = "resume"], [mode EXCEPT ![r] = "react"]}
      BY <1>5 DEF ResumeLoads
    <2>3. snap' = [snap EXCEPT ![r] = ckpt] /\ pc[r] = "resume"
          /\ UNCHANGED <<shared, gen, result, registry, signals, history>>
      BY <1>5 DEF ResumeLoads
    <2> QED BY <2>1, <2>2, <2>3
  <1>6. ASSUME NEW r \in Requests, ResumeRejects(r) PROVE TypeOK'
    BY <1>6, SMTT(60) DEF ResumeRejects, Goto
  <1>7. ASSUME NEW r \in Requests, ConfirmSaves(r) PROVE TypeOK'
    <2>1. pc' \in {[pc EXCEPT ![r] = "done"], [pc EXCEPT ![r] = "confirmed"]}
      BY <1>7 DEF ConfirmSaves, Goto
    <2>2. ckpt' \in Checkpoint
      <3>1. PICK p \in Interactions : ckpt' = [snap[r] EXCEPT !.pend = p,
          !.halted = FALSE]
        BY <1>7 DEF ConfirmSaves
      <3> QED BY <3>1 DEF Checkpoint
    <2>3. /\ pc[r] = "confirm"
          /\ UNCHANGED <<fence, pendingTool, activeAgent, mode, gen, snap, result,
                         registry, signals, history>>
      BY <1>7 DEF ConfirmSaves
    <2> QED BY <2>1, <2>2, <2>3
  <1>8. ASSUME NEW r \in Requests, ConfirmClears(r) PROVE TypeOK'
    BY <1>8, SMTT(60) DEF ConfirmClears, Goto, Interactions
  <1>9. ASSUME NEW r \in Requests, Begin(r) PROVE TypeOK'
    BY <1>9, SMTT(60) DEF Begin, Goto, NextGeneration
  <1>10. ASSUME NEW r \in Requests, Register(r) PROVE TypeOK'
    BY <1>10, SMTT(60) DEF Register, Goto, RunModes
  <1>11. ASSUME NEW r \in Requests, Bind(r) PROVE TypeOK'
    <2>1. Prepared(r) \in Checkpoint
      BY DEF Prepared, Base, WithTurn, Checkpoint, Interactions
    <2>2. result' \in [Requests -> Checkpoint]
      <3>1. result' = result \/ result' = [result EXCEPT ![r] =
          Interrupted(Prepared(r))]
        BY <1>11 DEF Bind
      <3>2. Interrupted(Prepared(r)) \in Checkpoint /\ result \in [Requests ->
          Checkpoint]
        BY <2>1, InterruptedType
      <3> HIDE DEF TypeOK
      <3> QED BY <3>1, <3>2, UpdateType
    <2>3. pc' \in {[pc EXCEPT ![r] = "check"], [pc EXCEPT ![r] = "graph"]}
      BY <1>11 DEF Bind, Goto
    <2>4. /\ pc[r] = "bind" /\ snap' = [snap EXCEPT ![r] = Prepared(r)]
          /\ bound' = bound \cup {r}
          /\ UNCHANGED <<shared, mode, gen, registered, stop, signals, history>>
      BY <1>11 DEF Bind
    <2>5. /\ pc' \in [Callers -> CallPlaces]
          /\ registered' = {q \in Requests : pc'[q] \in LivePlaces}
      <3>1. PICK p \in {"check", "graph"} : pc' = [pc EXCEPT ![r] = p]
        BY <2>3
      <3>2. p \in CallPlaces /\ p \in LivePlaces /\ pc[r] \in LivePlaces
        BY <3>1, <2>4
      <3> HIDE DEF CallPlaces, LivePlaces
      <3> QED BY <3>1, <3>2, <2>4, MoveType
    <2>6. snap' \in [Callers -> Checkpoint] /\ bound' \subseteq Requests
      <3> HIDE DEF CallPlaces, LivePlaces
      <3> QED BY <2>1, <2>4
    <2> HIDE DEF CallPlaces, LivePlaces, Callers
    <2> QED BY <2>2, <2>4, <2>5, <2>6
  <1>12. ASSUME NEW r \in Requests, OwnerMismatch(r) PROVE TypeOK'
    <2>1. /\ pc[r] = "bind" /\ pc' = [pc EXCEPT ![r] = "unwind"]
          /\ UNCHANGED <<shared, mode, gen, snap, result, registry, signals, history>>
      BY <1>12 DEF OwnerMismatch, Goto
    <2> QED BY <2>1
  <1>13. ASSUME NEW r \in Requests, GraphReturns(r) PROVE TypeOK'
    <2>1. result' \in [Requests -> Checkpoint]
      <3>1. \A p \in Interactions : [snap[r] EXCEPT !.pend = p] \in Checkpoint
        BY DEF Checkpoint
      <3> QED BY <1>13, <3>1, InterruptedType DEF GraphReturns
    <2>2. /\ pc[r] = "graph" /\ pc' = [pc EXCEPT ![r] = "check"]
          /\ activeAgent' \in {"master", "sub"}
          /\ UNCHANGED <<fence, ckpt, pendingTool, mode, gen, snap, registry,
                         signals, history>>
      BY <1>13 DEF GraphReturns, Goto
    <2> QED BY <2>1, <2>2
  <1>14. ASSUME NEW r \in Requests, GraphRaises(r) PROVE TypeOK'
    <2>1. result' \in [Requests -> Checkpoint]
      <3>1. result' = result \/ result' = [result EXCEPT ![r] = Interrupted(snap[r])]
        BY <1>14 DEF GraphRaises
      <3>2. Interrupted(snap[r]) \in Checkpoint /\ result \in [Requests -> Checkpoint]
        BY InterruptedType
      <3> HIDE DEF TypeOK
      <3> QED BY <3>1, <3>2, UpdateType
    <2>2. pc' \in {[pc EXCEPT ![r] = "check"], [pc EXCEPT ![r] = "unwind"]}
      BY <1>14 DEF GraphRaises, Goto
    <2>3. pc[r] = "graph" /\ UNCHANGED <<shared, mode, gen, snap, registry,
        signals, history>>
      BY <1>14 DEF GraphRaises
    <2> QED BY <2>1, <2>2, <2>3
  <1>15. ASSUME NEW r \in Requests, CheckFence(r) PROVE TypeOK'
    <2>1. result' \in [Requests -> Checkpoint]
      BY <1>15, InterruptedType DEF CheckFence
    <2>2. pc' \in {[pc EXCEPT ![r] = "tool"], [pc EXCEPT ![r] = "finally"]}
      BY <1>15 DEF CheckFence, Goto, AfterCheck
    <2>3. /\ pc[r] = "check" /\ dropped' \subseteq dropped \cup {r}
          /\ UNCHANGED <<shared, mode, gen, snap, registry, signals, overtaken>>
      BY <1>15 DEF CheckFence
    <2>4. /\ pc' \in [Callers -> CallPlaces]
          /\ registered' = {q \in Requests : pc'[q] \in LivePlaces}
      <3>1. PICK p \in {"tool", "finally"} : pc' = [pc EXCEPT ![r] = p]
        BY <2>2
      <3>2. p \in CallPlaces /\ p \in LivePlaces /\ pc[r] \in LivePlaces
        BY <3>1, <2>3
      <3> HIDE DEF CallPlaces, LivePlaces
      <3> QED BY <3>1, <3>2, <2>3, MoveType
    <2> HIDE DEF CallPlaces, LivePlaces, Callers
    <2> QED BY <2>1, <2>3, <2>4
  <1>16. ASSUME NEW r \in Requests, SetTool(r) PROVE TypeOK'
    BY <1>16, SMTT(60) DEF SetTool, Goto, NewQuestion, Checkpoint
  <1>17. ASSUME NEW r \in Requests, Save(r) PROVE TypeOK'
    BY <1>17, SMTT(60) DEF Save, Goto
  <1>18. ASSUME NEW r \in Requests, Finally(r) PROVE TypeOK'
    <2>1. PICK p \in {"failed", "resave", "done"} : pc' = [pc EXCEPT ![r] = p]
      BY <1>18 DEF Finally, Goto
    <2>2. pendingTool' \in Interactions
      BY <1>18 DEF Finally, ToolAfter, Interactions
    <2>3. result' \in [Requests -> Checkpoint]
      <3>1. NoCheckpoint \in Checkpoint
        BY DEF NoCheckpoint, Checkpoint, Interactions
      <3>2. result' = result \/ result' = [result EXCEPT ![r] = NoCheckpoint]
        BY <1>18 DEF Finally
      <3>3. result \in [Requests -> Checkpoint]
        OBVIOUS
      <3> HIDE DEF TypeOK
      <3> QED BY <3>1, <3>2, <3>3, UpdateType
    <2>4. registered' = registered \ {r} /\ bound' = bound \ {r} /\ stop' = stop \ {r}
          /\ UNCHANGED <<fence, ckpt, activeAgent, mode, gen, snap, signals, history>>
      BY <1>18 DEF Finally, Deregistered
    <2>5. registered' = {q \in Requests : pc'[q] \in LivePlaces}
      BY <2>1, <2>4
    <2> QED BY <2>1, <2>2, <2>3, <2>4, <2>5
  <1>19. ASSUME NEW r \in Requests, Resave(r) PROVE TypeOK'
    BY <1>19, SMTT(60) DEF Resave, Goto
  <1>20. ASSUME NEW s \in Stops, StopLoads(s) PROVE TypeOK'
    BY <1>20, SMTT(60) DEF StopLoads, Goto
  <1>21. ASSUME NEW s \in Stops, StopReads(s) PROVE TypeOK'
    BY <1>21, SMTT(60) DEF StopReads, Goto
  <1>22. ASSUME NEW s \in Stops, StopChecks(s) PROVE TypeOK'
    BY <1>22, SMTT(60) DEF StopChecks, Goto
  <1>23. ASSUME NEW s \in Stops, StopSaves(s) PROVE TypeOK'
    <2>1. ckpt' \in Checkpoint
      <3>1. Interrupted(snap[s]) \in Checkpoint /\ ig[s] \in Nat
        BY InterruptedType
      <3>2. ckpt' = [Interrupted(snap[s]) EXCEPT !.gen = ig[s]]
        BY <1>23 DEF StopSaves
      <3> HIDE DEF TypeOK, shared, calls, registry, signals, history
      <3> QED BY <3>1, <3>2 DEF Checkpoint
    <2>2. /\ pc[s] = "save" /\ pc' = [pc EXCEPT ![s] = "done"]
          /\ UNCHANGED <<fence, pendingTool, activeAgent, mode, gen, snap, result,
                         registry, signals, history>>
      BY <1>23 DEF StopSaves, Goto
    <2> QED BY <2>1, <2>2
  <1>24. ASSUME NEW a \in Actors, Hit(a) PROVE TypeOK'
    BY <1>24, SMTT(60) DEF Hit, Goto, Targets, Where
  <1>25. ASSUME NEW a \in Actors, PersistChecks(a) PROVE TypeOK'
    BY <1>25, SMTT(60) DEF PersistChecks, Goto, SnapshotIsCurrent, IsCurrent
  <1>26. ASSUME NEW a \in Actors, PersistSaves(a) PROVE TypeOK'
    <2>1. ckpt' \in Checkpoint
      BY <1>26, InterruptedType DEF PersistSaves
    <2> QED BY <1>26, <2>1 DEF PersistSaves
  <1>27. ASSUME NEW a \in Actors, Notifies(a) PROVE TypeOK'
    <2>1. bus' \in [Nodes -> Seq(Nat)]
      <3>1. bus' = Published(a)
        BY <1>27 DEF Notifies
      <3> QED BY <3>1 DEF Published, Where
    <2>2. pendingTool' \in Interactions
      BY <1>27 DEF Notifies, Interactions
    <2>3. ip' \in [Actors -> {"off", "hit", "persist"}] /\ ig' \in [Actors -> Nat]
      BY <1>27 DEF Notifies
    <2>4. UNCHANGED <<fence, ckpt, activeAgent, calls, registry, victims, saving,
                     listening, history>>
      BY <1>27 DEF Notifies
    <2> QED BY <2>1, <2>2, <2>3, <2>4
  <1>28. ASSUME NEW n \in Nodes, Receives(n) PROVE TypeOK'
    BY <1>28, SMTT(60) DEF Receives, Goto
  <1>29. ASSUME NEW n \in Nodes, ListenerFails(n) PROVE TypeOK'
    BY <1>29, SMTT(60) DEF ListenerFails, Goto
  <1>30. ASSUME NEW n \in Nodes, Crash(n) PROVE TypeOK'
    BY <1>30, SMTT(60) DEF Crash, Goto, KilledWith, Where, Settled
  <1>31. CASE UNCHANGED vars
    BY <1>31 DEF vars, shared, calls, registry, signals, history
  <1>32. ASSUME NEW r \in Requests, AgentStarts(r) PROVE TypeOK'
    BY <1>32 DEF AgentStarts, calls, registry, signals, history, shared
  <1> QED
    BY <1>1, <1>2, <1>3, <1>4, <1>5, <1>6, <1>7, <1>8, <1>9, <1>10, <1>11,
       <1>12, <1>13, <1>14, <1>15, <1>16, <1>17, <1>18, <1>19, <1>20, <1>21,
       <1>22, <1>23, <1>24, <1>25, <1>26, <1>27, <1>28, <1>29, <1>30, <1>31, <1>32 DEF
       Next, RunStep, StopStep, InterruptStep
-----------------------------------------------------------------------------
(* No two requests draw the same generation, and none is ahead of the fence. *)
GenInv ==
    /\ \A r \in Requests : gen[r] <= fence
    /\ \A q, r \in Requests : gen[q] = gen[r] /\ gen[r] > 0 => q = r

(* SessionExecutionFence.begin is the only step that touches a generation. *)
LEMMA GenStep == ASSUME TypeOK, GenInv, [Next]_vars PROVE GenInv'
  <1> USE DEF TypeOK, GenInv, shared, calls, registry, signals, history
  <1>1. ASSUME NEW r \in Requests, ChatArrives(r) PROVE GenInv'
    BY <1>1, SMTT(60) DEF ChatArrives
  <1>2. ASSUME NEW r \in Requests, AnswerArrives(r) PROVE GenInv'
    BY <1>2, SMTT(60) DEF AnswerArrives
  <1>3. ASSUME NEW r \in Requests, ChatRoutes(r) PROVE GenInv'
    BY <1>3, SMTT(60) DEF ChatRoutes
  <1>4. ASSUME NEW r \in Requests, RunActiveLoads(r) PROVE GenInv'
    BY <1>4, SMTT(60) DEF RunActiveLoads
  <1>5. ASSUME NEW r \in Requests, ResumeLoads(r) PROVE GenInv'
    BY <1>5, SMTT(60) DEF ResumeLoads
  <1>6. ASSUME NEW r \in Requests, ResumeRejects(r) PROVE GenInv'
    BY <1>6, SMTT(60) DEF ResumeRejects
  <1>7. ASSUME NEW r \in Requests, ConfirmSaves(r) PROVE GenInv'
    BY <1>7, SMTT(60) DEF ConfirmSaves
  <1>8. ASSUME NEW r \in Requests, ConfirmClears(r) PROVE GenInv'
    BY <1>8, SMTT(60) DEF ConfirmClears
  <1>9. ASSUME NEW r \in Requests, Begin(r) PROVE GenInv'
    BY <1>9, SMTT(60) DEF Begin, NextGeneration
  <1>10. ASSUME NEW r \in Requests, Register(r) PROVE GenInv'
    BY <1>10, SMTT(60) DEF Register
  <1>11. ASSUME NEW r \in Requests, Bind(r) PROVE GenInv'
    BY <1>11, SMTT(60) DEF Bind
  <1>12. ASSUME NEW r \in Requests, OwnerMismatch(r) PROVE GenInv'
    BY <1>12, SMTT(60) DEF OwnerMismatch
  <1>13. ASSUME NEW r \in Requests, GraphReturns(r) PROVE GenInv'
    BY <1>13, SMTT(60) DEF GraphReturns
  <1>14. ASSUME NEW r \in Requests, GraphRaises(r) PROVE GenInv'
    BY <1>14, SMTT(60) DEF GraphRaises
  <1>15. ASSUME NEW r \in Requests, CheckFence(r) PROVE GenInv'
    BY <1>15, SMTT(60) DEF CheckFence
  <1>16. ASSUME NEW r \in Requests, SetTool(r) PROVE GenInv'
    BY <1>16, SMTT(60) DEF SetTool
  <1>17. ASSUME NEW r \in Requests, Save(r) PROVE GenInv'
    BY <1>17, SMTT(60) DEF Save
  <1>18. ASSUME NEW r \in Requests, Finally(r) PROVE GenInv'
    BY <1>18, SMTT(60) DEF Finally
  <1>19. ASSUME NEW r \in Requests, Resave(r) PROVE GenInv'
    BY <1>19, SMTT(60) DEF Resave
  <1>20. ASSUME NEW s \in Stops, StopLoads(s) PROVE GenInv'
    BY <1>20, SMTT(60) DEF StopLoads
  <1>21. ASSUME NEW s \in Stops, StopReads(s) PROVE GenInv'
    BY <1>21, SMTT(60) DEF StopReads
  <1>22. ASSUME NEW s \in Stops, StopChecks(s) PROVE GenInv'
    BY <1>22, SMTT(60) DEF StopChecks
  <1>23. ASSUME NEW s \in Stops, StopSaves(s) PROVE GenInv'
    BY <1>23, SMTT(60) DEF StopSaves
  <1>24. ASSUME NEW a \in Actors, Hit(a) PROVE GenInv'
    BY <1>24, SMTT(60) DEF Hit
  <1>25. ASSUME NEW a \in Actors, PersistChecks(a) PROVE GenInv'
    BY <1>25, SMTT(60) DEF PersistChecks
  <1>26. ASSUME NEW a \in Actors, PersistSaves(a) PROVE GenInv'
    BY <1>26, SMTT(60) DEF PersistSaves
  <1>27. ASSUME NEW a \in Actors, Notifies(a) PROVE GenInv'
    BY <1>27, SMTT(60) DEF Notifies
  <1>28. ASSUME NEW n \in Nodes, Receives(n) PROVE GenInv'
    BY <1>28, SMTT(60) DEF Receives
  <1>29. ASSUME NEW n \in Nodes, ListenerFails(n) PROVE GenInv'
    BY <1>29, SMTT(60) DEF ListenerFails
  <1>30. ASSUME NEW n \in Nodes, Crash(n) PROVE GenInv'
    BY <1>30, SMTT(60) DEF Crash
  <1>31. CASE UNCHANGED vars
    BY <1>31 DEF vars, shared, calls, registry, signals, history
  <1>32. ASSUME NEW r \in Requests, AgentStarts(r) PROVE GenInv'
    BY <1>32 DEF AgentStarts, calls, registry, signals, history, shared
  <1> QED
    BY <1>1, <1>2, <1>3, <1>4, <1>5, <1>6, <1>7, <1>8, <1>9, <1>10, <1>11,
       <1>12, <1>13, <1>14, <1>15, <1>16, <1>17, <1>18, <1>19, <1>20, <1>21,
       <1>22, <1>23, <1>24, <1>25, <1>26, <1>27, <1>28, <1>29, <1>30, <1>31, <1>32 DEF
       Next, RunStep, StopStep, InterruptStep

(* The places of a request whose snapshot an interrupt callback may hold.   *)
PastBind == {"graph", "check", "tool", "save", "finally", "unwind", "resave",
             "done", "failed", "lost"}
Exposed(r) == r \in bound \/ \E a \in Actors : r \in victims[a] \/ r \in saving[a]

(* What a request is about to save carries the generation it drew. *)
StampInv ==
    /\ \A r \in Requests : pc[r] = "graph" => snap[r].gen = gen[r]
    /\ \A r \in Requests : pc[r] \in {"check", "tool", "save"} => result[r].gen = gen[r]
    /\ \A r \in Requests : Exposed(r) => pc[r] \in PastBind /\ snap[r].gen = gen[r]

(* A snapshot that a callback may still save is never replaced. *)
LEMMA StampStep == ASSUME TypeOK, StampInv, [Next]_vars PROVE StampInv'
  <1> USE ConstantsAssumption DEF TypeOK, StampInv, Exposed, PastBind, Callers,
      shared, calls, registry, signals, history
  <1>1. ASSUME NEW r \in Requests, ChatArrives(r) PROVE StampInv'
    BY <1>1, SMTT(60) DEF ChatArrives, Goto
  <1>2. ASSUME NEW r \in Requests, AnswerArrives(r) PROVE StampInv'
    BY <1>2, SMTT(60) DEF AnswerArrives, Goto
  <1>3. ASSUME NEW r \in Requests, ChatRoutes(r) PROVE StampInv'
    <2>1. PICK p \in {"begin", "active"} : pc' = [pc EXCEPT ![r] = p]
      BY <1>3 DEF ChatRoutes, Goto
    <2>2. pc[r] = "interrupting" /\ UNCHANGED <<gen, snap, result, registry, signals>>
      BY <1>3 DEF ChatRoutes
    <2> QED BY <2>1, <2>2
  <1>4. ASSUME NEW r \in Requests, RunActiveLoads(r) PROVE StampInv'
    BY <1>4, SMTT(60) DEF RunActiveLoads, Goto
  <1>5. ASSUME NEW r \in Requests, ResumeLoads(r) PROVE StampInv'
    <2>1. PICK p \in {"begin", "confirm"} : pc' = [pc EXCEPT ![r] = p]
      BY <1>5 DEF ResumeLoads, Goto
    <2>2. /\ pc[r] = "resume" /\ snap' = [snap EXCEPT ![r] = ckpt]
          /\ UNCHANGED <<gen, result, registry, signals>>
      BY <1>5 DEF ResumeLoads
    <2> QED BY <2>1, <2>2
  <1>6. ASSUME NEW r \in Requests, ResumeRejects(r) PROVE StampInv'
    BY <1>6, SMTT(60) DEF ResumeRejects, Goto
  <1>7. ASSUME NEW r \in Requests, ConfirmSaves(r) PROVE StampInv'
    BY <1>7, SMTT(60) DEF ConfirmSaves, Goto
  <1>8. ASSUME NEW r \in Requests, ConfirmClears(r) PROVE StampInv'
    BY <1>8, SMTT(60) DEF ConfirmClears, Goto
  <1>9. ASSUME NEW r \in Requests, Begin(r) PROVE StampInv'
    BY <1>9, SMTT(60) DEF Begin, Goto
  <1>10. ASSUME NEW r \in Requests, Register(r) PROVE StampInv'
    BY <1>10, SMTT(60) DEF Register, Goto
  <1>11. ASSUME NEW r \in Requests, Bind(r) PROVE StampInv'
    <2>1. Prepared(r).gen = gen[r] /\ Interrupted(Prepared(r)).gen = gen[r]
      BY DEF Prepared, Interrupted
    <2>2. /\ pc[r] = "bind" /\ snap' = [snap EXCEPT ![r] = Prepared(r)]
          /\ bound' = bound \cup {r} /\ UNCHANGED <<gen, signals>>
      BY <1>11 DEF Bind
    <2>3. \/ pc' = [pc EXCEPT ![r] = "graph"] /\ result' = result
          \/ /\ pc' = [pc EXCEPT ![r] = "check"]
             /\ result' = [result EXCEPT ![r] = Interrupted(Prepared(r))]
      BY <1>11 DEF Bind, Goto
    <2> QED BY <2>1, <2>2, <2>3
  <1>12. ASSUME NEW r \in Requests, OwnerMismatch(r) PROVE StampInv'
    <2>1. /\ pc[r] = "bind" /\ pc' = [pc EXCEPT ![r] = "unwind"]
          /\ UNCHANGED <<shared, mode, gen, snap, result, registry, signals, history>>
      BY <1>12 DEF OwnerMismatch, Goto
    <2> QED BY <2>1
  <1>13. ASSUME NEW r \in Requests, GraphReturns(r) PROVE StampInv'
    <2>1. PICK x : result' = [result EXCEPT ![r] = x] /\ x.gen = snap[r].gen
      <3>1. PICK p : result' = [result EXCEPT ![r] =
              IF r \in stop THEN Interrupted(snap[r]) ELSE [snap[r] EXCEPT !.pend = p]]
        BY <1>13 DEF GraphReturns
      <3>2. Interrupted(snap[r]).gen = snap[r].gen
        BY InterruptedType
      <3>3. [snap[r] EXCEPT !.pend = p].gen = snap[r].gen
        BY DEF Checkpoint
      <3> QED BY <3>1, <3>2, <3>3
    <2>2. /\ pc[r] = "graph" /\ pc' = [pc EXCEPT ![r] = "check"]
          /\ UNCHANGED <<gen, snap, registry, signals>>
      BY <1>13 DEF GraphReturns, Goto
    <2> QED BY <2>1, <2>2
  <1>14. ASSUME NEW r \in Requests, GraphRaises(r) PROVE StampInv'
    <2>1. /\ pc[r] = "graph" /\ UNCHANGED <<gen, snap, registry, signals>>
      BY <1>14 DEF GraphRaises
    <2>2. PICK p \in {"check", "unwind"} :
            /\ pc' = [pc EXCEPT ![r] = p]
            /\ p = "check" => result' = [result EXCEPT ![r] = Interrupted(snap[r])]
            /\ p = "unwind" => result' = result
      BY <1>14 DEF GraphRaises, Goto
    <2>3. Interrupted(snap[r]).gen = snap[r].gen
      BY InterruptedType
    <2> QED BY <2>1, <2>2, <2>3
  <1>15. ASSUME NEW r \in Requests, CheckFence(r) PROVE StampInv'
    <2>1. PICK x : result' = [result EXCEPT ![r] = x] /\ x.gen = result[r].gen
      <3>1. result[r] \in Checkpoint /\ Interrupted(result[r]).gen = result[r].gen
        BY InterruptedType
      <3>2. \/ result' = [result EXCEPT ![r] = result[r]]
            \/ result' = [result EXCEPT ![r] = Interrupted(result[r])]
        <4> HIDE DEF TypeOK, StampInv
        <4> QED BY <1>15 DEF CheckFence
      <3> HIDE DEF TypeOK, StampInv
      <3> QED BY <3>1, <3>2
    <2>2. PICK p \in {"tool", "finally"} : pc' = [pc EXCEPT ![r] = p]
      BY <1>15 DEF CheckFence, AfterCheck, Goto
    <2>3. pc[r] = "check" /\ UNCHANGED <<gen, snap, registry, signals>>
      BY <1>15 DEF CheckFence
    <2> QED BY <2>1, <2>2, <2>3
  <1>16. ASSUME NEW r \in Requests, SetTool(r) PROVE StampInv'
    BY <1>16, SMTT(60) DEF SetTool, Goto
  <1>17. ASSUME NEW r \in Requests, Save(r) PROVE StampInv'
    BY <1>17, SMTT(60) DEF Save, Goto
  <1>18. ASSUME NEW r \in Requests, Finally(r) PROVE StampInv'
    BY <1>18, SMTT(60) DEF Finally, Goto
  <1>19. ASSUME NEW r \in Requests, Resave(r) PROVE StampInv'
    BY <1>19, SMTT(60) DEF Resave, Goto
  <1>20. ASSUME NEW s \in Stops, StopLoads(s) PROVE StampInv'
    BY <1>20, SMTT(60) DEF StopLoads, Goto
  <1>21. ASSUME NEW s \in Stops, StopReads(s) PROVE StampInv'
    BY <1>21, SMTT(60) DEF StopReads, Goto
  <1>22. ASSUME NEW s \in Stops, StopChecks(s) PROVE StampInv'
    BY <1>22, SMTT(60) DEF StopChecks, Goto
  <1>23. ASSUME NEW s \in Stops, StopSaves(s) PROVE StampInv'
    BY <1>23, SMTT(60) DEF StopSaves, Goto
  <1>24. ASSUME NEW a \in Actors, Hit(a) PROVE StampInv'
    BY <1>24, SMTT(60) DEF Hit, Goto
  <1>25. ASSUME NEW a \in Actors, PersistChecks(a) PROVE StampInv'
    BY <1>25, SMTT(60) DEF PersistChecks, Goto
  <1>26. ASSUME NEW a \in Actors, PersistSaves(a) PROVE StampInv'
    BY <1>26, SMTT(60) DEF PersistSaves, Goto
  <1>27. ASSUME NEW a \in Actors, Notifies(a) PROVE StampInv'
    BY <1>27, SMTT(60) DEF Notifies, Goto
  <1>28. ASSUME NEW n \in Nodes, Receives(n) PROVE StampInv'
    BY <1>28, SMTT(60) DEF Receives, Goto
  <1>29. ASSUME NEW n \in Nodes, ListenerFails(n) PROVE StampInv'
    BY <1>29, SMTT(60) DEF ListenerFails, Goto
  <1>30. ASSUME NEW n \in Nodes, Crash(n) PROVE StampInv'
    BY <1>30, SMTT(60) DEF Crash, Goto
  <1>31. CASE UNCHANGED vars
    BY <1>31 DEF vars, shared, calls, registry, signals, history
  <1>32. ASSUME NEW r \in Requests, AgentStarts(r) PROVE StampInv'
    BY <1>32 DEF AgentStarts, calls, registry, signals, history, shared
  <1> QED
    BY <1>1, <1>2, <1>3, <1>4, <1>5, <1>6, <1>7, <1>8, <1>9, <1>10, <1>11,
       <1>12, <1>13, <1>14, <1>15, <1>16, <1>17, <1>18, <1>19, <1>20, <1>21,
       <1>22, <1>23, <1>24, <1>25, <1>26, <1>27, <1>28, <1>29, <1>30, <1>31, <1>32 DEF
       Next, RunStep, StopStep, InterruptStep

(* No state anywhere carries a generation the fence has not reached. *)
BoundInv ==
    /\ ckpt.gen <= fence
    /\ \A c \in Callers : snap[c].gen <= fence
    /\ \A r \in Requests : result[r].gen <= fence
    /\ \A s \in Stops : ig[s] <= fence

(* States only ever take generations that were drawn or read. *)
LEMMA BoundStep == ASSUME TypeOK, GenInv, BoundInv, [Next]_vars PROVE BoundInv'
  <1> USE ConstantsAssumption DEF TypeOK, GenInv, BoundInv, Callers, Actors,
      shared, calls, registry, signals, history
  <1>1. ASSUME NEW r \in Requests, ChatArrives(r) PROVE BoundInv'
    BY <1>1, SMTT(60) DEF ChatArrives
  <1>2. ASSUME NEW r \in Requests, AnswerArrives(r) PROVE BoundInv'
    BY <1>2, SMTT(60) DEF AnswerArrives
  <1>3. ASSUME NEW r \in Requests, ChatRoutes(r) PROVE BoundInv'
    BY <1>3, SMTT(60) DEF ChatRoutes
  <1>4. ASSUME NEW r \in Requests, RunActiveLoads(r) PROVE BoundInv'
    BY <1>4, SMTT(60) DEF RunActiveLoads
  <1>5. ASSUME NEW r \in Requests, ResumeLoads(r) PROVE BoundInv'
    BY <1>5, SMTT(60) DEF ResumeLoads
  <1>6. ASSUME NEW r \in Requests, ResumeRejects(r) PROVE BoundInv'
    BY <1>6, SMTT(60) DEF ResumeRejects
  <1>7. ASSUME NEW r \in Requests, ConfirmSaves(r) PROVE BoundInv'
    BY <1>7, SMTT(60) DEF ConfirmSaves
  <1>8. ASSUME NEW r \in Requests, ConfirmClears(r) PROVE BoundInv'
    BY <1>8, SMTT(60) DEF ConfirmClears
  <1>9. ASSUME NEW r \in Requests, Begin(r) PROVE BoundInv'
    <2>1. fence' = fence + 1 /\ UNCHANGED <<ckpt, snap, result, ig>>
      BY <1>9 DEF Begin, NextGeneration
    <2>2. \A i, f \in Nat : i <= f => i <= f + 1
      OBVIOUS
    <2>3. /\ ckpt.gen \in Nat
          /\ \A c \in Callers : snap[c].gen \in Nat
          /\ \A q \in Requests : result[q].gen \in Nat
      BY DEF Checkpoint
    <2> QED BY <2>1, <2>2, <2>3
  <1>10. ASSUME NEW r \in Requests, Register(r) PROVE BoundInv'
    BY <1>10, SMTT(60) DEF Register
  <1>11. ASSUME NEW r \in Requests, Bind(r) PROVE BoundInv'
    <2>1. Prepared(r).gen = gen[r] /\ Interrupted(Prepared(r)).gen = gen[r]
      BY DEF Prepared, Interrupted
    <2>2. /\ snap' = [snap EXCEPT ![r] = Prepared(r)]
          /\ UNCHANGED <<fence, ckpt, ig>>
      BY <1>11 DEF Bind
    <2>3. \/ result' = result
          \/ result' = [result EXCEPT ![r] = Interrupted(Prepared(r))]
      BY <1>11 DEF Bind
    <2> QED BY <2>1, <2>2, <2>3
  <1>12. ASSUME NEW r \in Requests, OwnerMismatch(r) PROVE BoundInv'
    BY <1>12, SMTT(60) DEF OwnerMismatch
  <1>13. ASSUME NEW r \in Requests, GraphReturns(r) PROVE BoundInv'
    <2>1. PICK x : result' = [result EXCEPT ![r] = x] /\ x.gen = snap[r].gen
      <3>1. PICK p : result' = [result EXCEPT ![r] =
              IF r \in stop THEN Interrupted(snap[r]) ELSE [snap[r] EXCEPT !.pend = p]]
        BY <1>13 DEF GraphReturns
      <3>2. Interrupted(snap[r]).gen = snap[r].gen
        BY InterruptedType
      <3>3. [snap[r] EXCEPT !.pend = p].gen = snap[r].gen
        BY DEF Checkpoint
      <3> QED BY <3>1, <3>2, <3>3
    <2>2. UNCHANGED <<fence, ckpt, snap, ig>>
      BY <1>13 DEF GraphReturns
    <2> QED BY <2>1, <2>2
  <1>14. ASSUME NEW r \in Requests, GraphRaises(r) PROVE BoundInv'
    <2>1. UNCHANGED <<fence, ckpt, snap, ig>>
      BY <1>14 DEF GraphRaises
    <2>2. \/ result' = result
          \/ result' = [result EXCEPT ![r] = Interrupted(snap[r])]
      BY <1>14 DEF GraphRaises
    <2>3. Interrupted(snap[r]).gen = snap[r].gen
      BY InterruptedType
    <2> QED BY <2>1, <2>2, <2>3
  <1>15. ASSUME NEW r \in Requests, CheckFence(r) PROVE BoundInv'
    <2>1. PICK x : result' = [result EXCEPT ![r] = x] /\ x.gen = result[r].gen
      BY <1>15, InterruptedType DEF CheckFence
    <2>2. UNCHANGED <<fence, ckpt, snap, ig>>
      BY <1>15 DEF CheckFence
    <2> QED BY <2>1, <2>2
  <1>16. ASSUME NEW r \in Requests, SetTool(r) PROVE BoundInv'
    BY <1>16, SMTT(60) DEF SetTool
  <1>17. ASSUME NEW r \in Requests, Save(r) PROVE BoundInv'
    BY <1>17, SMTT(60) DEF Save
  <1>18. ASSUME NEW r \in Requests, Finally(r) PROVE BoundInv'
    <2>1. result' = result \/ result' = [result EXCEPT ![r] = NoCheckpoint]
      BY <1>18 DEF Finally
    <2>2. NoCheckpoint.gen <= fence
      BY DEF NoCheckpoint
    <2>3. UNCHANGED <<fence, ckpt, snap, ig>>
      BY <1>18 DEF Finally
    <2> QED BY <2>1, <2>2, <2>3
  <1>19. ASSUME NEW r \in Requests, Resave(r) PROVE BoundInv'
    BY <1>19, SMTT(60) DEF Resave
  <1>20. ASSUME NEW s \in Stops, StopLoads(s) PROVE BoundInv'
    BY <1>20, SMTT(60) DEF StopLoads
  <1>21. ASSUME NEW s \in Stops, StopReads(s) PROVE BoundInv'
    BY <1>21, SMTT(60) DEF StopReads
  <1>22. ASSUME NEW s \in Stops, StopChecks(s) PROVE BoundInv'
    BY <1>22, SMTT(60) DEF StopChecks
  <1>23. ASSUME NEW s \in Stops, StopSaves(s) PROVE BoundInv'
    BY <1>23, SMTT(60) DEF StopSaves
  <1>24. ASSUME NEW a \in Actors, Hit(a) PROVE BoundInv'
    BY <1>24, SMTT(60) DEF Hit
  <1>25. ASSUME NEW a \in Actors, PersistChecks(a) PROVE BoundInv'
    BY <1>25, SMTT(60) DEF PersistChecks
  <1>26. ASSUME NEW a \in Actors, PersistSaves(a) PROVE BoundInv'
    <2>1. PICK r \in Requests : ckpt' = Interrupted(snap[r])
      BY <1>26 DEF PersistSaves
    <2>2. ckpt'.gen = snap[r].gen
      BY <2>1, InterruptedType
    <2>3. UNCHANGED <<fence, snap, result, ig>>
      BY <1>26 DEF PersistSaves
    <2> QED BY <2>2, <2>3
  <1>27. ASSUME NEW a \in Actors, Notifies(a) PROVE BoundInv'
    BY <1>27, SMTT(60) DEF Notifies
  <1>28. ASSUME NEW n \in Nodes, Receives(n) PROVE BoundInv'
    BY <1>28, SMTT(60) DEF Receives
  <1>29. ASSUME NEW n \in Nodes, ListenerFails(n) PROVE BoundInv'
    BY <1>29, SMTT(60) DEF ListenerFails
  <1>30. ASSUME NEW n \in Nodes, Crash(n) PROVE BoundInv'
    BY <1>30, SMTT(60) DEF Crash
  <1>31. CASE UNCHANGED vars
    BY <1>31 DEF vars, shared, calls, registry, signals, history
  <1>32. ASSUME NEW r \in Requests, AgentStarts(r) PROVE BoundInv'
    BY <1>32 DEF AgentStarts, calls, registry, signals, history, shared
  <1> QED
    BY <1>1, <1>2, <1>3, <1>4, <1>5, <1>6, <1>7, <1>8, <1>9, <1>10, <1>11,
       <1>12, <1>13, <1>14, <1>15, <1>16, <1>17, <1>18, <1>19, <1>20, <1>21,
       <1>22, <1>23, <1>24, <1>25, <1>26, <1>27, <1>28, <1>29, <1>30, <1>31, <1>32 DEF
       Next, RunStep, StopStep, InterruptStep

(* Between a writer's check and its write the fence stands, or it was overtaken. *)
WindowInv ==
    ~overtaken =>
        /\ \A r \in Requests : pc[r] \in {"tool", "save"} => gen[r] = fence
        /\ \A s \in Stops : pc[s] = "save" => ig[s] = fence
        /\ \A s \in Stops : pc[s] = "interrupting" /\ ig[s] = 0 => fence = 0
        /\ \A a \in Actors : \A r \in saving[a] : gen[r] = fence

(* Begin is the only step that moves the fence, and it records the overtaking. *)
LEMMA WindowStep == ASSUME TypeOK, WindowInv, [Next]_vars PROVE WindowInv'
  <1> USE ConstantsAssumption DEF TypeOK, WindowInv, Callers, Actors, shared,
      calls, registry, signals, history
  <1>1. ASSUME NEW r \in Requests, ChatArrives(r) PROVE WindowInv'
    BY <1>1, SMTT(60) DEF ChatArrives, Goto
  <1>2. ASSUME NEW r \in Requests, AnswerArrives(r) PROVE WindowInv'
    BY <1>2, SMTT(60) DEF AnswerArrives, Goto
  <1>3. ASSUME NEW r \in Requests, ChatRoutes(r) PROVE WindowInv'
    BY <1>3, SMTT(60) DEF ChatRoutes, Goto
  <1>4. ASSUME NEW r \in Requests, RunActiveLoads(r) PROVE WindowInv'
    BY <1>4, SMTT(60) DEF RunActiveLoads, Goto
  <1>5. ASSUME NEW r \in Requests, ResumeLoads(r) PROVE WindowInv'
    BY <1>5, SMTT(60) DEF ResumeLoads, Goto
  <1>6. ASSUME NEW r \in Requests, ResumeRejects(r) PROVE WindowInv'
    BY <1>6, SMTT(60) DEF ResumeRejects, Goto
  <1>7. ASSUME NEW r \in Requests, ConfirmSaves(r) PROVE WindowInv'
    BY <1>7, SMTT(60) DEF ConfirmSaves, Goto
  <1>8. ASSUME NEW r \in Requests, ConfirmClears(r) PROVE WindowInv'
    BY <1>8, SMTT(60) DEF ConfirmClears, Goto
  <1>9. ASSUME NEW r \in Requests, Begin(r) PROVE WindowInv'
    <2>1. CASE overtaken'
      BY <2>1
    <2>2. CASE ~InWindow
      <3>1. pc' = [pc EXCEPT ![r] = "register"] /\ UNCHANGED <<ig, saving>>
        BY <1>9 DEF Begin, Goto
      <3> QED BY <2>2, <3>1 DEF InWindow
    <2> QED BY <1>9, <2>1, <2>2 DEF Begin
  <1>10. ASSUME NEW r \in Requests, Register(r) PROVE WindowInv'
    BY <1>10, SMTT(60) DEF Register, Goto
  <1>11. ASSUME NEW r \in Requests, Bind(r) PROVE WindowInv'
    BY <1>11, SMTT(60) DEF Bind, Goto
  <1>12. ASSUME NEW r \in Requests, OwnerMismatch(r) PROVE WindowInv'
    <2>1. /\ pc[r] = "bind" /\ pc' = [pc EXCEPT ![r] = "unwind"]
          /\ UNCHANGED <<shared, mode, gen, snap, result, registry, signals, history>>
      BY <1>12 DEF OwnerMismatch, Goto
    <2> QED BY <2>1
  <1>13. ASSUME NEW r \in Requests, GraphReturns(r) PROVE WindowInv'
    BY <1>13, SMTT(60) DEF GraphReturns, Goto
  <1>14. ASSUME NEW r \in Requests, GraphRaises(r) PROVE WindowInv'
    BY <1>14, SMTT(60) DEF GraphRaises, Goto
  <1>15. ASSUME NEW r \in Requests, CheckFence(r) PROVE WindowInv'
    BY <1>15, SMTT(60) DEF CheckFence, Goto, AfterCheck, IsCurrent
  <1>16. ASSUME NEW r \in Requests, SetTool(r) PROVE WindowInv'
    BY <1>16, SMTT(60) DEF SetTool, Goto
  <1>17. ASSUME NEW r \in Requests, Save(r) PROVE WindowInv'
    BY <1>17, SMTT(60) DEF Save, Goto
  <1>18. ASSUME NEW r \in Requests, Finally(r) PROVE WindowInv'
    BY <1>18, SMTT(60) DEF Finally, Goto
  <1>19. ASSUME NEW r \in Requests, Resave(r) PROVE WindowInv'
    BY <1>19, SMTT(60) DEF Resave, Goto
  <1>20. ASSUME NEW s \in Stops, StopLoads(s) PROVE WindowInv'
    BY <1>20, SMTT(60) DEF StopLoads, Goto
  <1>21. ASSUME NEW s \in Stops, StopReads(s) PROVE WindowInv'
    BY <1>21, SMTT(60) DEF StopReads, Goto
  <1>22. ASSUME NEW s \in Stops, StopChecks(s) PROVE WindowInv'
    BY <1>22, SMTT(60) DEF StopChecks, Goto, IsCurrent
  <1>23. ASSUME NEW s \in Stops, StopSaves(s) PROVE WindowInv'
    BY <1>23, SMTT(60) DEF StopSaves, Goto
  <1>24. ASSUME NEW a \in Actors, Hit(a) PROVE WindowInv'
    BY <1>24, SMTT(60) DEF Hit, Goto
  <1>25. ASSUME NEW a \in Actors, PersistChecks(a) PROVE WindowInv'
    BY <1>25, SMTT(60) DEF PersistChecks, Goto, SnapshotIsCurrent, IsCurrent
  <1>26. ASSUME NEW a \in Actors, PersistSaves(a) PROVE WindowInv'
    BY <1>26, SMTT(60) DEF PersistSaves, Goto
  <1>27. ASSUME NEW a \in Actors, Notifies(a) PROVE WindowInv'
    BY <1>27, SMTT(60) DEF Notifies, Goto
  <1>28. ASSUME NEW n \in Nodes, Receives(n) PROVE WindowInv'
    BY <1>28, SMTT(60) DEF Receives, Goto
  <1>29. ASSUME NEW n \in Nodes, ListenerFails(n) PROVE WindowInv'
    BY <1>29, SMTT(60) DEF ListenerFails, Goto
  <1>30. ASSUME NEW n \in Nodes, Crash(n) PROVE WindowInv'
    BY <1>30, SMTT(60) DEF Crash, Goto
  <1>31. CASE UNCHANGED vars
    BY <1>31 DEF vars, shared, calls, registry, signals, history
  <1>32. ASSUME NEW r \in Requests, AgentStarts(r) PROVE WindowInv'
    BY <1>32 DEF AgentStarts, calls, registry, signals, history, shared
  <1> QED
    BY <1>1, <1>2, <1>3, <1>4, <1>5, <1>6, <1>7, <1>8, <1>9, <1>10, <1>11,
       <1>12, <1>13, <1>14, <1>15, <1>16, <1>17, <1>18, <1>19, <1>20, <1>21,
       <1>22, <1>23, <1>24, <1>25, <1>26, <1>27, <1>28, <1>29, <1>30, <1>31, <1>32 DEF
       Next, RunStep, StopStep, InterruptStep

(* Whoever runs, or may still be saved by a callback, has drawn a generation. *)
DrawnInv ==
    \A r \in Requests :
        pc[r] \in {"register"} \cup LivePlaces \/ Exposed(r) => gen[r] > 0

(* Only Begin leads into the places that need a generation. *)
LEMMA DrawnStep == ASSUME TypeOK, DrawnInv, [Next]_vars PROVE DrawnInv'
  <1> USE ConstantsAssumption DEF TypeOK, DrawnInv, Exposed, LivePlaces,
      Callers, shared, calls, registry, signals, history
  <1>1. ASSUME NEW r \in Requests, ChatArrives(r) PROVE DrawnInv'
    BY <1>1, SMTT(60) DEF ChatArrives, Goto
  <1>2. ASSUME NEW r \in Requests, AnswerArrives(r) PROVE DrawnInv'
    BY <1>2, SMTT(60) DEF AnswerArrives, Goto
  <1>3. ASSUME NEW r \in Requests, ChatRoutes(r) PROVE DrawnInv'
    BY <1>3, SMTT(60) DEF ChatRoutes, Goto
  <1>4. ASSUME NEW r \in Requests, RunActiveLoads(r) PROVE DrawnInv'
    BY <1>4, SMTT(60) DEF RunActiveLoads, Goto
  <1>5. ASSUME NEW r \in Requests, ResumeLoads(r) PROVE DrawnInv'
    BY <1>5, SMTT(60) DEF ResumeLoads, Goto
  <1>6. ASSUME NEW r \in Requests, ResumeRejects(r) PROVE DrawnInv'
    BY <1>6, SMTT(60) DEF ResumeRejects, Goto
  <1>7. ASSUME NEW r \in Requests, ConfirmSaves(r) PROVE DrawnInv'
    BY <1>7, SMTT(60) DEF ConfirmSaves, Goto
  <1>8. ASSUME NEW r \in Requests, ConfirmClears(r) PROVE DrawnInv'
    BY <1>8, SMTT(60) DEF ConfirmClears, Goto
  <1>9. ASSUME NEW r \in Requests, Begin(r) PROVE DrawnInv'
    BY <1>9, SMTT(60) DEF Begin, Goto, NextGeneration
  <1>10. ASSUME NEW r \in Requests, Register(r) PROVE DrawnInv'
    BY <1>10, SMTT(60) DEF Register, Goto
  <1>11. ASSUME NEW r \in Requests, Bind(r) PROVE DrawnInv'
    <2>1. PICK p \in {"graph", "check"} : pc' = [pc EXCEPT ![r] = p]
      BY <1>11 DEF Bind, Goto
    <2>2. pc[r] = "bind" /\ bound' = bound \cup {r} /\ UNCHANGED <<gen, signals>>
      BY <1>11 DEF Bind
    <2> QED BY <2>1, <2>2
  <1>12. ASSUME NEW r \in Requests, OwnerMismatch(r) PROVE DrawnInv'
    <2>1. /\ pc[r] = "bind" /\ pc' = [pc EXCEPT ![r] = "unwind"]
          /\ UNCHANGED <<shared, mode, gen, snap, result, registry, signals, history>>
      BY <1>12 DEF OwnerMismatch, Goto
    <2> QED BY <2>1
  <1>13. ASSUME NEW r \in Requests, GraphReturns(r) PROVE DrawnInv'
    BY <1>13, SMTT(60) DEF GraphReturns, Goto
  <1>14. ASSUME NEW r \in Requests, GraphRaises(r) PROVE DrawnInv'
    BY <1>14, SMTT(60) DEF GraphRaises, Goto
  <1>15. ASSUME NEW r \in Requests, CheckFence(r) PROVE DrawnInv'
    <2>1. PICK p \in {"tool", "finally"} : pc' = [pc EXCEPT ![r] = p]
      BY <1>15 DEF CheckFence, AfterCheck, Goto
    <2>2. pc[r] = "check" /\ UNCHANGED <<gen, registry, signals>>
      BY <1>15 DEF CheckFence
    <2> QED BY <2>1, <2>2
  <1>16. ASSUME NEW r \in Requests, SetTool(r) PROVE DrawnInv'
    BY <1>16, SMTT(60) DEF SetTool, Goto
  <1>17. ASSUME NEW r \in Requests, Save(r) PROVE DrawnInv'
    BY <1>17, SMTT(60) DEF Save, Goto
  <1>18. ASSUME NEW r \in Requests, Finally(r) PROVE DrawnInv'
    BY <1>18, SMTT(60) DEF Finally, Goto
  <1>19. ASSUME NEW r \in Requests, Resave(r) PROVE DrawnInv'
    BY <1>19, SMTT(60) DEF Resave, Goto
  <1>20. ASSUME NEW s \in Stops, StopLoads(s) PROVE DrawnInv'
    BY <1>20, SMTT(60) DEF StopLoads, Goto
  <1>21. ASSUME NEW s \in Stops, StopReads(s) PROVE DrawnInv'
    BY <1>21, SMTT(60) DEF StopReads, Goto
  <1>22. ASSUME NEW s \in Stops, StopChecks(s) PROVE DrawnInv'
    BY <1>22, SMTT(60) DEF StopChecks, Goto
  <1>23. ASSUME NEW s \in Stops, StopSaves(s) PROVE DrawnInv'
    BY <1>23, SMTT(60) DEF StopSaves, Goto
  <1>24. ASSUME NEW a \in Actors, Hit(a) PROVE DrawnInv'
    BY <1>24, SMTT(60) DEF Hit, Goto
  <1>25. ASSUME NEW a \in Actors, PersistChecks(a) PROVE DrawnInv'
    BY <1>25, SMTT(60) DEF PersistChecks, Goto
  <1>26. ASSUME NEW a \in Actors, PersistSaves(a) PROVE DrawnInv'
    BY <1>26, SMTT(60) DEF PersistSaves, Goto
  <1>27. ASSUME NEW a \in Actors, Notifies(a) PROVE DrawnInv'
    BY <1>27, SMTT(60) DEF Notifies, Goto
  <1>28. ASSUME NEW n \in Nodes, Receives(n) PROVE DrawnInv'
    BY <1>28, SMTT(60) DEF Receives, Goto
  <1>29. ASSUME NEW n \in Nodes, ListenerFails(n) PROVE DrawnInv'
    BY <1>29, SMTT(60) DEF ListenerFails, Goto
  <1>30. ASSUME NEW n \in Nodes, Crash(n) PROVE DrawnInv'
    BY <1>30, SMTT(60) DEF Crash, Goto
  <1>31. CASE UNCHANGED vars
    BY <1>31 DEF vars, shared, calls, registry, signals, history
  <1>32. ASSUME NEW r \in Requests, AgentStarts(r) PROVE DrawnInv'
    BY <1>32 DEF AgentStarts, calls, registry, signals, history, shared
  <1> QED
    BY <1>1, <1>2, <1>3, <1>4, <1>5, <1>6, <1>7, <1>8, <1>9, <1>10, <1>11,
       <1>12, <1>13, <1>14, <1>15, <1>16, <1>17, <1>18, <1>19, <1>20, <1>21,
       <1>22, <1>23, <1>24, <1>25, <1>26, <1>27, <1>28, <1>29, <1>30, <1>31, <1>32 DEF
       Next, RunStep, StopStep, InterruptStep
-----------------------------------------------------------------------------
Inv == TypeOK /\ GenInv /\ DrawnInv /\ StampInv /\ BoundInv /\ WindowInv

(* Before any call arrives no generation is drawn and nobody is in a window. *)
LEMMA InitInv == Init => Inv
<1> SUFFICES ASSUME Init PROVE Inv
  OBVIOUS
<1> USE ConstantsAssumption DEF Init, Callers, Actors
<1>1. ckpt \in Checkpoint /\ ckpt.gen = 0 /\ NoCheckpoint \in Checkpoint
  <2>1. NoCheckpoint \in Checkpoint /\ NoCheckpoint.gen = 0
    BY DEF Checkpoint, NoCheckpoint, Interactions
  <2>2. CASE ckpt = NoCheckpoint
    BY <2>1, <2>2
  <2>3. CASE ckpt \in [turns : {{Earlier}}, gen : {0}, pend : Interactions,
      halted : {FALSE}]
    BY <2>1, <2>3 DEF Checkpoint
  <2> QED BY <2>2, <2>3
<1>2. NoCheckpoint.gen = 0
  BY DEF NoCheckpoint
<1>3. TypeOK
  <2>1. pendingTool \in Interactions
    BY <1>1 DEF Checkpoint
  <2>2. activeAgent \in {"master", "sub"}
    OBVIOUS
  <2>3. registered = {r \in Requests : pc[r] \in LivePlaces}
    BY DEF LivePlaces
  <2>4. pc \in [Callers -> CallPlaces] /\ bus \in [Nodes -> Seq(Nat)]
    BY DEF CallPlaces
  <2> QED BY <1>1, <2>1, <2>2, <2>3, <2>4 DEF TypeOK
<1>4. GenInv
  BY DEF GenInv
<1>5. StampInv
  BY DEF StampInv, Exposed
<1>6. BoundInv
  BY <1>1, <1>2 DEF BoundInv
<1>7. WindowInv
  BY DEF WindowInv
<1>8. DrawnInv
  BY DEF DrawnInv, Exposed, LivePlaces
<1> QED BY <1>3, <1>4, <1>5, <1>6, <1>7, <1>8 DEF Inv

(* The inductive invariant holds in every reachable state. *)
THEOREM Invariance == Spec => []Inv
<1>1. Inv /\ [Next]_vars => Inv'
  BY TypeStep, GenStep, DrawnStep, StampStep, BoundStep, WindowStep DEF Inv
<1> QED BY InitInv, <1>1, PTL DEF Spec

(* Types, and the registry as the exact set of requests between            *)
(* execution_registry.begin and their finally block.                       *)
THEOREM TypeCorrect == Spec => []TypeOK
<1>1. Inv => TypeOK
  BY DEF Inv
<1> QED BY Invariance, <1>1, PTL

(* Whatever step opens a request's writes, the request held the fence. *)
LEMMA CommitIsCurrent ==
    ASSUME TypeOK, [Next]_vars, NEW r \in Requests, pc[r] = "check", pc'[r] = "tool"
    PROVE  IsCurrent(gen[r])
  <1> USE ConstantsAssumption DEF TypeOK, Callers, shared, calls
  <1>1. ASSUME NEW q \in Requests, ChatArrives(q) PROVE IsCurrent(gen[r])
    BY <1>1 DEF ChatArrives, Goto
  <1>2. ASSUME NEW q \in Requests, AnswerArrives(q) PROVE IsCurrent(gen[r])
    BY <1>2 DEF AnswerArrives, Goto
  <1>3. ASSUME NEW q \in Requests, ChatRoutes(q) PROVE IsCurrent(gen[r])
    BY <1>3 DEF ChatRoutes, Goto
  <1>4. ASSUME NEW q \in Requests, RunActiveLoads(q) PROVE IsCurrent(gen[r])
    BY <1>4 DEF RunActiveLoads, Goto
  <1>5. ASSUME NEW q \in Requests, ResumeLoads(q) PROVE IsCurrent(gen[r])
    BY <1>5 DEF ResumeLoads, Goto
  <1>6. ASSUME NEW q \in Requests, ResumeRejects(q) PROVE IsCurrent(gen[r])
    BY <1>6 DEF ResumeRejects, Goto
  <1>7. ASSUME NEW q \in Requests, ConfirmSaves(q) PROVE IsCurrent(gen[r])
    BY <1>7 DEF ConfirmSaves, Goto
  <1>8. ASSUME NEW q \in Requests, ConfirmClears(q) PROVE IsCurrent(gen[r])
    BY <1>8 DEF ConfirmClears, Goto
  <1>9. ASSUME NEW q \in Requests, Begin(q) PROVE IsCurrent(gen[r])
    BY <1>9 DEF Begin, Goto
  <1>10. ASSUME NEW q \in Requests, Register(q) PROVE IsCurrent(gen[r])
    BY <1>10 DEF Register, Goto
  <1>11. ASSUME NEW q \in Requests, Bind(q) PROVE IsCurrent(gen[r])
    BY <1>11 DEF Bind, Goto
  <1>12. ASSUME NEW q \in Requests, OwnerMismatch(q) PROVE IsCurrent(gen[r])
    BY <1>12 DEF OwnerMismatch, Goto
  <1>13. ASSUME NEW q \in Requests, GraphReturns(q) PROVE IsCurrent(gen[r])
    BY <1>13 DEF GraphReturns, Goto
  <1>14. ASSUME NEW q \in Requests, GraphRaises(q) PROVE IsCurrent(gen[r])
    BY <1>14 DEF GraphRaises, Goto
  <1>15. ASSUME NEW q \in Requests, CheckFence(q) PROVE IsCurrent(gen[r])
    BY <1>15 DEF CheckFence, Goto, AfterCheck
  <1>16. ASSUME NEW q \in Requests, SetTool(q) PROVE IsCurrent(gen[r])
    BY <1>16 DEF SetTool, Goto
  <1>17. ASSUME NEW q \in Requests, Save(q) PROVE IsCurrent(gen[r])
    BY <1>17 DEF Save, Goto
  <1>18. ASSUME NEW q \in Requests, Finally(q) PROVE IsCurrent(gen[r])
    BY <1>18 DEF Finally, Goto
  <1>19. ASSUME NEW q \in Requests, Resave(q) PROVE IsCurrent(gen[r])
    BY <1>19 DEF Resave, Goto
  <1>20. ASSUME NEW s \in Stops, StopLoads(s) PROVE IsCurrent(gen[r])
    BY <1>20 DEF StopLoads, Goto
  <1>21. ASSUME NEW s \in Stops, StopReads(s) PROVE IsCurrent(gen[r])
    BY <1>21 DEF StopReads, Goto
  <1>22. ASSUME NEW s \in Stops, StopChecks(s) PROVE IsCurrent(gen[r])
    BY <1>22 DEF StopChecks, Goto
  <1>23. ASSUME NEW s \in Stops, StopSaves(s) PROVE IsCurrent(gen[r])
    BY <1>23 DEF StopSaves, Goto
  <1>24. ASSUME NEW a \in Actors, Hit(a) PROVE IsCurrent(gen[r])
    BY <1>24 DEF Hit, Goto
  <1>25. ASSUME NEW a \in Actors, PersistChecks(a) PROVE IsCurrent(gen[r])
    BY <1>25 DEF PersistChecks, Goto
  <1>26. ASSUME NEW a \in Actors, PersistSaves(a) PROVE IsCurrent(gen[r])
    BY <1>26 DEF PersistSaves, Goto
  <1>27. ASSUME NEW a \in Actors, Notifies(a) PROVE IsCurrent(gen[r])
    BY <1>27 DEF Notifies, Goto
  <1>28. ASSUME NEW n \in Nodes, Receives(n) PROVE IsCurrent(gen[r])
    BY <1>28 DEF Receives, Goto
  <1>29. ASSUME NEW n \in Nodes, ListenerFails(n) PROVE IsCurrent(gen[r])
    BY <1>29 DEF ListenerFails, Goto
  <1>30. ASSUME NEW n \in Nodes, Crash(n) PROVE IsCurrent(gen[r])
    BY <1>30 DEF Crash, Goto
  <1>31. CASE UNCHANGED vars
    BY <1>31 DEF vars, shared, calls, Checkpoint
  <1>32. ASSUME NEW q \in Requests, AgentStarts(q) PROVE IsCurrent(gen[r])
    BY <1>32 DEF AgentStarts, calls, registry, signals, history, shared
  <1> QED
    BY <1>1, <1>2, <1>3, <1>4, <1>5, <1>6, <1>7, <1>8, <1>9, <1>10, <1>11,
       <1>12, <1>13, <1>14, <1>15, <1>16, <1>17, <1>18, <1>19, <1>20, <1>21,
       <1>22, <1>23, <1>24, <1>25, <1>26, <1>27, <1>28, <1>29, <1>30, <1>31, <1>32
    DEF Next, RunStep, StopStep, InterruptStep

(* Only the request with the newest generation passes the fence check of   *)
(* run, run_active and _resume_react_agent.                                *)
THEOREM NewestCommits == Spec => OnlyNewestCommits
<1>1. ASSUME Inv, [Next]_vars
      PROVE  \A r \in Requests : pc[r] = "check" /\ pc'[r] = "tool"
                => \A q \in Requests \ {r} : gen[q] < gen[r]
  <2> SUFFICES ASSUME NEW r \in Requests, pc[r] = "check", pc'[r] = "tool",
                      NEW q \in Requests \ {r}
               PROVE  gen[q] < gen[r]
    OBVIOUS
  <2>1. gen[r] > 0 /\ fence = gen[r]
    BY <1>1, CommitIsCurrent DEF IsCurrent, Inv
  <2>2. gen[q] <= fence /\ gen[q] # gen[r]
    BY <1>1, <2>1 DEF Inv, GenInv
  <2>3. gen[q] \in Nat /\ gen[r] \in Nat
    BY <1>1 DEF Inv, TypeOK
  <2> QED BY <2>1, <2>2, <2>3
<1>2. Inv /\ [Next]_vars =>
        [\A r \in Requests : pc[r] = "check" /\ pc'[r] = "tool"
            => \A q \in Requests \ {r} : gen[q] < gen[r]]_vars
  BY <1>1
<1> QED BY Invariance, <1>2, PTL DEF Spec, OnlyNewestCommits

(* A step that asked the fence stamps the checkpoint with the fence's own  *)
(* generation unless a request has overtaken some writer.                  *)
LEMMA FencedWrite ==
    ASSUME Inv, [Next]_vars, ~overtaken', ~UnfencedSave
    PROVE  ckpt' = ckpt \/ ckpt'.gen = fence
  <1> USE ConstantsAssumption DEF Inv, TypeOK, Callers, Actors
  <1>1. ASSUME NEW r \in Requests, ChatArrives(r) PROVE ckpt' = ckpt \/ ckpt'.gen = fence
    BY <1>1 DEF ChatArrives, Checkpoint, shared
  <1>2. ASSUME NEW r \in Requests, AnswerArrives(r) PROVE ckpt' = ckpt \/ ckpt'.gen = fence
    BY <1>2 DEF AnswerArrives, Checkpoint, shared
  <1>3. ASSUME NEW r \in Requests, ChatRoutes(r) PROVE ckpt' = ckpt \/ ckpt'.gen = fence
    BY <1>3 DEF ChatRoutes, Checkpoint, shared
  <1>4. ASSUME NEW r \in Requests, RunActiveLoads(r) PROVE ckpt' = ckpt \/ ckpt'.gen = fence
    BY <1>4 DEF RunActiveLoads, Checkpoint, shared
  <1>5. ASSUME NEW r \in Requests, ResumeLoads(r) PROVE ckpt' = ckpt \/ ckpt'.gen = fence
    BY <1>5 DEF ResumeLoads, Checkpoint, shared
  <1>6. ASSUME NEW r \in Requests, ResumeRejects(r) PROVE ckpt' = ckpt \/ ckpt'.gen = fence
    BY <1>6 DEF ResumeRejects, Checkpoint, shared
  <1>7. ASSUME NEW r \in Requests, ConfirmSaves(r) PROVE ckpt' = ckpt \/ ckpt'.gen = fence
    BY <1>7 DEF ConfirmSaves, UnfencedSave, Goto
  <1>8. ASSUME NEW r \in Requests, ConfirmClears(r) PROVE ckpt' = ckpt \/ ckpt'.gen = fence
    BY <1>8 DEF ConfirmClears, Checkpoint, shared
  <1>9. ASSUME NEW r \in Requests, Begin(r) PROVE ckpt' = ckpt \/ ckpt'.gen = fence
    BY <1>9 DEF Begin, Checkpoint, shared
  <1>10. ASSUME NEW r \in Requests, Register(r) PROVE ckpt' = ckpt \/ ckpt'.gen = fence
    BY <1>10 DEF Register, Checkpoint, shared
  <1>11. ASSUME NEW r \in Requests, Bind(r) PROVE ckpt' = ckpt \/ ckpt'.gen = fence
    BY <1>11 DEF Bind, Checkpoint, shared
  <1>12. ASSUME NEW r \in Requests, OwnerMismatch(r) PROVE ckpt' = ckpt \/ ckpt'.gen = fence
    BY <1>12 DEF OwnerMismatch, Checkpoint, shared
  <1>13. ASSUME NEW r \in Requests, GraphReturns(r) PROVE ckpt' = ckpt \/ ckpt'.gen = fence
    BY <1>13 DEF GraphReturns, Checkpoint, shared
  <1>14. ASSUME NEW r \in Requests, GraphRaises(r) PROVE ckpt' = ckpt \/ ckpt'.gen = fence
    BY <1>14 DEF GraphRaises, Checkpoint, shared
  <1>15. ASSUME NEW r \in Requests, CheckFence(r) PROVE ckpt' = ckpt \/ ckpt'.gen = fence
    BY <1>15 DEF CheckFence, Checkpoint, shared
  <1>16. ASSUME NEW r \in Requests, SetTool(r) PROVE ckpt' = ckpt \/ ckpt'.gen = fence
    BY <1>16 DEF SetTool, Checkpoint, shared
  <1>17. ASSUME NEW r \in Requests, Save(r) PROVE ckpt' = ckpt \/ ckpt'.gen = fence
    <2>1. ckpt' = result[r] /\ ckpt'.gen = fence
      BY <1>17 DEF Save, StampInv, WindowInv, history
    <2> QED BY <2>1 DEF BoundInv, Checkpoint
  <1>18. ASSUME NEW r \in Requests, Finally(r) PROVE ckpt' = ckpt \/ ckpt'.gen = fence
    BY <1>18 DEF Finally, Checkpoint, shared
  <1>19. ASSUME NEW r \in Requests, Resave(r) PROVE ckpt' = ckpt \/ ckpt'.gen = fence
    BY <1>19 DEF Resave, UnfencedSave, Goto
  <1>20. ASSUME NEW s \in Stops, StopLoads(s) PROVE ckpt' = ckpt \/ ckpt'.gen = fence
    BY <1>20 DEF StopLoads, Checkpoint, shared
  <1>21. ASSUME NEW s \in Stops, StopReads(s) PROVE ckpt' = ckpt \/ ckpt'.gen = fence
    BY <1>21 DEF StopReads, Checkpoint, shared
  <1>22. ASSUME NEW s \in Stops, StopChecks(s) PROVE ckpt' = ckpt \/ ckpt'.gen = fence
    BY <1>22 DEF StopChecks, Checkpoint, shared
  <1>23. ASSUME NEW s \in Stops, StopSaves(s) PROVE ckpt' = ckpt \/ ckpt'.gen = fence
    <2>1. ckpt'.gen = ig[s]
      BY <1>23 DEF StopSaves, Interrupted, Checkpoint
    <2>2. ig[s] = fence
      BY <1>23 DEF StopSaves, WindowInv, history
    <2> QED BY <2>1, <2>2 DEF BoundInv, Checkpoint
  <1>24. ASSUME NEW a \in Actors, Hit(a) PROVE ckpt' = ckpt \/ ckpt'.gen = fence
    BY <1>24 DEF Hit, Checkpoint, shared
  <1>25. ASSUME NEW a \in Actors, PersistChecks(a) PROVE ckpt' = ckpt \/ ckpt'.gen = fence
    BY <1>25 DEF PersistChecks, Checkpoint, shared
  <1>26. ASSUME NEW a \in Actors, PersistSaves(a) PROVE ckpt' = ckpt \/ ckpt'.gen = fence
    <2>1. PICK r \in saving[a] : ckpt' = Interrupted(snap[r])
      BY <1>26 DEF PersistSaves
    <2>2. r \in Requests /\ Exposed(r)
      BY <2>1 DEF Exposed
    <2>3. gen[r] = fence /\ snap[r].gen = gen[r]
      BY <1>26, <2>2 DEF PersistSaves, StampInv, WindowInv, history
    <2>4. ckpt'.gen = fence
      BY <2>1, <2>2, <2>3, InterruptedType
    <2> QED BY <2>4 DEF BoundInv, Checkpoint
  <1>27. ASSUME NEW a \in Actors, Notifies(a) PROVE ckpt' = ckpt \/ ckpt'.gen = fence
    BY <1>27 DEF Notifies, Checkpoint, shared
  <1>28. ASSUME NEW n \in Nodes, Receives(n) PROVE ckpt' = ckpt \/ ckpt'.gen = fence
    BY <1>28 DEF Receives, Checkpoint, shared
  <1>29. ASSUME NEW n \in Nodes, ListenerFails(n) PROVE ckpt' = ckpt \/ ckpt'.gen = fence
    BY <1>29 DEF ListenerFails, Checkpoint, shared
  <1>30. ASSUME NEW n \in Nodes, Crash(n) PROVE ckpt' = ckpt \/ ckpt'.gen = fence
    BY <1>30 DEF Crash, Checkpoint, shared
  <1>31. CASE UNCHANGED vars
    BY <1>31 DEF vars, shared, calls, Checkpoint
  <1>32. ASSUME NEW r \in Requests, AgentStarts(r) PROVE ckpt' = ckpt \/ ckpt'.gen = fence
    BY <1>32 DEF AgentStarts, Checkpoint, calls, registry, signals, history, shared
  <1> QED
    BY <1>1, <1>2, <1>3, <1>4, <1>5, <1>6, <1>7, <1>8, <1>9, <1>10, <1>11,
       <1>12, <1>13, <1>14, <1>15, <1>16, <1>17, <1>18, <1>19, <1>20, <1>21,
       <1>22, <1>23, <1>24, <1>25, <1>26, <1>27, <1>28, <1>29, <1>30, <1>31, <1>32
    DEF Next, RunStep, StopStep, InterruptStep

(* The durable checkpoint never returns to an older generation unless a    *)
(* request overtook a writer in its window or a save had no fence check.   *)
THEOREM MonotoneCheckpoint == Spec => CheckpointMonotone
<1>1. ASSUME Inv, [Next]_vars, ~overtaken', ~UnfencedSave
      PROVE  ckpt'.gen >= ckpt.gen
  <2>1. ckpt' = ckpt \/ ckpt'.gen = fence
    BY <1>1, FencedWrite
  <2> QED BY <1>1, <2>1 DEF Inv, TypeOK, BoundInv, Checkpoint
<1>2. Inv /\ [Next]_vars =>
        [~overtaken' /\ ~UnfencedSave => ckpt'.gen >= ckpt.gen]_vars
  BY <1>1
<1> QED BY Invariance, <1>2, PTL DEF Spec, CheckpointMonotone

(* A request whose fence check failed has been superseded for good, and    *)
(* never draws another generation.                                         *)
Over == {"finally", "resave", "done", "failed", "lost"}
DropInv == \A r \in dropped : pc[r] \in Over /\ gen[r] > 0 /\ gen[r] < fence

(* The fence only grows, and a dropped request only runs to its end. *)
LEMMA DropStep == ASSUME Inv, DropInv, [Next]_vars PROVE DropInv'
  <1> USE ConstantsAssumption DEF Inv, TypeOK, DropInv, Over, Callers, shared, calls, history
  <1>1. ASSUME NEW r \in Requests, ChatArrives(r) PROVE DropInv'
    BY <1>1, SMTT(60) DEF ChatArrives, Goto
  <1>2. ASSUME NEW r \in Requests, AnswerArrives(r) PROVE DropInv'
    BY <1>2, SMTT(60) DEF AnswerArrives, Goto
  <1>3. ASSUME NEW r \in Requests, ChatRoutes(r) PROVE DropInv'
    <2>1. PICK p \in {"begin", "active"} : pc' = [pc EXCEPT ![r] = p]
      BY <1>3 DEF ChatRoutes, Goto
    <2>2. pc[r] = "interrupting" /\ UNCHANGED <<fence, gen, dropped>>
      BY <1>3 DEF ChatRoutes
    <2> QED BY <2>1, <2>2
  <1>4. ASSUME NEW r \in Requests, RunActiveLoads(r) PROVE DropInv'
    BY <1>4, SMTT(60) DEF RunActiveLoads, Goto
  <1>5. ASSUME NEW r \in Requests, ResumeLoads(r) PROVE DropInv'
    <2>1. PICK p \in {"begin", "confirm"} : pc' = [pc EXCEPT ![r] = p]
      BY <1>5 DEF ResumeLoads, Goto
    <2>2. pc[r] = "resume" /\ UNCHANGED <<fence, gen, dropped>>
      BY <1>5 DEF ResumeLoads
    <2> QED BY <2>1, <2>2
  <1>6. ASSUME NEW r \in Requests, ResumeRejects(r) PROVE DropInv'
    BY <1>6, SMTT(60) DEF ResumeRejects, Goto
  <1>7. ASSUME NEW r \in Requests, ConfirmSaves(r) PROVE DropInv'
    <2>1. PICK p \in {"done", "confirmed"} : pc' = [pc EXCEPT ![r] = p]
      BY <1>7 DEF ConfirmSaves, Goto
    <2>2. pc[r] = "confirm" /\ UNCHANGED <<fence, gen, dropped>>
      BY <1>7 DEF ConfirmSaves
    <2> QED BY <2>1, <2>2
  <1>8. ASSUME NEW r \in Requests, ConfirmClears(r) PROVE DropInv'
    BY <1>8, SMTT(60) DEF ConfirmClears, Goto
  <1>9. ASSUME NEW r \in Requests, Begin(r) PROVE DropInv'
    BY <1>9, SMTT(60) DEF Begin, Goto, NextGeneration
  <1>10. ASSUME NEW r \in Requests, Register(r) PROVE DropInv'
    BY <1>10, SMTT(60) DEF Register, Goto
  <1>11. ASSUME NEW r \in Requests, Bind(r) PROVE DropInv'
    <2>1. PICK p \in {"graph", "check"} : pc' = [pc EXCEPT ![r] = p]
      BY <1>11 DEF Bind, Goto
    <2>2. pc[r] = "bind" /\ UNCHANGED <<fence, gen, dropped>>
      BY <1>11 DEF Bind
    <2> QED BY <2>1, <2>2
  <1>12. ASSUME NEW r \in Requests, OwnerMismatch(r) PROVE DropInv'
    <2>1. /\ pc[r] = "bind" /\ pc' = [pc EXCEPT ![r] = "unwind"]
          /\ UNCHANGED <<fence, gen, dropped>>
      BY <1>12 DEF OwnerMismatch, Goto
    <2> QED BY <2>1
  <1>13. ASSUME NEW r \in Requests, GraphReturns(r) PROVE DropInv'
    BY <1>13, SMTT(60) DEF GraphReturns, Goto
  <1>14. ASSUME NEW r \in Requests, GraphRaises(r) PROVE DropInv'
    <2>1. PICK p \in {"check", "unwind"} : pc' = [pc EXCEPT ![r] = p]
      BY <1>14 DEF GraphRaises, Goto
    <2>2. pc[r] = "graph" /\ UNCHANGED <<fence, gen, dropped>>
      BY <1>14 DEF GraphRaises
    <2> QED BY <2>1, <2>2
  <1>15. ASSUME NEW r \in Requests, CheckFence(r) PROVE DropInv'
    <2>1. PICK p \in {"tool", "finally"} :
            pc' = [pc EXCEPT ![r] = p] /\ (p = "finally" <=> ~IsCurrent(gen[r]))
      BY <1>15 DEF CheckFence, AfterCheck, Goto
    <2>2. /\ pc[r] = "check" /\ UNCHANGED <<fence, gen>>
          /\ dropped' = IF IsCurrent(gen[r]) THEN dropped ELSE dropped \cup {r}
      BY <1>15 DEF CheckFence
    <2>3. gen[r] > 0 /\ gen[r] <= fence
      BY <2>2 DEF DrawnInv, GenInv, LivePlaces
    <2> QED BY <2>1, <2>2, <2>3 DEF IsCurrent
  <1>16. ASSUME NEW r \in Requests, SetTool(r) PROVE DropInv'
    BY <1>16, SMTT(60) DEF SetTool, Goto
  <1>17. ASSUME NEW r \in Requests, Save(r) PROVE DropInv'
    BY <1>17, SMTT(60) DEF Save, Goto
  <1>18. ASSUME NEW r \in Requests, Finally(r) PROVE DropInv'
    <2>1. PICK p \in {"failed", "resave", "done"} : pc' = [pc EXCEPT ![r] = p]
      BY <1>18 DEF Finally, Goto
    <2>2. UNCHANGED <<fence, gen, dropped>>
      BY <1>18 DEF Finally
    <2> QED BY <2>1, <2>2
  <1>19. ASSUME NEW r \in Requests, Resave(r) PROVE DropInv'
    BY <1>19, SMTT(60) DEF Resave, Goto
  <1>20. ASSUME NEW s \in Stops, StopLoads(s) PROVE DropInv'
    BY <1>20, SMTT(60) DEF StopLoads, Goto
  <1>21. ASSUME NEW s \in Stops, StopReads(s) PROVE DropInv'
    BY <1>21, SMTT(60) DEF StopReads, Goto
  <1>22. ASSUME NEW s \in Stops, StopChecks(s) PROVE DropInv'
    <2>1. PICK p \in {"save", "done"} : pc' = [pc EXCEPT ![s] = p]
      BY <1>22 DEF StopChecks, Goto
    <2>2. pc[s] = "interrupting" /\ UNCHANGED <<fence, gen, dropped>>
      BY <1>22 DEF StopChecks
    <2> QED BY <2>1, <2>2
  <1>23. ASSUME NEW s \in Stops, StopSaves(s) PROVE DropInv'
    BY <1>23, SMTT(60) DEF StopSaves, Goto
  <1>24. ASSUME NEW a \in Actors, Hit(a) PROVE DropInv'
    BY <1>24, SMTT(60) DEF Hit, Goto
  <1>25. ASSUME NEW a \in Actors, PersistChecks(a) PROVE DropInv'
    BY <1>25, SMTT(60) DEF PersistChecks, Goto
  <1>26. ASSUME NEW a \in Actors, PersistSaves(a) PROVE DropInv'
    BY <1>26, SMTT(60) DEF PersistSaves, Goto
  <1>27. ASSUME NEW a \in Actors, Notifies(a) PROVE DropInv'
    BY <1>27, SMTT(60) DEF Notifies, Goto
  <1>28. ASSUME NEW n \in Nodes, Receives(n) PROVE DropInv'
    BY <1>28, SMTT(60) DEF Receives, Goto
  <1>29. ASSUME NEW n \in Nodes, ListenerFails(n) PROVE DropInv'
    BY <1>29, SMTT(60) DEF ListenerFails, Goto
  <1>30. ASSUME NEW n \in Nodes, Crash(n) PROVE DropInv'
    BY <1>30, SMTT(60) DEF Crash, KilledWith, Settled
  <1>31. CASE UNCHANGED vars
    BY <1>31 DEF vars, shared, calls, registry, signals, history
  <1>32. ASSUME NEW r \in Requests, AgentStarts(r) PROVE DropInv'
    BY <1>32 DEF AgentStarts, calls, registry, signals, history, shared
  <1> QED
    BY <1>1, <1>2, <1>3, <1>4, <1>5, <1>6, <1>7, <1>8, <1>9, <1>10, <1>11,
       <1>12, <1>13, <1>14, <1>15, <1>16, <1>17, <1>18, <1>19, <1>20, <1>21,
       <1>22, <1>23, <1>24, <1>25, <1>26, <1>27, <1>28, <1>29, <1>30, <1>31, <1>32
    DEF Next, RunStep, StopStep, InterruptStep

(* A step that asked the fence never gives the checkpoint the generation   *)
(* of a request that was found superseded.                                 *)
LEMMA DroppedStays ==
    ASSUME Inv, DropInv, [Next]_vars, ~overtaken', ~UnfencedSave,
           NEW r \in dropped, ckpt'.gen = gen[r]
    PROVE  ckpt.gen = gen[r]
  <1>1. ckpt' = ckpt \/ ckpt'.gen = fence
    BY FencedWrite
  <1>2. gen[r] \in Nat /\ fence \in Nat /\ gen[r] < fence
    BY DEF Inv, TypeOK, DropInv
  <1> QED BY <1>1, <1>2

(* Whatever the paths: a superseded result only reaches the checkpoint     *)
(* through a save that does not ask the fence, or by an overtaking.        *)
THEOREM DroppedByTheFence ==
    Spec => [][~overtaken' /\ ~UnfencedSave =>
                 \A r \in dropped : ckpt'.gen = gen[r] => ckpt.gen = gen[r]]_vars
<1>1. Init => DropInv
  BY DEF Init, DropInv
<1>2. Inv /\ DropInv /\ [Next]_vars => DropInv'
  BY DropStep
<1>3. Inv /\ DropInv /\ [Next]_vars =>
        [~overtaken' /\ ~UnfencedSave =>
           \A r \in dropped : ckpt'.gen = gen[r] => ckpt.gen = gen[r]]_vars
  BY DroppedStays DEF vars, shared, calls, history
<1> QED BY Invariance, <1>1, <1>2, <1>3, PTL DEF Spec
-----------------------------------------------------------------------------
(* What follows is proved for sessions that are only sent messages: the    *)
(* saves of resume and of the deterministic confirmations do not ask the   *)
(* fence.  Some of it also needs that nobody presses stop: interrupt()     *)
(* writes the state it loaded, which may lack turns that were saved since  *)
(* and forgets a question that is being asked (see the runs).              *)
OnlyMessages == Entries = {"message"}
NoStops == Stops = {}

(* Then every request executes run, on the path that starts at ChatRoutes. *)
PlainInv ==
    \A r \in Requests :
        /\ mode[r] = "run"
        /\ pc[r] \notin {"active", "resume", "confirm", "confirmed", "resave"}

(* No step of such a session leads to another path. *)
LEMMA PlainStep ==
    ASSUME OnlyMessages, TypeOK, PlainInv, [Next]_vars
    PROVE  PlainInv'
  <1> USE ConstantsAssumption DEF OnlyMessages, TypeOK, PlainInv, Callers, shared, calls
  <1>1. ASSUME NEW r \in Requests, ChatArrives(r) PROVE PlainInv'
    BY <1>1, SMTT(60) DEF ChatArrives, Goto
  <1>2. ASSUME NEW r \in Requests, AnswerArrives(r) PROVE PlainInv'
    BY <1>2, SMTT(60) DEF AnswerArrives, Goto
  <1>3. ASSUME NEW r \in Requests, ChatRoutes(r) PROVE PlainInv'
    <2>1. pc' = [pc EXCEPT ![r] = "begin"] /\ mode' = [mode EXCEPT ![r] = "run"]
      BY <1>3 DEF ChatRoutes, Goto
    <2> QED BY <2>1
  <1>4. ASSUME NEW r \in Requests, RunActiveLoads(r) PROVE PlainInv'
    BY <1>4, SMTT(60) DEF RunActiveLoads, Goto
  <1>5. ASSUME NEW r \in Requests, ResumeLoads(r) PROVE PlainInv'
    BY <1>5, SMTT(60) DEF ResumeLoads, Goto
  <1>6. ASSUME NEW r \in Requests, ResumeRejects(r) PROVE PlainInv'
    BY <1>6, SMTT(60) DEF ResumeRejects, Goto
  <1>7. ASSUME NEW r \in Requests, ConfirmSaves(r) PROVE PlainInv'
    BY <1>7, SMTT(60) DEF ConfirmSaves, Goto
  <1>8. ASSUME NEW r \in Requests, ConfirmClears(r) PROVE PlainInv'
    BY <1>8, SMTT(60) DEF ConfirmClears, Goto
  <1>9. ASSUME NEW r \in Requests, Begin(r) PROVE PlainInv'
    BY <1>9, SMTT(60) DEF Begin, Goto
  <1>10. ASSUME NEW r \in Requests, Register(r) PROVE PlainInv'
    BY <1>10, SMTT(60) DEF Register, Goto
  <1>11. ASSUME NEW r \in Requests, Bind(r) PROVE PlainInv'
    BY <1>11, SMTT(60) DEF Bind, Goto
  <1>12. ASSUME NEW r \in Requests, OwnerMismatch(r) PROVE PlainInv'
    <2>1. /\ pc[r] = "bind" /\ pc' = [pc EXCEPT ![r] = "unwind"]
          /\ UNCHANGED <<shared, mode, gen, snap, result, registry, signals, history>>
      BY <1>12 DEF OwnerMismatch, Goto
    <2> QED BY <2>1
  <1>13. ASSUME NEW r \in Requests, GraphReturns(r) PROVE PlainInv'
    BY <1>13, SMTT(60) DEF GraphReturns, Goto
  <1>14. ASSUME NEW r \in Requests, GraphRaises(r) PROVE PlainInv'
    BY <1>14, SMTT(60) DEF GraphRaises, Goto
  <1>15. ASSUME NEW r \in Requests, CheckFence(r) PROVE PlainInv'
    <2>1. PICK p \in {"tool", "finally"} : pc' = [pc EXCEPT ![r] = p]
      BY <1>15 DEF CheckFence, AfterCheck, Goto
    <2>2. mode' = mode
      BY <1>15 DEF CheckFence
    <2> QED BY <2>1, <2>2
  <1>16. ASSUME NEW r \in Requests, SetTool(r) PROVE PlainInv'
    BY <1>16, SMTT(60) DEF SetTool, Goto
  <1>17. ASSUME NEW r \in Requests, Save(r) PROVE PlainInv'
    BY <1>17, SMTT(60) DEF Save, Goto
  <1>18. ASSUME NEW r \in Requests, Finally(r) PROVE PlainInv'
    <2>1. PICK p \in {"failed", "done"} : pc' = [pc EXCEPT ![r] = p]
      BY <1>18 DEF Finally, Goto
    <2>2. mode' = mode
      BY <1>18 DEF Finally
    <2> QED BY <2>1, <2>2
  <1>19. ASSUME NEW r \in Requests, Resave(r) PROVE PlainInv'
    BY <1>19, SMTT(60) DEF Resave, Goto
  <1>20. ASSUME NEW s \in Stops, StopLoads(s) PROVE PlainInv'
    BY <1>20, SMTT(60) DEF StopLoads, Goto
  <1>21. ASSUME NEW s \in Stops, StopReads(s) PROVE PlainInv'
    BY <1>21, SMTT(60) DEF StopReads, Goto
  <1>22. ASSUME NEW s \in Stops, StopChecks(s) PROVE PlainInv'
    BY <1>22, SMTT(60) DEF StopChecks, Goto
  <1>23. ASSUME NEW s \in Stops, StopSaves(s) PROVE PlainInv'
    BY <1>23, SMTT(60) DEF StopSaves, Goto
  <1>24. ASSUME NEW a \in Actors, Hit(a) PROVE PlainInv'
    BY <1>24, SMTT(60) DEF Hit, Goto
  <1>25. ASSUME NEW a \in Actors, PersistChecks(a) PROVE PlainInv'
    BY <1>25, SMTT(60) DEF PersistChecks, Goto
  <1>26. ASSUME NEW a \in Actors, PersistSaves(a) PROVE PlainInv'
    BY <1>26, SMTT(60) DEF PersistSaves, Goto
  <1>27. ASSUME NEW a \in Actors, Notifies(a) PROVE PlainInv'
    BY <1>27, SMTT(60) DEF Notifies, Goto
  <1>28. ASSUME NEW n \in Nodes, Receives(n) PROVE PlainInv'
    BY <1>28, SMTT(60) DEF Receives, Goto
  <1>29. ASSUME NEW n \in Nodes, ListenerFails(n) PROVE PlainInv'
    BY <1>29, SMTT(60) DEF ListenerFails, Goto
  <1>30. ASSUME NEW n \in Nodes, Crash(n) PROVE PlainInv'
    BY <1>30, SMTT(60) DEF Crash, Goto
  <1>31. CASE UNCHANGED vars
    BY <1>31 DEF vars, shared, calls, registry, signals, history
  <1>32. ASSUME NEW r \in Requests, AgentStarts(r) PROVE PlainInv'
    BY <1>32 DEF AgentStarts, calls, registry, signals, history, shared
  <1> QED
    BY <1>1, <1>2, <1>3, <1>4, <1>5, <1>6, <1>7, <1>8, <1>9, <1>10, <1>11,
       <1>12, <1>13, <1>14, <1>15, <1>16, <1>17, <1>18, <1>19, <1>20, <1>21,
       <1>22, <1>23, <1>24, <1>25, <1>26, <1>27, <1>28, <1>29, <1>30, <1>31, <1>32 DEF
       Next, RunStep, StopStep, InterruptStep

(* The promise of the fence's docstring, in sessions that are only sent    *)
(* messages, stopped or not: a result the fence found superseded never     *)
(* reaches the checkpoint unless a request overtook a writer.              *)
THEOREM StaleDiscarded == ASSUME OnlyMessages PROVE Spec => StaleResultDiscarded
<1>1. Init => PlainInv /\ DropInv
  BY ConstantsAssumption DEF Init, PlainInv, DropInv, Callers
<1>2. Inv /\ PlainInv /\ DropInv /\ [Next]_vars => PlainInv' /\ DropInv'
  BY OnlyMessages, PlainStep, DropStep DEF Inv
<1>3. PlainInv => ~UnfencedSave
  BY DEF PlainInv, UnfencedSave
<1>4. Inv /\ PlainInv /\ DropInv /\ [Next]_vars
        => [~overtaken' => \A r \in dropped : ckpt'.gen = gen[r] => ckpt.gen = gen[r]]_vars
  BY <1>3, DroppedStays
<1> QED BY Invariance, <1>1, <1>2, <1>4, PTL DEF Spec, StaleResultDiscarded
-----------------------------------------------------------------------------
(* The request that holds the fence builds on everything in the checkpoint. *)
Writers == {"graph", "check", "tool", "save"}
CarryInv ==
    /\ \A r \in Requests :
         pc[r] \in {"check", "tool", "save"} => result[r].turns = snap[r].turns
    /\ ~overtaken =>
         \A r \in Requests : (pc[r] \in Writers \/ Exposed(r)) /\ gen[r] = fence
                              => ckpt.turns \subseteq snap[r].turns

(* A step that only moves requests out of the writing places keeps CarryInv. *)
LEMMA CarryFrame ==
    ASSUME CarryInv, UNCHANGED <<fence, ckpt, gen, snap, result, overtaken>>,
           \A r \in Requests :
             /\ pc'[r] \in {"check", "tool", "save"} => pc[r] \in {"check",
                 "tool", "save"}
             /\ pc'[r] \in Writers \/ Exposed(r)' => pc[r] \in Writers \/ Exposed(r)
    PROVE  CarryInv'
  BY DEF CarryInv

(* A write while r holds the fence is r's own write of its own turns. *)
LEMMA CarryStep ==
    ASSUME OnlyMessages, NoStops, Inv, PlainInv, CarryInv, [Next]_vars
    PROVE  CarryInv'
  <1> USE ConstantsAssumption DEF OnlyMessages, NoStops, Inv, TypeOK, StampInv, Exposed,
      PastBind, PlainInv, CarryInv, Writers, Callers, Actors, shared, calls,
      registry, signals, history
  <1>1. ASSUME NEW r \in Requests, ChatArrives(r) PROVE CarryInv'
    BY <1>1, SMTT(60) DEF ChatArrives, Goto
  <1>2. ASSUME NEW r \in Requests, AnswerArrives(r) PROVE CarryInv'
    BY <1>2, SMTT(60) DEF AnswerArrives, Goto
  <1>3. ASSUME NEW r \in Requests, ChatRoutes(r) PROVE CarryInv'
    <2>1. pc' = [pc EXCEPT ![r] = "begin"] /\ pc[r] = "interrupting"
          /\ UNCHANGED <<shared, gen, snap, result, registry, signals, history>>
      BY <1>3 DEF ChatRoutes, Goto
    <2> QED BY <2>1
  <1>4. ASSUME NEW r \in Requests, RunActiveLoads(r) PROVE CarryInv'
    BY <1>4 DEF RunActiveLoads
  <1>5. ASSUME NEW r \in Requests, ResumeLoads(r) PROVE CarryInv'
    BY <1>5 DEF ResumeLoads
  <1>6. ASSUME NEW r \in Requests, ResumeRejects(r) PROVE CarryInv'
    BY <1>6 DEF ResumeRejects
  <1>7. ASSUME NEW r \in Requests, ConfirmSaves(r) PROVE CarryInv'
    BY <1>7 DEF ConfirmSaves
  <1>8. ASSUME NEW r \in Requests, ConfirmClears(r) PROVE CarryInv'
    BY <1>8 DEF ConfirmClears
  <1>9. ASSUME NEW r \in Requests, Begin(r) PROVE CarryInv'
    <2>1. /\ fence' = fence + 1 /\ gen' = [gen EXCEPT ![r] = fence + 1]
          /\ pc' = [pc EXCEPT ![r] = "register"] /\ pc[r] = "begin"
          /\ UNCHANGED <<ckpt, snap, result, registry, signals>>
      BY <1>9 DEF Begin, NextGeneration, Goto
    <2>2. \A q \in Requests \ {r} : gen'[q] # fence'
      BY <2>1 DEF GenInv
    <2>3. ~Exposed(r)' /\ pc'[r] \notin Writers
      BY <2>1
    <2> HIDE DEF Exposed, Writers
    <2>4. \A q \in Requests : pc'[q] \in {"check", "tool", "save"}
                             => result'[q].turns = snap'[q].turns
      BY <2>1
    <2> QED BY <2>2, <2>3, <2>4
  <1>10. ASSUME NEW r \in Requests, Register(r) PROVE CarryInv'
    BY <1>10, SMTT(60) DEF Register, Goto
  <1>11. ASSUME NEW r \in Requests, Bind(r) PROVE CarryInv'
    <2>1. /\ Prepared(r).turns = ckpt.turns \cup {r}
          /\ Interrupted(Prepared(r)).turns = Prepared(r).turns
      BY DEF Prepared, Base, WithTurn, RunModes, Interrupted
    <2>2. /\ pc[r] = "bind" /\ snap' = [snap EXCEPT ![r] = Prepared(r)]
          /\ bound' = bound \cup {r} /\ UNCHANGED <<fence, ckpt, gen, signals, history>>
      BY <1>11 DEF Bind
    <2>3. PICK p \in {"graph", "check"} :
            /\ pc' = [pc EXCEPT ![r] = p]
            /\ p = "check" => result' = [result EXCEPT ![r] = Interrupted(Prepared(r))]
            /\ p = "graph" => result' = result
      BY <1>11 DEF Bind, Goto
    <2>4. ASSUME NEW q \in Requests, q # r
          PROVE  /\ pc'[q] = pc[q] /\ snap'[q] = snap[q] /\ result'[q] = result[q]
                 /\ Exposed(q)' => Exposed(q)
      <3>1. pc'[q] = pc[q] /\ snap'[q] = snap[q] /\ result'[q] = result[q]
        BY <2>2, <2>3, <2>4
      <3>2. Exposed(q)' => Exposed(q)
        BY <2>2, <2>4
      <3> QED BY <3>1, <3>2
    <2>5. /\ ckpt.turns \subseteq snap'[r].turns
          /\ pc'[r] = "check" => result'[r].turns = snap'[r].turns
          /\ pc'[r] \in {"graph", "check"}
      <3>1. snap'[r] = Prepared(r)
        BY <2>2
      <3>2. pc'[r] = p
        BY <2>3
      <3>3. p = "check" => result'[r] = Interrupted(Prepared(r))
        BY <2>3
      <3> HIDE DEF OnlyMessages, NoStops, Inv, TypeOK, StampInv, Exposed, PlainInv, CarryInv
      <3> QED BY <2>1, <3>1, <3>2, <3>3
    <2> HIDE DEF Exposed
    <2> QED BY <2>2, <2>4, <2>5
  <1>12. ASSUME NEW r \in Requests, OwnerMismatch(r) PROVE CarryInv'
    <2>1. /\ pc[r] = "bind" /\ pc' = [pc EXCEPT ![r] = "unwind"]
          /\ UNCHANGED <<shared, mode, gen, snap, result, registry, signals, history>>
      BY <1>12 DEF OwnerMismatch, Goto
    <2> QED BY <2>1
  <1>13. ASSUME NEW r \in Requests, GraphReturns(r) PROVE CarryInv'
    <2>1. PICK x : result' = [result EXCEPT ![r] = x] /\ x.turns = snap[r].turns
      <3>1. PICK p : result' = [result EXCEPT ![r] =
              IF r \in stop THEN Interrupted(snap[r]) ELSE [snap[r] EXCEPT !.pend = p]]
        BY <1>13 DEF GraphReturns
      <3>2. Interrupted(snap[r]).turns = snap[r].turns
        BY InterruptedType
      <3>3. [snap[r] EXCEPT !.pend = p].turns = snap[r].turns
        BY DEF Checkpoint
      <3> QED BY <3>1, <3>2, <3>3
    <2>2. /\ pc[r] = "graph" /\ pc' = [pc EXCEPT ![r] = "check"]
          /\ UNCHANGED <<fence, ckpt, gen, snap, registry, signals, history>>
      BY <1>13 DEF GraphReturns, Goto
    <2> QED BY <2>1, <2>2
  <1>14. ASSUME NEW r \in Requests, GraphRaises(r) PROVE CarryInv'
    <2>1. /\ pc[r] = "graph"
          /\ UNCHANGED <<fence, ckpt, gen, snap, registry, signals, history>>
      BY <1>14 DEF GraphRaises
    <2>2. PICK p \in {"check", "unwind"} :
            /\ pc' = [pc EXCEPT ![r] = p]
            /\ p = "check" => result' = [result EXCEPT ![r] = Interrupted(snap[r])]
            /\ p = "unwind" => result' = result
      BY <1>14 DEF GraphRaises, Goto
    <2>3. Interrupted(snap[r]).turns = snap[r].turns
      BY InterruptedType
    <2> QED BY <2>1, <2>2, <2>3
  <1>15. ASSUME NEW r \in Requests, CheckFence(r) PROVE CarryInv'
    <2>1. PICK x : result' = [result EXCEPT ![r] = x] /\ x.turns = result[r].turns
      <3>1. Interrupted(result[r]).turns = result[r].turns
        BY InterruptedType
      <3>2. \/ result' = [result EXCEPT ![r] = result[r]]
            \/ result' = [result EXCEPT ![r] = Interrupted(result[r])]
        BY <1>15 DEF CheckFence
      <3> QED BY <3>1, <3>2
    <2>2. PICK p \in {"tool", "finally"} : pc' = [pc EXCEPT ![r] = p]
      BY <1>15 DEF CheckFence, AfterCheck, Goto
    <2>3. /\ pc[r] = "check"
          /\ UNCHANGED <<fence, ckpt, gen, snap, registry, signals, overtaken>>
      BY <1>15 DEF CheckFence
    <2> QED BY <2>1, <2>2, <2>3
  <1>16. ASSUME NEW r \in Requests, SetTool(r) PROVE CarryInv'
    <2>1. UNCHANGED <<fence, ckpt, gen, snap, result, overtaken>>
      BY <1>16 DEF SetTool
    <2>2. ASSUME NEW q \in Requests
          PROVE  /\ pc'[q] \in {"check", "tool", "save"} => pc[q] \in {"check", "tool", "save"}
                 /\ pc'[q] \in Writers \/ Exposed(q)' => pc[q] \in Writers \/ Exposed(q)
      BY <1>16 DEF SetTool, Goto
    <2> HIDE DEF CarryInv, Writers, Exposed
    <2> QED BY <2>1, <2>2, CarryFrame
  <1>17. ASSUME NEW r \in Requests, Save(r) PROVE CarryInv'
    <2>1. /\ ckpt' = result[r] /\ pc[r] = "save" /\ pc' = [pc EXCEPT ![r] = "finally"]
          /\ UNCHANGED <<fence, gen, snap, result, registry, signals, history>>
      BY <1>17 DEF Save, Goto
    <2>2. ~overtaken => \A q \in Requests : gen[q] = fence => q = r
      BY <2>1 DEF WindowInv, GenInv, DrawnInv, LivePlaces
    <2>3. ckpt'.turns = snap[r].turns
      BY <2>1
    <2>4. \A q \in Requests : pc'[q] \in {"check", "tool", "save"} =>
        result'[q].turns = snap'[q].turns
      BY <2>1
    <2>5. ASSUME ~overtaken', NEW q \in Requests, pc'[q] \in Writers \/
        Exposed(q)', gen'[q] = fence'
          PROVE  ckpt'.turns \subseteq snap'[q].turns
      BY <2>1, <2>2, <2>3, <2>5
    <2> QED BY <2>4, <2>5
  <1>18. ASSUME NEW r \in Requests, Finally(r) PROVE CarryInv'
    BY <1>18, SMTT(60) DEF Finally, Goto, Deregistered
  <1>19. ASSUME NEW r \in Requests, Resave(r) PROVE CarryInv'
    BY <1>19 DEF Resave
  <1>20. ASSUME NEW s \in Stops, StopLoads(s) PROVE CarryInv'
    OBVIOUS
  <1>21. ASSUME NEW s \in Stops, StopReads(s) PROVE CarryInv'
    OBVIOUS
  <1>22. ASSUME NEW s \in Stops, StopChecks(s) PROVE CarryInv'
    OBVIOUS
  <1>23. ASSUME NEW s \in Stops, StopSaves(s) PROVE CarryInv'
    OBVIOUS
  <1>24. ASSUME NEW a \in Actors, Hit(a) PROVE CarryInv'
    BY <1>24, SMTT(60) DEF Hit, Goto
  <1>25. ASSUME NEW a \in Actors, PersistChecks(a) PROVE CarryInv'
    <2>1. UNCHANGED <<fence, ckpt, gen, snap, result, overtaken>>
      BY <1>25 DEF PersistChecks
    <2>2. ASSUME NEW q \in Requests
          PROVE  /\ pc'[q] \in {"check", "tool", "save"} => pc[q] \in {"check", "tool", "save"}
                 /\ pc'[q] \in Writers \/ Exposed(q)' => pc[q] \in Writers \/ Exposed(q)
      BY <1>25 DEF PersistChecks
    <2> HIDE DEF CarryInv, Writers, Exposed
    <2> QED BY <2>1, <2>2, CarryFrame
  <1>26. ASSUME NEW a \in Actors, PersistSaves(a) PROVE CarryInv'
    <2>1. PICK r \in saving[a] : ckpt' = Interrupted(snap[r])
      BY <1>26 DEF PersistSaves
    <2>2. /\ saving' = [saving EXCEPT ![a] = {}]
          /\ UNCHANGED <<fence, calls, registry, victims, history>>
      BY <1>26 DEF PersistSaves
    <2>3. r \in Requests /\ ckpt'.turns = snap[r].turns
      BY <2>1, InterruptedType
    <2>4. \A q \in Requests : pc'[q] \in {"check", "tool", "save"} =>
        result'[q].turns = snap'[q].turns
      BY <2>2
    <2>5. ASSUME ~overtaken', NEW q \in Requests, pc'[q] \in Writers \/
        Exposed(q)', gen'[q] = fence'
          PROVE  ckpt'.turns \subseteq snap'[q].turns
      <3>1. gen[r] = fence /\ gen[q] = fence
        BY <2>1, <2>2, <2>3, <2>5 DEF WindowInv
      <3>2. fence > 0
        BY <2>1, <2>2, <2>3, <2>5, <3>1 DEF DrawnInv
      <3>3. q = r
        BY <2>3, <3>1, <3>2 DEF GenInv
      <3> QED BY <2>2, <2>3, <3>3
    <2> QED BY <2>4, <2>5
  <1>27. ASSUME NEW a \in Actors, Notifies(a) PROVE CarryInv'
    <2>1. UNCHANGED <<fence, ckpt, gen, snap, result, overtaken>>
      BY <1>27 DEF Notifies
    <2>2. ASSUME NEW q \in Requests
          PROVE  /\ pc'[q] \in {"check", "tool", "save"} => pc[q] \in {"check", "tool", "save"}
                 /\ pc'[q] \in Writers \/ Exposed(q)' => pc[q] \in Writers \/ Exposed(q)
      BY <1>27 DEF Notifies
    <2> HIDE DEF CarryInv, Writers, Exposed
    <2> QED BY <2>1, <2>2, CarryFrame
  <1>28. ASSUME NEW n \in Nodes, Receives(n) PROVE CarryInv'
    <2>1. UNCHANGED <<fence, ckpt, gen, snap, result, overtaken>>
      BY <1>28 DEF Receives
    <2>2. ASSUME NEW q \in Requests
          PROVE  /\ pc'[q] \in {"check", "tool", "save"} => pc[q] \in {"check", "tool", "save"}
                 /\ pc'[q] \in Writers \/ Exposed(q)' => pc[q] \in Writers \/ Exposed(q)
      BY <1>28 DEF Receives
    <2> HIDE DEF CarryInv, Writers, Exposed
    <2> QED BY <2>1, <2>2, CarryFrame
  <1>29. ASSUME NEW n \in Nodes, ListenerFails(n) PROVE CarryInv'
    BY <1>29, SMTT(60) DEF ListenerFails, Goto
  <1>30. ASSUME NEW n \in Nodes, Crash(n) PROVE CarryInv'
    <2>1. UNCHANGED <<fence, ckpt, gen, snap, result, overtaken>>
      BY <1>30 DEF Crash
    <2>2. ASSUME NEW q \in Requests
          PROVE  /\ pc'[q] \in {"check", "tool", "save"} => pc[q] \in {"check", "tool", "save"}
                 /\ pc'[q] \in Writers \/ Exposed(q)' => pc[q] \in Writers \/ Exposed(q)
      BY <1>30 DEF Crash, KilledWith, Settled
    <2> HIDE DEF CarryInv, Writers, Exposed
    <2> QED BY <2>1, <2>2, CarryFrame
  <1>31. CASE UNCHANGED vars
    BY <1>31 DEF vars, shared, calls, registry, signals, history
  <1>32. ASSUME NEW r \in Requests, AgentStarts(r) PROVE CarryInv'
    BY <1>32 DEF AgentStarts, calls, registry, signals, history, shared
  <1> QED
    BY <1>1, <1>2, <1>3, <1>4, <1>5, <1>6, <1>7, <1>8, <1>9, <1>10, <1>11,
       <1>12, <1>13, <1>14, <1>15, <1>16, <1>17, <1>18, <1>19, <1>20, <1>21,
       <1>22, <1>23, <1>24, <1>25, <1>26, <1>27, <1>28, <1>29, <1>30, <1>31, <1>32 DEF
       Next, RunStep, StopStep, InterruptStep

(* Outside an overtaking, no step removes a turn from the checkpoint. *)
LEMMA TurnsStep ==
    ASSUME OnlyMessages, NoStops, Inv, PlainInv, CarryInv, [Next]_vars, ~overtaken'
    PROVE  ckpt.turns \subseteq ckpt'.turns
  <1> USE ConstantsAssumption DEF OnlyMessages, NoStops, PlainInv, shared
  <1>1. ASSUME NEW r \in Requests, ChatArrives(r) PROVE ckpt.turns \subseteq ckpt'.turns
    BY <1>1, SMTT(60) DEF ChatArrives
  <1>2. ASSUME NEW r \in Requests, AnswerArrives(r) PROVE ckpt.turns \subseteq
      ckpt'.turns
    BY <1>2, SMTT(60) DEF AnswerArrives
  <1>3. ASSUME NEW r \in Requests, ChatRoutes(r) PROVE ckpt.turns \subseteq ckpt'.turns
    BY <1>3, SMTT(60) DEF ChatRoutes
  <1>4. ASSUME NEW r \in Requests, RunActiveLoads(r) PROVE ckpt.turns \subseteq
      ckpt'.turns
    BY <1>4 DEF RunActiveLoads
  <1>5. ASSUME NEW r \in Requests, ResumeLoads(r) PROVE ckpt.turns \subseteq ckpt'.turns
    BY <1>5 DEF ResumeLoads
  <1>6. ASSUME NEW r \in Requests, ResumeRejects(r) PROVE ckpt.turns \subseteq
      ckpt'.turns
    BY <1>6 DEF ResumeRejects
  <1>7. ASSUME NEW r \in Requests, ConfirmSaves(r) PROVE ckpt.turns \subseteq
      ckpt'.turns
    BY <1>7 DEF ConfirmSaves
  <1>8. ASSUME NEW r \in Requests, ConfirmClears(r) PROVE ckpt.turns \subseteq
      ckpt'.turns
    BY <1>8 DEF ConfirmClears
  <1>9. ASSUME NEW r \in Requests, Begin(r) PROVE ckpt.turns \subseteq ckpt'.turns
    BY <1>9, SMTT(60) DEF Begin
  <1>10. ASSUME NEW r \in Requests, Register(r) PROVE ckpt.turns \subseteq ckpt'.turns
    BY <1>10, SMTT(60) DEF Register
  <1>11. ASSUME NEW r \in Requests, Bind(r) PROVE ckpt.turns \subseteq ckpt'.turns
    BY <1>11, SMTT(60) DEF Bind
  <1>12. ASSUME NEW r \in Requests, OwnerMismatch(r) PROVE ckpt.turns \subseteq
      ckpt'.turns
    BY <1>12, SMTT(60) DEF OwnerMismatch
  <1>13. ASSUME NEW r \in Requests, GraphReturns(r) PROVE ckpt.turns \subseteq
      ckpt'.turns
    BY <1>13, SMTT(60) DEF GraphReturns
  <1>14. ASSUME NEW r \in Requests, GraphRaises(r) PROVE ckpt.turns \subseteq
      ckpt'.turns
    BY <1>14, SMTT(60) DEF GraphRaises
  <1>15. ASSUME NEW r \in Requests, CheckFence(r) PROVE ckpt.turns \subseteq ckpt'.turns
    BY <1>15, SMTT(60) DEF CheckFence
  <1>16. ASSUME NEW r \in Requests, SetTool(r) PROVE ckpt.turns \subseteq ckpt'.turns
    BY <1>16, SMTT(60) DEF SetTool
  <1>17. ASSUME NEW r \in Requests, Save(r) PROVE ckpt.turns \subseteq ckpt'.turns
    <2>1. /\ ckpt' = result[r] /\ pc[r] = "save" /\ overtaken' = overtaken
      BY <1>17 DEF Save, history
    <2> QED BY <2>1 DEF CarryInv, WindowInv, Inv, Writers
  <1>18. ASSUME NEW r \in Requests, Finally(r) PROVE ckpt.turns \subseteq ckpt'.turns
    BY <1>18, SMTT(60) DEF Finally
  <1>19. ASSUME NEW r \in Requests, Resave(r) PROVE ckpt.turns \subseteq ckpt'.turns
    BY <1>19 DEF Resave
  <1>20. ASSUME NEW s \in Stops, StopLoads(s) PROVE ckpt.turns \subseteq ckpt'.turns
    OBVIOUS
  <1>21. ASSUME NEW s \in Stops, StopReads(s) PROVE ckpt.turns \subseteq ckpt'.turns
    OBVIOUS
  <1>22. ASSUME NEW s \in Stops, StopChecks(s) PROVE ckpt.turns \subseteq ckpt'.turns
    OBVIOUS
  <1>23. ASSUME NEW s \in Stops, StopSaves(s) PROVE ckpt.turns \subseteq ckpt'.turns
    OBVIOUS
  <1>24. ASSUME NEW a \in Actors, Hit(a) PROVE ckpt.turns \subseteq ckpt'.turns
    BY <1>24, SMTT(60) DEF Hit
  <1>25. ASSUME NEW a \in Actors, PersistChecks(a) PROVE ckpt.turns \subseteq
      ckpt'.turns
    BY <1>25, SMTT(60) DEF PersistChecks
  <1>26. ASSUME NEW a \in Actors, PersistSaves(a) PROVE ckpt.turns \subseteq ckpt'.turns
    <2>1. PICK r \in saving[a] : ckpt' = Interrupted(snap[r])
      BY <1>26 DEF PersistSaves
    <2>2. r \in Requests /\ snap[r] \in Checkpoint /\ Exposed(r)
      BY <2>1 DEF Inv, TypeOK, Exposed, Callers
    <2>3. gen[r] = fence /\ ~overtaken
      BY <1>26, <2>1, <2>2 DEF PersistSaves, history, Inv, WindowInv
    <2>4. ckpt.turns \subseteq snap[r].turns
      BY <2>2, <2>3 DEF CarryInv
    <2> QED BY <2>1, <2>2, <2>4, InterruptedType
  <1>27. ASSUME NEW a \in Actors, Notifies(a) PROVE ckpt.turns \subseteq ckpt'.turns
    BY <1>27, SMTT(60) DEF Notifies
  <1>28. ASSUME NEW n \in Nodes, Receives(n) PROVE ckpt.turns \subseteq ckpt'.turns
    BY <1>28, SMTT(60) DEF Receives
  <1>29. ASSUME NEW n \in Nodes, ListenerFails(n) PROVE ckpt.turns \subseteq ckpt'.turns
    BY <1>29, SMTT(60) DEF ListenerFails
  <1>30. ASSUME NEW n \in Nodes, Crash(n) PROVE ckpt.turns \subseteq ckpt'.turns
    BY <1>30, SMTT(60) DEF Crash
  <1>31. CASE UNCHANGED vars
    BY <1>31 DEF vars, shared, calls, registry, signals, history
  <1>32. ASSUME NEW r \in Requests, AgentStarts(r) PROVE ckpt.turns \subseteq ckpt'.turns
    BY <1>32 DEF AgentStarts, calls, registry, signals, history, shared
  <1> QED
    BY <1>1, <1>2, <1>3, <1>4, <1>5, <1>6, <1>7, <1>8, <1>9, <1>10, <1>11,
       <1>12, <1>13, <1>14, <1>15, <1>16, <1>17, <1>18, <1>19, <1>20, <1>21,
       <1>22, <1>23, <1>24, <1>25, <1>26, <1>27, <1>28, <1>29, <1>30, <1>31, <1>32 DEF
       Next, RunStep, StopStep, InterruptStep

(* A user turn that has reached the checkpoint stays in it, whatever       *)
(* supersedes, interrupts or kills the requests that follow.               *)
THEOREM TurnsKept == ASSUME OnlyMessages, NoStops PROVE Spec => TurnsNeverLost
<1>1. Init => PlainInv /\ CarryInv
  BY ConstantsAssumption DEF Init, PlainInv, CarryInv, Writers, Exposed, Callers, Actors
<1>2. Inv /\ PlainInv /\ CarryInv /\ [Next]_vars => PlainInv' /\ CarryInv'
  BY OnlyMessages, NoStops, PlainStep, CarryStep DEF Inv
<1>3. Inv /\ PlainInv /\ CarryInv /\ [Next]_vars
        => [~overtaken' => ckpt.turns \subseteq ckpt'.turns]_vars
  BY OnlyMessages, NoStops, TurnsStep
<1> QED BY Invariance, <1>1, <1>2, <1>3, PTL DEF Spec, TurnsNeverLost
-----------------------------------------------------------------------------
(* The pending tool, between a request's set_pending_tool and its save,    *)
(* is the question it is about to save or none.                            *)
AskInv ==
    ~overtaken => \A r \in Requests :
        pc[r] = "save" => pendingTool \in {"none", result[r].pend}

(* A callback that passed its fence check belongs to an interrupter that   *)
(* has not finished, and will clear the pending tool.                      *)
SavingInv == \A a \in Actors : saving[a] # {} => ip[a] # "off"

(* Without a stop, a crash or an overtaking, the pending tool is never a   *)
(* question that the checkpoint lacks, except while a request is between   *)
(* its two writes or an interrupter has still to clear it.                 *)
Resting ==
    /\ ~overtaken
    /\ \A c \in Callers : pc[c] # "lost"
    /\ \A a \in Actors : ip[a] = "off"
    /\ \A r \in Requests : pc[r] # "save"
SettledInv == Resting => pendingTool \in {"none", ckpt.pend}

(* Only the request that holds the fence is at its save, and no other step *)
(* puts a question in the pending tool.                                    *)
LEMMA AskStep == ASSUME Inv, AskInv, [Next]_vars PROVE AskInv'
  <1> USE ConstantsAssumption DEF Inv, TypeOK, AskInv, Callers, shared, calls, history
  <1>1. ASSUME NEW r \in Requests, ChatArrives(r) PROVE AskInv'
    BY <1>1, SMTT(60) DEF ChatArrives, Goto
  <1>2. ASSUME NEW r \in Requests, AnswerArrives(r) PROVE AskInv'
    BY <1>2, SMTT(60) DEF AnswerArrives, Goto
  <1>3. ASSUME NEW r \in Requests, ChatRoutes(r) PROVE AskInv'
    <2>1. PICK p \in {"begin", "active"} : pc' = [pc EXCEPT ![r] = p]
      BY <1>3 DEF ChatRoutes, Goto
    <2>2. pc[r] = "interrupting" /\ UNCHANGED <<pendingTool, result, overtaken>>
      BY <1>3 DEF ChatRoutes
    <2> QED BY <2>1, <2>2
  <1>4. ASSUME NEW r \in Requests, RunActiveLoads(r) PROVE AskInv'
    BY <1>4, SMTT(60) DEF RunActiveLoads, Goto
  <1>5. ASSUME NEW r \in Requests, ResumeLoads(r) PROVE AskInv'
    <2>1. PICK p \in {"begin", "confirm"} : pc' = [pc EXCEPT ![r] = p]
      BY <1>5 DEF ResumeLoads, Goto
    <2>2. pc[r] = "resume" /\ UNCHANGED <<pendingTool, result, overtaken>>
      BY <1>5 DEF ResumeLoads
    <2> QED BY <2>1, <2>2
  <1>6. ASSUME NEW r \in Requests, ResumeRejects(r) PROVE AskInv'
    BY <1>6, SMTT(60) DEF ResumeRejects, Goto
  <1>7. ASSUME NEW r \in Requests, ConfirmSaves(r) PROVE AskInv'
    <2>1. PICK p \in {"done", "confirmed"} : pc' = [pc EXCEPT ![r] = p]
      BY <1>7 DEF ConfirmSaves, Goto
    <2>2. pc[r] = "confirm" /\ UNCHANGED <<pendingTool, result, overtaken>>
      BY <1>7 DEF ConfirmSaves
    <2> QED BY <2>1, <2>2
  <1>8. ASSUME NEW r \in Requests, ConfirmClears(r) PROVE AskInv'
    BY <1>8, SMTT(60) DEF ConfirmClears, Goto
  <1>9. ASSUME NEW r \in Requests, Begin(r) PROVE AskInv'
    BY <1>9, SMTT(60) DEF Begin, Goto
  <1>10. ASSUME NEW r \in Requests, Register(r) PROVE AskInv'
    BY <1>10, SMTT(60) DEF Register, Goto
  <1>11. ASSUME NEW r \in Requests, Bind(r) PROVE AskInv'
    <2>1. PICK p \in {"graph", "check"} : pc' = [pc EXCEPT ![r] = p]
      BY <1>11 DEF Bind, Goto
    <2>2. pc[r] = "bind" /\ UNCHANGED <<pendingTool, overtaken>>
      BY <1>11 DEF Bind
    <2>3. \A q \in Requests : q # r => result'[q] = result[q]
      BY <1>11 DEF Bind
    <2> QED BY <2>1, <2>2, <2>3
  <1>12. ASSUME NEW r \in Requests, OwnerMismatch(r) PROVE AskInv'
    <2>1. /\ pc[r] = "bind" /\ pc' = [pc EXCEPT ![r] = "unwind"]
          /\ UNCHANGED <<pendingTool, result, overtaken>>
      BY <1>12 DEF OwnerMismatch, Goto
    <2> QED BY <2>1
  <1>13. ASSUME NEW r \in Requests, GraphReturns(r) PROVE AskInv'
    <2>1. pc[r] = "graph" /\ pc' = [pc EXCEPT ![r] = "check"]
          /\ UNCHANGED <<pendingTool, overtaken>>
      BY <1>13 DEF GraphReturns, Goto
    <2>2. \A q \in Requests : q # r => result'[q] = result[q]
      BY <1>13 DEF GraphReturns
    <2> QED BY <2>1, <2>2
  <1>14. ASSUME NEW r \in Requests, GraphRaises(r) PROVE AskInv'
    <2>1. PICK p \in {"check", "unwind"} : pc' = [pc EXCEPT ![r] = p]
      BY <1>14 DEF GraphRaises, Goto
    <2>2. pc[r] = "graph" /\ UNCHANGED <<pendingTool, overtaken>>
      BY <1>14 DEF GraphRaises
    <2>3. \A q \in Requests : q # r => result'[q] = result[q]
      BY <1>14 DEF GraphRaises
    <2> QED BY <2>1, <2>2, <2>3
  <1>15. ASSUME NEW r \in Requests, CheckFence(r) PROVE AskInv'
    <2>1. PICK p \in {"tool", "finally"} : pc' = [pc EXCEPT ![r] = p]
      BY <1>15 DEF CheckFence, AfterCheck, Goto
    <2>2. pc[r] = "check" /\ UNCHANGED <<pendingTool, overtaken>>
      BY <1>15 DEF CheckFence
    <2>3. \A q \in Requests : q # r => result'[q] = result[q]
      BY <1>15 DEF CheckFence
    <2> QED BY <2>1, <2>2, <2>3
  <1>16. ASSUME NEW r \in Requests, SetTool(r) PROVE AskInv'
    <2>1. /\ pc[r] = "tool" /\ pc' = [pc EXCEPT ![r] = "save"]
          /\ pendingTool' = result[r].pend /\ UNCHANGED <<result, overtaken>>
      BY <1>16 DEF SetTool, Goto, NewQuestion
    <2>2. ~overtaken => \A q \in Requests : pc[q] = "save" => q = r
      BY <2>1 DEF WindowInv, GenInv, DrawnInv, LivePlaces
    <2> QED BY <2>1, <2>2
  <1>17. ASSUME NEW r \in Requests, Save(r) PROVE AskInv'
    BY <1>17, SMTT(60) DEF Save, Goto
  <1>18. ASSUME NEW r \in Requests, Finally(r) PROVE AskInv'
    <2>1. PICK p \in {"failed", "resave", "done"} : pc' = [pc EXCEPT ![r] = p]
      BY <1>18 DEF Finally, Goto
    <2>2. pendingTool' \in {"none", pendingTool} /\ overtaken' = overtaken
      BY <1>18 DEF Finally, ToolAfter
    <2>3. \A q \in Requests : q # r => result'[q] = result[q]
      BY <1>18 DEF Finally
    <2> QED BY <2>1, <2>2, <2>3
  <1>19. ASSUME NEW r \in Requests, Resave(r) PROVE AskInv'
    BY <1>19, SMTT(60) DEF Resave, Goto
  <1>20. ASSUME NEW s \in Stops, StopLoads(s) PROVE AskInv'
    BY <1>20, SMTT(60) DEF StopLoads, Goto
  <1>21. ASSUME NEW s \in Stops, StopReads(s) PROVE AskInv'
    BY <1>21, SMTT(60) DEF StopReads, Goto
  <1>22. ASSUME NEW s \in Stops, StopChecks(s) PROVE AskInv'
    <2>1. PICK p \in {"save", "done"} : pc' = [pc EXCEPT ![s] = p]
      BY <1>22 DEF StopChecks, Goto
    <2>2. pc[s] = "interrupting" /\ UNCHANGED <<pendingTool, result, overtaken>>
      BY <1>22 DEF StopChecks
    <2> QED BY <2>1, <2>2
  <1>23. ASSUME NEW s \in Stops, StopSaves(s) PROVE AskInv'
    BY <1>23, SMTT(60) DEF StopSaves, Goto
  <1>24. ASSUME NEW a \in Actors, Hit(a) PROVE AskInv'
    BY <1>24, SMTT(60) DEF Hit, Goto
  <1>25. ASSUME NEW a \in Actors, PersistChecks(a) PROVE AskInv'
    BY <1>25, SMTT(60) DEF PersistChecks, Goto
  <1>26. ASSUME NEW a \in Actors, PersistSaves(a) PROVE AskInv'
    BY <1>26, SMTT(60) DEF PersistSaves, Goto
  <1>27. ASSUME NEW a \in Actors, Notifies(a) PROVE AskInv'
    BY <1>27, SMTT(60) DEF Notifies, Goto
  <1>28. ASSUME NEW n \in Nodes, Receives(n) PROVE AskInv'
    BY <1>28, SMTT(60) DEF Receives, Goto
  <1>29. ASSUME NEW n \in Nodes, ListenerFails(n) PROVE AskInv'
    BY <1>29, SMTT(60) DEF ListenerFails, Goto
  <1>30. ASSUME NEW n \in Nodes, Crash(n) PROVE AskInv'
    BY <1>30, SMTT(60) DEF Crash, KilledWith, Settled
  <1>31. CASE UNCHANGED vars
    BY <1>31 DEF vars, shared, calls, registry, signals, history
  <1>32. ASSUME NEW r \in Requests, AgentStarts(r) PROVE AskInv'
    BY <1>32 DEF AgentStarts, calls, registry, signals, history, shared
  <1> QED
    BY <1>1, <1>2, <1>3, <1>4, <1>5, <1>6, <1>7, <1>8, <1>9, <1>10, <1>11,
       <1>12, <1>13, <1>14, <1>15, <1>16, <1>17, <1>18, <1>19, <1>20, <1>21,
       <1>22, <1>23, <1>24, <1>25, <1>26, <1>27, <1>28, <1>29, <1>30, <1>31, <1>32
    DEF Next, RunStep, StopStep, InterruptStep

(* An interrupter finishes only when no callback is saving. *)
LEMMA SavingStep == ASSUME TypeOK, SavingInv, [Next]_vars PROVE SavingInv'
  <1> USE ConstantsAssumption DEF TypeOK, SavingInv, Callers, Actors, signals
  <1>1. ASSUME NEW r \in Requests, ChatArrives(r) PROVE SavingInv'
    BY <1>1, SMTT(60) DEF ChatArrives
  <1>2. ASSUME NEW r \in Requests, AnswerArrives(r) PROVE SavingInv'
    BY <1>2, SMTT(60) DEF AnswerArrives
  <1>3. ASSUME NEW r \in Requests, ChatRoutes(r) PROVE SavingInv'
    BY <1>3, SMTT(60) DEF ChatRoutes
  <1>4. ASSUME NEW r \in Requests, RunActiveLoads(r) PROVE SavingInv'
    BY <1>4, SMTT(60) DEF RunActiveLoads
  <1>5. ASSUME NEW r \in Requests, ResumeLoads(r) PROVE SavingInv'
    BY <1>5, SMTT(60) DEF ResumeLoads
  <1>6. ASSUME NEW r \in Requests, ResumeRejects(r) PROVE SavingInv'
    BY <1>6, SMTT(60) DEF ResumeRejects
  <1>7. ASSUME NEW r \in Requests, ConfirmSaves(r) PROVE SavingInv'
    BY <1>7, SMTT(60) DEF ConfirmSaves
  <1>8. ASSUME NEW r \in Requests, ConfirmClears(r) PROVE SavingInv'
    BY <1>8, SMTT(60) DEF ConfirmClears
  <1>9. ASSUME NEW r \in Requests, Begin(r) PROVE SavingInv'
    BY <1>9, SMTT(60) DEF Begin
  <1>10. ASSUME NEW r \in Requests, Register(r) PROVE SavingInv'
    BY <1>10, SMTT(60) DEF Register
  <1>11. ASSUME NEW r \in Requests, Bind(r) PROVE SavingInv'
    BY <1>11, SMTT(60) DEF Bind
  <1>12. ASSUME NEW r \in Requests, OwnerMismatch(r) PROVE SavingInv'
    BY <1>12, SMTT(60) DEF OwnerMismatch
  <1>13. ASSUME NEW r \in Requests, GraphReturns(r) PROVE SavingInv'
    BY <1>13, SMTT(60) DEF GraphReturns
  <1>14. ASSUME NEW r \in Requests, GraphRaises(r) PROVE SavingInv'
    BY <1>14, SMTT(60) DEF GraphRaises
  <1>15. ASSUME NEW r \in Requests, CheckFence(r) PROVE SavingInv'
    BY <1>15, SMTT(60) DEF CheckFence
  <1>16. ASSUME NEW r \in Requests, SetTool(r) PROVE SavingInv'
    BY <1>16, SMTT(60) DEF SetTool
  <1>17. ASSUME NEW r \in Requests, Save(r) PROVE SavingInv'
    BY <1>17, SMTT(60) DEF Save
  <1>18. ASSUME NEW r \in Requests, Finally(r) PROVE SavingInv'
    BY <1>18, SMTT(60) DEF Finally
  <1>19. ASSUME NEW r \in Requests, Resave(r) PROVE SavingInv'
    BY <1>19, SMTT(60) DEF Resave
  <1>20. ASSUME NEW s \in Stops, StopLoads(s) PROVE SavingInv'
    BY <1>20, SMTT(60) DEF StopLoads
  <1>21. ASSUME NEW s \in Stops, StopReads(s) PROVE SavingInv'
    BY <1>21, SMTT(60) DEF StopReads
  <1>22. ASSUME NEW s \in Stops, StopChecks(s) PROVE SavingInv'
    BY <1>22, SMTT(60) DEF StopChecks
  <1>23. ASSUME NEW s \in Stops, StopSaves(s) PROVE SavingInv'
    BY <1>23, SMTT(60) DEF StopSaves
  <1>24. ASSUME NEW a \in Actors, Hit(a) PROVE SavingInv'
    BY <1>24, SMTT(60) DEF Hit
  <1>25. ASSUME NEW a \in Actors, PersistChecks(a) PROVE SavingInv'
    BY <1>25, SMTT(60) DEF PersistChecks
  <1>26. ASSUME NEW a \in Actors, PersistSaves(a) PROVE SavingInv'
    BY <1>26, SMTT(60) DEF PersistSaves
  <1>27. ASSUME NEW a \in Actors, Notifies(a) PROVE SavingInv'
    BY <1>27, SMTT(60) DEF Notifies
  <1>28. ASSUME NEW n \in Nodes, Receives(n) PROVE SavingInv'
    BY <1>28, SMTT(60) DEF Receives
  <1>29. ASSUME NEW n \in Nodes, ListenerFails(n) PROVE SavingInv'
    BY <1>29, SMTT(60) DEF ListenerFails
  <1>30. ASSUME NEW n \in Nodes, Crash(n) PROVE SavingInv'
    BY <1>30, SMTT(60) DEF Crash
  <1>31. CASE UNCHANGED vars
    BY <1>31 DEF vars, shared, calls, registry, signals, history
  <1>32. ASSUME NEW r \in Requests, AgentStarts(r) PROVE SavingInv'
    BY <1>32 DEF AgentStarts, calls, registry, signals, history, shared
  <1> QED
    BY <1>1, <1>2, <1>3, <1>4, <1>5, <1>6, <1>7, <1>8, <1>9, <1>10, <1>11,
       <1>12, <1>13, <1>14, <1>15, <1>16, <1>17, <1>18, <1>19, <1>20, <1>21,
       <1>22, <1>23, <1>24, <1>25, <1>26, <1>27, <1>28, <1>29, <1>30, <1>31, <1>32
    DEF Next, RunStep, StopStep, InterruptStep

(* A step that touches neither the pending tool nor the checkpoint, and    *)
(* does not bring the session to rest, keeps SettledInv.                   *)
LEMMA SettledFrame ==
    ASSUME SettledInv, UNCHANGED <<pendingTool, ckpt>>, Resting' => Resting
    PROVE  SettledInv'
BY DEF SettledInv

(* The steps that bring the session to rest: a save of the question just   *)
(* put in the pending tool, and an interrupter that clears it.             *)
LEMMA SettledStep ==
    ASSUME OnlyMessages, NoStops, Inv, PlainInv, AskInv, SavingInv, SettledInv,
           [Next]_vars
    PROVE  SettledInv'
  <1> USE ConstantsAssumption DEF OnlyMessages, NoStops, PlainInv, Inv, TypeOK, Callers, Actors,
          calls, signals, history
  <1>1. ASSUME NEW r \in Requests, ChatArrives(r) PROVE SettledInv'
    <2>1. ~Resting'
      BY <1>1 DEF ChatArrives, Goto, Resting
    <2> QED BY <2>1 DEF SettledInv
  <1>2. ASSUME NEW r \in Requests, AnswerArrives(r) PROVE SettledInv'
    <2>1. UNCHANGED <<pendingTool, ckpt>>
      BY <1>2 DEF AnswerArrives, shared
    <2>2. Resting' => Resting
      BY <1>2 DEF AnswerArrives, Goto, Resting
    <2> QED BY <2>1, <2>2, SettledFrame
  <1>3. ASSUME NEW r \in Requests, ChatRoutes(r) PROVE SettledInv'
    <2>1. UNCHANGED <<pendingTool, ckpt>>
      BY <1>3 DEF ChatRoutes, shared
    <2>2. Resting' => Resting
      BY <1>3 DEF ChatRoutes, Goto, Resting
    <2> QED BY <2>1, <2>2, SettledFrame
  <1>4. ASSUME NEW r \in Requests, RunActiveLoads(r) PROVE SettledInv'
    BY <1>4 DEF RunActiveLoads
  <1>5. ASSUME NEW r \in Requests, ResumeLoads(r) PROVE SettledInv'
    BY <1>5 DEF ResumeLoads
  <1>6. ASSUME NEW r \in Requests, ResumeRejects(r) PROVE SettledInv'
    BY <1>6 DEF ResumeRejects
  <1>7. ASSUME NEW r \in Requests, ConfirmSaves(r) PROVE SettledInv'
    BY <1>7 DEF ConfirmSaves
  <1>8. ASSUME NEW r \in Requests, ConfirmClears(r) PROVE SettledInv'
    BY <1>8 DEF ConfirmClears
  <1>9. ASSUME NEW r \in Requests, Begin(r) PROVE SettledInv'
    <2>1. UNCHANGED <<pendingTool, ckpt>>
      BY <1>9 DEF Begin, shared
    <2>2. Resting' => Resting
      BY <1>9 DEF Begin, Goto, Resting
    <2> QED BY <2>1, <2>2, SettledFrame
  <1>10. ASSUME NEW r \in Requests, Register(r) PROVE SettledInv'
    <2>1. UNCHANGED <<pendingTool, ckpt>>
      BY <1>10 DEF Register, shared
    <2>2. Resting' => Resting
      BY <1>10 DEF Register, Goto, Resting
    <2> QED BY <2>1, <2>2, SettledFrame
  <1>11. ASSUME NEW r \in Requests, Bind(r) PROVE SettledInv'
    <2>1. UNCHANGED <<pendingTool, ckpt>>
      BY <1>11 DEF Bind, shared
    <2>2. Resting' => Resting
      BY <1>11 DEF Bind, Goto, Resting
    <2> QED BY <2>1, <2>2, SettledFrame
  <1>12. ASSUME NEW r \in Requests, OwnerMismatch(r) PROVE SettledInv'
    <2>1. UNCHANGED <<pendingTool, ckpt>>
      BY <1>12 DEF OwnerMismatch, shared
    <2>2. Resting' => Resting
      BY <1>12 DEF OwnerMismatch, Goto, Resting
    <2> QED BY <2>1, <2>2, SettledFrame
  <1>13. ASSUME NEW r \in Requests, GraphReturns(r) PROVE SettledInv'
    <2>1. UNCHANGED <<pendingTool, ckpt>>
      BY <1>13 DEF GraphReturns, shared
    <2>2. Resting' => Resting
      BY <1>13 DEF GraphReturns, Goto, Resting
    <2> QED BY <2>1, <2>2, SettledFrame
  <1>14. ASSUME NEW r \in Requests, GraphRaises(r) PROVE SettledInv'
    <2>1. UNCHANGED <<pendingTool, ckpt>>
      BY <1>14 DEF GraphRaises, shared
    <2>2. Resting' => Resting
      BY <1>14 DEF GraphRaises, Goto, Resting
    <2> QED BY <2>1, <2>2, SettledFrame
  <1>15. ASSUME NEW r \in Requests, CheckFence(r) PROVE SettledInv'
    <2>1. UNCHANGED <<pendingTool, ckpt>>
      BY <1>15 DEF CheckFence, shared
    <2>2. Resting' => Resting
      BY <1>15 DEF CheckFence, Goto, Resting, AfterCheck
    <2> QED BY <2>1, <2>2, SettledFrame
  <1>16. ASSUME NEW r \in Requests, SetTool(r) PROVE SettledInv'
    <2>1. ~Resting'
      BY <1>16 DEF SetTool, Goto, Resting
    <2> QED BY <2>1 DEF SettledInv
  <1>17. ASSUME NEW r \in Requests, Save(r) PROVE SettledInv'
    <2>1. /\ ckpt' = result[r] /\ pc[r] = "save"
          /\ UNCHANGED <<pendingTool, overtaken>>
      BY <1>17 DEF Save
    <2> QED BY <2>1 DEF SettledInv, Resting, AskInv
  <1>18. ASSUME NEW r \in Requests, Finally(r) PROVE SettledInv'
    <2>1. pendingTool' \in {"none", pendingTool} /\ ckpt' = ckpt
      BY <1>18 DEF Finally, ToolAfter
    <2>2. Resting' => Resting
      <3>1. PICK p \in {"failed", "resave", "done"} : pc' = [pc EXCEPT ![r] = p]
        BY <1>18 DEF Finally, Goto
      <3>2. pc[r] \in {"finally", "unwind"} /\ UNCHANGED <<ip, overtaken>>
        BY <1>18 DEF Finally
      <3> QED BY <3>1, <3>2 DEF Resting
    <2> QED BY <2>1, <2>2 DEF SettledInv
  <1>19. ASSUME NEW r \in Requests, Resave(r) PROVE SettledInv'
    BY <1>19 DEF Resave
  <1>20. ASSUME NEW s \in Stops, StopLoads(s) PROVE SettledInv'
    OBVIOUS
  <1>21. ASSUME NEW s \in Stops, StopReads(s) PROVE SettledInv'
    OBVIOUS
  <1>22. ASSUME NEW s \in Stops, StopChecks(s) PROVE SettledInv'
    OBVIOUS
  <1>23. ASSUME NEW s \in Stops, StopSaves(s) PROVE SettledInv'
    OBVIOUS
  <1>24. ASSUME NEW a \in Actors, Hit(a) PROVE SettledInv'
    <2>1. ~Resting'
      BY <1>24 DEF Hit, Goto, Resting
    <2> QED BY <2>1 DEF SettledInv
  <1>25. ASSUME NEW a \in Actors, PersistChecks(a) PROVE SettledInv'
    <2>1. UNCHANGED <<pendingTool, ckpt>>
      BY <1>25 DEF PersistChecks, shared
    <2>2. Resting' => Resting
      BY <1>25 DEF PersistChecks, Goto, Resting
    <2> QED BY <2>1, <2>2, SettledFrame
  <1>26. ASSUME NEW a \in Actors, PersistSaves(a) PROVE SettledInv'
    <2>1. ip[a] # "off" /\ ip' = ip
      BY <1>26 DEF PersistSaves, SavingInv
    <2> QED BY <2>1 DEF SettledInv, Resting
  <1>27. ASSUME NEW a \in Actors, Notifies(a) PROVE SettledInv'
    <2>1. pendingTool' = "none"
      BY <1>27 DEF Notifies
    <2> QED BY <2>1 DEF SettledInv
  <1>28. ASSUME NEW n \in Nodes, Receives(n) PROVE SettledInv'
    <2>1. ~Resting'
      BY <1>28 DEF Receives, Goto, Resting
    <2> QED BY <2>1 DEF SettledInv
  <1>29. ASSUME NEW n \in Nodes, ListenerFails(n) PROVE SettledInv'
    <2>1. UNCHANGED <<pendingTool, ckpt>>
      BY <1>29 DEF ListenerFails, shared
    <2>2. Resting' => Resting
      BY <1>29 DEF ListenerFails, Goto, Resting
    <2> QED BY <2>1, <2>2, SettledFrame
  <1>30. ASSUME NEW n \in Nodes, Crash(n) PROVE SettledInv'
    <2>1. PICK c \in Callers : pc'[c] = "lost"
      BY <1>30 DEF Crash, KilledWith
    <2> QED BY <2>1 DEF SettledInv, Resting
  <1>31. CASE UNCHANGED vars
    BY <1>31, SettledFrame DEF Resting, vars, shared
  <1>32. ASSUME NEW r \in Requests, AgentStarts(r) PROVE SettledInv'
    BY <1>32, SettledFrame DEF AgentStarts, Resting
  <1> QED
    BY <1>1, <1>2, <1>3, <1>4, <1>5, <1>6, <1>7, <1>8, <1>9, <1>10, <1>11,
       <1>12, <1>13, <1>14, <1>15, <1>16, <1>17, <1>18, <1>19, <1>20, <1>21,
       <1>22, <1>23, <1>24, <1>25, <1>26, <1>27, <1>28, <1>29, <1>30, <1>31, <1>32
    DEF Next, RunStep, StopStep, InterruptStep

(* In a session that is only sent messages, when everything has come to    *)
(* rest and no process was killed, the pending tool holds no question      *)
(* that the checkpoint has closed: a later continuation signal cannot be   *)
(* taken as the answer to it.                                              *)
THEOREM NoQuestionOrphaned ==
    ASSUME OnlyMessages, NoStops PROVE Spec => []NoOrphanedQuestion
<1>1. Init => PlainInv /\ AskInv /\ SavingInv /\ SettledInv
  BY ConstantsAssumption
     DEF Init, PlainInv, AskInv, SavingInv, SettledInv, Callers, Actors, NoCheckpoint
<1>2. Inv /\ PlainInv /\ AskInv /\ SavingInv /\ SettledInv /\ [Next]_vars
        => PlainInv' /\ AskInv' /\ SavingInv' /\ SettledInv'
  BY OnlyMessages, NoStops, PlainStep, AskStep, SavingStep, SettledStep DEF Inv
<1>3. Inv /\ SettledInv => NoOrphanedQuestion
  BY DEF SettledInv, Resting, NoOrphanedQuestion, Quiet, Settled, Inv, TypeOK, Callers
<1> QED BY Invariance, <1>1, <1>2, <1>3, PTL DEF Spec
=============================================================================
