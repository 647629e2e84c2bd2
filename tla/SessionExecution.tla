------------------------- MODULE SessionExecution -------------------------
(***************************************************************************)
(* One conversation session of the travel assistant, executed by a cluster *)
(* of application nodes: TravelService (services/travel_service.py) with   *)
(* the session fence (infrastructure/stores.py), the execution registry    *)
(* (memory/execution.py), the interrupt broadcast                          *)
(* (services/interrupt_broadcast.py) and the durable session state         *)
(* (memory/session.py, memory/store.py).                                   *)
(*                                                                         *)
(* The fence, the checkpoint, the pending tool and the active agent are    *)
(* shared by the nodes (Redis and the database); the registry, the stop    *)
(* flags and the interrupt callbacks live on the node that runs the        *)
(* request.  A request is an SSE worker thread; a stop is a call of        *)
(* interrupt(); a listener thread per node consumes the broadcast channel. *)
(* A step is what one thread does between two accesses to shared state.    *)
(***************************************************************************)
EXTENDS Naturals, Sequences, FiniteSets

CONSTANTS
    Requests,   \* POST /chat/{id} and POST /chat/respond calls of the session
    Stops,      \* POST /chat/{id}/interrupt calls of the session
    Nodes,      \* application instances
    Home,       \* the node that serves each call
    Fragile,    \* the nodes whose process may be killed and restarted
    Entries,    \* the kinds of request that occur, a subset of EntryKinds
    Questions,  \* the interactions an agent may ask for
    Earlier     \* stands for the turns of the conversation before these calls

EntryKinds == {"message", "continuation", "answer"}
Callers == Requests \cup Stops
Actors == Callers \cup Nodes

ASSUME ConstantsAssumption ==
    /\ Home \in [Callers -> Nodes] /\ Fragile \subseteq Nodes
    /\ Entries \subseteq EntryKinds
    /\ Questions \subseteq {"ask", "confirm"}
    /\ Earlier \notin Requests
    /\ Requests \cap Stops = {}
    /\ Callers \cap Nodes = {}

VARIABLES
    fence,        \* SessionExecutionFence: the session's last generation
    ckpt,         \* the durable checkpoint (agent_memory_repository)
    pendingTool,  \* agent_session_store, field pending_tool
    activeAgent,  \* agent_session_store, field active_agent
    pc,           \* where each call is
    mode,         \* which execution path a request takes
    gen,          \* the generation a request drew from the fence
    snap,         \* the state a call loaded, then its pre-invocation snapshot
    result,       \* the state a request is about to return
    registered,   \* handles in the execution registries
    bound,        \* handles whose interrupt callback is set
    stop,         \* handles whose stop event is set
    ip,           \* where each interrupter is in interrupt_and_broadcast
    ig,           \* the generation an interrupter targets; 0 stands for None
    victims,      \* callbacks an interrupter still has to run
    saving,       \* the callback that passed its fence check
    bus,          \* the broadcast channel, as each node's listener sees it
    listening,    \* nodes whose listener thread is alive
    overtaken,    \* history: a request began inside another writer's window
    dropped       \* history: requests whose fence check failed

shared == <<fence, ckpt, pendingTool, activeAgent>>
calls == <<pc, mode, gen, snap, result>>
registry == <<registered, bound, stop>>
signals == <<ip, ig, victims, saving, bus, listening>>
history == <<overtaken, dropped>>
vars == <<shared, calls, registry, signals, history>>
-----------------------------------------------------------------------------
(* The data of a checkpoint the properties tell apart: the user turns its  *)
(* messages contain, its execution_generation, its pending_interaction and *)
(* its interrupted flag.  No turn at all means no checkpoint.              *)

Interactions == {"none"} \cup Questions
Checkpoint == [turns : SUBSET (Requests \cup {Earlier}), gen : Nat,
               pend : Interactions, halted : BOOLEAN]
NoCheckpoint == [turns |-> {}, gen |-> 0, pend |-> "none", halted |-> FALSE]
Exists(x) == x.turns # {}

(* _interrupted_result: the pending interaction goes, the flag is set. *)
Interrupted(x) == [x EXCEPT !.pend = "none", !.halted = TRUE]

(* The messages of the previous state, with the request's own appended. *)
OnlyOwnTurn(x, r) == {r}
WithTurn(x, r) == x.turns \cup {r}

(* SessionExecutionFence.begin and is_current. *)
SameGeneration == IF fence = 0 THEN 1 ELSE fence
NextGeneration == fence + 1
AnyGeneration(g) == g > 0
IsCurrent(g) == g > 0 /\ fence = g

(* pending_interaction of the checkpoint, or else the pending tool. *)
PendingOf(x) == IF x.pend # "none" THEN x.pend ELSE pendingTool

RunModes == {"run", "resume"}   \* both execute TravelService.run
Where(a) == IF a \in Nodes THEN a ELSE Home[a]

(* AgentExecutionRegistry.end, in the finally block of every path. *)
StillRegistered(r) == registered
Deregistered(r) == registered \ {r}

(* The time between a writer's fence check and its checkpoint write. *)
InWindow ==
    \/ \E r \in Requests : pc[r] \in {"tool", "save"}
    \/ \E s \in Stops : \/ pc[s] = "save"
                        \/ pc[s] = "interrupting" /\ ig[s] = 0
    \/ \E a \in Actors : saving[a] # {}

Init ==
    /\ fence = 0
    /\ ckpt \in {NoCheckpoint} \cup
                [turns : {{Earlier}}, gen : {0}, pend : Interactions, halted : {FALSE}]
    /\ pendingTool = ckpt.pend
    /\ activeAgent \in (IF Exists(ckpt) THEN {"master", "sub"} ELSE {"master"})
    /\ pc = [c \in Callers |-> "idle"]
    /\ mode = [r \in Requests |-> "run"]
    /\ gen = [r \in Requests |-> 0]
    /\ snap = [c \in Callers |-> NoCheckpoint]
    /\ result = [r \in Requests |-> NoCheckpoint]
    /\ registered = {} /\ bound = {} /\ stop = {}
    /\ ip = [a \in Actors |-> "off"]
    /\ ig = [a \in Actors |-> 0]
    /\ victims = [a \in Actors |-> {}]
    /\ saving = [a \in Actors |-> {}]
    /\ bus = [n \in Nodes |-> <<>>]
    /\ listening = Nodes
    /\ overtaken = FALSE
    /\ dropped = {}
-----------------------------------------------------------------------------
(* interrupt_and_broadcast, the same for a chat request that supersedes,   *)
(* a user's stop and a listener thread.                                    *)

(* AgentExecutionRegistry.interrupt: set the stop flags under the lock and *)
(* collect the callbacks, which run after the lock is released.            *)
EveryHandle(a) == {r \in registered : Home[r] = Where(a)}
Targets(a) == {r \in registered : /\ Home[r] = Where(a)
                                  /\ ig[a] = 0 \/ gen[r] = ig[a]}

Hit(a) ==
    /\ ip[a] = "hit"
    /\ stop' = stop \cup Targets(a)
    /\ victims' = [victims EXCEPT ![a] = (Targets(a) \ stop) \cap bound]
    /\ ip' = [ip EXCEPT ![a] = "persist"]
    /\ UNCHANGED <<shared, calls, registered, bound, ig, saving, bus, listening, history>>

(* The callback of _bind_interrupt_checkpoint, up to its fence check ... *)
AnySnapshot(r) == TRUE
SnapshotIsCurrent(r) == IsCurrent(gen[r])

PersistChecks(a) ==
    /\ ip[a] = "persist" /\ saving[a] = {}
    /\ \E r \in victims[a] :
         /\ victims' = [victims EXCEPT ![a] = @ \ {r}]
         /\ saving' = [saving EXCEPT ![a] = IF SnapshotIsCurrent(r) THEN {r} ELSE {}]
    /\ UNCHANGED <<shared, calls, registry, ip, ig, bus, listening, history>>

(* ... and its save of the pre-invocation snapshot. *)
PersistSaves(a) ==
    /\ \E r \in saving[a] : ckpt' = Interrupted(snap[r])
    /\ saving' = [saving EXCEPT ![a] = {}]
    /\ UNCHANGED <<fence, pendingTool, activeAgent, calls, registry,
                   ip, ig, victims, bus, listening, history>>

(* The rest of _interrupt_local clears the pending tool whatever the       *)
(* generation; a caller that is not a listener then publishes to the other *)
(* nodes.  Pub/Sub reaches only the listeners that are subscribed.         *)
Published(a) ==
    IF a \in Nodes THEN bus
    ELSE [n \in Nodes |-> IF n # Where(a) /\ n \in listening
                          THEN Append(bus[n], ig[a]) ELSE bus[n]]

Notifies(a) ==
    /\ ip[a] = "persist" /\ victims[a] = {} /\ saving[a] = {}
    /\ pendingTool' = "none"
    /\ bus' = Published(a)
    /\ ip' = [ip EXCEPT ![a] = "off"]
    /\ ig' = IF a \in Stops THEN ig ELSE [ig EXCEPT ![a] = 0]
    /\ UNCHANGED <<fence, ckpt, activeAgent, calls, registry,
                   victims, saving, listening, history>>

(* _listen takes one message and handles it to the end before the next. *)
Receives(n) ==
    /\ n \in listening /\ ip[n] = "off" /\ bus[n] # <<>>
    /\ ig' = [ig EXCEPT ![n] = Head(bus[n])]
    /\ bus' = [bus EXCEPT ![n] = Tail(@)]
    /\ ip' = [ip EXCEPT ![n] = "hit"]
    /\ UNCHANGED <<shared, calls, registry, victims, saving, listening, history>>

(* A Redis error ends the listener thread; nothing restarts it. *)
ListenerFails(n) ==
    /\ n \in listening /\ ip[n] = "off"
    /\ listening' = listening \ {n}
    /\ bus' = [bus EXCEPT ![n] = <<>>]
    /\ UNCHANGED <<shared, calls, registry, ip, ig, victims, saving, history>>

InterruptStep(a) == Hit(a) \/ PersistChecks(a) \/ PersistSaves(a) \/ Notifies(a)
-----------------------------------------------------------------------------
(* The entry points of a request. *)

Goto(r, there) == pc' = [pc EXCEPT ![r] = there]

(* POST /chat/{id}: interrupt_previous reads the fence. *)
ChatArrives(r) ==
    /\ pc[r] = "idle" /\ Entries \cap {"message", "continuation"} # {}
    /\ Goto(r, "interrupting")
    /\ ig' = [ig EXCEPT ![r] = fence]
    /\ ip' = [ip EXCEPT ![r] = "hit"]
    /\ UNCHANGED <<shared, mode, gen, snap, result, registry,
                   victims, saving, bus, listening, history>>

(* The router picks run, or run_active for a continuation signal that      *)
(* follows a sub-agent.                                                    *)
ChatRoutes(r) ==
    /\ pc[r] = "interrupting" /\ ip[r] = "off"
    /\ \/ "message" \in Entries /\ Goto(r, "begin")
       \/ "continuation" \in Entries /\ Goto(r, IF activeAgent = "sub" THEN "active" ELSE "begin")
    /\ mode' = [mode EXCEPT ![r] = "run"]
    /\ UNCHANGED <<shared, gen, snap, result, registry, signals, history>>

(* run_active: resume a pending interaction, continue the active sub-agent *)
(* on the checkpoint it loads here, or fall back to run.                   *)
RunActiveLoads(r) ==
    /\ pc[r] = "active"
    /\ LET pending == Exists(ckpt) /\ PendingOf(ckpt) # "none"
           continue == Exists(ckpt) /\ ~pending /\ activeAgent = "sub"
       IN  /\ Goto(r, IF pending THEN "resume" ELSE "begin")
           /\ mode' = [mode EXCEPT ![r] = IF continue THEN "active" ELSE "run"]
           /\ snap' = [snap EXCEPT ![r] = IF continue THEN ckpt ELSE @]
    /\ UNCHANGED <<shared, gen, result, registry, signals, history>>

(* POST /chat/respond and /confirm call resume without interrupt_previous. *)
AnswerArrives(r) ==
    /\ pc[r] = "idle" /\ "answer" \in Entries
    /\ Goto(r, "resume")
    /\ UNCHANGED <<shared, mode, gen, snap, result, registry, signals, history>>

(* resume: nothing pending runs the whole pipeline again, a question is    *)
(* fed back to the agent that asked, a business confirmation is carried    *)
(* out (or refused) at once; other confirmations resume their agent.       *)
ResumeLoads(r) ==
    /\ pc[r] = "resume" /\ Exists(ckpt)
    /\ snap' = [snap EXCEPT ![r] = ckpt]
    /\ \/ /\ PendingOf(ckpt) = "none"
          /\ mode' = [mode EXCEPT ![r] = "resume"] /\ Goto(r, "begin")
       \/ /\ PendingOf(ckpt) # "none"
          /\ mode' = [mode EXCEPT ![r] = "react"] /\ Goto(r, "begin")
       \/ /\ PendingOf(ckpt) = "confirm"
          /\ Goto(r, "confirm") /\ UNCHANGED mode
    /\ UNCHANGED <<shared, gen, result, registry, signals, history>>

(* No checkpoint, another user's session, an expired tool_use_id, an       *)
(* unknown agent or a missing order: resume raises before it writes.       *)
ResumeRejects(r) ==
    /\ pc[r] \in {"resume", "confirm"}
    /\ Goto(r, "failed")
    /\ UNCHANGED <<shared, mode, gen, snap, result, registry, signals, history>>

(* The deterministic confirmations save the state they loaded, with the    *)
(* answer; a conflict asks for a second confirmation and ends there.       *)
ConfirmSaves(r) ==
    /\ pc[r] = "confirm"
    /\ \E p \in Interactions \ {"ask"} :
         /\ ckpt' = [snap[r] EXCEPT !.pend = p, !.halted = FALSE]
         /\ Goto(r, IF p = "confirm" THEN "done" ELSE "confirmed")
    /\ UNCHANGED <<fence, pendingTool, activeAgent, mode, gen, snap, result,
                   registry, signals, history>>

ConfirmClears(r) ==
    /\ pc[r] = "confirmed"
    /\ pendingTool' = "none"
    /\ Goto(r, "done")
    /\ UNCHANGED <<fence, ckpt, activeAgent, mode, gen, snap, result,
                   registry, signals, history>>
-----------------------------------------------------------------------------
(* The execution of a request: run, run_active and _resume_react_agent.    *)

(* session_execution_fence.begin: Redis INCR draws the next generation. *)
Begin(r) ==
    /\ pc[r] = "begin"
    /\ fence' = NextGeneration
    /\ gen' = [gen EXCEPT ![r] = NextGeneration]
    /\ overtaken' = (overtaken \/ InWindow)
    /\ Goto(r, "register")
    /\ UNCHANGED <<ckpt, pendingTool, activeAgent, mode, snap, result,
                   registry, signals, dropped>>

(* execution_registry.begin; run also resets the active agent. *)
Register(r) ==
    /\ pc[r] = "register"
    /\ registered' = registered \cup {r}
    /\ activeAgent' = IF mode[r] \in RunModes THEN "master" ELSE activeAgent
    /\ Goto(r, "bind")
    /\ UNCHANGED <<fence, ckpt, pendingTool, mode, gen, snap, result,
                   bound, stop, signals, history>>

(* The pre-invocation state.  run loads the checkpoint here, the other     *)
(* paths extend the one they loaded before they drew a generation; a       *)
(* resumed agent starts with its question answered.                        *)
Base(r) == IF mode[r] \in RunModes THEN ckpt ELSE snap[r]
Prepared(r) == [turns |-> WithTurn(Base(r), r), gen |-> gen[r],
                pend |-> IF mode[r] = "react" THEN "none" ELSE Base(r).pend,
                halted |-> FALSE]

(* _bind_interrupt_checkpoint; only run looks at the stop flag before it   *)
(* invokes the graph.                                                      *)
Bind(r) ==
    /\ pc[r] = "bind"
    /\ snap' = [snap EXCEPT ![r] = Prepared(r)]
    /\ bound' = bound \cup {r}
    /\ IF r \in stop /\ mode[r] \in RunModes
       THEN result' = [result EXCEPT ![r] = Interrupted(Prepared(r))] /\ Goto(r, "check")
       ELSE Goto(r, "graph") /\ UNCHANGED result
    /\ UNCHANGED <<shared, mode, gen, registered, stop, signals, history>>

(* run refuses another user's session after it has registered. *)
OwnerMismatch(r) ==
    /\ pc[r] = "bind" /\ mode[r] \in RunModes /\ Exists(ckpt)
    /\ Goto(r, "unwind")
    /\ UNCHANGED <<shared, mode, gen, snap, result, registry, signals, history>>

(* While the graph or agent runs, its nodes and its sub-agents record who  *)
(* is active; only the pipeline of run puts the master back.               *)
AgentStarts(r) ==
    /\ pc[r] = "graph"
    /\ activeAgent' \in (IF mode[r] \in RunModes THEN {"master", "sub"} ELSE {"sub"})
    /\ activeAgent' # activeAgent
    /\ UNCHANGED <<fence, ckpt, pendingTool, calls, registry, signals, history>>

(* The graph or agent returns: it may ask something, it may reset the      *)
(* pending interaction of the state it was given, or hand it back as it    *)
(* was.                                                                    *)
GraphReturns(r) ==
    /\ pc[r] = "graph"
    /\ \E p \in Interactions :
         result' = [result EXCEPT ![r] =
             IF r \in stop THEN Interrupted(snap[r]) ELSE [snap[r] EXCEPT !.pend = p]]
    /\ Goto(r, "check")
    /\ UNCHANGED <<shared, mode, gen, snap, registry, signals, history>>

(* An exception counts as the interruption only when the stop flag is set. *)
GraphRaises(r) ==
    /\ pc[r] = "graph"
    /\ IF r \in stop
       THEN result' = [result EXCEPT ![r] = Interrupted(snap[r])] /\ Goto(r, "check")
       ELSE Goto(r, "unwind") /\ UNCHANGED result
    /\ UNCHANGED <<shared, mode, gen, snap, registry, signals, history>>

(* The generation fence: a superseded result is marked interrupted. *)
AlwaysSaves(r) == "tool"
AfterCheck(r) == IF IsCurrent(gen[r]) THEN "tool" ELSE "finally"

CheckFence(r) ==
    /\ pc[r] = "check"
    /\ Goto(r, AfterCheck(r))
    /\ dropped' = IF IsCurrent(gen[r]) THEN dropped ELSE dropped \cup {r}
    /\ result' = [result EXCEPT ![r] = IF IsCurrent(gen[r]) THEN @ ELSE Interrupted(@)]
    /\ UNCHANGED <<shared, mode, gen, snap, registry, signals, overtaken>>

(* set_pending_tool or clear_pending_tool; run_active then records its agent. *)
EarlierQuestion(r) == snap[r].pend
NewQuestion(r) == result[r].pend

SetTool(r) ==
    /\ pc[r] = "tool"
    /\ pendingTool' = NewQuestion(r)
    /\ activeAgent' = IF mode[r] = "active" THEN "sub" ELSE activeAgent
    /\ Goto(r, "save")
    /\ UNCHANGED <<fence, ckpt, mode, gen, snap, result, registry, signals, history>>

Save(r) ==
    /\ pc[r] = "save"
    /\ ckpt' = result[r]
    /\ Goto(r, "finally")
    /\ UNCHANGED <<fence, pendingTool, activeAgent, mode, gen, snap, result,
                   registry, signals, history>>

(* The finally block, after a normal return or an exception.  Only run     *)
(* clears the pending tool of a stopped request.  With the handle go its   *)
(* stop event and callback; a callback already collected keeps its         *)
(* snapshot.                                                               *)
ToolAfter(r) == IF r \in stop /\ mode[r] \in RunModes THEN "none" ELSE pendingTool

Finally(r) ==
    /\ pc[r] \in {"finally", "unwind"}
    /\ pendingTool' = ToolAfter(r)
    /\ registered' = Deregistered(r)
    /\ Goto(r, CASE pc[r] = "unwind" -> "failed"
                 [] pc[r] = "finally" /\ mode[r] = "resume" -> "resave"
                 [] OTHER -> "done")
    /\ bound' = bound \ {r} /\ stop' = stop \ {r}
    /\ result' = IF mode[r] = "resume" THEN result ELSE [result EXCEPT ![r] = NoCheckpoint]
    /\ UNCHANGED <<fence, ckpt, activeAgent, mode, gen, snap, signals, history>>

(* resume saves what run returned once more, with no look at the fence. *)
Resave(r) ==
    /\ pc[r] = "resave"
    /\ ckpt' = result[r]
    /\ Goto(r, "done")
    /\ UNCHANGED <<fence, pendingTool, activeAgent, mode, gen, snap, result,
                   registry, signals, history>>

RunStep(r) ==
    \/ ChatRoutes(r) \/ RunActiveLoads(r) \/ ResumeLoads(r) \/ ResumeRejects(r)
    \/ ConfirmSaves(r) \/ ConfirmClears(r)
    \/ Begin(r) \/ Register(r) \/ Bind(r) \/ OwnerMismatch(r)
    \/ GraphReturns(r) \/ GraphRaises(r) \/ CheckFence(r)
    \/ SetTool(r) \/ Save(r) \/ Finally(r) \/ Resave(r)
-----------------------------------------------------------------------------
(* interrupt(): the stop button. *)

StopLoads(s) ==
    /\ pc[s] = "idle" /\ Exists(ckpt)
    /\ snap' = [snap EXCEPT ![s] = ckpt]
    /\ Goto(s, "stopping")
    /\ UNCHANGED <<shared, mode, gen, result, registry, signals, history>>

StopReads(s) ==
    /\ pc[s] = "stopping"
    /\ ig' = [ig EXCEPT ![s] = fence]
    /\ ip' = [ip EXCEPT ![s] = "hit"]
    /\ Goto(s, "interrupting")
    /\ UNCHANGED <<shared, mode, gen, snap, result, registry,
                   victims, saving, bus, listening, history>>

StopChecks(s) ==
    /\ pc[s] = "interrupting" /\ ip[s] = "off"
    /\ Goto(s, IF ig[s] = 0 \/ IsCurrent(ig[s]) THEN "save" ELSE "done")
    /\ UNCHANGED <<shared, mode, gen, snap, result, registry, signals, history>>

StopSaves(s) ==
    /\ pc[s] = "save"
    /\ ckpt' = [Interrupted(snap[s]) EXCEPT !.gen = ig[s]]
    /\ Goto(s, "done")
    /\ UNCHANGED <<fence, pendingTool, activeAgent, mode, gen, snap, result,
                   registry, signals, history>>

StopStep(s) == StopReads(s) \/ StopChecks(s) \/ StopSaves(s)
-----------------------------------------------------------------------------
(* A node's process is killed with calls on it and started again: its      *)
(* threads, its registry and its subscription's backlog are gone, Redis    *)
(* and the database keep what they hold.                                   *)

Settled == {"idle", "done", "failed", "lost"}
KilledWith(n) == {c \in Callers : Home[c] = n /\ pc[c] \notin Settled}

Crash(n) ==
    /\ n \in Fragile /\ KilledWith(n) # {}
    /\ pc' = [c \in Callers |-> IF c \in KilledWith(n) THEN "lost" ELSE pc[c]]
    /\ registered' = registered \ KilledWith(n)
    /\ bound' = bound \ KilledWith(n) /\ stop' = stop \ KilledWith(n)
    /\ ip' = [a \in Actors |-> IF Where(a) = n THEN "off" ELSE ip[a]]
    /\ victims' = [a \in Actors |-> IF Where(a) = n THEN {} ELSE victims[a]]
    /\ saving' = [a \in Actors |-> IF Where(a) = n THEN {} ELSE saving[a]]
    /\ bus' = [bus EXCEPT ![n] = <<>>]
    /\ listening' = listening \cup {n}
    /\ UNCHANGED <<shared, mode, gen, snap, result, ig, history>>
-----------------------------------------------------------------------------
Next ==
    \/ \E r \in Requests : ChatArrives(r) \/ AnswerArrives(r) \/ AgentStarts(r) \/ RunStep(r)
    \/ \E s \in Stops : StopLoads(s) \/ StopStep(s)
    \/ \E a \in Actors : InterruptStep(a)
    \/ \E n \in Nodes : Receives(n) \/ ListenerFails(n) \/ Crash(n)

Spec == Init /\ [][Next]_vars

(* Threads that have started keep running; graph and agent calls end       *)
(* because every model, tool and sub-agent call has a deadline.  Nothing   *)
(* forces a request, a stop, a listener failure or a crash to happen.      *)
Fairness ==
    /\ \A r \in Requests : WF_vars(RunStep(r))
    /\ \A s \in Stops : WF_vars(StopStep(s))
    /\ \A a \in Actors : WF_vars(InterruptStep(a))
    /\ \A n \in Nodes : WF_vars(Receives(n))

FairSpec == Spec /\ Fairness
-----------------------------------------------------------------------------
CallPlaces == {"idle", "interrupting", "active", "resume", "confirm", "confirmed",
               "begin", "register", "bind", "graph", "check", "tool", "save",
               "finally", "unwind", "resave", "stopping", "done", "failed", "lost"}
LivePlaces == {"bind", "graph", "check", "tool", "save", "finally", "unwind"}

(* Type invariant.  A handle is in its node's registry exactly while its   *)
(* request is between execution_registry.begin and the finally block, on   *)
(* every path, the exceptional ones included.                              *)
TypeOK ==
    /\ fence \in Nat
    /\ ckpt \in Checkpoint
    /\ pendingTool \in Interactions
    /\ activeAgent \in {"master", "sub"}
    /\ pc \in [Callers -> CallPlaces]
    /\ mode \in [Requests -> {"run", "active", "react", "resume"}]
    /\ gen \in [Requests -> Nat]
    /\ snap \in [Callers -> Checkpoint]
    /\ result \in [Requests -> Checkpoint]
    /\ registered = {r \in Requests : pc[r] \in LivePlaces}
    /\ bound \subseteq Requests /\ stop \subseteq Requests
    /\ ip \in [Actors -> {"off", "hit", "persist"}]
    /\ ig \in [Actors -> Nat]
    /\ victims \in [Actors -> SUBSET Requests]
    /\ saving \in [Actors -> SUBSET Requests]
    /\ bus \in [Nodes -> Seq(Nat)]
    /\ listening \subseteq Nodes
    /\ overtaken \in BOOLEAN
    /\ dropped \subseteq Requests

(* Of all the requests that have drawn a generation, only the newest one   *)
(* passes the fence check that opens its writes (_is_current in run,       *)
(* run_active and _resume_react_agent): two requests never both believe    *)
(* they may commit without one having committed to it before the other     *)
(* began.                                                                  *)
OnlyNewestCommits ==
    [][\A r \in Requests :
         pc[r] = "check" /\ pc'[r] = "tool"
           => \A q \in Requests \ {r} : gen[q] < gen[r]]_vars

(* The saves that do not ask the fence: resume's second save and the       *)
(* deterministic confirmations.                                            *)
UnfencedSave ==
    \E r \in Requests : pc[r] \in {"resave", "confirm"} /\ pc'[r] # pc[r]

(* The durable checkpoint never goes back to an older generation, whatever *)
(* the interleaving of requests, stops and interrupt callbacks on however  *)
(* many nodes, as long as no request begins in the few statements between  *)
(* another writer's fence check and its write (and apart from the saves    *)
(* above, which have no fence check).                                      *)
CheckpointMonotone ==
    [][~overtaken' /\ ~UnfencedSave => ckpt'.gen >= ckpt.gen]_vars

(* The promise of SessionExecutionFence's docstring: a result that the     *)
(* fence found superseded is discarded before it reaches the checkpoint.   *)
StaleResultDiscarded ==
    [][~overtaken' => \A r \in dropped : ckpt'.gen = gen[r] => ckpt.gen = gen[r]]_vars

(* A user turn that has reached the checkpoint, by a commit or by the      *)
(* callback that saves a stopped request's snapshot, stays in the          *)
(* conversation: a request that supersedes another builds on it.           *)
TurnsNeverLost == [][~overtaken' => ckpt.turns \subseteq ckpt'.turns]_vars

(* When nothing runs, the pending tool never holds a question that the     *)
(* checkpoint has already closed (the next continuation signal would be    *)
(* taken as its answer), overtaking and crashes apart.                     *)
Quiet ==
    /\ \A c \in Callers : pc[c] \in Settled \ {"lost"}
    /\ \A a \in Actors : ip[a] = "off"
NoOrphanedQuestion ==
    ~overtaken /\ Quiet => pendingTool \in {"none", ckpt.pend}

(* Every request that has started leaves the registry again and every       *)
(* interrupter finishes, on every path: in the end no handle is left that   *)
(* a later interrupt would stop in vain, and no listener is stuck.          *)
EventuallyIdle ==
    <>[](registered = {} /\ \A a \in Actors : ip[a] = "off")
=============================================================================
