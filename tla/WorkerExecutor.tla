--------------------------- MODULE WorkerExecutor ---------------------------
(***************************************************************************)
(* The supervised worker process of one domain agent:                      *)
(* ProcessSubAgentExecutor.execute, _ensure_worker, _discard_worker and    *)
(* close, with _worker_main in the child (runtime/process_executor.py).    *)
(*                                                                         *)
(* Callers are threads of the application process, one at a time inside    *)
(* the agent's lock; close takes no lock.  A worker has its own request    *)
(* and response queues, which nobody reads once it is discarded.  All      *)
(* sub-agent calls of one user request carry the same request_id.          *)
(* Progress events and their queue are left out.                           *)
(***************************************************************************)
EXTENDS Naturals, Sequences, FiniteSets

CONSTANTS
    Callers,      \* calls of execute
    RequestId,    \* the request_id each call puts in its envelope
    MaxRestarts,  \* subagent_worker_max_restarts_per_window
    Nobody, Quit  \* no caller, and the None that ends a worker

ASSUME WorkerAssumption ==
    /\ RequestId \in [Callers -> Nat] /\ MaxRestarts \in Nat \ {0}
    /\ Nobody \notin Callers /\ Quit \notin Callers /\ Quit # Nobody
    /\ IsFiniteSet(Callers)

VARIABLES
    lock,      \* the caller inside the agent's lock
    current,   \* the worker in _workers, 0 when there is none
    launched,  \* workers ever started; they are numbered
    live,      \* workers whose process is alive
    recent,    \* launches inside the restart window
    inbox,     \* request queue of each worker
    busy,      \* the call each worker works on
    outbox,    \* response queue of each worker
    shut,      \* workers whose queues close() has closed
    pc,        \* where each call is
    mine,      \* the worker each call uses
    answer,    \* the call whose response it returned
    closer,    \* where close() is
    closing,   \* the worker close() is shutting down
    slipped    \* history: a worker was launched for a call older than close()

queues == <<inbox, busy, outbox>>
pool == <<current, launched, live, recent, shut>>
ending == <<closer, closing, slipped>>
vars == <<lock, pool, queues, pc, mine, answer, ending>>
-----------------------------------------------------------------------------
Workers == 1 .. Cardinality(Callers)
Ended == {"answered", "cancelled", "crashed", "timeout", "refused"}

Init ==
    /\ lock = Nobody /\ current = 0 /\ launched = 0 /\ live = {} /\ recent = 0
    /\ inbox = [w \in Workers |-> <<>>]
    /\ busy = [w \in Workers |-> Nobody]
    /\ outbox = [w \in Workers |-> <<>>]
    /\ shut = {}
    /\ pc = [c \in Callers |-> "idle"]
    /\ mine = [c \in Callers |-> 0]
    /\ answer = [c \in Callers |-> Nobody]
    /\ closer = "open" /\ closing = 0 /\ slipped = FALSE

(* _closed is set by the first statement of close(). *)
closed == closer # "open"

Goto(c, there) == pc' = [pc EXCEPT ![c] = there]

(* Leaving execute releases the lock. *)
StillHeld(c) == lock
Released(c) == IF lock = c THEN Nobody ELSE lock
Leave(c, how) == Goto(c, how) /\ lock' = Released(c)

(* _discard_worker(terminate=True), or for a dead process: the worker that *)
(* is registered for the agent goes, process and queues.                   *)
Kept == UNCHANGED <<current, live>>
Discarded == current' = 0 /\ live' = live \ {current}
-----------------------------------------------------------------------------
Arrives(c) ==
    /\ pc[c] = "idle"
    /\ Goto(c, "queued")
    /\ UNCHANGED <<lock, pool, queues, mine, answer, ending>>

Unlocked(c) == TRUE
LockIsFree(c) == lock = Nobody

Enters(c) ==
    /\ pc[c] = "queued" /\ LockIsFree(c)
    /\ IF closed
       THEN Goto(c, "refused") /\ UNCHANGED lock
       ELSE Goto(c, "ensure") /\ lock' = c
    /\ UNCHANGED <<pool, queues, mine, answer, ending>>

(* _ensure_worker: the registered worker if it is alive ... *)
Reuses(c) ==
    /\ pc[c] = "ensure" /\ current \in live
    /\ mine' = [mine EXCEPT ![c] = current]
    /\ Goto(c, "send")
    /\ UNCHANGED <<lock, pool, queues, answer, ending>>

OneTooMany == recent > MaxRestarts
TooMany == recent >= MaxRestarts

(* ... or else a new process, unless too many were launched lately ... *)
Launches(c) ==
    /\ pc[c] = "ensure" /\ current \notin live
    /\ current' = 0
    /\ IF TooMany
       THEN Leave(c, "crashed") /\ UNCHANGED <<launched, live, recent, mine>>
       ELSE /\ recent' = recent + 1
            /\ launched' = launched + 1
            /\ live' = live \cup {launched + 1}
            /\ mine' = [mine EXCEPT ![c] = launched + 1]
            /\ Goto(c, "starting") /\ UNCHANGED lock
    /\ UNCHANGED <<queues, shut, answer, ending>>

(* ... which is registered only when it has reported that it is ready. *)
BecomesReady(c) ==
    /\ pc[c] = "starting" /\ mine[c] \in live
    /\ current' = mine[c]
    /\ slipped' = (slipped \/ closed)
    /\ Goto(c, "send")
    /\ UNCHANGED <<lock, launched, live, recent, shut, queues, mine, answer,
                   closer, closing>>

LeftRunning(c) == live
Terminated(c) == live \ {mine[c]}

StartFails(c) ==
    /\ pc[c] = "starting"
    /\ live' = Terminated(c)
    /\ Leave(c, "crashed")
    /\ UNCHANGED <<current, launched, recent, shut, queues, mine, answer, ending>>

Sends(c) ==
    /\ pc[c] = "send"
    /\ IF mine[c] \in shut
       THEN Leave(c, "crashed") /\ UNCHANGED inbox
       ELSE /\ inbox' = [inbox EXCEPT ![mine[c]] = Append(@, c)]
            /\ Goto(c, "waiting") /\ UNCHANGED lock
    /\ UNCHANGED <<pool, busy, outbox, mine, answer, ending>>
-----------------------------------------------------------------------------
(* The loop of _execute: stop flag, process, deadline, response.  The flag *)
(* is that of the session's newest execution; it may be set at any moment. *)

SeesStop(c) ==
    /\ pc[c] = "waiting"
    /\ Discarded
    /\ Leave(c, "cancelled")
    /\ UNCHANGED <<launched, recent, shut, queues, mine, answer, ending>>

SeesDeadWorker(c) ==
    /\ pc[c] = "waiting" /\ mine[c] \notin live
    /\ Discarded
    /\ Leave(c, "crashed")
    /\ UNCHANGED <<launched, recent, shut, queues, mine, answer, ending>>

OnTimeout == Discarded

TimesOut(c) ==
    /\ pc[c] = "waiting"
    /\ OnTimeout
    /\ Leave(c, "timeout")
    /\ UNCHANGED <<launched, recent, shut, queues, mine, answer, ending>>

(* A response with another request_id is dropped. *)
Receives(c) ==
    /\ pc[c] = "waiting" /\ mine[c] \notin shut /\ outbox[mine[c]] # <<>>
    /\ LET d == Head(outbox[mine[c]]) IN
       IF RequestId[d] = RequestId[c]
       THEN answer' = [answer EXCEPT ![c] = d] /\ Leave(c, "answered")
       ELSE UNCHANGED <<answer, lock, pc>>
    /\ outbox' = [outbox EXCEPT ![mine[c]] = Tail(@)]
    /\ UNCHANGED <<pool, inbox, busy, mine, ending>>

FindsQueueShut(c) ==
    /\ pc[c] = "waiting" /\ mine[c] \in shut
    /\ Leave(c, "crashed")
    /\ UNCHANGED <<pool, queues, mine, answer, ending>>

CallerStep(c) ==
    \/ Enters(c) \/ Reuses(c) \/ Launches(c) \/ BecomesReady(c) \/ StartFails(c)
    \/ Sends(c) \/ SeesStop(c) \/ SeesDeadWorker(c) \/ TimesOut(c) \/ Receives(c)
    \/ FindsQueueShut(c)
-----------------------------------------------------------------------------
(* _worker_main: one envelope after the other, until None. *)

Takes(w) ==
    /\ w \in live /\ busy[w] = Nobody /\ inbox[w] # <<>>
    /\ IF Head(inbox[w]) = Quit
       THEN live' = live \ {w} /\ UNCHANGED busy
       ELSE busy' = [busy EXCEPT ![w] = Head(inbox[w])] /\ UNCHANGED live
    /\ inbox' = [inbox EXCEPT ![w] = Tail(@)]
    /\ UNCHANGED <<lock, current, launched, recent, shut, outbox, pc, mine, answer, ending>>

Responds(w) ==
    /\ w \in live /\ busy[w] # Nobody
    /\ outbox' = [outbox EXCEPT ![w] = Append(@, busy[w])]
    /\ busy' = [busy EXCEPT ![w] = Nobody]
    /\ UNCHANGED <<lock, pool, inbox, pc, mine, answer, ending>>

WorkerDies(w) ==
    /\ w \in live
    /\ live' = live \ {w}
    /\ UNCHANGED <<lock, current, launched, recent, shut, queues, pc, mine, answer, ending>>

WindowPasses ==
    /\ recent > 0
    /\ recent' = recent - 1
    /\ UNCHANGED <<lock, current, launched, live, shut, queues, pc, mine, answer, ending>>
-----------------------------------------------------------------------------
(* close(): no call enters any more, the registered worker is asked to     *)
(* quit, and terminated when it has not done so within its grace period;   *)
(* then the registry is emptied.                                           *)

Closes ==
    /\ closer = "open"
    /\ closer' = "list"
    /\ UNCHANGED <<lock, pool, queues, pc, mine, answer, closing, slipped>>

CloseAsks ==
    /\ closer = "list"
    /\ closing' = current /\ current' = 0
    /\ IF current = 0
       THEN closer' = "clear" /\ UNCHANGED inbox
       ELSE closer' = "grace" /\ inbox' = [inbox EXCEPT ![current] = Append(@, Quit)]
    /\ UNCHANGED <<lock, launched, live, recent, shut, busy, outbox, pc, mine, answer, slipped>>

CloseEnds ==
    /\ closer = "grace"
    /\ live' = live \ {closing}
    /\ shut' = shut \cup {closing}
    /\ closer' = "clear"
    /\ UNCHANGED <<lock, current, launched, recent, queues, pc, mine, answer, closing, slipped>>

CloseClears ==
    /\ closer = "clear"
    /\ current' = 0
    /\ closer' = "done"
    /\ UNCHANGED <<lock, launched, live, recent, shut, queues, pc, mine, answer, closing, slipped>>

CloseStep == CloseAsks \/ CloseEnds \/ CloseClears

Next ==
    \/ \E c \in Callers : Arrives(c) \/ CallerStep(c)
    \/ \E w \in Workers : Takes(w) \/ Responds(w) \/ WorkerDies(w)
    \/ WindowPasses \/ Closes \/ CloseStep

Spec == Init /\ [][Next]_vars

(* Threads keep running, a deadline passes, and close() goes to its end.   *)
(* Nothing is assumed of the workers.                                      *)
FairSpec == Spec /\ WF_vars(CloseStep) /\ \A c \in Callers : WF_vars(CallerStep(c))
-----------------------------------------------------------------------------
TypeOK ==
    /\ lock \in Callers \cup {Nobody}
    /\ launched \in 0 .. Cardinality(Callers)
    /\ current \in 0 .. launched /\ closing \in 0 .. launched
    /\ live \subseteq 1 .. launched /\ shut \subseteq 1 .. launched
    /\ recent \in 0 .. MaxRestarts
    /\ inbox \in [Workers -> Seq(Callers \cup {Quit})]
    /\ busy \in [Workers -> Callers \cup {Nobody}]
    /\ outbox \in [Workers -> Seq(Callers)]
    /\ pc \in [Callers -> Ended \cup {"idle", "queued", "ensure", "starting", "send", "waiting"}]
    /\ mine \in [Callers -> 0 .. launched]
    /\ answer \in [Callers -> Callers \cup {Nobody}]
    /\ closer \in {"open", "list", "grace", "clear", "done"} /\ slipped \in BOOLEAN

(* Every call returns the response to its own envelope, although the calls *)
(* of one user request share the request_id the responses are matched by:  *)
(* no response of an abandoned call is ever left for the next.             *)
OwnResponse == \A c \in Callers : pc[c] = "answered" => answer[c] = c

(* A call that was given up (deadline, stop, crash) leaves no process      *)
(* working for it, except one that close() is already shutting down: the   *)
(* sub-agent writes nothing after its caller has been told that it failed. *)
(* A worker that was launched across close() is not covered: close() drops *)
(* it from the registry alive.                                             *)
NoAbandonedWork ==
    ~slipped => \A w \in live \ {closing} :
        busy[w] # Nobody => pc[busy[w]] = "waiting" /\ mine[busy[w]] = w

(* Once close() and the calls inside have ended, no worker process is left *)
(* alive, unless a call that was already past the closed check launched    *)
(* one meanwhile (close takes no lock).                                    *)
NoWorkerLeft ==
    /\ closer = "done" /\ ~slipped
    /\ \A c \in Callers : pc[c] \in Ended \cup {"idle", "queued"}
    => live = {}

(* Every call that has started ends and gives the lock back, whatever the  *)
(* workers do: they may hang, die or answer late at any moment.            *)
EveryCallEnds ==
    <>[](lock = Nobody /\ \A c \in Callers : pc[c] \in Ended \cup {"idle"})
=============================================================================
