--------------------------- MODULE ToolExecution ---------------------------
(***************************************************************************)
(* The wrapper around every agent tool: ResilientToolHook.execute and      *)
(* aexecute (runtime/resilient_tool.py) with the soft timeout of call_sync *)
(* (runtime/retry.py), the effects of tool_policy (runtime/tool_policy.py) *)
(* and the idempotency record of ToolExecutionRepository                   *)
(* (infrastructure/repositories.py).                                       *)
(*                                                                         *)
(* The calls of an idempotent write all have the same idempotency key (the *)
(* same request, agent, tool and arguments, on any worker process); the    *)
(* other calls have none.  A tool that exceeds its timeout keeps running   *)
(* in a thread nobody waits for: it may still apply its effect, or be      *)
(* cancelled (the asynchronous path) before it does.                       *)
(*                                                                         *)
(* The circuit breaker guards none of the writing tools; CircuitBreaker    *)
(* models it.                                                              *)
(***************************************************************************)
EXTENDS Naturals, FiniteSets

CONSTANTS
    Calls,       \* executions of wrapped tools
    Effects,     \* the tool effects that occur, a subset of AllEffects
    MaxAttempts  \* tool_default_max_attempts

AllEffects == {"READ_ONLY", "IDEMPOTENT_WRITE", "NON_IDEMPOTENT_WRITE"}

ASSUME ToolAssumption == Effects \subseteq AllEffects /\ MaxAttempts \in Nat \ {0}

VARIABLES
    effect,  \* the policy of the tool each call executes
    row,     \* status of the tool_execution_record with the shared key
    pc,      \* where each call is
    owner,   \* calls whose create_in_progress inserted the row
    tries,   \* attempts each call has started
    hot,     \* calls whose present attempt has applied its effect
    late,    \* attempts given up that have not yet applied theirs
    applied, \* how often the effect of each call was applied
    timely   \* FALSE once the last error of a call is a timeout

vars == <<effect, row, pc, owner, tries, hot, late, applied, timely>>
-----------------------------------------------------------------------------
Keyed(c) == effect[c] = "IDEMPOTENT_WRITE"
Once(c) == effect[c] = "NON_IDEMPOTENT_WRITE"
Ended == {"cached", "conflict", "ok", "structured", "error", "unknown", "lost"}
Goto(c, there) == pc' = [pc EXCEPT ![c] = there]

Init ==
    /\ effect \in [Calls -> Effects]
    /\ row = "absent"
    /\ pc = [c \in Calls |-> "idle"]
    /\ owner = {}
    /\ tries = [c \in Calls |-> 0]
    /\ hot = {}
    /\ late = [c \in Calls |-> 0]
    /\ applied = [c \in Calls |-> 0]
    /\ timely = [c \in Calls |-> TRUE]
-----------------------------------------------------------------------------
(* _idempotency: look the key up, then try to insert it; the unique key    *)
(* makes the loser of a race insert nothing.                               *)

Arrives(c) ==
    /\ pc[c] = "idle"
    /\ Goto(c, CASE ~Keyed(c) -> "next"
                 [] Keyed(c) /\ row = "absent" -> "create"
                 [] OTHER -> "load")
    /\ UNCHANGED <<effect, row, owner, tries, hot, late, applied, timely>>

NoUniqueKey == TRUE
KeyIsNew == row = "absent"

Creates(c) ==
    /\ pc[c] = "create"
    /\ row' = IF KeyIsNew THEN "IN_PROGRESS" ELSE row
    /\ owner' = IF KeyIsNew THEN owner \cup {c} ELSE owner
    /\ Goto(c, "load")
    /\ UNCHANGED <<effect, tries, hot, late, applied, timely>>

(* _load_cached: a stored result is returned, otherwise only the owner     *)
(* goes on.                                                                *)
AnyRow == row # "absent"
Stored == row = "SUCCEEDED"

Loads(c) ==
    /\ pc[c] = "load"
    /\ Goto(c, CASE c \in owner -> "next"
                 [] c \notin owner /\ Stored -> "cached"
                 [] OTHER -> "conflict")
    /\ UNCHANGED <<effect, row, owner, tries, hot, late, applied, timely>>
-----------------------------------------------------------------------------
(* _attempts and _aattempts. *)

(* retryable, and the attempts of the policy: one-shot for other effects. *)
AnyRetry(c) == tries[c] < MaxAttempts
OneMore(c) == effect[c] # "NON_IDEMPOTENT_WRITE" /\ tries[c] <= MaxAttempts
MayRetry(c) == effect[c] # "NON_IDEMPOTENT_WRITE" /\ tries[c] < MaxAttempts

(* The request's deadline has passed before an attempt. *)
DeadlinePassed(c) ==
    /\ pc[c] = "next"
    /\ timely' = [timely EXCEPT ![c] = FALSE]
    /\ Goto(c, "fail")
    /\ UNCHANGED <<effect, row, owner, tries, hot, late, applied>>

Attempts(c) ==
    /\ pc[c] = "next"
    /\ tries' = [tries EXCEPT ![c] = @ + 1]
    /\ hot' = hot \ {c}
    /\ Goto(c, "running")
    /\ UNCHANGED <<effect, row, owner, late, applied, timely>>

(* The tool does what it is for (or finds that it cannot), once per attempt. *)
Applies(c) ==
    /\ pc[c] = "running" /\ c \notin hot
    /\ hot' = hot \cup {c}
    /\ applied' = [applied EXCEPT ![c] = @ + 1]
    /\ UNCHANGED <<effect, row, pc, owner, tries, late, timely>>

Returns(c) ==
    /\ pc[c] = "running" /\ c \in hot
    /\ Goto(c, IF Keyed(c) THEN "complete" ELSE "ok")
    /\ UNCHANGED <<effect, row, owner, tries, hot, late, applied, timely>>

(* An error that is not transient, the last attempt, or a deadline nearer  *)
(* than the next delay ends the loop.                                      *)
AfterError(c) ==
    \/ MayRetry(c) /\ Goto(c, "next")
    \/ Goto(c, "fail")

Raises(c) ==
    /\ pc[c] = "running"
    /\ timely' = [timely EXCEPT ![c] = TRUE]
    /\ AfterError(c)
    /\ UNCHANGED <<effect, row, owner, tries, hot, late, applied>>

(* A structured temporary failure is retried like an error, and returned   *)
(* when the attempts are used up.  Only read-only tools return one.        *)
FailsStructured(c) ==
    /\ pc[c] = "running" /\ effect[c] = "READ_ONLY"
    /\ \/ MayRetry(c) /\ Goto(c, "next")
       \/ Goto(c, "structured")
    /\ UNCHANGED <<effect, row, owner, tries, hot, late, applied, timely>>

(* call_sync gives up waiting; the attempt goes on by itself. *)
TimesOut(c) ==
    /\ pc[c] = "running"
    /\ timely' = [timely EXCEPT ![c] = FALSE]
    /\ late' = [late EXCEPT ![c] = IF c \in hot THEN @ ELSE @ + 1]
    /\ AfterError(c)
    /\ UNCHANGED <<effect, row, owner, tries, hot, applied>>

AppliesLate(c) ==
    /\ late[c] > 0
    /\ late' = [late EXCEPT ![c] = @ - 1]
    /\ applied' = [applied EXCEPT ![c] = @ + 1]
    /\ UNCHANGED <<effect, row, pc, owner, tries, hot, timely>>

EndsLate(c) ==
    /\ late[c] > 0
    /\ late' = [late EXCEPT ![c] = @ - 1]
    /\ UNCHANGED <<effect, row, pc, owner, tries, hot, applied, timely>>
-----------------------------------------------------------------------------
(* ToolExecutionRepository.complete and fail; the error of a call without  *)
(* key, or the one of complete itself, just propagates.                    *)

Completes(c) ==
    /\ pc[c] = "complete"
    /\ row' = "SUCCEEDED"
    /\ Goto(c, "ok")
    /\ UNCHANGED <<effect, owner, tries, hot, late, applied, timely>>

CompleteRaises(c) ==
    /\ pc[c] = "complete"
    /\ Goto(c, "error")
    /\ UNCHANGED <<effect, row, owner, tries, hot, late, applied, timely>>

(* A non-idempotent write that timed out may have been executed. *)
PlainError(c) == "error"
Outcome(c) == IF Once(c) /\ ~timely[c] THEN "unknown" ELSE "error"

FailsCall(c) ==
    /\ pc[c] = "fail"
    /\ row' = IF Keyed(c) THEN "FAILED" ELSE row
    /\ Goto(c, Outcome(c))
    /\ UNCHANGED <<effect, owner, tries, hot, late, applied, timely>>

(* The worker process dies with its threads. *)
Dies(c) ==
    /\ pc[c] \notin Ended \cup {"idle"}
    /\ Goto(c, "lost")
    /\ late' = [late EXCEPT ![c] = 0]
    /\ UNCHANGED <<effect, row, owner, tries, hot, applied, timely>>

Next ==
    \E c \in Calls :
        \/ Arrives(c) \/ Creates(c) \/ Loads(c)
        \/ DeadlinePassed(c) \/ Attempts(c) \/ Applies(c) \/ Returns(c)
        \/ Raises(c) \/ FailsStructured(c) \/ TimesOut(c)
        \/ AppliesLate(c) \/ EndsLate(c)
        \/ Completes(c) \/ CompleteRaises(c) \/ FailsCall(c) \/ Dies(c)

Spec == Init /\ [][Next]_vars
-----------------------------------------------------------------------------
(* Every attempt that was given up is one that was started. *)
TypeOK ==
    /\ effect \in [Calls -> Effects]
    /\ row \in {"absent", "IN_PROGRESS", "SUCCEEDED", "FAILED"}
    /\ pc \in [Calls -> Ended \cup {"idle", "create", "load", "next", "running",
                                    "complete", "fail"}]
    /\ owner \subseteq {c \in Calls : Keyed(c)}
    /\ tries \in [Calls -> 0 .. MaxAttempts]
    /\ hot \subseteq Calls
    /\ late \in [Calls -> 0 .. MaxAttempts]
    /\ applied \in [Calls -> Nat]
    /\ \A c \in Calls : late[c] + applied[c] <= tries[c]
    /\ timely \in [Calls -> BOOLEAN]

(* Of all the calls with the same idempotency key, on whatever processes   *)
(* and however their lookups and inserts interleave, one executes the tool *)
(* at most, crashes included: the unique key is the gate.                  *)
OneExecutor ==
    \A c, d \in Calls : Keyed(c) /\ Keyed(d) /\ tries[c] > 0 /\ tries[d] > 0 => c = d

(* The cached result a call returns is that of a tool which was executed:  *)
(* never of a call still running, failed, or killed before its effect.     *)
CachedWasApplied ==
    \A c \in Calls : pc[c] = "cached" => \E d \in Calls : Keyed(d) /\ applied[d] > 0

(* A non-idempotent write is applied once at most, timeouts, errors and    *)
(* threads left behind included.                                           *)
AppliedAtMostOnce == \A c \in Calls : Once(c) => applied[c] <= 1

(* After a non-idempotent write has ended with an ordinary error, nothing  *)
(* of it happens any more: when an attempt may still be applied by a       *)
(* thread left behind, the caller is told that the outcome is unknown.     *)
ErrorIsFinal ==
    [][\A c \in Calls : Once(c) /\ pc[c] = "error" => applied'[c] = applied[c]]_vars

(* What ToolIdempotencyConflict says of itself: the call is refused        *)
(* because another worker owns the key at that moment (one that was killed *)
(* may count as owning it).                                                *)
ConflictMeansOwner ==
    [][\A c \in Calls :
         pc[c] = "load" /\ pc'[c] = "conflict"
           => \E d \in owner : pc[d] \notin Ended \ {"lost"}]_vars
=============================================================================
