--------------------------- MODULE CircuitBreaker ---------------------------
(***************************************************************************)
(* The breaker of one monitored tool, shared by every process:             *)
(* ToolCircuitBreaker.call and acall (services/circuit_breaker.py, the     *)
(* branch without custom limits) over CircuitBreakerStore                  *)
(* (infrastructure/stores.py).                                             *)
(*                                                                         *)
(* The failure count, the generation hash and the probe key live in Redis; *)
(* each store method is one atomic command there and nothing holds two of  *)
(* them together, so calls interleave between any two.  Redis is reachable *)
(* and the 24 hour expiry of the state does not occur; the local copies    *)
(* the store keeps for an outage are left out.  Time is counted in ticks,  *)
(* and a call may take any number of them.                                 *)
(***************************************************************************)
EXTENDS Integers, FiniteSets

CONSTANTS
    Monitored,       \* logical tool calls (with all their attempts)
    Threshold,   \* circuit_breaker_failure_threshold
    Initial,     \* circuit_breaker_initial_cooldown_seconds, in ticks
    Multiplier,  \* circuit_breaker_backoff_multiplier
    Ceiling,     \* circuit_breaker_max_cooldown_seconds, in ticks
    Lease,       \* ttl_seconds of the probe key, in ticks
    Free         \* nobody holds the probe key

ASSUME BreakerAssumption ==
    /\ Threshold \in Nat \ {0} /\ Lease \in Nat \ {0}
    /\ Initial \in Nat /\ Multiplier \in Nat \ {0} /\ Ceiling \in Nat
    /\ Free \notin Monitored

VARIABLES
    failures,  \* the failure counter
    gen,       \* field n of the generation hash, 0 when there is no hash
    age,       \* ticks since field at was written, up to Ceiling
    slot,      \* the call whose token the probe key holds
    lease,     \* ticks the probe key has left
    phase,        \* where each call is
    sawOpen,   \* calls whose is_open read was true
    elapsed,   \* the age each call found, up to Ceiling
    overrun    \* history: a probe key expired while its call was at work

breakerVars == <<failures, gen, age, slot, lease, phase, sawOpen, elapsed, overrun>>
-----------------------------------------------------------------------------
(* _compute_cooldown: exponential backoff with a ceiling. *)
Smaller(a, b) == IF a < b THEN a ELSE b
Cooldown(g) == IF g = 0 THEN 0 ELSE Smaller(Initial * Multiplier ^ (g - 1), Ceiling)

AtWork == {"running", "clear", "reset", "count", "open", "release"}
Probing(c) == c \in sawOpen /\ phase[c] \in AtWork

BreakerInit ==
    /\ failures = 0 /\ gen = 0 /\ age = 0
    /\ slot = Free /\ lease = 0
    /\ phase = [c \in Monitored |-> "idle"]
    /\ sawOpen = {} /\ elapsed = [c \in Monitored |-> 0] /\ overrun = FALSE

Moves(c, there) == phase' = [phase EXCEPT ![c] = there]
-----------------------------------------------------------------------------
(* The checks before the tool runs: four reads of the store.               *)

ReadsOpen(c) ==
    /\ phase[c] = "idle"
    /\ sawOpen' = IF gen > 0 THEN sawOpen \cup {c} ELSE sawOpen
    /\ Moves(c, IF gen > 0 THEN "at" ELSE "running")
    /\ UNCHANGED <<failures, gen, age, slot, lease, elapsed, overrun>>

(* is_cooldown_expired: field at, or else the process's own outdated copy. *)
ReadsAt(c) ==
    /\ phase[c] = "at"
    /\ \E e \in IF gen > 0 THEN {age} ELSE 0 .. Ceiling :
         elapsed' = [elapsed EXCEPT ![c] = e]
    /\ Moves(c, "n")
    /\ UNCHANGED <<failures, gen, age, slot, lease, sawOpen, overrun>>

ReadsGeneration(c) ==
    /\ phase[c] = "n"
    /\ Moves(c, IF elapsed[c] >= Cooldown(gen) THEN "probe" ELSE "rejected")
    /\ UNCHANGED <<failures, gen, age, slot, lease, sawOpen, elapsed, overrun>>

(* try_acquire_probe: SET NX EX. *)
Unguarded == TRUE
SlotIsFree == slot = Free

Acquires(c) ==
    /\ phase[c] = "probe"
    /\ IF SlotIsFree
       THEN slot' = c /\ lease' = Lease /\ Moves(c, "running")
       ELSE Moves(c, "rejected") /\ UNCHANGED <<slot, lease>>
    /\ UNCHANGED <<failures, gen, age, sawOpen, elapsed, overrun>>
-----------------------------------------------------------------------------
(* The tool returns: a probe clears the open state, then every success     *)
(* clears the failure count.                                               *)

Succeeds(c) ==
    /\ phase[c] = "running"
    /\ Moves(c, IF c \in sawOpen THEN "clear" ELSE "reset")
    /\ UNCHANGED <<failures, gen, age, slot, lease, sawOpen, elapsed, overrun>>

Clears(c) ==
    /\ phase[c] = "clear"
    /\ gen' = 0 /\ age' = 0
    /\ Moves(c, "reset")
    /\ UNCHANGED <<failures, slot, lease, sawOpen, elapsed, overrun>>

Finish(c) == Moves(c, IF c \in sawOpen THEN "release" ELSE "done")

Resets(c) ==
    /\ phase[c] = "reset"
    /\ failures' = 0
    /\ Finish(c)
    /\ UNCHANGED <<gen, age, slot, lease, sawOpen, elapsed, overrun>>

(* The tool raises: a failed probe opens the next generation at once, any  *)
(* other call only when its own increment reaches the threshold.           *)

Fails(c) ==
    /\ phase[c] = "running"
    /\ Moves(c, IF c \in sawOpen THEN "open" ELSE "count")
    /\ UNCHANGED <<failures, gen, age, slot, lease, sawOpen, elapsed, overrun>>

Above(n) == n > Threshold
Reached(n) == n >= Threshold

Counts(c) ==
    /\ phase[c] = "count"
    /\ failures' = failures + 1
    /\ Moves(c, IF Reached(failures + 1) THEN "open" ELSE "done")
    /\ UNCHANGED <<gen, age, slot, lease, sawOpen, elapsed, overrun>>

(* open_with_next_generation: HINCRBY and HSET in one transaction. *)
Opens(c) ==
    /\ phase[c] = "open"
    /\ gen' = gen + 1 /\ age' = 0
    /\ Finish(c)
    /\ UNCHANGED <<failures, slot, lease, sawOpen, elapsed, overrun>>

(* release_probe deletes the key only if it still holds the call's token. *)
AnyToken(c) == slot # Free
OwnToken(c) == slot = c

Releases(c) ==
    /\ phase[c] = "release"
    /\ slot' = IF OwnToken(c) THEN Free ELSE slot
    /\ lease' = IF OwnToken(c) THEN 0 ELSE lease
    /\ Moves(c, "done")
    /\ UNCHANGED <<failures, gen, age, sawOpen, elapsed, overrun>>

(* acall is cancelled: only the finally block runs. *)
Cancelled(c) ==
    /\ phase[c] = "running"
    /\ Finish(c)
    /\ UNCHANGED <<failures, gen, age, slot, lease, sawOpen, elapsed, overrun>>

(* The process of a call dies: what it had written stays. *)
ProcessDies(c) ==
    /\ phase[c] \in AtWork \cup {"at", "n", "probe"}
    /\ Moves(c, "lost")
    /\ UNCHANGED <<failures, gen, age, slot, lease, sawOpen, elapsed, overrun>>

(* A tick ages the open state and the probe key, which Redis expires.      *)
NoExpiry == FALSE
KeyExpires == lease = 1

Tick ==
    /\ (gen > 0 /\ age < Ceiling) \/ slot # Free
    /\ age' = IF gen > 0 THEN Smaller(age + 1, Ceiling) ELSE 0
    /\ slot' = IF KeyExpires THEN Free ELSE slot
    /\ lease' = IF lease > 0 THEN lease - 1 ELSE 0
    /\ overrun' = (overrun \/ (lease = 1 /\ phase[slot] \in AtWork))
    /\ UNCHANGED <<failures, gen, phase, sawOpen, elapsed>>

CallStep(c) ==
    \/ ReadsOpen(c) \/ ReadsAt(c) \/ ReadsGeneration(c) \/ Acquires(c)
    \/ Succeeds(c) \/ Cancelled(c) \/ Clears(c) \/ Resets(c)
    \/ Fails(c) \/ Counts(c) \/ Opens(c) \/ Releases(c)

BreakerNext == Tick \/ \E c \in Monitored : CallStep(c) \/ ProcessDies(c)

BreakerSpec == BreakerInit /\ [][BreakerNext]_breakerVars

(* Time passes; nothing is assumed of the calls, which may die or hang. *)
FairBreakerSpec == BreakerSpec /\ WF_breakerVars(Tick)
-----------------------------------------------------------------------------
BreakerTypeOK ==
    /\ failures \in Nat /\ gen \in Nat
    /\ age \in 0 .. Ceiling
    /\ slot \in Monitored \cup {Free}
    /\ lease \in 0 .. Lease /\ (lease = 0 <=> slot = Free)
    /\ phase \in [Monitored -> {"idle", "at", "n", "probe", "rejected", "done", "lost"} \cup AtWork]
    /\ sawOpen \subseteq Monitored
    /\ elapsed \in [Monitored -> 0 .. Ceiling]
    /\ overrun \in BOOLEAN

(* Half-open lets one call through: two probes are never at work together, *)
(* however their reads of the store interleave, as long as no probe        *)
(* outlives the lease on its key.                                          *)
OneProbe ==
    ~overrun => \A c, d \in Monitored : Probing(c) /\ Probing(d) => c = d

(* What try_acquire_probe's docstring promises: a single half-open slot.   *)
SingleHalfOpenSlot ==
    \A c, d \in Monitored : phase[c] = "running" /\ phase[d] = "running"
                        /\ {c, d} \subseteq sawOpen => c = d

(* Only the expiry or the probe that holds the key frees it: a probe that  *)
(* outlived its lease never throws away the key of the next one.           *)
FreedByHolder ==
    [][slot # Free /\ slot' = Free => lease = 1 \/ phase[slot] = "release"]_breakerVars

(* When every call is over and none has died, a failure count at the       *)
(* threshold means that the breaker is open, whatever the interleaving of  *)
(* failing calls with a probe that clears the state in two commands.       *)
ClosedBelowThreshold ==
    (\A c \in Monitored : phase[c] \in {"idle", "done", "rejected"})
        => (failures >= Threshold => gen > 0)

(* The probe key never stays with a call that died or hangs: some later    *)
(* call can always probe the tool again.                                   *)
SlotComesFree == slot # Free ~> slot = Free
=============================================================================
