# Verification of the GoGo travel assistant's core

TLA+ models of the parts of the backend in which several threads, processes and
requests meet: what they share, in which order they touch it, and what is left
when one of them is stopped, times out or dies. TLC checks the models on small
instances; TLAPS proves the most important results for every instance.

`PROJECT.json` lists the components, the runs with their properties and mutants,
the source lines each definition models (`map`), the disagreements found between
the code and what it says of itself (`findings`), and the hazards the properties
are aimed at. Source paths below are relative to `src/backend/`.

## The system

A FastAPI application, possibly several instances behind a load balancer, lets a
user plan and book business trips in a chat. A message runs a pipeline (question
rewriting, intent recognition, a master agent) that calls domain agents, each in
a worker process of its own, which call tools. Orders, approvals, bookings and
session checkpoints are in a database; generations, active agent, pending
question, circuit breakers and the interrupt channel are in Redis.

| Component | State | Operations | Hard part |
|---|---|---|---|
| Session execution: `services/travel_service.py`, `memory/execution.py`, `services/interrupt_broadcast.py`, `SessionExecutionFence` in `infrastructure/stores.py`, `memory/session.py` | fence counter, checkpoint, pending tool, active agent (shared); registry, stop flags, callbacks (per node); broadcast channel | `run`, `run_active`, `resume`, `_resume_react_agent`, `interrupt`, `interrupt_previous`, listener | two requests of a session on two nodes, a stop button, callbacks on foreign threads, a node that dies |
| Circuit breaker: `services/circuit_breaker.py`, `CircuitBreakerStore` | failure count, generation hash, probe key with a lease (Redis) | `call`, `acall` | four separate reads before a decision, leases that expire under their holder |
| Tool wrapper: `runtime/resilient_tool.py`, `runtime/retry.py`, `ToolExecutionRepository` | idempotency records, threads left behind | `execute`, `aexecute` | retries, soft timeouts, a race for a unique key |
| Orders and approvals: `services/order_service.py`, `tools/order.py` | `travel_order`, `approval_record` | submit, cancel, modify, decide | flows of three or four transactions without a lock |
| Worker processes: `runtime/process_executor.py` | registered worker per agent, its queues, restart history | `execute`, `close`, the worker's loop | deadline, stop, crash and shutdown against a late answer |
| Conflict gate of orders: `tools/order.py`, `tools/conflict.py`, `services/city_transit_time.py` | the user's orders | duplicate look-up, conflict report, submit, modify | look, then write, without a lock; boundaries of dates |
| Itinerary plan graph: `workflow/itinerary_plan_graph.py`, `services/plan_notebook.py`, `services/remediation_service.py` | durable record of stage, repair count, candidates and exclusions; plan store; notebook in memory | restore, eight stages, review and repair loop | an interrupted plan that is restored; a plan store shared between trips; the repair bound |
| Candidate search, planner, review: `services/candidate_search.py`, `tools/planner.py`, `tools/review.py`, `services/preference_scoring.py` | captured searches, exclusions, score overrides | search, merge, prune, score, choose, review, arbitrate | what survives pruning and merging; a veto against a model's opinion |
| Bookings: `services/booking_cancellation.py`, `services/tool_result_side_effects.py` | `booking_record`, the platform's order | book, record, cancel, delete | platform first, then the database; find, then create; answers in layers |
| API keys: `services/api_key_service.py` | cache and database | get, save, delete | cache-aside against concurrent writes |
| RollingGo login: `services/rgh_isolation.py` | token in Redis and in a file, watcher threads | prepare, after a command | watcher against logout |
| MCP clients: `infrastructure/mcp.py` | pool of sessions | call, close | an `await` between look-up and insert |
| Local caches: `memory/cache.py` | bounded ordered map | put, get, remove | size and expiry |
| Pipeline, agents, intent, retrieval, chat storage, authentication, live data, web client | language models, storage, I/O | | left outside |

How they meet: a session request holds an execution handle whose stop flag the
worker executor polls; the worker's agent calls wrapped tools; a wrapped tool
asks the breaker and the idempotency record; the order tools and the HTTP
endpoints call the order service on the same rows, after the conflict gate or,
for the endpoint that creates an order, without it; a confirmation in `resume`
calls the service as well. The itinerary agent runs the plan graph, whose stages
search for candidates (also those captured from earlier shell commands), plan,
review and repair; the results of booking commands become booking records, which
the cancellation service and raw commands mark.

What makes each of them correct: the newest request of a session is the one
whose result stays, and no user turn is lost; one probe at a time, and never a
breaker that cannot be probed again; one execution per idempotency key, and an
honest answer about a write that may have happened; no order approved that
nobody approved, and no two orders that conflict unseen; the answer of a worker
goes to the call that asked; a plan that is resumed where it stood, repaired
twice at most, and never shown over a failed hard check untried; a booking shown
as cancelled only when it is.

## Modules

| Module | Models | Instance for TLC | Proofs |
|---|---|---|---|
| `SessionExecution` | session execution | `MCSessionExecution` | `SessionExecutionProofs` |
| `CircuitBreaker` | shared circuit breaker | `MCCircuitBreaker` | `ToolCallProofs` |
| `ToolExecution` | tool wrapper and idempotency record | `MCToolExecution` | `ToolCallProofs` |
| `TravelOrders` | orders and approvals | `MCTravelOrders` | `TravelOrdersProofs` |
| `WorkerExecutor` | worker process of one agent | `MCWorkerExecutor` | `WorkerExecutorProofs` |
| `TripGate` | conflict gate of travel orders | `MCTripGate` | `TripGateProofs` |
| `Bookings` | booking records and the platform | `MCBookings` | `BookingsProofs` |
| `PlanGraph` | stages, checkpoints, restore of the plan graph | `MCPlanGraph` | `PlanGraphProofs` |
| `DurablePlan` | abstract: what the durable record promises | (property of `PlanGraph`) | |
| `PlanningRounds` | search, plan, review and repair of one plan | `MCPlanningRounds` | `PlanningProofs` |
| `CandidateSearch`, `Planner`, `ItineraryReview`, `Remediation` | the algorithms `PlanningRounds` composes | | `PlanningProofs` |

In all of them a step is what one thread does between two accesses to state it
shares, and `pc` says where a call is. History variables (declared as such) only
record; no guard reads them.

### SessionExecution

`fence` is the Redis counter, `ckpt` the durable checkpoint, reduced to the set
of user turns in its messages, its `execution_generation`, its pending
interaction and its interrupted flag. `pendingTool` and `activeAgent` are the
two session fields; `registered`, `bound` and `stop` are the registries of all
nodes, their callbacks and their stop events. `Home` says which node serves a
call. A request goes

    ChatArrives, interrupt steps, ChatRoutes            (message, continuation)
    AnswerArrives, ResumeLoads                          (answer)
      Begin, Register, Bind, GraphReturns | GraphRaises,
      CheckFence, SetTool, Save, Finally [, Resave]

with the differences of the four paths in `mode`: `run` loads the checkpoint in
`Bind`, after it drew its generation; `run_active` and `resume` extend the one
they loaded before. `Hit`, `PersistChecks`, `PersistSaves` and `Notifies` are
`AgentExecutionRegistry.interrupt`, the callbacks and `_interrupt_local`; they
run in a chat request, in a stop, and in the listener of another node
(`Receives`). The graph and agents are one step with every outcome: an answer, a
question, an exception. `AgentStarts` is what they do to the active agent while
they run. `Crash` kills a node with everything on it and restarts it.

The business operation of a confirmation is left out of `ConfirmSaves`: it acts
on orders, which `TravelOrders` models. The continuations of the
question-rewriting and intent agents run the same path as a message.

### CircuitBreaker

`gen` and `age` stand for the fields `n` and `at` of the generation hash, `slot`
and `lease` for the probe key and its expiry. The four reads of `call`
(`is_open`, `at`, `n`, the `SET NX`) and the writes after the tool are steps of
their own. `ReadsAt` may find the hash already deleted and then uses whatever
copy the process has kept. `Tick` is time; a call may take any number of ticks,
and `ProcessDies` leaves the key to its lease. The names of its specification
(`BreakerSpec`, `BreakerTypeOK`) differ from those of `ToolExecution`, so that one
module can prove theorems about both.

### ToolExecution

One record `row` is shared by all calls with the effect `IDEMPOTENT_WRITE`. An
attempt that times out goes on by itself: it counts in `late` until it applies
its effect (`AppliesLate`) or ends without it (`EndsLate`). `applied` counts how
often the effect of a call took place. Each attempt may apply its effect once,
before it returns or raises: a tool that fails after it took effect is covered.

### TravelOrders

Rows are known by their index. Every repository call is one transaction, except
that `decide` and `cancel` of an approval are a read and a write, which nothing
keeps together. `Dies` also stands for a transaction that fails and an exception
that ends the flow. The order of approvals by submission time is the order of
their creation; on a database that keeps whole seconds, two approvals of one
order within a second could tie. `granted` remembers which approvals were decided
APPROVED for which trip, `mixed` which orders two calls ever worked on at once.

### WorkerExecutor

Workers are numbered as they are launched; `current` is the one registered for
the agent. The wait loop looks at the stop flag, the process, the deadline and
the response queue in turn; each may be the one that ends the call. `Discarded`
acts on the registered worker, as the code does, not on the call's own.
`close()` is three steps that take no lock. Callers may share a request id.

### TripGate

`orders` are the rows of one user with their trip and status. `Submits` is the
duplicate look-up of `submit_travel_approval`, `Fetches` the read of
`modify_travel_order`, `Passes` the conflict report (`ConflictReport`, `Detect`,
`EstimateMinutes`) that lets a call write, `Creates`, `Rewrites` and `Promotes`
the transactions of the order service. A modification is checked as
`change @@ trip` of the row it fetched, and written as `change @@ trip` of the
row there is. `CreatesDirectly` is the endpoint that does not look. `Returns` is
every refusal and every death of a process. `by`, `unchecked` and `beside` are
history: who wrote the trip, whether the last writer went on over conflicts or
did not look, and which calls were at work together. The flows of approvals that
surround these writes are those of `TravelOrders`; what they let happen to an
order is here that `Decided` may come at any status, because
`decide_and_sync_order` asks for a pending approval only. A cancellation that
died before it withdrew the approval, or a decision that overlapped a
modification, so leads to an approval that puts an order in force again without
a look at the others: `revived` records it.

### Bookings

`platform` is the external order, `rows` are the booking records. An answer of
the platform has an envelope, which succeeds or not, and a business result,
which reads as a success, a failure, or not at all. `CancelConfirmed` and
`BusinessSucceeds` are the two ways in which the code reads it: the cancellation
service takes the envelope for the answer when the text in it cannot be parsed,
the persisting side effect does not. `Books`, `FindsNone`, `Records` persist a
booking; `ReadsRecord`, `AsksPlatform`, `MarksCancelled` are
`BookingCancellationService.cancel`; `CancelsRaw`, `LooksUp` the raw command;
`Deletes` the user's deletion; `Leaves` a crash or an exception anywhere.

### PlanGraph and DurablePlan

A run is one invocation of the itinerary agent. `RestorePlan` takes up the
session's record, or drops it when the question is another one. Every stage is
two steps: `Ends` (what the node does, in memory) and `Checkpoint` (the record
it writes), so that a `Stop`, which is a deadline, a stop button, an error or the
death of the process, may fall between them; it may take the notebook with it.
`plans` is the plan store under its key without the return date; `OtherSession`
writes to it whenever it likes.

The planner is called through the tool wrapper, with a soft timeout and retries.
`GenerateProposals` is the attempt that comes back in time; `GiveUpAttempt` one
that does not (runs in `Slow` only): the next attempt is made, or the error ends
the run. The thread of an attempt that was given up stays in `late` and stores
its plan at any time after (`StoresLate`), over whatever is stored by then, also
when the run has ended or a later one has taken its record up. A plan is known by
run, round and attempt; `givenUp` is history.

Which trip a request is about (`ValidateInput`: from its text, or the cities and
dates the session carries over), whether planning succeeds, the review goes on
and a repair changes anything is open here, the last three computed in
`PlanningRounds`.

`DurablePlan` is the abstract specification: by session, no plan or a stage and a
round, which only advance as the graph prescribes, and drop. `PlanGraph` is shown
to implement it by the mapping `Durable` (`INSTANCE DurablePlan WITH progress <-
...`): the stage and round of the saved record, and no promise for a session of
which two runs were at work together, since nothing in the code keeps their
checkpoints apart.

### PlanningRounds and its algorithms

`PlanningRounds` runs the data of one plan through the graph: `ShellSearch`
(captured answers), `EnsureCandidates`, `Generate`, `ReviewProposals`,
`RepairPlan`, `RenderPlan`. The operators are those of

* `CandidateSearch`: capture and merge of search entries, candidates from the
  store, the four providers, the merge by id. A provider answers when it is
  configured and, `flight-manager` excepted, its command accepts the cities and
  dates (`Answering`). Ids are digests: of run and class
  for one provider, of the whole offer for the others, so that one flight at
  another price is another candidate there.
* `Planner`: exclusions, directions, pruning to capped leaders of several
  rankings, where a hotel without a price (0) comes last (`Nightly`) although
  the totals count it as free, the time filter, scores in hundredths, the
  representatives and their preference for an itinerary without experience flags
  within 15 percent.
* `ItineraryReview`: the six objective checks, each the set of problems it finds,
  a status and the part of the trip it is about; the batch verdict, arbitration
  with its fallback, the veto, the decision to go on. The arbitrator's own list of
  issues is left out: the report does not return it.
* `Remediation`: items of a review compiled into actions, the fallback actions
  from what the failed dimensions say, and the constraints they add up to.

What a language model answers (assessors, arbitrator, remediation items) is any
member of a constant set, "none" and "failed" included; what providers answer is
a member of `Markets`. `MaxCaptures` bounds the shell searches, and `Remarks` the
issues that failed assessors raise: two, of any proposals and parts of the trip.

`RoundsAssumption` says what these constants are: candidates with the fields the
planner reads (`Legs`, `Stays`), ids and prices that are natural numbers, a trip
that starts with one candidate per id (`Request`), offers of at least one place
(`Offers`), items with a priority and scores (`ItemList`). Later candidates need
no such assumption: what is captured, searched and merged is `Distinct` by id as
in the code. Which of two candidates with one id a merge of one list keeps, and
which of equal combinations the planner picks, is a `CHOOSE`, where the code goes
by the order of its lists; the proofs hold for any choice.

## Runs

| Run | Instance | Checks |
|---|---|---|
| `session_chat` | two messages on two nodes, crash of one, questions | `TypeOK`, `NoOrphanedQuestion`, `OnlyNewestCommits`, `CheckpointMonotone`, `StaleResultDiscarded`, `TurnsNeverLost` |
| `session_ends` | one request of any kind and a stop on two nodes, crash of one, fairness | `EventuallyIdle` |
| `breaker` | four calls, threshold 2, cooldowns 1, 2, 3 ticks, lease 2, fairness of time | `BreakerTypeOK`, `OneProbe`, `ClosedBelowThreshold`, `FreedByHolder`, `SlotComesFree` |
| `tools` | three calls of any effect, two attempts | `TypeOK`, `OneExecutor`, `CachedWasApplied`, `AppliedAtMostOnce`, `ErrorIsFinal` |
| `orders` | three calls, two trips, no order or one submitted | `ApprovedByDecision`, `ApprovedAsFiled`, `OneOpenApproval`, `AgreeAtRest`, `CancelWithdraws`, `CancelledStays`, `DecisionStands` |
| `workers` | three calls, two with the same request id, two launches per window, fairness | `TypeOK`, `OwnResponse`, `NoAbandonedWork`, `NoWorkerLeft`, `EveryCallEnds` |
| `trips` | three calls, two trips of three cities (one spelt in two ways) on four days, three modifications, symmetric calls | `NoUnseenConflict`, `SubmittedOnce` |
| `bookings` | four calls, a flight and a hotel order, symmetric calls | `CancelledOnPlatform`, `OneRecord` |
| `plan_graph` | two runs of one session, two questions whose trips share a plan key, one run that may be stopped anywhere and one whose planner may exceed its timeout, two attempts, one repair, fairness | `ReviewsOwnPlan`, `NotebookAgrees`, `DurableProgress`, `EveryRunEnds` |
| `planning` | requests with no, few and enough candidates, two markets, two captures, two repairs | `RepresentativesSound`, `CheapestSurvives`, `VetoStands` |
| `session_stop`, `review_fallback` | the instance that shows a finding | one property each, violated |

What the passing runs show, and under which conditions:

* The fence works. Whoever passes the fence check is the newest, and the
  checkpoint never goes back, as long as no request draws its generation in the
  few statements between another writer's check and its write. That window is
  real (`overtaken` records it) and the properties name it.
* A user turn that reached the checkpoint stays there, for chat messages.
  Requests that load the checkpoint before they draw a generation
  (`run_active`, `resume`) and the stop button can lose one.
* Two probes of a breaker need a probe that outlives its lease.
* The unique key lets one call execute, and a non-idempotent write happens once;
  a call that ended with an ordinary error stays without late effect, because a
  timed out one is reported as of unknown outcome.
* An approved order is one that was approved, whatever overlaps or dies. That it
  was approved as filed, that there is one open approval, that order and approval
  agree at rest, and that a cancelled order comes back by a modification only,
  holds for orders on which calls did not overlap; the last one needs that no
  cancellation of the order died before it withdrew the approval.
* A worker's answer goes to the call that asked, although request ids repeat,
  because an abandoned call takes its worker with it.

* Two orders in force conflict only if the user confirmed, the direct endpoint
  wrote one of them, the calls that wrote them overlapped (look and write leave
  that gap), or one was approved after it had gone out of force (`revived`). A
  repeated submission finds the draft a crash left.
* A flight or train booking is shown cancelled only when it is, except after a
  refusal in plain text (`misread`). An order has one record unless two results
  for it were persisted at the same time.
* The durable plan record advances stage by stage, also over crashes and
  restores, and is repaired no more often than the bound
  allows. The plan reviewed is the one
  proposed, unless another session, an overlapping run or an attempt at planning
  that was given up and ended late replaced it in the store: the key and the soft
  timeout allow that. Every run ends.
* Representatives respect the exclusions in force; pruning never loses the
  cheapest pair of legs and hotel among the hotels with a price; of those
  without one, which the totals count as free, it may lose any. A failed hard
  check stays a failed plan until a repair was tried.

What the other two show is in `findings`: the stop button overwrites what the
interruption had just saved; the fallback arbitrator passes a plan that a
subjective dimension failed.

Further disagreements between the code and what it says of itself are recorded
here and not run; each is a property of its module (or an instance of one),
which TLC refutes when it is added to the configuration named:

* `StaleResultDiscarded` with `Entries = {"answer"}` (`session_chat`): `resume`
  saves the result of `run` again without asking the fence
  (`services/travel_service.py:388`).
* `SingleHalfOpenSlot` (`breaker`): the half-open slot is not single for a probe
  that outlives its lease.
* `ConflictMeansOwner` (`tools`): a failed or expired idempotency record is
  reported as owned by another worker.
* `AtomicFlows` (`orders`): overlapping order flows are not atomic.
* `CancelledOnPlatform` without `misread` (`bookings`): `tools/booking.py:16` says
  that flights and trains are marked only after the platform confirmed.

Deadlock checking is off in every run: calls end, and then nothing need happen.

### Bounds

Two requests are what the fence is about (the older and the newer); the stop and
the second node add the callback on a foreign thread and the broadcast. All
interactions of three requests are between pairs; the proofs cover any number.
Four calls of the breaker allow two failures that open it, a probe, and one more
that meets them. Three tool calls allow an owner, a racer and a late-comer, and
two attempts a retry. Three order calls allow one that dies, one that repairs
and a decision. Three worker calls allow a call that is given up, the next one
of the same request, and another request. Three calls of the conflict gate allow
two orders and a modification that brings them together; the days and cities
make a hand-over on one day, the day after, an overlap and two transits that are
too long. Four booking calls allow two bookings of one order and two ways of
cancelling it. Two runs of the graph allow one that is interrupted and one that
resumes, or that replaces, or that overlaps; the run that may be stopped and the
one whose planner may be too slow are different ones, so that each is restored
after the other. Two attempts are one that is given up and one that follows it
(the code's default is three), and one repair is a round after the first,
counted across a restore (the code's bound is two): a third attempt and a second
repair repeat these, and the proofs of the safety properties cover any number.
The planning instance has six legs and three hotels, one without a price, with
`PruningTrigger` lowered to 2 so that pruning happens. No action is cut off by a
bound, shell searches (`MaxCaptures`) excepted: the numbers of calls bound the
counters (`fence`, `failures`, `gen`, rows, `launched`); `age` stops at
`Ceiling`, beyond which the cooldown has passed whatever it is.

### Fairness

* `SessionExecution!Fairness`: a thread that has started goes on; the graph ends,
  because model, tool and worker calls have deadlines. Requests, stops, listener
  failures and crashes are never forced.
* `CircuitBreaker`: only time passes. Calls may hang or die.
* `WorkerExecutor`: callers and `close()` go on, and a deadline passes
  (`TimesOut` is always possible in the wait loop, and the loop evaluates it every
  tenth of a second). Workers may hang, die or answer late. The lock is not fair;
  weak fairness of the waiting call suffices because there are finitely many calls.
* `PlanGraph!FairSpec`: a run at work is a thread that goes on (`Step`), because
  model, provider and database calls have deadlines. Runs, stops and other
  sessions are never forced.

## Proofs

Each proof module extends its component, states an inductive invariant `Inv`,
proves `Init => Inv` and `Inv /\ [Next]_vars => Inv'` with one step per action, and
derives the properties. The only assumptions are those of the modules on their
constants (`ConstantsAssumption`, `BreakerAssumption`, `ToolAssumption`,
`OrdersAssumption`, `WorkerAssumption`, `TripGateAssumption`,
`BookingsAssumption`, `PlanGraphAssumption`, `PlannerAssumption`,
`RoundsAssumption`) and those a theorem names itself.

* **SessionExecution** (`Invariance`, `TypeCorrect`, `NewestCommits`,
  `MonotoneCheckpoint`, `DroppedByTheFence`, `StaleDiscarded`,
  `NoQuestionOrphaned`, `TurnsKept`). None of the properties is inductive: that a
  writer's stamp is not older than the checkpoint follows from what happened
  since it checked. `Inv` adds: generations drawn are distinct and at most the
  fence (`GenInv`, `DrawnInv`), snapshots and results carry their request's
  generation (`StampInv`), the checkpoint's generation never exceeds the fence
  (`BoundInv`), and, unless some request began inside a window, a writer in its
  window still has the fence's generation (`WindowInv`). `DroppedByTheFence` holds
  for requests of every kind: what was found superseded reaches the checkpoint by
  a save that does not ask the fence, or not at all. `StaleDiscarded` is about chat
  messages (`OnlyMessages`), with any stops. `NoQuestionOrphaned` and `TurnsKept`
  assume `NoStops` as well, and need to: `interrupt` saves the state it loaded
  before it interrupted, so that it may take a turn or an open question out of the
  checkpoint while the pending tool stays (TLC shows both when `Stops` is not
  empty). For a question the proof follows the pair of writes that a request does
  last, pending tool and checkpoint, and says who may stand between them.
* **CircuitBreaker** (`BreakerTypeCorrect`, `SingleProbe`, `CountedFailuresOpen`,
  `OnlyHolderFrees`). `HolderInv`: unless a lease ran out, a call that works as a
  probe holds the key. `CountInv`: a count at the threshold means that the
  breaker is open, or that some call is about to open it or to clear the count.
* **ToolExecution** (`TypeCorrect`, `SingleExecutor`, `CacheIsReal`, `AtMostOnce`,
  `ErrorsAreFinal`). `RoomInv` counts attempts against effects, `OwnerInv` makes
  the owner of the key unique, `OnceInv` ties a non-idempotent write to one
  attempt, `StoredInv` a stored result to an applied effect.
* **TravelOrders** (`TypeCorrect`, `ApprovalBehindOrder`, `ApprovedForTheTrip`,
  `OneApproval`, `RestAgreement`, `CancelSafety`, `CancelledSafety`,
  `DecisionSafety`). Typing needs
  `PlaceInv`: what a call holds depends on where it is. `GrantInv`: a call about to
  copy APPROVED to an order has recorded the decision. The other six speak of
  calm orders, those on which no two calls overlapped: `AloneInv` says that one
  call at most is at work there, `LinkInv` that pointers stay within an order,
  `CalmInv` that an open approval is the latest one, for the order's trip, and the
  one that the row or the call points to, so that a flow withdraws it before it
  files another, also after a death half way. `RestInv` adds what row and approval
  keep between them when nothing died. `StayInv`: of a cancelled order either a
  cancellation is still to withdraw the approval, or died before, or there is
  nothing left to decide and no call about to file.
* **WorkerExecutor** (`TypeCorrect`, `OwnResponses`, `AbandonedSafety`,
  `CloseSafety`). Responses are matched by a request id that several calls share,
  so a call gets its own only because a worker never carries more than one
  envelope. `CarryInv`: the worker of a call that waits carries its envelope once,
  as request, as work or as response, and a worker that the next call may be given
  carries nothing. `CurrentInv` and `LiveInv`: every live worker is registered, is
  starting, or is the one `close()` shuts down. `LaunchInv`: a call launches one
  worker at most.
* **TripGate** (`DetectSymmetric`, `WindowComplete`, `ConflictSafety`,
  `SubmissionSafety`). Two lemmas about the pure part carry it: the report says
  the same of two trips whichever was there first, and the window leaves no
  conflict out. A call writes some steps after it looked, so what it found must
  be kept true until then: `CheckedInv` and `LookedInv` say so of every order in
  force or about to be promoted (`Alive`), unless a call at work at the same time
  wrote it; `FetchedInv` says that a modification writes the trip it checked. The
  orders that a decision brought back (`revived`) are not among the ones alive.
* **Bookings** (`TypeCorrect`, `CancellationSafety`, `RecordedOnce`).
  `PendingInv`: a call about to mark a record, or to look one up for that, stands
  on an order that is gone. `CreateInv`: a record that appeared since a call
  found none is of a call at work beside it.
* **PlanGraph** (`Invariance`, `TypeCorrect`, `Implementation`, `ReviewSafety`,
  `NotebookSafety`). `Implementation` is the refinement `Spec =>
  DurableProgress` for any number of runs and sessions: the initial record maps
  to no plan, every checkpoint to an advance, every deletion to a drop, every
  other step to a stutter. It needs `FollowInv`: the state a run holds is that
  of its record, or, between a stage and its checkpoint, one that may follow it;
  and `AloneInv`, `RoundInv`. `ReviewSafety` says where a plan under review that
  is not the run's own comes from, for any number of attempts and repairs:
  another session, an overlapping run, or an attempt given up. `LateInv` keeps
  for it that only attempts given up are still at work. `ReviewSafety` and
  `NotebookSafety` rest on `Invariance`: what holds of the state a run has in
  memory must hold of the saved record as well, since a later run takes that up
  (`ReviewInv`, `BookInv`), and a run that begins to plan has no record about to
  be reviewed.
* **PlanningRounds** (`PlanOfItsInput`, `SoundRepresentatives`,
  `NothingCheaper`, `VetoHolds`). The planner is a computation, and most of the
  work is in lemmas about its operators: a greedy selection that takes turns
  among rankings keeps the leader of the first one, whatever the caps
  (`LowestLeads`, `Pruned`); every score, figure and percentage is a number
  (`ScoresType`, `RowTypes`), so that the representatives exist and are rows
  (`PicksIn`, `CheapAndClean`); captures, searches and merges yield candidates,
  an id only once (`SearchFinds`, `CaptureIn`, `MergedStock`); compiling and
  applying a repair yields scores (`AppliedScores`). `Inv` then says that the
  input stays a request, the store a catalogue, and that a plan under review is
  the planner's answer to that very input. `NothingCheaper` says that no
  combination with a priced hotel, of all that exclusions and directions leave,
  undercuts the one tagged for its price. The leader of the hotels is one of
  least `Nightly` price, which is the price itself only when there is one
  (`NightlyPrice`): the code ranks the others last, and so may prune them
  although its totals take them for free. It compares prices of stays and
  therefore assumes that the hotels a trip starts with are for its nights
  (`SameNights`), as those it finds are. `VetoInv`: before the first repair a
  run whose report fails is on its way to one.

Only model-checked: liveness (`EventuallyIdle`, `SlotComesFree`,
`EveryCallEnds`, `EveryRunEnds`), which is out of the prover's reach.
What the planner computes in numbers (the scores themselves, the caps of the
pruning) is only bounded by lemmas, not stated.

## Not modelled

* Redis outages with their process-local fallbacks, and the expiry of the fence
  key after a day. All models assume that Redis is reachable.
* The error returns of the review (`tools/review.py:692`: no stored plan, or a
  malformed one or policy) are in `PlanGraph` a review that does not go on, and
  not in `PlanningRounds`: there the plan just stored is found again. They need a
  record that expired between two stages, or Redis to be gone.
* What language models and external services answer, beyond that they answer,
  ask, fail or take too long.
* Details of planning data that no property tells apart: names, text parsing,
  distances on the map, what a provider's offer looks like before it is
  normalised. Known consequences of these conversions that no property covers:
  a price read with its first number only (`services/candidate_search.py:433`,
  "1,299" reads as 1), command output cut to its last 12000 characters
  (`tools/skills.py:183`), the read and write of a search entry that may lose a
  concurrent one (`services/tool_result_side_effects.py:64`).
* Message contents, compression of long conversations, formatting, logging,
  progress events.
* The components listed in `PROJECT.json` as not modelled, with the reason.

## Plan

What is left, in this order; every module is to be written as the others
(constants with named assumptions, one action per operation, no recursive
operator).

1. `CredentialCache` (API keys) and `RghTokens`: cache-aside and watcher against
   writes and logout. `McpPool`: creation, failure and closing of shared sessions.
2. Composition: the tool wrapper over the breaker; a session whose stop flag ends
   a worker call; confirmations in `resume` over `TravelOrders`; `TripGate` over
   `TravelOrders`, whose flows it abstracts.
3. Abstract specifications as refinements: `SessionExecution` as a register that
   only the newest writer writes (conditions as in `CheckpointMonotone`);
   `ToolExecution` as an operation that happens once; `WorkerExecutor` as a remote
   call that is answered or fails.
4. Redis outages: the process-local fence and breaker copies.
