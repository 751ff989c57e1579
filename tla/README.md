# tolo-flow-control: a TLA+ model

TLA+ modules for the flow-control service of this repository (`src/flow_control`),
TLC configurations that check them on small instances, and TLAPS proofs of what
holds for every instance.

The service is called once per cycle by *Observation*. A request carries the graph,
the observations, a history digest, events, the last result and the **detection
state of the last answer**; the answer carries the next detection state. Between
requests the service keeps nothing, so everything that spans cycles (cooldown,
queue, timers, warmup, counters) travels through the caller, who may miss an answer.

## Inventory

| Component (code) | State it keeps | Operations | Talks to | What makes it correct |
|---|---|---|---|---|
| Element state (`domain/element_state.py`) | none | `assess_elements` | read by detection | a comparison is made only on fresh, valid, sufficiently long data |
| Stagnation watch (`detection/triggers.py`) | `ArcWatchState` per arc | evaluate, resume over gaps, expire, carry, reset on firing | request cycle | the timer stands for time the condition was really seen |
| Detection (`detection/`) | `DetectionState` | apply events, metric and manual triggers, cooldown, queue, retrigger counts | handler | triggers are served, kept or dropped for a reason; two candidate states |
| Request cycle (`service/handler.py`) | none; commits one candidate | validate, detect, forecast, detour, optimize, finalize | Observation | only an optimization consumes triggers; attempts are bounded |
| Deadline budget (`service/handler.py`) | none | check the deadlines, cut the solver's budget from them | optimizer | a result found within its budget is answered in time |
| RPC server (`rpc/server.py`) | slot, closed flag, executor | `Optimize`, shutdown | gRPC, worker thread | one job at a time, one answer per call, no leak of the slot |
| Forecasting (`forecasting/`) | none | demand with imputation, OD matrix, reproduction, confidence | detours, optimizer | nodes settled by imputation balance; nobody is invented in the matrix |
| Detour routing (`detour_routing/`) | none | k shortest detours | optimizer | a detour avoids its arc and obeys directions |
| Localization (`localization.py`) | none | zones, merging, cap | direction search | zones have no node in common and are no coarser than that needs |
| Direction search (`optimizer.py`, `arcs.py`, `model.py`) | none | candidates, greedy search over zones, spread | LP | balance, law and reachability kept by every adopted step |
| Optimizer ladder (`optimizer.py`) | none | lightweight mode, phases 1 and 2, slack LP, copy of the previous result | solver, clock | every rung answers safely, whenever the deadline passes |
| Restrictions, boundary control (`restriction.py`, `boundary.py`) | the previous result, held by the caller | CLOSE, LIMIT, RESUME; PAUSE, RESUME | operators | what was closed or paused is taken back, and only that |
| Postprocessing (`postprocess.py`) | none | importance, detour and direction proposals | answer | |
| Drainability (`drainable.py`) | none | reachability | objective, CLOSE check | agrees with the existence of paths |
| Codec (`rpc/codec.py`) | none | decode and check, encode | server | what is accepted is clean, what is written reads back |
| Feedback, diagnostics (`service/`) | none | reporting | answer | |

What is hard in this code: state that is computed now and committed (or not) after
a long optimization that may be cut off; state that a caller may hand back twice
or late; timers that must survive gaps in the observations; the queue, which three
mechanisms feed and three drain; flows and directions that are composed of parts solved
one by one; restrictions that can only be taken back by way of a previous answer; a
codec that is the only memory there is; and, in the server, jobs that outlive their calls
next to a shutdown that runs in another thread. `PROJECT.json` lists these hazards
at their lines.

## Modules

| Module | Models | Kind |
|---|---|---|
| `ElementState` | `domain/element_state.py` | operators on one reading |
| `StagnationWatch` | `_unexpired_watch`, `_resumed_watch_since`, `_evaluate_stagnation`, the watch part of `detect_metric_triggers` | operators |
| `StagnationTimer` | one arc's watch over cycles, next to an account of evidence | state machine |
| `Detection` | `detect` and everything it calls | operators |
| `RequestCycle` | `handle_request`, `finalize_detection_state`, and Observation | state machine |
| `RequestHistory` | `RequestCycle` with history variables | properties over several cycles |
| `TriggerLedger` | what the cycle promises about triggers | abstract specification |
| `ExecutionPool` | `_ExecutionPool`, `FlowControlService.optimize`, `serve` | state machine |
| `FlowGraph` | `domain/graph.py`, `arcs.py`, `drainable.py`: arcs, directions, reachability | operators |
| `DetourRouting`, `TriggerZones` | `detour_routing/`; `localization.py` | operators |
| `Assignment` | `model.py` and the inputs built in `optimizer.py`: the programs as sets of solutions | operators |
| `Restrictions`, `BoundaryControl`, `Presentation` | `restriction.py`; `boundary.py`; `postprocess.py` | operators |
| `OptimizeCall` | `optimize` with its search, its two phases and its fallbacks | state machine |
| `FieldControls` | what stands closed, limited and paused over many cycles | state machine |
| `CallClock` | the deadlines of `handle_request` | state machine |
| `WireTypes`, `RequestMessages`, `AnswerMessages` | `rpc/codec.py`: how a field is read and written; the messages | operators |
| `Demand`, `OdEstimation`, `Forecasting` | `forecasting/` | operators |
| `ForecastCall` | the calls about one site: the forecast is made while the clock of `CallClock` runs, and the next call begins without one | state machine |
| `CycleMemory` | `detect` and `finalize_detection_state` in the messages of a request and its answer | operators |
| `ServedCall` | one call from message to message, with `ForecastCall`, the codec and `CycleMemory`, and the next call | state machine |
| `CycleClaims`, `OptimizeClaims`, `FieldClaims` | statements of comments | claims the code does not keep |
| `*_proofs` | theorems | TLAPS |
| `MC*` | small instances | TLC |

`Detection` is used by `RequestCycle`, which hands it the state Observation holds;
`StagnationWatch` is used by `Detection` for every arc and by `StagnationTimer` for
one. `ExecutionPool` treats a request cycle as a job with three outcomes. `OptimizeCall`
and `FieldControls` share `Restrictions` and `BoundaryControl`: the first finds what one
call asks for, the second follows it through the field and the calls after. `ForecastCall`
extends `CallClock` and `Forecasting`; `ServedCall` extends `ForecastCall` and `CycleMemory`, which extends `AnswerMessages`.

The detection pass is modelled twice, for two questions. `Detection` derives from readings what fires and asks what
becomes of triggers over many cycles, with what the properties need of a memory. `CycleMemory` asks what a memory looks like
on the wire: it changes every field of the message as the code does (events, watches, queue, cooldown, counts, skips, the
two candidate states, the re-queueing), while which passages fire, with what score, which are calm, and whether the queue
is full or fresh are given with the call.

### How the model reads the code

*Readings.* Flow rates, stagnation values and percentiles are real numbers that
only matter through comparisons. A `Reading` holds the flags, age, tier and number
of samples that decide **whether** a comparison may be made, and the outcome it
**would** have. `ObservationState`, `Nominal`, `HasStagnationBasis` and the others
are the code's rules.

*Time.* `server_time` is `now`, an integer. `datetime` is unbounded in the code's
range, so no width is modelled here; in `CycleMemory` the calendar has an end. The freshness default of half a cooldown is
compared doubled. An absent timestamp is `NoTime`.

*Queue.* The code keeps one tuple. No one reads the order of entries of different
routes, so the model keeps one sequence per route; within it the order matters,
since a merge updates the first entry. Kinds and snapshot references are read by
nobody after they are queued (a DANGER entry and a SURGE entry of one route differ
in nothing the code looks at) and are left out.

*A cycle* is one action: `HandleRequest` picks a request, runs `Detect` and returns
one of three answers. Whether an optimization ends in time is a free choice, which
covers all five deadline checks and a solver timeout. `Reject` returns the state it was
given (invalid or oversized input). `MissAnswer` is a cycle whose answer Observation
did not get, whatever happened to it in the service: statelessness makes it one action.

*The server.* The event loop runs `submit` without awaiting, so `OnLoop` lets one call
be inside; the shutdown thread and the worker interleave with every step of it. The
executor (external) is modelled by how it is used: submit and shutdown exclude each other,
shutdown cancels what waits, a worker frees the slot in `finally` before the future
has its result.

*One optimization.* `OptimizeCall` has an action for each stage of `optimize`: the start
(baseline and its gate), the rescue of an unsafe baseline, one zone after another, the
spread, the second phase, the fallback. `late` is the deadline, which may pass between any two
of them. A flow sends whole people along simple ways; a program of `model.py` is the set of
flows (and directions) its constraints allow, and the solver ends with a best one, with any
one (interrupted), with none, or with an error (`SolverEnds`). Identifiers are numbers in
their sorting order, so that ties break as in the code. Weights and shares are percentages and
`EpsilonZero` = 1 stands for the constant that avoids division by zero. Left out: ways of
fractions of people, the preference among equal spreads, big-M encodings.

*The field.* In `FieldControls` the field obeys every answer and keeps it until told otherwise.
The caller is the one of the repository's own scenarios (`devtools/scenarios/_observation.py`):
it sends the result of the last answer, or none when the last answer had none. What zones ask
for (`zonal`) is an input; `OptimizeCall` shows what it can be. `unbroken` and `strayed` are history:
whether an answer passed over what is restricted, and whose pause was passed over.

*The clock.* `CallClock` counts whole seconds from the start of a call. Each step takes any of
the call's paces, the solver too, which may overrun its budget.

*The codec.* A message type (`WireTypes`) says of each field how it is read when it is absent,
which values are refused when reading and which when writing. Values are atoms, one for each kind
of value some check tells apart ("", NaN, an unknown member, a date outside the calendar, a
reference to nothing, a time with nanoseconds, which is cut to microseconds).
`Read` and `Written` follow the declaration of `RequestMessages` and `AnswerMessages`, `Coherent`
holds the checks between fields (order of windows, references into the graph). A message is looked at as the
set of its parts (`Parts`), each a value with its type and its view, on the wire or held by the program. A
message can be read when nothing is wrong with any part itself, and is converted by a recursive function over
its parts; types have a depth, which bounds how deep values nest. `Possible` says what protobuf can deliver
at all, `Proper` what objects the program's classes have; `CasesAssumption` asks the first of the messages and the second
of what the later steps hand in, which also has to be writable.

*Forecasting* counts in hundredths of a person per minute; shares are taken with floor division,
with `gravity_alpha` = 1 (distance decay) and the propagation cut off after
`MaxPropagationSteps` = 8 instead of 1000 steps; flows die out by rounding before that on the
sites that are checked. What goes missing by rounding goes missing in one direction only, so the
properties are inequalities where the code's are equations up to a tolerance; sums that
involve no division are exact.

*Partial cases.* Where a guard of a CASE may hold together with another one, TLC takes the first and TLA+
leaves the choice open; the guards are written to exclude each other, so that runs and proofs speak of the
same model.

*Two views of a call.* `ServedCall` looks at a message and at a site that are independent
of each other: the message says which values arrive, the site which figures are computed with,
and `call` which budgets apply. `MaxRounds` = 2 bounds the calls; the second is only received. The two meet in detection:
the call goes on after it when `CycleMemory` says that something triggered, and ends with the verdict and the memory
it derives. What a call takes from neither is given with it: the result, feedback and diagnostics (`draft`, anything that can be
written), and whether this is the last attempt (`call.finalRetry`, both ways for every queue, not derived from the skip
count of the message).

*Ends of a call.* A request that cannot be read is refused. An answer that cannot be written ends the call as INTERNAL, and so
does anything the worker raises (`Fail`, possible at any time; after a date past the end of the calendar it is the only end,
`Overruns`). The caller's time may run out, or the caller may go (`Abandon`). None of these leaves a memory behind.

*Memories.* There are two instants, and the calendar ends with the second, so that every end of a warm-up or cooldown is
either now, later, or past the end. A duration is "0" or positive. A count is "0", "1", many, at the
limit of 32 bits, or over it; a score is finite or not. A passage fires at most one metric trigger (the code can fire two,
one after the other, which comes to one with both scores in the memory).

## Runs

Each property has a seeded fault, an operator placed before the definition it
stands in for (see `mutants` in `PROJECT.json`), that a plausible slip in the
code would amount to and that makes the run fail.

| Run | Instance | What it shows |
|---|---|---|
| `stagnation_timer` | M = 6, stale after 2, interval 4, clock to 14, steps 1 to 3, ten readings | the start that `_resumed_watch_since` moves stands for the evidence; the combined trigger needs M of it; gaps let it run ahead of the clock by the ratio of the interval to the staleness limit at most |
| `trigger_queue` | two arcs and a node, cooldown 3, freshness half of it, score and diversity thresholds 2 and 1, two skips allowed, clock to 7 | triggers are served, kept or dropped for a reason; entries do not pile up; a backlog drains; optimizations keep their distance; the cycle implements the ledger |
| `warmup_retrigger` | the same with cooldown 2 and warmup 2, targets that are disabled, re-added and flagged, clock to 6 | retrigger counts follow one origin; warming arcs fire only as backlog; nothing but OPTIMIZED consumes |
| `execution_pool` | three calls | one holder of the slot, clean refusals, one answer, and liveness |
| `direction_search` | 81 requests on a diamond, a street, a triangle, a pocket and a crossing, with two to five people | whatever the solver returns and whenever the deadline passes: flows stay balanced and within the directions, proposals cut nobody off and break no law, the search never makes it worse, zones are the finest partition, the second phase keeps the first, a closing can be done without |
| `field_controls` | a street of three nodes, 13 situations, all sequences of them and of the six ways a cycle can end | what is told to resume is held, closings follow the need and pauses the danger as long as no answer passed over them |
| `served_call` | 854 messages and 299 findings and parts of answers, in about 1900 pairs, 1534 sites, 38 calls; graphs of two nodes and edges | budgets, the codec in both directions, the memory through a cycle and into the next request, the OD matrix, imputation |
| `manual_not_counted`, `skip_count_consecutive` | one arc | statements of comments that the code does not keep (below) |
| `node_limits_kept`, `closings_keep_connectivity`, `an_exit_stays_open` | crossing, street, three nodes | the same for the optimizer |

*Bounds.* `MaxTime` bounds the clock of the request cycle, the only unbounded variable there
(`skipCount` is bounded by the code, retrigger counts by the number of cycles). The clock covers
several cooldowns, a warmup and a full round of skips with its give-up; every threshold
is small enough to be passed and to be missed by one. Two arcs and a node are the
least with a diverse queue, a route without metrics, and another origin. Three calls are one
that works, one that is refused and one that comes later. Readings are chosen to reach
each branch: quiet, warned, punctured, both triggers at once, unjudgeable in each way.
In `stagnation_timer` a gap of 3 earns a whole interval of 4, one of 5 or 6, over a missed cycle, is cut to it, and a longer one ends the evidence.

The sites of `direction_search` are each the least with its case: the diamond has two ways and a
passage across, so that one zone's gain can be another's loss, and laws and hints that
forbid candidates; the street has zones that chain into one and zones that stay apart,
and a previous restriction; the triangle has a second phase that could spoil the first; the pocket a
passage that must not be closed; the crossing people who come from outside a zone.
`field_controls` has no bound: its state space is finite. The messages of `served_call` differ from a good
one in one place (a value changed, a field absent, a list empty, doubled or out of order):
the codec reads field by field, so that a fault in one field shows in a message with that field changed;
checks between fields get both fields from the variants of either. Memories are small and combined in full: five queues, with and
without a cooldown, against what fires; warm-ups of none, one and all targets against each kind of event; counts at
nought, one and the limit against what fires, is calm or is watched. The sites are a line, a
square with a choice of ways and given turnings, and a ring with a circle, each with every combination of
readings (none, little, much, back, invalid) and with and without gates, and odd ones: a disabled node on the way,
no round of fitting, a passage that leads back to where it starts, turning readings with a negative share. Calls use the service's own
constants (60, 5 and 30 seconds) with deadlines on both sides of every comparison, and steps of 1, 20 and 33 seconds.

*Deadlock* is not checked where the model ends: the clock at `MaxTime`, a server that has shut down, a
call of `optimize` that has answered, a served call after its last round. `field_controls` checks it.

*View.* The two runs of the request cycle leave `answer` out of the fingerprint
(`CycleView`): no guard reads it, and the properties that mention it read the answer of
the step's end only.

## Fairness and liveness

`ExecutionPool!Fairness` says what the runtime gives: the event loop continues
coroutines that are ready, timers fire (`TimeOut`), the worker takes jobs and sets
results, and a shutdown that has begun goes on. It does **not** say that a job ends, a
client calls, or the server is stopped. `EveryCallAnswered` holds under this alone:
`asyncio.wait_for` bounds the wait even of a job that hangs. `SlotComesBack` adds
`JobsEnd`, stated inside the property: jobs end through their own deadline checks.

The request cycle and the field have no fairness: nothing obliges Observation to send requests.
Their "eventually" is stated as a bound instead (`BacklogDrains`; `RestrictionsFollowNeed` and
`PausesFollowDanger` speak of the next answer). `OptimizeCall` and `CallClock` end by themselves,
every stage leads to a later one; that a step of them ends is the solver's and the machine's affair.

## Proofs

`ExecutionPool_proofs` proves the type invariant, `SlotHasOneHolder`,
`RefusedLeavesNothing`, `RefusedForCause` and `OneAnswer` for any finite set of calls.
`SlotHasOneHolder` alone is not inductive. `IInv` adds how phase, future, queue
and the running job of a call belong together: a call that is not past `submit` has no
future; exactly the queued calls are pending; the running job is the only one whose
future runs or is released; at most one job is in the queue; a cancelled job exists
only after the executor is shut. From it each action can be seen to move the
one holder along or to make room.

`StagnationTimer_proofs` proves all four properties of the timer for any set of readings,
clock steps, M, staleness limit and interval, the limit shorter than the interval included. The invariant `Stands` says that the
stored start and last-held time and the account agree (same last sighting, both empty or
neither, difference equal to the credit, credit within what the time can have earned); lemmas show that expiring, carrying, resuming
over a gap and judging preserve it, one per branch of the code.

`RequestCycle_proofs` proves of the request cycle, for any targets, requests, thresholds
and durations: the type invariant, `QueueBounded`, the refinement of `TriggerLedger`
(`LedgerImplemented`), and the action properties `NoTriggerLost`, `DangerNeverDeferred`,
`OnlyOptimizedConsumes` and `WarmupFiresOnlyBacklog`. The argument follows the code from the
inside out: what the events keep (`EventsKeep`), what the cooldown decides
(`CooldownDecides`), that counting retriggers changes nothing else (`CountingDecides`),
what one detection pass hands over (`DetectDecides`), and from these the six outcomes of
a handled request, `Cycle`: optimized, timed out, given up, queued, idle, forgotten. Every
theorem is then a case split over the six. `TypeOK /\ QueueBounded` is inductive: a merge adds
an entry only to an arc that has none, a timeout one to each route and one to the skip
counter, and the counter is compared with `max_consecutive_skips` before it grows.

`BacklogExplained` joins them in `Inv`. It and `CooldownSpacing` compare sums over the queue: `MergedScore`
says that a merge adds exactly the scores of what is merged, so that a queue which goes over a
threshold does so in a cycle that sees it. `CountsOneOrigin`, `BacklogDrains` and `CooldownSpacing` are about
`RequestHistory`. Their invariant `HInv` puts the history variables next to the state the caller holds; it needs
`CooldownOfLast` (a cooldown dates from the last optimization, unless a scheduled event has ended it).

`ForecastCall_proofs` is about calls at any site that satisfies `SitesAssumption` (finite graphs with numbers for
identifiers; readings of any whole numbers, negative ones too), one after the other.

* *The clock.* For all budgets, deadlines and step durations, a result found within the granted budget is
  answered, with the margin of the remote call to spare (`BudgetIsKept`, and `EveryBudgetIsKept` for every call of a
  sequence). The invariant `Promised` carries what a grant means from the moment it is given: service and
  caller both still have time for all of it. It rests on the assumption that the reserve is at
  least the floor plus the margin (60 >= 30 + 5 in the code): the floor may grant more than what remains
  before the reserve, and the reserve has to have room for it.
* *Imputation* (`ImputationIsBalanced`). A node that has settled its one open passage stays balanced: nothing is
  left open there, and a later settlement changes the ends of an open passage only. The invariant over the
  rounds says this next to what is settled: every anchor's vector passages are settled, and a settled passage
  was measured or filled in, never both.
* *The matrix* (`MatrixInventsNobody`). A different argument for each of the three ways to it. People who are
  followed are conserved: those who ended and those still on their way are together no more than those who set out
  (`OnwardsKeeps`: at every node, those who end there and those who go on are shares of one number,
  rounded down), and whoever is anywhere was carried there by measured flow, so
  that the pair is joined by it (the set of nodes reached so far is within a closed set, `ReachedIsClosed`). In the
  balanced matrix the columns fit after every round and the rows after the last step, which only takes
  away (`PartFits`: a row scaled to a total, every entry rounded down, does not exceed it); the pairs themselves
  are fixed from the start. Cutting small pairs only takes away.

The statement is conditional where the code is: with a negative reading people can be invented, and
with `ipf_max_iter` = 0, which the service accepts, only the rows are bounded. Trying to prove it
without these conditions is what found them.

`FieldControls_proofs` proves the four properties of the field for any situations whose graphs are finite
(`SituationsAssumption`). `IInv` adds to them the two agreements between the previous answer and the field that
make them inductive: what the previous answer restricts does stand restricted, and as long as no answer
passed over it nothing else does; the pauses of the previous answer are in force, and every paused node whose
pause was not passed over is among them. What `build_resume_proposals` and
`compute_boundary_control` take back is therefore held (`AnswerFacts`, `BoundaryFacts`), and
`ObeyKeepsIInv` shows once, for all six ways a cycle ends, that a field which obeys keeps `IInv`.

`Operators_proofs` holds the lemmas about data. The library's induction theorems
take an operator and are out of reach, so induction is over a **set** of good sets or good numbers
(`SetInduction`, `UpToInduction`), and a recursive function is shown to exist before it is used (`UpToRecursion`).
From them: a sum over a finite set does not depend on the order in which it is taken (`AddsInAnyOrder`), so sums
can be split, joined and turned round (`SumOfParts`, `SumOfSums`, `SumOfTable`); a finite set in order is a
sequence that has each member once (`OrderedByFacts`); what the search for reachable nodes finds stays within any
set that has the sources and that no link leaves (`ReachedStaysIn`), and is itself such a set (`ReachedIsClosed`);
a recursive function over rounds exists and keeps what every round keeps (`RecursionExists`, `StaysUpTo`); sums
of quotients that are rounded down stay within the quotient of the sum (`PartFits`).

`OptimizeCall_proofs` proves all nine invariants of `direction_search`, for any requests that satisfy
`RequestsAssumption`: finite graphs with numbers for identifiers, counts, forecasts, tolerances
and limits that are not negative. `IInv` says what is true between the steps:

* *Solutions are sound* (`Sound`). A solution is balanced, keeps to its directions, and `tau` is its worst
  stagnation. This is inductive only together with the next.
* *A zone under search knows the present solution* (`ZoneSearched`). The supply and the value of a zone are
  computed when it is entered and used for every candidate in it, while the best solution changes. They are
  still right, because a flow that is adopted differs from the one before inside the zone only:
  `SupplyStays` says that the supply depends on the outside alone, `ComposedBalance` that a
  balanced zone flow and the rest make a balanced whole. What is left to try agrees with the solution
  outside the zone, so that it is never turned back by an adoption.
* *What is adopted is no worse* (`ZoneHelpsSite`). A passage outside the zone keeps its stagnation, one
  inside gets at most the zone's new value; so the maximum over the site does not rise.
* *Directions are among `Turns`*: a candidate opens one triggered passage in a way the law allows.
* *The second phase begins with the first phase's choice*, and `Phase2Choices` bounds what it may lose.
* *An answer is right when given* (`AnswerOk`), which no later step can change.

Reachability is stated without the code's search: a set of nodes that has all entries and that no open arc
leaves is the whole site (`Fills`); `ReachedFills` connects it with the search. `ZonesArePartition`
says that no part of a zone is without a meeting with the rest of it; its proof follows `_merge_overlapping`
as an absorption of one core after the other (`AbsorbDivides`), with the invariant that the zones so far
divide the cores so far into connected bundles. `ClosingIsSafe` rests on `BuiltCloses`: whatever else an answer
limits or resumes, it closes only what `close_preserves_connectivity` has let pass.

`ServedCall_proofs` proves both properties of the codec, for every message the wire can carry, every finding of the
detection, every draft that can be written, and every `MaxRounds`.

* *The codec, for any type.* `IsType` says that a type belongs to a finite-depth grammar (`Grammar`) in which a number is
  refused when it is not finite and an enumeration has only its own members. A part is `Sound` when the wire can carry it and
  its reader takes it, or when the program can hold it. Reading and writing make sound parts of sound parts
  (`ReadIsSound`, `WrittenIsSound`): `ReadIsClean` says that what is read holds nothing of what `Marks`
  lists, `WrittenIsReadBack` that what is written can be read and comes back as it was. Both are inductions over depth,
  as a set of good depths; the recursive functions are shown to exist first (`DownExists`, `ConversionIsMade`).
* *The messages.* One lemma for each type of request and answer says that it is one (`OptimizeRequestIsType`).
  The modes `"strict"` and `"any"` tell apart types in which all that can be read can also be written from the
  few with an identifier that is checked in one direction only; this is where the exception below comes from.
* *The call.* `ServedInv`: an accepted request is what its message says; the held answer is sound, and its written
  form reads back to it; what is sent after an answer is accepted, because the one
  thing in a memory that is checked against another field, the targets that warm up, are those of the memory before or of events
  whose targets were checked, and the graph that is sent again is the same. The memory a cycle ends with is near the one it began with
  (`MemoryIsNear`, from a lemma for each step of `CycleMemory`): every entry of it is an old one, an old one with a new date,
  count, score or reference, or a new one about the request's own passages and nodes. So there are three
  things in it that cannot be written (`UnansweredForACause`): a trigger of an empty origin that has stayed, a count that was at its
  limit and went up, which happens in the memory of an optimization only, and a waiting score that overflew. From this
  follow `AcceptedRequestIsClean` and `StateOutlivesTheCall`. They say nothing of calls whose worker raises or that are abandoned: those
  have no answer.
* *The figures.* A step of `ServedCall` is a step of `ForecastCall` or leaves `forecastVars` unchanged
  (`ServedCallsForecast`), so that the clock, the matrix and the imputation of a served call keep
  what was proved of `ForecastSpec`.

Only model-checked: liveness (`EveryCallAnswered`, `SlotComesBack`), as ENABLED and fairness are beyond the
prover. That the solver returns what meets its constraints is an assumption
(`SolverEnds`), as is the order in which the ways of `DetourRouting` come.

## Disagreements found

* **Manual triggers are counted after a timeout** (`handler.py:243`). Rule 4 keeps danger
  flags out of the retrigger counts. When a flag's optimization times out, the arc is queued
  again as a SURGE; when the queue fires it is counted.
* **The skip count is not consecutive** (`handler.py:229`). It is reset by OPTIMIZED and by
  giving up, not when the triggers it was counted for expire, so a later trigger is given up early.
* **The limit of an endangered node can be exceeded** (`model.py:664`). A zone's program applies it
  to the zone's own arcs; who reaches the node from outside the zone comes on top.
* **Two closings can cut the site** (`optimizer.py:759`). Each zone checks its closing alone.
* **All exits can be paused at once** (`boundary.py:56`). Leaving is paused where another exit
  exists; that the other is being paused by the same answer is not looked at.

Met while modelling, and kept in the model as the code has them, without a run of their own:

* A breach of one stagnation condition carries no time; its flag passes unchanged through cycles
  that cannot judge the arc and keeps the queue fresh (`triggers.py:147`).
* A solve that ends by its time limit without a solution in the fallback is presented as INFEASIBLE or as
  the previous result; a first phase interrupted with a solution in hand is thrown away by the handler.
* Strict answers carry no restriction proposals, so what stood restricted is forgotten with them; a cycle
  without a result forgets pauses and closings. One RESUME at a node lifts the pauses of both directions.
* "Nodes that were paused in the past" are to be reopened by the first optimization after the danger (`boundary.py:13`);
  the code knows the pauses of the previous answer only (`boundary.py:137`). A gate that is paused, and out of service in the
  next optimization while the danger lasts, stays paused when both are over, although every cycle was optimized.
* Detour paths are listed when all their passages carry flow, in whatever direction.
* Duplicate readings of an arc are added up in demand and validation and overwrite each other in the OD flows.
* What is accepted with a request and cannot be written with its answer ends the call as INTERNAL after its work: an empty
  `origin_edge_id` that stays in the queue; a retrigger count of 2^31 - 1 that goes up (`triggers.py:825`); scores that
  add up past the range of floating point, if they are kept (`triggers.py:636`).
* The ends of warm-ups and cooldowns are computed without a look at the end of the calendar (`triggers.py:725`, `triggers.py:551`).
  The first is computed in every call, whether an event asks for it or not.
* Negative ratios and rates are accepted. Whether a node's turnings are complete is judged by the non-negative
  ones (`od.py:363`), how people are split by all of them (`od.py:541`), so that a share of more than all people
  passes the check and the matrix has people whom nobody counted.
* With `ipf_max_iter` = 0 the matrix is the prior, shrunk to the rows: nothing bounds who comes to a destination.
* People who are followed cross passages at disabled nodes; balanced pairs do not.
* Two-way traffic at a gate that is only passed through cancels, and the gate stops being an origin.
* At such a node a growing occupancy takes people out of the balance of production and absorption
  (`ImputationBalances` states that balance for mixed nodes only).

## Plan

1. (done) the watch, detection, the request cycle and its ledger, the server.
2. (done) the optimizer with its search, ladder, zones and detours; the field over many cycles; the clock of a
   call; the codec; forecasting.
3. (done) proofs of the field, of the history of requests, of the optimizer's call, and of forecasting.
4. (done) the codec without RECURSIVE operators, and with it proofs of the codec and of the served call.
5. Left: fractional flows in `Assignment`, and `gravity_alpha` other than 1.

## Not modelled

* The solver's numerics: `linopy` and HiGHS are external. Fractional flows, big-M encodings and tolerances
  are replaced by whole people and exact comparisons; `SolverEnds` assumes that a solution the solver returns meets
  the constraints.
* Floating-point arithmetic of forecasting (rounding there goes both ways), `gravity_alpha` other than 1.
* The values in feedback and diagnostics: no later step reads them. Their messages are modelled, and two fields of
  the feedback are never filled by the code (`restriction_metrics`, `ab_diff`).
* Settings, logging, the command line of the server, and `devtools` and `experiments` apart from the caller
  of the observation scenario: scenario builders, reports, plots and offline studies change nothing in the service.
* Protobuf's own encoding (`rpc/generated`).
