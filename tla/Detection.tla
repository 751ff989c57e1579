------------------------------ MODULE Detection ------------------------------
(***************************************************************************)
(* One detection pass (detection/detector.py and detection/triggers.py): a *)
(* function from the detection state of the last answer and one request to *)
(* a verdict hint, the routes to work on, and two candidate states: the    *)
(* one to keep if the optimization succeeds and the one to keep if not.    *)
(*                                                                         *)
(* A route is an arc or a node; the queue is kept per route, since nothing *)
(* reads the order of entries of different routes.  Timestamps, snapshot   *)
(* references and kinds that nothing reads are left out.                   *)
(***************************************************************************)
EXTENDS StagnationWatch, Sequences, FiniteSets, Functions

CONSTANTS
  Edges, Nodes,         (* every arc and node an event can name            *)
  CooldownMin,          (* cooldown_duration_min                           *)
  WarmupMin,            (* warmup_duration_min                             *)
  QueueFreshnessMin,    (* queue_freshness_min, NoTime where it is not set *)
  ScoreThreshold,       (* queue_score_threshold                           *)
  DiversityThreshold,   (* queue_diversity_threshold                       *)
  QuietCycles,          (* retrigger_reset_quiet_cycles                    *)
  PunctureEnabled       (* puncture_trigger_enabled                        *)

Targets == Edges \cup Nodes

ASSUME DetectionAssumption ==
  /\ Edges \cap Nodes = {}
  /\ IsFiniteSet(Targets)
  /\ CooldownMin \in Nat \ {0}
  /\ WarmupMin \in Nat
  /\ QueueFreshnessMin \in Nat \cup {NoTime}
  /\ ScoreThreshold \in Nat
  /\ DiversityThreshold \in Nat
  /\ QuietCycles \in Nat \ {0}
  /\ PunctureEnabled \in BOOLEAN

Entry == [score : Nat, lastFired : Int]

Retrigger == [count : Nat, quiet : Nat]

WarmupKinds == {"ENABLE", "ADD_EDGE", "ADD_NODE", "SENSOR_SET_CHANGED"}
ScheduledKinds == {"SCHEDULED_INFLOW", "SCHEDULED_ATTR_CHANGE"}
EventKind == {"DANGER_FLAG_UP", "DANGER_FLAG_DOWN", "DIRECTION_SWITCH", "DISABLE"}
               \cup WarmupKinds \cup ScheduledKinds

Event == [kind : EventKind, target : Targets]

(***************************************************************************)
(* now       server_time                                                   *)
(* enabled   the arcs and nodes of the graph that are enabled              *)
(* readings  what the observations and the history show of each arc        *)
(* events    the events of the request, in order                           *)
(***************************************************************************)
Request ==
  [now : Int, enabled : SUBSET Targets,
   readings : [Edges -> Reading], events : Seq(Event)]

NoQueue == [t \in Targets |-> << >>]

InitialState ==
  [cooldownUntil |-> NoTime,
   queue         |-> NoQueue,
   watch         |-> [e \in Edges |-> NoWatch],
   warmup        |-> [t \in Targets |-> NoTime],
   retrigger     |-> << >>,
   skipCount     |-> 0]

(* Retrigger entries exist for some of the arcs only. *)
RetriggerCounts(f) ==
  /\ f = [e \in DOMAIN f |-> f[e]]
  /\ DOMAIN f \subseteq Edges
  /\ \A e \in DOMAIN f : f[e] \in Retrigger

DetectionState(s) ==
  /\ s = [cooldownUntil |-> s.cooldownUntil, queue |-> s.queue, watch |-> s.watch,
          warmup |-> s.warmup, retrigger |-> s.retrigger, skipCount |-> s.skipCount]
  /\ s.cooldownUntil \in Instant
  /\ s.queue \in [Targets -> Seq(Entry)]
  /\ s.watch \in [Edges -> Watch]
  /\ s.warmup \in [Targets -> Instant]
  /\ RetriggerCounts(s.retrigger)
  /\ s.skipCount \in Nat

InCooldown(s, now) == s.cooldownUntil # NoTime /\ now < s.cooldownUntil

InWarmup(s, t, now) == s.warmup[t] # NoTime /\ now < s.warmup[t]

-----------------------------------------------------------------------------
(* Events. *)

Named(events, kinds) == {events[i].target : i \in {j \in DOMAIN events : events[j].kind \in kinds}}

(* The last event about a target's warmup decides. *)
ApplyWarmupEvents(s, req) ==
  LET About(t) == {i \in DOMAIN req.events :
                     /\ req.events[i].target = t
                     /\ req.events[i].kind \in WarmupKinds \cup {"DISABLE"}}
      Last(t)  == CHOOSE i \in About(t) : \A j \in About(t) : j <= i
  IN  [s EXCEPT !.warmup = [t \in Targets |->
         IF About(t) = {} THEN s.warmup[t]
         ELSE IF req.events[Last(t)].kind = "DISABLE" THEN NoTime
         ELSE req.now + WarmupMin]]

(* A scheduled change ends the cooldown and keeps the queue. *)
ApplyScheduledEvents(s, req) ==
  IF \E i \in DOMAIN req.events : req.events[i].kind \in ScheduledKinds
  THEN [s EXCEPT !.cooldownUntil = NoTime]
  ELSE s

(* A lowered danger flag clears the retrigger count of its arc. *)
ApplyDangerFlagDown(s, req) ==
  LET cleared == Named(req.events, {"DANGER_FLAG_DOWN"})
  IN  [s EXCEPT !.retrigger = [e \in DOMAIN s.retrigger |->
         IF e \in cleared THEN [count |-> 0, quiet |-> 0] ELSE s.retrigger[e]]]

ApplyEvents(s, req) ==
  ApplyDangerFlagDown(ApplyScheduledEvents(ApplyWarmupEvents(s, req), req), req)

AllTargetsInWarmup(s, req) ==
  /\ req.enabled # {}
  /\ \A t \in req.enabled : InWarmup(s, t, req.now)

Danger(req) == Named(req.events, {"DANGER_FLAG_UP"})

-----------------------------------------------------------------------------
(* Metric triggers: the combined one and the puncture, side by side. *)

(* Seeded fault: warming arcs are judged. *)
JudgedInWarmup(s, req) == Edges \cap req.enabled

Judged(s, req) == {e \in Edges \cap req.enabled : ~InWarmup(s, e, req.now)}

PunctureFires(r) == PunctureEnabled /\ PunctureReached(r)

MetricFired(s, req) ==
  {e \in Judged(s, req) :
     \/ CombinedFires(s.watch[e], req.readings[e], req.now)
     \/ PunctureFires(req.readings[e])}

(* An arc that raises both triggers scores twice. *)
FiredScores(s, req) ==
  [e \in Edges |->
     LET r == req.readings[e]
     IN  (IF CombinedFires(s.watch[e], r, req.now) THEN r.score ELSE 0)
           + (IF PunctureFires(r) THEN r.score ELSE 0)]

(* The watches of arcs that were not judged are dropped. *)
WatchAfter(s, req) ==
  [e \in Edges |->
     IF e \in Judged(s, req)
     THEN NextWatch(s.watch[e], req.readings[e], req.now)
     ELSE NoWatch]

WatchedEdges(watch) == {e \in Edges : Watched(watch[e])}

-----------------------------------------------------------------------------
(* The queue. *)

Queued(queue) == {t \in Targets : queue[t] # << >>}

RouteScore(entries) == SumFunction([i \in DOMAIN entries |-> entries[i].score])

QueueScore(queue) == SumFunction([t \in Targets |-> RouteScore(queue[t])])

QueueExceedsScore(queue) == QueueScore(queue) > ScoreThreshold

(* Seeded fault: the threshold itself counts as diverse. *)
DiverseAtThreshold(queue) == Cardinality(Queued(queue) \cap Edges) >= DiversityThreshold

QueueIsDiverse(queue) == Cardinality(Queued(queue) \cap Edges) > DiversityThreshold

(* Seeded fault: a new entry carries no time. *)
UndatedEntry(queue, fired, scores, now) ==
  [t \in Targets |->
     IF t \in fired THEN Append(queue[t], [score |-> scores[t], lastFired |-> NoTime])
     ELSE queue[t]]

(* A trigger is added to the first entry of its route, if there is one. *)
MergeIntoQueue(queue, fired, scores, now) ==
  [t \in Targets |->
     IF t \notin fired THEN queue[t]
     ELSE IF queue[t] = << >> THEN <<[score |-> scores[t], lastFired |-> now]>>
     ELSE [queue[t] EXCEPT ![1] = [score |-> @.score + scores[t], lastFired |-> now]]]

(* Half the cooldown where no freshness is set: doubled to stay integral. *)
WithinFreshness(lag) ==
  IF QueueFreshnessMin = NoTime THEN 2 * lag <= CooldownMin ELSE lag <= QueueFreshnessMin

(* Some entry, that is the latest, is recent, or some queued arc is in the *)
(* congestion warning.                                                     *)
QueueFresh(queue, watched, now) ==
  \/ \E t \in Targets : \E i \in DOMAIN queue[t] : WithinFreshness(now - queue[t][i].lastFired)
  \/ Queued(queue) \cap watched # {}

-----------------------------------------------------------------------------
(* The cooldown. *)

(* No verdict but TRIGGERED leaves a choice between two states. *)
Settle(verdict, s) ==
  [verdict |-> verdict, routes |-> {}, newState |-> s, abortState |-> s]

Fire(s, abort, now, routes) ==
  [verdict |-> "TRIGGERED", routes |-> routes, abortState |-> abort,
   newState |-> [s EXCEPT !.cooldownUntil = now + CooldownMin, !.queue = NoQueue]]

(* Seeded faults: the thresholds are tested before the merge; a flag fires *)
(* without the queue; a flag waits for the cooldown.                       *)
ThresholdsBeforeMerge(s, danger, metric, scores, now) ==
  LET merged == [s EXCEPT !.queue = MergeIntoQueue(s.queue, metric, scores, now)]
  IN  IF danger # {} THEN Fire(s, s, now, Queued(s.queue) \cup danger \cup metric)
      ELSE IF metric = {} THEN Settle("SKIPPED_COOLDOWN", s)
      ELSE IF QueueExceedsScore(s.queue) \/ QueueIsDiverse(s.queue)
           THEN Fire(s, merged, now, Queued(merged.queue))
           ELSE Settle("QUEUED", merged)

DangerWithoutQueue(s, danger, metric, scores, now) ==
  IF danger # {} THEN Fire(s, s, now, danger)
  ELSE IF metric = {} THEN Settle("SKIPPED_COOLDOWN", s)
  ELSE Settle("QUEUED", [s EXCEPT !.queue = MergeIntoQueue(s.queue, metric, scores, now)])

DangerWaits(s, danger, metric, scores, now) ==
  IF metric = {} THEN Settle("SKIPPED_COOLDOWN", s)
  ELSE Settle("QUEUED", [s EXCEPT !.queue = MergeIntoQueue(s.queue, metric, scores, now)])

DecideInCooldown(s, danger, metric, scores, now) ==
  LET merged == [s EXCEPT !.queue = MergeIntoQueue(s.queue, metric, scores, now)]
  IN  IF danger # {} THEN Fire(s, s, now, Queued(s.queue) \cup danger \cup metric)
      ELSE IF metric = {} THEN Settle("SKIPPED_COOLDOWN", s)
      ELSE IF QueueExceedsScore(merged.queue) \/ QueueIsDiverse(merged.queue)
           THEN Fire(s, merged, now, Queued(merged.queue))
           ELSE Settle("QUEUED", merged)

(* Seeded fault: a stale queue is kept. *)
StaleQueueKept(s, danger, metric, watched, now) ==
  IF danger \cup metric # {} \/ QueueFresh(s.queue, watched, now)
  THEN Fire(s, s, now, Queued(s.queue) \cup danger \cup metric)
  ELSE Settle("NO_TRIGGER", s)

DecideOutOfCooldown(s, danger, metric, watched, now) ==
  IF danger \cup metric # {} THEN Fire(s, s, now, Queued(s.queue) \cup danger \cup metric)
  ELSE IF Queued(s.queue) = {} THEN Settle("NO_TRIGGER", s)
  ELSE IF QueueFresh(s.queue, watched, now) THEN Fire(s, s, now, Queued(s.queue))
  ELSE Settle("NO_TRIGGER", [s EXCEPT !.queue = NoQueue])

EvaluateCooldown(s, danger, metric, scores, watched, now) ==
  IF InCooldown(s, now)
  THEN DecideInCooldown(s, danger, metric, scores, now)
  ELSE DecideOutOfCooldown(s, danger, metric, watched, now)

-----------------------------------------------------------------------------
(***************************************************************************)
(* Retrigger counts: one more for an arc that fired, none once another arc *)
(* fired without it, kept while the arc is watched, and none after enough  *)
(* quiet cycles.  Arcs that are gone or disabled lose their entry.         *)
(***************************************************************************)
QuietAfter(entry) ==
  IF entry.quiet + 1 >= QuietCycles
  THEN [count |-> 0, quiet |-> 0]
  ELSE [entry EXCEPT !.quiet = @ + 1]

(* Seeded fault: a trigger of another arc leaves the count alone. *)
CountOutlivesOrigin(counts, enabled, fired, watched) ==
  [e \in {x \in enabled \cap Edges : x \in DOMAIN counts \/ x \in fired} |->
     IF e \in fired
     THEN [count |-> 1 + (IF e \in DOMAIN counts THEN counts[e].count ELSE 0), quiet |-> 0]
     ELSE counts[e]]

UpdateRetriggerCounts(counts, enabled, fired, watched) ==
  [e \in {x \in enabled \cap Edges : x \in DOMAIN counts \/ x \in fired} |->
     IF e \in fired
     THEN [count |-> 1 + (IF e \in DOMAIN counts THEN counts[e].count ELSE 0), quiet |-> 0]
     ELSE IF fired # {} THEN [count |-> 0, quiet |-> 0]
     ELSE IF e \in watched THEN counts[e]
     ELSE QuietAfter(counts[e])]

-----------------------------------------------------------------------------
(* A decision, with retrigger counts that count only what really fired. *)
CountRetriggers(d, req, danger, watched) ==
  LET Counted(s, fired) ==
        [s EXCEPT !.retrigger = UpdateRetriggerCounts(@, req.enabled, fired, watched)]
  IN  CASE d.verdict = "QUEUED" -> d
        [] d.verdict = "TRIGGERED" ->
             [d EXCEPT !.newState   = Counted(@, (d.routes \cap Edges) \ danger),
                       !.abortState = Counted(@, {})]
        [] OTHER -> [d EXCEPT !.newState = Counted(@, {}), !.abortState = Counted(@, {})]

Detect(state, req) ==
  LET s       == ApplyEvents(state, req)
      metric  == MetricFired(s, req)
      judged  == [s EXCEPT !.watch = WatchAfter(s, req)]
      watched == WatchedEdges(judged.watch)
  IN  IF AllTargetsInWarmup(s, req) /\ Danger(req) = {}
      THEN Settle("SKIPPED_WARMUP", s)
      ELSE CountRetriggers(
             EvaluateCooldown(judged, Danger(req), metric, FiredScores(s, req), watched, req.now),
             req, Danger(req), watched)
=============================================================================
