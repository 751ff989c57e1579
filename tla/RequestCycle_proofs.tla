------------------------- MODULE RequestCycle_proofs -------------------------
(***************************************************************************)
(* Proofs about the request cycle, for every set of targets, every request *)
(* that may come, every threshold and every duration.                      *)
(***************************************************************************)
EXTENDS RequestHistory, Operators_proofs, SequenceTheorems

-----------------------------------------------------------------------------
(* The watches. *)

LEMMA ResumedIsInstant ==
  ASSUME NEW w \in Watch, NEW t \in Int
  PROVE  ResumedSince(w, t) \in Instant
  BY WatchAssumption DEF ResumedSince, Watch, Instant

LEMMA NoWatchIsWatch == NoWatch \in Watch
  BY DEF NoWatch, Watch, Instant

LEMMA EvaluationIsWatch ==
  ASSUME NEW w \in Watch, NEW r \in Reading, NEW t \in Int
  PROVE  LET e == EvaluateStagnation(w, r, t)
         IN  /\ e.percentile \in BOOLEAN /\ e.delta \in BOOLEAN
             /\ e.since \in Instant /\ e.lastHeld \in Instant
<1> DEFINE v == UnexpiredWatch(w, t)
           since == IF ResumedSince(v, t) = NoTime THEN t ELSE ResumedSince(v, t)
<1>1. v \in Watch
  BY NoWatchIsWatch DEF UnexpiredWatch
<1>2. since \in Instant
  BY <1>1, ResumedIsInstant DEF Instant
<1>3. CASE HasStagnationBasis(r)
  <2>1. EvaluateStagnation(w, r, t) = JudgeStagnation(r, ResumedSince(v, t), t)
    BY <1>3 DEF EvaluateStagnation
  <2>2. /\ JudgeStagnation(r, ResumedSince(v, t), t).percentile = PercentileBreached(r)
        /\ JudgeStagnation(r, ResumedSince(v, t), t).delta = DeltaBreached(r)
        /\ JudgeStagnation(r, ResumedSince(v, t), t).since \in {since, NoTime}
        /\ JudgeStagnation(r, ResumedSince(v, t), t).lastHeld \in {t, NoTime}
    BY DEF JudgeStagnation
  <2> HIDE DEF v, since
  <2> QED BY <1>2, <2>1, <2>2 DEF PercentileBreached, DeltaBreached, Instant
<1>4. CASE ~HasStagnationBasis(r)
  <2>1. EvaluateStagnation(w, r, t) \in {CarryStagnation(v), NotEvaluated}
    BY <1>4 DEF EvaluateStagnation
  <2>2. /\ v.percentile \in BOOLEAN /\ v.delta \in BOOLEAN
        /\ v.since \in Instant /\ v.lastHeld \in Instant
    <3> HIDE DEF v
    <3> QED BY <1>1 DEF Watch
  <2>3. CASE EvaluateStagnation(w, r, t) = CarryStagnation(v)
    <3> HIDE DEF v
    <3> QED BY <2>2, <2>3 DEF CarryStagnation
  <2>4. CASE EvaluateStagnation(w, r, t) = NotEvaluated
    BY <2>4 DEF NotEvaluated, Instant
  <2> QED BY <2>1, <2>3, <2>4
<1> QED BY <1>3, <1>4

LEMMA NextWatchIsWatch ==
  ASSUME NEW w \in Watch, NEW r \in Reading, NEW t \in Int
  PROVE  NextWatch(w, r, t) \in Watch
<1> DEFINE e == EvaluateStagnation(w, r, t)
<1>1. /\ e.percentile \in BOOLEAN /\ e.delta \in BOOLEAN
      /\ e.since \in Instant /\ e.lastHeld \in Instant
  BY EvaluationIsWatch
<1>2. SurgeBreached(r) \in BOOLEAN
  BY DEF SurgeBreached, HasSurgeLine, Judgeable
<1>3. [percentile |-> e.percentile, delta |-> e.delta, since |-> e.since,
       lastHeld |-> e.lastHeld, surge |-> SurgeBreached(r)] \in Watch
  <2> HIDE DEF e
  <2> QED BY <1>1, <1>2 DEF Watch
<1> QED BY <1>3, NoWatchIsWatch DEF NextWatch

-----------------------------------------------------------------------------
(* The queue. *)

Queues == [Targets -> Seq(Entry)]

LEMMA NoQueueFacts == NoQueue \in Queues /\ Queued(NoQueue) = {}
<1>1. << >> \in Seq(Entry)
  BY Zenon, EmptySeq
<1> QED BY <1>1 DEF NoQueue, Queues, Queued

(* A merge queues what fired and lengthens no queue beyond one entry. *)
LEMMA MergedQueue ==
  ASSUME NEW q \in Queues, NEW F \in SUBSET Targets, NEW t \in Int,
         NEW scores, \A e \in F : scores[e] \in Nat,
         NEW m, m = MergeIntoQueue(q, F, scores, t),
         NEW x \in Targets
  PROVE  /\ m[x] \in Seq(Entry)
         /\ m[x] # << >> <=> (q[x] # << >> \/ x \in F)
         /\ Len(m[x]) = Len(q[x]) \/ (q[x] = << >> /\ Len(m[x]) = 1)
         /\ x \notin F => m[x] = q[x]
<1>1. q[x] \in Seq(Entry)
  BY DEF Queues
<1>2. CASE x \notin F
  <2>1. m[x] = q[x]
    BY <1>2 DEF MergeIntoQueue
  <2> QED BY <1>1, <1>2, <2>1
<1>3. CASE x \in F /\ q[x] = << >>
  <2> DEFINE new == [score |-> scores[x], lastFired |-> t]
  <2>1. m[x] = <<new>>
    BY <1>3 DEF MergeIntoQueue
  <2>2. new \in Entry
    BY <1>3 DEF Entry
  <2> HIDE DEF new
  <2> QED BY <1>3, <2>1, <2>2
<1>4. CASE x \in F /\ q[x] # << >>
  <2> DEFINE new == [score |-> q[x][1].score + scores[x], lastFired |-> t]
  <2>1. m[x] = [q[x] EXCEPT ![1] = new]
    BY <1>4 DEF MergeIntoQueue
  <2>2. Len(q[x]) \in Nat /\ Len(q[x]) # 0 /\ 1 \in 1 .. Len(q[x])
    BY <1>1, <1>4
  <2>3. q[x][1] \in Entry
    BY <1>1, <2>2
  <2>4. new \in Entry
    BY <1>4, <2>3 DEF Entry
  <2> HIDE DEF new
  <2>5. m[x] \in Seq(Entry) /\ Len(m[x]) = Len(q[x])
    BY <1>1, <2>1, <2>2, <2>4, ExceptSeq
  <2> QED BY <1>4, <2>2, <2>5
<1> QED BY <1>2, <1>3, <1>4

LEMMA MergeFacts ==
  ASSUME NEW q \in Queues, NEW F \in SUBSET Targets, NEW t \in Int,
         NEW scores, \A e \in F : scores[e] \in Nat,
         NEW m, m = MergeIntoQueue(q, F, scores, t)
  PROVE  m \in Queues /\ Queued(m) = Queued(q) \cup F
<1>1. \A x \in Targets : /\ m[x] \in Seq(Entry)
                         /\ m[x] # << >> <=> (q[x] # << >> \/ x \in F)
  BY MergedQueue
<1>2. m = [x \in Targets |-> m[x]]
  BY DEF MergeIntoQueue
<1> QED BY <1>1, <1>2 DEF Queues, Queued

(* Queueing again adds one entry to every route, and to nothing else. *)
LEMMA RequeueFacts ==
  ASSUME NEW q \in Queues, NEW R \in SUBSET Targets, NEW t \in Int
  PROVE  LET m == Requeue(q, R, t)
         IN  /\ m \in Queues
             /\ Queued(m) = Queued(q) \cup R
             /\ \A x \in Targets : Len(m[x]) \in {Len(q[x]), Len(q[x]) + 1}
<1> DEFINE m == Requeue(q, R, t)
           new == [score |-> 0, lastFired |-> t]
<1>0. new \in Entry
  BY DEF Entry
<1>1. ASSUME NEW x \in Targets
      PROVE  /\ m[x] \in Seq(Entry)
             /\ m[x] # << >> <=> (q[x] # << >> \/ x \in R)
             /\ Len(m[x]) \in {Len(q[x]), Len(q[x]) + 1}
  <2>1. q[x] \in Seq(Entry)
    BY DEF Queues
  <2>2. m[x] = IF x \in R THEN Append(q[x], new) ELSE q[x]
    BY DEF Requeue
  <2> HIDE DEF m, new
  <2> QED BY <1>0, <2>1, <2>2, AppendProperties
<1>2. m = [x \in Targets |-> m[x]]
  BY DEF Requeue
<1> HIDE DEF m
<1>3. m \in Queues
  BY <1>1, <1>2 DEF Queues
<1>4. Queued(m) = Queued(q) \cup R
  BY <1>1 DEF Queued
<1> QED BY <1>1, <1>3, <1>4 DEF m

-----------------------------------------------------------------------------
(* The thresholds. *)

OverThreshold(q) == QueueExceedsScore(q) \/ QueueIsDiverse(q)

Scores(entries) == [i \in DOMAIN entries |-> entries[i].score]

LEMMA ScoresFacts ==
  ASSUME NEW entries \in Seq(Entry)
  PROVE  /\ IsFiniteSet(DOMAIN entries)
         /\ Integral(Scores(entries), DOMAIN entries)
         /\ RouteScore(entries) = SumFunctionOnSet(Scores(entries), DOMAIN entries)
         /\ RouteScore(entries) \in Int
<1>1. Len(entries) \in Nat /\ DOMAIN entries = 1 .. Len(entries)
  OBVIOUS
<1>2. IsFiniteSet(DOMAIN entries)
  BY <1>1, FS_Interval
<1>3. \A i \in DOMAIN entries : entries[i].score \in Int
  <2>1. \A i \in DOMAIN entries : entries[i] \in Entry
    OBVIOUS
  <2> QED BY <2>1 DEF Entry
<1>4. DOMAIN Scores(entries) = DOMAIN entries /\ Integral(Scores(entries), DOMAIN entries)
  BY <1>3 DEF Scores, Integral
<1>5. RouteScore(entries) = SumFunctionOnSet(Scores(entries), DOMAIN Scores(entries))
  BY DEF RouteScore, Scores, SumFunction
<1>6. RouteScore(entries) = SumFunctionOnSet(Scores(entries), DOMAIN entries)
  BY <1>4, <1>5
<1>7. SumFunctionOnSet(Scores(entries), DOMAIN entries) \in Int
  BY <1>2, <1>4, SumIsInt
<1> QED BY <1>2, <1>4, <1>6, <1>7

RouteScores(q) == [t \in Targets |-> RouteScore(q[t])]

LEMMA QueueScoreFacts ==
  ASSUME NEW q \in Queues
  PROVE  /\ Integral(RouteScores(q), Targets)
         /\ QueueScore(q) = SumFunctionOnSet(RouteScores(q), Targets)
         /\ QueueScore(q) \in Int
<1>1. \A t \in Targets : RouteScore(q[t]) \in Int
  BY ScoresFacts DEF Queues
<1>2. DOMAIN RouteScores(q) = Targets /\ Integral(RouteScores(q), Targets)
  BY <1>1 DEF RouteScores, Integral
<1>3. QueueScore(q) = SumFunctionOnSet(RouteScores(q), DOMAIN RouteScores(q))
  BY DEF QueueScore, RouteScores, SumFunction
<1>4. SumFunctionOnSet(RouteScores(q), Targets) \in Int
  BY <1>2, SumIsInt, DetectionAssumption
<1> QED BY <1>2, <1>3, <1>4

LEMMA NothingScoresNothing == RouteScore(<< >>) = 0
<1>1. << >> \in Seq(Entry) /\ DOMAIN << >> = {}
  OBVIOUS
<1>2. RouteScore(<< >>) = SumFunctionOnSet(Scores(<< >>), {})
  BY <1>1, ScoresFacts
<1> QED BY <1>2, SumOfNone

\* An empty queue is over no threshold.
LEMMA NoQueueIsUnder == ~OverThreshold(NoQueue)
<1>1. \A t \in Targets : RouteScores(NoQueue)[t] = 0
  BY NothingScoresNothing DEF RouteScores, NoQueue
<1>2. /\ Integral(RouteScores(NoQueue), Targets)
      /\ QueueScore(NoQueue) = SumFunctionOnSet(RouteScores(NoQueue), Targets)
  BY NoQueueFacts, QueueScoreFacts
<1>3. QueueScore(NoQueue) = SumFunctionOnSet(RouteScores(NoQueue), {})
  <2>1. {} \in SUBSET Targets
    OBVIOUS
  <2> QED BY <1>1, <1>2, <2>1, SumOverSupport, DetectionAssumption
<1>4. QueueScore(NoQueue) = 0
  BY <1>3, SumOfNone
<1>5. Cardinality(Queued(NoQueue) \cap Edges) = 0
  BY NoQueueFacts, FS_EmptySet
<1> QED BY <1>4, <1>5, DetectionAssumption
        DEF OverThreshold, QueueExceedsScore, QueueIsDiverse

(* A merge adds a trigger's score to its route, whether the route waited   *)
(* already or not.                                                         *)
LEMMA MergedRouteScore ==
  ASSUME NEW q \in Queues, NEW F \in SUBSET Targets, NEW t \in Int,
         NEW scores, \A e \in F : scores[e] \in Nat,
         NEW m, m = MergeIntoQueue(q, F, scores, t),
         NEW x \in F
  PROVE  RouteScore(m[x]) = RouteScore(q[x]) + scores[x]
<1>1. q[x] \in Seq(Entry) /\ m[x] \in Seq(Entry) /\ scores[x] \in Int
  BY MergedQueue DEF Queues
<1>2. CASE q[x] = << >>
  <2> DEFINE new == [score |-> scores[x], lastFired |-> t]
  <2>1. m[x] = <<new>>
    BY <1>2 DEF MergeIntoQueue
  <2>2. DOMAIN m[x] = {1} /\ Scores(m[x])[1] = scores[x]
    BY <2>1 DEF Scores
  <2> HIDE DEF new
  <2>3. RouteScore(m[x]) = Scores(m[x])[1] + SumFunctionOnSet(Scores(m[x]), {1} \ {1})
    BY <1>1, <2>2, ScoresFacts, SumTakesOut
  <2>4. {1} \ {1} = {}
    OBVIOUS
  <2>5. SumFunctionOnSet(Scores(m[x]), {1} \ {1}) = 0
    BY <2>4, SumOfNone
  <2>6. RouteScore(q[x]) = 0
    BY <1>2, NothingScoresNothing
  <2> QED BY <1>1, <2>2, <2>3, <2>5, <2>6
<1>3. CASE q[x] # << >>
  <2> DEFINE D    == DOMAIN q[x]
             rest == SumFunctionOnSet(Scores(q[x]), D \ {1})
  <2>1. m[x] = [q[x] EXCEPT ![1] = [score |-> q[x][1].score + scores[x], lastFired |-> t]]
    BY <1>3 DEF MergeIntoQueue
  <2>2. 1 \in D /\ DOMAIN m[x] = D
    BY <1>1, <1>3, <2>1
  <2>3. /\ Scores(m[x])[1] = Scores(q[x])[1] + scores[x]
        /\ \A i \in D \ {1} : Scores(m[x])[i] = Scores(q[x])[i]
    BY <2>1, <2>2 DEF Scores
  <2>4. /\ IsFiniteSet(D) /\ Integral(Scores(q[x]), D) /\ Integral(Scores(m[x]), D)
        /\ RouteScore(q[x]) = SumFunctionOnSet(Scores(q[x]), D)
        /\ RouteScore(m[x]) = SumFunctionOnSet(Scores(m[x]), D)
    BY <1>1, <2>2, ScoresFacts
  <2> HIDE DEF D
  <2>5. /\ RouteScore(q[x]) = Scores(q[x])[1] + rest
        /\ RouteScore(m[x]) = Scores(m[x])[1] + SumFunctionOnSet(Scores(m[x]), D \ {1})
    BY <2>2, <2>4, SumTakesOut
  <2>6. IsFiniteSet(D \ {1}) /\ Integral(Scores(q[x]), D \ {1})
    BY <2>4, FS_RemoveElement DEF Integral
  <2>7. SumFunctionOnSet(Scores(m[x]), D \ {1}) = rest /\ rest \in Int
    BY <2>3, <2>6, SumOfSame, SumIsInt
  <2>8. Scores(q[x])[1] \in Int
    BY <2>2, <2>4 DEF Integral
  <2> HIDE DEF rest
  <2> QED BY <1>1, <2>3, <2>5, <2>7, <2>8
<1> QED BY <1>2, <1>3

LEMMA MergedScore ==
  ASSUME NEW q \in Queues, NEW F \in SUBSET Targets, NEW t \in Int,
         NEW scores, \A e \in F : scores[e] \in Nat,
         NEW m, m = MergeIntoQueue(q, F, scores, t)
  PROVE  QueueScore(m) = QueueScore(q) + SumFunctionOnSet(scores, F)
<1> DEFINE add == [x \in Targets |-> IF x \in F THEN scores[x] ELSE 0]
<1>1. m \in Queues
  BY MergeFacts
<1>2. Integral(add, Targets) /\ Integral(scores, F) /\ IsFiniteSet(Targets) /\ IsFiniteSet(F)
  BY DetectionAssumption, FS_Subset DEF Integral
<1>3. ASSUME NEW x \in Targets
      PROVE  RouteScores(m)[x] = RouteScores(q)[x] + add[x]
  <2>1. CASE x \in F
    BY <2>1, MergedRouteScore DEF RouteScores
  <2>2. CASE x \notin F
    <3>1. m[x] = q[x]
      BY <2>2, MergedQueue
    <3>2. RouteScore(q[x]) \in Int
      BY ScoresFacts DEF Queues
    <3> QED BY <2>2, <3>1, <3>2 DEF RouteScores
  <2> QED BY <2>1, <2>2
<1>4. SumFunctionOnSet(add, Targets) = SumFunctionOnSet(add, F)
  <2>1. \A x \in Targets \ F : add[x] = 0
    OBVIOUS
  <2> HIDE DEF add
  <2> QED BY <1>2, <2>1, SumOverSupport
<1>5. SumFunctionOnSet(add, F) = SumFunctionOnSet(scores, F)
  <2>1. \A x \in F : add[x] = scores[x]
    OBVIOUS
  <2> HIDE DEF add
  <2> QED BY <1>2, <2>1, SumOfSame
<1> HIDE DEF add
<1>6. SumFunctionOnSet(RouteScores(m), Targets)
        = SumFunctionOnSet(RouteScores(q), Targets) + SumFunctionOnSet(add, Targets)
  BY <1>2, <1>3, QueueScoreFacts, SumOfSums
<1> QED BY <1>1, <1>4, <1>5, <1>6, QueueScoreFacts

-----------------------------------------------------------------------------
(* The events. *)

(* x and s agree on all that decides when and what waits. *)
SameWaiting(x, s) ==
  /\ x.queue = s.queue
  /\ x.skipCount = s.skipCount

(* No arc has a higher retrigger count in x than in s. *)
NoneCounted(x, s) == \A e \in Edges : CountOf(x, e) <= CountOf(s, e)

Scheduled(req) == Named(req.events, ScheduledKinds) # {}

LEMMA EventsKeep ==
  ASSUME NEW s, DetectionState(s), NEW req, req.now \in Int
  PROVE  LET a == ApplyEvents(s, req)
         IN  /\ DetectionState(a)
             /\ SameWaiting(a, s)
             /\ a.cooldownUntil = IF Scheduled(req) THEN NoTime ELSE s.cooldownUntil
             /\ NoneCounted(a, s)
<1> DEFINE w == ApplyWarmupEvents(s, req)
           c == ApplyScheduledEvents(w, req)
           a == ApplyEvents(s, req)
<1>1. /\ DetectionState(w) /\ SameWaiting(w, s)
      /\ w.cooldownUntil = s.cooldownUntil /\ w.retrigger = s.retrigger
  <2> DEFINE About(t) == {i \in DOMAIN req.events :
                            /\ req.events[i].target = t
                            /\ req.events[i].kind \in WarmupKinds \cup {"DISABLE"}}
             Last(t) == CHOOSE i \in About(t) : \A j \in About(t) : j <= i
             warmup == [t \in Targets |->
                          IF About(t) = {} THEN s.warmup[t]
                          ELSE IF req.events[Last(t)].kind = "DISABLE" THEN NoTime
                          ELSE req.now + WarmupMin]
  <2>1. w = [s EXCEPT !.warmup = warmup]
    BY DEF ApplyWarmupEvents
  <2>2. warmup \in [Targets -> Instant]
    <3>1. \A t \in Targets : warmup[t] \in {s.warmup[t], NoTime, req.now + WarmupMin}
      OBVIOUS
    <3>2. \A t \in Targets : s.warmup[t] \in Instant
      BY DEF DetectionState
    <3>3. req.now + WarmupMin \in Instant /\ NoTime \in Instant
      BY DetectionAssumption DEF Instant
    <3>4. warmup = [t \in Targets |-> warmup[t]]
      OBVIOUS
    <3> HIDE DEF warmup
    <3> QED BY <3>1, <3>2, <3>3, <3>4
  <2> HIDE DEF warmup, w
  <2> QED BY <2>1, <2>2 DEF DetectionState, SameWaiting
<1>2. /\ DetectionState(c) /\ SameWaiting(c, s) /\ c.retrigger = s.retrigger
      /\ c.cooldownUntil = IF Scheduled(req) THEN NoTime ELSE s.cooldownUntil
  <2> HIDE DEF w
  <2>1. Scheduled(req) <=> \E i \in DOMAIN req.events : req.events[i].kind \in ScheduledKinds
    BY DEF Scheduled, Named
  <2>2. CASE Scheduled(req)
    <3>1. c = [w EXCEPT !.cooldownUntil = NoTime]
      BY <2>1, <2>2 DEF ApplyScheduledEvents
    <3> HIDE DEF c
    <3> QED BY <1>1, <2>2, <3>1 DEF DetectionState, SameWaiting, Instant
  <2>3. CASE ~Scheduled(req)
    BY <1>1, <2>1, <2>3 DEF ApplyScheduledEvents
  <2> QED BY <2>2, <2>3
<1>3. /\ DetectionState(a) /\ SameWaiting(a, s) /\ a.cooldownUntil = c.cooldownUntil
      /\ NoneCounted(a, s)
  <2> DEFINE f == c.retrigger
             g == [e \in DOMAIN f |->
                     IF e \in Named(req.events, {"DANGER_FLAG_DOWN"})
                     THEN [count |-> 0, quiet |-> 0] ELSE f[e]]
  <2>1. a = [c EXCEPT !.retrigger = g]
    BY DEF ApplyEvents, ApplyDangerFlagDown
  <2> HIDE DEF c, a
  <2>2. RetriggerCounts(f)
    BY <1>2 DEF DetectionState
  <2>3. \A e \in DOMAIN f : g[e] \in Retrigger /\ g[e].count <= f[e].count
    BY <2>2 DEF RetriggerCounts, Retrigger
  <2>4. DOMAIN g = DOMAIN f /\ g = [e \in DOMAIN g |-> g[e]]
    OBVIOUS
  <2> HIDE DEF g, f
  <2>5. RetriggerCounts(g)
    BY <2>2, <2>3, <2>4 DEF RetriggerCounts
  <2>6. /\ DetectionState(a) /\ SameWaiting(a, s) /\ a.cooldownUntil = c.cooldownUntil
        /\ a.retrigger = g
    BY <1>2, <2>1, <2>5 DEF DetectionState, SameWaiting
  <2>7. NoneCounted(a, s)
    BY <1>2, <2>2, <2>3, <2>4, <2>6 DEF NoneCounted, CountOf, f
  <2> QED BY <2>6, <2>7
<1> QED BY <1>2, <1>3

-----------------------------------------------------------------------------
(* The cooldown and the retrigger counts. *)

(* What fires without a flag in the cooldown has just gone over a          *)
(* threshold.                                                              *)
CooldownObserved(s, D, M, merged, t) ==
  InCooldown(s, t) /\ D = {} => M # {} /\ OverThreshold(merged)

(* d is a decision about the waiting routes of s: everything fires, the    *)
(* arcs M join the queue, nothing happens, or a stale queue is dropped.    *)
Fires(s, d, D, M, merged, t) ==
  /\ d.verdict = "TRIGGERED"
  /\ d.routes = Queued(s.queue) \cup D \cup M /\ d.routes # {}
  /\ d.newState.queue = NoQueue
  /\ d.newState.cooldownUntil = t + CooldownMin
  /\ d.abortState.queue \in {s.queue, merged}
  /\ CooldownObserved(s, D, M, merged, t)

Defers(s, d, D, M, merged, t) ==
  /\ d.verdict = "QUEUED"
  /\ D = {} /\ M # {}
  /\ d.routes = {}
  /\ d.newState.queue = merged
  /\ InCooldown(s, t) /\ ~OverThreshold(merged)

Rests(s, d, D, M, t) ==
  /\ \/ d.verdict = "SKIPPED_COOLDOWN" /\ InCooldown(s, t)
     \/ d.verdict = "NO_TRIGGER" /\ Queued(s.queue) = {}
  /\ D = {} /\ M = {}
  /\ d.routes = {}
  /\ d.newState.queue = s.queue

Drops(s, d, D, M, watched, t) ==
  /\ d.verdict = "NO_TRIGGER"
  /\ D = {} /\ M = {}
  /\ d.routes = {}
  /\ d.newState.queue = NoQueue
  /\ Queued(s.queue) # {}
  /\ ~InCooldown(s, t) /\ ~QueueFresh(s.queue, watched, t)

(* What every candidate state keeps, and what only firing may touch. *)
Candidate(x, s) ==
  /\ DetectionState(x)
  /\ x.skipCount = s.skipCount /\ x.warmup = s.warmup /\ x.watch = s.watch

Unfired(x, s) == x.cooldownUntil = s.cooldownUntil /\ NoneCounted(x, s)

Decision(s, d, D, M, merged, watched, t) ==
  /\ d = [verdict |-> d.verdict, routes |-> d.routes,
          newState |-> d.newState, abortState |-> d.abortState]
  /\ Candidate(d.newState, s) /\ Candidate(d.abortState, s)
  /\ Unfired(d.abortState, s)
  /\ d.verdict # "TRIGGERED" => Unfired(d.newState, s)
  /\ \/ Fires(s, d, D, M, merged, t)
     \/ Defers(s, d, D, M, merged, t)
     \/ Rests(s, d, D, M, t)
     \/ Drops(s, d, D, M, watched, t)

LEMMA UntouchedIsCandidate ==
  ASSUME NEW s, DetectionState(s)
  PROVE  Candidate(s, s) /\ Unfired(s, s)
<1>1. \A e \in Edges : CountOf(s, e) \in Nat
  BY DEF DetectionState, RetriggerCounts, Retrigger, CountOf
<1> QED BY <1>1 DEF Candidate, Unfired, NoneCounted

LEMMA NewQueueIsCandidate ==
  ASSUME NEW s, DetectionState(s), NEW q \in Queues, NEW x, x = [s EXCEPT !.queue = q]
  PROVE  Candidate(x, s) /\ Unfired(x, s) /\ x.queue = q
<1>1. DetectionState(x) /\ x.queue = q
  BY DEF DetectionState, Queues
<1>2. /\ x.skipCount = s.skipCount /\ x.warmup = s.warmup /\ x.watch = s.watch
      /\ x.cooldownUntil = s.cooldownUntil /\ x.retrigger = s.retrigger
  BY DEF DetectionState
<1>3. NoneCounted(x, s)
  BY <1>2, UntouchedIsCandidate DEF Unfired, NoneCounted, CountOf
<1> QED BY <1>1, <1>2, <1>3 DEF Candidate, Unfired

WithQueue(s, q, k) == [s EXCEPT !.queue = q, !.skipCount = k]

LEMMA NewQueueAndSkips ==
  ASSUME NEW s, DetectionState(s), NEW q \in Queues, NEW k \in Nat
  PROVE  LET x == WithQueue(s, q, k)
         IN  /\ DetectionState(x) /\ x.queue = q /\ x.skipCount = k
             /\ x.warmup = s.warmup /\ x.cooldownUntil = s.cooldownUntil
             /\ x.retrigger = s.retrigger
<1> DEFINE x == WithQueue(s, q, k)
<1>1. x = [s EXCEPT !.queue = q, !.skipCount = k]
  BY DEF WithQueue
<1> HIDE DEF x
<1>2. /\ DetectionState(x) /\ x.queue = q /\ x.skipCount = k
      /\ x.warmup = s.warmup /\ x.cooldownUntil = s.cooldownUntil
      /\ x.retrigger = s.retrigger
  BY <1>1 DEF DetectionState, Queues
<1> QED BY <1>2 DEF x

\* The state after firing.
Fired(s, t) == [s EXCEPT !.cooldownUntil = t + CooldownMin, !.queue = NoQueue]

LEMMA FiredState ==
  ASSUME NEW s, DetectionState(s), NEW t \in Int, NEW x, x = Fired(s, t)
  PROVE  /\ Candidate(x, s) /\ x.queue = NoQueue
         /\ x.cooldownUntil = t + CooldownMin /\ x.retrigger = s.retrigger
<1>1. t + CooldownMin \in Instant
  BY DetectionAssumption DEF Instant
<1> QED BY <1>1, NoQueueFacts DEF DetectionState, Candidate, Queues, Fired

LEMMA FiringDecides ==
  ASSUME NEW s, DetectionState(s), NEW D, NEW M, NEW merged \in Queues, NEW watched,
         NEW t \in Int, NEW all, all = Queued(s.queue) \cup D \cup M, all # {},
         CooldownObserved(s, D, M, merged, t),
         NEW abort \in {s, [s EXCEPT !.queue = merged]},
         NEW d, d = Fire(s, abort, t, all)
  PROVE  Decision(s, d, D, M, merged, watched, t)
<1> DEFINE new == [s EXCEPT !.cooldownUntil = t + CooldownMin, !.queue = NoQueue]
<1>1. /\ d.verdict = "TRIGGERED" /\ d.routes = all /\ d.abortState = abort
      /\ d.newState = new
      /\ d = [verdict |-> d.verdict, routes |-> d.routes,
              newState |-> d.newState, abortState |-> d.abortState]
  BY DEF Fire
<1>2. Candidate(new, s) /\ new.queue = NoQueue /\ new.cooldownUntil = t + CooldownMin
  <2>1. new = Fired(s, t)
    BY DEF Fired
  <2> HIDE DEF new
  <2> QED BY <2>1, FiredState
<1>3. Candidate(abort, s) /\ Unfired(abort, s) /\ abort.queue \in {s.queue, merged}
  <2>1. CASE abort = s
    BY <2>1, UntouchedIsCandidate
  <2>2. CASE abort = [s EXCEPT !.queue = merged]
    BY <2>2, NewQueueIsCandidate
  <2> QED BY <2>1, <2>2
<1> HIDE DEF new
<1> QED BY <1>1, <1>2, <1>3 DEF Decision, Fires

LEMMA SettlingDecides ==
  ASSUME NEW s, DetectionState(s), NEW D, NEW M, NEW merged, NEW watched, NEW t,
         NEW q \in Queues, NEW v, v # "TRIGGERED",
         NEW x \in {s, [s EXCEPT !.queue = q]},
         NEW d, d = Settle(v, x),
         \/ Defers(s, d, D, M, merged, t)
         \/ Rests(s, d, D, M, t)
         \/ Drops(s, d, D, M, watched, t)
  PROVE  Decision(s, d, D, M, merged, watched, t)
<1>1. /\ d.verdict = v /\ d.newState = x /\ d.abortState = x
      /\ d = [verdict |-> d.verdict, routes |-> d.routes,
              newState |-> d.newState, abortState |-> d.abortState]
  BY DEF Settle
<1>2. Candidate(x, s) /\ Unfired(x, s)
  <2>1. CASE x = s
    BY <2>1, UntouchedIsCandidate
  <2>2. CASE x = [s EXCEPT !.queue = q]
    BY <2>2, NewQueueIsCandidate
  <2> QED BY <2>1, <2>2
<1> QED BY <1>1, <1>2 DEF Decision

LEMMA CooldownDecides ==
  ASSUME NEW s, DetectionState(s), NEW D \in SUBSET Targets, NEW M \in SUBSET Edges,
         NEW scores, \A e \in M : scores[e] \in Nat, NEW watched, NEW t \in Int,
         NEW merged, merged = MergeIntoQueue(s.queue, M, scores, t),
         NEW d, d = EvaluateCooldown(s, D, M, scores, watched, t)
  PROVE  Decision(s, d, D, M, merged, watched, t)
<1> DEFINE all == Queued(s.queue) \cup D \cup M
           after == [s EXCEPT !.queue = merged]
           empty == [s EXCEPT !.queue = NoQueue]
<1>1. M \in SUBSET Targets /\ s.queue \in Queues
  BY DEF Targets, DetectionState, Queues
<1>2. merged \in Queues /\ Queued(merged) = Queued(s.queue) \cup M
  BY <1>1, MergeFacts
<1>3. after.queue = merged /\ empty.queue = NoQueue
  BY <1>2, NewQueueIsCandidate, NoQueueFacts
<1>4. CASE InCooldown(s, t)
  <2>1. CASE D # {}
    <3>1. d = Fire(s, s, t, all)
      BY <1>4, <2>1 DEF EvaluateCooldown, DecideInCooldown
    <3>2. CooldownObserved(s, D, M, merged, t)
      BY <2>1 DEF CooldownObserved
    <3> HIDE DEF after, empty
    <3> QED BY <1>2, <2>1, <3>1, <3>2, FiringDecides
  <2>2. CASE D = {} /\ M = {}
    <3>1. d = Settle("SKIPPED_COOLDOWN", s)
      BY <1>4, <2>2 DEF EvaluateCooldown, DecideInCooldown
    <3>2. Rests(s, d, D, M, t)
      BY <1>4, <2>2, <3>1 DEF Rests, Settle
    <3> QED BY <1>1, <3>1, <3>2, SettlingDecides
  <2>3. CASE D = {} /\ M # {}
    <3>1. d = IF OverThreshold(after.queue)
              THEN Fire(s, after, t, Queued(after.queue))
              ELSE Settle("QUEUED", after)
      BY <1>4, <2>3 DEF EvaluateCooldown, DecideInCooldown, OverThreshold
    <3>2. CASE ~OverThreshold(merged)
      <4>1. d = Settle("QUEUED", after)
        <5> HIDE DEF after
        <5> QED BY <1>3, <3>1, <3>2
      <4>2. Defers(s, d, D, M, merged, t)
        <5> HIDE DEF after
        <5> QED BY <1>3, <1>4, <2>3, <3>2, <4>1 DEF Defers, Settle
      <4> QED BY <1>2, <4>1, <4>2, SettlingDecides
    <3>3. CASE OverThreshold(merged)
      <4>1. d = Fire(s, after, t, Queued(after.queue))
        <5> HIDE DEF after
        <5> QED BY <1>3, <3>1, <3>3
      <4>2. Queued(after.queue) = all /\ all # {}
        BY <1>2, <1>3, <2>3
      <4>3. CooldownObserved(s, D, M, merged, t)
        BY <2>3, <3>3 DEF CooldownObserved
      <4> QED BY <1>2, <4>1, <4>2, <4>3, FiringDecides
    <3> QED BY <3>2, <3>3
  <2> QED BY <2>1, <2>2, <2>3
<1>5. CASE ~InCooldown(s, t)
  <2>0. CooldownObserved(s, D, M, merged, t)
    BY <1>5 DEF CooldownObserved
  <2>1. CASE D \cup M # {}
    <3>1. d = Fire(s, s, t, all)
      BY <1>5, <2>1 DEF EvaluateCooldown, DecideOutOfCooldown
    <3> QED BY <1>2, <2>0, <2>1, <3>1, FiringDecides
  <2>2. CASE D \cup M = {} /\ Queued(s.queue) = {}
    <3>1. d = Settle("NO_TRIGGER", s)
      BY <1>5, <2>2 DEF EvaluateCooldown, DecideOutOfCooldown
    <3>2. Rests(s, d, D, M, t)
      BY <2>2, <3>1 DEF Rests, Settle
    <3> QED BY <1>1, <3>1, <3>2, SettlingDecides
  <2>3. CASE D \cup M = {} /\ Queued(s.queue) # {} /\ QueueFresh(s.queue, watched, t)
    <3>1. d = Fire(s, s, t, Queued(s.queue))
      BY <1>5, <2>3 DEF EvaluateCooldown, DecideOutOfCooldown
    <3>2. Queued(s.queue) = all
      BY <2>3
    <3> QED BY <1>2, <2>0, <2>3, <3>1, <3>2, FiringDecides
  <2>4. CASE D \cup M = {} /\ Queued(s.queue) # {} /\ ~QueueFresh(s.queue, watched, t)
    <3>1. d = Settle("NO_TRIGGER", empty)
      BY <1>5, <2>4 DEF EvaluateCooldown, DecideOutOfCooldown
    <3>2. Drops(s, d, D, M, watched, t)
      <4> HIDE DEF empty
      <4> QED BY <1>3, <1>5, <2>4, <3>1 DEF Drops, Settle
    <3> QED BY <3>1, <3>2, NoQueueFacts, SettlingDecides
  <2> QED BY <2>1, <2>2, <2>3, <2>4
<1> QED BY <1>4, <1>5

(* The new counts are counts of arcs; without a fired arc none is higher.  *)
LEMMA UpdatedCounts ==
  ASSUME NEW f, RetriggerCounts(f), NEW enabled, NEW fired, NEW watched,
         NEW g, g = UpdateRetriggerCounts(f, enabled, fired, watched)
  PROVE  /\ RetriggerCounts(g)
         /\ fired = {} => \A e \in DOMAIN g : e \in DOMAIN f /\ g[e].count <= f[e].count
<1>1. /\ DOMAIN g = {e \in enabled \cap Edges : e \in DOMAIN f \/ e \in fired}
      /\ g = [e \in DOMAIN g |-> g[e]]
  BY DEF UpdateRetriggerCounts
<1>2. ASSUME NEW e \in DOMAIN f
      PROVE  /\ f[e] \in Retrigger
             /\ QuietAfter(f[e]) \in Retrigger
             /\ QuietAfter(f[e]).count <= f[e].count
  <2>1. f[e] \in Retrigger
    BY DEF RetriggerCounts
  <2> QED BY <2>1 DEF QuietAfter, Retrigger
<1>3. ASSUME NEW e \in DOMAIN g
      PROVE  /\ g[e] \in Retrigger
             /\ fired = {} => e \in DOMAIN f /\ g[e].count <= f[e].count
  <2>1. CASE e \in fired
    <3>1. g[e] = [count |-> 1 + (IF e \in DOMAIN f THEN f[e].count ELSE 0), quiet |-> 0]
      BY <1>1, <2>1 DEF UpdateRetriggerCounts
    <3>2. (IF e \in DOMAIN f THEN f[e].count ELSE 0) \in Nat
      BY <1>2 DEF Retrigger
    <3> QED BY <2>1, <3>1, <3>2 DEF Retrigger
  <2>2. CASE e \notin fired
    <3>1. e \in DOMAIN f
      BY <1>1, <2>2
    <3>2. g[e] \in {[count |-> 0, quiet |-> 0], f[e], QuietAfter(f[e])}
      BY <1>1, <2>2 DEF UpdateRetriggerCounts
    <3> QED BY <1>2, <3>1, <3>2 DEF Retrigger
  <2> QED BY <2>1, <2>2
<1> QED BY <1>1, <1>3 DEF RetriggerCounts

(* Counting changes the retrigger counts only, and raises none unless      *)
(* something fired.                                                        *)
LEMMA CountedCandidate ==
  ASSUME NEW s, NEW x, Candidate(x, s), NEW enabled, NEW fired, NEW watched,
         NEW y, y = [x EXCEPT !.retrigger =
                       UpdateRetriggerCounts(x.retrigger, enabled, fired, watched)]
  PROVE  /\ Candidate(y, s) /\ y.queue = x.queue /\ y.cooldownUntil = x.cooldownUntil
         /\ fired = {} /\ DetectionState(s) /\ Unfired(x, s) => Unfired(y, s)
<1> DEFINE g == UpdateRetriggerCounts(x.retrigger, enabled, fired, watched)
<1>1. DetectionState(x) /\ RetriggerCounts(x.retrigger)
  BY DEF Candidate, DetectionState
<1>2. /\ RetriggerCounts(g)
      /\ fired = {} => \A e \in DOMAIN g :
                          e \in DOMAIN x.retrigger /\ g[e].count <= x.retrigger[e].count
  BY <1>1, UpdatedCounts
<1> HIDE DEF g
<1>3. y = [x EXCEPT !.retrigger = g]
  BY DEF g
<1>4. /\ DetectionState(y) /\ y.retrigger = g /\ y.queue = x.queue
      /\ y.skipCount = x.skipCount /\ y.warmup = x.warmup /\ y.watch = x.watch
      /\ y.cooldownUntil = x.cooldownUntil
  BY <1>1, <1>2, <1>3 DEF DetectionState
<1>5. Candidate(y, s)
  BY <1>4 DEF Candidate
<1>6. ASSUME fired = {}, DetectionState(s), Unfired(x, s) PROVE Unfired(y, s)
  <2>1. ASSUME NEW e \in Edges PROVE CountOf(y, e) <= CountOf(s, e)
    <3>1. CountOf(x, e) <= CountOf(s, e)
      BY <1>6 DEF Unfired, NoneCounted
    <3>2. CountOf(x, e) \in Nat /\ CountOf(s, e) \in Nat
      BY <1>1, <1>6 DEF DetectionState, RetriggerCounts, Retrigger, CountOf
    <3>3. CountOf(y, e) \in Nat /\ CountOf(y, e) <= CountOf(x, e)
      <4>1. CASE e \in DOMAIN g
        BY <1>2, <1>4, <1>6, <3>2, <4>1 DEF CountOf, RetriggerCounts, Retrigger
      <4>2. CASE e \notin DOMAIN g
        BY <1>4, <3>2, <4>2 DEF CountOf
      <4> QED BY <4>1, <4>2
    <3> HIDE DEF g
    <3> QED BY <3>1, <3>2, <3>3
  <2> QED BY <1>4, <1>6, <2>1 DEF Unfired, NoneCounted
<1> QED BY <1>4, <1>5, <1>6

LEMMA CountingDecides ==
  ASSUME NEW s, DetectionState(s), NEW req, NEW D, NEW M, NEW merged, NEW watched, NEW t,
         NEW d, Decision(s, d, D, M, merged, watched, t),
         NEW c, c = CountRetriggers(d, req, D, watched)
  PROVE  Decision(s, c, D, M, merged, watched, t)
<1> DEFINE Recounted(x, fired) ==
             [x EXCEPT !.retrigger =
                UpdateRetriggerCounts(@, req.enabled, fired, watched)]
<1>1. CASE d.verdict = "QUEUED"
  BY <1>1 DEF CountRetriggers
<1>2. ASSUME d.verdict # "QUEUED",
             NEW fired, d.verdict # "TRIGGERED" => fired = {},
             c = [d EXCEPT !.newState = Recounted(@, fired), !.abortState = Recounted(@, {})]
      PROVE  Decision(s, c, D, M, merged, watched, t)
  <2>0. d = [verdict |-> d.verdict, routes |-> d.routes,
             newState |-> d.newState, abortState |-> d.abortState]
    BY DEF Decision
  <2>1. /\ c.verdict = d.verdict /\ c.routes = d.routes
        /\ c.newState = Recounted(d.newState, fired)
        /\ c.abortState = Recounted(d.abortState, {})
        /\ c = [verdict |-> c.verdict, routes |-> c.routes,
                newState |-> c.newState, abortState |-> c.abortState]
    BY <1>2, <2>0
  <2>2. /\ Candidate(c.newState, s) /\ c.newState.queue = d.newState.queue
        /\ c.newState.cooldownUntil = d.newState.cooldownUntil
        /\ d.verdict # "TRIGGERED" => Unfired(c.newState, s)
    BY <1>2, <2>1, CountedCandidate DEF Decision
  <2>3. /\ Candidate(c.abortState, s) /\ c.abortState.queue = d.abortState.queue
        /\ Unfired(c.abortState, s)
    BY <2>1, CountedCandidate DEF Decision
  <2> HIDE DEF Recounted
  <2> QED BY <2>1, <2>2, <2>3 DEF Decision, Fires, Defers, Rests, Drops
<1>3. CASE d.verdict = "TRIGGERED"
  BY <1>2, <1>3 DEF CountRetriggers
<1>4. CASE d.verdict \notin {"QUEUED", "TRIGGERED"}
  BY <1>2, <1>4 DEF CountRetriggers
<1> QED BY <1>1, <1>3, <1>4

(* What firing does to the counts: one more for what fired, none for the   *)
(* rest, and nothing at all where only flagged arcs fired.                 *)
CountsAfter(x, s, fired) ==
  \A e \in Edges :
    CountOf(x, e) <= IF fired = {} THEN CountOf(s, e)
                     ELSE IF e \in fired THEN CountOf(s, e) + 1 ELSE 0

LEMMA VerdictKept ==
  ASSUME NEW s, NEW d, NEW D, NEW M, NEW merged, NEW watched, NEW t,
         Decision(s, d, D, M, merged, watched, t), NEW req,
         NEW c, c = CountRetriggers(d, req, D, watched)
  PROVE  c.verdict = d.verdict
<1> DEFINE Recounted(x, h) == [x EXCEPT !.retrigger =
                               UpdateRetriggerCounts(@, req.enabled, h, watched)]
<1>1. \/ c = d
      \/ \E h : c = [d EXCEPT !.newState = Recounted(@, h), !.abortState = Recounted(@, {})]
  <2>1. \/ d.verdict = "QUEUED" /\ c = d
        \/ /\ d.verdict = "TRIGGERED"
           /\ c = [d EXCEPT !.newState = Recounted(@, (d.routes \cap Edges) \ D),
                            !.abortState = Recounted(@, {})]
        \/ c = [d EXCEPT !.newState = Recounted(@, {}), !.abortState = Recounted(@, {})]
    BY DEF CountRetriggers
  <2> HIDE DEF Recounted
  <2> QED BY <2>1
<1>2. d = [verdict |-> d.verdict, routes |-> d.routes,
           newState |-> d.newState, abortState |-> d.abortState]
  BY DEF Decision
<1> HIDE DEF Recounted
<1> QED BY <1>1, <1>2

LEMMA FiringCounts ==
  ASSUME NEW s, DetectionState(s), NEW req, NEW D, NEW M, NEW scores, NEW watched,
         NEW t \in Int, NEW d, d = EvaluateCooldown(s, D, M, scores, watched, t), d.verdict = "TRIGGERED",
         NEW c, c = CountRetriggers(d, req, D, watched)
  PROVE  CountsAfter(c.newState, s, (c.routes \cap Edges) \ D)
<1> DEFINE f     == s.retrigger
           fired == (d.routes \cap Edges) \ D
           g     == UpdateRetriggerCounts(f, req.enabled, fired, watched)
           new   == [s EXCEPT !.cooldownUntil = t + CooldownMin, !.queue = NoQueue]
           Recounted(x, h) == [x EXCEPT !.retrigger =
                               UpdateRetriggerCounts(@, req.enabled, h, watched)]
<1>1. \E abort, all : d = Fire(s, abort, t, all)
  <2>1. \A v, x : d = Settle(v, x) => d.verdict = v
    BY DEF Settle
  <2> QED BY <2>1 DEF EvaluateCooldown, DecideInCooldown, DecideOutOfCooldown
<1>2. PICK abort, all : d = Fire(s, abort, t, all)
  BY <1>1
<1>3. c = [d EXCEPT !.newState = Recounted(@, fired), !.abortState = Recounted(@, {})]
  BY DEF CountRetriggers
<1>4. d = [verdict |-> "TRIGGERED", routes |-> all, abortState |-> abort, newState |-> new]
  BY <1>2 DEF Fire
<1>5. c.routes = d.routes /\ c.newState = Recounted(new, fired)
  <2> HIDE DEF new, Recounted, fired
  <2> QED BY <1>3, <1>4
<1>6. new.retrigger = f /\ \A r : [new EXCEPT !.retrigger = r].retrigger = r
  <2>1. PICK x : x = new /\ Candidate(x, s) /\ x.retrigger = s.retrigger
    <3>1. new = Fired(s, t)
      BY DEF Fired
    <3> HIDE DEF new
    <3> QED BY <3>1, FiredState
  <2>2. \A r : [x EXCEPT !.retrigger = r].retrigger = r
    BY <2>1 DEF Candidate, DetectionState
  <2> HIDE DEF new
  <2> QED BY <2>1, <2>2
<1>7. c.newState.retrigger = g
  <2>1. Recounted(new, fired) = [new EXCEPT !.retrigger = g]
    <3> HIDE DEF new, f, fired
    <3> QED BY <1>6
  <2> HIDE DEF new, fired, f, g, Recounted
  <2> QED BY <1>5, <1>6, <2>1
<1>8. RetriggerCounts(f)
  BY DEF DetectionState
<1> HIDE DEF f, fired, new
<1>9. DOMAIN g = {e \in req.enabled \cap Edges : e \in DOMAIN f \/ e \in fired}
  BY DEF UpdateRetriggerCounts
<1>10. ASSUME NEW e \in Edges
       PROVE  CountOf(c.newState, e) <= IF fired = {} THEN CountOf(s, e)
                                        ELSE IF e \in fired THEN CountOf(s, e) + 1 ELSE 0
  <2>1. CountOf(s, e) \in Nat /\ CountOf(s, e) = IF e \in DOMAIN f THEN f[e].count ELSE 0
    BY <1>8 DEF CountOf, RetriggerCounts, Retrigger, f
  <2>2. CountOf(c.newState, e) = IF e \in DOMAIN g THEN g[e].count ELSE 0
    BY <1>7 DEF CountOf
  <2>3. CASE e \notin DOMAIN g
    <3> HIDE DEF g
    <3> QED BY <2>1, <2>2, <2>3
  <2>4. CASE e \in DOMAIN g /\ e \in fired
    <3>1. g[e].count = 1 + CountOf(s, e)
      BY <2>1, <2>4 DEF UpdateRetriggerCounts
    <3> HIDE DEF g
    <3> QED BY <2>1, <2>2, <2>4, <3>1
  <2>5. CASE e \in DOMAIN g /\ e \notin fired /\ fired # {}
    <3>1. g[e].count = 0
      BY <2>5 DEF UpdateRetriggerCounts
    <3> HIDE DEF g
    <3> QED BY <2>1, <2>2, <2>5, <3>1
  <2>6. CASE e \in DOMAIN g /\ fired = {}
    <3>1. e \in DOMAIN f /\ g[e].count <= f[e].count
      BY <1>8, <2>6, UpdatedCounts
    <3> HIDE DEF g
    <3> QED BY <2>1, <2>2, <2>6, <3>1
  <2> QED BY <2>3, <2>4, <2>5, <2>6
<1> QED BY <1>5, <1>10 DEF CountsAfter, fired

-----------------------------------------------------------------------------
(* One detection pass. *)

LEMMA RequestFacts ==
  ASSUME now' \in Nat, NEW req \in Requests
  PROVE  /\ req.now = now' /\ req.now \in Int
         /\ req.readings \in [Edges -> Reading]
         /\ req.events \in Seq(Event)
         /\ Danger(req) \in SUBSET Targets
<1>1. /\ req.now = now' /\ req.readings \in [Edges -> Reading] /\ req.events \in Seq(Event)
  BY CycleAssumption DEF Requests
<1>2. \A i \in DOMAIN req.events : req.events[i].target \in Targets
  <2>1. \A i \in DOMAIN req.events : req.events[i] \in Event
    BY <1>1
  <2> QED BY <2>1 DEF Event
<1> QED BY <1>1, <1>2 DEF Danger, Named

LEMMA ScoresAreNat ==
  ASSUME NEW s, NEW req, req.readings \in [Edges -> Reading]
  PROVE  FiredScores(s, req) \in [Edges -> Nat]
<1>1. \A e \in Edges : req.readings[e].score \in Nat
  BY DEF Reading
<1>2. ASSUME NEW e \in Edges
      PROVE  (IF CombinedFires(s.watch[e], req.readings[e], req.now)
              THEN req.readings[e].score ELSE 0)
               + (IF PunctureFires(req.readings[e]) THEN req.readings[e].score ELSE 0) \in Nat
  BY <1>1
<1> QED BY <1>2 DEF FiredScores

(* A pass over state s judges a, the state after the request's events, and *)
(* either finds everything warming up, or decides with the watches it has  *)
(* brought up to date.                                                     *)
Judges(a, req) == [a EXCEPT !.watch = WatchAfter(a, req)]

WarmsUp(a, req, d) ==
  /\ d = Settle("SKIPPED_WARMUP", a)
  /\ Danger(req) = {} /\ MetricFired(a, req) = {}

LEMMA DetectDecides ==
  ASSUME NEW s, DetectionState(s), now' \in Nat, NEW req \in Requests,
         NEW a, a = ApplyEvents(s, req),
         NEW j, j = Judges(a, req),
         NEW merged, merged = MergeIntoQueue(s.queue, MetricFired(a, req), FiredScores(a, req), now'),
         NEW d, d = Detect(s, req)
  PROVE  /\ DetectionState(a) /\ DetectionState(j)
         /\ SameWaiting(j, s) /\ j.warmup = a.warmup /\ j.cooldownUntil = a.cooldownUntil
         /\ NoneCounted(j, s)
         /\ \/ WarmsUp(a, req, d)
            \/ /\ Decision(j, d, Danger(req), MetricFired(a, req), merged,
                           WatchedEdges(j.watch), now')
               /\ d.verdict = "TRIGGERED" =>
                    CountsAfter(d.newState, j, (d.routes \cap Edges) \ Danger(req))
<1> DEFINE D == Danger(req)
           M == MetricFired(a, req)
           scores == FiredScores(a, req)
           watched == WatchedEdges(j.watch)
           c == EvaluateCooldown(j, D, M, scores, watched, req.now)
<1>1. /\ req.now = now' /\ req.now \in Int /\ req.readings \in [Edges -> Reading]
      /\ D \in SUBSET Targets
  BY RequestFacts
<1>2. /\ DetectionState(a) /\ SameWaiting(a, s) /\ NoneCounted(a, s)
  BY <1>1, EventsKeep
<1>3. WatchAfter(a, req) \in [Edges -> Watch]
  <2>1. \A e \in Edges : a.watch[e] \in Watch /\ req.readings[e] \in Reading
    BY <1>1, <1>2 DEF DetectionState
  <2>2. \A e \in Edges : NextWatch(a.watch[e], req.readings[e], req.now) \in Watch
    BY <1>1, <2>1, NextWatchIsWatch
  <2> QED BY <2>2, NoWatchIsWatch DEF WatchAfter
<1>4. /\ DetectionState(j) /\ j.queue = a.queue /\ j.skipCount = a.skipCount
      /\ j.warmup = a.warmup /\ j.cooldownUntil = a.cooldownUntil
      /\ j.retrigger = a.retrigger /\ j.watch = WatchAfter(a, req)
  BY <1>2, <1>3 DEF DetectionState, Judges
<1>5. SameWaiting(j, s) /\ NoneCounted(j, s)
  BY <1>2, <1>4 DEF SameWaiting, NoneCounted, CountOf
<1>6. M \in SUBSET Edges
  BY DEF MetricFired, Judged
<1>7. CASE AllTargetsInWarmup(a, req) /\ D = {}
  <2>1. d = Settle("SKIPPED_WARMUP", a)
    BY <1>7 DEF Detect
  <2>2. M = {}
    BY <1>7 DEF MetricFired, Judged, AllTargetsInWarmup
  <2> QED BY <1>2, <1>4, <1>5, <1>7, <2>1, <2>2 DEF WarmsUp
<1>8. CASE ~(AllTargetsInWarmup(a, req) /\ D = {})
  <2>1. d = CountRetriggers(c, req, D, watched)
    BY <1>8 DEF Detect, Judges
  <2>2. \A e \in M : scores[e] \in Nat
    BY <1>1, <1>6, ScoresAreNat
  <2>3. merged = MergeIntoQueue(j.queue, M, scores, req.now)
    BY <1>1, <1>5 DEF SameWaiting
  <2> HIDE DEF M, scores, watched, D
  <2>4. Decision(j, c, D, M, merged, watched, req.now)
    BY <1>1, <1>4, <1>6, <2>2, <2>3, CooldownDecides
  <2>5. Decision(j, d, D, M, merged, watched, req.now)
    BY <1>4, <2>1, <2>4, CountingDecides
  <2>6. ASSUME d.verdict = "TRIGGERED" PROVE CountsAfter(d.newState, j, (d.routes \cap Edges) \ D)
    <3>1. c.verdict = "TRIGGERED"
      BY <2>1, <2>4, <2>6, VerdictKept
    <3> QED BY <1>1, <1>4, <2>1, <3>1, FiringCounts
  <2> QED BY <1>1, <1>2, <1>4, <1>5, <2>5, <2>6 DEF D, M, watched
<1> QED BY <1>7, <1>8

-----------------------------------------------------------------------------
(* One cycle, seen from outside: what a handled request does to the        *)
(* waiting routes, given the flags D and the fired arcs M.                 *)

Takes(D, M) ==
  answer'.routes = Queued(state.queue) \cup D \cup M /\ answer'.routes # {}

Optimizes(a, D, M, merged) ==
  /\ answer'.verdict = "OPTIMIZED" /\ Takes(D, M)
  /\ state'.queue = NoQueue /\ state'.skipCount = 0
  /\ state'.cooldownUntil = now' + CooldownMin
  /\ CountsAfter(state', state, (answer'.routes \cap Edges) \ D)
  /\ CooldownObserved(a, D, M, merged, now')

TimesOut(D, M, merged) ==
  /\ answer'.verdict = "SKIPPED_TIME" /\ Takes(D, M)
  /\ state.skipCount < MaxConsecutiveSkips
  /\ \E q \in {state.queue, merged} : state'.queue = Requeue(q, answer'.routes, now')
  /\ state'.skipCount = state.skipCount + 1

GivesUp(D, M) ==
  /\ answer'.verdict = "SKIPPED_TIME" /\ Takes(D, M)
  /\ state.skipCount >= MaxConsecutiveSkips
  /\ state'.queue = NoQueue /\ state'.skipCount = 0

Waits(a, D, M, merged) ==
  /\ answer'.verdict = "QUEUED" /\ answer'.routes = {}
  /\ D = {} /\ M # {}
  /\ InCooldown(a, now') /\ ~OverThreshold(merged)
  /\ state'.queue = merged /\ state'.skipCount = state.skipCount

Idles(a, D, M) ==
  /\ \/ answer'.verdict = "SKIPPED_WARMUP"
     \/ answer'.verdict = "SKIPPED_COOLDOWN" /\ InCooldown(a, now')
     \/ answer'.verdict = "SKIPPED_NO_TRIGGER" /\ Queued(state.queue) = {}
  /\ answer'.routes = {}
  /\ D = {} /\ M = {}
  /\ state'.queue = state.queue /\ state'.skipCount = state.skipCount

Forgets(a, D, M) ==
  /\ answer'.verdict = "SKIPPED_NO_TRIGGER" /\ answer'.routes = {}
  /\ D = {} /\ M = {}
  /\ state'.queue = NoQueue /\ state'.skipCount = state.skipCount
  /\ Queued(state.queue) # {} /\ ~InCooldown(a, now')
  /\ ~QueueFresh(state.queue, WatchedEdges(state'.watch), now')

Cycle(req, a, M, D, scores, merged) ==
  /\ a = ApplyEvents(state, req) /\ M = MetricFired(a, req) /\ D = Danger(req)
  /\ scores = FiredScores(a, req)
  /\ merged = MergeIntoQueue(state.queue, M, scores, now')
  /\ answer' = [verdict |-> answer'.verdict, routes |-> answer'.routes, metric |-> M,
                scores |-> scores, danger |-> D, scheduled |-> Scheduled(req)]
  /\ DetectionState(state') /\ state'.warmup = a.warmup
  /\ answer'.verdict # "OPTIMIZED" =>
       /\ state'.cooldownUntil = IF Scheduled(req) THEN NoTime ELSE state.cooldownUntil
       /\ NoneCounted(state', state)
  /\ \/ Optimizes(a, D, M, merged)
     \/ TimesOut(D, M, merged)
     \/ GivesUp(D, M)
     \/ Waits(a, D, M, merged)
     \/ Idles(a, D, M)
     \/ Forgets(a, D, M)

LEMMA HandleCycles ==
  ASSUME TypeOK, HandleRequest
  PROVE  /\ now' \in Nat
         /\ \E req \in Requests : \E a, M, D, scores, merged : Cycle(req, a, M, D, scores, merged)
<1>1. now' \in Nat
  BY CycleAssumption DEF TypeOK, HandleRequest, Advance
<1>2. PICK req \in Requests :
        \/ AnswerEarly(req, Detect(state, req))
        \/ AnswerOptimized(req, Detect(state, req))
        \/ SkipTime(req, Detect(state, req))
  BY DEF HandleRequest
<1> DEFINE a == ApplyEvents(state, req)
           j == Judges(a, req)
           M == MetricFired(a, req)
           D == Danger(req)
           scores == FiredScores(a, req)
           merged == MergeIntoQueue(state.queue, M, scores, now')
           d == Detect(state, req)
           watched == WatchedEdges(j.watch)
           v == answer'.verdict
<1>3. /\ v = IF d.verdict = "TRIGGERED" THEN v ELSE VerdictOf(d.verdict)
      /\ d.verdict = "TRIGGERED" => v \in {"OPTIMIZED", "SKIPPED_TIME"}
      /\ Return(req, d, v)
  BY <1>2 DEF AnswerEarly, AnswerOptimized, SkipTime, Return
<1>4. DetectionState(state)
  BY DEF TypeOK
<1>5. /\ DetectionState(a) /\ DetectionState(j)
      /\ SameWaiting(j, state) /\ j.warmup = a.warmup /\ j.cooldownUntil = a.cooldownUntil
      /\ NoneCounted(j, state)
      /\ \/ WarmsUp(a, req, d)
         \/ /\ Decision(j, d, D, M, merged, watched, now')
            /\ d.verdict = "TRIGGERED" =>
                 CountsAfter(d.newState, j, (d.routes \cap Edges) \ D)
  BY <1>1, <1>4, DetectDecides
<1>6. /\ SameWaiting(a, state) /\ NoneCounted(a, state)
      /\ a.cooldownUntil = IF Scheduled(req) THEN NoTime ELSE state.cooldownUntil
  BY <1>1, <1>4, RequestFacts, EventsKeep
<1>7. state' = FinalizeDetectionState(d, v, state, now')
  BY <1>1, <1>3, RequestFacts DEF Return
<1>8. v = "SKIPPED_WARMUP" => M = {}
  <2>1. CASE WarmsUp(a, req, d)
    BY <2>1 DEF WarmsUp
  <2>2. CASE Decision(j, d, D, M, merged, watched, now')
    <3> HIDE DEF a, j, M, D, merged, d, watched
    <3> QED BY <1>3, <2>2 DEF Decision, Fires, Defers, Rests, Drops, VerdictOf
  <2> QED BY <1>5, <2>1, <2>2
<1>9. answer' = [verdict |-> v, routes |-> answer'.routes, metric |-> M,
                 scores |-> scores, danger |-> D, scheduled |-> Scheduled(req)]
      /\ answer'.routes = d.routes
  BY <1>3, <1>8 DEF Return, Scheduled
<1> SUFFICES Cycle(req, a, M, D, scores, merged)
  BY <1>1
<1> HIDE DEF a, j, M, D, scores, merged, d, watched, v
<1>10. CASE WarmsUp(a, req, d)
  <2>1. d.verdict = "SKIPPED_WARMUP" /\ d.routes = {} /\ d.newState = a /\ D = {} /\ M = {}
    BY <1>10 DEF WarmsUp, Settle, D, M
  <2>2. v = "SKIPPED_WARMUP" /\ state' = a
    BY <1>3, <1>7, <2>1 DEF VerdictOf, FinalizeDetectionState
  <2>3. Idles(a, D, M)
    BY <1>6, <1>9, <2>1, <2>2 DEF Idles, SameWaiting, v
  <2> QED BY <1>5, <1>6, <1>9, <2>2, <2>3 DEF Cycle, a, M, D, scores, merged, v
<1>11. CASE /\ Decision(j, d, D, M, merged, watched, now')
            /\ d.verdict = "TRIGGERED" =>
                 CountsAfter(d.newState, j, (d.routes \cap Edges) \ D)
  <2>0. InCooldown(j, now') <=> InCooldown(a, now')
    BY <1>5 DEF InCooldown
  <2>1. /\ Candidate(d.newState, j) /\ Candidate(d.abortState, j)
        /\ Unfired(d.abortState, j)
        /\ d.verdict # "TRIGGERED" => Unfired(d.newState, j)
    BY <1>11 DEF Decision
  <2>2. ASSUME NEW x, Candidate(x, j)
        PROVE  /\ DetectionState(x) /\ x.skipCount = state.skipCount
               /\ x.warmup = a.warmup /\ x.watch = j.watch
               /\ Unfired(x, j) =>
                    /\ x.cooldownUntil = IF Scheduled(req) THEN NoTime ELSE state.cooldownUntil
                    /\ NoneCounted(x, state)
    <3>1. \A e \in Edges : CountOf(x, e) \in Nat /\ CountOf(j, e) \in Nat /\ CountOf(state, e) \in Nat
      BY <1>4, <1>5, <2>2 DEF Candidate, DetectionState, RetriggerCounts, Retrigger, CountOf
    <3>2. Unfired(x, j) => NoneCounted(x, state)
      BY <1>5, <3>1 DEF Unfired, NoneCounted
    <3> QED BY <1>5, <1>6, <2>2, <3>2 DEF Candidate, Unfired, SameWaiting
  <2>3. CASE d.verdict = "TRIGGERED" /\ v = "OPTIMIZED"
    <3>1. state' = [d.newState EXCEPT !.skipCount = 0]
      BY <1>7, <2>3 DEF FinalizeDetectionState
    <3>2. /\ DetectionState(state') /\ state'.queue = d.newState.queue
          /\ state'.warmup = d.newState.warmup /\ state'.skipCount = 0
          /\ state'.cooldownUntil = d.newState.cooldownUntil
          /\ state'.retrigger = d.newState.retrigger
      BY <2>1, <2>2, <3>1 DEF DetectionState
    <3>3. CountsAfter(state', state, (answer'.routes \cap Edges) \ D)
      <4>1. CountsAfter(d.newState, j, (answer'.routes \cap Edges) \ D)
        BY <1>9, <1>11, <2>3
      <4>2. \A e \in Edges : /\ CountOf(state', e) = CountOf(d.newState, e)
                             /\ CountOf(j, e) <= CountOf(state, e)
        BY <1>5, <3>2 DEF CountOf, NoneCounted
      <4>3. \A e \in Edges : /\ CountOf(state, e) \in Nat /\ CountOf(j, e) \in Nat
                             /\ CountOf(d.newState, e) \in Nat
        BY <1>4, <1>5, <2>1, <2>2 DEF DetectionState, RetriggerCounts, Retrigger, CountOf
      <4> QED BY <4>1, <4>2, <4>3 DEF CountsAfter
    <3>4. Fires(j, d, D, M, merged, now')
      BY <1>11, <2>3 DEF Decision, Defers, Rests, Drops
    <3>5. CooldownObserved(a, D, M, merged, now')
      BY <2>0, <3>4 DEF Fires, CooldownObserved
    <3>6. Takes(D, M)
      BY <1>5, <1>9, <3>4 DEF Takes, Fires, SameWaiting
    <3>7. Optimizes(a, D, M, merged)
      BY <2>3, <3>2, <3>3, <3>4, <3>5, <3>6 DEF Optimizes, Fires, v
    <3> QED BY <1>9, <2>1, <2>2, <2>3, <3>2, <3>7 DEF Cycle, a, M, D, scores, merged, v
  <2>4. CASE d.verdict = "TRIGGERED" /\ v = "SKIPPED_TIME"
    <3>0. Fires(j, d, D, M, merged, now')
      BY <1>11, <2>4 DEF Decision, Fires, Defers, Rests, Drops
    <3>1. Takes(D, M)
      BY <1>5, <1>9, <3>0 DEF Takes, Fires, SameWaiting
    <3>2. CASE state.skipCount >= MaxConsecutiveSkips
      <4>1. state' = WithQueue(d.abortState, NoQueue, 0)
        BY <1>7, <2>4, <3>2 DEF FinalizeDetectionState, WithQueue
      <4>2. /\ DetectionState(state') /\ state'.queue = NoQueue /\ state'.skipCount = 0
            /\ state'.warmup = d.abortState.warmup
            /\ state'.cooldownUntil = d.abortState.cooldownUntil
            /\ state'.retrigger = d.abortState.retrigger
        <5>1. DetectionState(d.abortState)
          BY <2>1, <2>2
        <5> QED BY <4>1, <5>1, NoQueueFacts, NewQueueAndSkips
      <4>3. NoneCounted(state', state)
        BY <2>1, <2>2, <4>2 DEF NoneCounted, CountOf
      <4>4. GivesUp(D, M)
        BY <2>4, <3>1, <3>2, <4>2 DEF GivesUp, v
      <4> QED BY <1>9, <2>1, <2>2, <4>2, <4>3, <4>4 DEF Cycle, a, M, D, scores, merged, v
    <3>3. CASE ~(state.skipCount >= MaxConsecutiveSkips)
      <4> DEFINE q == d.abortState.queue
                 r == Requeue(q, d.routes, now')
      <4>1. state' = WithQueue(d.abortState, r, state.skipCount + 1)
        BY <1>7, <2>4, <3>3 DEF FinalizeDetectionState, WithQueue
      <4>2. r \in Queues
        <5>1. q \in Queues /\ d.routes \in SUBSET Targets
          <6>1. Queued(state.queue) \subseteq Targets /\ D \subseteq Targets /\ M \subseteq Targets
            BY <1>1, RequestFacts DEF Queued, D, M, MetricFired, Judged, Targets
          <6> QED BY <1>9, <2>1, <2>2, <3>1, <6>1 DEF Takes, DetectionState, Queues
        <5>2. now' \in Int
          BY <1>1
        <5> HIDE DEF q
        <5> QED BY <5>1, <5>2, RequeueFacts DEF r
      <4> HIDE DEF r
      <4>3. /\ DetectionState(state') /\ state'.queue = r
            /\ state'.skipCount = state.skipCount + 1
            /\ state'.warmup = d.abortState.warmup
            /\ state'.cooldownUntil = d.abortState.cooldownUntil
            /\ state'.retrigger = d.abortState.retrigger
        <5>1. state.skipCount + 1 \in Nat
          BY <1>4 DEF DetectionState
        <5>2. DetectionState(d.abortState)
          BY <2>1, <2>2
        <5> QED BY <4>1, <4>2, <5>1, <5>2, NewQueueAndSkips
      <4>4. NoneCounted(state', state)
        BY <2>1, <2>2, <4>3 DEF NoneCounted, CountOf
      <4>5. q \in {state.queue, merged}
        BY <1>5, <3>0 DEF Fires, SameWaiting
      <4>6. state.skipCount < MaxConsecutiveSkips
        BY <1>4, <3>3, CycleAssumption DEF DetectionState
      <4>7. TimesOut(D, M, merged)
        BY <1>9, <2>4, <3>1, <4>3, <4>5, <4>6 DEF TimesOut, v, r
      <4> QED BY <1>9, <2>1, <2>2, <4>3, <4>4, <4>7 DEF Cycle, a, M, D, scores, merged, v
    <3> QED BY <3>2, <3>3
  <2>5. CASE d.verdict # "TRIGGERED"
    <3>1. d.verdict \in {"QUEUED", "SKIPPED_COOLDOWN", "NO_TRIGGER"}
      BY <1>11, <2>5 DEF Decision, Fires, Defers, Rests, Drops
    <3>2. /\ v = VerdictOf(d.verdict) /\ v \notin {"OPTIMIZED", "SKIPPED_TIME"}
      BY <1>3, <2>5, <3>1 DEF VerdictOf
    <3>3. state' = d.newState
      BY <1>7, <3>2 DEF FinalizeDetectionState
    <3>4. CASE Defers(j, d, D, M, merged, now')
      <4>1. Waits(a, D, M, merged)
        BY <1>9, <2>0, <2>1, <2>2, <3>2, <3>3, <3>4 DEF Waits, Defers, VerdictOf, v
      <4> QED BY <1>9, <2>1, <2>2, <2>5, <3>3, <4>1 DEF Cycle, a, M, D, scores, merged, v
    <3>5. CASE Rests(j, d, D, M, now')
      <4>1. Idles(a, D, M)
        BY <1>5, <1>9, <2>0, <2>1, <2>2, <3>2, <3>3, <3>5 DEF Idles, Rests, VerdictOf, SameWaiting, v
      <4> QED BY <1>9, <2>1, <2>2, <2>5, <3>3, <4>1 DEF Cycle, a, M, D, scores, merged, v
    <3>6. CASE Drops(j, d, D, M, watched, now')
      <4>1. /\ watched = WatchedEdges(state'.watch)
            /\ InCooldown(j, now') <=> InCooldown(a, now')
        BY <1>5, <2>1, <2>2, <3>3 DEF watched, InCooldown
      <4>2. Forgets(a, D, M)
        BY <1>5, <1>9, <2>1, <2>2, <3>2, <3>3, <3>6, <4>1
           DEF Forgets, Drops, VerdictOf, SameWaiting, v
      <4> QED BY <1>9, <2>1, <2>2, <2>5, <3>3, <4>2 DEF Cycle, a, M, D, scores, merged, v
    <3> QED BY <1>11, <2>5, <3>4, <3>5, <3>6 DEF Decision, Fires
  <2> QED BY <1>3, <2>3, <2>4, <2>5
<1> QED BY <1>5, <1>10, <1>11

-----------------------------------------------------------------------------
(* The invariants. *)

Inv == TypeOK /\ QueueBounded /\ BacklogExplained

LEMMA InitInv == Init => Inv
<1> SUFFICES ASSUME Init PROVE Inv
  OBVIOUS
<1>1. /\ state.queue = NoQueue /\ state.skipCount = 0
      /\ DetectionState(state)
  <2>1. InitialState.queue \in [Targets -> Seq(Entry)]
    BY NoQueueFacts DEF InitialState, Queues
  <2>2. [e \in Edges |-> NoWatch] \in [Edges -> Watch]
    BY NoWatchIsWatch
  <2>3. RetriggerCounts(<< >>)
    BY DEF RetriggerCounts
  <2> QED BY <2>1, <2>2, <2>3 DEF Init, InitialState, DetectionState, Instant
<1>2. answer \in Answer
  BY DEF Init, NoAnswer, Answer, Missed
<1>3. \A x \in Targets : Len(state.queue[x]) = 0
  BY <1>1 DEF NoQueue
<1>4. BacklogExplained
  BY <1>1, NoQueueIsUnder DEF BacklogExplained, OverThreshold
<1> QED BY <1>1, <1>2, <1>3, <1>4, CycleAssumption DEF Init, Inv, TypeOK, QueueBounded, Targets

LEMMA UnansweredKeeps ==
  ASSUME Inv, Reject \/ MissAnswer
  PROVE  /\ state' = state
         /\ \E v \in Errors \cup {Missed} : answer' = NoAnswer(v)
         /\ Inv'
<1>1. now' \in Nat
  BY CycleAssumption DEF Inv, TypeOK, Reject, MissAnswer, Advance
<1>2. PICK v \in Errors \cup {Missed} : answer' = NoAnswer(v) /\ state' = state
  BY DEF Reject, MissAnswer
<1>3. answer' \in Answer
  BY <1>2 DEF NoAnswer, Answer, Verdict
<1> QED BY <1>1, <1>2, <1>3 DEF Inv, TypeOK, QueueBounded, BacklogExplained

(* Every route's queue is bounded after a cycle: what is merged adds an    *)
(* entry to an arc that had none, what is queued again one to each route   *)
(* and one skip.  A queue over a threshold is not left waiting but by a    *)
(* skip.                                                                   *)
LEMMA CycleKeepsInv ==
  ASSUME Inv, now' \in Nat, NEW req \in Requests, NEW a, NEW M, NEW D, NEW scores, NEW merged,
         Cycle(req, a, M, D, scores, merged)
  PROVE  Inv'
<1>1. /\ M \in SUBSET Edges /\ D \in SUBSET Targets /\ Queued(state.queue) \in SUBSET Targets
      /\ scores \in [Edges -> Nat]
  BY RequestFacts, ScoresAreNat DEF Cycle, MetricFired, Judged, Queued
<1>2. answer'.routes \in SUBSET Targets
  BY <1>1 DEF Cycle, Takes, Optimizes, TimesOut, GivesUp, Waits, Idles, Forgets, Targets
<1>3. answer'.verdict \in Verdict
  BY DEF Cycle, Optimizes, TimesOut, GivesUp, Waits, Idles, Forgets, Verdict
<1>4. answer' \in Answer
  <2>1. Scheduled(req) \in BOOLEAN
    BY DEF Scheduled
  <2>2. answer' = [verdict |-> answer'.verdict, routes |-> answer'.routes, metric |-> M,
                   scores |-> scores, danger |-> D, scheduled |-> Scheduled(req)]
    BY DEF Cycle
  <2> DEFINE v == answer'.verdict
             R == answer'.routes
  <2> HIDE DEF v, R
  <2>3. [verdict |-> v, routes |-> R, metric |-> M,
         scores |-> scores, danger |-> D, scheduled |-> Scheduled(req)] \in Answer
    BY <1>1, <1>2, <1>3, <2>1 DEF Answer, v, R
  <2> QED BY <2>2, <2>3 DEF v, R
<1>5. TypeOK'
  BY <1>4 DEF TypeOK, Cycle
<1>6. /\ state.queue \in Queues /\ state.skipCount \in Nat /\ MaxConsecutiveSkips \in Nat
      /\ \A x \in Targets : Len(state.queue[x]) \in Nat
      /\ state.skipCount <= MaxConsecutiveSkips
      /\ \A e \in Edges : Len(state.queue[e]) <= state.skipCount + 1
      /\ \A n \in Nodes : Len(state.queue[n]) <= state.skipCount
  BY CycleAssumption DEF Inv, TypeOK, DetectionState, Queues, QueueBounded
<1>7. /\ merged \in Queues
      /\ \A e \in Edges : Len(merged[e]) \in Nat /\ Len(merged[e]) <= state.skipCount + 1
      /\ \A n \in Nodes : Len(merged[n]) \in Nat /\ Len(merged[n]) <= state.skipCount
  <2>1. M \in SUBSET Targets /\ \A e \in M : scores[e] \in Nat
    BY <1>1 DEF Targets
  <2>2. /\ merged \in Queues
        /\ \A x \in Targets : /\ Len(merged[x]) = Len(state.queue[x]) \/ Len(merged[x]) = 1
                              /\ x \notin M => merged[x] = state.queue[x]
    <3>1. PICK q, t : q = state.queue /\ t = now' /\ q \in Queues /\ t \in Int
      BY <1>6
    <3>2. merged = MergeIntoQueue(q, M, scores, t)
      BY <3>1 DEF Cycle
    <3>3. q \in Queues /\ t \in Int
      BY <3>1
    <3>4. merged \in Queues
      BY <2>1, <3>2, <3>3, MergeFacts
    <3>5. ASSUME NEW x \in Targets
          PROVE  /\ Len(merged[x]) = Len(q[x]) \/ Len(merged[x]) = 1
                 /\ x \notin M => merged[x] = q[x]
      BY <2>1, <3>2, <3>3, MergedQueue
    <3> QED BY <3>1, <3>4, <3>5
  <2>3. \A n \in Nodes : n \notin M
    BY <1>1, DetectionAssumption
  <2>4. ASSUME NEW x \in Targets PROVE Len(merged[x]) \in Nat
    BY <2>2 DEF Queues
  <2>5. ASSUME NEW e \in Edges PROVE Len(merged[e]) <= state.skipCount + 1
    <3>1. Len(merged[e]) = Len(state.queue[e]) \/ Len(merged[e]) = 1
      BY <2>2 DEF Targets
    <3>2. Len(state.queue[e]) <= state.skipCount + 1
      BY <1>6
    <3>3. state.skipCount \in Nat
      BY <1>6
    <3>4. CASE Len(merged[e]) = Len(state.queue[e])
      BY <3>2, <3>4
    <3>5. CASE Len(merged[e]) = 1
      BY <3>3, <3>5
    <3> QED BY <3>1, <3>4, <3>5
  <2>6. ASSUME NEW n \in Nodes PROVE Len(merged[n]) <= state.skipCount
    BY <1>6, <2>2, <2>3 DEF Targets
  <2> QED BY <2>2, <2>4, <2>5, <2>6 DEF Targets
<1>8. ASSUME state'.queue = NoQueue, state'.skipCount \in Nat,
             state'.skipCount <= MaxConsecutiveSkips
      PROVE  QueueBounded' /\ BacklogExplained'
  <2>1. \A x \in Targets : Len(state'.queue[x]) = 0
    BY <1>8 DEF NoQueue
  <2>2. ~OverThreshold(state'.queue)
    BY <1>8, NoQueueIsUnder
  <2> QED BY <1>8, <2>1, <2>2 DEF QueueBounded, Targets, BacklogExplained, OverThreshold
<1>9. CASE Optimizes(a, D, M, merged) \/ GivesUp(D, M) \/ Forgets(a, D, M)
  <2>1. QueueBounded' /\ BacklogExplained'
    BY <1>6, <1>8, <1>9 DEF Optimizes, GivesUp, Forgets
  <2> QED BY <1>5, <2>1 DEF Inv
<1>10. CASE TimesOut(D, M, merged)
  <2>1. PICK q \in {state.queue, merged} : state'.queue = Requeue(q, answer'.routes, now')
    BY <1>10 DEF TimesOut
  <2>2. \A x \in Targets : Len(state'.queue[x]) \in {Len(q[x]), Len(q[x]) + 1}
    <3>1. q \in Queues /\ now' \in Int
      BY <1>6, <1>7, <2>1
    <3> QED BY <1>2, <2>1, <3>1, RequeueFacts
  <2>3. /\ \A e \in Edges : Len(q[e]) \in Nat /\ Len(q[e]) <= state.skipCount + 1
        /\ \A n \in Nodes : Len(q[n]) \in Nat /\ Len(q[n]) <= state.skipCount
    BY <1>6, <1>7, <2>1 DEF Targets
  <2>4. /\ state'.skipCount = state.skipCount + 1
        /\ state.skipCount < MaxConsecutiveSkips
    BY <1>10 DEF TimesOut
  <2>5. ASSUME NEW e \in Edges PROVE Len(state'.queue[e]) <= state'.skipCount + 1
    <3>1. Len(state'.queue[e]) \in {Len(q[e]), Len(q[e]) + 1}
      BY <2>2 DEF Targets
    <3>2. Len(q[e]) \in Nat /\ Len(q[e]) <= state.skipCount + 1 /\ state.skipCount \in Nat
      BY <1>6, <2>3
    <3> QED BY <2>4, <3>1, <3>2
  <2>6. ASSUME NEW n \in Nodes PROVE Len(state'.queue[n]) <= state'.skipCount
    <3>1. Len(state'.queue[n]) \in {Len(q[n]), Len(q[n]) + 1}
      BY <2>2 DEF Targets
    <3>2. Len(q[n]) \in Nat /\ Len(q[n]) <= state.skipCount /\ state.skipCount \in Nat
      BY <1>6, <2>3
    <3> QED BY <2>4, <3>1, <3>2
  <2>7. state'.skipCount <= MaxConsecutiveSkips
    BY <1>6, <2>4
  <2>8. QueueBounded'
    BY <2>5, <2>6, <2>7 DEF QueueBounded
  <2>9. BacklogExplained'
    BY <1>6, <2>4 DEF BacklogExplained
  <2> QED BY <1>5, <2>8, <2>9 DEF Inv
<1>11. CASE Waits(a, D, M, merged) \/ Idles(a, D, M)
  <2>1. QueueBounded'
    BY <1>6, <1>7, <1>11 DEF Waits, Idles, QueueBounded
  <2>2. BacklogExplained'
    BY <1>11 DEF Waits, Idles, Inv, BacklogExplained, OverThreshold
  <2> QED BY <1>5, <2>1, <2>2 DEF Inv
<1> QED BY <1>9, <1>10, <1>11 DEF Cycle

LEMMA StepInv == Inv /\ [Next]_vars => Inv'
<1> SUFFICES ASSUME Inv, [Next]_vars PROVE Inv'
  OBVIOUS
<1>1. CASE Reject \/ MissAnswer
  BY <1>1, UnansweredKeeps
<1>2. CASE HandleRequest
  BY <1>2, HandleCycles, CycleKeepsInv DEF Inv
<1>3. CASE UNCHANGED vars
  BY <1>3 DEF vars, Inv, TypeOK, QueueBounded, BacklogExplained
<1> QED BY <1>1, <1>2, <1>3 DEF Next

THEOREM Invariance == Spec => []Inv
<1> QED BY InitInv, StepInv, PTL DEF Spec

(* The state Observation carries is one the service can have returned, and *)
(* every answer is well formed: detector.py returns whole states.          *)
THEOREM TypeCorrect == Spec => []TypeOK
<1>1. Inv => TypeOK
  BY DEF Inv
<1> QED BY <1>1, Invariance, PTL

(* The skip counter bounds how far entries of one route pile up, through   *)
(* every order of queueing, timing out and expiring (handler.py's          *)
(* _requeued_triggers beside detector.py's _merge_into_queue).             *)
THEOREM QueueBound == Spec => []QueueBounded
<1>1. Inv => QueueBounded
  BY DEF Inv
<1> QED BY <1>1, Invariance, PTL

(* A queue over a threshold waits only after a timed-out attempt: the      *)
(* cycle that takes it there fires it (detector.py's decision within the   *)
(* cooldown), whatever the scores and the thresholds are.                  *)
THEOREM BacklogHasReason == Spec => []BacklogExplained
<1>1. Inv => BacklogExplained
  BY DEF Inv
<1> QED BY <1>1, Invariance, PTL

-----------------------------------------------------------------------------
(* What a cycle does to the set of waiting routes. *)

LEMMA QueuedAfter ==
  ASSUME Inv, now' \in Nat, NEW req \in Requests, NEW a, NEW M, NEW D, NEW scores, NEW merged,
         Cycle(req, a, M, D, scores, merged)
  PROVE  /\ M \in SUBSET Targets /\ D \in SUBSET Targets
         /\ Optimizes(a, D, M, merged) \/ GivesUp(D, M) \/ Forgets(a, D, M) => Queued(state'.queue) = {}
         /\ TimesOut(D, M, merged) => Queued(state'.queue) = answer'.routes
         /\ Waits(a, D, M, merged) => Queued(state'.queue) = Queued(state.queue) \cup M
         /\ Idles(a, D, M) => Queued(state'.queue) = Queued(state.queue)
<1>1. /\ M \in SUBSET Targets /\ D \in SUBSET Targets /\ Queued(state.queue) \in SUBSET Targets
      /\ \A e \in M : scores[e] \in Nat
  BY RequestFacts, ScoresAreNat DEF Cycle, MetricFired, Judged, Queued, Targets
<1>2. PICK q, t : q = state.queue /\ t = now' /\ q \in Queues /\ t \in Int
  BY DEF Inv, TypeOK, DetectionState, Queues
<1>3. merged \in Queues /\ Queued(merged) = Queued(q) \cup M
  <2>1. merged = MergeIntoQueue(q, M, scores, t)
    BY <1>2 DEF Cycle
  <2>2. q \in Queues /\ t \in Int
    BY <1>2
  <2> QED BY <1>1, <2>1, <2>2, MergeFacts
<1>4. ASSUME TimesOut(D, M, merged) PROVE Queued(state'.queue) = answer'.routes
  <2>1. PICK p \in {q, merged} : state'.queue = Requeue(p, answer'.routes, t)
    BY <1>2, <1>4 DEF TimesOut
  <2>2. answer'.routes = Queued(q) \cup D \cup M
    BY <1>2, <1>4 DEF TimesOut, Takes
  <2>3. PICK R \in SUBSET Targets : R = answer'.routes
    BY <1>1, <1>2, <2>2
  <2>4. Queued(Requeue(p, R, t)) = Queued(p) \cup R
    <3>1. p \in Queues /\ t \in Int
      BY <1>2, <1>3
    <3> QED BY <3>1, RequeueFacts
  <2>5. Queued(p) \subseteq R
    BY <1>3, <2>2, <2>3
  <2> QED BY <2>1, <2>3, <2>4, <2>5
<1> QED BY <1>1, <1>2, <1>3, <1>4, NoQueueFacts DEF Optimizes, GivesUp, Forgets, Waits, Idles

(* The cycle implements the ledger: each outcome is the ledger's action of *)
(* the same purpose.                                                       *)
LEMMA CycleRefines == Inv /\ Inv' /\ [Next]_vars => [Ledger!Next]_(Ledger!vars)
<1> SUFFICES ASSUME Inv, Inv', [Next]_vars PROVE [Ledger!Next]_(Ledger!vars)
  OBVIOUS
<1>1. CASE Reject \/ MissAnswer
  <2>1. answer'.verdict # "OPTIMIZED"
    BY <1>1, UnansweredKeeps DEF NoAnswer, Errors, Missed
  <2>2. Ledger!Pass
    BY <1>1, <2>1, UnansweredKeeps DEF Ledger!Pass
  <2> QED BY <2>2 DEF Ledger!Next
<1>2. CASE HandleRequest
  <2>0. PICK req \in Requests :
          now' \in Nat /\ \E a, M, D, scores, merged : Cycle(req, a, M, D, scores, merged)
    BY <1>2, HandleCycles DEF Inv
  <2>1. PICK a, M, D, scores, merged :
          now' \in Nat /\ Cycle(req, a, M, D, scores, merged)
    BY <2>0
  <2>2. /\ M \in SUBSET Targets /\ D \in SUBSET Targets /\ D \cup M \in SUBSET Targets
        /\ Optimizes(a, D, M, merged) \/ GivesUp(D, M) \/ Forgets(a, D, M) => Queued(state'.queue) = {}
        /\ TimesOut(D, M, merged) => Queued(state'.queue) = answer'.routes
        /\ Waits(a, D, M, merged) => Queued(state'.queue) = Queued(state.queue) \cup M
        /\ Idles(a, D, M) => Queued(state'.queue) = Queued(state.queue)
    BY <2>1, QueuedAfter
  <2>3. CASE Optimizes(a, D, M, merged)
    <3>1. PICK R \in SUBSET Targets : R = D \cup M
      BY <2>2
    <3>2. /\ answer'.verdict = "OPTIMIZED" /\ answer'.routes = Queued(state.queue) \cup R
          /\ answer'.routes # {} /\ state'.skipCount = 0
      BY <2>3, <3>1 DEF Optimizes, Takes
    <3>3. Ledger!Serve
      BY <2>2, <2>3, <3>2 DEF Ledger!Serve
    <3> QED BY <3>3 DEF Ledger!Next
  <2>4. CASE TimesOut(D, M, merged)
    <3>1. PICK R \in SUBSET Targets : R = D \cup M
      BY <2>2
    <3>2. /\ answer'.verdict = "SKIPPED_TIME" /\ answer'.routes = Queued(state.queue) \cup R
          /\ answer'.routes # {} /\ state.skipCount < MaxConsecutiveSkips
          /\ state'.skipCount = state.skipCount + 1
      BY <2>4, <3>1 DEF TimesOut, Takes
    <3>3. Ledger!TimeOut
      BY <2>2, <2>4, <3>2 DEF Ledger!TimeOut
    <3> QED BY <3>3 DEF Ledger!Next
  <2>5. CASE GivesUp(D, M)
    <3>1. state.skipCount = MaxConsecutiveSkips
      BY <2>5, CycleAssumption DEF GivesUp, Inv, TypeOK, DetectionState, QueueBounded
    <3> QED BY <2>2, <2>5, <3>1 DEF Ledger!Next, Ledger!GiveUp, GivesUp
  <2>6. CASE Waits(a, D, M, merged)
    BY <2>2, <2>6 DEF Ledger!Next, Ledger!Defer, Waits
  <2>7. CASE Idles(a, D, M)
    BY <2>2, <2>7 DEF Ledger!Next, Ledger!Pass, Idles
  <2>8. CASE Forgets(a, D, M)
    BY <2>2, <2>8 DEF Ledger!Next, Ledger!Expire, Forgets
  <2> QED BY <2>1, <2>3, <2>4, <2>5, <2>6, <2>7, <2>8 DEF Cycle
<1>3. CASE UNCHANGED vars
  BY <1>3 DEF vars, Ledger!vars
<1> QED BY <1>1, <1>2, <1>3 DEF Next

(* The request cycle keeps the promises of the ledger: waiting routes are  *)
(* served, kept or dropped as a whole (detector.py's route lists), and     *)
(* given up only by the attempt after max_consecutive_skips timed-out ones *)
(* (handler.py's _finalize_detection_state).                               *)
THEOREM LedgerImplemented == Spec => LedgerSpec
<1>1. Init => Ledger!Init
  BY NoQueueFacts DEF Init, InitialState, NoAnswer, Missed, Ledger!Init
<1> QED BY <1>1, CycleRefines, Invariance, PTL DEF Spec, LedgerSpec, Ledger!Spec

-----------------------------------------------------------------------------
(* The action properties. *)

LEMMA HistoryInvariance == HSpec => []Inv
<1>1. HInit => Init
  BY DEF HInit
<1>2. [HNext]_hvars => [Next]_vars
  BY DEF HNext, hvars, vars
<1> QED BY <1>1, <1>2, InitInv, StepInv, PTL DEF HSpec

(* A step of the history is a step without an answer, a cycle, or none. *)
LEMMA HistoryStep ==
  ASSUME Inv, [HNext]_hvars
  PROVE  \/ state' = state /\ \E v \in Errors \cup {Missed} : answer' = NoAnswer(v)
         \/ /\ now' \in Nat
            /\ \E req \in Requests : \E a, M, D, scores, merged :
                 Cycle(req, a, M, D, scores, merged)
         \/ UNCHANGED hvars
<1>1. CASE HandleRequest
  BY <1>1, HandleCycles DEF Inv
<1>2. CASE Reject \/ MissAnswer
  BY <1>2, UnansweredKeeps
<1> QED BY <1>1, <1>2 DEF HNext, Next

(* Danger flags fire whatever the cooldown, the warmup and the queue       *)
(* (detector.py, the danger branches of the cooldown decision and of the   *)
(* warmup shortcut).                                                       *)
THEOREM DangerActedOn == HSpec => DangerNeverDeferred
<1> DEFINE A == answer'.danger # {} =>
                  /\ answer'.verdict \in {"OPTIMIZED", "SKIPPED_TIME"}
                  /\ answer'.danger \subseteq answer'.routes
<1>1. Inv /\ [HNext]_hvars => [A]_hvars
  <2> SUFFICES ASSUME Inv, [HNext]_hvars, ~UNCHANGED hvars PROVE A
    OBVIOUS
  <2>1. CASE \E v \in Errors \cup {Missed} : answer' = NoAnswer(v)
    BY <2>1 DEF NoAnswer
  <2>2. ASSUME NEW req \in Requests, NEW a, NEW M, NEW D, NEW scores, NEW merged,
               Cycle(req, a, M, D, scores, merged)
        PROVE  A
    BY <2>2 DEF Cycle, Optimizes, TimesOut, GivesUp, Takes, Waits, Idles, Forgets
  <2> QED BY <2>1, <2>2, HistoryStep
<1> QED BY <1>1, HistoryInvariance, PTL DEF HSpec, DangerNeverDeferred

(* Only an OPTIMIZED answer takes the effects of firing: it alone starts a *)
(* cooldown and counts a retrigger (detector.py's abort state and          *)
(* handler.py's use of it).                                                *)
THEOREM FiringNeedsAnswer == HSpec => OnlyOptimizedConsumes
<1> DEFINE A == answer'.verdict # "OPTIMIZED" =>
                  /\ state'.cooldownUntil \in {state.cooldownUntil, NoTime}
                  /\ state'.cooldownUntil # state.cooldownUntil => answer'.scheduled
                  /\ \A e \in Edges : CountOf(state', e) <= CountOf(state, e)
<1>1. Inv /\ [HNext]_hvars => [A]_hvars
  <2> SUFFICES ASSUME Inv, [HNext]_hvars, ~UNCHANGED hvars PROVE A
    OBVIOUS
  <2>1. CASE state' = state
    <3>1. \A e \in Edges : CountOf(state, e) \in Nat
      BY DEF Inv, TypeOK, DetectionState, RetriggerCounts, Retrigger, CountOf
    <3> QED BY <2>1, <3>1
  <2>2. ASSUME NEW req \in Requests, NEW a, NEW M, NEW D, NEW scores, NEW merged,
               Cycle(req, a, M, D, scores, merged)
        PROVE  A
    <3>1. answer'.scheduled = Scheduled(req)
      BY <2>2 DEF Cycle
    <3> QED BY <2>2, <3>1 DEF Cycle, NoneCounted
  <2> QED BY <2>1, <2>2, HistoryStep
<1> QED BY <1>1, HistoryInvariance, PTL DEF HSpec, OnlyOptimizedConsumes

(* A cycle that raises something, or finds something waiting, optimizes    *)
(* it, leaves it waiting, gives up after the last allowed skip, or finds   *)
(* the backlog stale (detector.py's decisions and handler.py's             *)
(* _finalize_detection_state, together).                                   *)
THEOREM NothingLost == HSpec => NoTriggerLost
<1> DEFINE A == /\ \A t \in Queued(state.queue) :
                     \/ t \in Queued(state'.queue)
                     \/ answer'.verdict = "OPTIMIZED" /\ t \in answer'.routes
                     \/ GivenUp
                     \/ Expired
                /\ \A t \in answer'.metric \cup answer'.danger :
                     \/ t \in Queued(state'.queue)
                     \/ answer'.verdict = "OPTIMIZED" /\ t \in answer'.routes
                     \/ GivenUp
<1>1. Inv /\ [HNext]_hvars => [A]_hvars
  <2> SUFFICES ASSUME Inv, [HNext]_hvars, ~UNCHANGED hvars PROVE A
    OBVIOUS
  <2>1. CASE state' = state /\ \E v \in Errors \cup {Missed} : answer' = NoAnswer(v)
    <3>1. answer'.metric \cup answer'.danger = {}
      BY <2>1 DEF NoAnswer
    <3> QED BY <2>1, <3>1
  <2>2. ASSUME now' \in Nat,
               NEW req \in Requests, NEW a, NEW M, NEW D, NEW scores, NEW merged,
               Cycle(req, a, M, D, scores, merged)
        PROVE  A
    <3>1. answer'.metric = M /\ answer'.danger = D /\ answer'.scheduled = Scheduled(req)
      BY <2>2 DEF Cycle
    <3>2. /\ Optimizes(a, D, M, merged) \/ GivesUp(D, M) \/ Forgets(a, D, M) => Queued(state'.queue) = {}
          /\ TimesOut(D, M, merged) => Queued(state'.queue) = answer'.routes
          /\ Waits(a, D, M, merged) => Queued(state'.queue) = Queued(state.queue) \cup M
          /\ Idles(a, D, M) => Queued(state'.queue) = Queued(state.queue)
      BY <2>2, QueuedAfter
    <3>3. CASE Optimizes(a, D, M, merged)
      BY <3>1, <3>3 DEF Optimizes, Takes
    <3>4. CASE TimesOut(D, M, merged)
      BY <3>1, <3>2, <3>4 DEF TimesOut, Takes
    <3>5. CASE GivesUp(D, M)
      <4>1. GivenUp
        BY <3>5, CycleAssumption
           DEF GivesUp, GivenUp, Inv, TypeOK, DetectionState, QueueBounded
      <4> QED BY <4>1
    <3>6. CASE Waits(a, D, M, merged)
      BY <3>1, <3>2, <3>6 DEF Waits
    <3>7. CASE Idles(a, D, M)
      BY <3>1, <3>2, <3>7 DEF Idles
    <3>8. CASE Forgets(a, D, M)
      <4>1. answer'.scheduled \/ ~InCooldown(state, now')
        <5>1. a.cooldownUntil = IF Scheduled(req) THEN NoTime ELSE state.cooldownUntil
          BY <2>2, RequestFacts, EventsKeep DEF Cycle, Inv, TypeOK
        <5> QED BY <3>1, <3>8, <5>1 DEF Forgets, InCooldown
      <4>2. /\ \A t \in Targets : \A i \in DOMAIN state.queue[t] :
                 ~WithinFreshness(now' - state.queue[t][i].lastFired)
            /\ Queued(state.queue) \cap WatchedEdges(state'.watch) = {}
        BY <3>8 DEF Forgets, QueueFresh
      <4>3. Expired
        BY <3>1, <3>8, <4>1, <4>2 DEF Expired, Forgets
      <4>4. answer'.metric \cup answer'.danger = {}
        BY <3>1, <3>8 DEF Forgets
      <4> QED BY <4>3, <4>4
    <3> QED BY <2>2, <3>3, <3>4, <3>5, <3>6, <3>7, <3>8 DEF Cycle
  <2> QED BY <2>1, <2>2, HistoryStep DEF hvars
<1> QED BY <1>1, HistoryInvariance, PTL DEF HSpec, NoTriggerLost

(* An arc that warms up takes part in an answer only when flagged or       *)
(* already waiting (triggers.py judges no arc in warmup).                  *)
THEOREM WarmupHoldsBack == HSpec => WarmupFiresOnlyBacklog
<1> DEFINE A == \A e \in answer'.routes \cap Edges :
                  InWarmup(state', e, now') => e \in answer'.danger \/ state.queue[e] # << >>
<1>1. Inv /\ [HNext]_hvars => [A]_hvars
  <2> SUFFICES ASSUME Inv, [HNext]_hvars, ~UNCHANGED hvars PROVE A
    OBVIOUS
  <2>1. CASE \E v \in Errors \cup {Missed} : answer' = NoAnswer(v)
    BY <2>1 DEF NoAnswer
  <2>2. ASSUME now' \in Nat,
               NEW req \in Requests, NEW a, NEW M, NEW D, NEW scores, NEW merged,
               Cycle(req, a, M, D, scores, merged)
        PROVE  A
    <3>1. answer'.routes \subseteq Queued(state.queue) \cup D \cup M /\ answer'.danger = D
      BY <2>2 DEF Cycle, Optimizes, TimesOut, GivesUp, Takes, Waits, Idles, Forgets
    <3>2. ASSUME NEW e \in Edges, InWarmup(state', e, now') PROVE e \notin M
      <4>1. InWarmup(a, e, req.now)
        BY <2>2, <3>2, RequestFacts DEF Cycle, InWarmup
      <4> QED BY <2>2, <4>1 DEF Cycle, MetricFired, Judged
    <3> QED BY <3>1, <3>2 DEF Queued
  <2> QED BY <2>1, <2>2, HistoryStep
<1> QED BY <1>1, HistoryInvariance, PTL DEF HSpec, WarmupFiresOnlyBacklog

-----------------------------------------------------------------------------
(* The history: what the cooldown, the counts and the skip counter stand   *)
(* for.                                                                    *)

(* The cooldown at hand is that of the last optimization: a scheduled      *)
(* event ends the one and forgets the other.                               *)
CooldownOfLast ==
  /\ optimizedAt \in Instant
  /\ optimizedAt # NoTime => state.cooldownUntil = optimizedAt + CooldownMin

HInv ==
  /\ Inv
  /\ CooldownOfLast
  /\ streak \in [Edges -> Nat] /\ CountsOneOrigin
  /\ survived \in Nat /\ BacklogDrains

LEMMA InitHInv == HInit => HInv
<1> SUFFICES ASSUME HInit PROVE HInv
  OBVIOUS
<1>1. Inv
  BY InitInv DEF HInit
<1>2. CooldownOfLast
  BY DEF HInit, CooldownOfLast, Instant
<1>3. streak \in [Edges -> Nat] /\ CountsOneOrigin
  <2>1. DOMAIN state.retrigger = {}
    BY DEF HInit, Init, InitialState
  <2> QED BY <2>1 DEF HInit, CountsOneOrigin, CountOf
<1>4. survived \in Nat /\ BacklogDrains
  BY DEF HInit, Init, InitialState, BacklogDrains
<1> QED BY <1>1, <1>2, <1>3, <1>4 DEF HInv

(* One cycle keeps the account of the cooldown. *)
LEMMA CooldownAccount ==
  ASSUME HInv, Observe, now' \in Nat,
         NEW req \in Requests, NEW a, NEW M, NEW D, NEW scores, NEW merged,
         Cycle(req, a, M, D, scores, merged)
  PROVE  CooldownOfLast'
<1>1. answer'.scheduled = Scheduled(req)
  BY DEF Cycle
<1>2. CASE answer'.verdict = "OPTIMIZED"
  <2>1. optimizedAt' = now' /\ state'.cooldownUntil = now' + CooldownMin
    BY <1>2 DEF Observe, Cycle, Optimizes, TimesOut, GivesUp, Waits, Idles, Forgets
  <2> QED BY <2>1 DEF CooldownOfLast, Instant
<1>3. CASE answer'.verdict # "OPTIMIZED"
  BY <1>1, <1>3 DEF Observe, Cycle, HInv, CooldownOfLast, Instant
<1> QED BY <1>2, <1>3

(* One cycle counts an arc no more often than its streak. *)
LEMMA CountAccount ==
  ASSUME HInv, Observe, now' \in Nat,
         NEW req \in Requests, NEW a, NEW M, NEW D, NEW scores, NEW merged,
         Cycle(req, a, M, D, scores, merged)
  PROVE  streak' \in [Edges -> Nat] /\ CountsOneOrigin'
<1> DEFINE fired == (answer'.routes \cap Edges) \ D
<1>1. Counted(answer') = fired
  BY DEF Cycle, Counted
<1>2. /\ streak \in [Edges -> Nat]
      /\ \A e \in Edges : CountOf(state, e) <= streak[e]
      /\ \A e \in Edges : CountOf(state, e) \in Nat /\ CountOf(state', e) \in Nat
  BY DEF HInv, CountsOneOrigin, Inv, TypeOK, Cycle,
         DetectionState, RetriggerCounts, Retrigger, CountOf
<1> HIDE DEF fired
<1>3. CASE answer'.verdict # "OPTIMIZED" \/ fired = {}
  <2>1. streak' = streak
    BY <1>1, <1>3 DEF Observe
  <2>2. \A e \in Edges : CountOf(state', e) <= CountOf(state, e)
    <3>1. CASE answer'.verdict # "OPTIMIZED"
      BY <3>1 DEF Cycle, NoneCounted
    <3>2. CASE answer'.verdict = "OPTIMIZED"
      <4>1. CountsAfter(state', state, fired)
        BY <3>2 DEF Cycle, Optimizes, TimesOut, GivesUp, Waits, Idles, Forgets, fired
      <4> QED BY <1>3, <3>2, <4>1 DEF CountsAfter
    <3> QED BY <3>1, <3>2
  <2> QED BY <1>2, <2>1, <2>2 DEF CountsOneOrigin
<1>4. CASE answer'.verdict = "OPTIMIZED" /\ fired # {}
  <2>1. streak' = [e \in Edges |-> IF e \in fired THEN streak[e] + 1 ELSE 0]
    BY <1>1, <1>4 DEF Observe
  <2>2. CountsAfter(state', state, fired)
    BY <1>4 DEF Cycle, Optimizes, TimesOut, GivesUp, Waits, Idles, Forgets, fired
  <2>3. \A e \in Edges : CountOf(state', e) <= IF e \in fired THEN CountOf(state, e) + 1 ELSE 0
    BY <1>4, <2>2 DEF CountsAfter
  <2>4. streak' \in [Edges -> Nat]
    BY <1>2, <2>1
  <2> QED BY <1>2, <2>1, <2>3, <2>4 DEF CountsOneOrigin
<1> QED BY <1>3, <1>4

(* One cycle that leaves routes waiting out of the cooldown is a skip. *)
LEMMA SkipAccount ==
  ASSUME HInv, Observe, now' \in Nat,
         NEW req \in Requests, NEW a, NEW M, NEW D, NEW scores, NEW merged,
         Cycle(req, a, M, D, scores, merged)
  PROVE  survived' \in Nat /\ BacklogDrains'
<1> DEFINE open == answer'.scheduled \/ ~InCooldown(state, now')
<1>1. /\ survived \in Nat /\ survived <= state.skipCount
      /\ state.skipCount \in Nat /\ state'.skipCount \in Nat
  BY DEF HInv, BacklogDrains, Inv, TypeOK, Cycle, DetectionState
<1>2. survived' \in {0, survived, survived + 1}
  BY DEF Observe
<1>3. InCooldown(a, now') => ~open
  <2>1. a.cooldownUntil = IF Scheduled(req) THEN NoTime ELSE state.cooldownUntil
    BY RequestFacts, EventsKeep DEF Cycle, HInv, Inv, TypeOK
  <2>2. answer'.scheduled = Scheduled(req)
    BY DEF Cycle
  <2> QED BY <2>1, <2>2 DEF InCooldown
<1>4. CASE Queued(state'.queue) = {}
  BY <1>1, <1>4 DEF Observe, BacklogDrains
<1>5. CASE TimesOut(D, M, merged)
  BY <1>1, <1>2, <1>5 DEF TimesOut, BacklogDrains
<1>6. CASE Waits(a, D, M, merged)
  <2>1. survived' \in {0, survived}
    BY <1>3, <1>6 DEF Waits, Observe
  <2> QED BY <1>1, <1>6, <2>1 DEF Waits, BacklogDrains
<1>7. CASE Idles(a, D, M)
  <2>1. survived' \in {0, survived}
    BY <1>3, <1>7 DEF Idles, Observe
  <2> QED BY <1>1, <1>7, <2>1 DEF Idles, BacklogDrains
<1>8. Optimizes(a, D, M, merged) \/ GivesUp(D, M) \/ Forgets(a, D, M) => Queued(state'.queue) = {}
  BY QueuedAfter DEF HInv
<1> QED BY <1>4, <1>5, <1>6, <1>7, <1>8 DEF Cycle

LEMMA StepHInv == HInv /\ [HNext]_hvars => HInv'
<1> SUFFICES ASSUME HInv, [HNext]_hvars PROVE HInv'
  OBVIOUS
<1>1. Inv'
  <2>1. [Next]_vars
    BY DEF HNext, hvars, vars
  <2> QED BY <2>1, StepInv DEF HInv
<1>2. CASE UNCHANGED hvars
  BY <1>1, <1>2 DEF HInv, CooldownOfLast, CountsOneOrigin, BacklogDrains, hvars
<1>3. CASE /\ Observe
           /\ state' = state /\ \E v \in Errors \cup {Missed} : answer' = NoAnswer(v)
  <2>1. /\ answer'.verdict # "OPTIMIZED" /\ ~answer'.scheduled
        /\ ~Answered
    BY <1>3 DEF NoAnswer, Errors, Missed, Answered, Verdict
  <2>2. optimizedAt' = optimizedAt /\ streak' = streak /\ survived' \in {0, survived}
    BY <1>3, <2>1 DEF Observe
  <2>3. state.skipCount \in Nat
    BY DEF HInv, Inv, TypeOK, DetectionState
  <2> QED BY <1>1, <1>3, <2>2, <2>3 DEF HInv, CooldownOfLast, CountsOneOrigin, BacklogDrains
<1>4. ASSUME Observe, now' \in Nat,
             NEW req \in Requests, NEW a, NEW M, NEW D, NEW scores, NEW merged,
             Cycle(req, a, M, D, scores, merged)
      PROVE  HInv'
  BY <1>1, <1>4, CooldownAccount, CountAccount, SkipAccount DEF HInv
<1>5. Observe \/ UNCHANGED hvars
  BY DEF HNext
<1> QED BY <1>2, <1>3, <1>4, <1>5, HistoryStep DEF HInv

THEOREM HistoryAccount == HSpec => []HInv
<1> QED BY InitHInv, StepHInv, PTL DEF HSpec

(* A retrigger count never exceeds the optimizations its arc took part in  *)
(* without another arc taking its place (triggers.py's retrigger rules,    *)
(* through timed-out attempts, quiet cycles, disabling and lowered flags). *)
THEOREM CountsHaveOneOrigin == HSpec => []CountsOneOrigin
<1>1. HInv => CountsOneOrigin
  BY DEF HInv
<1> QED BY <1>1, HistoryAccount, PTL

(* Out of the cooldown, every answered cycle that detects at all empties   *)
(* the queue or is counted as a skip, so a backlog outlives no more of     *)
(* them than the skip counter shows (detector.py's decision out of the     *)
(* cooldown and handler.py's skip counter).                                *)
THEOREM BacklogIsDrained == HSpec => []BacklogDrains
<1>1. HInv => BacklogDrains
  BY DEF HInv
<1> QED BY <1>1, HistoryAccount, PTL

(* Two optimizations closer than the cooldown have a reason: a scheduled   *)
(* event, a danger flag, or triggers of this very cycle that take the      *)
(* queue over a threshold (detector.py's decision within the cooldown).    *)
THEOREM CooldownKept == HSpec => CooldownSpacing
<1> DEFINE A == /\ answer'.verdict = "OPTIMIZED"
                /\ optimizedAt # NoTime
                /\ now' < optimizedAt + CooldownMin
                => \/ answer'.scheduled
                   \/ answer'.danger # {}
                   \/ answer'.metric # {} /\ Overloaded(state.queue, answer')
<1>1. HInv /\ [HNext]_hvars => [A]_hvars
  <2> SUFFICES ASSUME HInv, [HNext]_hvars, ~UNCHANGED hvars PROVE A
    OBVIOUS
  <2>1. CASE \E v \in Errors \cup {Missed} : answer' = NoAnswer(v)
    BY <2>1 DEF NoAnswer, Errors, Missed
  <2>2. ASSUME now' \in Nat,
               NEW req \in Requests, NEW a, NEW M, NEW D, NEW scores, NEW merged,
               Cycle(req, a, M, D, scores, merged)
        PROVE  A
    <3> SUFFICES ASSUME answer'.verdict = "OPTIMIZED", optimizedAt # NoTime,
                        now' < optimizedAt + CooldownMin,
                        ~Scheduled(req), D = {}
                 PROVE  M # {} /\ Overloaded(state.queue, answer')
      BY <2>2 DEF Cycle
    <3>1. CooldownObserved(a, D, M, merged, now')
      BY <2>2 DEF Cycle, Optimizes, TimesOut, GivesUp, Waits, Idles, Forgets
    <3>2. InCooldown(a, now')
      <4>1. a.cooldownUntil = state.cooldownUntil
        BY <2>2, RequestFacts, EventsKeep DEF Cycle, HInv, Inv, TypeOK
      <4>2. optimizedAt \in Int /\ state.cooldownUntil = optimizedAt + CooldownMin
        BY DEF HInv, CooldownOfLast, Instant
      <4> QED BY <4>1, <4>2, DetectionAssumption, WatchAssumption DEF InCooldown
    <3>3. M # {} /\ OverThreshold(merged)
      BY <3>1, <3>2 DEF CooldownObserved
    <3>4. PICK q, t : q = state.queue /\ t = now' /\ q \in Queues /\ t \in Int
      BY <2>2 DEF HInv, Inv, TypeOK, DetectionState, Queues
    <3>5. /\ M \in SUBSET Targets /\ M \in SUBSET Edges /\ (\A e \in M : scores[e] \in Nat)
          /\ merged = MergeIntoQueue(q, M, scores, t)
      BY <2>2, <3>4, RequestFacts, ScoresAreNat DEF Cycle, MetricFired, Judged, Targets
    <3>6. /\ Queued(merged) = Queued(q) \cup M
          /\ QueueScore(merged) = QueueScore(q) + SumFunctionOnSet(scores, M)
      <4>1. q \in Queues /\ t \in Int
        BY <3>4
      <4> QED BY <3>5, <4>1, MergeFacts, MergedScore
    <3>7. answer'.scores = scores /\ answer'.metric = M
      BY <2>2 DEF Cycle
    <3> QED BY <3>3, <3>4, <3>6, <3>7
            DEF OverThreshold, QueueExceedsScore, QueueIsDiverse, Overloaded
  <2> QED BY <2>1, <2>2, HistoryStep DEF HInv
<1> QED BY <1>1, HistoryAccount, PTL DEF HSpec, CooldownSpacing
=============================================================================
