--------------------------- MODULE StagnationWatch ---------------------------
(***************************************************************************)
(* The stagnation watch of one arc (detection/triggers.py): how long the   *)
(* congestion condition has held across the cycles of a stateless service, *)
(* with cycles that cannot judge the arc in between.                       *)
(***************************************************************************)
EXTENDS ElementState

CONSTANTS
  NoTime,           (* an absent timestamp                                 *)
  StagnationMin,    (* M: how long the condition must hold before it counts*)
  SampleInterval    (* the arc's time resolution                           *)

ASSUME WatchAssumption ==
  /\ NoTime \notin Int
  /\ StagnationMin \in Nat
  /\ SampleInterval \in Nat \ {0}
  /\ StaleAfter \in Nat \ {0}

Instant == Int \cup {NoTime}

Watch ==
  [percentile : BOOLEAN, delta : BOOLEAN,
   since : Instant, lastHeld : Instant, surge : BOOLEAN]

(* An arc without an entry in arc_watch_states: an entry with these values *)
(* is never built, and evaluating from it is evaluating from no entry.     *)
NoWatch ==
  [percentile |-> FALSE, delta |-> FALSE,
   since |-> NoTime, lastHeld |-> NoTime, surge |-> FALSE]

(* Seeded faults: each replaces the definition it names in a run that must *)
(* then fail.                                                              *)

(* UnexpiredWatch: old evidence keeps counting. *)
NeverExpires(w, now) == w

(* ResumedSince: the silence counts in full. *)
SinceKeptOverGap(w, now) == w.since

(* ResumedSince: the interval is taken off but the gap is not added. *)
IntervalWithoutGap(w, now) ==
  IF w.since = NoTime \/ w.lastHeld = NoTime THEN NoTime
  ELSE IF now - w.lastHeld > StaleAfter THEN w.since - SampleInterval ELSE w.since

(* NextWatch: an arc without a line has no surge flag. *)
SurgeFlagUnset(w, r, now) == [w EXCEPT !.surge = IF HasSurgeLine(r) THEN @ ELSE NoTime]

-----------------------------------------------------------------------------
(* Evidence last seen more than M ago no longer counts. *)
UnexpiredWatch(w, now) ==
  IF w.lastHeld # NoTime /\ now - w.lastHeld > StagnationMin THEN NoWatch ELSE w

(***************************************************************************)
(* Where the timer resumes.  A silence longer than StaleAfter is cut out   *)
(* of the elapsed time, except for one sampling interval.                  *)
(***************************************************************************)
ResumedSince(w, now) ==
  IF w.since = NoTime \/ w.lastHeld = NoTime
  THEN NoTime
  ELSE LET gap == now - w.lastHeld
       IN  IF gap > StaleAfter THEN w.since + gap - SampleInterval ELSE w.since

PercentileBreached(r) == HasP90(r) /\ "percentile" \in r.breaches

DeltaBreached(r) == "delta" \in r.breaches

(* Without a percentile the increment alone decides. *)
StagnationHeld(r) == DeltaBreached(r) /\ (HasP90(r) => PercentileBreached(r))

(* An eval is a watch before the surge flag, with the verdict of (a). *)
NotEvaluated ==
  [established |-> FALSE, percentile |-> FALSE, delta |-> FALSE,
   since |-> NoTime, lastHeld |-> NoTime]

(* The condition judged on this cycle's values. *)
JudgeStagnation(r, resumed, now) ==
  LET since == IF resumed = NoTime THEN now ELSE resumed
  IN  [established |-> StagnationHeld(r) /\ now - since >= StagnationMin,
       percentile  |-> PercentileBreached(r),
       delta       |-> DeltaBreached(r),
       since       |-> IF StagnationHeld(r) THEN since ELSE NoTime,
       lastHeld    |-> IF StagnationHeld(r) THEN now ELSE NoTime]

CarryStagnation(w) ==
  [established |-> FALSE, percentile |-> w.percentile, delta |-> w.delta,
   since |-> w.since, lastHeld |-> w.lastHeld]

EvaluateStagnation(w, r, now) ==
  LET carried == UnexpiredWatch(w, now)
  IN  IF HasStagnationBasis(r) THEN JudgeStagnation(r, ResumedSince(carried, now), now)
      ELSE IF ~OutOfScope(r) THEN CarryStagnation(carried)
      ELSE NotEvaluated

(* The combined trigger: congestion established and demand surging. *)
CombinedFires(w, r, now) ==
  /\ HasStagnationBasis(r)
  /\ EvaluateStagnation(w, r, now).established
  /\ SurgeBreached(r)

(* Firing resets the watch; otherwise the evaluation is carried over. *)
NextWatch(w, r, now) ==
  LET e == EvaluateStagnation(w, r, now)
  IN  IF CombinedFires(w, r, now) THEN NoWatch
      ELSE [percentile |-> e.percentile, delta |-> e.delta,
            since |-> e.since, lastHeld |-> e.lastHeld,
            surge |-> SurgeBreached(r)]

(* The arc is in the congestion warning that keeps queued triggers fresh. *)
Watched(w) == w.percentile \/ w.delta
=============================================================================
