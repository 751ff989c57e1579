--------------------------- MODULE MCRequestCycle ---------------------------
(* Small instances of RequestHistory.  A cooldown lasts two or three units   *)
(* of time, so that one or two cycles fall into it.                          *)
EXTENDS RequestHistory, TLC

CONSTANTS a, b, n

Arc(breaches, flow, puncture, score) ==
  [flags |-> {"OK"}, lag |-> 0, tier |-> "ESTABLISHED", stagnation |-> TRUE,
   breaches |-> breaches, linePoints |-> 2, flow |-> flow,
   puncture |-> puncture, score |-> score]

Quiet    == Arc({}, "steady", "below", 1)
Warned   == Arc({"percentile"}, "steady", "below", 1)
Punctured == Arc({}, "steady", "over", 1)
Severe   == Arc({}, "surge", "over", 2)
Jammed   == Arc({"percentile", "delta"}, "surge", "below", 1)

Both(ra, rb) == [e \in Edges |-> IF e = a THEN ra ELSE rb]
Pairs(S) == {Both(r, q) : r \in S, q \in S}

Ev(kind, t) == [kind |-> kind, target |-> t]

(* The queue and the cooldown: every target stays enabled, none warms up. *)
QueueReadings == {Both(Quiet, Quiet), Both(Punctured, Quiet), Both(Warned, Severe)}
QueueEvents   == { << >>, <<Ev("DANGER_FLAG_UP", n)>>, <<Ev("SCHEDULED_INFLOW", n)>> }
AllEnabled    == {Targets}

(* Warmup and retrigger counts: targets come and go. *)
ChurnReadings == {Both(Quiet, Quiet), Both(Jammed, Quiet), Both(Warned, Punctured)}
ChurnEvents ==
  { << >>, <<Ev("DANGER_FLAG_UP", a)>>,
    <<Ev("DISABLE", a), Ev("SENSOR_SET_CHANGED", a)>>,
    <<Ev("DANGER_FLAG_DOWN", a), Ev("ENABLE", b), Ev("ADD_NODE", n)>> }
SomeEnabled == {Targets, {a, n}}

(* No step depends on what came of the one before. *)
CycleView == <<now, state, optimizedAt, streak, survived>>
=============================================================================
