------------------------------ MODULE CallClock ------------------------------
(* The time of one call (service/handler.py, handle_request): the steps of a  *)
(* cycle run one after the other against two deadlines, the service's own     *)
(* budget and the one of the remote call, and what is left when the solver's  *)
(* turn comes is handed to it as its budget.                                  *)
(*                                                                            *)
(* Time is counted in seconds from the start of the call. A step may take as  *)
(* long as it likes; the solver too may overrun what it was given.            *)
EXTENDS Integers

CONSTANTS
  BufferSec,     \* what the service keeps back for everything after the solver
  RpcMarginSec,  \* what is kept back of the time of the remote call
  MinOptBudget,  \* the least the solver is given
  Calls          \* the calls: the budgets and the deadline of each, and how
                 \* long its steps may take

ASSUME ClockAssumption ==
  /\ {BufferSec, RpcMarginSec, MinOptBudget} \subseteq Nat
  /\ RpcMarginSec > 0
  /\ BufferSec >= MinOptBudget + RpcMarginSec
  /\ Calls \subseteq [forecasting : Nat, detour : Nat, cap : Nat, finalRetry : BOOLEAN,
                      hasDeadline : BOOLEAN, deadline : Int, pace : SUBSET Nat]

VARIABLES
  call,    \* what was asked for
  stage,   \* how far the cycle has come
  now,     \* the time
  grant,   \* the budget of the solver
  solver   \* what the solver made of it

clockVars == <<call, stage, now, grant, solver>>

Stages == {"received", "triggered", "forecast", "routed", "solving",
           "optimized", "skipped", "no_trigger"}

-----------------------------------------------------------------------------
(* The deadlines.                                                             *)

\* A cycle that was put off too often is given twice the time.
Retried(c, sec) == IF c.finalRetry THEN 2 * sec ELSE sec

ServiceDeadline(c) == Retried(c, c.forecasting + c.detour + c.cap + BufferSec)

RpcLimited(c) == c.hasDeadline /\ c.deadline < ServiceDeadline(c)

CycleDeadline(c) == IF RpcLimited(c) THEN c.deadline ELSE ServiceDeadline(c)

Lesser(a, b) == IF a <= b THEN a ELSE b

Remaining(c, t) ==
  IF c.hasDeadline
  THEN Lesser(ServiceDeadline(c) - t - BufferSec, c.deadline - t - RpcMarginSec)
  ELSE ServiceDeadline(c) - t - BufferSec

\* Seeded fault: the floor is for every call.
FlooredBudget(c, t) ==
  Lesser(IF Remaining(c, t) >= MinOptBudget THEN Remaining(c, t) ELSE MinOptBudget,
         Retried(c, c.cap))

\* The floor is for a call that only the service's own budget limits: the
\* reserve has room for it.
OptBudget(c, t) ==
  LET floored == IF RpcLimited(c) \/ Remaining(c, t) >= MinOptBudget
                 THEN Remaining(c, t) ELSE MinOptBudget
  IN  Lesser(floored, Retried(c, c.cap))

\* Whether the solver is called at all.
GoesAhead(c, t) == Remaining(c, t) > 0 /\ OptBudget(c, t) > 0

-----------------------------------------------------------------------------
(* The steps.                                                                 *)

ClockInit ==
  /\ call \in Calls
  /\ stage = "received"
  /\ now = 0
  /\ grant = 0
  /\ solver = [spent |-> 0, found |-> FALSE]

\* One step of the cycle takes its time; the cycle stops when it is over the
\* deadline.
Step(from, to) ==
  /\ stage = from
  /\ \E d \in call.pace : now' = now + d
  /\ stage' = IF now' >= CycleDeadline(call) THEN "skipped" ELSE to
  /\ UNCHANGED <<call, grant, solver>>

\* Detection answers the call at once when nothing triggers, however late.
DetectNothing ==
  /\ stage = "received"
  /\ \E d \in call.pace : now' = now + d
  /\ stage' = "no_trigger"
  /\ UNCHANGED <<call, grant, solver>>

Detect    == Step("received", "triggered")
DoForecast == Step("triggered", "forecast")
Detour    == Step("forecast", "routed")

\* The clock is read again, after the last check of the deadline.
GiveBudget ==
  /\ stage = "routed"
  /\ \E d \in call.pace : now' = now + d
  /\ stage' = IF GoesAhead(call, now') THEN "solving" ELSE "skipped"
  /\ grant' = IF GoesAhead(call, now') THEN OptBudget(call, now') ELSE 0
  /\ UNCHANGED <<call, solver>>

\* A solver that found nothing in its time answers TIMEOUT.
Solve ==
  /\ stage = "solving"
  /\ \E d \in call.pace, found \in BOOLEAN :
       /\ now' = now + d
       /\ solver' = [spent |-> d, found |-> found]
       /\ stage' = IF found /\ now' < CycleDeadline(call) THEN "optimized" ELSE "skipped"
  /\ UNCHANGED <<call, grant>>

ClockNext == DetectNothing \/ Detect \/ DoForecast \/ Detour \/ GiveBudget \/ Solve

ClockSpec == ClockInit /\ [][ClockNext]_clockVars

-----------------------------------------------------------------------------
(* Properties.                                                                *)

ClockTypeOK ==
  /\ call \in Calls
  /\ stage \in Stages
  /\ now \in Nat
  /\ grant \in Nat
  /\ solver \in [spent : Nat, found : BOOLEAN]

\* The budget the solver is given is never too generous: a result found within
\* it is neither thrown away as late by the service nor missed by the caller,
\* who still has the margin to receive it in.  Two deadlines, a reserve, a
\* floor and a cap make the budget, and the clock is read twice on the way.
KeptBudgetIsAnswered ==
  stage \in {"optimized", "skipped"} /\ solver.found /\ solver.spent <= grant =>
    /\ stage = "optimized"
    /\ call.hasDeadline => now + RpcMarginSec <= call.deadline
=============================================================================
