------------------------ MODULE ForecastCall_proofs ------------------------
(***************************************************************************)
(* Proofs about the time and the forecast of a call, for every set of      *)
(* budgets and deadlines, for every site and whatever was measured there.  *)
(***************************************************************************)
EXTENDS ForecastCall, Operators_proofs

-----------------------------------------------------------------------------
(* The time of a call *)

(***************************************************************************)
(* What the budget is worth: handed out at t, it ends before the deadline  *)
(* of the cycle, and a margin before that of the caller.                   *)
(***************************************************************************)
Affordable(c, t, budget) ==
  /\ t + budget < CycleDeadline(c)
  /\ c.hasDeadline => t + budget + RpcMarginSec <= c.deadline

(* The budget stands until the solver has answered; nothing was found      *)
(* before it was called.                                                   *)
Promised ==
  /\ stage = "solving" => Affordable(call, now, grant)
  /\ stage \in {"received", "triggered", "forecast", "routed", "solving"} => ~solver.found

ClockInv == ClockTypeOK /\ Promised /\ KeptBudgetIsAnswered

(* The budgets and the deadlines are whole numbers. *)
LEMMA CallsAreNumbers ==
  ASSUME NEW c \in Calls
  PROVE  /\ c.hasDeadline \in BOOLEAN /\ c.finalRetry \in BOOLEAN
         /\ c.deadline \in Int /\ c.pace \subseteq Nat
         /\ c.cap \in Nat /\ Retried(c, c.cap) \in Nat
         /\ ServiceDeadline(c) \in Nat
<1>1. c \in [forecasting : Nat, detour : Nat, cap : Nat, finalRetry : BOOLEAN,
             hasDeadline : BOOLEAN, deadline : Int, pace : SUBSET Nat] /\ BufferSec \in Nat
  BY ClockAssumption
<1> QED BY <1>1 DEF Retried, ServiceDeadline

LEMMA ClockConstants ==
  /\ BufferSec \in Nat /\ RpcMarginSec \in Nat /\ MinOptBudget \in Nat
  /\ RpcMarginSec > 0 /\ BufferSec >= MinOptBudget + RpcMarginSec
  BY ClockAssumption

LEMMA RemainingIsNumber ==
  ASSUME NEW c \in Calls, NEW t \in Nat
  PROVE  Remaining(c, t) \in Int /\ CycleDeadline(c) \in Int
  BY CallsAreNumbers, ClockConstants DEF Remaining, CycleDeadline, RpcLimited, Lesser

(***************************************************************************)
(* A budget that is handed out is a positive number, and affordable. The   *)
(* floor is used only where the service's reserve, which is larger than    *)
(* floor and margin together, covers it.                                   *)
(***************************************************************************)
LEMMA BudgetIsAffordable ==
  ASSUME NEW c \in Calls, NEW t \in Nat, GoesAhead(c, t)
  PROVE  OptBudget(c, t) \in Nat /\ Affordable(c, t, OptBudget(c, t))
<1> DEFINE r == Remaining(c, t)
           b == OptBudget(c, t)
           s == ServiceDeadline(c)
<1>1. r \in Int /\ r > 0 /\ s \in Nat /\ c.deadline \in Int
      /\ Retried(c, c.cap) \in Nat /\ c.hasDeadline \in BOOLEAN
  BY RemainingIsNumber, CallsAreNumbers DEF GoesAhead
<1>2. r <= s - t - BufferSec
  BY CallsAreNumbers, ClockConstants DEF Remaining, Lesser
<1>3. c.hasDeadline => r <= c.deadline - t - RpcMarginSec
  BY CallsAreNumbers, ClockConstants DEF Remaining, Lesser
<1>4. CASE RpcLimited(c)
  <2>1. b \in Nat /\ b <= r
    BY <1>1, <1>4 DEF OptBudget, Lesser, GoesAhead
  <2>2. CycleDeadline(c) = c.deadline /\ c.hasDeadline
    BY <1>4 DEF CycleDeadline, RpcLimited
  <2>3. t + b + RpcMarginSec <= c.deadline
    BY <1>1, <1>3, <2>1, <2>2, ClockConstants
  <2> QED BY <1>1, <2>1, <2>2, <2>3, ClockConstants DEF Affordable
<1>5. CASE ~RpcLimited(c)
  <2>1. b \in Nat /\ (b <= r \/ b <= MinOptBudget)
    BY <1>1, <1>5, ClockConstants DEF OptBudget, Lesser, GoesAhead
  <2>2. t + b + RpcMarginSec <= s
    BY <1>1, <1>2, <2>1, ClockConstants
  <2>3. CycleDeadline(c) = s /\ (c.hasDeadline => s <= c.deadline)
    BY <1>1, <1>5 DEF CycleDeadline, RpcLimited
  <2> QED BY <1>1, <2>1, <2>2, <2>3, ClockConstants DEF Affordable
<1> QED BY <1>4, <1>5

LEMMA ClockInitInv == ClockInit => ClockInv
  BY DEF ClockInit, ClockInv, ClockTypeOK, Promised, KeptBudgetIsAnswered, Stages

(* A step before the solver's only moves the clock. *)
LEMMA StepInv ==
  ASSUME ClockInv, NEW from, NEW to, Step(from, to),
         <<from, to>> \in {<<"received", "triggered">>, <<"triggered", "forecast">>,
                           <<"forecast", "routed">>}
  PROVE  ClockInv'
<1>1. now' \in Nat /\ stage' \in {to, "skipped"} /\ stage = from
      /\ call' = call /\ grant' = grant /\ solver' = solver
  BY CallsAreNumbers DEF Step, ClockInv, ClockTypeOK
<1>2. ~solver.found
  BY <1>1 DEF ClockInv, Promised
<1>3. ClockTypeOK'
  BY <1>1 DEF ClockInv, ClockTypeOK, Stages
<1>4. Promised'
  BY <1>1, <1>2 DEF Promised
<1>5. KeptBudgetIsAnswered'
  BY <1>1, <1>2 DEF KeptBudgetIsAnswered
<1> QED BY <1>3, <1>4, <1>5 DEF ClockInv

LEMMA ClockNextInv == ClockInv /\ [ClockNext]_clockVars => ClockInv'
<1> SUFFICES ASSUME ClockInv, [ClockNext]_clockVars PROVE ClockInv'
  OBVIOUS
<1>1. CASE DetectNothing
  <2>1. now' \in Nat /\ stage' = "no_trigger"
        /\ call' = call /\ grant' = grant /\ solver' = solver
    BY <1>1, CallsAreNumbers DEF DetectNothing, ClockInv, ClockTypeOK
  <2> QED BY <2>1 DEF ClockInv, ClockTypeOK, Promised, KeptBudgetIsAnswered, Stages
<1>2. CASE Detect
  BY <1>2, StepInv DEF Detect
<1>3. CASE DoForecast
  BY <1>3, StepInv DEF DoForecast
<1>4. CASE Detour
  BY <1>4, StepInv DEF Detour
<1>5. CASE GiveBudget
  <2>1. PICK t \in Nat : now' = t /\ call' = call /\ solver' = solver
          /\ stage' = (IF GoesAhead(call, t) THEN "solving" ELSE "skipped")
          /\ grant' = (IF GoesAhead(call, t) THEN OptBudget(call, t) ELSE 0)
    BY <1>5, CallsAreNumbers DEF GiveBudget, ClockInv, ClockTypeOK
  <2>2. ~solver.found /\ call \in Calls
    BY <1>5 DEF GiveBudget, ClockInv, Promised, ClockTypeOK
  <2>3. GoesAhead(call, t) => OptBudget(call, t) \in Nat
                              /\ Affordable(call, t, OptBudget(call, t))
    BY <2>2, BudgetIsAffordable
  <2>4. ClockTypeOK'
    BY <2>1, <2>2, <2>3 DEF ClockInv, ClockTypeOK, Stages
  <2>5. Promised'
    BY <2>1, <2>2, <2>3 DEF Promised, Affordable, CycleDeadline, RpcLimited, ServiceDeadline,
                            Retried
  <2>6. KeptBudgetIsAnswered'
    BY <2>1, <2>2 DEF KeptBudgetIsAnswered
  <2> QED BY <2>4, <2>5, <2>6 DEF ClockInv
<1>6. CASE Solve
  <2>1. PICK d \in Nat, found \in BOOLEAN :
          /\ now' = now + d
          /\ solver' = [spent |-> d, found |-> found]
          /\ stage' = IF found /\ now + d < CycleDeadline(call) THEN "optimized" ELSE "skipped"
    BY <1>6, CallsAreNumbers DEF Solve, ClockInv, ClockTypeOK
  <2>2. call' = call /\ grant' = grant /\ now \in Nat /\ grant \in Nat /\ call \in Calls
        /\ Affordable(call, now, grant)
    BY <1>6 DEF Solve, ClockInv, ClockTypeOK, Promised
  <2>3. ClockTypeOK'
    BY <2>1, <2>2 DEF ClockInv, ClockTypeOK, Stages
  <2>4. Promised'
    BY <2>1 DEF Promised
  <2>5. d <= grant => now + d < CycleDeadline(call)
                      /\ (call.hasDeadline => now + d + RpcMarginSec <= call.deadline)
    BY <2>1, <2>2, RemainingIsNumber, CallsAreNumbers, ClockConstants DEF Affordable
  <2>6. KeptBudgetIsAnswered'
    BY <2>1, <2>2, <2>5 DEF KeptBudgetIsAnswered
  <2> QED BY <2>3, <2>4, <2>6 DEF ClockInv
<1>7. CASE UNCHANGED clockVars
  BY <1>7 DEF clockVars, ClockInv, ClockTypeOK, Promised, Affordable, KeptBudgetIsAnswered,
              CycleDeadline, RpcLimited, ServiceDeadline, Retried
<1> QED BY <1>1, <1>2, <1>3, <1>4, <1>5, <1>6, <1>7 DEF ClockNext

(* The time of a call, its budgets and its deadlines keep their types,      *)
(* whatever the budgets are and however long the steps take.                *)
THEOREM ClockTypesHold == ClockSpec => []ClockTypeOK
<1>1. ClockInv => ClockTypeOK
  BY DEF ClockInv
<1> QED BY ClockInitInv, ClockNextInv, <1>1, PTL DEF ClockSpec

(* A result the solver finds within the budget it was handed is answered as *)
(* OPTIMIZED, a margin before the deadline of the caller, for every choice  *)
(* of budgets and deadlines (handle_request, opt_budget).                   *)
THEOREM BudgetIsKept == ClockSpec => []KeptBudgetIsAnswered
<1>1. ClockInv => KeptBudgetIsAnswered
  BY DEF ClockInv
<1> QED BY ClockInitInv, ClockNextInv, <1>1, PTL DEF ClockSpec

(* The next call starts with a new clock. *)
LEMMA NextCallInv == ClockInv /\ NextCall => ClockInv'
  BY DEF NextCall, ClockInv, ClockTypeOK, Promised, KeptBudgetIsAnswered, Stages

(* From call to call about a site, too, no budget is handed out that the    *)
(* service or the caller would not wait for, and no time of an earlier call *)
(* counts for a later one (handle_request, opt_budget).                     *)
THEOREM EveryBudgetIsKept == ForecastSpec => [](ClockTypeOK /\ KeptBudgetIsAnswered)
<1>1. ForecastInit => ClockInv
  BY ClockInitInv DEF ForecastInit
<1>2. ClockInv /\ [ForecastNext]_forecastVars => ClockInv'
  <2>1. CycleStep => ClockNext
    BY DEF CycleStep, ClockNext
  <2>2. UNCHANGED forecastVars => UNCHANGED clockVars
    BY DEF forecastVars
  <2> QED BY <2>1, <2>2, ClockNextInv, NextCallInv DEF ForecastNext
<1>3. ClockInv => ClockTypeOK /\ KeptBudgetIsAnswered
  BY DEF ClockInv
<1> QED BY <1>1, <1>2, <1>3, PTL DEF ForecastSpec

-----------------------------------------------------------------------------
(* Readings and tables *)

LEMMA TableIsSame == ASSUME NEW f PROVE Table(f) = f
  BY DEF Table

LEMMA SequenceFacts ==
  ASSUME NEW R, NEW s \in Seq(R)
  PROVE  /\ DOMAIN s \subseteq Nat /\ IsFiniteSet(DOMAIN s)
         /\ \A i \in DOMAIN s : s[i] \in R
<1>1. DOMAIN s = 1 .. Len(s) /\ Len(s) \in Nat
  OBVIOUS
<1>2. IsFiniteSet(1 .. Len(s))
  BY <1>1, FS_Interval
<1>3. \A i \in DOMAIN s : s[i] \in R
  OBVIOUS
<1> QED BY <1>1, <1>2, <1>3

(* A graph of finitely many numbered nodes and passages, and its readings. *)
Surveyed(g, obs) ==
  /\ FiniteGraph(g)
  /\ DOMAIN g.node \subseteq Nat /\ DOMAIN g.edge \subseteq Nat
  /\ obs \in Readings

LEMMA SurveyFacts ==
  ASSUME NEW g, NEW obs, Surveyed(g, obs)
  PROVE  /\ IsFiniteSet(EnabledNodes(g)) /\ EnabledNodes(g) \subseteq Nat
         /\ IsFiniteSet(VectorEdges(g)) /\ VectorEdges(g) \subseteq EnabledEdges(g)
         /\ VectorEdges(g) \subseteq Nat
         /\ IsFiniteSet(UsableFlows(g, obs)) /\ UsableFlows(g, obs) \subseteq DOMAIN obs.flows
         /\ DOMAIN obs.flows \subseteq Nat /\ IsFiniteSet(DOMAIN obs.flows)
         /\ \A i \in DOMAIN obs.flows : obs.flows[i].rate \in Int
         /\ \A i \in UsableFlows(g, obs) : obs.flows[i].edge \in VectorEdges(g)
<1>1. IsFiniteSet(EnabledNodes(g)) /\ EnabledNodes(g) \subseteq Nat
  BY GraphFacts DEF Surveyed, EnabledNodes
<1>2. IsFiniteSet(VectorEdges(g)) /\ VectorEdges(g) \subseteq EnabledEdges(g)
      /\ VectorEdges(g) \subseteq Nat
  <2>1. VectorEdges(g) \subseteq DOMAIN g.edge /\ VectorEdges(g) \subseteq EnabledEdges(g)
    BY DEF VectorEdges, EnabledEdges
  <2> QED BY <2>1, FS_Subset DEF Surveyed, FiniteGraph
<1>3. obs.flows \in Seq([edge : Nat, direction : Directions, rate : Int, flag : STRING])
  BY DEF Surveyed, Readings
<1>4. /\ DOMAIN obs.flows \subseteq Nat /\ IsFiniteSet(DOMAIN obs.flows)
      /\ \A i \in DOMAIN obs.flows :
           obs.flows[i] \in [edge : Nat, direction : Directions, rate : Int, flag : STRING]
  BY <1>3, SequenceFacts
<1>6. UsableFlows(g, obs) \subseteq DOMAIN obs.flows
  BY DEF UsableFlows
<1>7. \A i \in DOMAIN obs.flows : obs.flows[i].rate \in Int
  BY <1>4
<1>8. \A i \in UsableFlows(g, obs) : obs.flows[i].edge \in VectorEdges(g)
  BY DEF UsableFlows
<1>9. IsFiniteSet(UsableFlows(g, obs)) /\ DOMAIN obs.flows \subseteq Nat
  BY <1>4, <1>6, FS_Subset
<1> QED BY <1>1, <1>2, <1>4, <1>6, <1>7, <1>8, <1>9

(* The change of a node's occupancy is a number, or it is not known. *)
LEMMA DeltaFacts ==
  ASSUME NEW obs \in Readings, NEW n
  PROVE  /\ OccupancyDelta(obs, n) \in Optional(Int)
         /\ DeltaOrZero(obs, n) \in Int
         /\ \A o \in Occupancy(obs, n) : o.level \in Optional(Int)
         /\ \A o, q \in Occupancy(obs, n) : o = q
<1> DEFINE R == [node : Nat, level : Optional(Int), delta : Optional(Int),
                 sameSensor : BOOLEAN, flag : STRING]
           valid == {i \in DOMAIN obs.occupancies : /\ obs.occupancies[i].flag # "INVALID"
                                                    /\ obs.occupancies[i].node = n}
<1>1. obs.occupancies \in Seq(R)
  BY DEF Readings
<1>2. /\ DOMAIN obs.occupancies \subseteq Nat /\ IsFiniteSet(DOMAIN obs.occupancies)
      /\ \A i \in DOMAIN obs.occupancies : obs.occupancies[i] \in R
  <2> HIDE DEF R
  <2> QED BY <1>1, SequenceFacts
<1>3. valid \in SUBSET Int /\ IsFiniteSet(valid)
  BY <1>2, FS_Subset
<1>4. Occupancy(obs, n) = IF valid = {} THEN {} ELSE {obs.occupancies[Max(valid)]}
  BY DEF Occupancy
<1>5. Occupancy(obs, n) \subseteq R /\ \A o, q \in Occupancy(obs, n) : o = q
  <2>1. CASE valid = {}
    BY <1>4, <2>1
  <2>2. CASE valid # {}
    <3>1. Max(valid) \in valid
      <4> HIDE DEF valid
      <4> QED BY <1>3, <2>2, MaxFacts
    <3>2. obs.occupancies[Max(valid)] \in R
      <4>1. Max(valid) \in DOMAIN obs.occupancies
        BY <3>1
      <4> HIDE DEF R, valid
      <4> QED BY <1>2, <4>1
    <3> HIDE DEF R, valid
    <3> QED BY <1>4, <2>2, <3>2
  <2> QED BY <2>1, <2>2
<1>6. OccupancyDelta(obs, n) \in Optional(Int)
  <2>1. CASE Occupancy(obs, n) = {}
    BY <2>1 DEF OccupancyDelta, Optional
  <2>2. CASE Occupancy(obs, n) # {}
    <3>1. PICK o : o \in Occupancy(obs, n)
      BY <2>2
    <3>2. OccupancyDelta(obs, n) = o.delta
      BY <1>5, <3>1 DEF OccupancyDelta
    <3> QED BY <1>5, <3>1, <3>2
  <2> QED BY <2>1, <2>2
<1>7. DeltaOrZero(obs, n) \in Int
  BY <1>6 DEF DeltaOrZero, Optional
<1> QED BY <1>5, <1>6, <1>7

-----------------------------------------------------------------------------
(* Filling in what was not measured *)

(* A state of the imputation. *)
Books(g) ==
  LET places == UNION {Ends(g, e) : e \in VectorEdges(g)}
  IN  [out : [EnabledNodes(g) -> Int], in : [EnabledNodes(g) -> Int],
       settled : SUBSET VectorEdges(g), imputed : SUBSET VectorEdges(g),
       flows : SUBSET [edge : VectorEdges(g), from : places, to : places, rate : Nat],
       anchors : SUBSET EnabledNodes(g)]

(***************************************************************************)
(* A node that settled a passage has none left that is open, so that no    *)
(* passage settled later touches its balance.                              *)
(***************************************************************************)
Balances(g, obs, st, n) ==
  CanAnchor(g, obs, n) /\ Residual(obs, st, n) = 0 /\ Unsettled(g, st, n) = {}

Steady(g, obs) ==
  {st \in Books(g) : /\ \A n \in st.anchors : Balances(g, obs, st, n)
                     /\ Measured(g, obs).settled \subseteq st.settled
                     /\ st.imputed \cap Measured(g, obs).settled = {}}

LEMMA MeasuredIsSteady ==
  ASSUME NEW g, NEW obs, Surveyed(g, obs)
  PROVE  Measured(g, obs) \in Steady(g, obs)
<1> DEFINE usable == UsableFlows(g, obs)
           Sum(S) == SumFunctionOnSet(Rates(obs), S)
           m == Measured(g, obs)
<1>1. \A S \in SUBSET usable : Sum(S) \in Int
  <2> SUFFICES ASSUME NEW S \in SUBSET usable PROVE Sum(S) \in Int
    OBVIOUS
  <2>1. IsFiniteSet(S)
    BY SurveyFacts, FS_Subset
  <2>2. Integral(Rates(obs), S)
    BY SurveyFacts DEF Integral, Rates
  <2> QED BY <2>1, <2>2, SumIsInt
<1> DEFINE Out(n) == {i \in usable : From(g, MeasuredArc(g, obs, i)) = n}
           In(n)  == {i \in usable : To(g, MeasuredArc(g, obs, i)) = n}
<1>2. m = [out |-> [n \in EnabledNodes(g) |-> Sum(Out(n))], in |-> [n \in EnabledNodes(g) |-> Sum(In(n))],
           settled |-> {obs.flows[i].edge : i \in usable},
           imputed |-> {}, flows |-> {}, anchors |-> {}]
  BY TableIsSame DEF Measured
<1>3. [n \in EnabledNodes(g) |-> Sum(Out(n))] \in [EnabledNodes(g) -> Int]
      /\ [n \in EnabledNodes(g) |-> Sum(In(n))] \in [EnabledNodes(g) -> Int]
  <2>1. \A n : Out(n) \in SUBSET usable /\ In(n) \in SUBSET usable
    OBVIOUS
  <2> HIDE DEF Sum, Out, In, usable
  <2> QED BY <1>1, <2>1
<1>4. {obs.flows[i].edge : i \in usable} \in SUBSET VectorEdges(g)
  BY SurveyFacts
<1>5. m \in Books(g)
  <2> HIDE DEF Sum, Out, In, usable, m
  <2> QED BY <1>2, <1>3, <1>4 DEF Books
<1>6. m.anchors = {} /\ m.imputed = {}
  BY <1>2
<1> HIDE DEF m
<1> QED BY <1>5, <1>6 DEF Steady, m

LEMMA OtherEndFacts ==
  ASSUME NEW g, NEW e, NEW n \in Ends(g, e), Cardinality(Ends(g, e)) = 2
  PROVE  OtherEnd(g, e, n) # n /\ Ends(g, e) = {n, OtherEnd(g, e, n)}
<1>1. \E m \in Ends(g, e) : m # n
  <2> SUFFICES ASSUME Ends(g, e) = {n} PROVE FALSE
    OBVIOUS
  <2> QED BY FS_Singleton
<1>2. OtherEnd(g, e, n) \in Ends(g, e) /\ OtherEnd(g, e, n) # n
  BY <1>1 DEF OtherEnd
<1> QED BY <1>2 DEF Ends

LEMMA SingleMember ==
  ASSUME NEW S, Cardinality(S) = 1, IsFiniteSet(S)
  PROVE  S = {CHOOSE e \in S : TRUE}
  BY FS_Singleton

(* What settling does to the books at every node. *)
LEMMA SettledFacts ==
  ASSUME NEW g, NEW obs, Surveyed(g, obs), NEW st \in Steady(g, obs), NEW n \in EnabledNodes(g),
         NEW e \in Unsettled(g, st, n), NEW other \in Ends(g, e), other # n,
         NEW residual \in Int, residual = Residual(obs, st, n)
  PROVE  LET new == Settled(st, n, e, other, residual)
         IN  /\ new \in Books(g)
             /\ Residual(obs, new, n) = 0
             /\ \A m \in EnabledNodes(g) \ {n, other} : Residual(obs, new, m) = Residual(obs, st, m)
             /\ new.settled = st.settled \cup {e} /\ new.imputed = st.imputed \cup {e}
             /\ new.anchors = st.anchors \cup {n}
<1> DEFINE amount == IF residual > 0 THEN residual ELSE -residual
           source == IF residual > 0 THEN n ELSE other
           target == IF residual > 0 THEN other ELSE n
           new    == Settled(st, n, e, other, residual)
           out    == Raised(st.out, source, amount)
           in     == Raised(st.in, target, amount)
           flows  == IF residual = 0 THEN st.flows
                     ELSE st.flows \cup {[edge |-> e, from |-> source, to |-> target, rate |-> amount]}
<1>1. new = [out |-> out, in |-> in, settled |-> st.settled \cup {e}, imputed |-> st.imputed \cup {e},
             flows |-> flows, anchors |-> st.anchors \cup {n}]
  BY TableIsSame DEF Settled
<1>2. amount \in Nat /\ e \in VectorEdges(g) /\ n \in Ends(g, e)
  BY DEF Unsettled
<1>3. st \in Books(g)
  BY DEF Steady
<1>4. /\ st.out \in [EnabledNodes(g) -> Int] /\ st.in \in [EnabledNodes(g) -> Int]
      /\ st.settled \in SUBSET VectorEdges(g) /\ st.imputed \in SUBSET VectorEdges(g)
      /\ st.anchors \in SUBSET EnabledNodes(g)
      /\ st.flows \in SUBSET [edge : VectorEdges(g), from : UNION {Ends(g, x) : x \in VectorEdges(g)},
                              to : UNION {Ends(g, x) : x \in VectorEdges(g)}, rate : Nat]
  BY <1>3 DEF Books
<1>5. out \in [EnabledNodes(g) -> Int] /\ in \in [EnabledNodes(g) -> Int]
  BY <1>2, <1>4 DEF Raised
<1>6. flows \in SUBSET [edge : VectorEdges(g), from : UNION {Ends(g, x) : x \in VectorEdges(g)},
                        to : UNION {Ends(g, x) : x \in VectorEdges(g)}, rate : Nat]
  <2>1. source \in UNION {Ends(g, x) : x \in VectorEdges(g)}
        /\ target \in UNION {Ends(g, x) : x \in VectorEdges(g)}
    BY <1>2
  <2> HIDE DEF source, target, amount
  <2> QED BY <1>2, <1>4, <2>1
<1>7. new \in Books(g)
  <2>1. st.settled \cup {e} \in SUBSET VectorEdges(g) /\ st.imputed \cup {e} \in SUBSET VectorEdges(g)
        /\ st.anchors \cup {n} \in SUBSET EnabledNodes(g)
    BY <1>2, <1>4
  <2> HIDE DEF new, out, in, flows, amount, source, target
  <2> QED BY <1>1, <1>5, <1>6, <2>1 DEF Books
<1>8. \A m \in EnabledNodes(g) :
        /\ out[m] = IF m = source THEN st.out[m] + amount ELSE st.out[m]
        /\ in[m] = IF m = target THEN st.in[m] + amount ELSE st.in[m]
        /\ st.out[m] \in Int /\ st.in[m] \in Int
  BY <1>4 DEF Raised
<1>9. new.out = out /\ new.in = in
  <2> HIDE DEF new, out, in, flows
  <2> QED BY <1>1
<1>10. DeltaOrZero(obs, n) \in Int
  BY DeltaFacts DEF Surveyed
<1>11. Residual(obs, new, n) = 0
  <2>1. residual = st.in[n] - st.out[n] - DeltaOrZero(obs, n)
    BY DEF Residual
  <2>2. CASE residual > 0
    <3>1. out[n] = st.out[n] + residual /\ in[n] = st.in[n]
      BY <1>8, <2>2
    <3> HIDE DEF new, out, in
    <3> QED BY <1>8, <1>9, <1>10, <2>1, <3>1 DEF Residual
  <2>3. CASE ~(residual > 0)
    <3>1. out[n] = st.out[n] /\ in[n] = st.in[n] - residual
      BY <1>8, <2>3
    <3> HIDE DEF new, out, in
    <3> QED BY <1>8, <1>9, <1>10, <2>1, <3>1 DEF Residual
  <2> QED BY <2>2, <2>3
<1>12. ASSUME NEW m \in EnabledNodes(g) \ {n, other}
       PROVE  Residual(obs, new, m) = Residual(obs, st, m)
  <2>1. out[m] = st.out[m] /\ in[m] = st.in[m]
    BY <1>8
  <2> HIDE DEF new, out, in
  <2> QED BY <1>9, <2>1 DEF Residual
<1>13. /\ new.settled = st.settled \cup {e} /\ new.imputed = st.imputed \cup {e}
       /\ new.anchors = st.anchors \cup {n}
  <2> HIDE DEF new, out, in, flows
  <2> QED BY <1>1
<1> HIDE DEF new
<1> QED BY <1>7, <1>11, <1>12, <1>13 DEF new

LEMMA ImputeKeepsSteady ==
  ASSUME NEW g, NEW obs, Surveyed(g, obs), NEW st \in Steady(g, obs), NEW n \in EnabledNodes(g)
  PROVE  ImputeAt(g, obs, st, n) \in Steady(g, obs)
<1> DEFINE e == CHOOSE x \in Unsettled(g, st, n) : TRUE
           takes == /\ CanAnchor(g, obs, n)
                    /\ Cardinality(Unsettled(g, st, n)) = 1 /\ Cardinality(Ends(g, e)) = 2
           other == OtherEnd(g, e, n)
           new   == Settled(st, n, e, other, Residual(obs, st, n))
<1>1. ImputeAt(g, obs, st, n) = IF takes THEN new ELSE st
  BY DEF ImputeAt
<1>2. CASE ~takes
  BY <1>1, <1>2
<1>3. CASE takes
  <2>1. Unsettled(g, st, n) = {e}
    <3>1. IsFiniteSet(Unsettled(g, st, n))
      BY SurveyFacts, FS_Subset DEF Unsettled
    <3> QED BY <1>3, <3>1, SingleMember
  <2>2. e \in VectorEdges(g) \ st.settled /\ n \in Ends(g, e)
    BY <2>1 DEF Unsettled
  <2>3. other # n /\ Ends(g, e) = {n, other}
    BY <1>3, <2>2, OtherEndFacts
  <2>4. st \in Books(g) /\ st.anchors \in SUBSET EnabledNodes(g)
    BY DEF Steady, Books
  <2>5. Residual(obs, st, n) \in Int
    <3>1. st.in[n] \in Int /\ st.out[n] \in Int
      BY <2>4 DEF Books
    <3>2. DeltaOrZero(obs, n) \in Int
      BY DeltaFacts DEF Surveyed
    <3> QED BY <3>1, <3>2 DEF Residual
  <2>6. /\ new \in Books(g)
        /\ Residual(obs, new, n) = 0
        /\ \A m \in EnabledNodes(g) \ {n, other} : Residual(obs, new, m) = Residual(obs, st, m)
        /\ new.settled = st.settled \cup {e} /\ new.imputed = st.imputed \cup {e}
        /\ new.anchors = st.anchors \cup {n}
    <3>1. e \in Unsettled(g, st, n) /\ other \in Ends(g, e) /\ other # n
      BY <2>1, <2>3
    <3> HIDE DEF e, other, takes
    <3> QED BY <2>5, <3>1, SettledFacts
  <2> HIDE DEF new, other, e
  <2>7. \A m : Unsettled(g, new, m) = Unsettled(g, st, m) \ {e}
    BY <2>6 DEF Unsettled
  <2>8. Balances(g, obs, new, n)
    BY <1>3, <2>1, <2>6, <2>7 DEF Balances
  <2>9. ASSUME NEW m \in st.anchors, m # n PROVE Balances(g, obs, new, m)
    <3>1. Balances(g, obs, st, m) /\ m \in EnabledNodes(g)
      BY <2>4 DEF Steady
    <3>2. m \notin Ends(g, e)
      BY <2>2, <3>1 DEF Balances, Unsettled
    <3>3. Residual(obs, new, m) = Residual(obs, st, m)
      BY <2>3, <2>6, <2>9, <3>1, <3>2
    <3> QED BY <2>7, <3>1, <3>3 DEF Balances
  <2>10. \A m \in new.anchors : Balances(g, obs, new, m)
    BY <2>6, <2>8, <2>9
  <2>11. Measured(g, obs).settled \subseteq new.settled
         /\ new.imputed \cap Measured(g, obs).settled = {}
    BY <2>2, <2>6 DEF Steady
  <2>12. new \in Steady(g, obs)
    BY <2>6, <2>10, <2>11 DEF Steady
  <2> QED BY <1>1, <1>3, <2>12 DEF new, other, e
<1> QED BY <1>2, <1>3

(* Node after node, and round after round. *)
LEMMA AroundKeepsSteady ==
  ASSUME NEW g, NEW obs, Surveyed(g, obs), NEW st \in Steady(g, obs)
  PROVE  ImputedAround(g, obs, st) \in Steady(g, obs)
<1> DEFINE n        == Cardinality(EnabledNodes(g))
           X        == Steady(g, obs)
           node(i)  == InOrder(EnabledNodes(g))[i]
           Do(i, s) == ImputeAt(g, obs, s, node(i))
           Turn     == [p \in (1 .. n) \X X |-> Do(p[1], p[2])]
           Finds(f) == f = [i \in 0 .. n |-> IF i = 0 THEN st ELSE Do(i, f[i - 1])]
           at       == CHOOSE f : Finds(f)
<1>1. n \in Nat /\ \A i \in 1 .. n : node(i) \in EnabledNodes(g)
  <2>1. IsFiniteSet(EnabledNodes(g)) /\ EnabledNodes(g) \subseteq Nat
    BY SurveyFacts
  <2> QED BY <2>1, InOrderFacts
<1>2. \A i \in 1 .. n, s \in X : Do(i, s) \in X
  BY <1>1, ImputeKeepsSteady
<1>3. \E f : Finds(f)
  <2>1. Turn \in [(1 .. n) \X X -> X]
    <3> HIDE DEF Do, X, n
    <3> QED BY <1>2
  <2>2. PICK f \in [0 .. n -> X] : Unrolls(f, n, st, Turn)
    <3>1. st \in X
      OBVIOUS
    <3> HIDE DEF Turn, X, n
    <3> QED BY <1>1, <2>1, <3>1, RecursionExists
  <2>3. \A i \in 0 .. n : i # 0 => Turn[<<i, f[i - 1]>>] = Do(i, f[i - 1])
    <3>1. \A i \in 0 .. n : i # 0 => i \in 1 .. n /\ f[i - 1] \in X
      <4> HIDE DEF X, n
      <4> QED BY <1>1, <2>2
    <3> HIDE DEF Do, X, n
    <3> QED BY <3>1
  <2>4. Finds(f)
    <3> HIDE DEF Do, X, n, Turn
    <3> QED BY <2>2, <2>3 DEF Unrolls
  <2> QED BY <2>4
<1>4. at = [i \in 0 .. n |-> IF i = 0 THEN st ELSE Do(i, at[i - 1])]
  <2>1. Finds(at)
    <3> HIDE DEF Finds
    <3> QED BY <1>3
  <2> QED BY <2>1
<1>5. ImputedAround(g, obs, st) = at[n]
  BY DEF ImputedAround
<1>6. at[0] \in X /\ \A i \in 1 .. n : at[i - 1] \in X => at[i] \in X
  <2>1. 0 \in 0 .. n /\ \A i \in 1 .. n : i \in 0 .. n /\ i # 0
    BY <1>1
  <2>2. at[0] = st /\ \A i \in 1 .. n : at[i] = Do(i, at[i - 1])
    <3> HIDE DEF Do, n, at
    <3> QED BY <1>4, <2>1
  <2> HIDE DEF Do, X, n, at
  <2> QED BY <1>2, <2>2 DEF X
<1>7. at[n] \in X
  <2> HIDE DEF at, X, n
  <2>1. n \in 0 .. n
    BY <1>1
  <2> QED BY <1>1, <1>6, <2>1, StaysUpTo
<1> QED BY <1>5, <1>7

LEMMA ImputedIsSteady ==
  ASSUME NEW g, NEW obs, Surveyed(g, obs)
  PROVE  Imputed(g, obs) \in Steady(g, obs)
<1> DEFINE n        == Cardinality(VectorEdges(g))
           X        == Steady(g, obs)
           base     == Measured(g, obs)
           Do(s)    == ImputedAround(g, obs, s)
           Turn     == [p \in (1 .. n) \X X |-> Do(p[2])]
           Finds(f) == f = [i \in 0 .. n |-> IF i = 0 THEN base ELSE Do(f[i - 1])]
           round    == CHOOSE f : Finds(f)
<1>1. n \in Nat
  BY SurveyFacts, FS_CardinalityType
<1>2. base \in X /\ \A s \in X : Do(s) \in X
  BY MeasuredIsSteady, AroundKeepsSteady
<1>3. \E f : Finds(f)
  <2>1. Turn \in [(1 .. n) \X X -> X]
    <3> HIDE DEF Do, X, n
    <3> QED BY <1>2
  <2>2. PICK f \in [0 .. n -> X] : Unrolls(f, n, base, Turn)
    <3> HIDE DEF Turn, X, n, base
    <3> QED BY <1>1, <1>2, <2>1, RecursionExists
  <2>3. \A i \in 0 .. n : i # 0 => Turn[<<i, f[i - 1]>>] = Do(f[i - 1])
    <3>1. \A i \in 0 .. n : i # 0 => i \in 1 .. n /\ f[i - 1] \in X
      <4> HIDE DEF X, n
      <4> QED BY <1>1, <2>2
    <3> HIDE DEF Do, X, n
    <3> QED BY <3>1
  <2>4. Finds(f)
    <3> HIDE DEF Do, X, n, Turn, base
    <3> QED BY <2>2, <2>3 DEF Unrolls
  <2> QED BY <2>4
<1>4. round = [i \in 0 .. n |-> IF i = 0 THEN base ELSE Do(round[i - 1])]
  <2>1. Finds(round)
    <3> HIDE DEF Finds
    <3> QED BY <1>3
  <2> QED BY <2>1
<1>5. Imputed(g, obs) = IF base.settled = {} THEN base ELSE round[n]
  BY DEF Imputed
<1>6. round[0] \in X /\ \A i \in 1 .. n : round[i - 1] \in X => round[i] \in X
  <2>1. 0 \in 0 .. n /\ \A i \in 1 .. n : i \in 0 .. n /\ i # 0
    BY <1>1
  <2>2. round[0] = base /\ \A i \in 1 .. n : round[i] = Do(round[i - 1])
    <3> HIDE DEF Do, n, round, base
    <3> QED BY <1>4, <2>1
  <2> HIDE DEF Do, X, n, round, base
  <2> QED BY <1>2, <2>2
<1>7. round[n] \in X
  <2> HIDE DEF round, X, n
  <2>1. n \in 0 .. n
    BY <1>1
  <2> QED BY <1>1, <1>6, <2>1, StaysUpTo
<1> QED BY <1>2, <1>5, <1>7

-----------------------------------------------------------------------------
(* What stays and what starts at a node *)

Sized(cfg) ==
  /\ cfg.transit \in Optional(Int) /\ cfg.dwell \in Optional(Int)
  /\ {cfg.tolerance, cfg.unit, cfg.ipfRounds, cfg.cutPercent} \subseteq Nat

LEMMA QuotientIsInt ==
  ASSUME NEW a \in Int, NEW b \in Int, b > 0
  PROVE  AtLeastZero(a \div b) \in Nat
<1>1. a \div b \in Int
  OBVIOUS
<1> QED BY <1>1 DEF AtLeastZero

LEMMA LittleFacts ==
  ASSUME NEW obs \in Readings, NEW cfg, Sized(cfg), NEW n, NEW in \in Int
  PROVE  /\ ByLittle(obs, cfg, n, in) \subseteq Nat
         /\ \A x, y \in ByLittle(obs, cfg, n, in) : x = y
<1> DEFINE L == UNION {o.level : o \in {r \in Occupancy(obs, n) : r.sameSensor}}
           D == {x \in cfg.dwell : \A y \in cfg.transit : x > y}
           of(l, t, d) == AtLeastZero((l - in * t) \div (d - t))
<1>1. L \subseteq Int /\ \A x, y \in L : x = y
  BY DeltaFacts DEF Optional
<1>2. cfg.transit \subseteq Int /\ \A x, y \in cfg.transit : x = y
  BY DEF Sized, Optional
<1>3. D \subseteq Int /\ (\A x, y \in D : x = y) /\ \A d \in D, t \in cfg.transit : d > t
  BY DEF Sized, Optional
<1>4. ByLittle(obs, cfg, n, in) = {of(l, t, d) : l \in L, t \in cfg.transit, d \in D}
  BY DEF ByLittle
<1>5. ASSUME NEW l \in L, NEW t \in cfg.transit, NEW d \in D PROVE of(l, t, d) \in Nat
  <2>1. l - in * t \in Int /\ d - t \in Int /\ d - t > 0
    <3>1. l \in Int /\ t \in Int /\ d \in Int /\ d > t
      <4> HIDE DEF L, D
      <4> QED BY <1>1, <1>2, <1>3
    <3>2. in * t \in Int
      BY <3>1
    <3> QED BY <3>1, <3>2
  <2> QED BY <2>1, QuotientIsInt
<1> HIDE DEF L, D, of
<1> QED BY <1>1, <1>2, <1>3, <1>4, <1>5

LEMMA StayingFacts ==
  ASSUME NEW g, NEW obs \in Readings, NEW cfg, Sized(cfg), NEW n, NEW in \in Int, NEW out \in Int
  PROVE  /\ Staying(g, obs, cfg, n, in, out) \in Int
         /\ g.node[n].kind = "GOAL_TRANSIT_MIXED" /\ OccupancyDelta(obs, n) # {} =>
              \/ DeltaOrZero(obs, n) > 0 /\ Staying(g, obs, cfg, n, in, out) = DeltaOrZero(obs, n)
              \/ DeltaOrZero(obs, n) <= 0 /\ Staying(g, obs, cfg, n, in, out) >= 0
<1> DEFINE little == ByLittle(obs, cfg, n, in)
           delta  == DeltaOrZero(obs, n)
           kind   == g.node[n].kind
           stays  == Staying(g, obs, cfg, n, in, out)
<1>1. delta \in Int
  BY DeltaFacts
<1>2. little # {} => Max(little) \in Nat
  <2> SUFFICES ASSUME little # {} PROVE Max(little) \in Nat
    OBVIOUS
  <2>1. PICK x \in little : TRUE
    OBVIOUS
  <2>2. little = {x} /\ x \in Nat
    <3> HIDE DEF little
    <3> QED BY <2>1, LittleFacts DEF little
  <2>3. IsFiniteSet({x})
    BY FS_Singleton
  <2> HIDE DEF little
  <2>4. little \in SUBSET Int /\ IsFiniteSet(little) /\ little # {}
    BY <2>2, <2>3
  <2>5. Max(little) \in little
    BY <2>4, MaxFacts
  <2> QED BY <2>2, <2>5
<1> DEFINE zero == IF OccupancyDelta(obs, n) # {} THEN 0 ELSE AtLeastZero(in - out)
<1>3. zero \in Nat
  BY DEF AtLeastZero
<1>4. stays = CASE kind = "TRANSIT_ONLY" -> 0
                [] kind = "GOAL" -> in
                [] kind = "GOAL_TRANSIT_MIXED" /\ delta > 0 -> delta
                [] kind = "GOAL_TRANSIT_MIXED" /\ delta <= 0 /\ little # {} -> Max(little)
                [] OTHER -> zero
  BY DEF Staying
<1> HIDE DEF stays, zero, kind, delta, little
<1>5. stays \in Int
  BY <1>1, <1>2, <1>3, <1>4
<1>6. kind = "GOAL_TRANSIT_MIXED" =>
        \/ delta > 0 /\ stays = delta
        \/ delta <= 0 /\ stays >= 0
  BY <1>1, <1>2, <1>3, <1>4
<1> QED BY <1>5, <1>6 DEF stays, kind, delta

(* What a forecast takes over from the demand and from the matrix. *)
LEMMA ForecastFields ==
  ASSUME NEW g, NEW obs, NEW refs, NEW cfg, NEW isOpen
  PROVE  LET f      == Forecast(g, obs, refs, cfg, isOpen)
             result == DemandResult(g, obs, cfg)
             est    == EstimateOd(g, obs, result, cfg, isOpen)
         IN  /\ f.demand = result.demand /\ f.imputed = result.imputed
             /\ f.anchors = result.anchors
             /\ f.od = est.od /\ f.starts = est.starts /\ f.ends = est.ends
             /\ f.balanced = est.balanced
  BY DEF Forecast, FromDemand, FromMatrix, Assessed

LEMMA DemandFields ==
  ASSUME NEW g, NEW obs, NEW cfg
  PROVE  /\ DemandResult(g, obs, cfg).imputed = Imputed(g, obs).imputed
         /\ DemandResult(g, obs, cfg).anchors = Imputed(g, obs).anchors
         /\ DOMAIN DemandResult(g, obs, cfg).demand = EnabledNodes(g)
         /\ \A n \in EnabledNodes(g) :
              DemandResult(g, obs, cfg).demand[n]
                = NodeDemandOf(Imputed(g, obs).in[n], Imputed(g, obs).out[n],
                               Staying(g, obs, cfg, n, Imputed(g, obs).in[n], Imputed(g, obs).out[n]))
<1> DEFINE st == Imputed(g, obs)
           demand == [n \in EnabledNodes(g) |->
                        NodeDemandOf(st.in[n], st.out[n], Staying(g, obs, cfg, n, st.in[n], st.out[n]))]
<1>1. DemandResult(g, obs, cfg)
        = [demand |-> demand, imputed |-> st.imputed, flows |-> st.flows, anchors |-> st.anchors,
           settled |-> st.settled]
  BY TableIsSame DEF DemandResult, DemandFrom
<1>2. DemandResult(g, obs, cfg).demand = demand
  <2> HIDE DEF demand, st
  <2> QED BY <1>1
<1>3. DemandResult(g, obs, cfg).imputed = st.imputed /\ DemandResult(g, obs, cfg).anchors = st.anchors
  <2> HIDE DEF demand, st
  <2> QED BY <1>1
<1> QED BY <1>2, <1>3

LEMMA DemandFacts ==
  ASSUME NEW g, NEW obs, Surveyed(g, obs), NEW cfg, Sized(cfg)
  PROVE  LET result == DemandResult(g, obs, cfg)
             st     == Imputed(g, obs)
         IN  \A n \in EnabledNodes(g) :
               LET at      == result.demand[n]
                   staying == Staying(g, obs, cfg, n, st.in[n], st.out[n])
               IN  /\ st.in[n] \in Int /\ st.out[n] \in Int /\ staying \in Int
                   /\ at.in = st.in[n] /\ at.out = st.out[n]
                   /\ at.absorption = staying
                   /\ at.production = AtLeastZero(st.out[n] - st.in[n] + staying)
<1> DEFINE result == DemandResult(g, obs, cfg)
           st     == Imputed(g, obs)
           stays(n) == Staying(g, obs, cfg, n, st.in[n], st.out[n])
<1> SUFFICES ASSUME NEW n \in EnabledNodes(g)
             PROVE  /\ st.in[n] \in Int /\ st.out[n] \in Int /\ stays(n) \in Int
                    /\ result.demand[n].in = st.in[n] /\ result.demand[n].out = st.out[n]
                    /\ result.demand[n].absorption = stays(n)
                    /\ result.demand[n].production = AtLeastZero(st.out[n] - st.in[n] + stays(n))
  OBVIOUS
<1>1. st.in[n] \in Int /\ st.out[n] \in Int
  <2>1. st \in Books(g)
    BY ImputedIsSteady DEF Steady
  <2> HIDE DEF st
  <2> QED BY <2>1 DEF Books
<1>2. stays(n) \in Int
  <2>1. obs \in Readings
    BY DEF Surveyed
  <2> HIDE DEF st
  <2> QED BY <1>1, <2>1, StayingFacts
<1>3. result.demand[n] = NodeDemandOf(st.in[n], st.out[n], stays(n))
  BY DemandFields
<1> HIDE DEF result, stays, st
<1> QED BY <1>1, <1>2, <1>3 DEF NodeDemandOf

(* What the imputation leaves at a node that settled a passage, and which  *)
(* passages it filled in.                                                  *)
LEMMA BooksBalance ==
  ASSUME NEW g, NEW obs, Surveyed(g, obs), NEW cfg, Sized(cfg)
  PROVE  LET result == DemandResult(g, obs, cfg)
         IN  /\ \A n \in result.anchors :
                  LET at     == result.demand[n]
                      growth == DeltaOrZero(obs, n)
                  IN  /\ at.in = at.out + growth
                      /\ g.node[n].kind = "GOAL_TRANSIT_MIXED" =>
                           at.absorption = at.production + growth
             /\ \A e \in result.imputed, i \in DOMAIN obs.flows :
                  obs.flows[i].edge = e => obs.flows[i].flag = "INVALID"
<1> DEFINE result   == DemandResult(g, obs, cfg)
           st       == Imputed(g, obs)
           delta(n) == DeltaOrZero(obs, n)
           stays(n) == Staying(g, obs, cfg, n, st.in[n], st.out[n])
<1>1. st \in Steady(g, obs) /\ st \in Books(g)
  BY ImputedIsSteady DEF Steady
<1>2. result.anchors = st.anchors /\ result.imputed = st.imputed
  BY DemandFields
<1>3. st.anchors \in SUBSET EnabledNodes(g) /\ st.imputed \in SUBSET VectorEdges(g)
  <2> HIDE DEF st
  <2> QED BY <1>1 DEF Books
<1>4. ASSUME NEW n \in st.anchors
      PROVE  /\ result.demand[n].in = result.demand[n].out + delta(n)
             /\ g.node[n].kind = "GOAL_TRANSIT_MIXED" =>
                  result.demand[n].absorption = result.demand[n].production + delta(n)
  <2>1. Balances(g, obs, st, n)
    BY <1>1 DEF Steady
  <2>2. n \in EnabledNodes(g)
    BY <1>3
  <2>3. /\ st.in[n] \in Int /\ st.out[n] \in Int /\ stays(n) \in Int
        /\ result.demand[n].in = st.in[n] /\ result.demand[n].out = st.out[n]
        /\ result.demand[n].absorption = stays(n)
        /\ result.demand[n].production = AtLeastZero(st.out[n] - st.in[n] + stays(n))
    BY <2>2, DemandFacts
  <2>4. delta(n) \in Int
    BY DeltaFacts DEF Surveyed
  <2>5. st.in[n] - st.out[n] - delta(n) = 0
    BY <2>1 DEF Balances, Residual
  <2>6. g.node[n].kind = "GOAL_TRANSIT_MIXED" => OccupancyDelta(obs, n) # {}
    BY <2>1 DEF Balances, CanAnchor
  <2>7. g.node[n].kind = "GOAL_TRANSIT_MIXED" =>
          \/ delta(n) > 0 /\ stays(n) = delta(n)
          \/ delta(n) <= 0 /\ stays(n) >= 0
    <3>1. obs \in Readings
      BY DEF Surveyed
    <3> HIDE DEF st
    <3> QED BY <2>3, <2>6, <3>1, StayingFacts
  <2> HIDE DEF result, stays, delta, st
  <2>8. result.demand[n].in = result.demand[n].out + delta(n)
    BY <2>3, <2>4, <2>5
  <2>9. g.node[n].kind = "GOAL_TRANSIT_MIXED" =>
          result.demand[n].absorption = result.demand[n].production + delta(n)
    BY <2>3, <2>4, <2>5, <2>7 DEF AtLeastZero
  <2> QED BY <2>8, <2>9
<1>5. ASSUME NEW e \in st.imputed, NEW i \in DOMAIN obs.flows, obs.flows[i].edge = e
      PROVE  obs.flows[i].flag = "INVALID"
  <2>1. e \in VectorEdges(g) /\ e \notin Measured(g, obs).settled
    BY <1>1, <1>3 DEF Steady
  <2>2. Measured(g, obs).settled = {obs.flows[j].edge : j \in UsableFlows(g, obs)}
    BY DEF Measured
  <2> QED BY <1>5, <2>1, <2>2 DEF UsableFlows
<1> HIDE DEF result, st
<1> QED BY <1>2, <1>4, <1>5 DEF result, st

-----------------------------------------------------------------------------
(* A forecast is always the forecast of the site. *)
ForecastInv == site \in Sites /\ forecast \subseteq {ForecastOf(site)}

LEMMA ForecastInvHolds == ForecastSpec => []ForecastInv
<1>1. ForecastInit => ForecastInv
  BY DEF ForecastInit, ForecastInv
<1>2. ForecastInv /\ [ForecastNext]_forecastVars => ForecastInv'
  <2> SUFFICES ASSUME ForecastInv, [ForecastNext]_forecastVars PROVE ForecastInv'
    OBVIOUS
  <2>1. site' = site /\ forecast' \in {forecast, {}, {ForecastOf(site)}}
    BY DEF ForecastNext, CycleStep, NextCall, forecastVars
  <2> QED BY <2>1 DEF ForecastInv, ForecastOf
<1> QED BY <1>1, <1>2, PTL DEF ForecastSpec

LEMMA SiteFacts ==
  ASSUME NEW s \in Sites
  PROVE  Surveyed(s.graph, s.obs) /\ Sized(s.cfg) /\ s.isOpen \in BOOLEAN
  BY SitesAssumption DEF Surveyed, Sized, FiniteGraph

(* Nodes at which the imputation settled a passage are balanced, and only  *)
(* passages without a valid reading are filled in: for every site, and     *)
(* whatever was measured there (_impute_missing_flows, demand.py).         *)
THEOREM ImputationIsBalanced == ForecastSpec => []ImputationBalances
<1>1. ForecastInv => ImputationBalances
  <2> SUFFICES ASSUME ForecastInv, NEW f \in forecast
               PROVE  /\ \A n \in f.anchors :
                           LET at     == f.demand[n]
                               growth == DeltaOrZero(site.obs, n)
                           IN  /\ at.in = at.out + growth
                               /\ site.graph.node[n].kind = "GOAL_TRANSIT_MIXED" =>
                                    at.absorption = at.production + growth
                      /\ \A e \in f.imputed, i \in DOMAIN site.obs.flows :
                           site.obs.flows[i].edge = e => site.obs.flows[i].flag = "INVALID"
    BY DEF ImputationBalances
  <2> DEFINE result == DemandResult(site.graph, site.obs, site.cfg)
  <2>1. f.demand = result.demand /\ f.anchors = result.anchors /\ f.imputed = result.imputed
    <3>1. f = Forecast(site.graph, site.obs, site.refs, site.cfg, site.isOpen)
      BY DEF ForecastInv, ForecastOf
    <3> QED BY <3>1, ForecastFields
  <2>2. Surveyed(site.graph, site.obs) /\ Sized(site.cfg)
    BY SiteFacts DEF ForecastInv
  <2> HIDE DEF result
  <2> QED BY <2>1, <2>2, BooksBalance DEF result
<1> QED BY <1>1, ForecastInvHolds, PTL

-----------------------------------------------------------------------------
(* The measured flows *)

LEMMA LoopFacts ==
  ASSUME NEW g, NEW e
  PROVE  Cardinality(Ends(g, e)) = 1 <=> g.edge[e].a = g.edge[e].b
<1>1. ASSUME g.edge[e].a = g.edge[e].b PROVE Cardinality(Ends(g, e)) = 1
  <2>1. Ends(g, e) = {g.edge[e].a}
    BY <1>1 DEF Ends
  <2> QED BY <2>1, FS_Singleton
<1>2. ASSUME Cardinality(Ends(g, e)) = 1 PROVE g.edge[e].a = g.edge[e].b
  <2>1. IsFiniteSet(Ends(g, e))
    BY PairIsFinite DEF Ends
  <2>2. Ends(g, e) = {CHOOSE x \in Ends(g, e) : TRUE}
    BY <1>2, <2>1, SingleMember
  <2>3. \A x, y \in Ends(g, e) : x = y
    <3> DEFINE S == Ends(g, e)
               c == CHOOSE x \in Ends(g, e) : TRUE
    <3>1. S = {c}
      BY <2>2
    <3> HIDE DEF S, c
    <3>2. \A x, y \in S : x = y
      BY <3>1
    <3> QED BY <3>2 DEF S
  <2> QED BY <2>3 DEF Ends
<1> QED BY <1>1, <1>2

(* An arc is known by the node it leaves and its passage. *)
LEMMA ArcsApart ==
  ASSUME NEW g, NEW obs, Surveyed(g, obs),
         NEW i \in UsableFlows(g, obs), NEW j \in UsableFlows(g, obs),
         From(g, MeasuredArc(g, obs, i)) = From(g, MeasuredArc(g, obs, j)),
         MeasuredArc(g, obs, i)[1] = MeasuredArc(g, obs, j)[1]
  PROVE  MeasuredArc(g, obs, i) = MeasuredArc(g, obs, j)
<1> DEFINE e == obs.flows[i].edge
           Dir(k) == IF Cardinality(Ends(g, e)) = 1 THEN "A_TO_B" ELSE obs.flows[k].direction
<1>1. obs.flows[i].direction \in Directions /\ obs.flows[j].direction \in Directions
  <2>1. obs.flows \in Seq([edge : Nat, direction : Directions, rate : Int, flag : STRING])
    BY DEF Surveyed, Readings
  <2>2. i \in DOMAIN obs.flows /\ j \in DOMAIN obs.flows
    BY DEF UsableFlows
  <2>3. /\ obs.flows[i] \in [edge : Nat, direction : Directions, rate : Int, flag : STRING]
        /\ obs.flows[j] \in [edge : Nat, direction : Directions, rate : Int, flag : STRING]
    BY <2>1, <2>2, SequenceFacts
  <2> QED BY <2>3
<1>2. obs.flows[j].edge = e
  BY DEF MeasuredArc, ArcOf
<1>3. MeasuredArc(g, obs, i) = <<e, Dir(i)>> /\ MeasuredArc(g, obs, j) = <<e, Dir(j)>>
  BY <1>2 DEF MeasuredArc, ArcOf
<1>4. CASE Cardinality(Ends(g, e)) = 1
  BY <1>3, <1>4
<1>5. CASE Cardinality(Ends(g, e)) # 1
  <2>1. g.edge[e].a # g.edge[e].b
    BY <1>5, LoopFacts
  <2>2. Dir(i) = obs.flows[i].direction /\ Dir(j) = obs.flows[j].direction
    BY <1>5
  <2>3. From(g, <<e, Dir(i)>>) = From(g, <<e, Dir(j)>>)
    BY <1>3
  <2>4. Dir(i) = Dir(j)
    BY <1>1, <2>1, <2>2, <2>3 DEF From, Directions
  <2> QED BY <1>3, <2>4
<1> QED BY <1>4, <1>5

(* Flows on finitely many arcs, each known by where it starts and its passage. *)
ArcFlows(g, flows) ==
  /\ IsFiniteSet(DOMAIN flows)
  /\ \A arc \in DOMAIN flows : flows[arc] \in Int
  /\ \A arc, way \in DOMAIN flows :
       From(g, arc) = From(g, way) /\ arc[1] = way[1] => arc = way

LEMMA DirectedFacts ==
  ASSUME NEW g, NEW obs, Surveyed(g, obs)
  PROVE  /\ ArcFlows(g, DirectedFlows(g, obs))
         /\ NothingNegative(obs) =>
              \A arc \in DOMAIN DirectedFlows(g, obs) : DirectedFlows(g, obs)[arc] >= 0
<1> DEFINE usable      == UsableFlows(g, obs)
           arcs        == {MeasuredArc(g, obs, i) : i \in usable}
           On(arc)     == {i \in usable : MeasuredArc(g, obs, i) = arc}
           Latest(arc) == Max(On(arc))
           flows       == DirectedFlows(g, obs)
<1>1. flows = [arc \in arcs |-> obs.flows[Latest(arc)].rate]
  BY TableIsSame DEF DirectedFlows
<1>2. IsFiniteSet(arcs)
  <2> DEFINE f == [i \in usable |-> MeasuredArc(g, obs, i)]
  <2>1. IsFiniteSet({f[i] : i \in usable})
    <3> HIDE DEF f
    <3> QED BY SurveyFacts, FiniteImage
  <2>2. {f[i] : i \in usable} = arcs
    OBVIOUS
  <2> HIDE DEF f, arcs
  <2> QED BY <2>1, <2>2
<1>3. \A arc \in arcs : Latest(arc) \in usable
  <2> SUFFICES ASSUME NEW arc \in arcs PROVE Latest(arc) \in usable
    OBVIOUS
  <2>1. On(arc) \subseteq usable /\ On(arc) # {}
    OBVIOUS
  <2>2. On(arc) \in SUBSET Int /\ IsFiniteSet(On(arc))
    <3> HIDE DEF On
    <3> QED BY <2>1, SurveyFacts, FS_Subset
  <2> HIDE DEF On, usable, arcs
  <2>3. Max(On(arc)) \in On(arc)
    BY <2>1, <2>2, MaxFacts
  <2> QED BY <2>1, <2>3
<1>4. \A arc \in arcs : flows[arc] \in Int /\ (NothingNegative(obs) => flows[arc] >= 0)
  <2> SUFFICES ASSUME NEW arc \in arcs
               PROVE  flows[arc] \in Int /\ (NothingNegative(obs) => flows[arc] >= 0)
    OBVIOUS
  <2>1. flows[arc] = obs.flows[Latest(arc)].rate
    <3> HIDE DEF arcs, Latest
    <3> QED BY <1>1
  <2>2. Latest(arc) \in DOMAIN obs.flows
    <3> HIDE DEF Latest, arcs
    <3> QED BY <1>3, SurveyFacts
  <2> HIDE DEF Latest
  <2> QED BY <2>1, <2>2, SurveyFacts DEF NothingNegative
<1>5. DOMAIN flows = arcs
  <2> HIDE DEF arcs, Latest
  <2> QED BY <1>1
<1>6. \A arc, way \in arcs :
        From(g, arc) = From(g, way) /\ arc[1] = way[1] => arc = way
  BY ArcsApart
<1> HIDE DEF flows, arcs
<1> QED BY <1>2, <1>4, <1>5, <1>6 DEF ArcFlows, flows

-----------------------------------------------------------------------------
(* Fitting a matrix to what leaves and what arrives *)

LEMMA LineFacts ==
  ASSUME NEW Q, IsFiniteSet(Q), NEW m, DOMAIN m = Q, NEW i, NEW t
  PROVE  Line(m, i, t) = {p \in Q : p[i] = t} /\ Line(m, i, t) \in SUBSET Q
         /\ IsFiniteSet(Line(m, i, t))
<1>1. Line(m, i, t) = {p \in Q : p[i] = t} /\ Line(m, i, t) \in SUBSET Q
  BY DEF Line
<1> QED BY <1>1, FS_Subset

(* Scaled to its totals, no line of a matrix holds more than its total. *)
LEMMA ScaledFacts ==
  ASSUME NEW Q, IsFiniteSet(Q), NEW m \in [Q -> Nat], NEW totals, NEW i,
         \A p \in Q : totals[p[i]] \in Nat
  PROVE  /\ ScaledTo(m, totals, i) \in [Q -> Nat]
         /\ \A p \in Q : SumOver(ScaledTo(m, totals, i), Line(ScaledTo(m, totals, i), i, p[i]))
                           <= totals[p[i]]
<1> DEFINE new    == ScaledTo(m, totals, i)
           L(t)   == {p \in Q : p[i] = t}
           sum(t) == SumFunctionOnSet(m, L(t))
           At(p)  == IF sum(p[i]) > 0 THEN Part(m[p], totals[p[i]], sum(p[i])) ELSE m[p]
<1>1. new = [p \in Q |-> At(p)]
  BY TableIsSame DEF ScaledTo, SumOver, Line
<1>2. \A t : L(t) \in SUBSET Q /\ IsFiniteSet(L(t)) /\ \A p \in L(t) : p \in Q /\ p[i] = t
  <2>1. \A t : L(t) \in SUBSET Q
    OBVIOUS
  <2> QED BY <2>1, FS_Subset
<1>3. \A t : sum(t) \in Nat
  <2>1. \A t : \A p \in L(t) : m[p] \in Nat
    OBVIOUS
  <2> HIDE DEF L
  <2> QED BY <1>2, <2>1, SumIsNat
<1>4. ASSUME NEW p \in Q
      PROVE  /\ \A q \in L(p[i]) : At(q) \in Nat
             /\ SumFunctionOnSet(new, L(p[i])) <= totals[p[i]]
  <2> DEFINE t == p[i]
             S == L(t)
             w == sum(t)
  <2>1. w \in Nat /\ totals[t] \in Nat /\ IsFiniteSet(S) /\ S \subseteq Q
    BY <1>2, <1>3
  <2>2. \A q \in S : q[i] = t /\ m[q] \in Nat /\ new[q] = At(q)
    <3> HIDE DEF At, new, sum
    <3> QED BY <1>1, <1>2
  <2>3. CASE w > 0
    <3>1. \A q \in S : new[q] = (totals[t] * m[q]) \div w
      <4>1. \A q \in S : new[q] = (m[q] * totals[t]) \div w
        <5> HIDE DEF S, new, sum
        <5> QED BY <2>2, <2>3 DEF Part
      <4>2. \A q \in S : m[q] * totals[t] = totals[t] * m[q]
        <5> HIDE DEF S, t
        <5> QED BY <2>1, <2>2, ProductsAgree
      <4> HIDE DEF S, new, w, t
      <4> QED BY <4>1, <4>2
    <3>2. SumFunctionOnSet(m, S) <= w
      <4>1. SumFunctionOnSet(m, S) = w
        OBVIOUS
      <4> HIDE DEF S, w
      <4> QED BY <2>1, <4>1
    <3>3. (\A q \in S : new[q] \in Nat) /\ SumFunctionOnSet(new, S) <= totals[t]
      <4> HIDE DEF S, new, w, t
      <4> QED BY <2>1, <2>2, <2>3, <3>1, <3>2, SharesFit
    <3> HIDE DEF new, At
    <3> QED BY <2>2, <3>3
  <2>4. CASE ~(w > 0)
    <3>1. \A q \in S : new[q] = m[q]
      <4> HIDE DEF S, new, sum
      <4> QED BY <2>2, <2>4
    <3>2. SumFunctionOnSet(new, S) = SumFunctionOnSet(m, S)
      <4> HIDE DEF S, new
      <4> QED BY <2>1, <2>2, <3>1, SumOfSame DEF Integral
    <3>3. SumFunctionOnSet(new, S) = w
      BY <3>2
    <3>4. SumFunctionOnSet(new, S) <= totals[t]
      <4> HIDE DEF S, new, w, t
      <4> QED BY <2>1, <2>4, <3>3
    <3> HIDE DEF new, At
    <3> QED BY <2>2, <3>1, <3>4
  <2> QED BY <2>3, <2>4
<1>5. new \in [Q -> Nat]
  <2>1. \A p \in Q : At(p) \in Nat
    <3>1. \A p \in Q : p \in L(p[i])
      OBVIOUS
    <3> HIDE DEF At, L
    <3> QED BY <1>4, <3>1
  <2> HIDE DEF At, new
  <2> QED BY <1>1, <2>1
<1>6. \A p \in Q : SumOver(new, Line(new, i, p[i])) <= totals[p[i]]
  <2>1. DOMAIN new = Q
    BY <1>5
  <2>2. \A t : Line(new, i, t) = L(t)
    <3> HIDE DEF new
    <3> QED BY <2>1 DEF Line
  <2> HIDE DEF new, L
  <2> QED BY <1>4, <2>2 DEF SumOver
<1> QED BY <1>5, <1>6

(* Rows that exceed their production shrink to it, and nothing grows. *)
LEMMA ShrunkFacts ==
  ASSUME NEW Q, IsFiniteSet(Q), NEW m \in [Q -> Nat], NEW production,
         \A p \in Q : production[p[1]] \in Nat
  PROVE  /\ ShrunkRows(m, production) \in [Q -> Nat]
         /\ \A p \in Q : ShrunkRows(m, production)[p] <= m[p]
         /\ \A p \in Q : SumOver(ShrunkRows(m, production), RowOf(ShrunkRows(m, production), p[1]))
                           <= production[p[1]]
<1> DEFINE new    == ShrunkRows(m, production)
           L(t)   == {p \in Q : p[1] = t}
           sum(t) == SumFunctionOnSet(m, L(t))
           At(p)  == IF sum(p[1]) > production[p[1]]
                     THEN Part(m[p], production[p[1]], sum(p[1])) ELSE m[p]
<1>1. new = [p \in Q |-> At(p)]
  BY TableIsSame DEF ShrunkRows, SumOver, RowOf, Line
<1>2. \A t : L(t) \in SUBSET Q /\ IsFiniteSet(L(t)) /\ \A p \in L(t) : p \in Q /\ p[1] = t
  <2>1. \A t : L(t) \in SUBSET Q
    OBVIOUS
  <2> QED BY <2>1, FS_Subset
<1>3. \A t : sum(t) \in Nat
  <2>1. \A t : \A p \in L(t) : m[p] \in Nat
    OBVIOUS
  <2> HIDE DEF L
  <2> QED BY <1>2, <2>1, SumIsNat
<1>4. ASSUME NEW p \in Q
      PROVE  /\ \A q \in L(p[1]) : new[q] \in Nat /\ new[q] <= m[q]
             /\ SumFunctionOnSet(new, L(p[1])) <= production[p[1]]
  <2> DEFINE t == p[1]
             S == L(t)
             w == sum(t)
  <2>1. w \in Nat /\ production[t] \in Nat /\ IsFiniteSet(S) /\ S \subseteq Q
    BY <1>2, <1>3
  <2>2. \A q \in S : q[1] = t /\ m[q] \in Nat /\ new[q] = At(q)
    <3> HIDE DEF At, new, sum
    <3> QED BY <1>1, <1>2
  <2>3. CASE w > production[t]
    <3>1. \A q \in S : new[q] = (m[q] * production[t]) \div w
      <4> HIDE DEF S, new, sum
      <4> QED BY <2>2, <2>3 DEF Part
    <3>2. \A q \in S : new[q] = (production[t] * m[q]) \div w
      <4>2. \A q \in S : m[q] * production[t] = production[t] * m[q]
        <5> HIDE DEF S, t
        <5> QED BY <2>1, <2>2, ProductsAgree
      <4> HIDE DEF S, new, w, t
      <4> QED BY <3>1, <4>2
    <3>3. w > 0 /\ SumFunctionOnSet(m, S) <= w /\ production[t] <= w
      <4>1. SumFunctionOnSet(m, S) = w
        OBVIOUS
      <4> HIDE DEF S, w, t
      <4> QED BY <2>1, <2>3, <4>1
    <3>4. (\A q \in S : new[q] \in Nat) /\ SumFunctionOnSet(new, S) <= production[t]
      <4> HIDE DEF S, new, w, t
      <4> QED BY <2>1, <2>2, <3>2, <3>3, SharesFit
    <3>5. \A q \in S : new[q] <= m[q]
      <4> HIDE DEF S, new, w, t
      <4> QED BY <2>1, <2>2, <3>1, <3>3, PartFits
    <3> HIDE DEF new, At
    <3> QED BY <3>4, <3>5
  <2>4. CASE ~(w > production[t])
    <3>1. \A q \in S : new[q] = m[q]
      <4> HIDE DEF S, new, sum
      <4> QED BY <2>2, <2>4
    <3>2. SumFunctionOnSet(new, S) = SumFunctionOnSet(m, S)
      <4> HIDE DEF S, new
      <4> QED BY <2>1, <2>2, <3>1, SumOfSame DEF Integral
    <3>3. SumFunctionOnSet(new, S) = w
      BY <3>2
    <3>4. SumFunctionOnSet(new, S) <= production[t]
      <4> HIDE DEF S, new, w, t
      <4> QED BY <2>1, <2>4, <3>3
    <3>5. \A q \in S : new[q] \in Nat /\ new[q] <= m[q]
      <4>1. \A q \in S : m[q] \in Nat
        BY <2>2
      <4> HIDE DEF S, new
      <4> QED BY <3>1, <4>1
    <3> HIDE DEF new, At
    <3> QED BY <3>4, <3>5
  <2> QED BY <2>3, <2>4
<1>5. \A p \in Q : new[p] \in Nat /\ new[p] <= m[p]
  <2>1. \A p \in Q : p \in L(p[1])
    OBVIOUS
  <2> HIDE DEF new, L
  <2> QED BY <1>4, <2>1
<1>6. new \in [Q -> Nat]
  <2>1. new = [p \in Q |-> new[p]]
    <3> HIDE DEF At
    <3> QED BY <1>1
  <2> HIDE DEF new
  <2> QED BY <1>5, <2>1
<1>7. \A p \in Q : SumOver(new, RowOf(new, p[1])) <= production[p[1]]
  <2>1. DOMAIN new = Q
    BY <1>6
  <2>2. \A t : RowOf(new, t) = L(t)
    <3> HIDE DEF new
    <3> QED BY <2>1 DEF RowOf, Line
  <2> HIDE DEF new, L
  <2> QED BY <1>4, <2>2 DEF SumOver
<1> QED BY <1>5, <1>6, <1>7

LEMMA PriorFacts ==
  ASSUME NEW g, FiniteGraph(g), NEW cfg, Sized(cfg), NEW production, NEW absorption, NEW isOpen,
         IsFiniteSet(DOMAIN production), IsFiniteSet(DOMAIN absorption)
  PROVE  LET Q == Pairs(g, production, absorption, isOpen)
         IN  IsFiniteSet(Q) /\ Prior(g, production, absorption, cfg, isOpen) \in [Q -> Nat]
<1> DEFINE Q      == Pairs(g, production, absorption, isOpen)
           hop(p) == HopDistance(g, p[1], p[2])
<1>1. IsFiniteSet(Q)
  <2>1. Q \subseteq (DOMAIN production) \X (DOMAIN absorption)
    BY DEF Pairs
  <2>2. IsFiniteSet((DOMAIN production) \X (DOMAIN absorption))
    BY FS_Product
  <2> HIDE DEF Q
  <2> QED BY <2>1, <2>2, FS_Subset
<1>2. ASSUME NEW p \in Q PROVE hop(p) \in Nat
  <2> DEFINE N  == Cardinality(EnabledNodes(g))
             at == {h \in 0 .. N : p[2] \in Within(g, p[1], h)}
  <2>1. N \in Nat
    BY GraphFacts, FS_CardinalityType
  <2>2. N \in at
    <3>1. p[2] \in Within(g, p[1], N)
      BY DEF Pairs, Component
    <3>2. N \in 0 .. N
      <4> HIDE DEF N
      <4> QED BY <2>1
    <3> HIDE DEF N
    <3> QED BY <3>1, <3>2
  <2>3. at \in SUBSET Int /\ IsFiniteSet(at)
    <3>1. 0 \in Int /\ N \in Int
      BY <2>1
    <3>2. IsFiniteSet(0 .. N)
      <4> HIDE DEF N
      <4> QED BY <3>1, FS_Interval
    <3>3. at \in SUBSET (0 .. N)
      OBVIOUS
    <3>4. IsFiniteSet(at)
      <4> DEFINE all == 0 .. N
      <4> HIDE DEF at, all
      <4> QED BY <3>2, <3>3, FS_Subset DEF all
    <3>5. at \in SUBSET Int
      OBVIOUS
    <3> QED BY <3>4, <3>5
  <2>4. hop(p) = Min(at)
    BY DEF HopDistance
  <2>5. Min(at) \in at
    <3> HIDE DEF at
    <3> QED BY <2>2, <2>3, MinFacts
  <2>6. at \subseteq Nat
    OBVIOUS
  <2> HIDE DEF at, hop
  <2> QED BY <2>4, <2>5, <2>6
<1>3. Prior(g, production, absorption, cfg, isOpen) = [p \in Q |-> cfg.unit \div (hop(p) + 1)]
  BY TableIsSame DEF Prior
<1>4. \A p \in Q : cfg.unit \div (hop(p) + 1) \in Nat
  <2> SUFFICES ASSUME NEW p \in Q PROVE cfg.unit \div (hop(p) + 1) \in Nat
    OBVIOUS
  <2>1. cfg.unit \in Nat /\ hop(p) + 1 \in Nat /\ hop(p) + 1 > 0
    <3> HIDE DEF hop, Q
    <3> QED BY <1>2 DEF Sized
  <2> DEFINE a == cfg.unit
             b == hop(p) + 1
  <2>2. a \div b \in Nat
    <3>1. a \in Nat /\ b \in Nat /\ b > 0
      BY <2>1
    <3> HIDE DEF a, b
    <3> QED BY <3>1, Quotient
  <2> QED BY <2>2
<1> HIDE DEF Q, hop
<1> QED BY <1>1, <1>3, <1>4 DEF Q

(* The rounds of the fitting: once around, the columns are within bounds.  *)
Columns(m, absorption) ==
  \A p \in DOMAIN m : SumOver(m, ColOf(m, p[2])) <= absorption[p[2]]

Rounds(Q, absorption) ==
  {r \in [matrix : [Q -> Nat], done : BOOLEAN] : r.done => Columns(r.matrix, absorption)}

LEMMA BalancedFacts ==
  ASSUME NEW Q, IsFiniteSet(Q), NEW production, NEW absorption, NEW cfg,
         \A p \in Q : production[p[1]] \in Nat /\ absorption[p[2]] \in Nat,
         NEW last \in Rounds(Q, absorption)
  PROVE  /\ Balanced(last, production, absorption, cfg) \in Rounds(Q, absorption)
         /\ Columns(Balanced(last, production, absorption, cfg).matrix, absorption)
<1> DEFINE rows == ScaledTo(last.matrix, production, 1)
           cols == ScaledTo(rows, absorption, 2)
           fit  == Max({Furthest(last.matrix, rows), Furthest(rows, cols)}) < cfg.tolerance
           new  == Balanced(last, production, absorption, cfg)
<1>1. last.matrix \in [Q -> Nat] /\ last.done \in BOOLEAN
  BY DEF Rounds
<1>2. rows \in [Q -> Nat]
  BY <1>1, ScaledFacts
<1>3. cols \in [Q -> Nat] /\ \A p \in Q : SumOver(cols, Line(cols, 2, p[2])) <= absorption[p[2]]
  <2> HIDE DEF rows
  <2> QED BY <1>2, ScaledFacts
<1>4. Columns(cols, absorption)
  <2>1. DOMAIN cols = Q
    BY <1>3
  <2> HIDE DEF cols
  <2> QED BY <1>3, <2>1 DEF Columns, ColOf
<1>5. new = IF last.done THEN last ELSE [matrix |-> cols, done |-> fit]
  BY DEF Balanced
<1>6. fit \in BOOLEAN
  OBVIOUS
<1> HIDE DEF new, cols, rows, fit
<1>7. CASE last.done
  <2>1. new = last
    BY <1>5, <1>7
  <2> QED BY <1>7, <2>1 DEF Rounds, new
<1>8. CASE ~last.done
  <2>1. new = [matrix |-> cols, done |-> fit]
    BY <1>5, <1>8
  <2>2. new \in [matrix : [Q -> Nat], done : BOOLEAN] /\ new.matrix = cols
    BY <1>3, <1>6, <2>1
  <2> QED BY <1>4, <2>2 DEF Rounds, new
<1> QED BY <1>7, <1>8

LEMMA IpfFacts ==
  ASSUME NEW g, FiniteGraph(g), NEW cfg, Sized(cfg), NEW isOpen, NEW production, NEW absorption,
         IsFiniteSet(DOMAIN production), \A s \in DOMAIN production : production[s] \in Nat,
         IsFiniteSet(DOMAIN absorption), \A t \in DOMAIN absorption : absorption[t] \in Nat
  PROVE  LET Q  == Pairs(g, production, absorption, isOpen)
             od == Ipf(g, production, absorption, cfg, isOpen)
         IN  /\ od \in [Q -> Nat] /\ IsFiniteSet(Q)
             /\ \A p \in Q : SumOver(od, RowOf(od, p[1])) <= production[p[1]]
             /\ cfg.ipfRounds > 0 => Columns(od, absorption)
<1> DEFINE Q        == Pairs(g, production, absorption, isOpen)
           n        == cfg.ipfRounds
           X        == Rounds(Q, absorption)
           base     == [matrix |-> Prior(g, production, absorption, cfg, isOpen), done |-> FALSE]
           Do(s)    == Balanced(s, production, absorption, cfg)
           Turn     == [p \in (1 .. n) \X X |-> Do(p[2])]
           Finds(f) == f = [i \in 0 .. n |-> IF i = 0 THEN base ELSE Do(f[i - 1])]
           round    == CHOOSE f : Finds(f)
           od       == Ipf(g, production, absorption, cfg, isOpen)
<1>1. n \in Nat
  BY DEF Sized
<1>2. IsFiniteSet(Q) /\ \A p \in Q : production[p[1]] \in Nat /\ absorption[p[2]] \in Nat
  <2>1. IsFiniteSet(Q)
    BY PriorFacts
  <2>2. \A p \in Q : p[1] \in DOMAIN production /\ p[2] \in DOMAIN absorption
    BY DEF Pairs
  <2> HIDE DEF Q
  <2> QED BY <2>1, <2>2
<1>3. base \in X
  <2>1. Prior(g, production, absorption, cfg, isOpen) \in [Q -> Nat]
    BY PriorFacts
  <2> HIDE DEF Q
  <2> QED BY <2>1 DEF Rounds
<1>4. \A s \in X : Do(s) \in X /\ Columns(Do(s).matrix, absorption)
  <2> HIDE DEF Q
  <2> QED BY <1>2, BalancedFacts
<1>5. \E f : Finds(f)
  <2>1. Turn \in [(1 .. n) \X X -> X]
    <3> HIDE DEF Do, X, n
    <3> QED BY <1>4
  <2>2. PICK f \in [0 .. n -> X] : Unrolls(f, n, base, Turn)
    <3> HIDE DEF Turn, X, n, base
    <3> QED BY <1>1, <1>3, <2>1, RecursionExists
  <2>3. \A i \in 0 .. n : i # 0 => Turn[<<i, f[i - 1]>>] = Do(f[i - 1])
    <3>1. \A i \in 0 .. n : i # 0 => i \in 1 .. n /\ f[i - 1] \in X
      <4> HIDE DEF X, n
      <4> QED BY <1>1, <2>2
    <3> HIDE DEF Do, X, n
    <3> QED BY <3>1
  <2>4. Finds(f)
    <3> HIDE DEF Do, X, n, Turn, base
    <3> QED BY <2>2, <2>3 DEF Unrolls
  <2> QED BY <2>4
<1>6. round = [i \in 0 .. n |-> IF i = 0 THEN base ELSE Do(round[i - 1])]
  <2>1. Finds(round)
    <3> HIDE DEF Finds
    <3> QED BY <1>5
  <2> QED BY <2>1
<1>7. round[0] = base /\ \A i \in 1 .. n : round[i] = Do(round[i - 1])
  <2>1. 0 \in 0 .. n /\ \A i \in 1 .. n : i \in 0 .. n /\ i # 0
    BY <1>1
  <2> HIDE DEF Do, n, round, base
  <2> QED BY <1>6, <2>1
<1>8. \A i \in 0 .. n : round[i] \in X
  <2>1. round[0] \in X /\ \A i \in 1 .. n : round[i - 1] \in X => round[i] \in X
    <3> HIDE DEF Do, n, round, base, X
    <3> QED BY <1>3, <1>4, <1>7
  <2> HIDE DEF n, round, X
  <2> QED BY <1>1, <2>1, StaysUpTo
<1> DEFINE last == round[n]
<1>9. last \in X /\ (n > 0 => Columns(last.matrix, absorption))
  <2>1. n \in 0 .. n /\ (n > 0 => n \in 1 .. n /\ n - 1 \in 0 .. n)
    BY <1>1
  <2> HIDE DEF Do, X, round, n
  <2> QED BY <1>4, <1>7, <1>8, <2>1
<1>10. od = ShrunkRows(last.matrix, production)
  BY DEF Ipf
<1> DEFINE m == last.matrix
<1>11. m \in [Q -> Nat]
  <2> HIDE DEF last, Q
  <2> QED BY <1>9 DEF Rounds
<1>12. /\ od \in [Q -> Nat]
       /\ \A p \in Q : od[p] <= m[p]
       /\ \A p \in Q : SumOver(od, RowOf(od, p[1])) <= production[p[1]]
  <2> HIDE DEF Q, od, last
  <2> QED BY <1>2, <1>10, <1>11, ShrunkFacts
<1>13. ASSUME n > 0 PROVE Columns(od, absorption)
  <2> HIDE DEF od, last, Q
  <2> SUFFICES ASSUME NEW p \in Q PROVE SumOver(od, ColOf(od, p[2])) <= absorption[p[2]]
    BY <1>12 DEF Columns
  <2> DEFINE S == ColOf(od, p[2])
  <2>1. S = ColOf(m, p[2]) /\ S \in SUBSET Q /\ IsFiniteSet(S)
    BY <1>2, <1>11, <1>12, FS_Subset DEF ColOf, Line
  <2>2. SumFunctionOnSet(m, S) <= absorption[p[2]]
    BY <1>9, <1>11, <1>13, <2>1 DEF Columns, SumOver
  <2>3. \A q \in S : od[q] \in Nat /\ m[q] \in Nat /\ od[q] <= m[q]
    BY <1>11, <1>12, <2>1
  <2> HIDE DEF S, m
  <2>4. Integral(od, S) /\ Integral(m, S)
    BY <2>3 DEF Integral
  <2>5. SumFunctionOnSet(od, S) <= SumFunctionOnSet(m, S)
    BY <2>1, <2>3, <2>4, SumIsMonotone
  <2>6. SumFunctionOnSet(od, S) \in Int /\ SumFunctionOnSet(m, S) \in Int /\ absorption[p[2]] \in Nat
    BY <1>2, <2>1, <2>4, SumIsInt
  <2>7. SumFunctionOnSet(od, S) <= absorption[p[2]]
    BY <2>2, <2>5, <2>6
  <2> QED BY <2>7 DEF SumOver, S
<1> HIDE DEF od, Q, n
<1> QED BY <1>2, <1>12, <1>13 DEF od, Q, n

-----------------------------------------------------------------------------
(* Following people along the flows *)

(* What people are followed with is in order, whatever the signs of the    *)
(* readings; and those are not negative.                                   *)
Followable(net) ==
  /\ IsFiniteSet(EnabledNodes(net.graph))
  /\ ArcFlows(net.graph, net.flows)
  /\ \A n \in DOMAIN net.demand : net.demand[n].in \in Int
  /\ \A n \in DOMAIN net.absorption : net.absorption[n] \in Nat
  /\ net.obs \in Readings
  /\ net.tolerance \in Nat

Counted(net) ==
  /\ \A arc \in DOMAIN net.flows : net.flows[arc] >= 0
  /\ \A i \in DOMAIN net.obs.turnings : net.obs.turnings[i].percent >= 0

ArcsOut(net, n) == ArcsFrom(net.graph, net.flows, n)

LEMMA PartIsInt ==
  ASSUME NEW a \in Int, NEW b \in Int, NEW c \in Int, c > 0
  PROVE  Part(a, b, c) \in Int
<1>1. a * b \in Int
  OBVIOUS
<1> DEFINE p == a * b
<1>2. p \div c \in Int
  <2> HIDE DEF p
  <2> QED BY <1>1 DEF p
<1> QED BY <1>2 DEF Part

LEMMA ArcsOutFacts ==
  ASSUME NEW net, Followable(net), NEW n
  PROVE  /\ ArcsOut(net, n) \in SUBSET DOMAIN net.flows /\ IsFiniteSet(ArcsOut(net, n))
         /\ Integral(net.flows, ArcsOut(net, n))
         /\ SumFunctionOnSet(net.flows, ArcsOut(net, n)) \in Int
         /\ \A way \in ArcsOut(net, n) : From(net.graph, way) = n
<1>1. ArcsOut(net, n) \in SUBSET DOMAIN net.flows /\ \A way \in ArcsOut(net, n) : From(net.graph, way) = n
  BY DEF ArcsOut, ArcsFrom
<1>2. IsFiniteSet(DOMAIN net.flows) /\ \A arc \in DOMAIN net.flows : net.flows[arc] \in Int
  BY DEF Followable, ArcFlows
<1>3. IsFiniteSet(ArcsOut(net, n)) /\ Integral(net.flows, ArcsOut(net, n))
  BY <1>1, <1>2, FS_Subset DEF Integral
<1> QED BY <1>1, <1>3, SumIsInt

LEMMA ShareIsInt ==
  ASSUME NEW net, Followable(net), NEW arc \in DOMAIN net.flows, NEW people \in Int
  PROVE  Share(net, arc, people) \in Int
<1> DEFINE leaving == SumFunctionOnSet(net.flows, ArcsOut(net, From(net.graph, arc)))
<1>1. leaving \in Int /\ net.flows[arc] \in Int
  BY ArcsOutFacts DEF Followable, ArcFlows
<1>2. Share(net, arc, people) = IF leaving > 0 THEN Part(people, net.flows[arc], leaving) ELSE 0
  BY DEF Share, ArcsOut
<1> DEFINE flow == net.flows[arc]
<1>3. leaving > 0 => Part(people, flow, leaving) \in Int
  <2> HIDE DEF leaving, flow
  <2> QED BY <1>1, PartIsInt DEF flow
<1> HIDE DEF leaving
<1> QED BY <1>2, <1>3

(* Those who leave a node are shared out among its arcs. *)
LEMMA SharesAreFair ==
  ASSUME NEW net, Followable(net), Counted(net), NEW n, NEW people \in Nat,
         NEW h, \A way \in ArcsOut(net, n) : h[way] = Share(net, way, people)
  PROVE  /\ \A way \in ArcsOut(net, n) : h[way] \in Nat
         /\ SumFunctionOnSet(h, ArcsOut(net, n)) <= people
<1> DEFINE S       == ArcsOut(net, n)
           leaving == SumFunctionOnSet(net.flows, S)
<1>1. /\ IsFiniteSet(S) /\ S \in SUBSET DOMAIN net.flows /\ leaving \in Int
      /\ \A way \in S : From(net.graph, way) = n
  BY ArcsOutFacts
<1>2. \A way \in S : net.flows[way] \in Nat
  <2>1. \A way \in DOMAIN net.flows : net.flows[way] \in Int /\ net.flows[way] >= 0
    BY DEF Followable, ArcFlows, Counted
  <2> HIDE DEF S
  <2> QED BY <1>1, <2>1
<1>3. \A way \in S : h[way] = IF leaving > 0 THEN (people * net.flows[way]) \div leaving ELSE 0
  <2> SUFFICES ASSUME NEW way \in S
               PROVE  h[way] = IF leaving > 0 THEN (people * net.flows[way]) \div leaving ELSE 0
    OBVIOUS
  <2>1. From(net.graph, way) = n /\ h[way] = Share(net, way, people)
    BY <1>1
  <2>2. Share(net, way, people) = IF leaving > 0 THEN Part(people, net.flows[way], leaving) ELSE 0
    BY <2>1 DEF Share, ArcsOut
  <2> HIDE DEF leaving, S
  <2> QED BY <2>1, <2>2 DEF Part
<1> HIDE DEF S
<1>4. CASE leaving > 0
  <2>1. leaving \in Nat
    BY <1>1, <1>4
  <2>2. SumFunctionOnSet(net.flows, S) <= leaving
    <3>1. SumFunctionOnSet(net.flows, S) = leaving
      OBVIOUS
    <3> HIDE DEF leaving
    <3> QED BY <1>1, <3>1
  <2>3. \A way \in S : h[way] = (people * net.flows[way]) \div leaving
    <3> HIDE DEF leaving
    <3> QED BY <1>3, <1>4
  <2> HIDE DEF leaving
  <2> QED BY <1>1, <1>2, <1>4, <2>1, <2>2, <2>3, SharesFit DEF S
<1>5. CASE ~(leaving > 0)
  <2>1. \A way \in S : h[way] = 0
    <3> HIDE DEF leaving
    <3> QED BY <1>3, <1>5
  <2>2. Integral(h, S) /\ {} \in SUBSET S /\ \A way \in S \ {} : h[way] = 0
    BY <2>1 DEF Integral
  <2>3. SumFunctionOnSet(h, S) = SumFunctionOnSet(h, {})
    BY <1>1, <2>2, SumOverSupport
  <2>4. SumFunctionOnSet(h, S) = 0
    BY <2>3, SumOfNone
  <2> QED BY <2>1, <2>4 DEF S
<1> QED BY <1>4, <1>5

(* Of those who come to a node, no more end there than come. *)
LEMMA EndingFacts ==
  ASSUME NEW net, Followable(net), NEW arc, NEW people \in Int
  PROVE  /\ Ending(net, arc, people) \in Int
         /\ people >= 0 => Ending(net, arc, people) \in 0 .. people
<1> DEFINE n     == To(net.graph, arc)
           known == n \in (DOMAIN net.demand) \cap (DOMAIN net.absorption)
           in    == net.demand[n].in
           least == Min({net.absorption[n], in})
<1>1. Ending(net, arc, people) = IF ~known \/ in <= 0 THEN 0 ELSE Part(people, least, in)
  BY DEF Ending
<1>2. CASE ~known \/ in <= 0
  <2>1. Ending(net, arc, people) = 0
    <3> HIDE DEF known, in, least
    <3> QED BY <1>1, <1>2
  <2> QED BY <2>1
<1>3. CASE known /\ ~(in <= 0)
  <2>1. in \in Int /\ net.absorption[n] \in Nat
    BY <1>3 DEF Followable
  <2>2. in \in Nat /\ in > 0
    <3> HIDE DEF in, known
    <3> QED BY <1>3, <2>1
  <2>3. least \in Nat /\ least <= in
    <3> DEFINE a == net.absorption[n]
               S == {a, in}
    <3>1. S \in SUBSET Int /\ S # {} /\ in \in S /\ S \subseteq Nat
      BY <2>1, <2>2
    <3>2. IsFiniteSet(S)
      BY PairIsFinite
    <3>3. Min(S) \in S /\ \A y \in S : Min(S) <= y
      <4> HIDE DEF S
      <4> QED BY <3>1, <3>2, MinFacts
    <3>4. Min(S) \in Nat /\ Min(S) <= in
      <4> HIDE DEF S, in
      <4> QED BY <3>1, <3>3
    <3> QED BY <3>4
  <2>4. Ending(net, arc, people) = Part(people, least, in)
    <3> HIDE DEF known, in, least
    <3> QED BY <1>1, <1>3
  <2>5. Part(people, least, in) \in Int
    <3> HIDE DEF in, least
    <3> QED BY <2>2, <2>3, PartIsInt
  <2>6. ASSUME people >= 0 PROVE Part(people, least, in) \in 0 .. people
    <3> HIDE DEF in, least
    <3>1. people \in Nat
      BY <2>6
    <3>2. (people * least) \div in \in Nat /\ (people * least) \div in <= people
      BY <2>2, <2>3, <3>1, PartFits
    <3>3. Part(people, least, in) \in Nat /\ Part(people, least, in) <= people
      BY <3>2 DEF Part
    <3> QED BY <3>1, <3>3
  <2> HIDE DEF in, least
  <2> QED BY <2>4, <2>5, <2>6
<1> HIDE DEF in, known
<1> QED BY <1>2, <1>3

LEMMA TurningFacts ==
  ASSUME NEW net, Followable(net), NEW arc
  PROVE  /\ IsFiniteSet(Turnings(net, arc)) /\ Turnings(net, arc) \subseteq DOMAIN net.obs.turnings
         /\ \A i \in DOMAIN net.obs.turnings :
              /\ Percents(net.obs)[i] \in Int /\ (Counted(net) => Percents(net.obs)[i] \in Nat)
              /\ net.obs.turnings[i].to \in Optional(Nat)
         /\ \A i \in Turnings(net, arc) : \A e \in net.obs.turnings[i].to :
              \E way \in ArcsOut(net, To(net.graph, arc)) : way[1] = e
<1> DEFINE R == [node : Nat, from : Nat, to : Optional(Nat), percent : Int, flag : STRING]
<1>1. net.obs.turnings \in Seq(R)
  BY DEF Followable, Readings
<1>2. /\ IsFiniteSet(DOMAIN net.obs.turnings)
      /\ \A i \in DOMAIN net.obs.turnings : net.obs.turnings[i] \in R
  <2> HIDE DEF R
  <2> QED BY <1>1, SequenceFacts
<1>3. \A i \in DOMAIN net.obs.turnings :
        net.obs.turnings[i].percent \in Int /\ net.obs.turnings[i].to \in Optional(Nat)
  BY <1>2
<1>4. \A i \in DOMAIN net.obs.turnings :
        Percents(net.obs)[i] \in Int /\ (Counted(net) => Percents(net.obs)[i] \in Nat)
  BY <1>3 DEF Percents, Counted
<1>5. Turnings(net, arc) \subseteq DOMAIN net.obs.turnings
  BY DEF Turnings, TurningsOf
<1>6. IsFiniteSet(Turnings(net, arc))
  BY <1>2, <1>5, FS_Subset
<1>7. \A i \in Turnings(net, arc) : \A e \in net.obs.turnings[i].to :
        \E way \in ArcsOut(net, To(net.graph, arc)) : way[1] = e
  BY DEF Turnings, TurningsOf, ArcsOut
<1> QED BY <1>3, <1>4, <1>5, <1>6, <1>7

LEMMA ToldIsInt ==
  ASSUME NEW net, Followable(net), NEW arc, NEW to, NEW people \in Int
  PROVE  ToldOf(net, arc, to, people) \in Int
<1> DEFINE S == {i \in Turnings(net, arc) : net.obs.turnings[i].to = to}
           x == PercentOf(net.obs, S)
<1>1. IsFiniteSet(S) /\ Integral(Percents(net.obs), S)
  <2>1. S \in SUBSET Turnings(net, arc)
    OBVIOUS
  <2> HIDE DEF S
  <2> QED BY <2>1, TurningFacts, FS_Subset DEF Integral
<1>2. x \in Int
  <2> HIDE DEF S
  <2> QED BY <1>1, SumIsInt DEF PercentOf
<1>3. Part(people, x, 100) \in Int
  <2> HIDE DEF x
  <2> QED BY <1>2, PartIsInt
<1> QED BY <1>3 DEF ToldOf

GoesAsTold(net, arc, way, people) == ToldOf(net, arc, {way[1]}, people)

(* Those of whom turnings tell are shared out among the arcs and the end.  *)
LEMMA ToldIsFair ==
  ASSUME NEW net, Followable(net), Counted(net), NEW arc, Told(net, arc), NEW people \in Nat,
         NEW h, \A way \in ArcsOut(net, To(net.graph, arc)) :
                  h[way] = GoesAsTold(net, arc, way, people)
  PROVE  /\ ToldOf(net, arc, {}, people) \in Nat
         /\ \A way \in ArcsOut(net, To(net.graph, arc)) : h[way] \in Nat
         /\ ToldOf(net, arc, {}, people) + SumFunctionOnSet(h, ArcsOut(net, To(net.graph, arc)))
              <= people
<1> DEFINE n      == To(net.graph, arc)
           ways   == ArcsOut(net, n)
           T      == Turnings(net, arc)
           to(i)  == net.obs.turnings[i].to
           f      == Percents(net.obs)
<1>1. PICK none : none \notin ways
  BY NoSetContainsEverything
<1> DEFINE Of(y)   == IF y = none THEN {} ELSE {y[1]}
           key     == [i \in T |-> IF to(i) = {} THEN none ELSE CHOOSE way \in ways : way[1] \in to(i)]
           all     == ways \cup {none}
           told    == [y \in all |-> SumFunctionOnSet(f, {i \in T : key[i] = y})]
           parts   == [y \in all |-> (people * told[y]) \div 100]
<1>2. /\ IsFiniteSet(T) /\ \A i \in T : f[i] \in Nat
      /\ \A i \in T : to(i) \in Optional(Nat)
      /\ \A i \in T : \A e \in to(i) : \E way \in ways : way[1] = e
  BY TurningFacts
<1>3. IsFiniteSet(ways) /\ IsFiniteSet(all)
  <2>1. IsFiniteSet(ways)
    BY ArcsOutFacts
  <2> HIDE DEF ways
  <2> QED BY <2>1, FS_AddElement
<1>4. ASSUME NEW i \in T, NEW y \in all PROVE key[i] = y <=> to(i) = Of(y)
  <2> DEFINE c == CHOOSE way \in ways : way[1] \in to(i)
  <2>1. CASE to(i) = {}
    <3>1. key[i] = none
      BY <2>1
    <3> HIDE DEF key, to
    <3> QED BY <2>1, <3>1
  <2>2. CASE to(i) # {}
    <3>1. key[i] = c
      BY <2>2
    <3>2. \E way \in ways : way[1] \in to(i)
      <4> HIDE DEF ways, to
      <4> QED BY <1>2, <2>2
    <3>3. c \in ways /\ c[1] \in to(i)
      <4> HIDE DEF ways, to
      <4> QED BY <3>2
    <3>4. to(i) = {c[1]}
      <4>1. \A a, b \in to(i) : a = b
        <5> HIDE DEF T, to
        <5> QED BY <1>2 DEF Optional
      <4> HIDE DEF to, c
      <4> QED BY <3>3, <4>1
    <3>5. c # none
      <4> HIDE DEF ways, c
      <4> QED BY <1>1, <3>3
    <3>6. CASE y = none
      <4> HIDE DEF key, c, to
      <4> QED BY <2>2, <3>1, <3>5, <3>6
    <3>7. CASE y # none
      <4>1. y \in ways
        BY <3>7
      <4>2. y[1] = c[1] => y = c
        <5>1. /\ From(net.graph, y) = n /\ From(net.graph, c) = n
              /\ y \in DOMAIN net.flows /\ c \in DOMAIN net.flows
          <6> HIDE DEF c
          <6> QED BY <3>3, <4>1, ArcsOutFacts
        <5> HIDE DEF c, n
        <5> QED BY <5>1 DEF Followable, ArcFlows
      <4> HIDE DEF key, c, to
      <4> QED BY <3>1, <3>4, <3>7, <4>2
    <3> QED BY <3>6, <3>7
  <2> QED BY <2>1, <2>2
<1>5. ASSUME NEW y \in all PROVE parts[y] = ToldOf(net, arc, Of(y), people)
  <2>1. {i \in T : key[i] = y} = {i \in T : to(i) = Of(y)}
    <3> HIDE DEF key, to, Of, all, T
    <3> QED BY <1>4
  <2>2. told[y] = SumFunctionOnSet(f, {i \in T : to(i) = Of(y)})
    <3>1. told[y] = SumFunctionOnSet(f, {i \in T : key[i] = y})
      <4> HIDE DEF key, f, T, all
      <4> QED OBVIOUS
    <3> QED BY <2>1, <3>1
  <2>3. ToldOf(net, arc, Of(y), people) = Part(people, SumFunctionOnSet(f, {i \in T : to(i) = Of(y)}), 100)
    <3> HIDE DEF Of
    <3> QED BY DEF ToldOf, PercentOf
  <2>4. parts[y] = (people * told[y]) \div 100
    <3> HIDE DEF told, all
    <3> QED OBVIOUS
  <2> HIDE DEF parts, told, f, T, to, Of
  <2> QED BY <2>2, <2>3, <2>4 DEF Part
<1>6. (\A y \in all : told[y] \in Nat) /\ SumFunctionOnSet(told, all) <= 100
  <2>1. \A y \in all : told[y] = SumFunctionOnSet(f, Keyed(T, key, y))
    <3> HIDE DEF key, f, T, all
    <3> QED BY DEF Keyed
  <2>2. (\A y \in all : told[y] \in Nat) /\ SumFunctionOnSet(told, all) <= SumFunctionOnSet(f, T)
    <3> HIDE DEF key, f, T, all, told, to
    <3> QED BY <1>2, <1>3, <2>1, SumOfGroups
  <2>3. SumFunctionOnSet(f, T) = 100
    BY DEF Told, PercentOf
  <2> HIDE DEF told, all, f, T
  <2> QED BY <2>2, <2>3
<1>7. (\A y \in all : parts[y] \in Nat) /\ SumFunctionOnSet(parts, all) <= people
  <2>1. \A y \in all : parts[y] = (people * told[y]) \div 100
    <3> HIDE DEF told, all
    <3> QED OBVIOUS
  <2>2. 100 \in Nat /\ 100 > 0
    OBVIOUS
  <2> HIDE DEF parts, told, all
  <2> QED BY <1>3, <1>6, <2>1, <2>2, SharesFit
<1>8. SumFunctionOnSet(parts, all) = parts[none] + SumFunctionOnSet(parts, ways)
  <2>1. all \ {none} = ways /\ none \in all
    <3> HIDE DEF ways
    <3> QED BY <1>1
  <2>2. Integral(parts, all)
    <3> HIDE DEF parts, all
    <3> QED BY <1>7 DEF Integral
  <2> HIDE DEF parts, all, ways
  <2> QED BY <1>3, <2>1, <2>2, SumTakesOut
<1>9. \A way \in ways : h[way] = parts[way]
  <2> SUFFICES ASSUME NEW way \in ways PROVE h[way] = parts[way]
    OBVIOUS
  <2>1. way \in all /\ Of(way) = {way[1]}
    BY <1>1
  <2>2. parts[way] = ToldOf(net, arc, {way[1]}, people)
    <3> HIDE DEF parts, Of, all
    <3> QED BY <1>5, <2>1
  <2>3. h[way] = ToldOf(net, arc, {way[1]}, people)
    BY DEF GoesAsTold
  <2> HIDE DEF parts
  <2> QED BY <2>2, <2>3
<1>10. parts[none] = ToldOf(net, arc, {}, people)
  <2>1. none \in all /\ Of(none) = {}
    OBVIOUS
  <2> HIDE DEF parts, Of, all
  <2> QED BY <1>5, <2>1
<1>11. \A way \in ways : parts[way] \in Nat
  <2>1. ways \subseteq all
    OBVIOUS
  <2> HIDE DEF parts, all, ways
  <2> QED BY <1>7, <2>1
<1>12. SumFunctionOnSet(h, ways) = SumFunctionOnSet(parts, ways)
  <2> HIDE DEF parts, ways
  <2> QED BY <1>3, <1>9, <1>11, SumOfSame DEF Integral
<1>13. parts[none] \in Nat
  <2>1. none \in all
    OBVIOUS
  <2> HIDE DEF parts, all
  <2> QED BY <1>7, <2>1
<1> HIDE DEF parts, all, ways
<1> QED BY <1>7, <1>8, <1>9, <1>10, <1>11, <1>12, <1>13 DEF ways

(* Whoever is on an arc ends where it leads, goes on, or is lost.          *)
LEMMA PartingIsInt ==
  ASSUME NEW net, Followable(net), NEW arc \in DOMAIN net.flows, NEW people \in Int
  PROVE  /\ EndsThere(net, arc, people) \in Int
         /\ \A way \in DOMAIN net.flows : GoesOn(net, arc, way, people) \in Int
<1>1. EndsThere(net, arc, people) \in Int
  BY ToldIsInt, EndingFacts DEF EndsThere
<1>2. ASSUME NEW way \in DOMAIN net.flows PROVE GoesOn(net, arc, way, people) \in Int
  <2> DEFINE others == people - Ending(net, arc, people)
  <2>1. others \in Int
    BY EndingFacts
  <2>2. Share(net, way, others) \in Int /\ ToldOf(net, arc, {way[1]}, people) \in Int
    <3> HIDE DEF others
    <3> QED BY <2>1, ShareIsInt, ToldIsInt
  <2>3. GoesOn(net, arc, way, people)
          = IF Told(net, arc) THEN ToldOf(net, arc, {way[1]}, people)
            ELSE IF others <= net.tolerance THEN 0 ELSE Share(net, way, others)
    BY DEF GoesOn
  <2> HIDE DEF others
  <2> QED BY <2>2, <2>3
<1> QED BY <1>1, <1>2

LEMMA PartingIsFair ==
  ASSUME NEW net, Followable(net), Counted(net), NEW arc \in DOMAIN net.flows, NEW people \in Nat,
         NEW h, \A way \in ArcsOut(net, To(net.graph, arc)) : h[way] = GoesOn(net, arc, way, people)
  PROVE  /\ EndsThere(net, arc, people) \in Nat
         /\ \A way \in ArcsOut(net, To(net.graph, arc)) : h[way] \in Nat
         /\ EndsThere(net, arc, people) + SumFunctionOnSet(h, ArcsOut(net, To(net.graph, arc)))
              <= people
<1> DEFINE ways   == ArcsOut(net, To(net.graph, arc))
           ends   == EndsThere(net, arc, people)
           others == people - Ending(net, arc, people)
<1>1. CASE Told(net, arc)
  <2>1. ends = ToldOf(net, arc, {}, people)
    BY <1>1 DEF EndsThere
  <2>2. \A way \in ways : h[way] = GoesAsTold(net, arc, way, people)
    BY <1>1 DEF GoesOn, GoesAsTold
  <2> QED BY <1>1, <2>1, <2>2, ToldIsFair
<1>2. CASE ~Told(net, arc)
  <2>1. ends = Ending(net, arc, people) /\ ends \in 0 .. people /\ others \in Nat
        /\ others = people - ends
    <3>1. ends = Ending(net, arc, people)
      BY <1>2 DEF EndsThere
    <3>2. Ending(net, arc, people) \in 0 .. people
      BY EndingFacts
    <3> HIDE DEF ends
    <3> QED BY <3>1, <3>2
  <2>2. \A way \in ways : h[way] = IF others <= net.tolerance THEN 0 ELSE Share(net, way, others)
    BY <1>2 DEF GoesOn
  <2> HIDE DEF others, ends
  <2>3. (\A way \in ways : h[way] \in Nat) /\ SumFunctionOnSet(h, ways) <= others
    <3>1. CASE others <= net.tolerance
      <4>1. \A way \in ways : h[way] = 0
        BY <2>2, <3>1
      <4>2. IsFiniteSet(ways)
        BY ArcsOutFacts
      <4>3. Integral(h, ways) /\ {} \in SUBSET ways /\ \A way \in ways \ {} : h[way] = 0
        BY <4>1 DEF Integral
      <4> HIDE DEF ways
      <4>4. SumFunctionOnSet(h, ways) = SumFunctionOnSet(h, {})
        BY <4>2, <4>3, SumOverSupport
      <4> QED BY <2>1, <4>1, <4>4, SumOfNone
    <3>2. CASE ~(others <= net.tolerance)
      <4>1. \A way \in ways : h[way] = Share(net, way, others)
        BY <2>2, <3>2
      <4> QED BY <2>1, <4>1, SharesAreFair
    <3> QED BY <3>1, <3>2
  <2>4. SumFunctionOnSet(h, ways) \in Int
    <3>1. IsFiniteSet(ways)
      BY ArcsOutFacts
    <3> HIDE DEF ways
    <3> QED BY <2>3, <3>1, SumIsInt DEF Integral
  <2>5. ends + SumFunctionOnSet(h, ways) <= people
    <3> DEFINE sum == SumFunctionOnSet(h, ways)
    <3>1. sum \in Int /\ sum <= others
      BY <2>3, <2>4
    <3> HIDE DEF sum
    <3> QED BY <2>1, <3>1 DEF sum
  <2> QED BY <2>1, <2>3, <2>5 DEF ends
<1> QED BY <1>1, <1>2

LEMMA ArrivingFacts ==
  ASSUME NEW net, Followable(net), NEW on, DOMAIN on \subseteq DOMAIN net.flows, NEW n
  PROVE  /\ Arriving(net, on, n) = {arc \in DOMAIN on : To(net.graph, arc) = n}
         /\ Arriving(net, on, n) \in SUBSET DOMAIN on
         /\ IsFiniteSet(DOMAIN on) /\ IsFiniteSet(Arriving(net, on, n))
<1>1. Arriving(net, on, n) = {arc \in DOMAIN on : To(net.graph, arc) = n}
  BY DEF Arriving, ArcsInto
<1>2. IsFiniteSet(DOMAIN on)
  BY FS_Subset DEF Followable, ArcFlows
<1> QED BY <1>1, <1>2, FS_Subset

LEMMA OnwardsIsInt ==
  ASSUME NEW net, Followable(net), NEW on, DOMAIN on \subseteq DOMAIN net.flows,
         \A arc \in DOMAIN on : on[arc] \in Int
  PROVE  /\ Onwards(net, on) \in [DOMAIN net.flows -> Int]
         /\ Arrived(net, on) \in [EnabledNodes(net.graph) -> Int]
         /\ \A way \in DOMAIN net.flows : Onwards(net, on)[way] # 0 =>
              \E arc \in DOMAIN on : To(net.graph, arc) = From(net.graph, way)
         /\ \A n \in EnabledNodes(net.graph) : Arrived(net, on)[n] # 0 =>
              \E arc \in DOMAIN on : To(net.graph, arc) = n
<1> DEFINE before(n) == Arriving(net, on, n)
           way_(way) == [arc \in before(From(net.graph, way)) |-> GoesOn(net, arc, way, on[arc])]
           end_(n)   == [arc \in before(n) |-> EndsThere(net, arc, on[arc])]
           next      == Onwards(net, on)
           arrived   == Arrived(net, on)
<1>1. next = [way \in DOMAIN net.flows |-> SumFunctionOnSet(way_(way), before(From(net.graph, way)))]
  BY TableIsSame DEF Onwards
<1>2. arrived = [n \in EnabledNodes(net.graph) |-> SumFunctionOnSet(end_(n), before(n))]
  BY TableIsSame DEF Arrived
<1>3. \A n : before(n) \in SUBSET DOMAIN on /\ IsFiniteSet(before(n))
             /\ before(n) = {arc \in DOMAIN on : To(net.graph, arc) = n}
  BY ArrivingFacts
<1>4. ASSUME NEW way \in DOMAIN net.flows
      PROVE  /\ next[way] \in Int
             /\ next[way] # 0 => \E arc \in DOMAIN on : To(net.graph, arc) = From(net.graph, way)
  <2> DEFINE S == before(From(net.graph, way))
             f == way_(way)
  <2>1. next[way] = SumFunctionOnSet(f, S)
    <3> HIDE DEF way_, before, next
    <3> QED BY <1>1
  <2>2. Integral(f, S)
    <3>1. \A arc \in S : f[arc] = GoesOn(net, arc, way, on[arc])
      OBVIOUS
    <3>2. \A arc \in S : arc \in DOMAIN net.flows /\ on[arc] \in Int
      <4> HIDE DEF before
      <4> QED BY <1>3
    <3> HIDE DEF S, f
    <3> QED BY <3>1, <3>2, PartingIsInt DEF Integral
  <2>3. SumFunctionOnSet(f, S) \in Int
    <3> HIDE DEF f, before
    <3> QED BY <1>3, <2>2, SumIsInt
  <2>4. S = {} => SumFunctionOnSet(f, S) = 0
    <3> HIDE DEF f, S
    <3> QED BY SumOfNone
  <2>5. S # {} => \E arc \in DOMAIN on : To(net.graph, arc) = From(net.graph, way)
    <3> HIDE DEF before
    <3> QED BY <1>3
  <2> HIDE DEF next, f, S
  <2> QED BY <2>1, <2>3, <2>4, <2>5
<1>5. ASSUME NEW n \in EnabledNodes(net.graph)
      PROVE  /\ arrived[n] \in Int
             /\ arrived[n] # 0 => \E arc \in DOMAIN on : To(net.graph, arc) = n
  <2> DEFINE S == before(n)
             f == end_(n)
  <2>1. arrived[n] = SumFunctionOnSet(f, S)
    <3> HIDE DEF end_, before, arrived
    <3> QED BY <1>2
  <2>2. Integral(f, S)
    <3>1. \A arc \in S : f[arc] = EndsThere(net, arc, on[arc])
      OBVIOUS
    <3>2. \A arc \in S : arc \in DOMAIN net.flows /\ on[arc] \in Int
      <4> HIDE DEF before
      <4> QED BY <1>3
    <3> HIDE DEF S, f
    <3> QED BY <3>1, <3>2, PartingIsInt DEF Integral
  <2>3. SumFunctionOnSet(f, S) \in Int
    <3> HIDE DEF f, before
    <3> QED BY <1>3, <2>2, SumIsInt
  <2>4. S = {} => SumFunctionOnSet(f, S) = 0
    <3> HIDE DEF f, S
    <3> QED BY SumOfNone
  <2>5. S # {} => \E arc \in DOMAIN on : To(net.graph, arc) = n
    <3> HIDE DEF before
    <3> QED BY <1>3
  <2> HIDE DEF arrived, f, S
  <2> QED BY <2>1, <2>3, <2>4, <2>5
<1>6. next \in [DOMAIN net.flows -> Int] /\ arrived \in [EnabledNodes(net.graph) -> Int]
  <2>1. /\ next = [way \in DOMAIN net.flows |-> next[way]]
        /\ arrived = [n \in EnabledNodes(net.graph) |-> arrived[n]]
    <3> HIDE DEF way_, end_, before
    <3> QED BY <1>1, <1>2
  <2> HIDE DEF next, arrived
  <2> QED BY <1>4, <1>5, <2>1
<1> HIDE DEF next, arrived
<1> QED BY <1>4, <1>5, <1>6 DEF next, arrived

(* Of those who come along an arc, the cells say how many go on by which way. *)
LEMMA RowFacts ==
  ASSUME NEW net, Followable(net), Counted(net), NEW arc \in DOMAIN net.flows, NEW people \in Nat,
         NEW f, \A way \in DOMAIN net.flows :
                  f[way] = IF To(net.graph, arc) = From(net.graph, way)
                           THEN GoesOn(net, arc, way, people) ELSE 0
  PROVE  /\ \A way \in DOMAIN net.flows : f[way] \in Nat
         /\ EndsThere(net, arc, people) \in Nat
         /\ EndsThere(net, arc, people) + SumFunctionOnSet(f, DOMAIN net.flows) <= people
<1> DEFINE T    == DOMAIN net.flows
           ways == ArcsOut(net, To(net.graph, arc))
           ends == EndsThere(net, arc, people)
<1>1. ways \in SUBSET T /\ (\A way \in ways : From(net.graph, way) = To(net.graph, arc))
      /\ (\A way \in T \ ways : From(net.graph, way) # To(net.graph, arc)) /\ IsFiniteSet(T)
  BY DEF ArcsOut, ArcsFrom, Followable, ArcFlows
<1>2. (\A way \in ways : f[way] = GoesOn(net, arc, way, people)) /\ (\A way \in T \ ways : f[way] = 0)
  <2> HIDE DEF ways
  <2> QED BY <1>1
<1>3. ends \in Nat /\ (\A way \in ways : f[way] \in Nat) /\ ends + SumFunctionOnSet(f, ways) <= people
  BY <1>2, PartingIsFair
<1>4. \A way \in T : f[way] \in Nat
  <2> HIDE DEF ways
  <2> QED BY <1>2, <1>3
<1>5. SumFunctionOnSet(f, T) = SumFunctionOnSet(f, ways)
  <2>1. Integral(f, T)
    BY <1>4 DEF Integral
  <2> HIDE DEF ways
  <2> QED BY <1>1, <1>2, <2>1, SumOverSupport
<1> HIDE DEF ways, ends
<1> QED BY <1>3, <1>4, <1>5 DEF ends

(* Nobody joins those who are on their way. *)
LEMMA OnwardsKeeps ==
  ASSUME NEW net, Followable(net), Counted(net), NEW on, DOMAIN on \subseteq DOMAIN net.flows,
         \A arc \in DOMAIN on : on[arc] \in Nat
  PROVE  /\ \A way \in DOMAIN net.flows : Onwards(net, on)[way] \in Nat
         /\ \A n \in EnabledNodes(net.graph) : Arrived(net, on)[n] \in Nat
         /\ SumFunctionOnSet(Onwards(net, on), DOMAIN net.flows)
              + SumFunctionOnSet(Arrived(net, on), EnabledNodes(net.graph))
              <= SumFunctionOnSet(on, DOMAIN on)
<1> DEFINE S       == DOMAIN on
           T       == DOMAIN net.flows
           N       == EnabledNodes(net.graph)
           leads(arc, way) == To(net.graph, arc) = From(net.graph, way)
           goes(arc, way)  == GoesOn(net, arc, way, on[arc])
           stays(arc)      == EndsThere(net, arc, on[arc])
           F       == [arc \in S |-> [way \in T |-> IF leads(arc, way) THEN goes(arc, way) ELSE 0]]
           G       == [way \in T |-> [arc \in S |-> IF leads(arc, way) THEN goes(arc, way) ELSE 0]]
           key     == [arc \in S |-> To(net.graph, arc)]
           rows    == [arc \in S |-> SumFunctionOnSet(F[arc], T)]
           ends    == [arc \in S |-> stays(arc)]
           both    == [arc \in S |-> rows[arc] + ends[arc]]
           next    == Onwards(net, on)
           arrived == Arrived(net, on)
           at(n)   == Arriving(net, on, n)
           goers(way) == [arc \in at(From(net.graph, way)) |-> goes(arc, way)]
           enders(n)  == [arc \in at(n) |-> stays(arc)]
<1>1. IsFiniteSet(S) /\ IsFiniteSet(T) /\ IsFiniteSet(N) /\ S \subseteq T
  BY FS_Subset DEF Followable, ArcFlows
<1>2. \A n : /\ at(n) = {arc \in S : To(net.graph, arc) = n}
             /\ at(n) \in SUBSET S /\ IsFiniteSet(at(n))
  BY ArrivingFacts
<1>3. /\ \A way \in T : next[way] = SumFunctionOnSet(goers(way), at(From(net.graph, way)))
      /\ \A n \in N : arrived[n] = SumFunctionOnSet(enders(n), at(n))
  <2>1. next = [way \in T |-> SumFunctionOnSet(goers(way), at(From(net.graph, way)))]
    BY TableIsSame DEF Onwards
  <2>2. arrived = [n \in N |-> SumFunctionOnSet(enders(n), at(n))]
    BY TableIsSame DEF Arrived
  <2> HIDE DEF next, arrived, goers, enders, at, T, N
  <2> QED BY <2>1, <2>2
<1>4. ASSUME NEW arc \in S
      PROVE  /\ \A way \in T : F[arc][way] \in Nat
             /\ ends[arc] \in Nat /\ rows[arc] \in Nat /\ both[arc] \in Nat
             /\ both[arc] <= on[arc] /\ both[arc] = rows[arc] + ends[arc]
             /\ rows[arc] = SumFunctionOnSet(F[arc], T) /\ ends[arc] = stays(arc)
  <2> DEFINE f == F[arc]
  <2>1. \A way \in T : f[way] = IF leads(arc, way) THEN goes(arc, way) ELSE 0
    <3> HIDE DEF leads, goes, T
    <3> QED OBVIOUS
  <2>2. /\ \A way \in T : f[way] \in Nat
        /\ stays(arc) \in Nat /\ stays(arc) + SumFunctionOnSet(f, T) <= on[arc]
    <3>1. arc \in T /\ on[arc] \in Nat
      BY <1>1
    <3> HIDE DEF f
    <3> QED BY <2>1, <3>1, RowFacts
  <2>3. SumFunctionOnSet(f, T) \in Nat
    <3> HIDE DEF f, T
    <3> QED BY <1>1, <2>2, SumIsNat
  <2>4. rows[arc] = SumFunctionOnSet(f, T) /\ ends[arc] = stays(arc)
        /\ both[arc] = rows[arc] + ends[arc]
    <3> HIDE DEF stays, T, F
    <3> QED OBVIOUS
  <2>5. on[arc] \in Nat
    OBVIOUS
  <2> HIDE DEF rows, ends, both, stays, F, T
  <2> QED BY <2>2, <2>3, <2>4, <2>5
<1>5. ASSUME NEW way \in T
      PROVE  /\ \A arc \in S : G[way][arc] = F[arc][way]
             /\ next[way] = SumFunctionOnSet(G[way], S)
  <2> DEFINE g == G[way]
             before == at(From(net.graph, way))
             k == goers(way)
  <2>1. \A arc \in S : g[arc] = F[arc][way]
    <3> HIDE DEF leads, goes, S, T
    <3> QED OBVIOUS
  <2>2. Integral(g, S) /\ Integral(g, before)
    <3>1. before \in SUBSET S
      BY <1>2
    <3> HIDE DEF g, F, before
    <3> QED BY <1>4, <2>1, <3>1 DEF Integral
  <2>3. (\A arc \in before : k[arc] = g[arc]) /\ (\A arc \in S \ before : g[arc] = 0)
    <3>1. before = {arc \in S : leads(arc, way)}
      <4> HIDE DEF at
      <4> QED BY <1>2
    <3>2. \A arc \in before : k[arc] = goes(arc, way)
      <4> HIDE DEF goes, at
      <4> QED OBVIOUS
    <3>3. \A arc \in S : g[arc] = IF leads(arc, way) THEN goes(arc, way) ELSE 0
      <4> HIDE DEF leads, goes, S, T
      <4> QED OBVIOUS
    <3> HIDE DEF before, k, g, leads, goes
    <3> QED BY <3>1, <3>2, <3>3
  <2>4. before \in SUBSET S /\ IsFiniteSet(before)
    BY <1>2
  <2>5. SumFunctionOnSet(k, before) = SumFunctionOnSet(g, before)
    <3> HIDE DEF k, g, before
    <3> QED BY <2>2, <2>3, <2>4, SumOfSame
  <2>6. SumFunctionOnSet(g, S) = SumFunctionOnSet(g, before)
    <3> HIDE DEF k, g, before, S
    <3> QED BY <1>1, <2>2, <2>3, <2>4, SumOverSupport
  <2>7. next[way] = SumFunctionOnSet(k, before)
    <3> HIDE DEF next, goers, at
    <3> QED BY <1>3
  <2> HIDE DEF next, k, before, F, g
  <2> QED BY <2>1, <2>5, <2>6, <2>7 DEF g
<1> HIDE DEF F, G, goers
<1>6. \A way \in T : next[way] \in Nat
  <2> SUFFICES ASSUME NEW way \in T PROVE next[way] \in Nat
    OBVIOUS
  <2>1. \A arc \in S : G[way][arc] \in Nat
    <3> HIDE DEF S, T
    <3> QED BY <1>4, <1>5
  <2> DEFINE g == G[way]
  <2>2. SumFunctionOnSet(g, S) \in Nat
    <3> HIDE DEF g, S
    <3> QED BY <1>1, <2>1, SumIsNat DEF g
  <2> HIDE DEF next
  <2> QED BY <1>5, <2>2
<1>7. SumFunctionOnSet(rows, S) = SumFunctionOnSet(next, T)
  <2>1. AddsBothWays(F, G, S, T, rows, next)
    <3> HIDE DEF rows, next, S, T
    <3> QED BY <1>4, <1>5 DEF AddsBothWays
  <2> HIDE DEF rows, next, S, T
  <2> QED BY <1>1, <2>1, SumOfTable
<1>8. (\A n \in N : arrived[n] \in Nat) /\ SumFunctionOnSet(arrived, N) <= SumFunctionOnSet(ends, S)
  <2>1. \A n \in N : arrived[n] = SumFunctionOnSet(ends, Keyed(S, key, n))
    <3> SUFFICES ASSUME NEW n \in N PROVE arrived[n] = SumFunctionOnSet(ends, Keyed(S, key, n))
      OBVIOUS
    <3> DEFINE here == at(n)
               k    == enders(n)
    <3>1. Keyed(S, key, n) = here
      <4>1. \A arc \in S : key[arc] = To(net.graph, arc)
        OBVIOUS
      <4>2. here = {arc \in S : To(net.graph, arc) = n}
        BY <1>2
      <4> HIDE DEF here, key, S
      <4> QED BY <4>1, <4>2 DEF Keyed
    <3>2. here \in SUBSET S /\ IsFiniteSet(here)
      BY <1>2
    <3>3. \A arc \in here : k[arc] = stays(arc)
      <4> HIDE DEF stays, at
      <4> QED OBVIOUS
    <3>4. (\A arc \in here : k[arc] = ends[arc]) /\ Integral(ends, here)
      <4> HIDE DEF here, k, ends, stays
      <4> QED BY <1>4, <3>2, <3>3 DEF Integral
    <3>5. SumFunctionOnSet(k, here) = SumFunctionOnSet(ends, here)
      <4> HIDE DEF here, k, ends
      <4> QED BY <3>2, <3>4, SumOfSame
    <3>6. arrived[n] = SumFunctionOnSet(k, here)
      <4> HIDE DEF arrived, enders, at
      <4> QED BY <1>3
    <3> HIDE DEF arrived, k, here, ends, key
    <3> QED BY <3>1, <3>5, <3>6
  <2>2. \A arc \in S : ends[arc] \in Nat
    <3> HIDE DEF ends
    <3> QED BY <1>4
  <2> HIDE DEF arrived, ends, key, S, N
  <2> QED BY <1>1, <2>1, <2>2, SumOfGroups
<1>9. SumFunctionOnSet(rows, S) + SumFunctionOnSet(ends, S) <= SumFunctionOnSet(on, S)
  <2>1. Integral(rows, S) /\ Integral(ends, S) /\ Integral(both, S) /\ Integral(on, S)
        /\ (\A arc \in S : both[arc] = rows[arc] + ends[arc] /\ both[arc] <= on[arc])
    <3> HIDE DEF rows, ends, both
    <3> QED BY <1>4 DEF Integral
  <2> HIDE DEF rows, ends, both, S
  <2>2. SumFunctionOnSet(both, S) = SumFunctionOnSet(rows, S) + SumFunctionOnSet(ends, S)
    BY <1>1, <2>1, SumOfSums
  <2>3. SumFunctionOnSet(both, S) <= SumFunctionOnSet(on, S)
    BY <1>1, <2>1, SumIsMonotone
  <2> QED BY <2>2, <2>3
<1>10. SumFunctionOnSet(arrived, N) \in Nat /\ SumFunctionOnSet(ends, S) \in Nat
       /\ SumFunctionOnSet(next, T) \in Nat /\ SumFunctionOnSet(on, S) \in Nat
  <2>1. \A arc \in S : ends[arc] \in Nat /\ on[arc] \in Nat
    <3> HIDE DEF ends
    <3> QED BY <1>4
  <2> HIDE DEF arrived, ends, next, S, T, N
  <2> QED BY <1>1, <1>6, <1>8, <2>1, SumIsNat
<1>11. SumFunctionOnSet(next, T) + SumFunctionOnSet(arrived, N) <= SumFunctionOnSet(on, S)
  <2> HIDE DEF arrived, ends, next, S, T, N, rows
  <2> QED BY <1>7, <1>8, <1>9, <1>10
<1> HIDE DEF arrived, next
<1> QED BY <1>6, <1>8, <1>11 DEF arrived, next

-----------------------------------------------------------------------------
(* Following people from arc to arc *)

Reach(net, s) == ReachableFrom(Links(net.graph, DOMAIN net.flows), {s})

\* People on some of the arcs, or none at all.
Crowds(net) == {<<>>} \cup UNION {[D -> Int] : D \in SUBSET DOMAIN net.flows}

\* The people who started at s and are followed: they are where the flows lead
\* from s, and no more than started.
OnTheirWay(net, s, people) ==
  {st \in [on    : Crowds(net),
           ended : [EnabledNodes(net.graph) -> Int],
           used  : [DOMAIN net.flows -> Int]] :
     /\ \A arc \in DOMAIN st.on : From(net.graph, arc) \in Reach(net, s)
     /\ \A n \in EnabledNodes(net.graph) : st.ended[n] # 0 => n \in Reach(net, s)
     /\ Counted(net) =>
          /\ \A arc \in DOMAIN st.on : st.on[arc] \in Nat
          /\ \A n \in EnabledNodes(net.graph) : st.ended[n] \in Nat
          /\ SumFunctionOnSet(st.on, DOMAIN st.on)
               + SumFunctionOnSet(st.ended, EnabledNodes(net.graph)) <= people}

LEMMA CrowdFacts ==
  ASSUME NEW net, NEW on \in Crowds(net)
  PROVE  DOMAIN on \subseteq DOMAIN net.flows /\ \A arc \in DOMAIN on : on[arc] \in Int
<1>1. CASE on = <<>>
  <2>1. DOMAIN on = {}
    BY <1>1
  <2> QED BY <2>1
<1>2. CASE on \in UNION {[D -> Int] : D \in SUBSET DOMAIN net.flows}
  BY <1>2
<1> QED BY <1>1, <1>2 DEF Crowds

LEMMA ReachFacts ==
  ASSUME NEW net, Followable(net), NEW s
  PROVE  /\ s \in Reach(net, s)
         /\ \A arc \in DOMAIN net.flows :
              From(net.graph, arc) \in Reach(net, s) => To(net.graph, arc) \in Reach(net, s)
<1> DEFINE links == Links(net.graph, DOMAIN net.flows)
           f     == [arc \in DOMAIN net.flows |-> <<From(net.graph, arc), To(net.graph, arc)>>]
<1>1. IsFiniteSet(links)
  <2>1. IsFiniteSet({f[arc] : arc \in DOMAIN net.flows})
    <3> HIDE DEF f
    <3> QED BY FiniteImage DEF Followable, ArcFlows
  <2>2. {f[arc] : arc \in DOMAIN net.flows} = links
    BY DEF Links
  <2> HIDE DEF f, links
  <2> QED BY <2>1, <2>2
<1>2. \A arc \in DOMAIN net.flows : <<From(net.graph, arc), To(net.graph, arc)>> \in links
  BY DEF Links
<1> DEFINE R == ReachableFrom(links, {s})
<1>3. {s} \subseteq R /\ \A l \in links : l[1] \in R => l[2] \in R
  <2> HIDE DEF links
  <2> QED BY <1>1, ReachedIsClosed
<1>4. s \in R /\ \A arc \in DOMAIN net.flows : From(net.graph, arc) \in R => To(net.graph, arc) \in R
  <2> HIDE DEF R, links
  <2> QED BY <1>2, <1>3
<1> QED BY <1>4 DEF Reach

LEMMA SumOfZeros ==
  ASSUME NEW S, IsFiniteSet(S), NEW f, \A x \in S : f[x] = 0
  PROVE  SumFunctionOnSet(f, S) = 0
<1>1. Integral(f, S) /\ {} \in SUBSET S /\ \A x \in S \ {} : f[x] = 0
  BY DEF Integral
<1>2. SumFunctionOnSet(f, S) = SumFunctionOnSet(f, {})
  BY <1>1, SumOverSupport
<1> QED BY <1>2, SumOfNone

LEMMA SetOutFacts ==
  ASSUME NEW net, Followable(net), NEW s, NEW people \in Nat
  PROVE  SetOut(net, Departed(net, s, people)) \in OnTheirWay(net, s, people)
<1> DEFINE S     == ArcsOut(net, s)
           N     == EnabledNodes(net.graph)
           start == Departed(net, s, people)
           zeros == [n \in N |-> 0]
           used  == [arc \in DOMAIN net.flows |-> IF arc \in DOMAIN start THEN start[arc] ELSE 0]
           st    == SetOut(net, start)
<1>1. S \in SUBSET DOMAIN net.flows /\ IsFiniteSet(S) /\ \A arc \in S : From(net.graph, arc) = s
  BY ArcsOutFacts
<1>2. start = [arc \in S |-> Share(net, arc, people)]
  BY TableIsSame DEF Departed, ArcsOut
<1>3. start \in [S -> Int] /\ \A arc \in S : start[arc] = Share(net, arc, people)
  <2>1. \A arc \in S : Share(net, arc, people) \in Int
    <3> HIDE DEF S
    <3> QED BY <1>1, ShareIsInt
  <2> HIDE DEF S, start
  <2> QED BY <1>2, <2>1
<1>4. /\ st.on = start /\ st.ended = zeros /\ st.used = used
      /\ st \in [on : {start}, ended : {zeros}, used : {used}]
  BY DEF SetOut
<1>5. start \in Crowds(net)
  <2> HIDE DEF S, start
  <2> QED BY <1>1, <1>3 DEF Crowds
<1>6. zeros \in [N -> Int] /\ used \in [DOMAIN net.flows -> Int]
  <2>1. \A arc \in DOMAIN start : start[arc] \in Int
    <3> HIDE DEF start, S
    <3> QED BY <1>3
  <2> HIDE DEF start
  <2> QED BY <2>1
<1>7. \A arc \in DOMAIN start : From(net.graph, arc) \in Reach(net, s)
  <2> HIDE DEF start, S
  <2> QED BY <1>1, <1>3, ReachFacts
<1>8. ASSUME Counted(net)
      PROVE  /\ \A arc \in DOMAIN start : start[arc] \in Nat
             /\ SumFunctionOnSet(start, DOMAIN start) + SumFunctionOnSet(zeros, N) <= people
  <2>1. (\A arc \in S : start[arc] \in Nat) /\ SumFunctionOnSet(start, S) <= people
    <3> HIDE DEF start
    <3> QED BY <1>3, <1>8, SharesAreFair
  <2>2. SumFunctionOnSet(zeros, N) = 0
    <3>1. IsFiniteSet(N) /\ \A n \in N : zeros[n] = 0
      BY DEF Followable
    <3> HIDE DEF zeros, N
    <3> QED BY <3>1, SumOfZeros
  <2>3. DOMAIN start = S /\ SumFunctionOnSet(start, S) \in Nat
    <3> HIDE DEF start, S
    <3> QED BY <1>1, <1>3, <2>1, SumIsNat
  <2> HIDE DEF start, S, zeros, N
  <2> QED BY <2>1, <2>2, <2>3
<1>9. \A n \in N : zeros[n] = 0
  OBVIOUS
<1> HIDE DEF start, S, zeros, used, st
<1>10. st \in [on : Crowds(net), ended : [N -> Int], used : [DOMAIN net.flows -> Int]]
  BY <1>4, <1>5, <1>6
<1> QED BY <1>4, <1>7, <1>8, <1>9, <1>10 DEF OnTheirWay, st, start

(* Whom it is still worth following. *)
LEMMA StillFacts ==
  ASSUME NEW net, Followable(net), NEW next \in [DOMAIN net.flows -> Int]
  PROVE  /\ StillOnWay(net, next) \in Crowds(net)
         /\ \A way \in DOMAIN StillOnWay(net, next) :
              way \in DOMAIN net.flows /\ next[way] # 0 /\ StillOnWay(net, next)[way] = next[way]
         /\ (\A way \in DOMAIN net.flows : next[way] \in Nat) =>
              SumFunctionOnSet(StillOnWay(net, next), DOMAIN StillOnWay(net, next))
                <= SumFunctionOnSet(next, DOMAIN net.flows)
<1> DEFINE T    == DOMAIN net.flows
           many == {w \in T : next[w] > net.tolerance}
           kept == [way \in many |-> next[way]]
           on   == StillOnWay(net, next)
<1>1. on = <<>> \/ on = kept
  <2>1. DOMAIN next = T
    OBVIOUS
  <2>2. on = IF Total(next) <= net.tolerance THEN <<>> ELSE kept
    BY <2>1, TableIsSame DEF StillOnWay
  <2> QED BY <2>2
<1>2. IsFiniteSet(T) /\ net.tolerance \in Nat
  BY DEF Followable, ArcFlows
<1>3. many \in SUBSET T /\ \A w \in many : next[w] # 0
  BY <1>2
<1>4. CASE on = <<>>
  <2>1. on \in Crowds(net) /\ DOMAIN on = {}
    BY <1>4 DEF Crowds
  <2>2. ASSUME \A way \in T : next[way] \in Nat
        PROVE  SumFunctionOnSet(on, DOMAIN on) <= SumFunctionOnSet(next, T)
    <3>1. SumFunctionOnSet(next, T) \in Nat
      <4> HIDE DEF T
      <4> QED BY <1>2, <2>2, SumIsNat
    <3>2. SumFunctionOnSet(on, {}) = 0
      BY SumOfNone
    <3> HIDE DEF on, T
    <3> QED BY <2>1, <3>1, <3>2
  <2> HIDE DEF on
  <2> QED BY <2>1, <2>2 DEF on
<1>5. CASE on = kept
  <2>1. DOMAIN on = many /\ \A w \in many : on[w] = next[w]
    <3> HIDE DEF many, on
    <3> QED BY <1>5
  <2>2. on \in Crowds(net)
    <3>1. kept \in [many -> Int]
      <4>1. \A w \in many : next[w] \in Int
        OBVIOUS
      <4> HIDE DEF many
      <4> QED BY <4>1
    <3> HIDE DEF many, kept, on
    <3> QED BY <1>3, <1>5, <3>1 DEF Crowds
  <2>3. ASSUME \A way \in T : next[way] \in Nat
        PROVE  SumFunctionOnSet(on, DOMAIN on) <= SumFunctionOnSet(next, T)
    <3>1. IsFiniteSet(many) /\ Integral(next, many)
      <4> HIDE DEF many
      <4> QED BY <1>2, <1>3, <2>3, FS_Subset DEF Integral
    <3>2. SumFunctionOnSet(on, many) = SumFunctionOnSet(next, many)
      <4> HIDE DEF many, on
      <4> QED BY <2>1, <3>1, SumOfSame
    <3>3. SumFunctionOnSet(next, many) <= SumFunctionOnSet(next, T)
      <4> HIDE DEF many, T
      <4> QED BY <1>2, <1>3, <2>3, SumOfSome
    <3> HIDE DEF many, on, T
    <3> QED BY <2>1, <3>2, <3>3
  <2> HIDE DEF on, many
  <2> QED BY <1>3, <2>1, <2>2, <2>3 DEF on
<1> QED BY <1>1, <1>4, <1>5

(* A step follows the flows and invents nobody. *)
LEMMA AfterFacts ==
  ASSUME NEW net, Followable(net), NEW s, NEW people \in Nat,
         NEW st \in OnTheirWay(net, s, people)
  PROVE  After(net, st, Onwards(net, st.on)) \in OnTheirWay(net, s, people)
<1> DEFINE T       == DOMAIN net.flows
           N       == EnabledNodes(net.graph)
           R       == Reach(net, s)
           next    == Onwards(net, st.on)
           arrived == Arrived(net, st.on)
           still   == StillOnWay(net, next)
           ended   == [n \in N |-> st.ended[n] + arrived[n]]
           used    == [way \in T |-> st.used[way] + next[way]]
           new     == After(net, st, next)
<1>1. /\ st.on \in Crowds(net) /\ st.ended \in [N -> Int] /\ st.used \in [T -> Int]
      /\ \A arc \in DOMAIN st.on : From(net.graph, arc) \in R
      /\ \A n \in N : st.ended[n] # 0 => n \in R
  BY DEF OnTheirWay
<1>2. DOMAIN st.on \subseteq T /\ \A arc \in DOMAIN st.on : st.on[arc] \in Int
  BY <1>1, CrowdFacts
<1>3. /\ next \in [T -> Int] /\ arrived \in [N -> Int]
      /\ \A way \in T : next[way] # 0 =>
           \E arc \in DOMAIN st.on : To(net.graph, arc) = From(net.graph, way)
      /\ \A n \in N : arrived[n] # 0 => \E arc \in DOMAIN st.on : To(net.graph, arc) = n
  BY <1>2, OnwardsIsInt
<1>4. \A arc \in DOMAIN st.on : To(net.graph, arc) \in R
  BY <1>1, <1>2, ReachFacts
<1>5. (\A way \in T : next[way] # 0 => From(net.graph, way) \in R)
      /\ (\A n \in N : arrived[n] # 0 => n \in R)
  <2> HIDE DEF next, arrived, R
  <2> QED BY <1>3, <1>4
<1>6. still \in Crowds(net)
      /\ (\A way \in DOMAIN still : way \in T /\ next[way] # 0 /\ still[way] = next[way])
      /\ ((\A way \in T : next[way] \in Nat) =>
            SumFunctionOnSet(still, DOMAIN still) <= SumFunctionOnSet(next, T))
  <2> HIDE DEF next
  <2> QED BY <1>3, StillFacts
<1>7. new = IF DOMAIN st.on = {} THEN st ELSE [on |-> still, ended |-> ended, used |-> used]
  <2>1. DOMAIN st.ended = N /\ DOMAIN st.used = T
    BY <1>1
  <2>2. new = IF DOMAIN st.on = {} THEN st
              ELSE [on    |-> still,
                    ended |-> [n \in DOMAIN st.ended |-> st.ended[n] + arrived[n]],
                    used  |-> [way \in DOMAIN st.used |-> st.used[way] + next[way]]]
    BY TableIsSame DEF After
  <2> HIDE DEF new, still, arrived, next, N, T
  <2> QED BY <2>1, <2>2
<1>8. /\ ended \in [N -> Int] /\ used \in [T -> Int]
      /\ \A n \in N : ended[n] = st.ended[n] + arrived[n]
  <2> HIDE DEF next, arrived, N, T
  <2> QED BY <1>1, <1>3
<1>9. \A n \in N : ended[n] # 0 => n \in R
  <2>1. \A n \in N : st.ended[n] \in Int /\ arrived[n] \in Int
    <3> HIDE DEF arrived, N
    <3> QED BY <1>1, <1>3
  <2> HIDE DEF next, arrived, N, R, ended
  <2> QED BY <1>1, <1>5, <1>8, <2>1
<1>10. \A way \in DOMAIN still : From(net.graph, way) \in R
  <2> HIDE DEF next, still, R, T
  <2> QED BY <1>5, <1>6
<1>11. ASSUME Counted(net)
       PROVE  /\ \A way \in DOMAIN still : still[way] \in Nat
              /\ \A n \in N : ended[n] \in Nat
              /\ SumFunctionOnSet(still, DOMAIN still) + SumFunctionOnSet(ended, N) <= people
  <2>1. /\ \A arc \in DOMAIN st.on : st.on[arc] \in Nat
        /\ \A n \in N : st.ended[n] \in Nat
        /\ SumFunctionOnSet(st.on, DOMAIN st.on) + SumFunctionOnSet(st.ended, N) <= people
    BY <1>11 DEF OnTheirWay
  <2>2. /\ \A way \in T : next[way] \in Nat
        /\ \A n \in N : arrived[n] \in Nat
        /\ SumFunctionOnSet(next, T) + SumFunctionOnSet(arrived, N)
             <= SumFunctionOnSet(st.on, DOMAIN st.on)
    BY <1>2, <1>11, <2>1, OnwardsKeeps
  <2>3. IsFiniteSet(N) /\ IsFiniteSet(T) /\ IsFiniteSet(DOMAIN st.on)
    BY <1>2, FS_Subset DEF Followable, ArcFlows
  <2>4. (\A n \in N : ended[n] \in Nat) /\ (\A way \in DOMAIN still : still[way] \in Nat)
        /\ IsFiniteSet(DOMAIN still)
    <3>1. \A n \in N : ended[n] \in Nat
      <4> HIDE DEF arrived, N, ended
      <4> QED BY <1>8, <2>1, <2>2
    <3>2. (\A way \in DOMAIN still : still[way] \in Nat) /\ IsFiniteSet(DOMAIN still)
      <4>1. DOMAIN still \subseteq T
        <5> HIDE DEF still, next, T
        <5> QED BY <1>6
      <4> HIDE DEF still, next, T
      <4> QED BY <1>6, <2>2, <2>3, <4>1, FS_Subset
    <3> HIDE DEF ended, still
    <3> QED BY <3>1, <3>2
  <2> HIDE DEF next, arrived, N, T, still, ended
  <2>5. SumFunctionOnSet(ended, N) = SumFunctionOnSet(st.ended, N) + SumFunctionOnSet(arrived, N)
    <3>1. Integral(st.ended, N) /\ Integral(arrived, N)
      BY <1>1, <1>3 DEF Integral
    <3> QED BY <1>8, <2>3, <3>1, SumOfSums
  <2> DEFINE a == SumFunctionOnSet(still, DOMAIN still)
             b == SumFunctionOnSet(next, T)
             c == SumFunctionOnSet(arrived, N)
             d == SumFunctionOnSet(st.on, DOMAIN st.on)
             e == SumFunctionOnSet(st.ended, N)
  <2>6. a \in Nat /\ b \in Nat /\ c \in Nat /\ d \in Nat /\ e \in Nat
    BY <2>1, <2>2, <2>3, <2>4, SumIsNat
  <2>7. a <= b /\ b + c <= d /\ d + e <= people
    BY <1>6, <2>1, <2>2
  <2>8. a + (e + c) <= people
    <3> HIDE DEF a, b, c, d, e
    <3> QED BY <2>6, <2>7
  <2> QED BY <2>4, <2>5, <2>8
<1>12. CASE DOMAIN st.on = {}
  <2>1. new = st
    <3> HIDE DEF new, still, ended, used
    <3> QED BY <1>7, <1>12
  <2> HIDE DEF new
  <2> QED BY <2>1 DEF new
<1>13. CASE DOMAIN st.on # {}
  <2> HIDE DEF new, still, ended, used, next, R
  <2>1. new = [on |-> still, ended |-> ended, used |-> used]
    BY <1>7, <1>13
  <2>2. new.on = still /\ new.ended = ended
        /\ new \in [on : Crowds(net), ended : [N -> Int], used : [T -> Int]]
    BY <1>6, <1>8, <2>1
  <2> HIDE DEF N, T
  <2>3. new \in OnTheirWay(net, s, people)
    BY <1>9, <1>10, <1>11, <2>2 DEF OnTheirWay, N, T, R
  <2> QED BY <2>3 DEF new, next
<1> QED BY <1>12, <1>13

LEMMA FollowedFacts ==
  ASSUME NEW net, Followable(net), NEW s, NEW people \in Nat
  PROVE  Followed(net, s, people) \in OnTheirWay(net, s, people)
<1> DEFINE n        == MaxPropagationSteps
           X        == OnTheirWay(net, s, people)
           base     == SetOut(net, Departed(net, s, people))
           Do(st)   == After(net, st, Onwards(net, st.on))
           Turn     == [p \in (1 .. n) \X X |-> Do(p[2])]
           Finds(f) == f = [k \in 0 .. n |-> IF k = 0 THEN base ELSE Do(f[k - 1])]
           step     == CHOOSE f : Finds(f)
<1>1. n \in Nat
  BY PropagationAssumption
<1>2. base \in X /\ \A st \in X : Do(st) \in X
  BY SetOutFacts, AfterFacts
<1>3. \E f : Finds(f)
  <2>1. Turn \in [(1 .. n) \X X -> X]
    <3> HIDE DEF Do, X, n
    <3> QED BY <1>2
  <2>2. PICK f \in [0 .. n -> X] : Unrolls(f, n, base, Turn)
    <3> HIDE DEF Turn, X, n, base
    <3> QED BY <1>1, <1>2, <2>1, RecursionExists
  <2>3. \A i \in 0 .. n : i # 0 => Turn[<<i, f[i - 1]>>] = Do(f[i - 1])
    <3>1. \A i \in 0 .. n : i # 0 => i \in 1 .. n /\ f[i - 1] \in X
      <4> HIDE DEF X, n
      <4> QED BY <1>1, <2>2
    <3> HIDE DEF Do, X, n
    <3> QED BY <3>1
  <2>4. Finds(f)
    <3> HIDE DEF Do, X, n, Turn, base
    <3> QED BY <2>2, <2>3 DEF Unrolls
  <2> QED BY <2>4
<1>4. step = [k \in 0 .. n |-> IF k = 0 THEN base ELSE Do(step[k - 1])]
  <2>1. Finds(step)
    <3> HIDE DEF Finds
    <3> QED BY <1>3
  <2> QED BY <2>1
<1>5. Followed(net, s, people) = step[n]
  BY DEF Followed
<1>6. step[0] = base /\ \A i \in 1 .. n : step[i] = Do(step[i - 1])
  <2>1. 0 \in 0 .. n /\ \A i \in 1 .. n : i \in 0 .. n /\ i # 0
    BY <1>1
  <2> HIDE DEF Do, n, step, base
  <2> QED BY <1>4, <2>1
<1>7. step[0] \in X /\ \A i \in 1 .. n : step[i - 1] \in X => step[i] \in X
  <2> HIDE DEF Do, n, step, base, X
  <2> QED BY <1>2, <1>6
<1>8. step[n] \in X
  <2>1. n \in 0 .. n
    BY <1>1
  <2> HIDE DEF n, step, X
  <2> QED BY <1>1, <1>7, <2>1, StaysUpTo
<1> QED BY <1>5, <1>8

(* What is left of all who are followed from one origin: where they ended. *)
LEMMA EndedFacts ==
  ASSUME NEW net, Followable(net), NEW s, NEW people \in Nat
  PROVE  LET ended == Followed(net, s, people).ended
         IN  /\ ended \in [EnabledNodes(net.graph) -> Int]
             /\ \A n \in EnabledNodes(net.graph) : ended[n] # 0 => n \in Reach(net, s)
             /\ Counted(net) =>
                  /\ \A n \in EnabledNodes(net.graph) : ended[n] \in Nat
                  /\ SumFunctionOnSet(ended, EnabledNodes(net.graph)) <= people
<1> DEFINE st == Followed(net, s, people)
           N  == EnabledNodes(net.graph)
<1>1. st \in OnTheirWay(net, s, people)
  BY FollowedFacts
<1>2. /\ st.on \in Crowds(net) /\ st.ended \in [N -> Int]
      /\ \A n \in N : st.ended[n] # 0 => n \in Reach(net, s)
      /\ Counted(net) =>
           /\ \A arc \in DOMAIN st.on : st.on[arc] \in Nat
           /\ \A n \in N : st.ended[n] \in Nat
           /\ SumFunctionOnSet(st.on, DOMAIN st.on) + SumFunctionOnSet(st.ended, N) <= people
  <2> HIDE DEF st
  <2> QED BY <1>1 DEF OnTheirWay
<1>3. ASSUME Counted(net) PROVE SumFunctionOnSet(st.ended, N) <= people
  <2> HIDE DEF st
  <2>1. IsFiniteSet(N) /\ IsFiniteSet(DOMAIN st.on)
    BY <1>2, CrowdFacts, FS_Subset DEF Followable, ArcFlows
  <2>2. SumFunctionOnSet(st.on, DOMAIN st.on) \in Nat /\ SumFunctionOnSet(st.ended, N) \in Nat
    <3> HIDE DEF N
    <3> QED BY <1>2, <1>3, <2>1, SumIsNat
  <2> QED BY <1>2, <1>3, <2>2
<1> HIDE DEF st
<1> QED BY <1>2, <1>3 DEF st

-----------------------------------------------------------------------------
(* Pairs of origins and destinations *)

\* k is what is left of m when some of its pairs are dropped.
LeftOf(k, m) == DOMAIN k \subseteq DOMAIN m /\ \A p \in DOMAIN k : k[p] = m[p]

\* Nobody takes the place of a pair that is dropped.
LEMMA LeftFacts ==
  ASSUME NEW m, IsFiniteSet(DOMAIN m), \A p \in DOMAIN m : m[p] \in Nat, NEW k, LeftOf(k, m)
  PROVE  /\ IsFiniteSet(DOMAIN k) /\ \A p \in DOMAIN k : k[p] \in Nat
         /\ \A i, x : SumOver(k, Line(k, i, x)) <= SumOver(m, Line(m, i, x))
<1>1. IsFiniteSet(DOMAIN k) /\ \A p \in DOMAIN k : k[p] \in Nat
  BY FS_Subset DEF LeftOf
<1>2. ASSUME NEW i, NEW x PROVE SumOver(k, Line(k, i, x)) <= SumOver(m, Line(m, i, x))
  <2> DEFINE K == Line(k, i, x)
             M == Line(m, i, x)
  <2>1. K \in SUBSET M /\ K \in SUBSET DOMAIN k /\ M \in SUBSET DOMAIN m
    BY DEF Line, LeftOf
  <2>2. IsFiniteSet(K) /\ IsFiniteSet(M)
    BY <1>1, <2>1, FS_Subset
  <2> HIDE DEF K, M
  <2>3. (\A p \in K : k[p] = m[p]) /\ Integral(m, K) /\ \A p \in M : m[p] \in Nat
    BY <2>1 DEF LeftOf, Integral
  <2>4. SumFunctionOnSet(k, K) = SumFunctionOnSet(m, K)
    BY <2>2, <2>3, SumOfSame
  <2>5. SumFunctionOnSet(m, K) <= SumFunctionOnSet(m, M)
    BY <2>1, <2>2, <2>3, SumOfSome
  <2> QED BY <2>4, <2>5 DEF SumOver, K, M
<1> QED BY <1>1, <1>2

LEMMA TripsFacts ==
  ASSUME NEW S, IsFiniteSet(S), NEW N, IsFiniteSet(N),
         NEW ended, DOMAIN ended = S, \A s \in S : ended[s] \in [N -> Int]
  PROVE  LET m == Trips(ended)
         IN  /\ DOMAIN m \subseteq S \X N /\ IsFiniteSet(DOMAIN m)
             /\ \A p \in DOMAIN m : /\ p[1] # p[2] /\ ended[p[1]][p[2]] # 0
                                    /\ m[p] \in Nat
             /\ \A s \in S : (\A n \in N : ended[s][n] \in Nat) =>
                  SumOver(m, RowOf(m, s)) <= SumFunctionOnSet(ended[s], N)
<1> DEFINE all   == UNION {{s} \X DOMAIN ended[s] : s \in DOMAIN ended}
           pairs == {p \in all : p[1] # p[2] /\ ended[p[1]][p[2]] > 0}
           m     == Trips(ended)
<1>1. m = [p \in pairs |-> ended[p[1]][p[2]]]
  BY DEF Trips
<1>2. all \subseteq S \X N
  <2>1. \A s \in DOMAIN ended : s \in S /\ DOMAIN ended[s] = N
    OBVIOUS
  <2>2. \A s \in DOMAIN ended : {s} \X DOMAIN ended[s] \subseteq S \X N
    BY <2>1
  <2> QED BY <2>2
<1>3. pairs \subseteq S \X N /\ IsFiniteSet(pairs)
  <2>1. IsFiniteSet(S \X N)
    BY FS_Product
  <2>2. pairs \subseteq S \X N
    <3> HIDE DEF all
    <3> QED BY <1>2
  <2> HIDE DEF pairs
  <2> QED BY <2>1, <2>2, FS_Subset
<1>4. \A p \in pairs : p[1] # p[2] /\ ended[p[1]][p[2]] > 0 /\ ended[p[1]][p[2]] \in Int
  <2>1. \A p \in pairs : p[1] # p[2] /\ ended[p[1]][p[2]] > 0
    <3> HIDE DEF all
    <3> QED OBVIOUS
  <2>2. \A p \in pairs : p[1] \in S /\ p[2] \in N
    <3> HIDE DEF pairs
    <3> QED BY <1>3
  <2> HIDE DEF pairs
  <2> QED BY <2>1, <2>2
<1>5. DOMAIN m = pairs /\ \A p \in pairs : m[p] = ended[p[1]][p[2]]
  <2> HIDE DEF m, pairs
  <2> QED BY <1>1
<1>6. ASSUME NEW s \in S, \A n \in N : ended[s][n] \in Nat
      PROVE  SumOver(m, RowOf(m, s)) <= SumFunctionOnSet(ended[s], N)
  <2> DEFINE R    == RowOf(m, s)
             h    == ended[s]
             full == [p \in {s} \X N |-> h[p[2]]]
             Q    == {s} \X N
  <2>1. R \in SUBSET Q /\ R \in SUBSET pairs /\ \A p \in R : p[1] = s
    <3>1. R = {p \in pairs : p[1] = s}
      <4> HIDE DEF m, pairs
      <4> QED BY <1>5 DEF RowOf, Line
    <3> HIDE DEF pairs, R
    <3> QED BY <1>3, <3>1
  <2>2. IsFiniteSet(Q)
    BY FS_Singleton, FS_Product
  <2>3. (\A p \in Q : full[p] = h[p[2]] /\ full[p] \in Nat) /\ (\A n \in N : full[<<s, n>>] = h[n])
    BY <1>6
  <2>4. \A p \in R : m[p] = full[p]
    <3> HIDE DEF m, R, full, pairs
    <3> QED BY <1>5, <2>1, <2>3
  <2>5. Integral(full, R) /\ IsFiniteSet(R) /\ Integral(h, N)
    <3> HIDE DEF full, R, Q
    <3> QED BY <1>6, <2>1, <2>2, <2>3, FS_Subset DEF Integral, h
  <2> HIDE DEF m, R, full, h
  <2>6. SumFunctionOnSet(m, R) = SumFunctionOnSet(full, R)
    BY <2>4, <2>5, SumOfSame
  <2>7. SumFunctionOnSet(full, R) <= SumFunctionOnSet(full, Q)
    <3> HIDE DEF Q
    <3> QED BY <2>1, <2>2, <2>3, SumOfSome
  <2>8. SumFunctionOnSet(full, Q) = SumFunctionOnSet(h, N)
    <3>1. Integral(h, N)
      BY <2>5
    <3>2. IsRowOf(h, full, s, N)
      BY <2>3 DEF IsRowOf
    <3> QED BY <3>1, <3>2, SumOfRow
  <2>9. SumFunctionOnSet(m, R) <= SumFunctionOnSet(h, N)
    <3> HIDE DEF Q
    <3> QED BY <2>6, <2>7, <2>8
  <2> QED BY <2>9 DEF SumOver, h, R
<1> HIDE DEF m, pairs
<1>7. \A p \in DOMAIN m : p[1] # p[2] /\ ended[p[1]][p[2]] # 0 /\ m[p] \in Nat
  BY <1>4, <1>5
<1> QED BY <1>3, <1>5, <1>6, <1>7 DEF m

(* People who are followed end where the flows lead from where they started, *)
(* and no more of them than started there.                                    *)
LEMMA ForwardFacts ==
  ASSUME NEW net, Followable(net), NEW production, IsFiniteSet(DOMAIN production),
         \A s \in DOMAIN production : production[s] \in Nat
  PROVE  LET m == ForwardPairs(net, production)
         IN  /\ DOMAIN m \subseteq (DOMAIN production) \X EnabledNodes(net.graph)
             /\ IsFiniteSet(DOMAIN m)
             /\ \A p \in DOMAIN m : p[1] # p[2] /\ p[2] \in Reach(net, p[1]) /\ m[p] \in Nat
             /\ Counted(net) =>
                  \A s \in DOMAIN production : SumOver(m, RowOf(m, s)) <= production[s]
<1> DEFINE S     == DOMAIN production
           N     == EnabledNodes(net.graph)
           E(s)  == Followed(net, s, production[s]).ended
           ended == [s \in S |-> E(s)]
           m     == ForwardPairs(net, production)
<1>1. m = Trips(ended)
  BY TableIsSame DEF ForwardPairs
<1>2. IsFiniteSet(N)
  BY DEF Followable
<1>3. \A s \in S : /\ E(s) \in [N -> Int] /\ \A n \in N : E(s)[n] # 0 => n \in Reach(net, s)
                   /\ Counted(net) => /\ \A n \in N : E(s)[n] \in Nat
                                      /\ SumFunctionOnSet(E(s), N) <= production[s]
  BY EndedFacts
<1>4. DOMAIN ended = S /\ \A s \in S : ended[s] = E(s)
  <2> HIDE DEF E
  <2> QED OBVIOUS
<1> HIDE DEF E, ended, N, m
<1>5. \A s \in S : ended[s] \in [N -> Int]
  BY <1>3, <1>4
<1>6. /\ DOMAIN m \subseteq S \X N /\ IsFiniteSet(DOMAIN m)
      /\ \A p \in DOMAIN m : p[1] # p[2] /\ ended[p[1]][p[2]] # 0 /\ m[p] \in Nat
      /\ \A s \in S : (\A n \in N : ended[s][n] \in Nat) =>
           SumOver(m, RowOf(m, s)) <= SumFunctionOnSet(ended[s], N)
  BY <1>1, <1>2, <1>4, <1>5, TripsFacts
<1>7. \A p \in DOMAIN m : p[2] \in Reach(net, p[1])
  <2>1. \A p \in DOMAIN m : p[1] \in S /\ p[2] \in N
    BY <1>6
  <2> QED BY <1>3, <1>4, <1>6, <2>1
<1>8. ASSUME Counted(net), NEW s \in S PROVE SumOver(m, RowOf(m, s)) <= production[s]
  <2>1. ended[s] = E(s) /\ (\A n \in N : ended[s][n] \in Nat)
        /\ SumFunctionOnSet(ended[s], N) <= production[s]
    BY <1>3, <1>4, <1>8
  <2> DEFINE x == SumFunctionOnSet(ended[s], N)
             R == RowOf(m, s)
             y == SumOver(m, R)
  <2>2. x \in Nat
    <3> DEFINE h == ended[s]
    <3>1. \A n \in N : h[n] \in Nat
      BY <2>1
    <3> HIDE DEF h
    <3> QED BY <1>2, <3>1, SumIsNat DEF h
  <2>3. y \in Nat
    <3>1. IsFiniteSet(R) /\ \A p \in R : m[p] \in Nat
      <4>1. R \subseteq DOMAIN m
        BY DEF RowOf, Line
      <4> HIDE DEF R
      <4> QED BY <1>6, <4>1, FS_Subset
    <3> HIDE DEF R
    <3> QED BY <3>1, SumIsNat DEF SumOver
  <2>4. y <= x /\ x <= production[s] /\ production[s] \in Nat
    BY <1>6, <2>1
  <2>5. y <= production[s]
    <3> HIDE DEF x, y
    <3> QED BY <2>2, <2>3, <2>4
  <2> QED BY <2>5
<1> QED BY <1>6, <1>7, <1>8 DEF m, N

-----------------------------------------------------------------------------
(* Where people start and end *)

\* Numbers of people at finitely many nodes.
Headcount(f, nodes) ==
  /\ DOMAIN f \subseteq nodes /\ IsFiniteSet(DOMAIN f)
  /\ \A n \in DOMAIN f : f[n] \in Nat

LEMMA PositiveFacts ==
  ASSUME NEW S, IsFiniteSet(S), NEW f \in [S -> Int]
  PROVE  Headcount(Positive(f), S)
<1> DEFINE some == {k \in S : f[k] > 0}
<1>1. some \subseteq S /\ \A k \in some : f[k] \in Nat
  OBVIOUS
<1>2. Positive(f) = [k \in some |-> f[k]]
  <2>1. DOMAIN f = S
    OBVIOUS
  <2> QED BY <2>1, TableIsSame DEF Positive
<1>3. IsFiniteSet(some)
  <2> HIDE DEF some
  <2> QED BY <1>1, FS_Subset
<1> HIDE DEF some
<1> QED BY <1>1, <1>2, <1>3 DEF Headcount

LEMMA OriginFacts ==
  ASSUME NEW g, NEW obs, NEW isOpen, NEW hasFlow, NEW demand, IsFiniteSet(DOMAIN demand),
         \A n \in DOMAIN demand : demand[n].production \in Int
  PROVE  Headcount(OriginsOf(g, obs, demand, isOpen, hasFlow), DOMAIN demand)
<1> DEFINE S        == DOMAIN demand
           f        == [n \in S |-> demand[n].production]
           produced == Positive(f)
           made     == OriginsOf(g, obs, demand, isOpen, hasFlow)
<1>1. f \in [S -> Int]
  OBVIOUS
<1>2. Headcount(produced, S)
  <2> HIDE DEF f, S
  <2> QED BY <1>1, PositiveFacts DEF S
<1>3. made = produced \/ \E starts \in SUBSET DOMAIN produced : made = [n \in starts |-> produced[n]]
  <2> DEFINE changes(n) == {i \in DOMAIN obs.occupancies : /\ obs.occupancies[i].flag # "INVALID"
                                                           /\ obs.occupancies[i].node = n
                                                           /\ obs.occupancies[i].delta # {}}
             Empties(n) == changes(n) # {} /\ \E d \in obs.occupancies[Max(changes(n))].delta : d < 0
             starts == {n \in DOMAIN produced :
                          \/ g.node[n].kind = "GOAL"
                          \/ isOpen /\ n \in EntryNodes(g)
                          \/ Empties(n) /\ (isOpen => g.node[n].kind = "GOAL_TRANSIT_MIXED")}
  <2>1. made = IF ~hasFlow \/ (starts = {} /\ ~isOpen) THEN produced
               ELSE [n \in starts |-> produced[n]]
    BY TableIsSame DEF OriginsOf
  <2>2. starts \in SUBSET DOMAIN produced
    OBVIOUS
  <2> HIDE DEF starts, produced, made
  <2> QED BY <2>1, <2>2
<1> HIDE DEF made, produced, f
<1>4. CASE made = produced
  BY <1>2, <1>4 DEF made
<1>5. ASSUME NEW starts \in SUBSET DOMAIN produced, made = [n \in starts |-> produced[n]]
      PROVE  Headcount(made, S)
  <2>1. IsFiniteSet(starts)
    BY <1>2, FS_Subset DEF Headcount
  <2> QED BY <1>2, <1>5, <2>1 DEF Headcount
<1> QED BY <1>3, <1>4, <1>5 DEF made

LEMMA DestinationFacts ==
  ASSUME NEW g, NEW isOpen, NEW hasFlow, NEW demand, IsFiniteSet(DOMAIN demand),
         \A n \in DOMAIN demand : /\ demand[n].in \in Int /\ demand[n].out \in Int
                                  /\ demand[n].absorption \in Int
  PROVE  Headcount(DestinationsOf(g, demand, isOpen, hasFlow), DOMAIN demand)
<1> DEFINE S       == DOMAIN demand
           more(n) == Max({demand[n].absorption, AtLeastZero(demand[n].in - demand[n].out)})
           ends(n) == IF isOpen /\ hasFlow /\ n \in ExitNodes(g) THEN more(n)
                      ELSE demand[n].absorption
           f       == [n \in S |-> ends(n)]
<1>1. \A n \in S : more(n) \in Int
  <2> SUFFICES ASSUME NEW n \in S PROVE more(n) \in Int
    OBVIOUS
  <2> DEFINE a == demand[n].absorption
             b == AtLeastZero(demand[n].in - demand[n].out)
  <2>1. a \in Int /\ b \in Int
    BY DEF AtLeastZero
  <2> HIDE DEF a, b
  <2> DEFINE both == {a, b}
  <2>2. both \in SUBSET Int /\ both # {} /\ IsFiniteSet(both)
    BY <2>1, PairIsFinite
  <2>3. Max(both) \in both
    <3> HIDE DEF both
    <3> QED BY <2>2, MaxFacts
  <2> QED BY <2>2, <2>3 DEF a, b
<1>2. f \in [S -> Int]
  <2> HIDE DEF more
  <2> QED BY <1>1
<1>3. DestinationsOf(g, demand, isOpen, hasFlow) = Positive(f)
  BY DEF DestinationsOf
<1> HIDE DEF f, S
<1> QED BY <1>2, <1>3, PositiveFacts DEF S

LEMMA EqualizedFacts ==
  ASSUME NEW g, NEW nodes, NEW production, Headcount(production, nodes),
         NEW absorption, Headcount(absorption, nodes), NEW f \in {production, absorption}
  PROVE  DOMAIN Equalized(g, production, absorption, f) = DOMAIN f
         /\ Headcount(Equalized(g, production, absorption, f), nodes)
<1> DEFINE SumIn(n, h) == SumFunctionOnSet(h, DOMAIN h \cap Component(g, n))
           mean(n)     == IF SumIn(n, production) = 0 \/ SumIn(n, absorption) = 0 THEN f[n]
                          ELSE Part(f[n], SumIn(n, production) + SumIn(n, absorption),
                                    2 * SumIn(n, f))
           new         == Equalized(g, production, absorption, f)
<1>1. new = [n \in DOMAIN f |-> mean(n)]
  BY TableIsSame DEF Equalized
<1>2. ASSUME NEW h, Headcount(h, nodes), NEW n PROVE SumIn(n, h) \in Nat
  <2> DEFINE S == DOMAIN h \cap Component(g, n)
  <2>1. S \in SUBSET DOMAIN h
    OBVIOUS
  <2>2. IsFiniteSet(S) /\ \A x \in S : h[x] \in Nat
    <3> HIDE DEF S
    <3> QED BY <1>2, <2>1, FS_Subset DEF Headcount
  <2> HIDE DEF S
  <2> QED BY <2>2, SumIsNat DEF S
<1>3. Headcount(f, nodes)
  OBVIOUS
<1>4. ASSUME NEW n \in DOMAIN f PROVE mean(n) \in Nat
  <2> DEFINE x == f[n]
             a == SumIn(n, production)
             b == SumIn(n, absorption)
             c == SumIn(n, f)
  <2>1. a \in Nat /\ b \in Nat /\ (c = a \/ c = b) /\ x \in Nat
    <3>1. x \in Nat
      BY <1>3 DEF Headcount
    <3> HIDE DEF x
    <3> QED BY <1>2, <3>1
  <2> HIDE DEF a, b, c, x
  <2>2. a # 0 /\ b # 0 => Part(x, a + b, 2 * c) \in Nat
    <3> SUFFICES ASSUME a # 0, b # 0 PROVE Part(x, a + b, 2 * c) \in Nat
      OBVIOUS
    <3> DEFINE y == a + b
               z == 2 * c
    <3>1. y \in Nat /\ z \in Nat /\ z > 0
      BY <2>1
    <3> HIDE DEF y, z
    <3>2. x * y \in Nat
      BY <2>1, <3>1, ProductIsNat
    <3> DEFINE p == x * y
    <3>3. p \div z \in Nat
      <4> HIDE DEF p
      <4> QED BY <3>1, <3>2, Quotient DEF p
    <3>4. Part(x, y, z) \in Nat
      BY <3>3 DEF Part
    <3> QED BY <3>4 DEF y, z
  <2>3. mean(n) = IF a = 0 \/ b = 0 THEN x ELSE Part(x, a + b, 2 * c)
    BY DEF a, b, c, x
  <2> HIDE DEF mean
  <2> QED BY <2>1, <2>2, <2>3
<1> HIDE DEF mean, new
<1>5. DOMAIN new = DOMAIN f /\ \A n \in DOMAIN f : new[n] \in Nat
  BY <1>1, <1>4
<1> QED BY <1>3, <1>5 DEF Headcount, new

-----------------------------------------------------------------------------
(* The matrix *)

LEMMA LeftFits ==
  ASSUME NEW m, IsFiniteSet(DOMAIN m), \A p \in DOMAIN m : m[p] \in Nat, NEW k, LeftOf(k, m),
         NEW i, NEW x, NEW bound \in Int, SumOver(m, Line(m, i, x)) <= bound
  PROVE  SumOver(k, Line(k, i, x)) <= bound
<1> DEFINE sum(f) == SumOver(f, Line(f, i, x))
<1>1. sum(k) <= sum(m) /\ sum(m) <= bound
  BY LeftFacts
<1>2. ASSUME NEW f, IsFiniteSet(DOMAIN f), \A p \in DOMAIN f : f[p] \in Nat
      PROVE  sum(f) \in Nat
  <2> DEFINE S == Line(f, i, x)
  <2>1. S \subseteq DOMAIN f
    BY DEF Line
  <2>2. IsFiniteSet(S) /\ \A p \in S : f[p] \in Nat
    <3> HIDE DEF S
    <3> QED BY <1>2, <2>1, FS_Subset
  <2> HIDE DEF S
  <2> QED BY <2>2, SumIsNat DEF SumOver, S
<1>3. sum(k) \in Nat /\ sum(m) \in Nat
  <2> HIDE DEF sum
  <2> QED BY <1>2, LeftFacts
<1>4. sum(k) <= bound
  <2> HIDE DEF sum
  <2> QED BY <1>1, <1>3
<1> QED BY <1>4

LEMMA CutFacts ==
  ASSUME NEW pairs, NEW cfg
  PROVE  LeftOf(CutSmall(pairs, cfg), pairs)
<1> DEFINE kept == {q \in DOMAIN pairs : 100 * pairs[q] > cfg.cutPercent * Total(pairs)}
           cut  == CutSmall(pairs, cfg)
<1>1. cut = [p \in kept |-> pairs[p]]
  BY TableIsSame DEF CutSmall
<1>2. kept \subseteq DOMAIN pairs
  OBVIOUS
<1> HIDE DEF kept, cut
<1> QED BY <1>1, <1>2 DEF LeftOf, cut

BetweenGates(g, p, isOpen) == isOpen /\ p[1] \in BoundaryNodes(g) /\ p[2] \in BoundaryNodes(g)

LEMMA GateFacts ==
  ASSUME NEW g, NEW pairs, NEW isOpen
  PROVE  LET w == WithoutGateToGate(g, pairs, isOpen)
         IN  LeftOf(w, pairs) /\ \A p \in DOMAIN w : ~BetweenGates(g, p, isOpen)
<1> DEFINE w    == WithoutGateToGate(g, pairs, isOpen)
           kept == {q \in DOMAIN pairs : q[1] # q[2]
                                          /\ ~(isOpen /\ {q[1], q[2]} \subseteq BoundaryNodes(g))}
<1>1. w = [p \in kept |-> pairs[p]]
  BY DEF WithoutGateToGate
<1>2. kept \subseteq DOMAIN pairs /\ \A p \in kept : ~BetweenGates(g, p, isOpen)
  BY DEF BetweenGates
<1> HIDE DEF kept, w
<1> QED BY <1>1, <1>2 DEF LeftOf, w

\* A matrix between starts and ends in which nobody is invented.
Honest(g, links, isOpen, counted, around, od, starts, ends, balanced) ==
  \A p \in DOMAIN od :
    /\ counted => SumOver(od, RowOf(od, p[1])) <= starts[p[1]]
    /\ counted /\ balanced /\ around => SumOver(od, ColOf(od, p[2])) <= ends[p[2]]
    /\ p[1] # p[2]
    /\ IF balanced THEN p[2] \in Component(g, p[1]) ELSE p[2] \in ReachableFrom(links, {p[1]})
    /\ ~BetweenGates(g, p, isOpen)

LEMMA BalancedIsHonest ==
  ASSUME NEW g, FiniteGraph(g), NEW cfg, Sized(cfg), NEW isOpen, NEW links, NEW counted, NEW nodes,
         NEW starts, Headcount(starts, nodes), NEW ends, Headcount(ends, nodes),
         NEW od, LeftOf(od, Ipf(g, starts, ends, cfg, isOpen))
  PROVE  Honest(g, links, isOpen, counted, cfg.ipfRounds > 0, od, starts, ends, TRUE)
<1> DEFINE Q == Pairs(g, starts, ends, isOpen)
           m == Ipf(g, starts, ends, cfg, isOpen)
<1>1. /\ m \in [Q -> Nat] /\ IsFiniteSet(Q)
      /\ \A p \in Q : SumOver(m, RowOf(m, p[1])) <= starts[p[1]]
      /\ cfg.ipfRounds > 0 => Columns(m, ends)
  BY IpfFacts DEF Headcount
<1>2. \A p \in Q : /\ p[1] # p[2] /\ p[2] \in Component(g, p[1]) /\ ~BetweenGates(g, p, isOpen)
                   /\ p[1] \in DOMAIN starts /\ p[2] \in DOMAIN ends
  BY DEF Pairs, BetweenGates
<1> HIDE DEF Q, m
<1>3. DOMAIN m = Q /\ (\A p \in Q : m[p] \in Nat) /\ DOMAIN od \subseteq Q /\ LeftOf(od, m)
  BY <1>1 DEF LeftOf, m
<1>4. \A p \in Q : starts[p[1]] \in Int /\ ends[p[2]] \in Int
  BY <1>2 DEF Headcount
<1> SUFFICES ASSUME NEW p \in DOMAIN od
             PROVE  /\ SumOver(od, RowOf(od, p[1])) <= starts[p[1]]
                    /\ cfg.ipfRounds > 0 => SumOver(od, ColOf(od, p[2])) <= ends[p[2]]
  BY <1>2, <1>3 DEF Honest
<1>5. SumOver(m, Line(m, 1, p[1])) <= starts[p[1]]
  BY <1>1, <1>3 DEF RowOf
<1>6. SumOver(od, Line(od, 1, p[1])) <= starts[p[1]]
  BY <1>1, <1>3, <1>4, <1>5, LeftFits
<1>7. ASSUME cfg.ipfRounds > 0 PROVE SumOver(od, Line(od, 2, p[2])) <= ends[p[2]]
  <2>1. SumOver(m, Line(m, 2, p[2])) <= ends[p[2]]
    BY <1>1, <1>3, <1>7 DEF Columns, ColOf
  <2> QED BY <1>1, <1>3, <1>4, <2>1, LeftFits
<1> QED BY <1>6, <1>7 DEF RowOf, ColOf

LEMMA FollowedIsHonest ==
  ASSUME NEW net, Followable(net), NEW isOpen, NEW counted, counted => Counted(net), NEW around,
         NEW nodes, NEW starts, Headcount(starts, nodes), NEW ends,
         NEW od, LeftOf(od, WithoutGateToGate(net.graph, ForwardPairs(net, starts), isOpen))
  PROVE  Honest(net.graph, Links(net.graph, DOMAIN net.flows), isOpen, counted, around, od,
                starts, ends, FALSE)
<1> DEFINE m == ForwardPairs(net, starts)
           w == WithoutGateToGate(net.graph, m, isOpen)
           S == DOMAIN starts
<1>1. IsFiniteSet(S) /\ \A s \in S : starts[s] \in Nat
  BY DEF Headcount
<1>2. /\ DOMAIN m \subseteq S \X EnabledNodes(net.graph) /\ IsFiniteSet(DOMAIN m)
      /\ \A p \in DOMAIN m : p[1] # p[2] /\ p[2] \in Reach(net, p[1]) /\ m[p] \in Nat
      /\ Counted(net) => \A s \in S : SumOver(m, RowOf(m, s)) <= starts[s]
  BY <1>1, ForwardFacts
<1>3. LeftOf(w, m) /\ \A p \in DOMAIN w : ~BetweenGates(net.graph, p, isOpen)
  <2> HIDE DEF m
  <2> QED BY GateFacts
<1> HIDE DEF m, w, S
<1>4. LeftOf(od, m) /\ \A p \in DOMAIN od : p \in DOMAIN m /\ p \in DOMAIN w
  BY <1>3 DEF LeftOf, w, m
<1>5. \A p \in DOMAIN m : p[1] \in S
  BY <1>2
<1>6. ASSUME counted, NEW p \in DOMAIN od
      PROVE  SumOver(od, RowOf(od, p[1])) <= starts[p[1]]
  <2>1. p[1] \in S /\ starts[p[1]] \in Int
    BY <1>1, <1>4, <1>5
  <2>2. SumOver(m, Line(m, 1, p[1])) <= starts[p[1]]
    BY <1>2, <1>6, <2>1 DEF RowOf
  <2>3. SumOver(od, Line(od, 1, p[1])) <= starts[p[1]]
    BY <1>2, <1>4, <2>1, <2>2, LeftFits
  <2> QED BY <2>3 DEF RowOf
<1> QED BY <1>2, <1>3, <1>4, <1>6 DEF Honest, Reach

LEMMA MatrixFields ==
  ASSUME NEW g, NEW obs, NEW result, NEW flows, NEW cfg, NEW isOpen, NEW production, NEW absorption,
         NEW follow \in BOOLEAN
  PROVE  LET est   == MatrixBetween(g, obs, result, flows, cfg, isOpen, production, absorption, follow)
             net   == NetOf(g, obs, result.demand, absorption, flows, cfg)
             empty == DOMAIN production = {} \/ DOMAIN absorption = {}
         IN  /\ est.balanced = ~follow
             /\ est.starts \in {production, Equalized(g, production, absorption, production)}
             /\ est.ends \in {absorption, Equalized(g, production, absorption, absorption)}
             /\ empty => est.od = CutSmall(<<>>, cfg)
             /\ ~empty /\ follow =>
                  /\ est.od = CutSmall(WithoutGateToGate(g, ForwardPairs(net, production), isOpen), cfg)
                  /\ est.starts = production
             /\ ~empty /\ ~follow => est.od = CutSmall(Ipf(g, est.starts, est.ends, cfg, isOpen), cfg)
<1> DEFINE est     == MatrixBetween(g, obs, result, flows, cfg, isOpen, production, absorption, follow)
           empty   == DOMAIN production = {} \/ DOMAIN absorption = {}
           settle  == follow \/ isOpen \/ empty
           starts  == IF settle THEN production
                      ELSE Equalized(g, production, absorption, production)
           ends    == IF settle THEN absorption
                      ELSE Equalized(g, production, absorption, absorption)
           net     == NetOf(g, obs, result.demand, absorption, flows, cfg)
           walked  == WithoutGateToGate(g, ForwardPairs(net, production), isOpen)
           fitted  == Ipf(g, starts, ends, cfg, isOpen)
           none    == <<>>
           raw     == CASE empty -> none [] ~empty /\ follow -> walked [] OTHER -> fitted
<1>1. est.od = CutSmall(raw, cfg)
  BY DEF MatrixBetween
<1>2. est.starts = starts /\ est.ends = ends
  BY DEF MatrixBetween
<1>3. est.balanced = ~follow
  BY DEF MatrixBetween
<1>4. fitted = Ipf(g, est.starts, est.ends, cfg, isOpen)
  <2> HIDE DEF est, starts, ends
  <2> QED BY <1>2
<1>5. starts \in {production, Equalized(g, production, absorption, production)}
      /\ ends \in {absorption, Equalized(g, production, absorption, absorption)}
      /\ (follow => starts = production)
  OBVIOUS
<1> HIDE DEF est, starts, ends, walked, fitted
<1>6. (empty => raw = none) /\ (~empty /\ follow => raw = walked) /\ (~empty /\ ~follow => raw = fitted)
  <2> HIDE DEF empty, none
  <2> QED OBVIOUS
<1> HIDE DEF empty, net, raw
<1>7. ~empty /\ follow => est.od = CutSmall(walked, cfg)
  BY <1>1, <1>6
<1>8. ~empty /\ ~follow => est.od = CutSmall(fitted, cfg)
  BY <1>1, <1>6
<1>9. ~empty /\ follow =>
        /\ est.od = CutSmall(WithoutGateToGate(g, ForwardPairs(net, production), isOpen), cfg)
        /\ est.starts = production
  BY <1>2, <1>5, <1>7 DEF walked, net
<1>10. ~empty /\ ~follow => est.od = CutSmall(Ipf(g, est.starts, est.ends, cfg, isOpen), cfg)
  BY <1>4, <1>8
<1>11. est.starts \in {production, Equalized(g, production, absorption, production)}
       /\ est.ends \in {absorption, Equalized(g, production, absorption, absorption)}
  BY <1>2, <1>5
<1>12. empty => est.od = CutSmall(<<>>, cfg)
  BY <1>1, <1>6
<1> QED BY <1>3, <1>12, <1>9, <1>10, <1>11 DEF est, empty, net

LEMMA MatrixIsHonest ==
  ASSUME NEW g, FiniteGraph(g), NEW obs \in Readings, NEW result,
         \A n \in DOMAIN result.demand : result.demand[n].in \in Int,
         NEW flows, ArcFlows(g, flows), NEW cfg, Sized(cfg), NEW isOpen,
         NEW production, Headcount(production, EnabledNodes(g)),
         NEW absorption, Headcount(absorption, EnabledNodes(g)), NEW follow \in BOOLEAN,
         NEW counted, counted => /\ \A arc \in DOMAIN flows : flows[arc] >= 0
                                 /\ NothingNegative(obs)
  PROVE  LET est == MatrixBetween(g, obs, result, flows, cfg, isOpen, production, absorption, follow)
         IN  Honest(g, Links(g, DOMAIN flows), isOpen, counted, cfg.ipfRounds > 0,
                    est.od, est.starts, est.ends, est.balanced)
<1> DEFINE est   == MatrixBetween(g, obs, result, flows, cfg, isOpen, production, absorption, follow)
           net   == NetOf(g, obs, result.demand, absorption, flows, cfg)
           empty == DOMAIN production = {} \/ DOMAIN absorption = {}
           nodes == EnabledNodes(g)
           Ok(x) == Honest(g, Links(g, DOMAIN flows), isOpen, counted, cfg.ipfRounds > 0,
                           est.od, est.starts, est.ends, x)
<1>1. /\ est.balanced = ~follow
      /\ est.starts \in {production, Equalized(g, production, absorption, production)}
      /\ est.ends \in {absorption, Equalized(g, production, absorption, absorption)}
      /\ empty => est.od = CutSmall(<<>>, cfg)
      /\ ~empty /\ follow =>
           /\ est.od = CutSmall(WithoutGateToGate(g, ForwardPairs(net, production), isOpen), cfg)
           /\ est.starts = production
      /\ ~empty /\ ~follow => est.od = CutSmall(Ipf(g, est.starts, est.ends, cfg, isOpen), cfg)
  BY MatrixFields
<1>2. /\ net.graph = g /\ net.obs = obs /\ net.demand = result.demand
      /\ net.absorption = absorption /\ net.flows = flows /\ net.tolerance = cfg.tolerance
  BY DEF NetOf
<1> HIDE DEF est, net
<1>3. Followable(net)
  <2>1. IsFiniteSet(nodes)
    BY GraphFacts
  <2>2. \A n \in DOMAIN absorption : absorption[n] \in Nat
    BY DEF Headcount
  <2>3. cfg.tolerance \in Nat
    BY DEF Sized
  <2> QED BY <1>2, <2>1, <2>2, <2>3 DEF Followable
<1>4. counted => Counted(net)
  BY <1>2 DEF Counted, NothingNegative
<1>5. CASE empty
  <2>1. LeftOf(est.od, <<>>)
    BY <1>1, <1>5, CutFacts
  <2>2. DOMAIN est.od = {}
    <3>1. DOMAIN <<>> = {}
      OBVIOUS
    <3> QED BY <2>1, <3>1 DEF LeftOf
  <2>3. Ok(est.balanced)
    BY <2>2 DEF Honest
  <2> QED BY <2>3 DEF est
<1>6. CASE ~empty /\ follow
  <2> DEFINE walked == WithoutGateToGate(g, ForwardPairs(net, production), isOpen)
  <2>1. LeftOf(est.od, walked) /\ est.starts = production /\ est.balanced = FALSE
    BY <1>1, <1>6, CutFacts
  <2>2. LeftOf(est.od, WithoutGateToGate(net.graph, ForwardPairs(net, production), isOpen))
    BY <1>2, <2>1
  <2>3. Honest(net.graph, Links(net.graph, DOMAIN net.flows), isOpen, counted, cfg.ipfRounds > 0,
               est.od, production, est.ends, FALSE)
    BY <1>3, <1>4, <2>2, FollowedIsHonest
  <2>4. Ok(est.balanced)
    BY <1>2, <2>1, <2>3
  <2> QED BY <2>4 DEF est
<1>7. CASE ~empty /\ ~follow
  <2>1. Headcount(est.starts, nodes) /\ Headcount(est.ends, nodes)
    <3>1. /\ Headcount(Equalized(g, production, absorption, production), nodes)
          /\ Headcount(Equalized(g, production, absorption, absorption), nodes)
      BY EqualizedFacts
    <3> HIDE DEF nodes
    <3> QED BY <1>1, <3>1 DEF nodes
  <2>2. LeftOf(est.od, Ipf(g, est.starts, est.ends, cfg, isOpen)) /\ est.balanced = TRUE
    BY <1>1, <1>7, CutFacts
  <2>3. Ok(TRUE)
    <3> HIDE DEF nodes
    <3> QED BY <2>1, <2>2, BalancedIsHonest
  <2>4. Ok(est.balanced)
    BY <2>2, <2>3
  <2> QED BY <2>4 DEF est
<1> QED BY <1>5, <1>6, <1>7

LEMMA EstimateIsHonest ==
  ASSUME NEW g, NEW obs, Surveyed(g, obs), NEW cfg, Sized(cfg), NEW isOpen
  PROVE  LET est == EstimateOd(g, obs, DemandResult(g, obs, cfg), cfg, isOpen)
         IN  Honest(g, MeasuredLinks(g, obs), isOpen, NothingNegative(obs), cfg.ipfRounds > 0,
                    est.od, est.starts, est.ends, est.balanced)
<1> DEFINE result     == DemandResult(g, obs, cfg)
           flows      == DirectedFlows(g, obs)
           hasFlow    == DOMAIN flows # {}
           production == OriginsOf(g, obs, result.demand, isOpen, hasFlow)
           absorption == DestinationsOf(g, result.demand, isOpen, hasFlow)
           follow     == ForwardOk(g, obs, flows)
           nodes      == EnabledNodes(g)
<1>1. EstimateOd(g, obs, result, cfg, isOpen)
        = MatrixBetween(g, obs, result, flows, cfg, isOpen, production, absorption, follow)
  BY DEF EstimateOd
<1>2. DOMAIN result.demand = nodes /\ IsFiniteSet(nodes)
  BY DemandFields, SurveyFacts
<1>3. \A n \in nodes : /\ result.demand[n].in \in Int /\ result.demand[n].out \in Int
                       /\ result.demand[n].absorption \in Int
                       /\ result.demand[n].production \in Int
  <2> SUFFICES ASSUME NEW n \in nodes
               PROVE  /\ result.demand[n].in \in Int /\ result.demand[n].out \in Int
                      /\ result.demand[n].absorption \in Int
                      /\ result.demand[n].production \in Int
    OBVIOUS
  <2> DEFINE st      == Imputed(g, obs)
             staying == Staying(g, obs, cfg, n, st.in[n], st.out[n])
  <2>1. /\ st.in[n] \in Int /\ st.out[n] \in Int /\ staying \in Int
        /\ result.demand[n].in = st.in[n] /\ result.demand[n].out = st.out[n]
        /\ result.demand[n].absorption = staying
        /\ result.demand[n].production = AtLeastZero(st.out[n] - st.in[n] + staying)
    BY DemandFacts
  <2> HIDE DEF result, staying, st
  <2> QED BY <2>1 DEF AtLeastZero
<1>4. ArcFlows(g, flows) /\ (NothingNegative(obs) => \A arc \in DOMAIN flows : flows[arc] >= 0)
  BY DirectedFacts
<1>5. FiniteGraph(g) /\ obs \in Readings
  BY DEF Surveyed
<1>6. follow \in BOOLEAN
  BY DEF ForwardOk
<1> HIDE DEF result, flows, hasFlow, follow
<1>7. Headcount(production, nodes) /\ Headcount(absorption, nodes)
  <2> HIDE DEF nodes
  <2> QED BY <1>2, <1>3, OriginFacts, DestinationFacts
<1> HIDE DEF production, absorption
<1> DEFINE est == MatrixBetween(g, obs, result, flows, cfg, isOpen, production, absorption, follow)
<1>8. Honest(g, Links(g, DOMAIN flows), isOpen, NothingNegative(obs), cfg.ipfRounds > 0,
             est.od, est.starts, est.ends, est.balanced)
  BY <1>2, <1>3, <1>4, <1>5, <1>6, <1>7, MatrixIsHonest
<1> HIDE DEF est
<1> QED BY <1>1, <1>8 DEF MeasuredLinks, result, flows, est

(* However the matrix of a forecast came about, nobody is invented in it:    *)
(* for every site, whatever was measured there, no matter how many steps     *)
(* people are followed or how often rows and columns are fitted (_ipf,       *)
(* _forward_propagate and their callers, od.py). The bounds on the sums need *)
(* counts that are not negative, and the one on the columns needs a round.   *)
THEOREM MatrixInventsNobody == ForecastSpec => []NobodyIsInvented
<1>1. ForecastInv => NobodyIsInvented
  <2> SUFFICES ASSUME ForecastInv, NEW f \in forecast
               PROVE  Honest(site.graph, MeasuredLinks(site.graph, site.obs), site.isOpen,
                             NothingNegative(site.obs), site.cfg.ipfRounds > 0,
                             f.od, f.starts, f.ends, f.balanced)
    BY DEF NobodyIsInvented, Honest, BetweenGates
  <2> DEFINE est == EstimateOd(site.graph, site.obs,
                               DemandResult(site.graph, site.obs, site.cfg), site.cfg, site.isOpen)
  <2>1. /\ f.od = est.od /\ f.starts = est.starts /\ f.ends = est.ends
        /\ f.balanced = est.balanced
    <3>1. f = Forecast(site.graph, site.obs, site.refs, site.cfg, site.isOpen)
      BY DEF ForecastInv, ForecastOf
    <3> QED BY <3>1, ForecastFields
  <2>2. Surveyed(site.graph, site.obs) /\ Sized(site.cfg)
    BY SiteFacts DEF ForecastInv
  <2>3. Honest(site.graph, MeasuredLinks(site.graph, site.obs), site.isOpen,
               NothingNegative(site.obs), site.cfg.ipfRounds > 0,
               est.od, est.starts, est.ends, est.balanced)
    BY <2>2, EstimateIsHonest
  <2> HIDE DEF est
  <2> QED BY <2>1, <2>3
<1> QED BY <1>1, ForecastInvHolds, PTL
=============================================================================
