------------------------------- MODULE Demand -------------------------------
(* Step A of forecasting (forecasting/demand.py): what the flows measured     *)
(* around a node say of the people who start there, stay there and pass.      *)
(*                                                                            *)
(* g is a graph of FlowGraph whose nodes have a kind; obs.flows,              *)
(* obs.occupancies and obs.turnings are the readings in the order they came,  *)
(* and an optional number is a set with at most one member. People are        *)
(* counted in whole units per minute, and divisions round down.               *)
EXTENDS FlowGraph, Integers, Sequences, SequencesExt

AtLeastZero(x) == IF x > 0 THEN x ELSE 0

\* x scaled by part to whole.
Part(x, part, whole) == (x * part) \div whole

\* The same function: TLC, which has to compare it, computes it once.
Table(f) == CHOOSE t \in {f} : t = f

Total(f) == SumFunctionOnSet(f, DOMAIN f)

VectorEdges(g) == {e \in EnabledEdges(g) : ~g.edge[e].scalar}

\* The readings of directed flow that count, by their places.
UsableFlows(g, obs) ==
  {i \in DOMAIN obs.flows : /\ obs.flows[i].flag # "INVALID"
                            /\ obs.flows[i].edge \in VectorEdges(g)}

Rates(obs) == [i \in DOMAIN obs.flows |-> obs.flows[i].rate]

\* A passage is told apart by the node it is left from: one that leads back to
\* where it starts is the same in both directions.
ArcOf(g, reading) ==
  <<reading.edge, IF Cardinality(Ends(g, reading.edge)) = 1 THEN "A_TO_B" ELSE reading.direction>>

MeasuredArc(g, obs, i) == ArcOf(g, obs.flows[i])

\* The last valid reading of a node's occupancy, as a set; and of its change.
Occupancy(obs, n) ==
  LET valid == {i \in DOMAIN obs.occupancies : /\ obs.occupancies[i].flag # "INVALID"
                                               /\ obs.occupancies[i].node = n}
  IN  IF valid = {} THEN {} ELSE {obs.occupancies[Max(valid)]}

OccupancyDelta(obs, n) == UNION {o.delta : o \in Occupancy(obs, n)}

\* The change of occupancy, 0 when it is not known.
DeltaOrZero(obs, n) ==
  IF OccupancyDelta(obs, n) = {} THEN 0 ELSE CHOOSE d \in OccupancyDelta(obs, n) : TRUE

-----------------------------------------------------------------------------
(* Flows in and out, and the passages nobody measured.                        *)

\* What the readings add up to at each node, and the passages they settle.
Measured(g, obs) ==
  LET usable == UsableFlows(g, obs)
  IN  [out |-> Table([n \in EnabledNodes(g) |-> SumFunctionOnSet(Rates(obs),
                        {i \in usable : From(g, MeasuredArc(g, obs, i)) = n})]),
       in  |-> Table([n \in EnabledNodes(g) |-> SumFunctionOnSet(Rates(obs),
                        {i \in usable : To(g, MeasuredArc(g, obs, i)) = n})]),
       settled |-> {obs.flows[i].edge : i \in usable},
       imputed |-> {}, flows |-> {}, anchors |-> {}]

\* The nodes at which arrivals and departures must balance: whatever stays
\* there is known, and nobody comes or goes unseen.
CanAnchor(g, obs, n) ==
  /\ n \notin BoundaryNodes(g)
  /\ \/ g.node[n].kind = "TRANSIT_ONLY"
     \/ g.node[n].kind = "GOAL_TRANSIT_MIXED" /\ OccupancyDelta(obs, n) # {}

\* Seeded fault: what the node keeps is left out of the balance.
ResidualOfFlows(obs, st, n) == st.in[n] - st.out[n]

\* What is missing at n for the balance: positive when people must leave by
\* the passage that was not measured, negative when they must come by it.
Residual(obs, st, n) == st.in[n] - st.out[n] - DeltaOrZero(obs, n)

Raised(f, n, amount) == [m \in DOMAIN f |-> IF m = n THEN f[m] + amount ELSE f[m]]

\* The balance of n is what passes on its one unmeasured passage.
Settled(st, n, edge, other, residual) ==
  LET amount == IF residual > 0 THEN residual ELSE -residual
      source == IF residual > 0 THEN n ELSE other
      target == IF residual > 0 THEN other ELSE n
  IN  [out |-> Table(Raised(st.out, source, amount)), in |-> Table(Raised(st.in, target, amount)),
       settled |-> st.settled \cup {edge}, imputed |-> st.imputed \cup {edge},
       flows |-> IF residual = 0 THEN st.flows
                 ELSE st.flows \cup {[edge |-> edge, from |-> source, to |-> target,
                                      rate |-> amount]},
       anchors |-> st.anchors \cup {n}]

Unsettled(g, st, n) == {e \in VectorEdges(g) \ st.settled : n \in Ends(g, e)}

OtherEnd(g, e, n) == CHOOSE m \in Ends(g, e) : m # n

\* A node that can anchor and has one passage left unmeasured settles it.
ImputeAt(g, obs, st, n) ==
  LET edge == CHOOSE e \in Unsettled(g, st, n) : TRUE
  IN  IF /\ CanAnchor(g, obs, n)
         /\ Cardinality(Unsettled(g, st, n)) = 1 /\ Cardinality(Ends(g, edge)) = 2
      THEN Settled(st, n, edge, OtherEnd(g, edge, n), Residual(obs, st, n))
      ELSE st

\* Node after node.
ImputedAround(g, obs, st) ==
  LET nodes == Cardinality(EnabledNodes(g))
      At[i \in 0 .. nodes] ==
        IF i = 0 THEN st ELSE ImputeAt(g, obs, At[i - 1], InOrder(EnabledNodes(g))[i])
  IN  At[nodes]

\* Round after round, as many as can settle anything; without a measured flow
\* there is nothing to start from.
Imputed(g, obs) ==
  LET rounds == Cardinality(VectorEdges(g))
      Round[k \in 0 .. rounds] ==
        IF k = 0 THEN Measured(g, obs) ELSE ImputedAround(g, obs, Round[k - 1])
  IN  IF Measured(g, obs).settled = {} THEN Measured(g, obs) ELSE Round[rounds]

-----------------------------------------------------------------------------
(* What stays, starts and passes.                                             *)

\* Little's law for the people above those who pass, where all is known that
\* it takes; the times are in minutes.
ByLittle(obs, cfg, n, in) ==
  {AtLeastZero((l - in * t) \div (d - t)) :
     l \in UNION {o.level : o \in {r \in Occupancy(obs, n) : r.sameSensor}},
     t \in cfg.transit, d \in {x \in cfg.dwell : \A y \in cfg.transit : x > y}}

\* The people whose way ends at n.
Staying(g, obs, cfg, n, in, out) ==
  LET kind  == g.node[n].kind
      delta == DeltaOrZero(obs, n)
  IN  CASE kind = "TRANSIT_ONLY" -> 0
        [] kind = "GOAL" -> in
        [] kind = "GOAL_TRANSIT_MIXED" /\ delta > 0 -> delta
        [] kind = "GOAL_TRANSIT_MIXED" /\ delta <= 0 /\ ByLittle(obs, cfg, n, in) # {} ->
             Max(ByLittle(obs, cfg, n, in))
        [] OTHER -> IF OccupancyDelta(obs, n) # {} THEN 0 ELSE AtLeastZero(in - out)

NodeDemandOf(in, out, staying) ==
  [out |-> out, in |-> in, staying |-> staying, transit |-> in - staying,
   production |-> AtLeastZero(out - in + staying), absorption |-> staying]

DemandFrom(g, obs, cfg, st) ==
  [demand |-> Table([n \in EnabledNodes(g) |->
                NodeDemandOf(st.in[n], st.out[n], Staying(g, obs, cfg, n, st.in[n], st.out[n]))]),
   imputed |-> st.imputed, flows |-> st.flows, anchors |-> st.anchors, settled |-> st.settled]

\* compute_node_demand_result.
DemandResult(g, obs, cfg) == DemandFrom(g, obs, cfg, Imputed(g, obs))
=============================================================================
