---------------------------- MODULE OdEstimation ----------------------------
(* Step B of forecasting (forecasting/od.py): how many people go from where   *)
(* to where. Three ways lead to the matrix: following the measured flows      *)
(* when every node is decided by its readings, balancing origins against      *)
(* destinations with a prior that favours near pairs, and that prior alone    *)
(* when no flow was measured at all.                                          *)
EXTENDS Demand

CONSTANT MaxPropagationSteps   \* where the following of people who never arrive ends

ASSUME PropagationAssumption == MaxPropagationSteps \in Nat

-----------------------------------------------------------------------------
(* What the readings decide.                                                  *)

\* The flow on each measured arc; a later reading replaces an earlier one.
DirectedFlows(g, obs) ==
  LET usable == UsableFlows(g, obs)
      Latest(arc) == Max({i \in usable : MeasuredArc(g, obs, i) = arc})
  IN  Table([arc \in {MeasuredArc(g, obs, i) : i \in usable} |-> obs.flows[Latest(arc)].rate])

ArcsInto(g, flows, n) == {arc \in DOMAIN flows : To(g, arc) = n}
ArcsFrom(g, flows, n) == {arc \in DOMAIN flows : From(g, arc) = n}

Carrying(flows, arcs) == {arc \in arcs : flows[arc] > 0}

\* A passage at n was not measured.
MissesObservation(g, flows, n) ==
  \E e \in VectorEdges(g) \ {arc[1] : arc \in DOMAIN flows} : n \in Ends(g, e)

\* One way in or one way out, where staying counts as a way out of a mixed
\* node and as the only one of a goal.
Decidable(g, flows, n) ==
  LET ways == Cardinality(Carrying(flows, ArcsFrom(g, flows, n)))
      exits == CASE g.node[n].kind = "GOAL" -> 1
                 [] g.node[n].kind = "GOAL_TRANSIT_MIXED" -> ways + 1
                 [] OTHER -> ways
  IN  Cardinality(Carrying(flows, ArcsInto(g, flows, n))) <= 1 \/ exits <= 1

\* The valid turning readings between measured arcs, of those who come by arc,
\* by their places; a reading without a passage to go to is of those who stay.
TurningsOf(g, obs, flows, arc) ==
  {i \in DOMAIN obs.turnings :
     LET r == obs.turnings[i]
     IN  /\ r.flag # "INVALID"
         /\ r.node = To(g, arc) /\ r.from = arc[1]
         /\ \A e \in r.to : \E way \in ArcsFrom(g, flows, r.node) : way[1] = e}

Percents(obs) == [i \in DOMAIN obs.turnings |-> obs.turnings[i].percent]

PercentOf(obs, readings) == SumFunctionOnSet(Percents(obs), readings)

\* An undecided node whose turning readings tell of all who come.
TurningsComplete(g, obs, flows, n) ==
  LET entries == Carrying(flows, ArcsInto(g, flows, n))
  IN  /\ ~Decidable(g, flows, n)
      /\ entries # {}
      /\ \A arc \in entries :
           PercentOf(obs, {i \in TurningsOf(g, obs, flows, arc) : Percents(obs)[i] >= 0}) = 100

\* Every node is decided, by its ways or by its turnings.
ForwardOk(g, obs, flows) ==
  /\ DOMAIN flows # {}
  /\ \A n \in EnabledNodes(g) : /\ ~MissesObservation(g, flows, n)
                                /\ Decidable(g, flows, n) \/ TurningsComplete(g, obs, flows, n)

\* By which means a node's share of the matrix came about, and why.
Resolution(g, obs, flows, imputed, n) ==
  [imputed |-> {e \in imputed : n \in Ends(g, e)}]
  @@ (CASE DOMAIN flows = {} -> [mode |-> "DISTANCE_PRIOR", reason |-> "NODE_ONLY"]
       [] DOMAIN flows # {} /\ (ForwardOk(g, obs, flows) \/ TurningsComplete(g, obs, flows, n)) ->
            [mode |-> "TURNING_EXACT", reason |-> "DETERMINED"]
       [] OTHER ->
            [mode |-> "DOUBLY_CONSTRAINED",
             reason |-> IF MissesObservation(g, flows, n) THEN "SPARSE_OBSERVATION"
                        ELSE IF ~Decidable(g, flows, n) THEN "MERGE_SPLIT_AMBIGUOUS"
                        ELSE "DETERMINED"])

-----------------------------------------------------------------------------
(* Origins and destinations.                                                  *)

Positive(f) == Table([k \in {j \in DOMAIN f : f[j] > 0} |-> f[k]])

\* Where people start: at gates, at goals that let people out again, and at
\* nodes whose occupancy falls; in a closed site without any of these,
\* wherever more people leave than come.
OriginsOf(g, obs, demand, isOpen, hasFlow) ==
  LET produced == Positive([n \in DOMAIN demand |-> demand[n].production])
      changes(n) == {i \in DOMAIN obs.occupancies : /\ obs.occupancies[i].flag # "INVALID"
                                                    /\ obs.occupancies[i].node = n
                                                    /\ obs.occupancies[i].delta # {}}
      Empties(n) == changes(n) # {} /\ \E d \in obs.occupancies[Max(changes(n))].delta : d < 0
      starts == {n \in DOMAIN produced :
                   \/ g.node[n].kind = "GOAL"
                   \/ isOpen /\ n \in EntryNodes(g)
                   \/ Empties(n) /\ (isOpen => g.node[n].kind = "GOAL_TRANSIT_MIXED")}
  IN  IF ~hasFlow \/ (starts = {} /\ ~isOpen) THEN produced
      ELSE Table([n \in starts |-> produced[n]])

\* Where people end: where they stay, and at the exits of an open site.
DestinationsOf(g, demand, isOpen, hasFlow) ==
  Positive([n \in DOMAIN demand |->
    IF isOpen /\ hasFlow /\ n \in ExitNodes(g)
    THEN Max({demand[n].absorption, AtLeastZero(demand[n].in - demand[n].out)})
    ELSE demand[n].absorption])

-----------------------------------------------------------------------------
(* Following the measured flows. What people are followed with is a record    *)
(* net of the graph, the readings, the demand at the nodes, the people who    *)
(* end there, the flows and the tolerance.                                    *)

\* Of the people at a node, those who leave by the arc.
Share(net, arc, people) ==
  LET leaving == SumFunctionOnSet(net.flows, ArcsFrom(net.graph, net.flows, From(net.graph, arc)))
  IN  IF leaving > 0 THEN Part(people, net.flows[arc], leaving) ELSE 0

Turnings(net, arc) == TurningsOf(net.graph, net.obs, net.flows, arc)

\* The turning readings tell where all the people on arc go.
Told(net, arc) == Turnings(net, arc) # {} /\ PercentOf(net.obs, Turnings(net, arc)) = 100

\* Of the people on arc, those of whom its readings tell that they go to.
ToldOf(net, arc, to, people) ==
  Part(people, PercentOf(net.obs, {i \in Turnings(net, arc) : net.obs.turnings[i].to = to}), 100)

\* Of the people who come to a node, those who end there, apart from turnings.
Ending(net, arc, people) ==
  LET n == To(net.graph, arc)
  IN  IF n \notin (DOMAIN net.demand) \cap (DOMAIN net.absorption) \/ net.demand[n].in <= 0 THEN 0
      ELSE Part(people, Min({net.absorption[n], net.demand[n].in}), net.demand[n].in)

\* Of the people on arc, those who end where it leads, and those who go on.
EndsThere(net, arc, people) ==
  IF Told(net, arc) THEN ToldOf(net, arc, {}, people) ELSE Ending(net, arc, people)

GoesOn(net, arc, way, people) ==
  LET others == people - Ending(net, arc, people)
  IN  IF Told(net, arc) THEN ToldOf(net, arc, {way[1]}, people)
      ELSE IF others <= net.tolerance THEN 0 ELSE Share(net, way, others)

Arriving(net, on, n) == (DOMAIN on) \cap ArcsInto(net.graph, net.flows, n)

\* One step on: who is on each arc then, and who ends at each node.
Onwards(net, on) ==
  Table([way \in DOMAIN net.flows |->
           LET before == Arriving(net, on, From(net.graph, way))
           IN  SumFunctionOnSet([arc \in before |-> GoesOn(net, arc, way, on[arc])], before)])

Arrived(net, on) ==
  Table([n \in EnabledNodes(net.graph) |->
           SumFunctionOnSet([arc \in Arriving(net, on, n) |-> EndsThere(net, arc, on[arc])],
                            Arriving(net, on, n))])

\* A few people on an arc are not followed any further, and none are when few
\* are on their way at all.
StillOnWay(net, next) ==
  IF Total(next) <= net.tolerance THEN <<>>
  ELSE Table([way \in {w \in DOMAIN next : next[w] > net.tolerance} |-> next[way]])

After(net, st, next) ==
  LET arrived == Arrived(net, st.on)
  IN  IF DOMAIN st.on = {} THEN st
      ELSE [on    |-> StillOnWay(net, next),
            ended |-> Table([n \in DOMAIN st.ended |-> st.ended[n] + arrived[n]]),
            used  |-> Table([way \in DOMAIN st.used |-> st.used[way] + next[way]])]

Departed(net, s, people) ==
  Table([arc \in ArcsFrom(net.graph, net.flows, s) |-> Share(net, arc, people)])

SetOut(net, start) ==
  [on    |-> start,
   ended |-> [n \in EnabledNodes(net.graph) |-> 0],
   used  |-> [arc \in DOMAIN net.flows |-> IF arc \in DOMAIN start THEN start[arc] ELSE 0]]

\* The people who start at s, followed step by step from arc to arc: where
\* they end, and which arcs they use on their way.
Followed(net, s, people) ==
  LET Step[k \in 0 .. MaxPropagationSteps] ==
        IF k = 0 THEN SetOut(net, Departed(net, s, people))
        ELSE After(net, Step[k - 1], Onwards(net, Step[k - 1].on))
  IN  Step[MaxPropagationSteps]

Trips(ended) ==
  [pair \in {p \in UNION {{s} \X DOMAIN ended[s] : s \in DOMAIN ended} :
                p[1] # p[2] /\ ended[p[1]][p[2]] > 0} |-> ended[pair[1]][pair[2]]]

\* The pairs of the people followed from all origins.
ForwardPairs(net, production) ==
  Trips(Table([s \in DOMAIN production |-> Followed(net, s, production[s]).ended]))

\* What the matrix, followed in the same way, puts on each arc.
Load(net, production) ==
  LET by == Table([s \in DOMAIN production |-> Followed(net, s, production[s]).used])
  IN  Table([arc \in DOMAIN net.flows |->
               SumFunctionOnSet([s \in DOMAIN production |-> by[s][arc]], DOMAIN production)])

-----------------------------------------------------------------------------
(* Balancing origins against destinations.                                    *)

\* The undirected neighbours of enabled passages; how many hops away the nodes
\* are that can be reached at all.
Adjacent(g) ==
  UNION {{<<g.edge[e].a, g.edge[e].b>>, <<g.edge[e].b, g.edge[e].a>>} : e \in ActiveEdges(g)}

Within(g, s, hops) ==
  LET links == Adjacent(g)
      Near[h \in 0 .. hops] ==
        IF h = 0 THEN {s}
        ELSE LET nearer == Near[h - 1]
             IN  nearer \cup {l[2] : l \in {k \in links : k[1] \in nearer}}
  IN  Near[hops]

Component(g, n) == Within(g, n, Cardinality(EnabledNodes(g)))

HopDistance(g, s, t) == Min({h \in 0 .. Cardinality(EnabledNodes(g)) : t \in Within(g, s, h)})

\* The pairs people may travel between: never from a gate to a gate.
Pairs(g, production, absorption, isOpen) ==
  {p \in (DOMAIN production) \X (DOMAIN absorption) :
     /\ p[1] # p[2]
     /\ ~(isOpen /\ p[1] \in BoundaryNodes(g) /\ p[2] \in BoundaryNodes(g))
     /\ p[2] \in Component(g, p[1])}

SumOver(matrix, chosen) == SumFunctionOnSet(matrix, chosen)

\* The pairs whose i-th member is n: rows for 1, columns for 2.
Line(matrix, i, n) == {p \in DOMAIN matrix : p[i] = n}
RowOf(matrix, s) == Line(matrix, 1, s)
ColOf(matrix, t) == Line(matrix, 2, t)

\* Scales every row (or column) of a matrix to its total.
ScaledTo(matrix, totals, i) ==
  Table([p \in DOMAIN matrix |->
     LET sum == SumOver(matrix, Line(matrix, i, p[i]))
     IN  IF sum > 0 THEN Part(matrix[p], totals[p[i]], sum) ELSE matrix[p]])

Furthest(old, new) ==
  Max({0} \cup {IF new[p] > old[p] THEN new[p] - old[p] ELSE old[p] - new[p] : p \in DOMAIN old})

\* Seeded fault: the matrix stays as the last scaling of the columns left it.
RowsAsTheyAre(matrix, production) == matrix

\* Rows that exceed their production shrink to it; no row grows, so that what
\* an excluded pair leaves over goes to nobody else.
ShrunkRows(matrix, production) ==
  Table([p \in DOMAIN matrix |->
     LET sum == SumOver(matrix, RowOf(matrix, p[1]))
     IN  IF sum > production[p[1]] THEN Part(matrix[p], production[p[1]], sum) ELSE matrix[p]])

\* A prior that falls with the distance (gravity_alpha = 1).
Prior(g, production, absorption, cfg, isOpen) ==
  Table([p \in Pairs(g, production, absorption, isOpen) |->
           cfg.unit \div (HopDistance(g, p[1], p[2]) + 1)])

\* Rows, then columns; it is done when that changed little.
Balanced(last, production, absorption, cfg) ==
  LET rows == ScaledTo(last.matrix, production, 1)
      cols == ScaledTo(rows, absorption, 2)
  IN  IF last.done THEN last
      ELSE [matrix |-> cols,
            done |-> Max({Furthest(last.matrix, rows), Furthest(rows, cols)}) < cfg.tolerance]

\* _ipf: the prior, scaled to rows and columns in turn.
Ipf(g, production, absorption, cfg, isOpen) ==
  LET Round[k \in 0 .. cfg.ipfRounds] ==
        IF k = 0
        THEN [matrix |-> Prior(g, production, absorption, cfg, isOpen), done |-> FALSE]
        ELSE Balanced(Round[k - 1], production, absorption, cfg)
  IN  ShrunkRows(Round[cfg.ipfRounds].matrix, production)

\* In a closed site the people who start and those who end are brought to the
\* mean of both, component by component.
Equalized(g, production, absorption, f) ==
  Table([n \in DOMAIN f |->
     LET SumIn(h) == SumFunctionOnSet(h, DOMAIN h \cap Component(g, n))
         starts   == SumIn(production)
         ends     == SumIn(absorption)
     IN  IF starts = 0 \/ ends = 0 THEN f[n] ELSE Part(f[n], starts + ends, 2 * SumIn(f))])

-----------------------------------------------------------------------------
(* The matrix.                                                                *)

\* Pairs too small to matter are dropped, and nobody takes their place.
CutSmall(pairs, cfg) ==
  LET all == Total(pairs)
  IN  Table([p \in {q \in DOMAIN pairs : 100 * pairs[q] > cfg.cutPercent * all} |-> pairs[p]])

WithoutGateToGate(g, pairs, isOpen) ==
  [p \in {q \in DOMAIN pairs : q[1] # q[2] /\ ~(isOpen /\ {q[1], q[2]} \subseteq BoundaryNodes(g))}
     |-> pairs[p]]

\* What people are followed with, of a call's graph, readings and settings.
NetOf(g, obs, demand, absorption, flows, cfg) ==
  [graph |-> g, obs |-> obs, demand |-> demand, absorption |-> absorption, flows |-> flows,
   tolerance |-> cfg.tolerance]

\* The matrix between the people who start and those who end; it is balanced
\* unless the flows can be followed.
MatrixBetween(g, obs, result, flows, cfg, isOpen, production, absorption, follow) ==
  LET nobody == DOMAIN production = {} \/ DOMAIN absorption = {}
      settle == follow \/ isOpen \/ nobody
      starts == IF settle THEN production ELSE Equalized(g, production, absorption, production)
      ends   == IF settle THEN absorption ELSE Equalized(g, production, absorption, absorption)
      net    == NetOf(g, obs, result.demand, absorption, flows, cfg)
      pairs  == CASE nobody -> <<>>
                  [] ~nobody /\ follow -> WithoutGateToGate(g, ForwardPairs(net, production), isOpen)
                  [] OTHER -> Ipf(g, starts, ends, cfg, isOpen)
  IN  [od |-> CutSmall(pairs, cfg),
       flows |-> flows, absorption |-> absorption,
       starts |-> starts, ends |-> ends, balanced |-> ~follow,
       resolutions |-> [n \in EnabledNodes(g) |-> Resolution(g, obs, flows, result.imputed, n)]]

\* estimate_od.
EstimateOd(g, obs, result, cfg, isOpen) ==
  LET flows   == DirectedFlows(g, obs)
      hasFlow == DOMAIN flows # {}
  IN  MatrixBetween(g, obs, result, flows, cfg, isOpen,
                    OriginsOf(g, obs, result.demand, isOpen, hasFlow),
                    DestinationsOf(g, result.demand, isOpen, hasFlow), ForwardOk(g, obs, flows))
=============================================================================
