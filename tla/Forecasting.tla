----------------------------- MODULE Forecasting -----------------------------
(* The forecast of a cycle (forecasting/forecaster.py): demand at the nodes,  *)
(* the matrix, how well the matrix explains the flows it came from            *)
(* (validation.py), and how much flow each passage takes (sensitivity.py).    *)
(* Ratios are in percent.                                                     *)
EXTENDS OdEstimation

-----------------------------------------------------------------------------
(* Step C: the matrix put back onto the passages.                             *)

\* Everything that was measured on each arc; here readings of one arc add up.
ObservedArcFlows(g, obs) ==
  LET usable == UsableFlows(g, obs)
  IN  Table([arc \in {MeasuredArc(g, obs, i) : i \in usable} |->
               SumFunctionOnSet(Rates(obs), {i \in usable : MeasuredArc(g, obs, i) = arc})])

\* The measured flows, with those found by the balance where none was measured.
FlowsToFollow(g, flows, imputed) ==
  LET known == {arc[1] : arc \in DOMAIN flows}
  IN  flows @@ [arc \in {a \in (EnabledEdges(g) \ known) \X Directions :
                           \E f \in imputed : f.edge = a[1] /\ f.from = From(g, a)}
                  |-> (CHOOSE f \in imputed : f.edge = arc[1]).rate]

\* reproduce_link_flows: what the origins of the matrix put on each arc.
Reproduced(g, obs, result, est, cfg) ==
  LET origins == {pair[1] : pair \in DOMAIN est.od}
      sums    == Table([s \in origins |-> SumOver(est.od, RowOf(est.od, s))])
      flows   == FlowsToFollow(g, est.flows, result.flows)
  IN  IF est.od = <<>> THEN <<>>
      ELSE Load(NetOf(g, obs, result.demand, est.absorption, flows, cfg), sums)

Deviation(observed, reproduced, arcs) ==
  LET Back(arc) == IF arc \in DOMAIN reproduced THEN reproduced[arc] ELSE 0
  IN  SumFunctionOnSet([arc \in arcs |-> IF Back(arc) > observed[arc] THEN Back(arc) - observed[arc]
                                          ELSE observed[arc] - Back(arc)], arcs)

ReproductionError(observed, reproduced, hasOd, cfg) ==
  LET total == Total(observed)
  IN  IF total <= 0 THEN IF hasOd THEN 100 ELSE 0
      ELSE Part(100, Deviation(observed, reproduced, DOMAIN observed), total + cfg.epsilon0)

Clamped(percent) == Min({100, AtLeastZero(percent)})

FlagPercent(flag) == CASE flag = "INVALID" -> 0 [] flag = "HOLD" -> 70 [] OTHER -> 100

\* How far the figures at a node can be trusted: how well its arcs are
\* explained, the worst flag around it, and how many passages were measured.
NodeConfidence(g, obs, observed, reproduced, error, cfg, n) ==
  LET around  == {e \in VectorEdges(g) : n \in Ends(g, e)}
      Flags(e) == {obs.flows[i].flag : i \in {j \in DOMAIN obs.flows : obs.flows[j].edge = e}}
      flagged == {e \in around : Flags(e) # {}}
      worst   == Min({100} \cup {FlagPercent(flag) : flag \in UNION {Flags(e) : e \in flagged}})
      arcs    == {arc \in DOMAIN observed : arc[1] \in flagged}
      amount  == SumFunctionOnSet(observed, arcs)
      base    == IF amount > 0
                 THEN Clamped(100 - Part(100, Deviation(observed, reproduced, arcs), amount + cfg.epsilon0))
                 ELSE Clamped(100 - error)
      covered == 50 * (Cardinality(around) + Cardinality(flagged))
  IN  IF around = {} THEN Clamped(100 - error)
      ELSE Part(Part(base, worst, 100), covered, 100 * Cardinality(around))

-----------------------------------------------------------------------------
(* The sensitivity of the passages.                                           *)

\* Where a passage's sensitivity comes from: its history, the first of its
\* tags with a reference of enough samples, or the default.
EtaSource(g, refs, cfg, e) ==
  LET tags == SelectSeq(g.edge[e].tags, LAMBDA tag : tag \in DOMAIN refs /\ refs[tag] >= cfg.minSamples)
  IN  IF g.edge[e].hasEta THEN <<"history">>
      ELSE IF tags # <<>> THEN <<"reference", tags[1]>>
      ELSE <<"fallback">>

\* Which passages had to do with less than their own history.
FallbackUsage(g, refs, cfg) ==
  LET From_(source) == {e \in VectorEdges(g) : EtaSource(g, refs, cfg, e)[1] = source}
  IN  [references |-> From_("reference"), defaults |-> From_("fallback"),
       tags |-> {EtaSource(g, refs, cfg, e)[2] : e \in From_("reference")}]

-----------------------------------------------------------------------------

\* The forecast: demand and matrix, and how well the matrix, put back onto the
\* passages, explains what was observed on them.
Assessed(g, obs, refs, cfg, result, est, observed, reproduced) ==
  LET error == ReproductionError(observed, reproduced, est.od # <<>>, cfg)
  IN  [od |-> est.od, demand |-> result.demand, resolutions |-> est.resolutions,
       imputed |-> result.imputed, imputedFlows |-> result.flows, anchors |-> result.anchors,
       starts |-> est.starts, ends |-> est.ends, balanced |-> est.balanced,
       error |-> error,
       confidence |-> [n \in EnabledNodes(g) |->
                         NodeConfidence(g, obs, observed, reproduced, error, cfg, n)],
       fallback |-> FallbackUsage(g, refs, cfg)]

FromMatrix(g, obs, refs, cfg, result, est) ==
  Assessed(g, obs, refs, cfg, result, est, ObservedArcFlows(g, obs),
           Table(Reproduced(g, obs, result, est, cfg)))

FromDemand(g, obs, refs, cfg, isOpen, result) ==
  FromMatrix(g, obs, refs, cfg, result, EstimateOd(g, obs, result, cfg, isOpen))

\* forecast.
Forecast(g, obs, refs, cfg, isOpen) ==
  FromDemand(g, obs, refs, cfg, isOpen, DemandResult(g, obs, cfg))
=============================================================================
