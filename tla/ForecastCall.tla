---------------------------- MODULE ForecastCall ----------------------------
(* The figures of a call (service/handler.py, forecasting/forecaster.py):     *)
(* while the clock of CallClock runs, the forecast is made of what was        *)
(* measured at a site, in the second of the steps; the next call begins       *)
(* without one.                                                               *)
(*                                                                            *)
(* Rates are hundredths of a person per minute, shares are percents. The      *)
(* service takes any finite number for either, negative ones too.             *)
EXTENDS CallClock, Forecasting

CONSTANT Sites   \* what a call may be about: [graph, obs, refs, cfg, isOpen]

\* A number that may be missing.
Optional(S) == {m \in SUBSET S : \A x, y \in m : x = y}

Readings ==
  [flows       : Seq([edge : Nat, direction : Directions, rate : Int, flag : STRING]),
   occupancies : Seq([node : Nat, level : Optional(Int), delta : Optional(Int),
                      sameSensor : BOOLEAN, flag : STRING]),
   turnings    : Seq([node : Nat, from : Nat, to : Optional(Nat), percent : Int, flag : STRING])]

\* Nodes and passages are finitely many numbers; how often the fitting goes
\* around may be zero.
ASSUME SitesAssumption ==
  \A s \in Sites :
    /\ IsFiniteSet(DOMAIN s.graph.node) /\ DOMAIN s.graph.node \subseteq Nat
    /\ IsFiniteSet(DOMAIN s.graph.edge) /\ DOMAIN s.graph.edge \subseteq Nat
    /\ s.obs \in Readings
    /\ s.isOpen \in BOOLEAN
    /\ s.cfg.transit \in Optional(Int) /\ s.cfg.dwell \in Optional(Int)
    /\ {s.cfg.tolerance, s.cfg.unit, s.cfg.ipfRounds, s.cfg.cutPercent} \subseteq Nat

VARIABLES
  site,      \* the figures the call is about
  forecast   \* the forecast, as a set of at most one

forecastVars == <<clockVars, site, forecast>>

-----------------------------------------------------------------------------
ForecastInit == ClockInit /\ site \in Sites /\ forecast = {}

ForecastOf(s) == Forecast(s.graph, s.obs, s.refs, s.cfg, s.isOpen)

\* The steps of the cycle; one of them makes the forecast.
CycleStep ==
  /\ \/ DoForecast /\ forecast' = {ForecastOf(site)}
     \/ (DetectNothing \/ Detect \/ Detour \/ GiveBudget \/ Solve) /\ UNCHANGED forecast
  /\ UNCHANGED site

\* The next call about the site: nothing is kept of the last one.
NextCall ==
  /\ stage \in {"received", "optimized", "skipped", "no_trigger"}
  /\ forecast' = {}
  /\ call' = call /\ stage' = "received" /\ now' = 0 /\ grant' = 0
  /\ solver' = [spent |-> 0, found |-> FALSE]
  /\ UNCHANGED site

ForecastNext == CycleStep \/ NextCall

ForecastSpec == ForecastInit /\ [][ForecastNext]_forecastVars

-----------------------------------------------------------------------------
(* Properties.                                                                *)

\* What is counted is not negative. The service does not look.
NothingNegative(obs) ==
  /\ \A i \in DOMAIN obs.flows : obs.flows[i].rate >= 0
  /\ \A i \in DOMAIN obs.turnings : obs.turnings[i].percent >= 0

\* The measured passages from place to place.
MeasuredLinks(g, obs) == Links(g, DOMAIN DirectedFlows(g, obs))

\* However the matrix came about, nobody is invented in it, as long as nothing
\* negative was counted: from every origin go at most the people who start
\* there, and where origins are balanced against destinations at least once
\* around, to every destination come at most those who end there. Nobody
\* travels where there is no way: balanced pairs lie in one part of the site,
\* the others are joined by measured flow; and in an open site no pair joins
\* two gates (the limits of _ipf, _forward_propagate and their callers).
NobodyIsInvented ==
  \A f \in forecast :
    LET Leaving(s) == SumOver(f.od, RowOf(f.od, s))
        Coming(t)  == SumOver(f.od, ColOf(f.od, t))
        gates      == BoundaryNodes(site.graph)
    IN  \A p \in DOMAIN f.od :
          /\ NothingNegative(site.obs) =>
               /\ Leaving(p[1]) <= f.starts[p[1]]
               /\ f.balanced /\ site.cfg.ipfRounds > 0 => Coming(p[2]) <= f.ends[p[2]]
          /\ p[1] # p[2]
          /\ IF f.balanced THEN p[2] \in Component(site.graph, p[1])
             ELSE p[2] \in ReachableFrom(MeasuredLinks(site.graph, site.obs), {p[1]})
          /\ ~(site.isOpen /\ p[1] \in gates /\ p[2] \in gates)

\* When flows that nobody measured are filled in, node after node in rounds,
\* each node that settled a passage is balanced in the end, whatever was
\* filled in elsewhere since: those who come are those who leave and those by
\* whom its occupancy grows, and what starts there against what ends there is
\* what its occupancy loses. Only passages without a reading are filled in.
ImputationBalances ==
  \A f \in forecast :
    /\ \A n \in f.anchors :
         LET at     == f.demand[n]
             growth == DeltaOrZero(site.obs, n)
         IN  /\ at.in = at.out + growth
             /\ site.graph.node[n].kind = "GOAL_TRANSIT_MIXED" =>
                  at.absorption = at.production + growth
    /\ \A e \in f.imputed, i \in DOMAIN site.obs.flows :
         site.obs.flows[i].edge = e => site.obs.flows[i].flag = "INVALID"
=============================================================================
