----------------------------- MODULE Assignment -----------------------------
(***************************************************************************)
(* The linear and the integer programs of the optimization                 *)
(* (optimization/model.py) and the numbers they are built from             *)
(* (_build_commodities and _build_inputs of optimization/optimizer.py).    *)
(*                                                                         *)
(* People are counted in whole numbers: a flow is a function from arcs to  *)
(* naturals, found by sending the people of a demand one by one along      *)
(* simple ways.  A program is given by the set of flows it allows and,     *)
(* when the solver ends with an optimum, by the best of them.              *)
(*                                                                         *)
(* A demand is a record [origin, destination, demand].  The inputs inp are *)
(* functions on the passages (nodes) that have the value:                  *)
(*   s, sBar     stagnation now, and the level it is measured against      *)
(*   eta         how much stagnation one person's passage drains           *)
(*   weight      confidence in percent                                     *)
(*   dangerCap, hint, sigma, nodeCap   what limits the flow                *)
(***************************************************************************)
EXTENDS DetourRouting, Integers, Functions, SequencesExt

Or(f, key, default) == IF key \in DOMAIN f THEN f[key] ELSE default
AtLeast0(n) == IF n < 0 THEN 0 ELSE n
Over(amount, limit) == AtLeast0(amount - limit)
The(S) == CHOOSE v \in S : TRUE

-----------------------------------------------------------------------------
(* Inputs                                                                  *)

\* Demands below a share of all demand are dropped, and those that start or
\* end at a disabled node.
BuildCommodities(g, od, cutPercent) ==
  LET all == SumFunction([i \in DOMAIN od |-> od[i].demand])
      Kept(pair) == /\ 100 * pair.demand > cutPercent * all
                    /\ {pair.origin, pair.destination} \subseteq EnabledNodes(g)
      kept == InOrder({i \in DOMAIN od : Kept(od[i])})
  IN  [k \in DOMAIN kept |-> od[kept[k]]]

OdPairs(coms) == {<<coms[i].origin, coms[i].destination>> : i \in DOMAIN coms}

\* obs.stagnation and obs.scalar are on passages, obs.line on arcs; each
\* value is [value, valid].
ValidOn(g, reading) == {e \in DOMAIN reading \cap ActiveEdges(g) : reading[e].valid}

LineFlow(g, line) ==
  LET good == {arc \in DOMAIN line \cap Arcs(g) : line[arc].valid}
  IN  [e \in {arc[1] : arc \in good} |->
         SumFunction([arc \in good \cap ArcsOf(e) |-> line[arc].value])]

BuildInputs(g, obs, fc, baseline, cfg) ==
  LET active   == ActiveEdges(g)
      stagnant == ValidOn(g, obs.stagnation)
      Confidence(e) == Min({Or(fc.confidence, n, 100) : n \in Ends(g, e)})
      hinted   == {e \in active : g.edge[e].hint # {}}
      capped   == {e \in active : g.edge[e].danger /\ g.edge[e].dangerCap # {}}
      nodes    == {n \in EnabledNodes(g) : g.node[n].danger /\ g.node[n].dangerCap # {}}
  IN  [s         |-> [e \in stagnant |-> obs.stagnation[e].value],
       sBar      |-> [e \in stagnant |-> Or(baseline, e, obs.stagnation[e].value)],
       v         |-> LineFlow(g, obs.line),
       sigma     |-> [e \in ValidOn(g, obs.scalar) |-> obs.scalar[e].value],
       eta       |-> fc.eta,
       weight    |-> [e \in active |-> Max({cfg.confidenceFloor, Confidence(e)})],
       hint      |-> [e \in hinted |-> The(g.edge[e].hint)],
       dangerCap |-> [e \in capped |-> The(g.edge[e].dangerCap)],
       nodeCap   |-> [n \in nodes |-> The(g.node[n].dangerCap)],
       scalar    |-> {e \in active : g.edge[e].scalar}]

-----------------------------------------------------------------------------
(* Residual stagnation                                                     *)

\* EpsilonZero stands for the code's small constant against division by 0.
EpsilonZero == 1

Residual(inp, e, through) == AtLeast0(inp.s[e] - Or(inp.eta, e, 0) * through)

\* A residual relative to the usual level, in percent of confidence.
Stress(inp, e, amount) ==
  (Or(inp.weight, e, 100) * amount) \div (Or(inp.sBar, e, 0) + EpsilonZero)

EdgeFlow(flow, e) == SumFunctionOnSet(flow, ArcsOf(e) \cap DOMAIN flow)

ResidualTau(g, inp, drainable, flow) ==
  LET counted == drainable \cap DOMAIN inp.s \cap ActiveEdges(g)
  IN  Max({0} \cup {Stress(inp, e, Residual(inp, e, EdgeFlow(flow, e))) : e \in counted})

-----------------------------------------------------------------------------
(* Flows                                                                   *)

NoFlow(arcs) == [arc \in arcs |-> 0]
Plus(f1, f2) == [arc \in DOMAIN f1 |-> f1[arc] + f2[arc]]
TotalFlow(flow) == SumFunction(flow)
Carrying(flow) == {arc \in DOMAIN flow : flow[arc] > 0}

Leaving(g, arcs, flow, n)  == SumFunctionOnSet(flow, {arc \in arcs : From(g, arc) = n})
Entering(g, arcs, flow, n) == SumFunctionOnSet(flow, {arc \in arcs : To(g, arc) = n})

\* The conservation constraints: a flow along arcs takes away what is supplied
\* (positive) and brings what is asked for (negative).
Conserves(g, arcs, flow, supply) ==
  \A n \in DOMAIN supply :
    Leaving(g, arcs, flow, n) - Entering(g, arcs, flow, n) = supply[n]

Along(flow, way) ==
  [arc \in DOMAIN flow |-> IF arc \in ToSet(way) THEN flow[arc] + 1 ELSE flow[arc]]

Acyclic(g, arcs) ==
  \A arc \in arcs : From(g, arc) \notin ReachableFrom(Links(g, arcs), {To(g, arc)})

\* Sending people one by one along simple ways finds every flow that has no
\* cycle and conserves people.
SentOneByOne(g, arcs, supply) ==
  LET Short(left) == {n \in DOMAIN left : left[n] < 0}
      Long(left)  == {n \in DOMAIN left : left[n] > 0}
      ways  == [p \in Long(supply) \X Short(supply) |-> SimpleWays(g, arcs, p[1], p[2])]
      Settled(left, u, v) ==
        [n \in DOMAIN left |-> CASE n = u -> left[n] - 1 [] n = v -> left[n] + 1
                                 [] OTHER -> left[n]]
      Moved(r, u, v) ==
        {[flow |-> Along(r.flow, way), left |-> Settled(r.left, u, v)] : way \in ways[u, v]}
      Send(r) == LET u == Min(Long(r.left))
                 IN  UNION {Moved(r, u, v) : v \in Short(r.left)}
      people == SumFunctionOnSet(supply, Long(supply))
      wanted == -SumFunctionOnSet(supply, Short(supply))
      Sent[k \in Nat] == IF k = 0 THEN {[flow |-> NoFlow(arcs), left |-> supply]}
                         ELSE UNION {Send(r) : r \in Sent[k - 1]}
  IN  IF people # wanted THEN {} ELSE {r.flow : r \in Sent[people]}

\* The flows a program may choose from.  Cycles never pay (every arc costs)
\* and the integer program forbids them.
Routings(g, arcs, supply) ==
  {f \in SentOneByOne(g, arcs, supply) \cap [arcs -> Nat] :
     Conserves(g, arcs, f, supply) /\ Acyclic(g, Carrying(f))}

Supply(g, com) ==
  [n \in EnabledNodes(g) |-> IF com.origin = com.destination THEN 0
                             ELSE IF n = com.origin THEN com.demand
                             ELSE IF n = com.destination THEN -com.demand ELSE 0]

\* What starts at a node, less what ends there.
NetDemand(g, coms, n) == SumFunction([i \in DOMAIN coms |-> Supply(g, coms[i])[n]])

\* All demands at once, each conserved by itself.
DemandFlows(g, coms, x) ==
  LET ways == [i \in DOMAIN coms |-> Routings(g, x, Supply(g, coms[i]))]
      Each == {f \in [DOMAIN coms -> UNION {ways[i] : i \in DOMAIN coms}] :
                 \A i \in DOMAIN coms : f[i] \in ways[i]}
  IN  {[arc \in x |-> SumFunction([i \in DOMAIN coms |-> f[i][arc]])] : f \in Each}

\* By how much a flow along arcs breaks the limits: of an arc in danger, of
\* a passage (a hint, and what a scalar sensor counts there), of a node.
Overflow(g, inp, arcs, flow) ==
  LET edges   == {arc[1] : arc \in arcs}
      Free(e) == AtLeast0(inp.hint[e] - Or(inp.sigma, e, 0))
  IN    MapThenSumSet(LAMBDA arc : Over(flow[arc], inp.dangerCap[arc[1]]),
                      {arc \in arcs : arc[1] \in DOMAIN inp.dangerCap})
      + MapThenSumSet(LAMBDA e : Over(EdgeFlow(flow, e), inp.hint[e]),
                      edges \cap DOMAIN inp.hint)
      + MapThenSumSet(LAMBDA e : Over(EdgeFlow(flow, e), Free(e)),
                      edges \cap DOMAIN inp.hint \cap inp.scalar)
      + MapThenSumSet(LAMBDA n : Over(Entering(g, arcs, flow, n), inp.nodeCap[n]), DOMAIN inp.nodeCap)

WithinLimits(g, inp, arcs, flows) == {f \in flows : Overflow(g, inp, arcs, f) = 0}

Least(flows, Cost(_)) ==
  LET least == Min({Cost(f) : f \in flows})
  IN  IF flows = {} THEN {} ELSE {f \in flows : Cost(f) = least}

\* Seeded fault: closed arcs are left out.
OpenArcsOnly(arcs, flow) == flow

\* On all arcs of the graph; arcs that are not open carry nothing.
OnArcs(arcs, flow) == [arc \in arcs |-> Or(flow, arc, 0)]

-----------------------------------------------------------------------------
(* The programs                                                            *)

\* The assignment with the directions of x.
AssignmentFlows(g, inp, coms, x) == WithinLimits(g, inp, x, DemandFlows(g, coms, x))

\* With slack the limits may be broken: as little as possible, then cheapest.
SlackFlows(g, inp, coms, x) ==
  LET Penalty(f) == Overflow(g, inp, x, f)
  IN  Least(Least(DemandFlows(g, coms, x), Penalty), TotalFlow)

\* The spread assignment keeps every passage it can bound below the cap.
SpreadFlows(g, inp, coms, x, drainable, cap) ==
  LET bound == {e \in drainable \cap DOMAIN inp.s :
                  Or(inp.eta, e, 0) > 0 /\ ArcsOf(e) \cap x # {}}
  IN  {f \in AssignmentFlows(g, inp, coms, x) : ResidualTau(g, inp, bound, f) <= cap}

\* Seeded fault: inside the zone both directions are used.
AllZoneArcs(zone, x) == zone.edges \X Directions

\* The assignment inside a zone: only the zone's own passages carry flow.
ZoneArcs(zone, x) == {arc \in x : arc[1] \in zone.edges}

ZoneFlows(g, inp, zone, x, supply) ==
  LET arcs == ZoneArcs(zone, x)
  IN  WithinLimits(g, inp, arcs, Routings(g, arcs, supply))

\* The directions the integer program may choose: no passage closed, no node
\* cut off, and in an open site everything reachable from the first entry
\* and everything reaching the first exit.
StrictDirections(g, isOpen) ==
  LET Spans(x) ==
        /\ EntryNodes(g) # {} =>
             EnabledNodes(g) \subseteq ReachableFrom(Links(g, x), {Min(EntryNodes(g))})
        /\ ExitNodes(g) # {} =>
             EnabledNodes(g) \subseteq ReachableFrom(Backwards(Links(g, x)), {Min(ExitNodes(g))})
  IN  {x \in SUBSET PermittedArcs(g) :
         /\ LegalViolations(g, x) = {}
         /\ \A e \in ActiveEdges(g) : Opened(x, e) # {}
         /\ LocalReachabilityOk(g, x)
         /\ isOpen => Spans(x)}

\* The integer program chooses directions and flows.  It never drains more
\* than stands on a passage.
StrictChoices(g, inp, coms, isOpen) ==
  LET NotOverdrained(f) ==
        \A e \in DOMAIN inp.s : Or(inp.eta, e, 0) * EdgeFlow(f, e) <= inp.s[e]
      FlowsOf(x) == {f \in AssignmentFlows(g, inp, coms, x) : NotOverdrained(f)}
  IN  UNION {{[x |-> x, flow |-> OnArcs(Arcs(g), f)] : f \in FlowsOf(x)} :
               x \in StrictDirections(g, isOpen)}

\* Seeded fault: the first phase's value is not kept.
AnyChoice(g, inp, coms, isOpen, drainable, cap) == StrictChoices(g, inp, coms, isOpen)

Phase2Choices(g, inp, coms, isOpen, drainable, cap) ==
  {c \in StrictChoices(g, inp, coms, isOpen) : ResidualTau(g, inp, drainable, c.flow) <= cap}

Through(flow, edges) == SumFunction([e \in edges |-> EdgeFlow(flow, e)])

\* What the solver may end with.  An optimum is the best choice, an
\* interrupted run may have found some choice, and without any choice the
\* program is infeasible; an error counts as an optimum or as infeasible.
Interrupted == {"FEASIBLE", "TIMEOUT"}

SolverEnds(choices, best) ==
  {[status |-> "OPTIMAL", found |-> {c}] : c \in best}
  \cup {[status |-> st, found |-> {c}] : st \in Interrupted, c \in choices}
  \cup {[status |-> "TIMEOUT", found |-> {}]}
  \cup (IF choices = {} THEN {[status |-> "INFEASIBLE", found |-> {}]} ELSE {})
=============================================================================
