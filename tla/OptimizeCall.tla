---------------------------- MODULE OptimizeCall ----------------------------
(***************************************************************************)
(* One call of optimize (optimization/optimizer.py): the lightweight       *)
(* search for better directions around the triggers, the strict two-phase  *)
(* program, and the fallbacks when neither gives a safe answer.            *)
(*                                                                         *)
(* The solver and the clock are not under the call's control: a program    *)
(* ends in any way SolverEnds allows, and the deadline may pass between    *)
(* any two steps (late).  A request r is a record of what optimize takes.  *)
(***************************************************************************)
EXTENDS TriggerZones, Restrictions, Presentation, BoundaryControl

CONSTANT Requests

\* Nodes and passages are finitely many, with numbers for identifiers; what is
\* measured, forecast and configured is never negative.
ASSUME RequestsAssumption ==
  \A r \in Requests :
    /\ IsFiniteSet(DOMAIN r.graph.node) /\ DOMAIN r.graph.node \subseteq Nat
    /\ IsFiniteSet(DOMAIN r.graph.edge) /\ DOMAIN r.graph.edge \subseteq Nat
    /\ DOMAIN r.od = 1 .. Len(r.od) /\ Len(r.od) \in Nat
    /\ \A i \in DOMAIN r.od : r.od[i].demand \in Nat
    /\ \A e \in DOMAIN r.obs.stagnation : r.obs.stagnation[e].value \in Nat
    /\ \A f \in {r.forecast.eta, r.forecast.confidence, r.baseline} :
         \A key \in DOMAIN f : f[key] \in Nat
    /\ r.cfg.confidenceFloor \in Nat /\ r.cfg.hops \in Nat /\ r.cfg.maxZones \in Nat
    /\ r.cfg.margin \in Nat /\ r.cfg.epsilon \in Nat
    /\ IsFiniteSet(DOMAIN r.previous.restrictions)
    /\ \A i \in DOMAIN r.previous.restrictions : r.previous.restrictions[i].edge \in Nat

VARIABLES
  req,      \* the request
  stage,    \* what the call does next
  late,     \* whether the deadline has passed
  first,    \* the solution before the search (a set, empty if there is none)
  sol,      \* the best solution so far (the same)
  search,   \* where the search is
  answer    \* the answer (the same)

vars == <<req, stage, late, first, sol, search, answer>>

Solution(x, flow, tau) == [x |-> x, flow |-> flow, tau |-> tau]

-----------------------------------------------------------------------------
(* What the call derives from its request                                  *)

g == req.graph
isOpen == IF req.mode # {} THEN req.mode = {"OPEN"} ELSE BoundaryNodes(g) # {}
coms == BuildCommodities(g, req.od, req.cfg.cutPercent)
inp == BuildInputs(g, req.obs, req.forecast, req.baseline, req.cfg)
drainable == Drainable(g, OdPairs(coms), DOMAIN inp.s)
undrainable == Undrainable(g, OdPairs(coms), DOMAIN inp.s)

\* The passages whose throughput the second phase maximises.
throughputEdges == (TriggerEdgeSet(req.detours) \cup req.cfg.targets) \cap ActiveEdges(g)

\* What is seen on a passage: the larger of its line and scalar counts.
observedFlow ==
  [e \in DOMAIN inp.v \cup DOMAIN inp.sigma |-> Max({Or(inp.v, e, 0), Or(inp.sigma, e, 0)})]

severity == [e \in EnabledEdges(g) |-> IF e \in DOMAIN inp.s THEN Stress(inp, e, inp.s[e]) ELSE 0]

zonesOfCall ==
  BuildTriggerZones(g, req.triggered, req.triggeredNodes, req.cfg.hops, req.cfg.maxZones, severity)

Tau(edges, flow) == ResidualTau(g, inp, drainable \cap edges, flow)
TauOf(flow) == Tau(ActiveEdges(g), flow)

\* Seeded fault: the boundary is not looked at.
LocallySafe(x) == LocalReachabilityOk(g, x)

Safe(x) == LocalReachabilityOk(g, x) /\ (isOpen => BoundaryReachabilityOk(g, x))

\* The ways to open one passage anew: one way, the other, or both, by their
\* places.  What the law fixes stays, and only a passage meant for both
\* directions is opened in both.
WaysToOpen == <<{"A_TO_B"}, {"B_TO_A"}, Directions>>

\* Seeded fault: the law is forgotten.
AnyOtherWay(e, x) == {i \in DOMAIN WaysToOpen : WaysToOpen[i] # Opened(x, e)}

AllowedWays(e, x) ==
  LET constraint == g.edge[e].constraint
      Allowed(opened) ==
        /\ opened \subseteq Permitted(constraint)
        /\ constraint \in LegalFixed => opened = Permitted(constraint)
        /\ opened # Opened(x, e)
        /\ opened = Directions => constraint = "BIDIRECTIONAL_PRIOR"
  IN  {i \in DOMAIN WaysToOpen : Allowed(WaysToOpen[i])}

DirectionCandidates(e, x) ==
  LET ways == InOrder(AllowedWays(e, x))
  IN  [i \in DOMAIN ways |-> (x \ ArcsOf(e)) \cup ({e} \X WaysToOpen[ways[i]])]

\* The arcs that are no passage's of the zone.
Outside(zone) == {arc \in Arcs(g) : arc[1] \notin zone.edges}

\* Seeded fault: what comes in is taken for what goes out.
SupplyTurnedRound(zone, flow) ==
  [n \in zone.nodes |-> NetDemand(g, coms, n) - Entering(g, Outside(zone), flow, n)
                                              + Leaving(g, Outside(zone), flow, n)]

\* What a zone has to route: the demand that starts or ends in it, and what
\* the rest of the flow brings into it or takes out of it.
ZoneNetSupply(zone, flow) ==
  [n \in zone.nodes |-> NetDemand(g, coms, n) + Entering(g, Outside(zone), flow, n)
                                              - Leaving(g, Outside(zone), flow, n)]

\* Seeded fault: the margin is given instead of asked for.
NotMuchWorse(new, old) == new <= old + req.cfg.margin

\* A candidate must be better by the margin.
Improves(new, old) == new <= old - req.cfg.margin

Found(ends) == {end.found : end \in ends}
Flows(program, best) == Found(SolverEnds(program, best))

-----------------------------------------------------------------------------
(* Answers                                                                 *)

Empty(status) ==
  [origin |-> "EMPTY", status |-> status, x |-> {}, flow |-> NoFlow(Arcs(g)), tau |-> 0,
   restrictions |-> <<>>, boundary |-> {}, directions |-> <<>>, importance |-> <<>>,
   detourPaths |-> {}, localOk |-> FALSE, boundaryOk |-> FALSE, legal |-> {}]

Boundary == ComputeBoundaryControl(g, isOpen, req.previous.boundary, coms)

\* An answer about a solution; shown is the flow importance is taken from.
About(origin, status, s, shown, restrictions, detourPaths, emphasis) ==
  [origin |-> origin, status |-> status, x |-> s.x, flow |-> s.flow, tau |-> s.tau,
   restrictions |-> restrictions, boundary |-> Boundary,
   directions |-> DirectionProposals(g, s.x),
   importance |-> RouteImportance(g, Plus(shown, emphasis)),
   detourPaths |-> detourPaths,
   localOk |-> LocalReachabilityOk(g, s.x),
   boundaryOk |-> isOpen => BoundaryReachabilityOk(g, s.x),
   legal |-> LegalViolations(g, s.x)]

Presented(origin, status, s, shown, restrictions) ==
  About(origin, status, s, shown, restrictions,
        DetourPathProposals(g, req.detours, shown, observedFlow, req.triggered, s.x),
        DetourEmphasis(g, req.detours, shown, observedFlow, req.triggered, s.x))

Finish(a) ==
  /\ answer' = {a}
  /\ stage' = "DONE"
  /\ UNCHANGED <<req, late, first, sol, search>>

-----------------------------------------------------------------------------
(* The lightweight search                                                  *)

NoSearch == [zones |-> <<>>, edges |-> <<>>, tries |-> <<>>,
             zone |-> <<>>, supply |-> <<>>, tau |-> 0, status |-> ""]

\* The first assignment keeps all directions.  If it has a solution the
\* zones are searched, otherwise any change that makes one possible.
StartLightweight ==
  /\ stage = "CALLED" /\ req.method = "LIGHTWEIGHT" /\ ~late
  /\ \E f \in LET flows == AssignmentFlows(g, inp, coms, CurrentArcs(g))
              IN  Flows(flows, Least(flows, TotalFlow)) :
       first' = {Solution(CurrentArcs(g), OnArcs(Arcs(g), flow), TauOf(flow)) : flow \in f}
  /\ sol' = first'
  /\ IF first' # {}
     THEN /\ stage' = "ZONES"
          /\ search' = [NoSearch EXCEPT !.zones = zonesOfCall.zones]
     ELSE /\ stage' = "RESCUE"
          /\ search' = [NoSearch EXCEPT
                          !.edges = InOrder(req.triggered \cap ActiveEdges(g))]
  /\ UNCHANGED <<req, late, answer>>

EnterZone ==
  /\ stage = "ZONES" /\ search.tries = <<>> /\ search.edges = <<>> /\ search.zones # <<>>
  /\ LET zone == Head(search.zones)
         flow == The(sol).flow
         Before(e1, e2) == \/ severity[e1] > severity[e2]
                           \/ severity[e1] = severity[e2] /\ e1 < e2
         seeds == zone.seedEdges
     IN  search' = [search EXCEPT !.zones = Tail(@), !.zone = zone,
                                  !.supply = ZoneNetSupply(zone, flow),
                                  !.tau = Tau(zone.edges, flow),
                                  !.edges = OrderedBy(seeds, {p \in seeds \X seeds :
                                                                Before(p[1], p[2])})]
  /\ UNCHANGED <<req, stage, late, first, sol, answer>>

\* The candidates of a passage start from what has been adopted so far.
NextEdge ==
  /\ stage \in {"ZONES", "RESCUE"} /\ search.tries = <<>> /\ search.edges # <<>>
  /\ LET x == IF sol = {} THEN CurrentArcs(g) ELSE The(sol).x
     IN  search' = [search EXCEPT !.edges = Tail(@),
                                  !.tries = DirectionCandidates(Head(search.edges), x)]
  /\ UNCHANGED <<req, stage, late, first, sol, answer>>

\* A candidate is adopted if the zone can route its people in it, it is safe
\* and it lowers the zone's worst stagnation by the margin.
TryInZone ==
  /\ stage = "ZONES" /\ search.tries # <<>> /\ ~late
  /\ LET x     == Head(search.tries)
         flows == ZoneFlows(g, inp, search.zone, x, search.supply)
         old   == The(sol)
         In(arc) == arc[1] \in search.zone.edges
         Composed(f) == [arc \in Arcs(g) |-> IF In(arc) THEN Or(f, arc, 0) ELSE old.flow[arc]]
         Better(f) == Safe(x) /\ Improves(Tau(search.zone.edges, Composed(f)), search.tau)
     IN  \E found \in Flows(flows, Least(flows, TotalFlow)) :
           LET better == {Composed(f) : f \in {h \in found : Better(h)}}
           IN  /\ sol' = IF better = {} THEN sol
                         ELSE {Solution(x, flow, TauOf(flow)) : flow \in better}
               /\ search' = [search EXCEPT !.tries = Tail(@),
                               !.tau = IF better = {} THEN @ ELSE Tau(search.zone.edges, The(better))]
  /\ UNCHANGED <<req, stage, late, first, answer>>

\* Without a first solution the whole assignment is tried.
TryWhole ==
  /\ stage = "RESCUE" /\ search.tries # <<>> /\ ~late
  /\ LET x     == Head(search.tries)
         flows == AssignmentFlows(g, inp, coms, x)
         Better(f) == Safe(x) /\ (sol # {} => Improves(TauOf(f), The(sol).tau))
     IN  \E found \in Flows(flows, Least(flows, TotalFlow)) :
           LET better == {OnArcs(Arcs(g), f) : f \in {h \in found : Better(h)}}
           IN  sol' = IF better = {} THEN sol
                      ELSE {Solution(x, flow, TauOf(flow)) : flow \in better}
  /\ search' = [search EXCEPT !.tries = Tail(@)]
  /\ UNCHANGED <<req, stage, late, first, answer>>

\* The search ends when nothing is left to try, or nothing can be tried in
\* time.  What it leaves must be safe, or the fallback takes over.
EndSearch ==
  /\ stage \in {"ZONES", "RESCUE"}
  /\ \/ search.tries = <<>> /\ search.edges = <<>> /\ search.zones = <<>>
     \/ search.tries # <<>> /\ late
  /\ stage' = IF \E s \in sol : Safe(s.x) THEN "SPREAD" ELSE "FALLBACK"
  /\ search' = NoSearch
  /\ UNCHANGED <<req, late, first, sol, answer>>

\* Equal ways are used side by side if no stagnation gets worse by more than
\* epsilon.  The answer reports the better of the two values.
Present(s, shown) ==
  Finish(Presented("SEARCH", "LIGHTWEIGHT", s, shown,
                   ComputeRestrictions(g, inp, zonesOfCall.zones, s,
                     [cfg |-> req.cfg, drainable |-> drainable, undrainable |-> undrainable,
                      detours |-> req.detours, triggered |-> req.triggered,
                      outflow |-> req.outflow, isOpen |-> isOpen],
                     RouteImportance(g, shown), req.previous.restrictions)))

\* Without spreading, importance is taken from the first assignment.
PresentSearch ==
  /\ stage = "SPREAD"
  /\ Present(The(sol), IF first = {} THEN The(sol).flow ELSE The(first).flow)

PresentSpread ==
  /\ stage = "SPREAD" /\ req.cfg.spread /\ ~late
  /\ LET best == The(sol)
     IN  \E f \in SpreadFlows(g, inp, coms, best.x, drainable, best.tau + req.cfg.epsilon) :
           LET flow == OnArcs(Arcs(g), f)
           IN  /\ TauOf(flow) <= best.tau + req.cfg.epsilon
               /\ Present(Solution(best.x, flow, Min({best.tau, TauOf(flow)})), flow)

-----------------------------------------------------------------------------
(* The strict program                                                      *)

FirstPhase == StrictChoices(g, inp, coms, isOpen)
ChoiceTau(c) == TauOf(c.flow)

SolvePhase1 ==
  /\ stage = "CALLED" /\ req.method = "STRICT" /\ ~late
  /\ \E end \in SolverEnds(FirstPhase, Least(FirstPhase, ChoiceTau)) :
       \/ /\ end.status = "INFEASIBLE"
          /\ stage' = "FALLBACK"
          /\ UNCHANGED <<req, late, first, sol, search, answer>>
       \/ /\ end.status # "INFEASIBLE" /\ end.found = {}
          /\ Finish(Empty(end.status))
       \/ /\ end.found # {}
          /\ first' = {Solution(c.x, c.flow, ChoiceTau(c)) : c \in end.found}
          /\ sol' = first'
          /\ search' = [NoSearch EXCEPT !.status = end.status]
          /\ stage' = "PHASE2"
          /\ UNCHANGED <<req, late, answer>>

\* The first phase's status and value stay those of the answer.
PresentStrict(s) ==
  Finish(Presented("STRICT", search.status, [s EXCEPT !.tau = The(first).tau], s.flow, <<>>))

SkipPhase2 ==
  /\ stage = "PHASE2"
  /\ PresentStrict(The(sol))

\* Only from an optimum or a good solution, and only if there are passages
\* whose throughput counts.
SolvePhase2 ==
  /\ stage = "PHASE2" /\ search.status # "TIMEOUT" /\ throughputEdges # {} /\ ~late
  /\ LET within == Phase2Choices(g, inp, coms, isOpen, drainable,
                                 The(sol).tau + req.cfg.epsilon)
         Loss(c) == -Through(c.flow, throughputEdges)
     IN  \E end \in SolverEnds(within, Least(within, Loss)) :
           /\ end.found # {} /\ end.status # "TIMEOUT"
           /\ LET c == The(end.found) IN PresentStrict(Solution(c.x, c.flow, ChoiceTau(c)))

-----------------------------------------------------------------------------
(* Fallbacks                                                               *)

\* No time is left where the call looks at the clock before it solves.
OutOfTime ==
  /\ stage \in {"CALLED", "FALLBACK"} /\ late
  /\ Finish(Empty("TIMEOUT"))

\* The present directions, with as little overload as possible.
FallbackFlows == SlackFlows(g, inp, coms, CurrentArcs(g))

AnswerSlack ==
  /\ stage = "FALLBACK" /\ ~late
  /\ \E f \in FallbackFlows \cup DemandFlows(g, coms, CurrentArcs(g)) :
       LET flow == OnArcs(Arcs(g), f)
           limits == IF req.cfg.restrict THEN OverloadLimits(g, inp, flow) ELSE <<>>
       IN  Finish(About("SLACK_LP", "INFEASIBLE",
                        Solution(CurrentArcs(g), flow, TauOf(flow)), flow, limits, {},
                        NoFlow(Arcs(g))))

\* Otherwise the previous answer once more, or none.
AnswerPrevious ==
  /\ stage = "FALLBACK" /\ ~late
  /\ LET kept == [Empty("INFEASIBLE") EXCEPT !.restrictions = req.previous.restrictions,
                                             !.boundary = req.previous.boundary]
     IN  Finish([kept EXCEPT !.origin = IF req.previous.exists THEN "PREVIOUS_RESULT"
                                        ELSE "NO_RESULT"])

-----------------------------------------------------------------------------
DeadlinePasses ==
  /\ stage # "DONE" /\ ~late
  /\ late' = TRUE
  /\ UNCHANGED <<req, stage, first, sol, search, answer>>

Init ==
  /\ req \in Requests
  /\ stage = "CALLED" /\ late = FALSE
  /\ first = {} /\ sol = {} /\ answer = {}
  /\ search = NoSearch

Lightweight == \/ StartLightweight \/ EnterZone \/ NextEdge \/ TryInZone \/ TryWhole
               \/ EndSearch \/ PresentSearch \/ PresentSpread
Strict   == SolvePhase1 \/ SkipPhase2 \/ SolvePhase2
Fallback == OutOfTime \/ AnswerSlack \/ AnswerPrevious

Next == Lightweight \/ Strict \/ Fallback \/ DeadlinePasses

Spec == Init /\ [][Next]_vars

-----------------------------------------------------------------------------
(* Properties                                                              *)

FromSearch == {a \in answer : a.origin = "SEARCH"}
Fresh      == {a \in answer : a.origin \in {"SEARCH", "STRICT"}}

\* Type correctness: a call that is done has answered, a search has a
\* request it can be about, and solutions are about the arcs of the graph.
TypeOK ==
  /\ stage \in {"CALLED", "ZONES", "RESCUE", "SPREAD", "PHASE2", "FALLBACK", "DONE"}
  /\ late \in BOOLEAN
  /\ \A s \in first \cup sol : s.x \subseteq Arcs(g) /\ DOMAIN s.flow = Arcs(g)
  /\ (stage = "DONE") = (answer # {})
  /\ Cardinality(first) <= 1 /\ Cardinality(sol) <= 1 /\ Cardinality(answer) <= 1

\* However often zones replace a part of the flow, the whole still carries
\* exactly the demand: at every node as many people leave as come, but for
\* those who start or end there (the net supply of _zone_net_supply and the
\* composition of the flows in _optimize_lightweight).
SolutionBalanced ==
  \A s \in sol, n \in EnabledNodes(g) :
    SumFunctionOnSet(s.flow, OutArcs(g, n)) - SumFunctionOnSet(s.flow, InArcs(g, n))
      = NetDemand(g, coms, n)

\* Nobody is sent against the directions that are proposed with the flow,
\* although zones are solved for a candidate and composed with the rest.
FlowKeepsToDirections ==
  \A s \in sol \cup answer : Carrying(s.flow) \subseteq s.x

\* Reachability without the code's search: a set of nodes that has every entry
\* and that no open arc leaves is the whole site, and so for the exits.
Fills(links, sources) ==
  \A nodes \in SUBSET EnabledNodes(g) :
    sources \subseteq nodes /\ (\A l \in links : l[1] \in nodes => l[2] \in nodes)
      => nodes = EnabledNodes(g)

Reaches(x) ==
  /\ EntryNodes(g) # {} => Fills(Links(g, x), EntryNodes(g))
  /\ ExitNodes(g) # {} => Fills(Backwards(Links(g, x)), ExitNodes(g))

\* A new proposal of directions never cuts a node off: by a definition of
\* reachability that is not the code's, every node with passages still has a
\* way in and a way out, and in an open site a way from an entry and a way
\* to an exit.  This is what _local_reachability_ok and
\* _boundary_reachability_ok are for, in the search (steps, and the solution
\* of the first assignment), and the constraints in the strict program.
SafeToFollow ==
  \A a \in Fresh :
    /\ isOpen => Reaches(a.x)
    /\ \A n \in UNION {Ends(g, e) : e \in ActiveEdges(g)} :
         \E m1, m2 \in EnabledNodes(g) : {<<m1, n>>, <<n, m2>>} \subseteq Links(g, a.x)

\* The search turns nothing but triggered passages, and a passage the law
\* fixes only to what the law says.
TurnsAreAllowed ==
  \A a \in FromSearch, e \in ActiveEdges(g) :
    Opened(a.x, e) # Opened(CurrentArcs(g), e) =>
      /\ e \in req.triggered
      /\ g.edge[e].constraint \in LegalFixed => Opened(a.x, e) = Permitted(g.edge[e].constraint)

\* The search never makes the worst stagnation worse than keeping all
\* directions does, but for the tolerance of the spread; what the answer
\* reports is off by no more than that.
SearchHelps ==
  \A a \in FromSearch :
    /\ \A s \in first : TauOf(a.flow) <= s.tau + req.cfg.epsilon
    /\ a.tau <= TauOf(a.flow) /\ TauOf(a.flow) <= a.tau + req.cfg.epsilon

\* The zones are the finest division of the triggers' neighbourhoods into
\* parts that have no node in common, however the neighbourhoods chain
\* together and in whatever order they are merged.
ZonesArePartition ==
  LET cores == Cores(g, req.triggered, req.triggeredNodes, req.cfg.hops, severity)
      zones == MergeOverlapping(cores)
      Parts(zone) == {i \in DOMAIN cores : cores[i].nodes \subseteq zone.nodes}
  IN  /\ \A j, k \in DOMAIN zones : j # k => ~Meet(zones[j], zones[k])
      /\ \A i \in DOMAIN cores : \E k \in DOMAIN zones : i \in Parts(zones[k])
      /\ \A k \in DOMAIN zones :
           /\ zones[k].nodes = UNION {cores[i].nodes : i \in Parts(zones[k])}
           /\ \A some \in (SUBSET Parts(zones[k])) \ {{}, Parts(zones[k])} :
                \E i \in some, j \in Parts(zones[k]) \ some : Meet(cores[i], cores[j])

\* Gaining throughput in the second phase costs no more stagnation than the
\* tolerance, and a strict answer breaks no law.
StrictKeepsFirstPhase ==
  \A a \in {b \in answer : b.origin = "STRICT"} :
    /\ TauOf(a.flow) <= a.tau + req.cfg.epsilon
    /\ LegalViolations(g, a.x) = {}

\* A passage that is proposed for closing can be done without: in the
\* proposed directions the rest of the site still has a way from an entry to
\* every node and from every node to an exit.
Closed(a) == {p.edge : p \in {q \in ToSet(a.restrictions) : q.action = "CLOSE"}}

ClosingIsSafe ==
  \A a \in FromSearch : \A e \in Closed(a) : isOpen /\ Reaches(a.x \ ArcsOf(e))
=============================================================================
