---------------------------- MODULE Restrictions ----------------------------
(***************************************************************************)
(* The passages to close or to limit when danger remains after directions  *)
(* have been chosen (optimization/restriction.py, and _compute_restrictions *)
(* and _overload_limits of optimization/optimizer.py).                     *)
(*                                                                         *)
(* A proposal is a record [edge, action, limit, reason]; limit is a set    *)
(* with at most one number.                                                *)
(***************************************************************************)
EXTENDS Assignment

Proposal(e, action, limit, reason) ==
  [edge |-> e, action |-> action, limit |-> limit, reason |-> reason]

Carries(flow, e) == EdgeFlow(flow, e) > 0

\* A passage counted by a scalar sensor carries more than its hint leaves.
Punctured(inp, flow, e) ==
  /\ e \in inp.scalar \cap DOMAIN inp.hint
  /\ EdgeFlow(flow, e) > AtLeast0(inp.hint[e] - Or(inp.sigma, e, 0))

\* Why danger remains in a zone; nothing does if every part is empty.
AssessResidual(inp, edges, tau, flow, undrainable, theta) ==
  [tauExceeded |-> tau > theta,
   undrainable |-> edges \cap undrainable,
   punctured   |-> {e \in edges : Punctured(inp, flow, e)}]

Remains(residual) ==
  \/ residual.tauExceeded
  \/ residual.undrainable # {}
  \/ residual.punctured # {}

\* Detours do not suffice: fewer than two, less than half of their passages
\* in use, or some of them in danger themselves.
Endangered(inp, e, flow, triggered, theta) ==
  \/ e \in triggered
  \/ /\ e \in DOMAIN inp.s
     /\ inp.s[e] >= Or(inp.eta, e, 0) * EdgeFlow(flow, e)
     /\ Stress(inp, e, inp.s[e] - Or(inp.eta, e, 0) * EdgeFlow(flow, e)) > theta

DetourInsufficient(inp, detourEdges, kEffective, flow, triggered, theta) ==
  LET used == {e \in detourEdges : Carries(flow, e)}
  IN  \/ kEffective < 2
      \/ detourEdges = {}
      \/ 2 * Cardinality(used) < Cardinality(detourEdges)
      \/ \E e \in detourEdges : Endangered(inp, e, flow, triggered, theta)

\* What a passage can sustain: the flow it has let out lately, or else what
\* would drain its stagnation.
LimitValue(inp, e, outflow) ==
  IF e \in DOMAIN outflow THEN {outflow[e]}
  ELSE IF e \in DOMAIN inp.s /\ Or(inp.eta, e, 0) > 0 THEN {inp.s[e] \div inp.eta[e]}
  ELSE {}

\* The passages that feed the endangered ones, the strongest feeder first,
\* then the least important, then the first by identifier.
Feeders(g, danger, edges, flow, importance) ==
  LET arcs     == UNION {ArcsOf(e) : e \in danger} \cap Arcs(g)
      loaded   == {From(g, arc) : arc \in {a \in arcs : Or(flow, a, 0) > 0}}
      upstream == IF loaded # {} THEN loaded ELSE {From(g, arc) : arc \in arcs}
      Feeding(e) == {arc \in ArcsOf(e) \cap Arcs(g) : To(g, arc) \in upstream}
      Feeds(e)   == SumFunction([arc \in Feeding(e) |-> Or(flow, arc, 0)])
      Before(e1, e2) ==
        \/ Feeds(e1) > Feeds(e2)
        \/ /\ Feeds(e1) = Feeds(e2)
           /\ \/ Or(importance, e1, 0) < Or(importance, e2, 0)
              \/ Or(importance, e1, 0) = Or(importance, e2, 0) /\ e1 < e2
      feeders == {e \in edges \ danger : Feeds(e) > 0}
  IN  OrderedBy(feeders, {p \in feeders \X feeders : Before(p[1], p[2])})

ReasonFor(e, residual) ==
  CASE e \in residual.undrainable -> "UNDRAINABLE_STAGNATION"
    [] e \in residual.punctured \ residual.undrainable -> "PUNCTURE"
    [] OTHER                      -> "RESIDUAL_TAU"

\* One proposal for a zone: its first feeder, or the triggered passage
\* itself.  Closing is only for open sites, and only if the site without
\* this passage holds together.
BuildRestriction(g, inp, residual, danger, edges, flow, x, importance, outflow, isOpen) ==
  LET feeders  == Feeders(g, danger, edges, flow, importance)
      e        == IF feeders # <<>> THEN Head(feeders) ELSE Min(danger)
      canClose == isOpen /\ ClosePreservesConnectivity(g, e, x, isOpen)
  IN  IF canClose THEN Proposal(e, "CLOSE", {}, ReasonFor(e, residual))
      ELSE Proposal(e, "LIMIT", LimitValue(inp, e, outflow), ReasonFor(e, residual))

\* What resumes the chosen proposals, given by their places in the previous
\* answer: each passage once, for the reason it was restricted first.
ResumesOf(previous, chosen) ==
  LET First(e) == previous[Min({i \in chosen : previous[i].edge = e})]
      edges == InOrder({previous[i].edge : i \in chosen})
  IN  [i \in DOMAIN edges |-> Proposal(edges[i], "RESUME", {}, First(edges[i]).reason)]

\* Seeded fault: what is still restricted is not looked at.
ResumeAllOfBefore(previous, restricted) ==
  ResumesOf(previous, {i \in DOMAIN previous : previous[i].action # "RESUME"})

\* Seeded fault: resumes are resumed again.
ResumeResumes(previous, restricted) ==
  ResumesOf(previous, {i \in DOMAIN previous : previous[i].edge \notin restricted})

\* Seeded fault: limits are not taken back.
ResumeClosedOnly(previous, restricted) ==
  ResumesOf(previous, {i \in DOMAIN previous : /\ previous[i].action = "CLOSE"
                                               /\ previous[i].edge \notin restricted})

\* What was restricted and is not any more.  Only the proposals of the
\* previous answer are looked at.
BuildResume(previous, restricted) ==
  ResumesOf(previous, {i \in DOMAIN previous : /\ previous[i].action # "RESUME"
                                               /\ previous[i].edge \notin restricted})

\* What an answer says when the zones ask for these restrictions now.
WithResumes(previous, now) == now \o BuildResume(previous, {now[i].edge : i \in DOMAIN now})

ZoneDetours(detours, triggers) ==
  LET known == triggers \cap DOMAIN detours
  IN  [edges |-> UNION {detours[e].edgeSet : e \in known} \ triggers,
       kEffective |-> Max({0} \cup {detours[e].kEffective : e \in known})]

Triggers(zone) == zone.seedEdges \cap zone.edges

ZoneResidual(g, inp, zone, flow, call) ==
  LET theta == The(call.cfg.theta)
      tau   == ResidualTau(g, inp, call.drainable \cap zone.edges, flow)
  IN  AssessResidual(inp, zone.edges, tau, flow, call.undrainable, theta)

\* A zone asks for a restriction when danger remains and detours do not help.
Asks(g, inp, zone, flow, call) ==
  LET detours == ZoneDetours(call.detours, Triggers(zone))
  IN  /\ Triggers(zone) # {}
      /\ Remains(ZoneResidual(g, inp, zone, flow, call))
      /\ DetourInsufficient(inp, detours.edges, detours.kEffective, flow, call.triggered,
                            The(call.cfg.theta))

ZoneRestriction(g, inp, zone, sol, call, importance) ==
  BuildRestriction(g, inp, ZoneResidual(g, inp, zone, sol.flow, call), Triggers(zone),
                   zone.edges, sol.flow, sol.x, importance, call.outflow, call.isOpen)

\* The proposals of an answer: those of the zones in their order, then what
\* is resumed.  The function can be turned off, and
\* is off without a threshold.
ComputeRestrictions(g, inp, zones, sol, call, importance, previous) ==
  IF ~call.cfg.restrict \/ call.cfg.theta = {} THEN <<>>
  ELSE LET asking == InOrder({i \in DOMAIN zones : Asks(g, inp, zones[i], sol.flow, call)})
           now == [k \in DOMAIN asking |->
                     ZoneRestriction(g, inp, zones[asking[k]], sol, call, importance)]
       IN  WithResumes(previous, now)

\* After an assignment with slack: the passages that carry more than they
\* can, limited to what they can.
OverloadLimits(g, inp, flow) ==
  LET Caps(e) == {f[e] : f \in {h \in {inp.dangerCap, inp.hint} : e \in DOMAIN h}}
      overloaded == {e \in ActiveEdges(g) : Caps(e) # {} /\ EdgeFlow(flow, e) > Min(Caps(e))}
      order == InOrder(overloaded)
  IN  [i \in DOMAIN order |-> Proposal(order[i], "LIMIT", {Min(Caps(order[i]))}, "OVERLOAD")]
=============================================================================
