---------------------------- MODULE Presentation ----------------------------
(***************************************************************************)
(* What an answer says about a solution (optimization/postprocess.py): the *)
(* importance of every passage, the detours people should be led to, and   *)
(* the change of direction proposed for each passage.                      *)
(***************************************************************************)
EXTENDS Assignment

\* Importance in percent of the busiest passage.
Busiest(g, flow) == Max({0} \cup {EdgeFlow(flow, e) : e \in ActiveEdges(g)})

RouteImportance(g, flow) ==
  [e \in ActiveEdges(g) |-> (100 * EdgeFlow(flow, e)) \div (Busiest(g, flow) + EpsilonZero)]

\* The direction most people take on a passage.
ImportanceDirection(flow, e) ==
  LET ab == Or(flow, <<e, "A_TO_B">>, 0)
      ba == Or(flow, <<e, "B_TO_A">>, 0)
  IN  CASE ab = 0 /\ ba = 0 -> "NONE"
        [] ba > ab          -> "B_TO_A"
        [] OTHER            -> "A_TO_B"

-----------------------------------------------------------------------------
(* Detours                                                                 *)

EffectiveCapacity(g, e) ==
  g.edge[e].hint \cup (IF g.edge[e].danger THEN g.edge[e].dangerCap ELSE {})

\* What a way can still take: nothing limits a way without capacities.
Room(g, flow, way) ==
  {AtLeast0(Min(EffectiveCapacity(g, e)) - EdgeFlow(flow, e)) :
     e \in {d \in EdgesOfWay(way) : EffectiveCapacity(g, d) # {}}}

\* A detour people can be led along: not over another triggered passage,
\* and every arc open in the adopted directions.
Usable(way, triggered, x) ==
  /\ EdgesOfWay(way) \cap triggered = {}
  /\ ToSet(way) \subseteq x

\* The people of a triggered passage are shared out over its usable detours,
\* shorter ones first (weights 1/length, here in parts of a common
\* denominator), each as far as it has room.
LengthProduct(ways) == FoldSet(LAMBDA way, acc : Len(way) * acc, 1, ways)

Share(redirect, way, ways) ==
  LET Part(w) == LengthProduct(ways) \div Len(w)
  IN  (redirect * Part(way)) \div MapThenSumSet(Part, ways)

Assigned(g, detours, e, flow, observed, triggered, x) ==
  LET redirect == Max({EdgeFlow(flow, e), Or(observed, e, 0)})
      ways     == {way \in detours[e].detours : Usable(way, triggered \cup DOMAIN detours, x)}
      Take(way) == Min({Share(redirect, way, ways)} \cup Room(g, flow, way))
  IN  IF redirect = 0 \/ e \notin ActiveEdges(g) THEN {}
      ELSE {<<way, Take(way)>> : way \in {w \in ways : Take(w) > 0}}

\* The emphasis adds the people led along a detour to its arcs.
DetourEmphasis(g, detours, flow, observed, triggered, x) ==
  LET all == UNION {{e} \X Assigned(g, detours, e, flow, observed, triggered, x) :
                      e \in DOMAIN detours}
  IN  [arc \in Arcs(g) |->
         MapThenSumSet(LAMBDA a : a[2][2], {a \in all : arc \in ToSet(a[2][1])})]

\* The detours an answer names: those people were led along, and those that
\* carry flow on every passage.
DetourPathProposals(g, detours, flow, observed, triggered, x) ==
  LET Led(e)  == {a[1] : a \in Assigned(g, detours, e, flow, observed, triggered, x)}
      Busy(way) == \A e \in EdgesOfWay(way) : EdgeFlow(flow, e) > 0
      Known(way) == EdgesOfWay(way) \subseteq ActiveEdges(g)
  IN  UNION {{e} \X {way \in detours[e].detours : Known(way) /\ (Busy(way) \/ way \in Led(e))} :
               e \in DOMAIN detours}

-----------------------------------------------------------------------------
(* Directions                                                              *)

DirectionOf(opened) ==
  CASE opened = Directions -> "BIDIRECTIONAL"
    [] OTHER -> The(opened)

ChangeType(current, proposed, constraint) ==
  CASE current = proposed -> "KEEP"
    [] current # proposed /\ proposed = "BIDIRECTIONAL" ->
         IF constraint = "BIDIRECTIONAL_PRIOR" THEN "RELEASE_ONEWAY" ELSE "KEEP"
    [] current # proposed /\ proposed # "BIDIRECTIONAL" ->
         IF current = "BIDIRECTIONAL" THEN "CONVERT_ONEWAY" ELSE "FLIP_ONEWAY"

\* A passage that is open in no direction gets no proposal.
DirectionProposals(g, x) ==
  [e \in {d \in ActiveEdges(g) : Opened(x, d) # {}} |->
     LET proposed == DirectionOf(Opened(x, e))
     IN  [direction |-> proposed,
          change |-> ChangeType(g.edge[e].current, proposed, g.edge[e].constraint)]]
=============================================================================
