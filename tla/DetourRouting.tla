--------------------------- MODULE DetourRouting ---------------------------
(***************************************************************************)
(* The detours around a triggered passage (detour_routing/): the k shortest *)
(* simple ways between its ends that avoid it and obey the constraints.    *)
(*                                                                         *)
(* A way is a sequence of arcs, so parallel passages make different ways;  *)
(* the code gets the same by a virtual node per arc.                       *)
(***************************************************************************)
EXTENDS FlowGraph, Sequences

\* The arcs a detour may use: those the constraints permit, whatever the
\* directions are now, without the excluded passages.
Adjacency(g, excluded) == {arc \in PermittedArcs(g) : arc[1] \notin excluded}

PassesThrough(g, way) == {From(g, way[i]) : i \in DOMAIN way}
LastNode(g, way) == To(g, way[Len(way)])

\* All simple ways along the given arcs from u to v: ways are grown arc by
\* arc, never back to a node they have left.
SimpleWays(g, arcs, u, v) ==
  LET Starts == {<<arc>> : arc \in {a \in arcs : From(g, a) = u /\ To(g, a) # u}}
      Longer(way) ==
        {Append(way, arc) :
           arc \in {a \in arcs : /\ From(g, a) = LastNode(g, way)
                                 /\ LastNode(g, way) # v
                                 /\ To(g, a) \notin PassesThrough(g, way)}}
      Ways[n \in Nat] ==
        IF n <= 1 THEN Starts
        ELSE LET shorter == Ways[n - 1] IN shorter \cup UNION {Longer(way) : way \in shorter}
  IN  {way \in Ways[Cardinality(EnabledNodes(g))] : LastNode(g, way) = v}

\* The sets of k shortest ways: NetworkX is free in the order of ways of
\* equal length, so several sets may qualify.
KShortestPaths(ways, k) ==
  {S \in kSubset(Min({k, Cardinality(ways)}), ways) :
     \A p \in S, q \in ways \ S : Len(p) <= Len(q)}

EdgesOfWay(way) == {way[i][1] : i \in DOMAIN way}

\* The detours of one triggered passage.  The passage itself counts among
\* its paths (EdgeSet) and not among its detours (Len of which is kEffective).
DetourSet(g, e, ways) ==
  [origin |-> e, detours |-> ways, kEffective |-> Cardinality(ways),
   edgeSet |-> {e} \cup UNION {EdgesOfWay(way) : way \in ways}]

DetourSetsOf(g, e, k) ==
  {DetourSet(g, e, ways) :
     ways \in KShortestPaths(
                IF g.edge[e].a = g.edge[e].b THEN {}
                ELSE SimpleWays(g, Adjacency(g, {e}), g.edge[e].a, g.edge[e].b), k)}

\* What the router may return: one detour set for each triggered passage
\* that is known and enabled.
RouteDetour(g, triggered, k) ==
  LET origins == triggered \cap EnabledEdges(g)
  IN  {[e \in origins |-> choice[e]] :
         choice \in {f \in [origins -> UNION {DetourSetsOf(g, e, k) : e \in origins}] :
                       \A e \in origins : f[e].origin = e}}

TriggerEdgeSet(detours) == UNION {detours[e].edgeSet : e \in DOMAIN detours}
=============================================================================
