---------------------------- MODULE TriggerZones ----------------------------
(***************************************************************************)
(* The zones around the triggers in which directions are reconsidered      *)
(* (optimization/localization.py): the neighbourhoods of the triggers,     *)
(* merged where they meet, ordered and cut by severity, and extended by    *)
(* the shortest ways to the boundary.                                      *)
(***************************************************************************)
EXTENDS FlowGraph, Integers, Sequences, SequencesExt

\* A zone before it is completed: its triggers, its core and its severity.
Core(edges, nodes, core, severity) ==
  [seedEdges |-> edges, seedNodes |-> nodes, nodes |-> core, severity |-> severity]

MaxOr0(S) == IF S = {} THEN 0 ELSE Max(S)

Adjacent(g) == LET links == {<<g.edge[e].a, g.edge[e].b>> : e \in ActiveEdges(g)}
               IN  links \cup Backwards(links)

Neighbours(g, n) == {l[2] : l \in {k \in Adjacent(g) : k[1] = n}}

\* The nodes at most hops away, whatever the directions.
Within(g, seeds, hops) ==
  LET Ball[h \in 0 .. hops] ==
        IF h = 0 THEN seeds
        ELSE LET ball == Ball[h - 1]
             IN  ball \cup UNION {Neighbours(g, n) : n \in ball}
  IN  Ball[hops]

Cores(g, edges, nodes, hops, severity) ==
  LET EdgeCore(e) == Core({e}, {}, Within(g, Ends(g, e), hops), severity[e])
      NodeCore(n) == Core({}, {n}, Within(g, {n}, hops),
                          MaxOr0({severity[arc[1]] : arc \in OutArcs(g, n)}))
      es == InOrder(edges \cap ActiveEdges(g))
      ns == InOrder(nodes \cap EnabledNodes(g))
  IN  [i \in DOMAIN es |-> EdgeCore(es[i])] \o [i \in DOMAIN ns |-> NodeCore(ns[i])]

Meet(z1, z2) == z1.nodes \cap z2.nodes # {}

Joined(z1, z2) ==
  Core(z1.seedEdges \cup z2.seedEdges, z1.seedNodes \cup z2.seedNodes,
       z1.nodes \cup z2.nodes, Max({z1.severity, z2.severity}))

\* Seeded fault: only the first zone that meets the new one is absorbed.
AbsorbFirst(merged, zone) ==
  LET met == {i \in DOMAIN merged : Meet(merged[i], zone)}
  IN  IF met = {} THEN Append(merged, zone)
      ELSE [merged EXCEPT ![Min(met)] = Joined(@, zone)]

\* One pass over the zones found so far: each that meets the growing zone is
\* absorbed, the others stay, and the grown zone goes to the end.
Absorb(merged, zone) ==
  LET Grown[i \in 0 .. Len(merged)] ==
        IF i = 0 THEN zone
        ELSE LET grown == Grown[i - 1]
             IN  IF Meet(merged[i], grown) THEN Joined(merged[i], grown) ELSE grown
      apart == InOrder({i \in DOMAIN merged : ~Meet(merged[i], Grown[i - 1])})
  IN  Append([k \in DOMAIN apart |-> merged[apart[k]]], Grown[Len(merged)])

MergeOverlapping(cores) ==
  LET Merged[i \in 0 .. Len(cores)] ==
        IF i = 0 THEN <<>> ELSE Absorb(Merged[i - 1], cores[i])
  IN  Merged[Len(cores)]

\* The nodes of the shortest way from the core to a boundary node that a
\* breadth-first search in the order of identifiers finds: of all shortest
\* ways the least, node by node.
ShortestPathNodes(g, seeds, target) ==
  LET Near(h)   == Within(g, {target}, h)
      bound     == Cardinality(EnabledNodes(g))
      reach     == {h \in 0 .. bound : Near(h) \cap seeds # {}}
      Way[h \in Nat] ==
        \* the way's node at distance h from the target
        IF h = Min(reach) THEN Min(Near(h) \cap seeds)
        ELSE Min(Neighbours(g, Way[h + 1]) \cap Near(h))
  IN  IF reach = {} THEN {} ELSE {Way[h] : h \in 0 .. Min(reach)}

EdgesInside(g, nodes) == {e \in ActiveEdges(g) : Ends(g, e) \subseteq nodes}

Completed(g, zone) ==
  LET nodes == zone.nodes \cup
                 UNION {ShortestPathNodes(g, zone.nodes, n) : n \in BoundaryNodes(g)}
  IN  [seedEdges |-> zone.seedEdges, seedNodes |-> zone.seedNodes, severity |-> zone.severity,
       core |-> zone.nodes, nodes |-> nodes, edges |-> EdgesInside(g, nodes)]

\* More severe zones first, then the zone with the least trigger; a zone
\* without edges comes last.  Equal zones keep their order.
ZoneKey(zone) ==
  LET last == 1000000
  IN  IF zone.seedEdges # {} THEN Min(zone.seedEdges)
      ELSE IF zone.edges # {} THEN Min(zone.edges) ELSE last

Ranked(zones) ==
  LET places == DOMAIN zones
      Before(i, j) ==
        \/ zones[i].severity > zones[j].severity
        \/ /\ zones[i].severity = zones[j].severity
           /\ \/ ZoneKey(zones[i]) < ZoneKey(zones[j])
              \/ ZoneKey(zones[i]) = ZoneKey(zones[j]) /\ i < j
      order == OrderedBy(places, {p \in places \X places : Before(p[1], p[2])})
  IN  [i \in DOMAIN order |-> zones[order[i]]]

\* The zones of a request and whether some were cut.
BuildTriggerZones(g, edges, nodes, hops, maxZones, severity) ==
  LET merged == MergeOverlapping(Cores(g, edges, nodes, hops, severity))
      ranked == Ranked([i \in DOMAIN merged |-> Completed(g, merged[i])])
      capped == Len(ranked) > maxZones
  IN  [zones |-> IF capped THEN SubSeq(ranked, 1, maxZones) ELSE ranked, capped |-> capped]
=============================================================================
