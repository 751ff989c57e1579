----------------------------- MODULE FlowGraph -----------------------------
(***************************************************************************)
(* The graph of passages and the directed arcs the optimization works on   *)
(* (domain/graph.py, optimization/arcs.py, optimization/drainable.py).     *)
(*                                                                         *)
(* A graph is a record g of two functions.  g.node[n] says whether a node  *)
(* is enabled, in a danger zone (and then how many may pass it), and       *)
(* whether people may enter or leave the site there.  g.edge[e] gives the  *)
(* ends of a passage, its direction constraint, the direction it has now,  *)
(* and what limits it.  Identifiers are numbers, in the order of their     *)
(* strings; an optional number is a set with at most one member.           *)
(*                                                                         *)
(* A choice of directions (the code's map from arc to 0 or 1) is the set   *)
(* of arcs that are open.                                                  *)
(***************************************************************************)
EXTENDS Naturals, FiniteSets, FiniteSetsExt

\* The members of S as a sequence, in the strict order given as a set of pairs:
\* as many come before a member as are ordered before it.
OrderedBy(S, before) ==
  [i \in 1 .. Cardinality(S) |->
     CHOOSE e \in S : Cardinality({d \in S : <<d, e>> \in before}) = i - 1]

\* In the order of identifiers.
InOrder(S) == OrderedBy(S, {p \in S \X S : p[1] < p[2]})

Directions == {"A_TO_B", "B_TO_A"}

Constraints ==
  {"BIDIRECTIONAL_PRIOR", "ONEWAY_A_TO_B_PRIOR", "ONEWAY_B_TO_A_PRIOR",
   "LEGAL_FIXED_A_TO_B", "LEGAL_FIXED_B_TO_A", "LEGAL_FIXED_BIDIRECTIONAL"}

EnabledNodes(g) == {n \in DOMAIN g.node : g.node[n].enabled}
EnabledEdges(g) == {e \in DOMAIN g.edge : g.edge[e].enabled}
EntryNodes(g)   == {n \in EnabledNodes(g) : g.node[n].entry}
ExitNodes(g)    == {n \in EnabledNodes(g) : g.node[n].exit}

\* Every kind of active boundary admits entry, exit, or both.
BoundaryNodes(g) == EntryNodes(g) \cup ExitNodes(g)

Ends(g, e) == {g.edge[e].a, g.edge[e].b}

ActiveEdges(g) == {e \in EnabledEdges(g) : Ends(g, e) \subseteq EnabledNodes(g)}

-----------------------------------------------------------------------------
(* Arcs                                                                    *)

\* The directions a constraint lets the optimization open (alpha = 1).
Permitted(constraint) ==
  CASE constraint = "LEGAL_FIXED_A_TO_B" -> {"A_TO_B"}
    [] constraint = "LEGAL_FIXED_B_TO_A" -> {"B_TO_A"}
    [] OTHER -> Directions

\* The constraints under which the permitted directions are also prescribed
\* (beta = 1).
LegalFixed ==
  {"LEGAL_FIXED_A_TO_B", "LEGAL_FIXED_B_TO_A", "LEGAL_FIXED_BIDIRECTIONAL"}

Arcs(g) == ActiveEdges(g) \X Directions
ArcsOf(e) == {e} \X Directions

From(g, arc) == IF arc[2] = "A_TO_B" THEN g.edge[arc[1]].a ELSE g.edge[arc[1]].b
To(g, arc)   == IF arc[2] = "A_TO_B" THEN g.edge[arc[1]].b ELSE g.edge[arc[1]].a

OutArcs(g, n) == {arc \in Arcs(g) : From(g, arc) = n}
InArcs(g, n)  == {arc \in Arcs(g) : To(g, arc) = n}

PermittedArcs(g) ==
  {arc \in Arcs(g) : arc[2] \in Permitted(g.edge[arc[1]].constraint)}

\* The directions as they are now: a passage open both ways has two arcs.
CurrentArcs(g) ==
  {arc \in Arcs(g) : g.edge[arc[1]].current \in {arc[2], "BIDIRECTIONAL"}}

\* The directions in which x opens the passage e.
Opened(x, e) == {d \in Directions : <<e, d>> \in x}

\* The passages whose prescribed directions x does not have.
LegalViolations(g, x) ==
  {e \in ActiveEdges(g) : /\ g.edge[e].constraint \in LegalFixed
                          /\ Opened(x, e) # Permitted(g.edge[e].constraint)}

-----------------------------------------------------------------------------
(* Reachability                                                            *)

Links(g, x) == {<<From(g, arc), To(g, arc)>> : arc \in x}
Backwards(links) == {<<l[2], l[1]>> : l \in links}

\* Breadth-first search from a set of nodes: after as many rounds as there
\* are links nothing new is found.
ReachableFrom(links, sources) ==
  LET Seen[round \in 0 .. Cardinality(links)] ==
        IF round = 0 THEN sources
        ELSE LET seen == Seen[round - 1]
             IN  seen \cup {l[2] : l \in {k \in links : k[1] \in seen}}
  IN  Seen[Cardinality(links)]

\* Every node is reached from some entry and reaches some exit; a side
\* without boundary nodes is not looked at.
BoundaryConnected(g, links) ==
  /\ \/ ExitNodes(g) = {}
     \/ EnabledNodes(g) \subseteq ReachableFrom(Backwards(links), ExitNodes(g))
  /\ \/ EntryNodes(g) = {}
     \/ EnabledNodes(g) \subseteq ReachableFrom(links, EntryNodes(g))

BoundaryReachabilityOk(g, x) == BoundaryConnected(g, Links(g, x))

\* No node loses its last way in or its last way out.
LocalReachabilityOk(g, x) ==
  \A n \in EnabledNodes(g) :
    /\ OutArcs(g, n) # {} => OutArcs(g, n) \cap x # {}
    /\ InArcs(g, n) # {} => InArcs(g, n) \cap x # {}

\* Seeded fault: the passage itself still counts.
ConnectedAnyway(g, e, x, isOpen) == isOpen => BoundaryReachabilityOk(g, x)

\* Whether a passage can be closed.  In a closed site the nodes must also
\* stay one component; in an open site they must stay connected to the
\* boundary.
ClosePreservesConnectivity(g, e, x, isOpen) ==
  LET open  == x \ ArcsOf(e)
      links == Links(g, open)
  IN  /\ \A n \in EnabledNodes(g) : /\ OutArcs(g, n) \cap open # {}
                                    /\ InArcs(g, n) \cap open # {}
      /\ IF isOpen THEN BoundaryConnected(g, links)
         ELSE \/ EnabledNodes(g) = {}
              \/ EnabledNodes(g) \subseteq
                   ReachableFrom(links \cup Backwards(links), {Min(EnabledNodes(g))})

\* The stagnant passages some origin-destination pair can use: an arc of the
\* passage leaves a node the origin reaches for one that reaches the
\* destination.
Drainable(g, pairs, stagnant) ==
  LET links == Links(g, PermittedArcs(g))
      OnTheWay(arc, pair) ==
        /\ From(g, arc) \in ReachableFrom(links, {pair[1]})
        /\ To(g, arc) \in ReachableFrom(Backwards(links), {pair[2]})
  IN  {e \in ActiveEdges(g) \cap stagnant :
         \E arc \in ArcsOf(e) \cap PermittedArcs(g), pair \in pairs : OnTheWay(arc, pair)}

Undrainable(g, pairs, stagnant) == stagnant \ Drainable(g, pairs, stagnant)
=============================================================================
