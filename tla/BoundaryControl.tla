-------------------------- MODULE BoundaryControl --------------------------
(***************************************************************************)
(* Pausing and resuming the boundary nodes near danger                     *)
(* (optimization/boundary.py).  A control is a pair of node and action.    *)
(***************************************************************************)
EXTENDS FlowGraph, Sequences

\* Boundary nodes in danger or next to it: at the end of an endangered
\* passage, or joined by a passage to an endangered node inside.
DangerNear(g) ==
  LET dangerEdges == {e \in EnabledEdges(g) : g.edge[e].danger}
      dangerNodes == {n \in EnabledNodes(g) : g.node[n].danger}
      inside      == dangerNodes \ BoundaryNodes(g)
      NextTo(n)   == UNION {Ends(g, e) : e \in {d \in EnabledEdges(g) : n \in Ends(g, d)}}
  IN  BoundaryNodes(g) \cap
        (dangerNodes \cup UNION {Ends(g, e) : e \in dangerEdges}
                     \cup UNION {NextTo(n) : n \in inside})

\* Demand that enters at an entry and demand that leaves at an exit.
Inflow(g, coms)  ==
  EntryNodes(g) \cap {coms[i].origin : i \in {j \in DOMAIN coms : coms[j].demand > 0}}
Outflow(g, coms) ==
  ExitNodes(g) \cap {coms[i].destination : i \in {j \in DOMAIN coms : coms[j].demand > 0}}

\* The controls of a boundary node near danger.  People are kept in only if
\* the site has another exit.
PausesOf(g, coms, n) ==
  LET in  == n \in Inflow(g, coms)
      out == n \in Outflow(g, coms)
      hasAlternateExit == Cardinality(ExitNodes(g)) > 1
  IN  (IF in THEN {"PAUSE_INGRESS"} ELSE {})
      \cup (IF out /\ hasAlternateExit THEN {"PAUSE_EGRESS"} ELSE {})
      \cup (IF ~in /\ ~out /\ n \in EntryNodes(g) THEN {"PAUSE_INGRESS"} ELSE {})

PausedNow(g, coms) ==
  UNION {{n} \X PausesOf(g, coms, n) : n \in DangerNear(g)}

\* Seeded fault: only entries are opened again.
ResumedEntries(g, coms, previous) ==
  LET before == {c[1] : c \in {d \in previous : d[2] = "PAUSE_INGRESS" /\ d[1] \in EntryNodes(g)}}
      paused == {c[1] : c \in PausedNow(g, coms)}
  IN  (before \ paused) \X {"RESUME"}

\* A node paused by the previous answer is resumed when nothing pauses it
\* now, if it still serves the direction that was paused.
ResumedNow(g, coms, previous) ==
  LET Serves(control) ==
        \/ control[2] = "PAUSE_INGRESS" /\ control[1] \in EntryNodes(g)
        \/ control[2] = "PAUSE_EGRESS" /\ control[1] \in ExitNodes(g)
      before == {c[1] : c \in {d \in previous : Serves(d)}}
      paused == {c[1] : c \in PausedNow(g, coms)}
  IN  (before \ paused) \X {"RESUME"}

ComputeBoundaryControl(g, isOpen, previous, coms) ==
  IF ~isOpen \/ BoundaryNodes(g) = {} THEN {}
  ELSE PausedNow(g, coms) \cup ResumedNow(g, coms, previous)
=============================================================================
