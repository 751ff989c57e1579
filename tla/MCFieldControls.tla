--------------------------- MODULE MCFieldControls ---------------------------
(* A street 1-2-3 with the gate 1 and the exit 3, whose ends can be in        *)
(* danger, out of service, or no boundary at all.                             *)
EXTENDS FieldControls

Node(entry, exit, danger) == [entry |-> entry, exit |-> exit, danger |-> danger, enabled |-> TRUE]

Site(gate, inner, exit) ==
  [node |-> (1 :> gate @@ 2 :> inner @@ 3 :> exit),
   edge |-> (1 :> [danger |-> FALSE, enabled |-> TRUE, a |-> 1, b |-> 2]
             @@ 2 :> [danger |-> FALSE, enabled |-> TRUE, a |-> 2, b |-> 3])]

Calm(node)   == node
Danger(node) == [node EXCEPT !.danger = TRUE]
Off(node)    == [node EXCEPT !.enabled = FALSE]
NoGate(node) == [node EXCEPT !.entry = FALSE, !.exit = FALSE]

Gate  == Node(TRUE, TRUE, FALSE)
Inner == Node(FALSE, FALSE, FALSE)
Exit  == Node(FALSE, TRUE, FALSE)

Sites ==
  {Site(Gate, Inner, Exit), Site(Danger(Gate), Inner, Exit), Site(Gate, Danger(Inner), Exit),
   Site(Off(Gate), Inner, Exit), Site(NoGate(Gate), Inner, NoGate(Exit))}

Pair(o, d) == [origin |-> o, destination |-> d, demand |-> 1]

Situation(site, coms, zonal) == [coms |-> coms, zonal |-> zonal, g |-> site]

Limit(e) == Proposal(e, "LIMIT", {}, "RESIDUAL_TAU")

\* Gates in and out of danger and service, with demand inwards and with
\* demand in both directions; on the site as it is, what zones may ask.
MCSituations ==
  {Situation(site, coms, <<>>) :
     site \in Sites, coms \in {<<Pair(1, 3)>>, <<Pair(1, 3), Pair(2, 1)>>}}
  \cup {Situation(Site(Gate, Inner, Exit), <<Pair(1, 3)>>, zonal) :
          zonal \in {<<Limit(1)>>, <<Limit(2), Limit(1)>>, <<Proposal(2, "CLOSE", {}, "PUNCTURE")>>}}
=============================================================================
