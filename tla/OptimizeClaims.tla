--------------------------- MODULE OptimizeClaims ---------------------------
(***************************************************************************)
(* What comments of the code say of an answer of the search, and does not  *)
(* hold.                                                                   *)
(***************************************************************************)
EXTENDS MCOptimizeCall

\* model.py:69 calls the capacity of a node in danger an upper limit of what
\* passes it.  A zone's program applies it to the zone's own arcs only, so
\* people who come in from outside the zone pass on top of it.
NodeLimitsKept ==
  \A a \in FromSearch, n \in DOMAIN inp.nodeCap :
    SumFunctionOnSet(a.flow, InArcs(g, n)) <= inp.nodeCap[n]

\* restriction.py:332 proposes CLOSE only for what can be closed with the
\* site still connected.  Each zone checks its own proposal, alone.
ClosingsKeepConnectivity ==
  \A a \in FromSearch :
    isOpen /\ Closed(a) # {} => Reaches(a.x \ UNION {ArcsOf(e) : e \in Closed(a)})
=============================================================================
