----------------------------- MODULE FieldClaims -----------------------------
(* What a comment says of pausing the exits, and does not hold.              *)
EXTENDS MCFieldControls

\* The node between the gate and the exit is in danger, and people leave at
\* both.
ClaimSituations ==
  {Situation(Site(Gate, Danger(Inner), Exit), coms, <<>>) :
     coms \in {<<Pair(1, 3)>>, <<Pair(2, 1), Pair(2, 3)>>}}

\* boundary.py:112 pauses leaving at an exit because other exits are there;
\* boundary.py:8 warns of blocking the only way out.  Each exit counts the
\* others without asking whether they are being paused too.
AnExitStaysOpen ==
  Fresh /\ ExitNodes(situation.g) # {} =>
    \E n \in ExitNodes(situation.g) : <<n, "PAUSE_EGRESS">> \notin answer.boundary
=============================================================================
