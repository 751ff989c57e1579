----------------------------- MODULE CycleClaims -----------------------------
(***************************************************************************)
(* What the comments of the code say of the request cycle, stated over its *)
(* history.  The cycle does not live up to these.                          *)
(***************************************************************************)
EXTENDS RequestCycle

VARIABLES
  measured,   (* arcs whose metric triggers ever fired                     *)
  attempts    (* SKIPPED_TIME answers since no route waited                *)

CInit == Init /\ measured = {} /\ attempts = 0

CNext ==
  /\ Next
  /\ measured' = measured \cup answer'.metric
  /\ attempts' = IF Queued(state'.queue) = {} THEN 0
                 ELSE IF answer'.verdict = "SKIPPED_TIME" THEN attempts + 1
                 ELSE attempts

CSpec == CInit /\ [][CNext]_<<now, state, answer, measured, attempts>>

-----------------------------------------------------------------------------
(***************************************************************************)
(* Manual triggers are not counted: an arc has a retrigger count only if   *)
(* what it measures once triggered it.  A flagged arc whose optimization   *)
(* timed out is queued again as if it had measured a surge, and counted    *)
(* when the queue fires.                                                   *)
(***************************************************************************)
ManualTriggersNotCounted ==
  \A e \in DOMAIN state.retrigger : state.retrigger[e].count > 0 => e \in measured

(***************************************************************************)
(* The consecutive skip count counts consecutive skips: no more than the   *)
(* timed-out attempts at the routes that wait now.  Only OPTIMIZED and     *)
(* giving up reset it; when the waiting routes expire it stays, and the    *)
(* next trigger starts with attempts already used up.                      *)
(***************************************************************************)
SkipCountIsConsecutive == state.skipCount <= attempts
=============================================================================
