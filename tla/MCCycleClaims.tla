---------------------------- MODULE MCCycleClaims ----------------------------
(* Small instance of CycleClaims: one arc that is flagged or punctures. *)
EXTENDS CycleClaims

CONSTANTS a, n

Arc(puncture) ==
  [flags |-> {"OK"}, lag |-> 0, tier |-> "ESTABLISHED", stagnation |-> TRUE,
   breaches |-> {}, linePoints |-> 2, flow |-> "steady", puncture |-> puncture,
   score |-> 1]

ClaimReadings == {[e \in Edges |-> Arc(p)] : p \in {"below", "over"}}
ClaimEvents   == {<< >>, <<[kind |-> "DANGER_FLAG_UP", target |-> a]>>}
ClaimEnabled  == {Targets}
=============================================================================
