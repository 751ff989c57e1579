-------------------------- MODULE MCStagnationTimer --------------------------
(* Small instance of StagnationTimer: one reading for each way an arc can be *)
(* judged or fail to be judged.                                              *)
EXTENDS StagnationTimer

R(flags, lag, tier, breaches, flow) ==
  [flags |-> flags, lag |-> lag, tier |-> tier, stagnation |-> TRUE,
   breaches |-> breaches, linePoints |-> 2, flow |-> flow,
   puncture |-> "none", score |-> 1]

MCReadings ==
  { R({"OK"}, 0, "ESTABLISHED", {"percentile", "delta"}, "surge"),
    R({"OK"}, 0, "ESTABLISHED", {"percentile", "delta"}, "steady"),
    R({"OK"}, 0, "ESTABLISHED", {"percentile"}, "steady"),
    R({"OK"}, 0, "SHORT", {"delta"}, "zero"),
    R({"OK"}, 0, "SHORT", {}, "surge"),
    R({"OK", "HOLD"}, 0, "ESTABLISHED", {"percentile", "delta"}, "surge"),
    R({"OK"}, StaleAfter, "ESTABLISHED", {"percentile", "delta"}, "surge"),
    R({"OK"}, 0, "NONE", {"delta"}, "steady"),
    R({"OK", "INVALID"}, 0, "ESTABLISHED", {"percentile", "delta"}, "surge"),
    R({}, 0, "ESTABLISHED", {}, "steady") }
=============================================================================
