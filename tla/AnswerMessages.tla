--------------------------- MODULE AnswerMessages ---------------------------
(* The messages of an answer (rpc/codec.py): the detection state and the      *)
(* result, which RequestMessages has, and the feedback and the diagnostics.   *)
EXTENDS RequestMessages

-----------------------------------------------------------------------------
(* Enumerations.                                                              *)

Verdict ==
  Enum({"OPTIMIZED", "QUEUED", "SKIPPED_NO_TRIGGER", "SKIPPED_COOLDOWN", "SKIPPED_WARMUP",
        "SKIPPED_TIME", "ERROR_SIZE_EXCEEDED", "ERROR_INVALID_INPUT"})

Mode == Enum({"OPEN", "CLOSED"})

WarningCode ==
  Enum({"RETRIGGER", "SIZE_NEAR_LIMIT", "CONSTRAINT_NEAR", "LOW_COVERAGE", "FALLBACK_APPLIED",
        "QUEUE_EXPIRED", "SOLVER_GIVEUP", "UNDRAINABLE_EDGE", "MANY_TRIGGER_ZONES",
        "LOW_CONFIDENCE_PROPOSAL", "INSUFFICIENT_WINDOW_SAMPLES", "PARTIAL_COMBINED_TRIGGER"})

ObservationState == Enum({"UNOBSERVED", "INVALID", "HOLD", "STALE", "OK"})

HistoryTier == Enum({"NONE", "WINDOW_ONLY", "SHORT", "ESTABLISHED"})

Judgement == Enum({"SURGE", "HIGH_STAGNATION", "COMBINED", "PUNCTURE"})

TriggerEvidenceSource ==
  Enum({"SURGE", "HIGH_STAGNATION", "PUNCTURE", "DANGER", "QUEUE_SCORE", "QUEUE_DIVERSITY"})

FallbackKind ==
  Enum({"REFERENCE_USED", "DEFAULT_ETA_USED", "PERCENTILE_DEGRADED", "DIRECTION_PROPOSAL_HELD",
        "PHASE2_SKIPPED", "BUDGET_EXTENDED", "FORECAST_PRIOR_DEGRADED", "FORECAST_ARC_IMPUTED",
        "INFEASIBLE_LP_RELAXED", "DETOUR_TRUNCATED", "LP_INFEASIBLE_HELD",
        "GREEDY_NO_IMPROVEMENT", "LOCALIZATION_CAPPED", "RESTRICTION_PROPOSED"})

StepKind ==
  Enum({"VALIDATION", "MODE_DECISION", "EVENTS_APPLY", "DETECTION", "FORECASTING", "DETOUR",
        "OPTIMIZATION", "FEEDBACK"})

StepStatus == Enum({"OK", "SKIPPED", "FAILED"})

ODResolutionMode == Enum({"TURNING_EXACT", "DOUBLY_CONSTRAINED", "DISTANCE_PRIOR"})

ODResolutionReason ==
  Enum({"DETERMINED", "MERGE_SPLIT_AMBIGUOUS", "SPARSE_OBSERVATION", "NODE_ONLY"})

\* Of the reasons of a restriction, feedback has no OVERLOAD.
FeedbackRestrictionReason ==
  Enum({"UNDRAINABLE_STAGNATION", "RESIDUAL_TAU", "PUNCTURE", "NODE_DANGER_UPSTREAM"})

-----------------------------------------------------------------------------
(* Feedback.                                                                  *)

Warning == Message([code |-> Plain(WarningCode), context |-> All(KeyValue)])

ComputeMeta ==
  Message(Together([mode |-> Plain(Mode), optimization_mode |-> Plain(OptimizationMode),
                    reachability_constraints |->
                      Must(Message(Fields({"local", "boundary"}, Plain(Text))))],
                   Fields({"solver_phase1_ms", "solver_phase2_ms", "solver_phase1_status",
                           "solver_phase2_status"}, Plain(Text))))

TagObservation ==
  Message([attribute_tag |-> Plain(Text), eta_estimate |-> Plain(Number),
           edge_count |-> Plain(Text), observation_span_min |-> Plain(Number)])

PredictionActualDiff ==
  Message(Fields({"expected_tau_star", "actual_tau_star", "delta"}, Plain(Number)))

ReferenceUsage ==
  Message([used_tags |-> All(Text), used_default |-> Plain(Text), used_edges_count |-> Plain(Text)])

QualityMetrics ==
  Message(Fields({"vector_coverage_ratio", "low_confidence_arc_ratio", "history_completeness"},
                 Plain(Number)))

DetourMetrics ==
  Message([k_requested |-> Plain(Text), k_effective |-> Plain(Text),
           paths_actually_used_ratio |-> Plain(Number)])

RestrictionMetrics ==
  Message([proposed_count |-> Plain(Text),
           by_reason |-> All(Message([reason |-> Plain(FeedbackRestrictionReason),
                                      count |-> Plain(Text)])),
           estimated_inflow_cut |-> Plain(Number), undrainable_origin_ratio |-> Plain(Number)])

DirectionChangeSummary == Message(Fields({"convert", "release", "flip"}, Plain(Text)))

AbDiff ==
  Message(Together([enabled_extensions |-> All(Text), diff_summary |-> Plain(Text)],
                   Fields({"shadow_tau_star", "actual_tau_star", "shadow_throughput",
                           "actual_throughput"}, Plain(Number))))

NodeDemand ==
  Message(Together([node_id |-> Plain(NodeId)],
                   Fields({"gross_out", "gross_in", "production", "absorption", "transit", "staying"},
                          Plain(Number))))

NodeResolution ==
  Message([node_id |-> Plain(NodeId), mode |-> Plain(ODResolutionMode),
           reason |-> Plain(ODResolutionReason), imputed_arcs |-> All(EdgeId)])

ForecastSummary ==
  Message([node_demand |-> All(NodeDemand), reproduction_error |-> Plain(Number),
           estimation_resolution |-> All(NodeResolution)])

FeedbackValues ==
  Message([schema_version |-> Plain(Stamp), compute_meta |-> Must(ComputeMeta),
           objective_values |-> Must(ObjectiveValues), per_tag_observations |-> All(TagObservation),
           prediction_actual_diff |-> May(PredictionActualDiff),
           reference_usage |-> Must(ReferenceUsage), quality_metrics |-> Must(QualityMetrics),
           detour_metrics |-> May(DetourMetrics), restriction_metrics |-> May(RestrictionMetrics),
           direction_change_summary |-> Must(DirectionChangeSummary), ab_diff |-> May(AbDiff),
           forecast_summary |-> May(ForecastSummary), warnings |-> All(Warning)])

-----------------------------------------------------------------------------
(* Diagnostics and the answer.                                                *)

TriggerEvidence ==
  Message([source |-> Plain(TriggerEvidenceSource), occurred_at |-> Must(Time),
           edge_id |-> May(Reference("edge")), node_id |-> May(Reference("node")),
           metric_value |-> May(Number), threshold_value |-> May(Number),
           duration_min |-> May(Number)])

FallbackRecord ==
  Message([kind |-> Plain(FallbackKind), reason |-> Plain(Text), affected_targets |-> All(Text)])

StepRecord ==
  Message([step |-> Plain(StepKind), elapsed_ms |-> Plain(Text), status |-> Plain(StepStatus),
           note |-> May(Text)])

ElementStateRecord ==
  Message([target_key |-> Plain(Stamp), observation |-> Plain(ObservationState),
           history |-> Plain(HistoryTier), line_points |-> Plain(Text), skipped |-> All(Judgement)])

Diagnostics ==
  Message([mode |-> Plain(Mode), schema_version |-> Plain(Stamp), warnings |-> All(Warning),
           trigger_evidences |-> All(TriggerEvidence), fallbacks_applied |-> All(FallbackRecord),
           steps_executed |-> All(StepRecord), element_states |-> All(ElementStateRecord)])

\* The time an answer took is not negative when it is read.
Elapsed == Atom("elapsed", {"-1"}, {})

OptimizeResponse ==
  Message([request_id |-> Must(Name), verdict |-> Must(Verdict),
           updated_detection_state |-> Must(DetectionState), feedback_values |-> Must(FeedbackValues),
           diagnostics |-> Must(Diagnostics), optimization_result |-> May(OptimizationResult),
           elapsed_ms |-> Plain(Elapsed)])
=============================================================================
