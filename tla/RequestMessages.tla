--------------------------- MODULE RequestMessages ---------------------------
(* The messages of a request (rpc/codec.py): what each of their fields must   *)
(* be when it is read and when it is written, and what decode_request checks  *)
(* across them.                                                               *)
EXTENDS WireTypes

EdgeId == Id("edge")
NodeId == Id("node")

\* The fields fs, all of one kind, and the fields of both.
Fields(fs, field) == [f \in fs |-> field]

Together(some, more) ==
  [f \in DOMAIN some \cup DOMAIN more |-> IF f \in DOMAIN some THEN some[f] ELSE more[f]]

-----------------------------------------------------------------------------
(* Enumerations: every member has a number of its own on the wire.            *)

NodeKind == Enum({"GOAL", "GOAL_TRANSIT_MIXED", "TRANSIT_ONLY"})

BoundaryDirection == Enum({"ENTRY", "EXIT", "ENTRY_AND_EXIT"})

DirectionConstraint ==
  Enum({"BIDIRECTIONAL_PRIOR", "ONEWAY_A_TO_B_PRIOR", "ONEWAY_B_TO_A_PRIOR",
        "LEGAL_FIXED_A_TO_B", "LEGAL_FIXED_B_TO_A", "LEGAL_FIXED_BIDIRECTIONAL"})

CurrentDirection == Enum({"A_TO_B", "B_TO_A", "BIDIRECTIONAL"})

ObservationType == Enum({"VECTOR", "SCALAR"})

FlowDirection == Enum({"A_TO_B", "B_TO_A"})

ConfidenceFlag == Enum({"OK", "HOLD", "INVALID"})

StagnationDerivation == Enum({"BASIC", "REFINED"})

EventTerm == Enum({"SHORT", "LONG"})

OptimizationMode == Enum({"LIGHTWEIGHT", "STRICT"})

QueuedTriggerKind == Enum({"SURGE", "HIGH_STAGNATION", "PUNCTURE", "DANGER"})

EventKind ==
  Enum({"DANGER_FLAG_UP", "DANGER_FLAG_DOWN", "DIRECTION_SWITCH", "ADD_EDGE", "ADD_NODE",
        "DISABLE", "ENABLE", "SCHEDULED_INFLOW", "SCHEDULED_ATTR_CHANGE", "SENSOR_SET_CHANGED"})

RestrictionReason ==
  Enum({"UNDRAINABLE_STAGNATION", "RESIDUAL_TAU", "PUNCTURE", "NODE_DANGER_UPSTREAM", "OVERLOAD"})

SolverStatus == Enum({"OPTIMAL", "FEASIBLE", "INFEASIBLE", "TIMEOUT", "LIGHTWEIGHT"})

ImportanceDirection == Enum({"A_TO_B", "B_TO_A", "NONE"})

ProposedDirection == Enum({"A_TO_B", "B_TO_A", "BIDIRECTIONAL"})

DirectionChangeType == Enum({"CONVERT_ONEWAY", "RELEASE_ONEWAY", "FLIP_ONEWAY", "KEEP"})

RestrictionAction == Enum({"CLOSE", "LIMIT", "RESUME"})

BoundaryAction == Enum({"PAUSE_INGRESS", "PAUSE_EGRESS", "RESUME"})

-----------------------------------------------------------------------------
(* The site.                                                                  *)

Boundary == Message([direction |-> Must(BoundaryDirection), active |-> Must(Text)])

Node ==
  Message([node_id |-> Must(NodeId), kind |-> Must(NodeKind), enabled |-> Must(Text),
           attribute_tags |-> All(Text), time_resolution_s |-> Must(Text),
           danger_flag |-> Must(Text), danger_capacity |-> May(Number), boundary |-> May(Boundary)])

Edge ==
  Message([edge_id |-> Must(EdgeId), endpoint_a |-> Must(NodeId), endpoint_b |-> Must(NodeId),
           direction_constraint |-> Must(DirectionConstraint),
           current_direction |-> Must(CurrentDirection), enabled |-> Must(Text),
           observation_type |-> Must(ObservationType), attribute_tags |-> All(Text),
           time_resolution_s |-> Must(Text), danger_flag |-> Must(Text),
           danger_flow_capacity |-> May(Number), capacity_hint |-> May(Number)])

Graph == Message([nodes |-> All(Node), edges |-> All(Edge)])

-----------------------------------------------------------------------------
(* Observations and history.                                                  *)

ArcFlow ==
  Message([edge_id |-> Must(EdgeId), direction |-> Must(FlowDirection),
           flow_rate |-> Must(Number), confidence_flag |-> Must(ConfidenceFlag)])

ArcStagnation ==
  Message([edge_id |-> Must(EdgeId), stagnation |-> Must(Number),
           derivation |-> Must(StagnationDerivation), same_sensor_flow |-> Must(Text),
           confidence_flag |-> Must(ConfidenceFlag)])

ArcScalarFlow ==
  Message([edge_id |-> Must(EdgeId), observed_count |-> Must(Number),
           confidence_flag |-> Must(ConfidenceFlag)])

NodeOccupancy ==
  Message([node_id |-> Must(NodeId), occupancy |-> May(Number), occupancy_delta |-> May(Number),
           same_sensor_arrival |-> Must(Text), confidence_flag |-> Must(ConfidenceFlag)])

\* The edge a turn leads to is the one identifier whose emptiness reading does
\* not notice; _validate_request then knows no such edge.
TurningObservation ==
  Message([node_id |-> Must(NodeId), from_edge_id |-> Must(EdgeId),
           to_edge_id |-> May(Reference("edge")), ratio |-> Must(Number),
           confidence_flag |-> Must(ConfidenceFlag)])

Observations ==
  Message([observed_at |-> Must(Time), snapshot_ref |-> May(Text), arc_flows |-> All(ArcFlow),
           arc_stagnations |-> All(ArcStagnation), arc_scalar_flows |-> All(ArcScalarFlow),
           node_occupancies |-> All(NodeOccupancy), node_turning |-> All(TurningObservation)])

TimedValue == Message([at |-> Must(Time), value |-> Plain(Number)])

EdgeFloat == Message([edge_id |-> Plain(EdgeId), value |-> Plain(Number)])

ArcHistoryStat ==
  Message(Together([edge_id |-> Plain(EdgeId)],
                   Fields({"p90_stagnation", "baseline_stagnation", "flow_sensitivity_eta",
                           "available_span_hours", "flow_p90", "free_flow_dwell_min"}, May(Number))))

DirectionalSeries == Message([direction |-> Plain(FlowDirection), samples |-> All(TimedValue)])

ArcWindowSeries ==
  Message([edge_id |-> Plain(EdgeId), flow_samples |-> All(TimedValue),
           stagnation_samples |-> All(TimedValue),
           directional_flow_samples |-> May(Message([series |-> All(DirectionalSeries)]))])

HistoryDigest ==
  Message([arc_stats |-> All(ArcHistoryStat), window_series |-> All(ArcWindowSeries),
           completeness |-> Plain(Number)])

-----------------------------------------------------------------------------
(* What the service remembers through the caller.                             *)

QueuedTrigger ==
  Message([kind |-> Plain(QueuedTriggerKind), first_fired_at |-> Must(Time),
           last_fired_at |-> Must(Time), accumulated_score |-> Plain(Number),
           origin_edge_id |-> May(Reference("edge")), origin_node_id |-> May(Reference("node")),
           snapshot_ref |-> May(Text)])

ArcWatchState ==
  Message(Together([edge_id |-> Plain(EdgeId), stagnation_watch_since |-> May(Time),
                    stagnation_last_held_at |-> May(Time)],
                   Fields({"percentile_breached", "delta_breached", "surge_breached"}, Plain(Text))))

WarmupState == Message([target_key |-> Plain(Atom("target", {}, {})), until |-> Must(Time)])

RetriggerEntry ==
  Message([edge_id |-> Plain(EdgeId), count |-> Plain(Count), quiet_cycles |-> Plain(Text),
           last_fired_at |-> May(Time)])

DetectionState ==
  Message([cooldown_until |-> May(Time), trigger_queue |-> All(QueuedTrigger),
           arc_watch_states |-> All(ArcWatchState), warmup_states |-> All(WarmupState),
           arc_retrigger_counts |-> All(RetriggerEntry), consecutive_skip_count |-> Plain(Text)])

-----------------------------------------------------------------------------
(* Events, references and configuration.                                      *)

\* A value of no kind is "unset"; each kind comes back as the type it was.
ScalarValue == Atom("scalar", {"unset", "NaN"}, {"NaN"})

KeyValue == Message([key |-> Plain(Name), value |-> Must(ScalarValue)])

Event ==
  Message([kind |-> Plain(EventKind), target_id |-> Plain(Id("target")), occurred_at |-> Must(Time),
           params |-> May(Message([values |-> All(KeyValue)]))])

TagReference ==
  Message([attribute_tag |-> Plain(Text), sample_count |-> Plain(Text),
           eta_typical |-> May(Number), capacity_typical |-> May(Number)])

ThresholdSet ==
  Message(Fields({"surge_rate_threshold_percent_per_min", "high_stagnation_duration_min",
                  "beta", "warmup_duration_min"}, May(Number)))

References ==
  Message([by_attribute_tag |-> All(TagReference), source_k_anonymity |-> Plain(Text),
           default_thresholds |-> May(Message([short_term |-> Lax(ThresholdSet),
                                               long_term |-> Lax(ThresholdSet)]))])

TenantContext == Message([tenant_id |-> Must(Name)])

EventContext == Message([term |-> Must(EventTerm), available_history_hours |-> Must(Number)])

ConfigNumbers ==
  {"surge_rate_threshold_percent_per_min", "high_stagnation_duration_min", "beta",
   "cooldown_duration_min", "warmup_duration_min", "queue_score_threshold",
   "stale_observation_resolutions", "stale_observation_floor_s", "greedy_improve_margin",
   "puncture_dwell_ratio_threshold", "forecasting_budget_sec", "detour_budget_sec",
   "lightweight_opt_budget_sec", "milp_time_limit_sec", "epsilon", "epsilon_0", "big_m_factor",
   "delta_min_fraction", "confidence_weight_floor", "mip_rel_gap", "gravity_alpha",
   "ipf_tolerance", "fallback_eta", "full_weight_hours", "eta_mixing_ratio",
   "improvement_threshold"}

ConfigPriors ==
  {"queue_freshness_min", "tau_danger_threshold", "transit_time_prior_sec", "dwell_time_prior_sec"}

ConfigCounts ==
  {"min_window_samples", "retrigger_warning_threshold", "retrigger_reset_quiet_cycles",
   "queue_diversity_threshold", "local_radius_hops", "max_trigger_zones", "max_consecutive_skips",
   "solver_seed", "ipf_max_iter", "min_reference_sample_count", "k_shortest_paths",
   "k_shortest_paths_max", "phase_feedback_candidates", "backoff_max_factor"}

ConfigFlags ==
  {"restriction_proposal_enabled", "puncture_trigger_enabled", "scalar_direction_enabled",
   "k_shortest_paths_auto", "phase_feedback_enabled", "two_stage_optimization", "backoff_enabled",
   "delta_objective_enabled", "node_detour_enabled", "milp_boundary_control_enabled",
   "scheduled_inflow_prior_enabled", "log_tenant_id"}

ThroughputWeights ==
  Message(Fields({"trigger_origin", "detour_path", "operator_set"}, Plain(Number)))

ResolvedConfig ==
  LET lists   == [throughput_target_edges |-> All(Reference("edge")),
                  throughput_max_per_edge |-> All(EdgeFloat),
                  attribute_tag_priority |-> All(Text), shadow_extensions |-> All(Text)]
      modes   == [optimization_mode |-> Must(OptimizationMode),
                  throughput_weights |-> Must(ThroughputWeights)]
      numbers == Together(Fields(ConfigNumbers, Must(Number)), Fields(ConfigPriors, May(Number)))
      counts  == Fields(ConfigCounts \cup ConfigFlags, Must(Text))
  IN  Message(Together(Together(lists, modes), Together(numbers, counts)))

-----------------------------------------------------------------------------
(* The result, which the caller sends back as the previous one.               *)

RouteImportance ==
  Message([edge_id |-> Plain(EdgeId), direction |-> Plain(ImportanceDirection),
           importance |-> Plain(Number), valid_until_next_trigger |-> Plain(Text)])

DirectionProposal ==
  Message([edge_id |-> Plain(EdgeId), proposed_direction |-> Plain(ProposedDirection),
           confidence |-> Plain(Number), change_type |-> Plain(DirectionChangeType)])

RestrictionProposal ==
  Message([edge_id |-> Plain(EdgeId), action |-> Plain(RestrictionAction),
           reason |-> Plain(RestrictionReason), confidence |-> Plain(Number),
           scope_note |-> Plain(Text), limit_value |-> May(Number), limit_ratio |-> May(Number)])

DetourPathProposal ==
  Message([origin_edge_id |-> Plain(EdgeId), edge_ids |-> All(EdgeId), confidence |-> Plain(Number)])

BoundaryControl ==
  Message([node_id |-> Plain(NodeId), action |-> Plain(BoundaryAction), reason |-> Plain(Text)])

ObjectiveValues == Message([tau_star |-> Plain(Number), throughput |-> May(Number)])

OptimizationResult ==
  Message([route_importance |-> All(RouteImportance), direction_proposal |-> All(DirectionProposal),
           restriction_proposal |-> All(RestrictionProposal), detour_paths |-> All(DetourPathProposal),
           boundary_control |-> All(BoundaryControl), objective_values |-> Must(ObjectiveValues),
           solver_status |-> Plain(SolverStatus), solved_at |-> May(Time), seed |-> Plain(Text)])

-----------------------------------------------------------------------------
(* The request.                                                               *)

\* The event id travels with the request and is dropped when it is read.
OptimizeRequest ==
  Message([request_id |-> Must(Name), schema_version |-> Must(Id("version")), event_id |-> Must(Name),
           tenant_context |-> Must(TenantContext), event_context |-> Must(EventContext),
           graph |-> Must(Graph), observations |-> Must(Observations),
           history_digest |-> Must(HistoryDigest), detection_state |-> Must(DetectionState),
           references |-> Must(References), config |-> Must(ResolvedConfig),
           server_time |-> Must(Time), previous_result |-> May(OptimizationResult),
           events |-> All(Event)])

\* The samples of a window come in the order of their times.
InTimeOrder(samples) ==
  \A i, j \in DOMAIN samples : i < j => ~(samples[i].at = "t2" /\ samples[j].at = "t1")

\* "edge:<id>" or "node:<id>", the form in which events and warm-ups name what
\* they are about.
Kind(target)    == SubSeq(target, 1, 5)
Subject(target) == SubSeq(target, 6, Len(target))
IsTarget(target) ==
  Len(target) > 5 /\ Kind(target) \in {"edge:", "node:"}

\* _validate_request: everything the request is about is on its graph, apart
\* from what an event is about to add to it.
Coherent(r) ==
  LET edges == {e.edge_id : e \in Items(r.graph.edges)}
      nodes == {n.node_id : n \in Items(r.graph.nodes)}
      obs   == r.observations
      hist  == r.history_digest
  IN /\ \A o \in Items(obs.arc_flows) \cup Items(obs.arc_stagnations) \cup Items(obs.arc_scalar_flows)
              \cup Items(hist.arc_stats) \cup Items(hist.window_series)
              \cup Items(r.config.throughput_max_per_edge) : o.edge_id \in edges
     /\ \A o \in Items(obs.node_occupancies) : o.node_id \in nodes
     /\ \A t \in Items(obs.node_turning) :
          t.node_id \in nodes /\ ({t.from_edge_id} \cup Items(t.to_edge_id)) \subseteq edges
     /\ \A w \in Items(hist.window_series) :
          /\ InTimeOrder(w.flow_samples) /\ InTimeOrder(w.stagnation_samples)
          /\ \A d \in Items(w.directional_flow_samples) :
               \A s \in Items(d.series) : InTimeOrder(s.samples)
     /\ \A w \in Items(r.detection_state.warmup_states) : IsTarget(w.target_key)
     /\ Items(r.config.throughput_target_edges) \subseteq edges
     /\ \A e \in Items(r.events) :
          /\ IsTarget(e.target_id)
          /\ Kind(e.target_id) = "edge:" => Subject(e.target_id) \in edges \/ e.kind = "ADD_EDGE"
          /\ Kind(e.target_id) = "node:" => Subject(e.target_id) \in nodes \/ e.kind = "ADD_NODE"
=============================================================================
