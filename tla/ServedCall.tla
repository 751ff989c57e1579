----------------------------- MODULE ServedCall -----------------------------
(* A call from the wire and back (rpc/server.py, _run; service/handler.py):   *)
(* the request is read, checked, served against its clock and answered, and   *)
(* the caller puts what the answer remembers into its next request.           *)
(*                                                                            *)
(* A call is looked at from two sides: its messages, whose atoms the codec    *)
(* tells apart, and its site, the figures that ForecastCall looks at while    *)
(* the clock runs.                                                            *)
EXTENDS ForecastCall, CycleMemory

CONSTANTS
  Cases,      \* the calls looked at: [message, site, call, draft]
  NodeLimit,  \* how many nodes and edges a graph may have
  EdgeLimit,
  MaxRounds   \* how many requests the caller sends; the last is only received

\* The messages are what the wire can carry, and what the later steps hand in
\* is what can be written and read back, apart from scores, which can overflow.
ASSUME CasesAssumption ==
  /\ MaxRounds \in Nat
  /\ \A case \in Cases :
       /\ case.site \in Sites /\ case.call \in Calls
       /\ \A p \in Parts("wire", OptimizeRequest, case.message) : Possible(p[2], p[3])
       /\ \A drafted \in {<<OptimizationResult, case.draft.result>>,
                          <<FeedbackValues, case.draft.feedback>>,
                          <<FeedbackValues, case.draft.blank>>,
                          <<Diagnostics, case.draft.diagnostics>>} :
            \A p \in Parts("held", drafted[1], drafted[2]) :
              Proper(p[2], p[3]) /\ WritableItself(p[2], p[3])
       /\ IsFiniteSet(case.draft.found.fired) /\ IsFiniteSet(case.draft.found.watched)
       /\ \A f, g \in case.draft.found.fired :
            /\ f.kind \in {"HIGH_STAGNATION", "PUNCTURE"} /\ f.score \notin Marks \ {"NaN"}
            /\ f.edge = g.edge => f = g
       /\ \A w \in case.draft.found.watched : \A p \in Parts("held", ArcWatchState, w) :
            Proper(p[2], p[3]) /\ WritableItself(p[2], p[3])

VARIABLES
  phase,     \* "sent", "refused", "serving", "answered", "internal" or "abandoned"
  sent,      \* the message of the request
  request,   \* what was read from it, as a set of at most one
  draft,     \* what the steps hand in: [found, result, feedback, blank, diagnostics]
  response,  \* the answer the service holds, as a set of at most one
  answer,    \* its message, as a set of at most one
  round

servedVars == <<forecastVars, phase, sent, request, draft, response, answer, round>>

-----------------------------------------------------------------------------
(* The parts of the handler that concern messages.                            *)

NoDoubles(list, id) == Cardinality({x[id] : x \in Items(list)}) = Len(list)

\* Settings for which zero is out of range.
NeverZero ==
  {"forecasting_budget_sec", "detour_budget_sec", "lightweight_opt_budget_sec",
   "milp_time_limit_sec", "puncture_dwell_ratio_threshold", "stale_observation_resolutions",
   "stale_observation_floor_s", "cooldown_duration_min", "max_consecutive_skips",
   "k_shortest_paths", "local_radius_hops", "max_trigger_zones"}

\* _validation_errors.
Valid(r) ==
  /\ r.schema_version = "request/1"
  /\ NoDoubles(r.graph.nodes, "node_id") /\ NoDoubles(r.graph.edges, "edge_id")
  /\ \A e \in Items(r.graph.edges) :
       {e.endpoint_a, e.endpoint_b} \subseteq {n.node_id : n \in Items(r.graph.nodes)}
  /\ \A f \in NeverZero : r.config[f] # "0"

\* The size the service is prepared for.
Oversized(r) == Len(r.graph.nodes) > NodeLimit \/ Len(r.graph.edges) > EdgeLimit

\* The call ends in detection, with an error when it cannot even begin
\* (_verdict_of, handle_request), or with what became of the attempt.
Verdicts(r) ==
  IF ~Valid(r) THEN {"ERROR_INVALID_INPUT"}
  ELSE IF Oversized(r) THEN {"ERROR_SIZE_EXCEEDED"}
  ELSE CASE stage = "no_trigger" -> {Detected(r, draft.found).verdict}
         [] stage = "skipped"    -> {"SKIPPED_TIME"}
         [] stage = "optimized"  -> {"OPTIMIZED"}
         [] OTHER                -> {}

\* A call that cannot begin changes nothing.
Memory(r, verdict) ==
  IF verdict \in {"ERROR_INVALID_INPUT", "ERROR_SIZE_EXCEEDED"} THEN r.detection_state
  ELSE Finalized(r, Detected(r, draft.found), verdict, call.finalRetry)

\* extract_feedback: the prediction is compared when there was one before.
Feedback(r) ==
  [draft.feedback EXCEPT
     !.prediction_actual_diff = IF r.previous_result = <<>> THEN <<>> ELSE @,
     !.restriction_metrics = <<>>, !.ab_diff = <<>>]

\* _response.
ResponseTo(r, verdict, memory) ==
  [request_id |-> r.request_id, verdict |-> verdict, updated_detection_state |-> memory,
   feedback_values |-> IF verdict = "OPTIMIZED" THEN Feedback(r) ELSE draft.blank,
   diagnostics |-> draft.diagnostics,
   optimization_result |-> IF verdict = "OPTIMIZED" THEN <<draft.result>> ELSE <<>>,
   elapsed_ms |-> "1"]

-----------------------------------------------------------------------------
(* The call.                                                                  *)

ServedInit ==
  \E case \in Cases :
    /\ phase = "sent" /\ sent = case.message
    /\ draft = case.draft
    /\ request = {} /\ response = {} /\ answer = {}
    /\ round = 1
    /\ call = case.call /\ site = case.site /\ ForecastInit

\* decode_request: a message that cannot be read, or is about what its graph
\* does not have, is refused as INVALID_ARGUMENT.
Receive ==
  /\ phase = "sent"
  /\ LET r == Read(OptimizeRequest, sent)
         accepted == Readable(OptimizeRequest, sent) /\ Coherent(r)
     IN  /\ phase' = IF accepted THEN "serving" ELSE "refused"
         /\ request' = IF accepted THEN {r} ELSE {}
  /\ UNCHANGED <<forecastVars, sent, draft, response, answer, round>>

\* The steps of the cycle, of a request the handler has no fault to find with;
\* it goes on after detection when something triggered.
Serve ==
  /\ phase = "serving" /\ round < MaxRounds
  /\ CycleStep
  /\ stage = "received" =>
       \A r \in request :
         /\ Valid(r) /\ ~Oversized(r) /\ ~Overruns(r, draft.found)
         /\ stage' = "no_trigger" <=> Detected(r, draft.found).verdict # "TRIGGERED"
  /\ UNCHANGED <<phase, sent, request, draft, response, answer, round>>

\* The answer; when it cannot be written the call ends as INTERNAL.
Reply ==
  /\ phase = "serving" /\ round < MaxRounds
  /\ \E r \in request : \E verdict \in Verdicts(r) :
       LET held == ResponseTo(r, verdict, Memory(r, verdict))
           fits == Writable(OptimizeResponse, held)
       IN  /\ response' = {held}
           /\ phase' = IF fits THEN "answered" ELSE "internal"
           /\ answer' = IF fits THEN {Written(OptimizeResponse, held)} ELSE {}
  /\ UNCHANGED <<forecastVars, sent, request, draft, round>>

\* Any step of the cycle can raise, which ends the call as INTERNAL; and the
\* caller's time can run out, or the caller go, while the worker is at it.
EndAs(end) ==
  /\ phase = "serving" /\ round < MaxRounds
  /\ phase' = end /\ request' = {}
  /\ UNCHANGED <<forecastVars, sent, draft, response, answer, round>>

Fail    == EndAs("internal")
Abandon == EndAs("abandoned")

\* The caller copies the memory and the result of the answer, or the lack of
\* one, into its next request.
SendNext ==
  /\ phase = "answered" /\ round < MaxRounds
  /\ \E a \in answer :
       LET rest   == [f \in (DOMAIN sent) \ {"previous_result"} |-> sent[f]]
           memory == [detection_state |-> a.updated_detection_state]
       IN  sent' = IF "optimization_result" \in DOMAIN a
                   THEN Together(Together(memory, [previous_result |-> a.optimization_result]), rest)
                   ELSE Together(memory, rest)
  /\ phase' = "sent" /\ request' = {} /\ response' = {} /\ answer' = {}
  /\ round' = round + 1
  /\ NextCall
  /\ UNCHANGED draft

ServedNext == Receive \/ Serve \/ Reply \/ Fail \/ Abandon \/ SendNext

ServedSpec == ServedInit /\ [][ServedNext]_servedVars

-----------------------------------------------------------------------------
(* Properties.                                                                *)

\* Whatever field a number, a date or a member of an enumeration arrives in,
\* what the service goes on to compute with holds no number that is not
\* finite, no date outside the calendar and no member that does not exist.
\* The codec looks at every field one by one, some at the second level of an
\* optional message, and one look forgotten is not missed by any type.
AcceptedIsClean ==
  \A r \in request :
    Held(OptimizeRequest, r) \cap Marks = {}

\* The service keeps nothing between calls, so that what it remembers lives on
\* the wire alone. An answer is read back as it was held; and the next request,
\* made of what the answer says, is never refused. When the cycle has come to
\* an end and its answer cannot be written, the memory is to blame, and that in
\* one of three ways: a trigger of an empty origin, which is read without a look
\* and refused when it is written, has stayed in the queue; a count that was at
\* its limit went up in a cycle that optimized; or a score that is waiting, in
\* the queue or again after an attempt that was cut off, has overflown.
StateSurvives ==
  /\ \A held \in response, a \in answer :
       /\ Readable(OptimizeResponse, a)
       /\ Read(OptimizeResponse, a) = held
  /\ round > 1 => phase # "refused"
  /\ \A held \in response, r \in request : answer = {} =>
       LET queue  == Items(held.updated_detection_state.trigger_queue)
           before == r.detection_state
       IN  \/ \E t \in queue, u \in Items(before.trigger_queue) :
                /\ <<"">> \in {t.origin_edge_id, t.origin_node_id}
                /\ <<"">> \in {u.origin_edge_id, u.origin_node_id}
           \/ /\ held.verdict = "OPTIMIZED"
              /\ \E c \in Items(before.arc_retrigger_counts) : c.count = "max"
           \/ /\ held.verdict \in {"QUEUED", "SKIPPED_TIME"}
              /\ \E t \in queue : t.accumulated_score = "NaN"
=============================================================================
