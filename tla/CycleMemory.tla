---------------------------- MODULE CycleMemory ----------------------------
(* What a cycle remembers (detection/detector.py, detection/triggers.py;      *)
(* service/handler.py, finalize_detection_state), in the messages of a        *)
(* request and its answer: every change of the memory, whatever the readings  *)
(* are judged to say. RequestCycle tells of the judgements; here they are     *)
(* given, as a record of                                                      *)
(*   fired    the passages whose metric triggers fire, [edge, kind, score],   *)
(*            where the score is what the queue's entry then adds up to,      *)
(*   watched  the watches that are kept,                                      *)
(*   calm     the passages that have been quiet for long enough,              *)
(*   full     whether the queue is over one of its thresholds,                *)
(*   fresh    whether the queue is fresh enough to fire by itself.            *)
EXTENDS AnswerMessages, SequencesExt

-----------------------------------------------------------------------------
(* The calendar ends with the second of the two instants: any time after it   *)
(* is past the end.                                                           *)

Before(t, u) == t = "t1" /\ u = "t2"

Later(t, minutes) == IF minutes = "0" THEN t ELSE "t2"

PastTheEnd(t, minutes) == t = "t2" /\ minutes # "0"

\* Counts that go up by one, the second kind in 32 bits.
OneMore(count) == IF count = "0" THEN "1" ELSE "many"
Incremented(count) == IF count = "max" THEN "over" ELSE OneMore(count)

\* Of the entries of a list at some places, the last of each key (a dict made
\* of them), and the first (a search from the front).
LastOf(list, places, key) ==
  {list[i] : i \in {j \in places : \A k \in places : list[k][key] = list[j][key] => k <= j}}

FirstOf(list, places, key) ==
  {list[i] : i \in {j \in places : \A k \in places : list[k][key] = list[j][key] => j <= k}}

-----------------------------------------------------------------------------
(* Events.                                                                    *)

\* What the events of some kinds are about.
About(r, kinds) == {e.target_id : e \in {x \in Items(r.events) : x.kind \in kinds}}

EdgesIn(targets) == {Subject(k) : k \in {x \in targets : Kind(x) = "edge:"}}
NodesIn(targets) == {Subject(k) : k \in {x \in targets : Kind(x) = "node:"}}

Flagged(r) == About(r, {"DANGER_FLAG_UP"})

StartsWarmup == {"ENABLE", "ADD_EDGE", "ADD_NODE", "SENSOR_SET_CHANGED"}

\* apply_warmup_events: the last event about a target counts. The order of the
\* entries is read by nobody.
Warmups(r) ==
  LET list    == r.detection_state.warmup_states
      old     == LastOf(list, DOMAIN list, "target_key")
      kinds   == StartsWarmup \cup {"DISABLE"}
      last    == LastOf(r.events, {i \in DOMAIN r.events : r.events[i].kind \in kinds}, "target_id")
      until   == Later(r.server_time, r.config.warmup_duration_min)
      entries == {w \in old : \A e \in last : e.target_id # w.target_key}
                 \cup {[target_key |-> e.target_id, until |-> until] :
                         e \in {x \in last : x.kind \in StartsWarmup}}
  IN  IF entries = old THEN list ELSE SetToSeq(entries)

ZeroCount(c) == [c EXCEPT !.count = "0", !.quiet_cycles = "0"]

\* apply_danger_flag_down.
FlagsDown(r) ==
  LET list == r.detection_state.arc_retrigger_counts
      down == EdgesIn(About(r, {"DANGER_FLAG_DOWN"}))
  IN  [i \in DOMAIN list |-> IF list[i].edge_id \in down THEN ZeroCount(list[i]) ELSE list[i]]

\* The three kinds of events that detection applies first, one of which ends
\* the cooldown (apply_scheduled_events).
AfterEvents(r) ==
  LET s         == r.detection_state
      scheduled == About(r, {"SCHEDULED_INFLOW", "SCHEDULED_ATTR_CHANGE"})
  IN  [s EXCEPT !.warmup_states = Warmups(r),
                !.cooldown_until = IF scheduled = {} THEN s.cooldown_until ELSE <<>>,
                !.arc_retrigger_counts = FlagsDown(r)]

-----------------------------------------------------------------------------
(* Readings.                                                                  *)

OpenEdges(r) == {e.edge_id : e \in {x \in Items(r.graph.edges) : x.enabled # "0"}}
OpenNodes(r) == {n.node_id : n \in {x \in Items(r.graph.nodes) : x.enabled # "0"}}

\* is_in_warmup, for the targets for which it is so.
InWarmup(r, s) ==
  {w.target_key : w \in {x \in FirstOf(s.warmup_states, DOMAIN s.warmup_states, "target_key") :
                           Before(r.server_time, x.until)}}

\* all_targets_in_warmup.
AllInWarmup(r, s) ==
  /\ OpenEdges(r) \cup OpenNodes(r) # {}
  /\ OpenEdges(r) \subseteq EdgesIn(InWarmup(r, s))
  /\ OpenNodes(r) \subseteq NodesIn(InWarmup(r, s))

\* The passages detect_metric_triggers looks at, the triggers that fire there
\* and the memory with their watches.
Judged(r, s) == OpenEdges(r) \ EdgesIn(InWarmup(r, s))

Firing(r, s, found) == {f \in found.fired : f.edge \in Judged(r, s)}

AfterReadings(r, s, found) ==
  [s EXCEPT !.arc_watch_states = SetToSeq({w \in found.watched : w.edge_id \in Judged(r, s)})]

-----------------------------------------------------------------------------
(* The queue and the cooldown.                                                *)

\* An entry of the queue, made now.
Entry(r, kind, edge, node, score) ==
  [kind |-> kind, first_fired_at |-> r.server_time, last_fired_at |-> r.server_time,
   accumulated_score |-> score, origin_edge_id |-> edge, origin_node_id |-> node,
   snapshot_ref |-> r.observations.snapshot_ref]

\* _merge_into_queue, for at most one trigger of a passage.
SameRoute(t, f) == t.origin_edge_id = <<f.edge>> /\ t.origin_node_id = <<>>

Merged(r, queue, fired) ==
  LET Takes(i, f) == /\ SameRoute(queue[i], f)
                     /\ \A k \in 1 .. (i - 1) : ~SameRoute(queue[k], f)
      Fed(i) == [queue[i] EXCEPT !.last_fired_at = r.server_time,
                                 !.accumulated_score = (CHOOSE f \in fired : Takes(i, f)).score,
                                 !.snapshot_ref = r.observations.snapshot_ref]
      new == {f \in fired : \A i \in DOMAIN queue : ~SameRoute(queue[i], f)}
  IN  [i \in DOMAIN queue |-> IF \E f \in fired : Takes(i, f) THEN Fed(i) ELSE queue[i]]
      \o SetToSeq({Entry(r, f.kind, <<f.edge>>, <<>>, f.score) : f \in new})

\* What a decision comes to: the verdict, what triggered, and the memory once
\* it is committed and once the attempt is given up.
Quiet(verdict, s) ==
  [verdict |-> verdict, edges |-> {}, nodes |-> {}, committed |-> s, aborted |-> s]

\* _fire.
Fired(r, s, edges, nodes, aborted) ==
  LET queue == Items(aborted.trigger_queue)
  IN  [verdict   |-> "TRIGGERED",
       edges     |-> edges \cup UNION {Items(t.origin_edge_id) : t \in queue},
       nodes     |-> nodes \cup UNION {Items(t.origin_node_id) : t \in queue},
       committed |-> [s EXCEPT
                        !.trigger_queue = <<>>,
                        !.cooldown_until = <<Later(r.server_time, r.config.cooldown_duration_min)>>],
       aborted   |-> aborted]

\* evaluate_cooldown.
Decision(r, s, found) ==
  LET firing   == Firing(r, s, found)
      edges    == {f.edge : f \in firing}
      flags    == Flagged(r)
      merged   == [s EXCEPT !.trigger_queue = Merged(r, s.trigger_queue, firing)]
      expired  == [s EXCEPT !.trigger_queue = <<>>]
      cooling  == \E t \in Items(s.cooldown_until) : Before(r.server_time, t)
      stirring == edges # {} \/ (s.trigger_queue # <<>> /\ found.fresh)
  IN  CASE flags # {} \/ (~cooling /\ stirring) ->
             Fired(r, s, EdgesIn(flags) \cup edges, NodesIn(flags), s)
        [] flags = {} /\ cooling /\ edges # {} /\ found.full -> Fired(r, s, {}, {}, merged)
        [] flags = {} /\ cooling /\ edges # {} /\ ~found.full -> Quiet("QUEUED", merged)
        [] flags = {} /\ cooling /\ edges = {} -> Quiet("SKIPPED_COOLDOWN", s)
        [] flags = {} /\ ~cooling /\ ~stirring -> Quiet("SKIPPED_NO_TRIGGER", expired)

-----------------------------------------------------------------------------
(* The counts.                                                                *)

\* update_retrigger_counts: an entry of an enabled passage, when it fired, when
\* another did, and when nothing did.
Recounted(r, s, calm, fired) ==
  LET list    == s.arc_retrigger_counts
      watched == {w.edge_id : w \in {x \in Items(s.arc_watch_states) :
                    x.percentile_breached # "0" \/ x.delta_breached # "0"}}
      old     == {c \in LastOf(list, DOMAIN list, "edge_id") : c.edge_id \in OpenEdges(r)}
      Next(c) ==
        CASE c.edge_id \in fired ->
               [c EXCEPT !.count = Incremented(c.count), !.quiet_cycles = "0",
                         !.last_fired_at = <<r.server_time>>]
          [] c.edge_id \notin fired /\ fired # {} -> ZeroCount(c)
          [] fired = {} /\ c.edge_id \in calm \ watched -> ZeroCount(c)
          [] fired = {} /\ c.edge_id \notin watched \cup calm ->
               [c EXCEPT !.quiet_cycles = OneMore(c.quiet_cycles)]
          [] OTHER -> c
      First(e) == [edge_id |-> e, count |-> "1", quiet_cycles |-> "0",
                   last_fired_at |-> <<r.server_time>>]
  IN  SetToSeq({Next(c) : c \in old}
               \cup {First(e) : e \in (fired \cap OpenEdges(r)) \ {c.edge_id : c \in old}})

-----------------------------------------------------------------------------
(* The cycle.                                                                 *)

\* detect.
Detected(r, found) ==
  LET s     == AfterEvents(r)
      t     == AfterReadings(r, s, found)
      d     == Decision(r, t, found)
      fired == IF d.verdict = "TRIGGERED" THEN d.edges \ EdgesIn(Flagged(r)) ELSE {}
  IN  CASE AllInWarmup(r, s) /\ Flagged(r) = {} -> Quiet("SKIPPED_WARMUP", s)
        [] ~(AllInWarmup(r, s) /\ Flagged(r) = {}) /\ d.verdict = "QUEUED" -> d
        [] OTHER ->
             [d EXCEPT !.committed.arc_retrigger_counts = Recounted(r, t, found.calm, fired),
                       !.aborted.arc_retrigger_counts   = Recounted(r, t, found.calm, {})]

\* Detection computes a date that the calendar does not have, and raises: the
\* end of a warm-up, which it needs in every call, or of a cooldown.
Overruns(r, found) ==
  \/ PastTheEnd(r.server_time, r.config.warmup_duration_min)
  \/ /\ Detected(r, found).verdict = "TRIGGERED"
     /\ PastTheEnd(r.server_time, r.config.cooldown_duration_min)

\* _requeued_triggers.
Requeued(r, d) ==
  SetToSeq({Entry(r, "SURGE", <<e>>, <<>>, "0") : e \in d.edges}
           \cup {Entry(r, "DANGER", <<>>, <<n>>, "0") : n \in d.nodes})

\* finalize_detection_state.
Finalized(r, d, verdict, finalRetry) ==
  CASE verdict = "OPTIMIZED" -> [d.committed EXCEPT !.consecutive_skip_count = "0"]
    [] verdict = "SKIPPED_TIME" /\ finalRetry ->
         [d.aborted EXCEPT !.trigger_queue = <<>>, !.consecutive_skip_count = "0"]
    [] verdict = "SKIPPED_TIME" /\ ~finalRetry ->
         [d.aborted EXCEPT
            !.trigger_queue = @ \o Requeued(r, d),
            !.consecutive_skip_count = OneMore(r.detection_state.consecutive_skip_count)]
    [] OTHER -> d.committed
=============================================================================
