---------------------------- MODULE MCServedCall ----------------------------
(* Instances of ServedCall: every message that differs from a good one in one *)
(* place, small sites with all combinations of readings, and calls around     *)
(* their deadlines.                                                           *)
EXTENDS ServedCall

-----------------------------------------------------------------------------
(* Messages. Each class of atoms has a good value and others.                 *)

Good == [text |-> "x", edge |-> "e1", node |-> "n1", number |-> "1", target |-> "edge:e1",
         scalar |-> "5", elapsed |-> "1", version |-> "request/1", count |-> "1"]

Others == [text    |-> {"", "0"},
           edge    |-> {"", "e9"},
           node    |-> {"", "n9"},
           number  |-> {"0", "NaN"},
           target  |-> {"node:n1", "edge:e9", "node:n9", "edge:", "bare", ""},
           scalar  |-> {"null", "NaN", "unset"},
           elapsed |-> {"-1"},
           version |-> {"", "request/0"},
           count   |-> {"0", "max"}]

RECURSIVE Sample(_)
Sample(type) ==
  CASE type.is = "atom"    -> Good[type.as]
    [] type.is = "time"    -> "t1"
    [] type.is = "enum"    -> CHOOSE m \in type.members : TRUE
    [] type.is = "list"    -> <<Sample(type.of)>>
    [] type.is = "message" -> [f \in DOMAIN type.fields |-> Sample(type.fields[f].type)]

\* All messages with one value changed, one field left out, one list empty or
\* doubled, and one entry before another.
RECURSIVE Variants(_)
Variants(type) ==
  CASE type.is = "atom" -> Others[type.as]
    [] type.is = "time" -> {"t1+ns", "t2", "NoDate"}
    [] type.is = "enum" -> (type.members \cup {"UNSPECIFIED"}) \ {Sample(type)}
    [] type.is = "list" ->
         LET s == Sample(type.of)
             v == Variants(type.of)
         IN  {<<>>, <<s, s>>} \cup {<<x>> : x \in v}
             \cup (IF type.of.is = "message" /\ "at" \in DOMAIN type.of.fields
                   THEN {<<x, s>> : x \in v} ELSE {})
    [] type.is = "message" ->
         LET s == Sample(type)
         IN  UNION {{(f :> x) @@ s : x \in Variants(type.fields[f].type)} : f \in DOMAIN s}
             \cup {[f \in (DOMAIN s) \ {g} |-> s[f]] :
                     g \in {h \in DOMAIN s : type.fields[h].lack # "never"}}

\* The values of a type the later steps may hand in.
HeldValues(type) ==
  LET read == {Read(type, w) : w \in {v \in Variants(type) : Readable(type, v)}}
  IN  {v \in read : Writable(type, v)}

Usual(type) == Read(type, Sample(type))

\* What detection finds: that one passage fires, unless a case says otherwise.
Firings(scores) ==
  {[edge |-> e, kind |-> "HIGH_STAGNATION", score |-> scores[e]] : e \in DOMAIN scores}

Found == [fired |-> Firings([e1 |-> "1"]), watched |-> {}, calm |-> {},
          full |-> FALSE, fresh |-> TRUE]

Draft == [result |-> Usual(OptimizationResult), feedback |-> Usual(FeedbackValues),
          blank |-> Usual(FeedbackValues), diagnostics |-> Usual(Diagnostics), found |-> Found]

Drafts ==
  {[Draft EXCEPT !.result = v] : v \in HeldValues(OptimizationResult)}
  \cup {[Draft EXCEPT !.feedback = v] : v \in HeldValues(FeedbackValues)}
  \cup {[Draft EXCEPT !.diagnostics = v] : v \in HeldValues(Diagnostics)}

GoodMessage == Sample(OptimizeRequest)

-----------------------------------------------------------------------------
(* Memories: a site of two passages, on which something has happened before.  *)

Passages(ids) == [i \in DOMAIN ids |-> [Sample(Edge) EXCEPT !.edge_id = ids[i]]]

\* The message of a site, and what happens there, when nothing is remembered.
Fresh == [GoodMessage EXCEPT !.graph.edges = Passages(<<"e1", "e2">>), !.events = <<>>,
                             !.detection_state = Written(DetectionState,
                               [cooldown_until |-> <<>>, trigger_queue |-> <<>>,
                                arc_watch_states |-> <<>>, warmup_states |-> <<>>,
                                arc_retrigger_counts |-> <<>>, consecutive_skip_count |-> "0"])]

\* A cooldown that lasts, or none.
Cooling(m) == {m, [m EXCEPT !.detection_state = [cooldown_until |-> "t2"] @@ @]}

Waiting(origin) == origin @@ [kind |-> "SURGE", first_fired_at |-> "t1", last_fired_at |-> "t1",
                              accumulated_score |-> "1"]

Queues == {<<>>, <<Waiting([origin_edge_id |-> "e1"])>>, <<Waiting([origin_node_id |-> "n1"])>>,
           <<Waiting([origin_edge_id |-> ""])>>,
           <<Waiting([origin_edge_id |-> "e2"]), Waiting([origin_edge_id |-> "e1"])>>}

Counter(e, n) == [edge_id |-> e, count |-> n, quiet_cycles |-> "1"]

Event1(kind, target) == [kind |-> kind, target_id |-> target, occurred_at |-> "t1"]

Happenings ==
  {<<Event1(kind, target)>> : kind \in EventKind.members, target \in {"edge:e1", "node:n1"}}
  \cup {<<Event1("ENABLE", "edge:e1"), Event1("DISABLE", "edge:e1")>>,
        <<Event1("DANGER_FLAG_DOWN", "edge:e1"), Event1("DANGER_FLAG_UP", "edge:e2")>>}

Warming(keys) == [i \in DOMAIN keys |-> [target_key |-> keys[i], until |-> "t2"]]

Watch(e) == [edge_id |-> e, stagnation_watch_since |-> <<"t1">>, stagnation_last_held_at |-> <<>>,
             percentile_breached |-> "1", delta_breached |-> "0", surge_breached |-> "0"]

Founds == {[Found EXCEPT !.fired = fired] :
             fired \in {{}, Firings([e1 |-> "1"]), Firings([e1 |-> "NaN"]), Firings([e2 |-> "1"]),
                        Firings([e1 |-> "1", e2 |-> "NaN"])}}

\* The queue meets what fires; events what is warming up; counts what has fired.
QueueCases ==
  {<<m, [f EXCEPT !.full = full, !.fresh = fresh]>> :
     m \in UNION {Cooling([Fresh EXCEPT !.detection_state.trigger_queue = q]) : q \in Queues},
     f \in Founds, full \in BOOLEAN, fresh \in BOOLEAN}

EventCases ==
  {<<m, [Found EXCEPT !.fired = fired]>> :
     m \in UNION {Cooling([Fresh EXCEPT
                             !.detection_state.warmup_states = Warming(keys),
                             !.detection_state.arc_retrigger_counts = <<Counter("e1", "1")>>,
                             !.events = happening]) :
                    keys \in {<<>>, <<"edge:e1">>, <<"edge:e1", "edge:e2", "node:n1">>},
                    happening \in Happenings \cup {<<>>}},
     fired \in {{}, Found.fired}}

CountCases ==
  {<<m, [f EXCEPT !.calm = calm, !.watched = watched]>> :
     m \in UNION {Cooling([Fresh EXCEPT !.detection_state.arc_retrigger_counts = counts]) :
                    counts \in {<<>>} \cup {<<Counter(e, n)>> :
                                             e \in {"e1", "e9"}, n \in {"0", "1", "max"}}},
     f \in Founds, calm \in {{}, {"e1"}}, watched \in {{}, {Watch("e1")}}}

Large == [Fresh EXCEPT !.graph.edges = Passages(<<"e1", "e2", "e3">>)]

-----------------------------------------------------------------------------
(* Sites. Rates are hundredths of a person per minute.                        *)

Mixed == "GOAL_TRANSIT_MIXED"
Through == "TRANSIT_ONLY"

Plan(kinds, entries, exits, ends) ==
  [node |-> [n \in DOMAIN kinds |-> [kind |-> kinds[n], enabled |-> TRUE,
                                      entry |-> n \in entries, exit |-> n \in exits]],
   edge |-> [e \in DOMAIN ends |-> [a |-> ends[e][1], b |-> ends[e][2], enabled |-> TRUE,
                                     scalar |-> FALSE, tags |-> <<"x">>, hasEta |-> FALSE]]]

Settings == [transit |-> {}, dwell |-> {}, tolerance |-> 1, unit |-> 3600, ipfRounds |-> 8,
             cutPercent |-> 1, epsilon0 |-> 1, minSamples |-> 3]

Flow(e, direction, rate, flag) ==
  [edge |-> e, direction |-> direction, rate |-> rate, flag |-> flag]

\* Readings from A to B on each of the edges, where there is one.
Flows(rates) ==
  [i \in DOMAIN SelectSeq([e \in DOMAIN rates |-> e], LAMBDA e : rates[e] # "none") |->
     LET e == SelectSeq([k \in DOMAIN rates |-> k], LAMBDA k : rates[k] # "none")[i]
     IN  CASE rates[e] = "little" -> Flow(e, "A_TO_B", 300, "OK")
           [] rates[e] = "much"   -> Flow(e, "A_TO_B", 1000, "HOLD")
           [] rates[e] = "back"   -> Flow(e, "B_TO_A", 500, "OK")
           [] rates[e] = "wrong"  -> Flow(e, "A_TO_B", 100, "INVALID")]

Occupied(n, deltas) ==
  <<[node |-> n, level |-> {}, delta |-> deltas, sameSensor |-> FALSE, flag |-> "OK"]>>

Turn(n, from, to, percent) ==
  [node |-> n, from |-> from, to |-> to, percent |-> percent, flag |-> "OK"]

Site(graph, flows, occupancies, turnings, isOpen) ==
  [graph |-> graph, isOpen |-> isOpen, cfg |-> Settings, refs |-> [x |-> 2],
   obs |-> [flows |-> flows, occupancies |-> occupancies, turnings |-> turnings]]

\* A line from a gate over a place to a goal.
Lines ==
  {Site(Plan(<<Through, kind, "GOAL">>, gates[1], gates[2], << <<1, 2>>, <<2, 3>> >>),
        Flows(rates), Occupied(2, delta), <<>>, gates[1] # {}) :
     kind \in {Through, Mixed, "GOAL"}, gates \in {<<{}, {}>>, <<{1}, {3}>>},
     rates \in [1 .. 2 -> {"none", "little", "much", "wrong"}], delta \in {{}, {200}, {-200}}}

\* Two gates meet in a square, from which ways lead to an exit and a place;
\* of those who come by the first, turnings tell.
Squares ==
  {Site(Plan(<<Through, Through, Mixed, Through, Mixed>>, gates[1], gates[2],
              << <<1, 3>>, <<2, 3>>, <<3, 4>>, <<3, 5>> >>),
        Flows(rates), Occupied(3, delta), turnings, gates[1] # {}) :
     gates \in {<<{}, {}>>, <<{1, 2}, {4}>>},
     rates \in [1 .. 4 -> {"none", "little", "much"}], delta \in {{}, {200}},
     turnings \in {<<>>, <<Turn(3, 1, {3}, 60), Turn(3, 1, {4}, 40), Turn(3, 2, {3}, 30),
                           Turn(3, 2, {4}, 50), Turn(3, 2, {}, 20)>>}}

\* A ring of passages behind one gate, and a place apart.
Rings ==
  {Site(Plan(<<Through, Mixed, Mixed, Through, "GOAL", Mixed>>, gates, {},
              << <<1, 2>>, <<2, 3>>, <<3, 4>>, <<4, 2>>, <<5, 6>> >>),
        Flows(rates @@ (5 :> "little")), Occupied(3, delta), <<>>, gates # {}) :
     gates \in {{}, {1}}, rates \in [1 .. 4 -> {"none", "much", "back"}], delta \in {{}, {200}}}

\* A closed place on the line; a fitting that never goes around; a passage
\* that leads back to where it starts; and shares no sensor should report.
Oddities ==
  {[s EXCEPT !.graph.node[2].enabled = FALSE] :
     s \in {x \in Lines : x.graph.node[2].kind = Through}}
  \cup {[s EXCEPT !.cfg.ipfRounds = 0] :
          s \in {x \in Lines : x.graph.node[2].kind = Mixed /\ Len(x.obs.flows) < 2}}
  \cup {Site(Plan(<<Through, Mixed, "GOAL">>, gates[1], gates[2],
                   << <<1, 2>>, <<2, 3>>, <<2, 2>> >>),
             Flows(rates), <<>>, <<>>, gates[1] # {}) :
          gates \in {<<{}, {}>>, <<{1}, {3}>>}, rates \in [1 .. 3 -> {"none", "little", "back"}]}
  \cup {Site(Plan(<<Through, Through, Mixed, Through, Mixed>>, {1, 2}, {4},
                   << <<1, 3>>, <<2, 3>>, <<3, 4>>, <<3, 5>> >>),
             Flows(rates), Occupied(3, {}), <<Turn(3, 1, {3}, -50), Turn(3, 1, {4}, 150)>>, TRUE) :
          rates \in [1 .. 4 -> {"little", "much", "back"}]}

EmptySite == Site(Plan(<<Through>>, {}, {}, <<>>), <<>>, <<>>, <<>>, FALSE)

-----------------------------------------------------------------------------
(* Calls, with the service's own constants.                                   *)

Brisk == [forecasting |-> 30, detour |-> 10, cap |-> 20, finalRetry |-> FALSE,
          hasDeadline |-> FALSE, deadline |-> 0, pace |-> {1}]

LastTry == [Brisk EXCEPT !.finalRetry = TRUE]

Late ==
  {[forecasting |-> 30, detour |-> 10, cap |-> cap, finalRetry |-> last,
    hasDeadline |-> deadline # 0, deadline |-> deadline, pace |-> {1, 20, 33}] :
     cap \in {0, 20, 60}, last \in BOOLEAN, deadline \in {0, -1, 40, 95, 140, 400}}

-----------------------------------------------------------------------------

Case(message, s, c, d) == [message |-> message, site |-> s, call |-> c, draft |-> d]

MCCases ==
  {Case(m, EmptySite, Brisk, Draft) : m \in {GoodMessage} \cup Variants(OptimizeRequest)}
  \cup {Case(GoodMessage, EmptySite, Brisk, d) : d \in Drafts}
  \cup {Case(GoodMessage, s, Brisk, Draft) : s \in Lines \cup Squares \cup Rings \cup Oddities}
  \cup {Case(GoodMessage, EmptySite, c, Draft) : c \in Late \cup {LastTry}}
  \cup {Case(m[1], EmptySite, Brisk, [Draft EXCEPT !.found = m[2]]) :
          m \in QueueCases \cup EventCases \cup CountCases}
  \cup {Case(m[1], EmptySite, LastTry, [Draft EXCEPT !.found = m[2]]) : m \in QueueCases}
  \cup {Case(Large, EmptySite, Brisk, Draft)}

MCCalls == {Brisk, LastTry} \cup Late

Everywhere == {EmptySite} \cup Lines \cup Squares \cup Rings \cup Oddities

MCSites == Everywhere
=============================================================================
