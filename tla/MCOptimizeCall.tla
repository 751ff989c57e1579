--------------------------- MODULE MCOptimizeCall ---------------------------
(***************************************************************************)
(* Calls of optimize on small sites; a few people cross each of them.      *)
(*                                                                         *)
(* The diamond has two ways, 1-2-4 and 1-3-4, from the gate 1 to the gate  *)
(* 4, and a passage between 2 and 3.  The street 1-2-3-4-5-6 has a way     *)
(* back from 6 to 1, and its passages are numbered so that the third joins *)
(* the first two.  The triangle is for the strict program.                 *)
(***************************************************************************)
EXTENDS OptimizeCall

Plain == [enabled |-> TRUE, entry |-> FALSE, exit |-> FALSE, danger |-> FALSE, dangerCap |-> {}]
Entry == [Plain EXCEPT !.entry = TRUE]
Exit  == [Plain EXCEPT !.exit = TRUE]
Gate  == [Entry EXCEPT !.exit = TRUE]

Edge(a, b, current, constraint) ==
  [a |-> a, b |-> b, enabled |-> TRUE, current |-> current, constraint |-> constraint,
   hint |-> {}, danger |-> FALSE, dangerCap |-> {}, scalar |-> FALSE]

Free == "BIDIRECTIONAL_PRIOR"
Both == "BIDIRECTIONAL"

Diamond(way2, law4, hint2) ==
  [node |-> (1 :> Entry @@ 2 :> Plain @@ 3 :> Plain @@ 4 :> Gate),
   edge |-> (1 :> Edge(1, 2, Both, Free)
             @@ 2 :> [Edge(2, 4, way2, Free) EXCEPT !.hint = hint2]
             @@ 3 :> Edge(1, 3, Both, Free)
             @@ 4 :> Edge(3, 4, Both, law4)
             @@ 5 :> Edge(2, 3, "A_TO_B", "ONEWAY_A_TO_B_PRIOR"))]

Street ==
  [node |-> [n \in 1 .. 6 |-> CASE n = 1 -> Gate [] n = 4 -> Exit [] OTHER -> Plain],
   edge |-> (1 :> Edge(1, 2, Both, Free) @@ 2 :> Edge(3, 4, Both, Free)
             @@ 3 :> Edge(2, 3, Both, Free) @@ 4 :> Edge(4, 5, Both, Free)
             @@ 5 :> Edge(5, 6, Both, Free) @@ 6 :> Edge(6, 1, Both, Free))]

\* Behind the passage 1 lies a pocket from which there is no other way out.
Pocket ==
  [node |-> (1 :> Gate @@ 2 :> Plain @@ 3 :> Plain @@ 4 :> Plain),
   edge |-> (1 :> Edge(1, 4, "B_TO_A", Free) @@ 2 :> Edge(4, 3, Both, Free)
             @@ 3 :> Edge(1, 2, Both, Free))]

Triangle(law1) ==
  [node |-> (1 :> Gate @@ 2 :> Plain @@ 4 :> Exit),
   edge |-> (1 :> Edge(1, 2, Both, law1) @@ 2 :> Edge(2, 4, "A_TO_B", Free)
             @@ 3 :> Edge(1, 4, Both, Free))]

Reading(values) == [e \in DOMAIN values |-> [value |-> values[e], valid |-> TRUE]]

Cfg == [cutPercent |-> 1, confidenceFloor |-> 50, hops |-> 0, maxZones |-> 2, margin |-> 5,
        epsilon |-> 1, spread |-> TRUE, restrict |-> TRUE, theta |-> {50}, targets |-> {}]

NoPrevious == [exists |-> FALSE, restrictions |-> <<>>, boundary |-> {}]
Limited4   == [exists |-> TRUE, boundary |-> {},
               restrictions |-> <<Proposal(4, "LIMIT", {1}, "RESIDUAL_TAU")>>]

Pair(demand) == [origin |-> 1, destination |-> 4, demand |-> demand]

Request(graph, method, stagnation, triggered) ==
  [graph |-> graph, mode |-> {}, method |-> method,
   od |-> <<Pair(2)>>,
   obs |-> [stagnation |-> Reading(stagnation), line |-> <<>>, scalar |-> <<>>],
   forecast |-> [eta |-> [e \in 1 .. 6 |-> 2], confidence |-> <<>>],
   baseline |-> <<>>, cfg |-> Cfg, detours |-> The(RouteDetour(graph, triggered, 2)),
   triggered |-> triggered, triggeredNodes |-> {}, outflow |-> <<>>, previous |-> NoPrevious]

\* The search on the diamond: one zone or two that share nodes, candidates
\* that the law forbids or a hint makes impossible, a rescue.
SearchRequests ==
  {Request(Diamond(way2, law4, hint2), "LIGHTWEIGHT", stagnation, triggered) :
     way2 \in {"A_TO_B", "B_TO_A"},
     law4 \in {Free, "LEGAL_FIXED_A_TO_B", "LEGAL_FIXED_BIDIRECTIONAL"},
     hint2 \in {{}, {1}},
     stagnation \in {(2 :> 4), (2 :> 4 @@ 3 :> 5)}, triggered \in {{2, 3}, {2, 4}}}

StrictRequests ==
  {[Request(Triangle(law1), "STRICT", stagnation, {}) EXCEPT
      !.od = <<Pair(demand)>>, !.cfg = [Cfg EXCEPT !.epsilon = 40, !.targets = {3}]] :
     law1 \in {Free, "LEGAL_FIXED_A_TO_B"}, stagnation \in {(2 :> 4), (2 :> 4 @@ 3 :> 5)},
     demand \in {1, 2, 4}}

\* The street: neighbourhoods that chain into one zone or stay apart, and a
\* passage that was limited before.
StreetRequests ==
  {[Request(Street, "LIGHTWEIGHT", (2 :> 6 @@ 3 :> 6 @@ 5 :> 6), triggered)
      EXCEPT !.triggeredNodes = nodes, !.previous = previous] :
     triggered \in {{1, 2, 3}, {1, 2}, {3, 5}, {2, 3, 5}}, nodes \in {{}, {5}},
     previous \in {NoPrevious, Limited4}}

PocketRequests == {Request(Pocket, "LIGHTWEIGHT", (1 :> 4), {1})}

\* A node in danger that one person may pass: one comes from the node 3,
\* outside the zone of passage 3, and one more if passage 3 is turned.
Crossing ==
  [node |-> 3 :> Plain @@ 2 :> [Plain EXCEPT !.danger = TRUE, !.dangerCap = {1}]
              @@ Triangle(Free).node,
   edge |-> 2 :> Edge(2, 4, Both, Free) @@ 7 :> Edge(3, 2, Both, Free) @@ Triangle(Free).edge]

CrossingRequests ==
  {[Request(Crossing, "LIGHTWEIGHT", (2 :> 6), {3}) EXCEPT
      !.od = <<Pair(demand), [origin |-> 3, destination |-> 4, demand |-> 1]>>,
      !.cfg = [Cfg EXCEPT !.hops = hops]] :
     demand \in {1, 2}, hops \in {0, 1}}

MCRequests == SearchRequests \cup StrictRequests \cup StreetRequests \cup PocketRequests
              \cup CrossingRequests
=============================================================================
