---------------------------- MODULE RequestCycle ----------------------------
(***************************************************************************)
(* The request cycle (service/handler.py) and the caller that drives it.   *)
(* The service keeps nothing between requests: it takes the detection      *)
(* state of the last answer from the request and returns the next one.     *)
(* The caller, Observation, sends one request per cycle, and keeps the     *)
(* state of the last answer it received.                                   *)
(*                                                                         *)
(* Whether an optimization ends in time is not decided here: every attempt *)
(* may succeed or be cut off.                                              *)
(***************************************************************************)
EXTENDS Detection

CONSTANTS
  MaxConsecutiveSkips,   (* max_consecutive_skips                          *)
  EnabledChoices,        (* sets of enabled targets a request may carry    *)
  ReadingChoices,        (* observations of all arcs a request may carry   *)
  EventChoices,          (* event lists a request may carry                *)
  Steps,                 (* how far the clock may move between requests    *)
  MaxTime                (* bound on the clock                             *)

ASSUME CycleAssumption ==
  /\ MaxConsecutiveSkips \in Nat \ {0}
  /\ EnabledChoices \subseteq SUBSET Targets
  /\ ReadingChoices \subseteq [Edges -> Reading]
  /\ EventChoices \subseteq Seq(Event)
  /\ Steps \subseteq Nat
  /\ MaxTime \in Nat

VARIABLES
  now,      (* server_time of the last request                             *)
  state,    (* the detection state Observation holds                       *)
  answer    (* what came of the last cycle, with what raised it            *)

vars == <<now, state, answer>>

Errors == {"ERROR_INVALID_INPUT", "ERROR_SIZE_EXCEEDED"}

Verdict ==
  Errors \cup {"OPTIMIZED", "QUEUED", "SKIPPED_NO_TRIGGER",
               "SKIPPED_COOLDOWN", "SKIPPED_WARMUP", "SKIPPED_TIME"}

Missed == "MISSED"    (* no answer reached Observation *)

(***************************************************************************)
(* verdict    of the answer, if there was one                              *)
(* routes     what was triggered                                           *)
(* metric     arcs whose metric triggers fired in this cycle               *)
(* scores     what the arcs' triggers score                                *)
(* danger     targets the request flagged                                  *)
(* scheduled  the request carried a scheduled event                        *)
(***************************************************************************)
Answer ==
  [verdict : Verdict \cup {Missed}, routes : SUBSET Targets,
   metric : SUBSET Edges, scores : [Edges -> Nat], danger : SUBSET Targets, scheduled : BOOLEAN]

(* The verdict that answers a hint other than TRIGGERED. *)
VerdictOf(hint) == IF hint = "NO_TRIGGER" THEN "SKIPPED_NO_TRIGGER" ELSE hint

NoAnswer(verdict) ==
  [verdict |-> verdict, routes |-> {}, metric |-> {}, scores |-> [e \in Edges |-> 0],
   danger |-> {}, scheduled |-> FALSE]

-----------------------------------------------------------------------------
(* Seeded fault: nodes are not queued again. *)
RequeueArcsOnly(queue, routes, t) ==
  [x \in Targets |->
     IF x \in routes \cap Edges
     THEN Append(queue[x], [score |-> 0, lastFired |-> t])
     ELSE queue[x]]

(* A route whose optimization was cut off waits with no score of its own. *)
Requeue(queue, routes, t) ==
  [x \in Targets |->
     IF x \in routes THEN Append(queue[x], [score |-> 0, lastFired |-> t]) ELSE queue[x]]

(* Seeded faults: one attempt too many before giving up; a timed-out       *)
(* attempt keeps the effects of firing.                                    *)
GiveUpOneLate(d, verdict, previous, t) ==
  CASE verdict = "OPTIMIZED" -> [d.newState EXCEPT !.skipCount = 0]
    [] verdict = "SKIPPED_TIME" ->
         IF previous.skipCount > MaxConsecutiveSkips
         THEN [d.abortState EXCEPT !.queue = NoQueue, !.skipCount = 0]
         ELSE [d.abortState EXCEPT !.queue = Requeue(@, d.routes, t),
                                   !.skipCount = previous.skipCount + 1]
    [] OTHER -> d.newState

SkipKeepsFiring(d, verdict, previous, t) ==
  IF verdict = "SKIPPED_TIME"
  THEN [d.newState EXCEPT !.queue = Requeue(d.abortState.queue, d.routes, t),
                          !.skipCount = (@ + 1) % (MaxConsecutiveSkips + 1)]
  ELSE d.newState

(* The state to return, from the candidates of the detection. *)
FinalizeDetectionState(d, verdict, previous, t) ==
  CASE verdict = "OPTIMIZED" -> [d.newState EXCEPT !.skipCount = 0]
    [] verdict = "SKIPPED_TIME" ->
         IF previous.skipCount >= MaxConsecutiveSkips
         THEN [d.abortState EXCEPT !.queue = NoQueue, !.skipCount = 0]
         ELSE [d.abortState EXCEPT !.queue = Requeue(@, d.routes, t),
                                   !.skipCount = previous.skipCount + 1]
    [] OTHER -> d.newState

Requests ==
  [now : {now'}, enabled : EnabledChoices, readings : ReadingChoices, events : EventChoices]

(* What Observation keeps of an answer. *)
Return(req, d, verdict) ==
  LET s      == ApplyEvents(state, req)
      metric == IF verdict = "SKIPPED_WARMUP" THEN {} ELSE MetricFired(s, req)
  IN  /\ state' = FinalizeDetectionState(d, verdict, state, req.now)
      /\ answer' =
           [verdict   |-> verdict,
            routes    |-> d.routes,
            metric    |-> metric,
            scores    |-> FiredScores(s, req),
            danger    |-> Danger(req),
            scheduled |-> Named(req.events, ScheduledKinds) # {}]

-----------------------------------------------------------------------------
Init ==
  /\ now = 0
  /\ state = InitialState
  /\ answer = NoAnswer(Missed)

Advance == \E d \in Steps : now + d <= MaxTime /\ now' = now + d

(* An invalid or oversized request is answered with the state it carried. *)
Reject ==
  /\ Advance
  /\ \E v \in Errors : answer' = NoAnswer(v)
  /\ UNCHANGED state

(* Nothing to optimize: the detection's verdict is the answer. *)
AnswerEarly(req, d) == d.verdict # "TRIGGERED" /\ Return(req, d, VerdictOf(d.verdict))

AnswerOptimized(req, d) == d.verdict = "TRIGGERED" /\ Return(req, d, "OPTIMIZED")

(* Some deadline check, or the solver, cut the cycle off. *)
SkipTime(req, d) == d.verdict = "TRIGGERED" /\ Return(req, d, "SKIPPED_TIME")

HandleRequest ==
  /\ Advance
  /\ \E req \in Requests :
       LET d == Detect(state, req)
       IN  AnswerEarly(req, d) \/ AnswerOptimized(req, d) \/ SkipTime(req, d)

(* No request in this interval, or its answer did not get through. *)
MissAnswer ==
  /\ Advance
  /\ answer' = NoAnswer(Missed)
  /\ UNCHANGED state

Next == Reject \/ HandleRequest \/ MissAnswer

Spec == Init /\ [][Next]_vars

-----------------------------------------------------------------------------
(* The state Observation carries is one the service can have returned. *)
TypeOK ==
  /\ now \in Nat
  /\ DetectionState(state)
  /\ answer \in Answer

(***************************************************************************)
(* A timed-out attempt appends one entry per route, beside the one entry   *)
(* that cooldown merges keep per arc (_requeued_triggers against           *)
(* _merge_into_queue): the skip counter bounds how far entries of one      *)
(* route pile up, through every order of queueing, skipping and expiring.  *)
(***************************************************************************)
QueueBounded ==
  /\ state.skipCount <= MaxConsecutiveSkips
  /\ \A e \in Edges : Len(state.queue[e]) <= state.skipCount + 1
  /\ \A n \in Nodes : Len(state.queue[n]) <= state.skipCount

(***************************************************************************)
(* A queue that is over a threshold fires in the very cycle that makes it  *)
(* so; one that is found over it is the leftover of a timed-out attempt.   *)
(***************************************************************************)
BacklogExplained ==
  QueueExceedsScore(state.queue) \/ QueueIsDiverse(state.queue) => state.skipCount > 0

(***************************************************************************)
(* The request cycle keeps the promises of the ledger: waiting routes are  *)
(* served, kept or dropped as a whole, an OPTIMIZED answer covers all of   *)
(* them, and only the attempt after max_consecutive_skips timed-out ones   *)
(* gives them up.                                                          *)
(***************************************************************************)
Ledger == INSTANCE TriggerLedger WITH
  Routes   <- Targets,
  MaxSkips <- MaxConsecutiveSkips,
  pending  <- Queued(state.queue),
  served   <- IF answer.verdict = "OPTIMIZED" THEN answer.routes ELSE {},
  skips    <- state.skipCount

LedgerSpec == Ledger!Spec
=============================================================================
