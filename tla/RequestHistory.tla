--------------------------- MODULE RequestHistory ---------------------------
(***************************************************************************)
(* The request cycle with history variables, and the properties that speak *)
(* of more than one cycle.  The history only observes: every behaviour of  *)
(* RequestCycle has one.                                                   *)
(***************************************************************************)
EXTENDS RequestCycle

VARIABLES
  optimizedAt,  (* when the last OPTIMIZED answer was computed, NoTime once *)
                (* a scheduled event has ended its cooldown                 *)
  streak,       (* OPTIMIZED answers each arc took part in since one that   *)
                (* other arcs took part in without it, flagged arcs apart   *)
  survived      (* cycles answered out of the cooldown since routes wait,   *)
                (* that left them waiting                                   *)

Counted(a) == (a.routes \cap Edges) \ a.danger

Answered == answer'.verdict \in Verdict \ Errors

HInit ==
  /\ Init
  /\ optimizedAt = NoTime
  /\ streak = [e \in Edges |-> 0]
  /\ survived = 0

(* What an answer adds to the history. *)
Observe ==
  /\ optimizedAt' = IF answer'.verdict = "OPTIMIZED" THEN now'
                    ELSE IF answer'.scheduled THEN NoTime ELSE optimizedAt
  /\ streak' = IF answer'.verdict # "OPTIMIZED" \/ Counted(answer') = {} THEN streak
               ELSE [e \in Edges |-> IF e \in Counted(answer') THEN streak[e] + 1 ELSE 0]
  /\ survived' = IF Queued(state'.queue) = {} THEN 0
                 ELSE IF /\ Queued(state.queue) # {}
                         /\ Answered
                         /\ answer'.verdict # "SKIPPED_WARMUP"
                         /\ answer'.scheduled \/ ~InCooldown(state, now')
                      THEN survived + 1
                      ELSE survived

HNext == Next /\ Observe

hvars == <<now, state, answer, optimizedAt, streak, survived>>

HSpec == HInit /\ [][HNext]_hvars

-----------------------------------------------------------------------------
(***************************************************************************)
(* A cycle that raises a metric trigger or a danger flag either optimizes  *)
(* it, leaves it in the queue, or was the attempt after the last allowed   *)
(* skip; a route that waited before is dropped otherwise only by a cycle   *)
(* that raised nothing, out of the cooldown, with every entry too old and  *)
(* no waiting arc in the congestion warning.                               *)
(***************************************************************************)
GivenUp ==
  /\ answer'.verdict = "SKIPPED_TIME"
  /\ state.skipCount = MaxConsecutiveSkips

Expired ==
  /\ answer'.verdict = "SKIPPED_NO_TRIGGER"
  /\ answer'.metric \cup answer'.danger = {}
  /\ answer'.scheduled \/ ~InCooldown(state, now')
  /\ \A t \in Targets : \A i \in DOMAIN state.queue[t] :
       ~WithinFreshness(now' - state.queue[t][i].lastFired)
  /\ Queued(state.queue) \cap WatchedEdges(state'.watch) = {}

NoTriggerLost ==
  [][ /\ \A t \in Queued(state.queue) :
           \/ t \in Queued(state'.queue)
           \/ answer'.verdict = "OPTIMIZED" /\ t \in answer'.routes
           \/ GivenUp
           \/ Expired
      /\ \A t \in answer'.metric \cup answer'.danger :
           \/ t \in Queued(state'.queue)
           \/ answer'.verdict = "OPTIMIZED" /\ t \in answer'.routes
           \/ GivenUp
    ]_hvars

(***************************************************************************)
(* Only an OPTIMIZED answer takes the effects of firing: it alone starts a *)
(* cooldown and counts a retrigger; a timed-out attempt leaves both as if  *)
(* nothing had fired.                                                      *)
(***************************************************************************)
CountOf(s, e) == IF e \in DOMAIN s.retrigger THEN s.retrigger[e].count ELSE 0

OnlyOptimizedConsumes ==
  [][ answer'.verdict # "OPTIMIZED" =>
        /\ state'.cooldownUntil \in {state.cooldownUntil, NoTime}
        /\ state'.cooldownUntil # state.cooldownUntil => answer'.scheduled
        /\ \A e \in Edges : CountOf(state', e) <= CountOf(state, e)
    ]_hvars

(***************************************************************************)
(* A danger flag is acted on in its own cycle, whatever the cooldown, the  *)
(* warmup and the queue: its request is answered with an optimization of   *)
(* at least the flagged targets, or with a timeout.                        *)
(***************************************************************************)
DangerNeverDeferred ==
  [][ answer'.danger # {} =>
        /\ answer'.verdict \in {"OPTIMIZED", "SKIPPED_TIME"}
        /\ answer'.danger \subseteq answer'.routes
    ]_hvars

(***************************************************************************)
(* Two optimizations closer than the cooldown have a reason: a scheduled   *)
(* event since, a danger flag, or a backlog that new triggers pushed over  *)
(* a threshold.                                                            *)
(***************************************************************************)
Overloaded(queue, a) ==
  \/ QueueScore(queue) + SumFunctionOnSet(a.scores, a.metric) > ScoreThreshold
  \/ Cardinality((Queued(queue) \cup a.metric) \cap Edges) > DiversityThreshold

CooldownSpacing ==
  [][ /\ answer'.verdict = "OPTIMIZED"
      /\ optimizedAt # NoTime
      /\ now' < optimizedAt + CooldownMin
      => \/ answer'.scheduled
         \/ answer'.danger # {}
         \/ answer'.metric # {} /\ Overloaded(state.queue, answer')
    ]_hvars

(***************************************************************************)
(* An arc that warms up is never triggered by what it measures: it takes   *)
(* part in an answer only when flagged, or because it already waited.      *)
(***************************************************************************)
WarmupFiresOnlyBacklog ==
  [][ \A e \in answer'.routes \cap Edges :
        InWarmup(state', e, now') => e \in answer'.danger \/ state.queue[e] # << >>
    ]_hvars

(***************************************************************************)
(* A retrigger count never exceeds the optimizations the arc took part in  *)
(* without another arc taking its place (rule 1 of the retrigger tests),   *)
(* through timed-out attempts, quiet cycles, disabling and lowered flags.  *)
(***************************************************************************)
CountsOneOrigin == \A e \in Edges : CountOf(state, e) <= streak[e]

(***************************************************************************)
(* A backlog does not linger: out of the cooldown every answered cycle     *)
(* that detects at all empties the queue, unless it times out, which the   *)
(* skip counter allows only so often.                                      *)
(***************************************************************************)
BacklogDrains == survived <= state.skipCount
=============================================================================
