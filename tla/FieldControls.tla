---------------------------- MODULE FieldControls ----------------------------
(***************************************************************************)
(* What stands closed, limited or paused in the field over many cycles.    *)
(*                                                                         *)
(* The service keeps nothing.  It takes back what it has restricted by     *)
(* looking at the previous answer, which the caller sends along            *)
(* (build_resume_proposals, compute_boundary_control); a cycle that ends   *)
(* without an optimization has no answer, and the caller then sends none   *)
(* (devtools/scenarios/_observation.py).  The field does what it is told.  *)
(*                                                                         *)
(* A situation s is what one cycle finds: the graph s.g with its danger    *)
(* flags, the demand s.coms, and what the zones ask to restrict, s.zonal.  *)
(***************************************************************************)
EXTENDS Restrictions, BoundaryControl

CONSTANT Situations

Pauses == {"PAUSE_INGRESS", "PAUSE_EGRESS"}

Edges(proposals) == {p.edge : p \in {q \in ToSet(proposals) : q.action # "RESUME"}}
Resumed(proposals) == {p.edge : p \in {q \in ToSet(proposals) : q.action = "RESUME"}}

NoResult == [exists |-> FALSE, restrictions |-> <<>>, boundary |-> {}]

\* Passages are finitely many, with numbers for identifiers.  Zones have no
\* passage in common, so each asks for another one of the graph's passages.
ASSUME SituationsAssumption ==
  \A s \in Situations :
    /\ IsFiniteSet(DOMAIN s.g.edge) /\ DOMAIN s.g.edge \subseteq Nat
    /\ s.zonal \in Seq(ToSet(s.zonal))
    /\ \A i, j \in DOMAIN s.zonal : i # j => s.zonal[i].edge # s.zonal[j].edge
    /\ \A p \in ToSet(s.zonal) :
         /\ p.edge \in DOMAIN s.g.edge
         /\ p.action \in (IF BoundaryNodes(s.g) # {} THEN {"CLOSE", "LIMIT"} ELSE {"LIMIT"})

VARIABLES
  situation,   \* what the last cycle found
  kind,        \* how the last cycle was answered
  answer,      \* its result, NoResult if there is none
  previous,    \* the result the caller sends with the next request
  restricted,  \* the passages that stand closed or limited
  paused,      \* the boundary nodes that stand paused, with the direction
  unbroken,    \* no answer has passed over what stands restricted (history)
  strayed      \* the nodes whose pause an answer has passed over (history)

field == <<restricted, paused>>
vars == <<situation, kind, answer, previous, restricted, paused, unbroken, strayed>>

Open(s) == BoundaryNodes(s.g) # {}
Boundary(s) == ComputeBoundaryControl(s.g, Open(s), previous.boundary, s.coms)

Result(restrictions, boundary) ==
  [exists |-> TRUE, restrictions |-> restrictions, boundary |-> boundary]

\* The field does what an answer says and leaves the rest as it is.
Obey(a) ==
  /\ restricted' = (restricted \ Resumed(a.restrictions)) \cup Edges(a.restrictions)
  /\ paused' = {c \in paused : <<c[1], "RESUME">> \notin a.boundary}
               \cup {c \in a.boundary : c[2] \in Pauses}

\* The pauses at nodes that do not serve the paused direction now.
OutOfService(s) ==
  {c \in paused : c[1] \notin (IF c[2] = "PAUSE_INGRESS" THEN EntryNodes(s.g) ELSE ExitNodes(s.g))}

\* History.  An answer is complete if it looks at all restrictions there
\* have been, and passes over the given pauses.
Trace(complete, passedOver) ==
  /\ unbroken' = (restricted' = {} \/ (unbroken /\ (complete \/ restricted = {})))
  /\ strayed' = (strayed \cup {c[1] : c \in passedOver}) \cap {c[1] : c \in paused'}

Answer(s, how, a) ==
  /\ situation' = s /\ kind' = how /\ answer' = a /\ previous' = a
  /\ Obey(a)

-----------------------------------------------------------------------------
(* One action per way a cycle ends                                         *)

\* The lightweight search answers; restricting is turned on.
AnswerSearch(s) ==
  /\ Answer(s, "SEARCH", Result(WithResumes(previous.restrictions, s.zonal), Boundary(s)))
  /\ Trace(TRUE, OutOfService(s))

\* The strict program answers, or restricting is turned off.
AnswerUnrestricted(s) ==
  /\ Answer(s, "STRICT", Result(<<>>, Boundary(s)))
  /\ Trace(FALSE, OutOfService(s))

\* The assignment with slack answers: limits for what is overloaded, and no
\* word of earlier restrictions.
AnswerSlack(s) ==
  /\ \E overloaded \in SUBSET EnabledEdges(s.g) :
       LET order  == InOrder(overloaded)
           limits == [i \in DOMAIN order |-> Proposal(order[i], "LIMIT", {}, "OVERLOAD")]
       IN  Answer(s, "SLACK_LP", Result(limits, Boundary(s)))
  /\ Trace(FALSE, OutOfService(s))

\* The previous answer again, with all it said.
AnswerPrevious(s) ==
  /\ previous.exists
  /\ Answer(s, "PREVIOUS_RESULT", previous)
  /\ Trace(TRUE, {})

\* Nothing can be solved and there is nothing to repeat.
AnswerNothing(s) ==
  /\ ~previous.exists
  /\ Answer(s, "NO_RESULT", Result(<<>>, {}))
  /\ Trace(FALSE, paused)

\* No optimization: not triggered, queued, late or refused.
NoAnswer(s) ==
  /\ Answer(s, "NONE", NoResult)
  /\ Trace(FALSE, paused)

Init ==
  /\ situation \in Situations /\ kind = "NONE"
  /\ answer = NoResult /\ previous = NoResult
  /\ restricted = {} /\ paused = {}
  /\ unbroken = TRUE /\ strayed = {}

Next ==
  \E s \in Situations :
    \/ AnswerSearch(s) \/ AnswerUnrestricted(s) \/ AnswerSlack(s)
    \/ AnswerPrevious(s) \/ AnswerNothing(s) \/ NoAnswer(s)

Spec == Init /\ [][Next]_vars

-----------------------------------------------------------------------------
(* Properties                                                              *)

Fresh == kind \in {"SEARCH", "STRICT", "SLACK_LP"}

PausedNodes == {c[1] : c \in paused}

\* Type correctness; an answer says one thing of a passage.
TypeOK ==
  /\ situation \in Situations
  /\ kind \in {"SEARCH", "STRICT", "SLACK_LP", "PREVIOUS_RESULT", "NO_RESULT", "NONE"}
  /\ restricted \subseteq UNION {DOMAIN s.g.edge : s \in Situations}
  /\ paused \subseteq (UNION {DOMAIN s.g.node : s \in Situations}) \X Pauses
  /\ \A a \in {answer, previous} : a.exists \in BOOLEAN /\ (~a.exists => a = NoResult)
  /\ \A i, j \in DOMAIN answer.restrictions :
       i # j => answer.restrictions[i].edge # answer.restrictions[j].edge
  /\ unbroken \in BOOLEAN /\ strayed \subseteq PausedNodes

\* Nobody is told to resume what is not held: a fresh answer resumes only
\* what stood restricted or paused before it, and never restricts or pauses
\* the same thing in the same breath, whatever answers came before
\* (still_restricted and seen in build_resume_proposals, paused_now in
\* compute_boundary_control).
ResumesOnlyWhatIsHeld ==
  [][Fresh' =>
       /\ Resumed(answer'.restrictions) \subseteq restricted \ Edges(answer'.restrictions)
       /\ \A c \in answer'.boundary : c[2] = "RESUME" =>
            /\ c[1] \in PausedNodes
            /\ ~ \E d \in Pauses : <<c[1], d>> \in answer'.boundary]_vars

\* Nothing stays closed or limited beyond its need: as long as no answer
\* passed over what stands restricted, the search leaves exactly those
\* passages restricted that the zones ask for now, over any number of
\* repeated previous answers in between.
RestrictionsFollowNeed ==
  kind = "SEARCH" /\ unbroken => restricted = Edges(situation.zonal)

\* No gate stays shut beyond the danger: after a fresh answer in an open
\* site, a node whose pause has been in every answer's sight stands paused
\* only if this answer pauses it.
PausesFollowDanger ==
  Fresh /\ Open(situation) =>
    \A n \in PausedNodes \ strayed : \E d \in Pauses : <<n, d>> \in answer.boundary
=============================================================================
