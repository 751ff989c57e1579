--------------------------- MODULE StagnationTimer ---------------------------
(***************************************************************************)
(* One arc's stagnation watch over a sequence of cycles, next to an        *)
(* account of the evidence it stands for, kept by different bookkeeping:   *)
(* the watch stores a start that it moves forward over gaps, the account   *)
(* adds up what each holding cycle contributes.                            *)
(***************************************************************************)
EXTENDS StagnationWatch

CONSTANTS
  Readings,     (* readings the arc may deliver                            *)
  Steps,        (* how far the clock may move between two requests         *)
  MaxTime       (* bound on the clock                                      *)

ASSUME TimerAssumption ==
  /\ Readings \subseteq Reading
  /\ Steps \subseteq Nat \ {0}
  /\ MaxTime \in Nat

VARIABLES
  now,        (* server_time of the last request                           *)
  watch,      (* the arc's entry in arc_watch_states                       *)
  account,    (* since when, until when and how much evidence was gathered *)
  fired       (* evidence at hand when the trigger last fired              *)

vars == <<now, watch, account, fired>>

NoEvidence == [first |-> NoTime, last |-> NoTime, credit |-> 0]

(* What a cycle that finds the condition holding adds to the account: the  *)
(* time since the last one, or one interval if that was too long ago.      *)
Credited(a, t) ==
  LET gap == t - a.last
  IN  IF a.first = NoTime
      THEN [first |-> t, last |-> t, credit |-> 0]
      ELSE [first |-> a.first, last |-> t,
            credit |-> a.credit + IF gap > StaleAfter THEN SampleInterval ELSE gap]

(* Evidence is void once M passes without seeing the condition hold. *)
Standing(a, t) ==
  IF a.last # NoTime /\ t - a.last > StagnationMin THEN NoEvidence ELSE a

AccountAfter(a, r, t) ==
  CASE HasStagnationBasis(r) /\ StagnationHeld(r)  -> Credited(Standing(a, t), t)
    [] HasStagnationBasis(r) /\ ~StagnationHeld(r) -> NoEvidence
    [] ~HasStagnationBasis(r) /\ OutOfScope(r)     -> NoEvidence
    [] ~HasStagnationBasis(r) /\ ~OutOfScope(r)    -> Standing(a, t)

-----------------------------------------------------------------------------
Init ==
  /\ now = 0
  /\ watch = NoWatch
  /\ account = NoEvidence
  /\ fired = NoTime

Advance == \E d \in Steps : now + d <= MaxTime /\ now' = now + d

(* A cycle that evaluates the arc. *)
JudgedCycle(r) ==
  /\ Advance
  /\ watch' = NextWatch(watch, r, now')
  /\ LET a == AccountAfter(account, r, now')
     IN  /\ account' = IF CombinedFires(watch, r, now') THEN NoEvidence ELSE a
         /\ fired' = IF CombinedFires(watch, r, now') THEN a.credit ELSE fired

(* A cycle in which the arc warms up, or is disabled: its entry is dropped. *)
UnwatchedCycle ==
  /\ Advance
  /\ watch' = NoWatch
  /\ account' = NoEvidence
  /\ UNCHANGED fired

(***************************************************************************)
(* The clock moves and the entry stays: no request was made, its answer    *)
(* was an error or was lost, or every target was warming up.               *)
(***************************************************************************)
MissedCycle ==
  /\ Advance
  /\ UNCHANGED <<watch, account, fired>>

Next == (\E r \in Readings : JudgedCycle(r)) \/ UnwatchedCycle \/ MissedCycle

Spec == Init /\ [][Next]_vars

-----------------------------------------------------------------------------
Account == [first : Instant, last : Instant, credit : Int]

(* Types of the variables. *)
TypeOK ==
  /\ now \in Nat
  /\ watch \in Watch
  /\ account \in Account
  /\ fired \in Int \cup {NoTime}

(***************************************************************************)
(* The stored start stands for exactly the evidence gathered: moving       *)
(* watch_since over gaps (_resumed_watch_since), carrying it through       *)
(* cycles that cannot judge, and dropping it when expired or broken keep   *)
(* lastHeld - since equal to the credit added up cycle by cycle.           *)
(***************************************************************************)
TimerMatchesEvidence ==
  /\ watch.lastHeld = account.last
  /\ (watch.since = NoTime) <=> (account.first = NoTime)
  /\ watch.since # NoTime => watch.lastHeld - watch.since = account.credit

(***************************************************************************)
(* The combined trigger never fires on less than M of credited evidence,   *)
(* whatever gaps, unjudged cycles and restarts lie in between.             *)
(***************************************************************************)
FiresOnlyOnEvidence == fired # NoTime => fired >= StagnationMin

(* The most that a stretch of StaleAfter can earn: itself, or one sampling *)
(* interval where that is longer.                                          *)
MostEarned == IF SampleInterval > StaleAfter THEN SampleInterval ELSE StaleAfter

(***************************************************************************)
(* Moving the start over gaps (_resumed_watch_since) never lets the timer  *)
(* run away from the clock: it never starts after the condition was last   *)
(* seen, and it counts at most the time since the condition was first      *)
(* seen.  The configuration check does not keep the staleness limit from   *)
(* being shorter than the sampling interval; then a gap shorter than an    *)
(* interval earns a whole one, the start moves back instead of forward,    *)
(* and the timer runs faster than the clock, by their ratio at most.       *)
(***************************************************************************)
TimerNeverRunsAhead ==
  watch.since # NoTime =>
    /\ watch.since <= watch.lastHeld
    /\ watch.lastHeld <= now
    /\ (watch.lastHeld - watch.since) * StaleAfter
         <= (watch.lastHeld - account.first) * MostEarned
=============================================================================
