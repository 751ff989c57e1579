---------------------------- MODULE TriggerLedger ----------------------------
(***************************************************************************)
(* What the request cycle promises about triggers: the routes that wait    *)
(* for an optimization, what the last answer optimized, and how many       *)
(* attempts timed out since.  Waiting routes are worked off all together,  *)
(* dropped all together, or kept all together; none is ever singled out.   *)
(***************************************************************************)
EXTENDS Naturals

CONSTANTS
  Routes,     (* what can be triggered                                     *)
  MaxSkips    (* timed-out attempts before the waiting routes are given up *)

VARIABLES
  pending,    (* routes waiting for an optimization                        *)
  served,     (* routes the last answer was optimized for                  *)
  skips       (* timed-out attempts since the last optimization or give-up *)

vars == <<pending, served, skips>>

Init == pending = {} /\ served = {} /\ skips = 0

(* An optimization takes every waiting route along. *)
Serve ==
  \E raised \in SUBSET Routes :
    /\ pending \cup raised # {}
    /\ served' = pending \cup raised
    /\ pending' = {}
    /\ skips' = 0

(* Triggers raised during the cooldown wait. *)
Defer ==
  \E raised \in SUBSET Routes :
    /\ raised # {}
    /\ pending' = pending \cup raised
    /\ served' = {}
    /\ UNCHANGED skips

(* A timed-out attempt keeps them all, and what it was about. *)
TimeOut ==
  \E raised \in SUBSET Routes :
    /\ skips < MaxSkips
    /\ pending \cup raised # {}
    /\ pending' = pending \cup raised
    /\ served' = {}
    /\ skips' = skips + 1

(* The attempt after the last allowed one gives them all up. *)
GiveUp ==
  /\ skips = MaxSkips
  /\ pending' = {}
  /\ served' = {}
  /\ skips' = 0

(* A backlog nobody added to goes stale as a whole. *)
Expire ==
  /\ pending # {}
  /\ pending' = {}
  /\ served' = {}
  /\ UNCHANGED skips

(* An answer with nothing to report. *)
Pass ==
  /\ served' = {}
  /\ UNCHANGED <<pending, skips>>

Next == Serve \/ Defer \/ TimeOut \/ GiveUp \/ Expire \/ Pass

Spec == Init /\ [][Next]_vars
=============================================================================
