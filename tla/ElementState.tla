---------------------------- MODULE ElementState ----------------------------
(***************************************************************************)
(* What one cycle knows about one arc: the assessment of                   *)
(* domain/element_state.py, from the confidence flags, the age and the     *)
(* history of the arc to the inputs that the trigger conditions read.      *)
(*                                                                         *)
(* A reading is the arc's share of one request.  Flow rates, stagnation    *)
(* values and percentiles are abstracted to the outcome of the comparisons *)
(* the conditions make with them; the rules that decide whether a          *)
(* comparison may be made at all are those of the code.                    *)
(***************************************************************************)
EXTENDS Integers

CONSTANT StaleAfter    (* stale_after of an arc, in the unit of the clock  *)

Confidence == {"OK", "HOLD", "INVALID"}

HistoryTier == {"NONE", "WINDOW_ONLY", "SHORT", "ESTABLISHED"}

(***************************************************************************)
(* flags       confidence flags the arc's observations of this cycle carry *)
(* lag         server_time - observed_at                                   *)
(* tier        history tier of the arc                                     *)
(* stagnation  a stagnation value and a baseline for it are both at hand   *)
(* breaches    comparisons of that value that would come out true          *)
(* linePoints  samples in the surge window                                 *)
(* flow        what the line shows: no flow, too short a time span for a   *)
(*             slope, a slope within the threshold, a slope above it       *)
(* puncture    no puncture statistics, dwell ratio below or at/over kappa  *)
(* score       urgency score of a trigger raised from this reading         *)
(***************************************************************************)
Reading ==
  [flags      : SUBSET Confidence,
   lag        : Nat,
   tier       : HistoryTier,
   stagnation : BOOLEAN,
   breaches   : SUBSET {"percentile", "delta"},
   linePoints : Nat,
   flow       : {"zero", "unsloped", "steady", "surge"},
   puncture   : {"none", "below", "over"},
   score      : Nat \ {0}]

MinSeriesPoints == 2

(* One invalid flag outweighs the rest, and age outweighs a held value. *)
ObservationState(r) ==
  CASE r.flags = {}          -> "UNOBSERVED"
    [] "INVALID" \in r.flags -> "INVALID"
    [] OTHER -> IF r.lag >= StaleAfter THEN "STALE"
                ELSE IF "HOLD" \in r.flags THEN "HOLD" ELSE "OK"

Judgeable(r) == ObservationState(r) = "OK"

OutOfScope(r) == ObservationState(r) \in {"UNOBSERVED", "INVALID"}

Nominal(r) ==
  /\ Judgeable(r)
  /\ r.tier = "ESTABLISHED"
  /\ r.linePoints >= MinSeriesPoints

HasSurgeLine(r) == Judgeable(r) /\ r.linePoints >= MinSeriesPoints

HasStagnationBasis(r) == Judgeable(r) /\ r.stagnation /\ r.tier # "NONE"

(* The 90th percentile is used only from an established history. *)
HasP90(r) == r.tier = "ESTABLISHED"

(* (b).1: the least-squares slope exceeds the surge threshold. *)
SurgeBreached(r) == HasSurgeLine(r) /\ r.flow = "surge"

(* (d): the dwell ratio of a nominal arc reaches kappa. *)
PunctureReached(r) == Nominal(r) /\ r.puncture = "over"
=============================================================================
