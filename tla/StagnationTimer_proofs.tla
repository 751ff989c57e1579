----------------------- MODULE StagnationTimer_proofs -----------------------
(***************************************************************************)
(* Proofs about the stagnation timer, for every staleness limit, sampling  *)
(* interval and duration M, every set of readings and every spacing of the *)
(* requests.                                                               *)
(***************************************************************************)
EXTENDS StagnationTimer, TLAPS

(***************************************************************************)
(* The heart of the invariant: a start and a last-held time stand for an   *)
(* account at time t.                                                      *)
(***************************************************************************)
Stands(since, lastHeld, a, t) ==
  /\ since \in Instant /\ lastHeld \in Instant /\ a \in Account
  /\ lastHeld = a.last
  /\ since = NoTime <=> lastHeld = NoTime
  /\ since = NoTime <=> a.first = NoTime
  /\ since # NoTime => lastHeld - since = a.credit
  /\ since # NoTime => lastHeld <= t
  /\ since # NoTime =>
       /\ since <= lastHeld
       /\ (lastHeld - since) * StaleAfter <= (lastHeld - a.first) * MostEarned

IInv ==
  /\ TypeOK
  /\ Stands(watch.since, watch.lastHeld, account, now)
  /\ FiresOnlyOnEvidence

LEMMA Constants ==
  /\ NoTime \notin Int
  /\ StagnationMin \in Nat /\ SampleInterval \in Nat /\ StaleAfter \in Nat
  /\ MostEarned \in Nat /\ StaleAfter <= MostEarned /\ SampleInterval <= MostEarned
  BY WatchAssumption DEF MostEarned

(* A product does not fall when one of its factors rises. *)
LEMMA ProductRises ==
  ASSUME NEW x \in Nat, NEW y \in Nat, NEW k \in Nat, x <= y
  PROVE  x * k <= y * k
<1> DEFINE d == y - x
<1>1. d \in Nat /\ y = x + d
  OBVIOUS
<1>2. d * k \in Nat /\ x * k \in Nat
  BY <1>1
<1>3. y * k = x * k + d * k
  <2> HIDE DEF d
  <2> QED BY <1>1
<1> QED BY <1>2, <1>3

(* A gap earns no more than its share of what could be earned in it. *)
LEMMA GapEarns ==
  ASSUME NEW gap \in Nat, NEW gained \in Nat,
         gained = IF gap > StaleAfter THEN SampleInterval ELSE gap
  PROVE  gained * StaleAfter <= gap * MostEarned
<1>1. CASE gap > StaleAfter
  <2>1. SampleInterval * StaleAfter <= MostEarned * StaleAfter
    BY Constants, ProductRises
  <2>2. StaleAfter * MostEarned <= gap * MostEarned
    BY <1>1, Constants, ProductRises
  <2>3. MostEarned * StaleAfter = StaleAfter * MostEarned
    BY Constants
  <2>4. /\ SampleInterval * StaleAfter \in Nat /\ MostEarned * StaleAfter \in Nat
        /\ gap * MostEarned \in Nat
    BY Constants
  <2> QED BY <1>1, <2>1, <2>2, <2>3, <2>4
<1>2. CASE gap <= StaleAfter
  <2>1. StaleAfter * gap <= MostEarned * gap
    BY Constants, ProductRises
  <2>2. StaleAfter * gap = gap * StaleAfter /\ MostEarned * gap = gap * MostEarned
    BY Constants
  <2>3. gained = gap
    BY <1>2, Constants
  <2> QED BY <2>1, <2>2, <2>3
<1> QED BY <1>1, <1>2, Constants

(* Two rates that are kept are kept by their sum. *)
LEMMA RatesAdd ==
  ASSUME NEW a \in Int, NEW x \in Int, NEW b \in Int, NEW y \in Int,
         NEW s \in Nat, NEW k \in Nat,
         a * s <= b * k, x * s <= y * k
  PROVE  (a + x) * s <= (b + y) * k
<1>1. (a + x) * s = a * s + x * s /\ (b + y) * k = b * k + y * k
  OBVIOUS
<1>2. a * s \in Int /\ x * s \in Int /\ b * k \in Int /\ y * k \in Int
  OBVIOUS
<1> QED BY <1>1, <1>2

LEMMA IInvSuffices == IInv => TimerMatchesEvidence /\ TimerNeverRunsAhead
  BY Constants DEF IInv, Stands, TimerMatchesEvidence, TimerNeverRunsAhead, TypeOK

(* Nothing gathered is nothing gathered, at any time. *)
LEMMA NothingStands ==
  ASSUME NEW t \in Int
  PROVE  Stands(NoTime, NoTime, NoEvidence, t)
  BY Constants DEF Stands, NoEvidence, Instant, Account

(* Time alone changes nothing. *)
LEMMA StandsLater ==
  ASSUME NEW since, NEW lastHeld, NEW a, NEW t \in Int, NEW u \in Int, t <= u,
         Stands(since, lastHeld, a, t)
  PROVE  Stands(since, lastHeld, a, u)
  BY Constants DEF Stands, Instant, Account

(* The watch expires exactly when the evidence does. *)
LEMMA ExpiryStands ==
  ASSUME NEW w \in Watch, NEW a, NEW t \in Int, Stands(w.since, w.lastHeld, a, t)
  PROVE  /\ UnexpiredWatch(w, t) \in Watch
         /\ Stands(UnexpiredWatch(w, t).since, UnexpiredWatch(w, t).lastHeld, Standing(a, t), t)
<1>1. CASE w.lastHeld # NoTime /\ t - w.lastHeld > StagnationMin
  <2>1. UnexpiredWatch(w, t) = NoWatch /\ Standing(a, t) = NoEvidence
    BY <1>1 DEF UnexpiredWatch, Standing, Stands
  <2>2. NoWatch \in Watch /\ NoWatch.since = NoTime /\ NoWatch.lastHeld = NoTime
    BY DEF NoWatch, Watch, Instant
  <2> QED BY <2>1, <2>2, NothingStands
<1>2. CASE ~(w.lastHeld # NoTime /\ t - w.lastHeld > StagnationMin)
  <2>1. UnexpiredWatch(w, t) = w /\ Standing(a, t) = a
    BY <1>2 DEF UnexpiredWatch, Standing, Stands
  <2> QED BY <2>1
<1> QED BY <1>1, <1>2

(***************************************************************************)
(* A cycle that sees the condition hold: moving the start over the gap     *)
(* credits what the account credits.                                       *)
(***************************************************************************)
LEMMA HoldingStands ==
  ASSUME NEW w \in Watch, NEW a, NEW t \in Int, Stands(w.since, w.lastHeld, a, t),
         NEW since, since = IF ResumedSince(w, t) = NoTime THEN t ELSE ResumedSince(w, t)
  PROVE  Stands(since, t, Credited(a, t), t)
<1>1. CASE w.since = NoTime
  <2>1. since = t /\ Credited(a, t) = [first |-> t, last |-> t, credit |-> 0]
    BY <1>1, Constants DEF ResumedSince, Credited, Stands
  <2> QED BY <2>1, Constants DEF Stands, Instant, Account
<1>2. CASE w.since # NoTime
  <2> DEFINE gap == t - w.lastHeld
             gained == IF gap > StaleAfter THEN SampleInterval ELSE gap
  <2>1. /\ w.since \in Int /\ w.lastHeld \in Int /\ gap \in Int /\ gained \in Int
        /\ a.first \in Int /\ a.credit \in Int /\ a.last = w.lastHeld
        /\ w.lastHeld - w.since = a.credit /\ w.since <= w.lastHeld /\ w.lastHeld <= t
    BY <1>2, Constants DEF Stands, Instant, Account
  <2>2. since = IF gap > StaleAfter THEN w.since + gap - SampleInterval ELSE w.since
    BY <1>2, <2>1, Constants DEF ResumedSince, Stands
  <2>3. Credited(a, t) = [first |-> a.first, last |-> t, credit |-> a.credit + gained]
    BY <1>2, <2>1 DEF Credited, Stands
  <2>4. since \in Int /\ t - since = a.credit + gained
    BY <2>1, <2>2, Constants
  <2>5. since <= t
    BY <2>1, <2>2, Constants
  <2>6. Credited(a, t) \in Account
    BY <2>1, <2>3 DEF Account, Instant
  <2>7. (t - since) * StaleAfter <= (t - a.first) * MostEarned
    <3>1. gap \in Nat /\ gained \in Nat
      BY <2>1, Constants
    <3>2. gained * StaleAfter <= gap * MostEarned
      BY <3>1, GapEarns
    <3>3. a.credit * StaleAfter <= (w.lastHeld - a.first) * MostEarned
      BY <1>2, <2>1 DEF Stands
    <3>4. w.lastHeld - a.first \in Int
      BY <2>1
    <3>5. (a.credit + gained) * StaleAfter <= ((w.lastHeld - a.first) + gap) * MostEarned
      <4>1. gap \in Int /\ gained \in Int /\ a.credit \in Int
        BY <2>1
      <4> HIDE DEF gap, gained
      <4> QED BY <4>1, <3>2, <3>3, <3>4, Constants, RatesAdd
    <3>6. (w.lastHeld - a.first) + gap = t - a.first
      BY <2>1
    <3> QED BY <2>4, <3>5, <3>6
  <2> QED BY <2>1, <2>3, <2>4, <2>5, <2>6, <2>7, Constants DEF Stands, Instant
<1> QED BY <1>1, <1>2

(***************************************************************************)
(* What one evaluation leaves in the watch stands for what it leaves in    *)
(* the account, and a trigger that fires has its M of evidence.            *)
(***************************************************************************)
LEMMA EvaluationStands ==
  ASSUME NEW w \in Watch, NEW a, NEW r \in Reading, NEW t \in Int,
         Stands(w.since, w.lastHeld, a, t)
  PROVE  LET e == EvaluateStagnation(w, r, t)
         IN  /\ e.percentile \in BOOLEAN /\ e.delta \in BOOLEAN
             /\ Stands(e.since, e.lastHeld, AccountAfter(a, r, t), t)
             /\ e.established => AccountAfter(a, r, t).credit >= StagnationMin
<1> DEFINE e == EvaluateStagnation(w, r, t)
           v == UnexpiredWatch(w, t)
           s == Standing(a, t)
<1>0. v \in Watch /\ Stands(v.since, v.lastHeld, s, t)
  BY ExpiryStands
<1>1. CASE HasStagnationBasis(r) /\ StagnationHeld(r)
  <2> DEFINE since == IF ResumedSince(v, t) = NoTime THEN t ELSE ResumedSince(v, t)
  <2>1. AccountAfter(a, r, t) = Credited(s, t)
    BY <1>1 DEF AccountAfter
  <2>2. e = [established |-> StagnationHeld(r) /\ t - since >= StagnationMin,
             percentile |-> PercentileBreached(r), delta |-> DeltaBreached(r),
             since |-> since, lastHeld |-> t]
    BY <1>1 DEF EvaluateStagnation, JudgeStagnation
  <2>3. Stands(since, t, Credited(s, t), t)
    BY <1>0, HoldingStands
  <2>4. t - since = Credited(s, t).credit
    BY <2>3, Constants DEF Stands
  <2>5. PercentileBreached(r) \in BOOLEAN /\ DeltaBreached(r) \in BOOLEAN
    BY DEF PercentileBreached, DeltaBreached
  <2>6. /\ e.percentile \in BOOLEAN /\ e.delta \in BOOLEAN
        /\ e.since = since /\ e.lastHeld = t
        /\ e.established => t - since >= StagnationMin
    <3> HIDE DEF since, e
    <3> QED BY <2>2, <2>5
  <2>7. e.established => Credited(s, t).credit >= StagnationMin
    <3> HIDE DEF since, e, s
    <3> QED BY <2>4, <2>6
  <2>8. Stands(e.since, e.lastHeld, AccountAfter(a, r, t), t)
    <3> HIDE DEF since, e, s
    <3> QED BY <2>1, <2>3, <2>6
  <2> QED BY <2>1, <2>6, <2>7, <2>8
<1>2. CASE HasStagnationBasis(r) /\ ~StagnationHeld(r)
  <2>1. AccountAfter(a, r, t) = NoEvidence
    BY <1>2 DEF AccountAfter
  <2>2. /\ e.since = NoTime /\ e.lastHeld = NoTime /\ e.established = FALSE
        /\ e.percentile = PercentileBreached(r) /\ e.delta = DeltaBreached(r)
    BY <1>2 DEF EvaluateStagnation, JudgeStagnation
  <2> QED BY <2>1, <2>2, NothingStands DEF PercentileBreached, DeltaBreached
<1>3. CASE ~HasStagnationBasis(r) /\ OutOfScope(r)
  <2>1. AccountAfter(a, r, t) = NoEvidence
    BY <1>3 DEF AccountAfter
  <2>2. e = NotEvaluated
    BY <1>3 DEF EvaluateStagnation
  <2> QED BY <2>1, <2>2, NothingStands DEF NotEvaluated
<1>4. CASE ~HasStagnationBasis(r) /\ ~OutOfScope(r)
  <2>1. AccountAfter(a, r, t) = s
    BY <1>4 DEF AccountAfter
  <2>2. e = CarryStagnation(v)
    BY <1>4 DEF EvaluateStagnation
  <2> QED BY <2>1, <2>2, <1>0 DEF CarryStagnation, Watch
<1> QED BY <1>1, <1>2, <1>3, <1>4 DEF HasStagnationBasis, OutOfScope

-----------------------------------------------------------------------------
LEMMA InitIInv == Init => IInv
  BY NothingStands, Constants
  DEF Init, IInv, TypeOK, NoWatch, NoEvidence, Watch, Account, Instant, FiresOnlyOnEvidence

LEMMA AdvanceForward == TypeOK /\ Advance => now' \in Nat /\ now <= now'
  BY TimerAssumption DEF TypeOK, Advance

LEMMA JudgedCycleInv ==
  ASSUME IInv, NEW r \in Readings, JudgedCycle(r)
  PROVE  IInv'
<1> DEFINE e == EvaluateStagnation(watch, r, now')
           a == AccountAfter(account, r, now')
<1>1. now' \in Nat /\ now \in Int /\ now' \in Int /\ now <= now'
  BY AdvanceForward DEF IInv, TypeOK, JudgedCycle
<1>2. watch \in Watch /\ Stands(watch.since, watch.lastHeld, account, now')
  BY <1>1, StandsLater DEF IInv, TypeOK
<1>3. /\ e.percentile \in BOOLEAN /\ e.delta \in BOOLEAN
      /\ Stands(e.since, e.lastHeld, a, now')
      /\ e.established => a.credit >= StagnationMin
  <2>1. r \in Reading
    BY TimerAssumption
  <2> QED BY <1>1, <1>2, <2>1, EvaluationStands
<1>4. CASE CombinedFires(watch, r, now')
  <2>1. watch' = NoWatch /\ account' = NoEvidence /\ fired' = a.credit
    BY <1>4 DEF JudgedCycle, NextWatch
  <2>2. a.credit >= StagnationMin /\ a.credit \in Int
    BY <1>3, <1>4 DEF CombinedFires, Stands, Account
  <2>3. /\ NoWatch \in Watch /\ NoWatch.since = NoTime /\ NoWatch.lastHeld = NoTime
        /\ NoEvidence \in Account
    BY DEF NoWatch, Watch, Instant, NoEvidence, Account
  <2>4. Stands(NoTime, NoTime, NoEvidence, now')
    BY <1>1, NothingStands
  <2> HIDE DEF a
  <2> QED BY <1>1, <2>1, <2>2, <2>3, <2>4 DEF IInv, TypeOK, FiresOnlyOnEvidence
<1>5. CASE ~CombinedFires(watch, r, now')
  <2>1. /\ watch' = [percentile |-> e.percentile, delta |-> e.delta, since |-> e.since,
                     lastHeld |-> e.lastHeld, surge |-> SurgeBreached(r)]
        /\ account' = a /\ fired' = fired
    BY <1>5 DEF JudgedCycle, NextWatch
  <2>2. SurgeBreached(r) \in BOOLEAN
    BY DEF SurgeBreached, HasSurgeLine, Judgeable
  <2>3. watch' \in Watch /\ account' \in Account
    BY <1>3, <2>1, <2>2 DEF Watch, Stands
  <2> HIDE DEF a, e
  <2> QED BY <1>1, <1>3, <2>1, <2>3 DEF IInv, TypeOK, FiresOnlyOnEvidence
<1> QED BY <1>4, <1>5

LEMMA NextIInv == IInv /\ [Next]_vars => IInv'
<1> SUFFICES ASSUME IInv, [Next]_vars PROVE IInv'
  OBVIOUS
<1>1. ASSUME NEW r \in Readings, JudgedCycle(r) PROVE IInv'
  BY <1>1, JudgedCycleInv
<1>2. CASE UnwatchedCycle
  <2>1. now' \in Nat /\ now' \in Int
    BY <1>2, AdvanceForward DEF IInv, UnwatchedCycle
  <2>2. /\ NoWatch \in Watch /\ NoWatch.since = NoTime /\ NoWatch.lastHeld = NoTime
        /\ NoEvidence \in Account
    BY DEF NoWatch, Watch, Instant, NoEvidence, Account
  <2> QED BY <1>2, <2>1, <2>2, NothingStands
          DEF IInv, TypeOK, UnwatchedCycle, FiresOnlyOnEvidence
<1>3. CASE MissedCycle
  <2>1. now' \in Nat /\ now' \in Int /\ now \in Int /\ now <= now'
    BY <1>3, AdvanceForward DEF IInv, TypeOK, MissedCycle
  <2> QED BY <1>3, <2>1, StandsLater DEF IInv, TypeOK, MissedCycle, FiresOnlyOnEvidence
<1>4. CASE UNCHANGED vars
  BY <1>4 DEF vars, IInv, TypeOK, FiresOnlyOnEvidence
<1> QED BY <1>1, <1>2, <1>3, <1>4 DEF Next

LEMMA Invariance == Spec => []IInv
  BY InitIInv, NextIInv, PTL DEF Spec

(* The variables keep their types. *)
THEOREM TypeCorrect == Spec => []TypeOK
<1>1. IInv => TypeOK
  BY DEF IInv
<1> QED BY <1>1, Invariance, PTL

(* The stored start and last-held time stand for the evidence gathered, *)
(* whatever gaps and unjudged cycles lie in between.                    *)
THEOREM TimerSound == Spec => []TimerMatchesEvidence
  BY IInvSuffices, Invariance, PTL

(* The combined trigger fires on M of evidence or not at all. *)
THEOREM FiresSoundly == Spec => []FiresOnlyOnEvidence
<1>1. IInv => FiresOnlyOnEvidence
  BY DEF IInv
<1> QED BY <1>1, Invariance, PTL

(* Gaps never let the timer run away from the clock, for every staleness *)
(* limit and sampling interval, the limit shorter than the interval      *)
(* included.                                                             *)
THEOREM NeverAhead == Spec => []TimerNeverRunsAhead
  BY IInvSuffices, Invariance, PTL
=============================================================================
