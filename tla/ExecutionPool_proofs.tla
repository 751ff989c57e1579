------------------------ MODULE ExecutionPool_proofs ------------------------
(***************************************************************************)
(* Proofs about ExecutionPool for any set of calls.                        *)
(***************************************************************************)
EXTENDS ExecutionPool, SequenceTheorems, TLAPS

(***************************************************************************)
(* A call's phase, its future and its reply go together, and the futures   *)
(* tell which jobs wait and which one runs.                                *)
(***************************************************************************)
CallsInStep ==
  \A c \in Calls :
    /\ phase[c] \in {"idle", "admitting", "acquiring", "submitting"} =>
         future[c] = "none" /\ reply[c] = "none"
    /\ phase[c] = "waiting" => future[c] # "none" /\ reply[c] = "none"

JobsInStep ==
  /\ \A i \in DOMAIN queue : future[queue[i]] = "pending"
  /\ Len(queue) <= 1
  /\ \A c \in Calls :
       /\ future[c] = "pending" => queue # << >>
       /\ future[c] \in {"running", "released"} <=> running = c

IInv ==
  /\ TypeOK
  /\ SlotHasOneHolder
  /\ RefusedLeavesNothing
  /\ CallsInStep
  /\ JobsInStep

-----------------------------------------------------------------------------
LEMMA InitTypeOK == Init => TypeOK
<1> SUFFICES ASSUME Init PROVE TypeOK
  OBVIOUS
<1>1. phase \in [Calls -> Phase] /\ reply \in [Calls -> Reply]
  BY DEF Init, Phase, Reply
<1>2. future \in [Calls -> Future] /\ server \in Server
  BY DEF Init, Future, Server
<1>3. slot \in BOOLEAN /\ running \in Calls \cup {NoCall}
  BY DEF Init
<1>4. queue \in Seq(Calls)
  BY Zenon, EmptySeq DEF Init
<1> QED BY <1>1, <1>2, <1>3, <1>4 DEF TypeOK

(* An answer is of the right type; it says nothing of the pool. *)
LEMMA AnswerTypeOK ==
  ASSUME TypeOK, NEW c \in Calls, NEW status \in Reply, Answer(c, status)
  PROVE  phase' \in [Calls -> Phase] /\ reply' \in [Calls -> Reply]
<1>1. "done" \in Phase
  BY DEF Phase
<1> QED BY <1>1 DEF TypeOK, Answer

LEMMA NextTypeOK == TypeOK /\ [Next]_vars => TypeOK'
<1> SUFFICES ASSUME TypeOK, [Next]_vars PROVE TypeOK'
  OBVIOUS
<1> USE DEF Pool
<1>a. {"admitting", "acquiring", "submitting", "waiting"} \subseteq Phase
  BY DEF Phase
<1>b. Reply = {"none", "OK", "INVALID_ARGUMENT", "INTERNAL", "DEADLINE_EXCEEDED",
               "CANCELLED", "RESOURCE_EXHAUSTED", "UNAVAILABLE"}
  BY DEF Reply
<1>c. {"pending", "running", "released", "cancelled"} \cup Outcome \subseteq Future
  BY DEF Future
<1>d. {"stopped", "closed", "shut", "exited"} \subseteq Server
  BY DEF Server
<1>1. ASSUME NEW c \in Calls, Start(c) PROVE TypeOK'
  BY <1>1, <1>a, <1>b, AnswerTypeOK DEF Start, TypeOK
<1>2. ASSUME NEW c \in Calls, Admit(c) PROVE TypeOK'
  BY <1>2, <1>a, <1>b, AnswerTypeOK DEF Admit, TypeOK
<1>3. ASSUME NEW c \in Calls, Acquire(c) PROVE TypeOK'
  BY <1>3, <1>a, <1>b, AnswerTypeOK DEF Acquire, TypeOK
<1>4. ASSUME NEW c \in Calls, Submit(c) PROVE TypeOK'
  <2>1. CASE ExecutorShut
    BY <2>1, <1>4, <1>b, AnswerTypeOK DEF Submit, TypeOK
  <2>2. CASE ~ExecutorShut
    <3>1. queue' \in Seq(Calls)
      BY <2>2, <1>4 DEF Submit, TypeOK
    <3>2. phase' \in [Calls -> Phase] /\ future' \in [Calls -> Future]
      BY <2>2, <1>4, <1>a, <1>c DEF Submit, TypeOK
    <3> QED BY <2>2, <1>4, <3>1, <3>2 DEF Submit, TypeOK
  <2> QED BY <2>1, <2>2
<1>5. ASSUME NEW c \in Calls, Respond(c) \/ TimeOut(c) \/ Cancel(c) PROVE TypeOK'
  BY <1>5, <1>b, AnswerTypeOK DEF Respond, TimeOut, Cancel, TypeOK
<1>6. CASE TakeJob
  <2>1. Head(queue) \in Calls /\ Tail(queue) \in Seq(Calls)
    BY <1>6 DEF TakeJob, TypeOK
  <2> QED BY <2>1, <1>6, <1>c DEF TakeJob, TypeOK
<1>7. CASE FinishJob \/ SetResult
  BY <1>7, <1>c DEF FinishJob, SetResult, TypeOK
<1>8. CASE Stop \/ Close \/ Exit
  BY <1>8, <1>d DEF Stop, Close, Exit, TypeOK
<1>9. CASE ShutExecutor
  <2>1. queue' \in Seq(Calls) /\ future' \in [Calls -> Future]
    BY <1>9, <1>c DEF ShutExecutor, TypeOK
  <2> QED BY <2>1, <1>9, <1>d DEF ShutExecutor, TypeOK
<1>10. CASE UNCHANGED vars
  BY <1>10 DEF vars, TypeOK
<1> QED
  BY <1>1, <1>2, <1>3, <1>4, <1>5, <1>6, <1>7, <1>8, <1>9, <1>10 DEF Next, OnEventLoop

LEMMA InitIInv == Init => IInv
<1> SUFFICES ASSUME Init PROVE IInv
  OBVIOUS
<1>1. SlotHasOneHolder
  BY DEF Init, SlotHasOneHolder, Holders
<1>2. RefusedLeavesNothing /\ CallsInStep
  BY DEF Init, RefusedLeavesNothing, CallsInStep
<1>3. JobsInStep
  BY PoolAssumption DEF Init, JobsInStep
<1> QED BY InitTypeOK, <1>1, <1>2, <1>3 DEF IInv

-----------------------------------------------------------------------------
(* What the invariant says of the queue: at most one job, and it is pending. *)
LEMMA QueueOfOne ==
  ASSUME IInv, queue # << >>
  PROVE  /\ Head(queue) \in Calls
         /\ future[Head(queue)] = "pending"
         /\ Tail(queue) = << >>
         /\ ToSet(queue) = {Head(queue)}
<1>1. queue \in Seq(Calls) /\ Len(queue) = 1
  <2>1. queue \in Seq(Calls) /\ Len(queue) <= 1
    BY DEF IInv, TypeOK, JobsInStep
  <2>2. Len(queue) \in Nat \ {0}
    BY <2>1, EmptySeq
  <2>3. \A n \in Nat \ {0} : n <= 1 => n = 1
    OBVIOUS
  <2> QED BY <2>1, <2>2, <2>3, Zenon
<1>2. Head(queue) = queue[1] /\ DOMAIN queue = {1}
  <2>1. DOMAIN queue = 1 .. 1
    BY <1>1, LenProperties
  <2> QED BY <2>1, <1>1
<1>3. Tail(queue) = << >>
  <2>1. Tail(queue) \in Seq(Calls) /\ Len(Tail(queue)) = 0
    BY <1>1, HeadTailProperties
  <2> QED BY <2>1, EmptySeq
<1>4. ToSet(queue) = {Head(queue)}
  BY <1>2 DEF ToSet
<1>5. queue[1] \in Calls /\ future[queue[1]] = "pending"
  BY <1>1, <1>2 DEF IInv, JobsInStep
<1> QED BY <1>2, <1>3, <1>4, <1>5

LEMMA EmptyQueue == ToSet(<< >>) = {}
  BY DEF ToSet

(* Each part of the invariant, action by action. *)

LEMMA NextCallsInStep == IInv /\ [Next]_vars => CallsInStep'
<1> SUFFICES ASSUME IInv, [Next]_vars PROVE CallsInStep'
  OBVIOUS
<1> USE DEF IInv, TypeOK, CallsInStep, Pool, Answer
<1>1. ASSUME NEW c \in Calls, Start(c) PROVE CallsInStep'
  BY <1>1 DEF Start
<1>2. ASSUME NEW c \in Calls, Admit(c) PROVE CallsInStep'
  BY <1>2 DEF Admit
<1>3. ASSUME NEW c \in Calls, Acquire(c) PROVE CallsInStep'
  BY <1>3 DEF Acquire
<1>4. ASSUME NEW c \in Calls, Submit(c) PROVE CallsInStep'
  BY <1>4 DEF Submit
<1>5. ASSUME NEW c \in Calls, Respond(c) \/ TimeOut(c) \/ Cancel(c) PROVE CallsInStep'
  BY <1>5 DEF Respond, TimeOut, Cancel
<1>6. CASE TakeJob
  BY <1>6, QueueOfOne DEF TakeJob
<1>7. CASE FinishJob \/ SetResult
  BY <1>7 DEF FinishJob, SetResult, Outcome
<1>8. CASE Stop \/ Close \/ Exit
  BY <1>8 DEF Stop, Close, Exit
<1>9. CASE ShutExecutor
  <2>1. \A c \in ToSet(queue) : c \in Calls /\ future[c] = "pending"
    BY QueueOfOne, EmptyQueue
  <2> QED BY <2>1, <1>9 DEF ShutExecutor
<1>10. CASE UNCHANGED vars
  BY <1>10 DEF vars
<1> QED
  BY <1>1, <1>2, <1>3, <1>4, <1>5, <1>6, <1>7, <1>8, <1>9, <1>10 DEF Next, OnEventLoop

LEMMA NextRefusedLeavesNothing == IInv /\ [Next]_vars => RefusedLeavesNothing'
<1> SUFFICES ASSUME IInv, [Next]_vars PROVE RefusedLeavesNothing'
  OBVIOUS
<1> USE DEF IInv, TypeOK, CallsInStep, RefusedLeavesNothing, Pool, Answer
<1>1. ASSUME NEW c \in Calls, Start(c) PROVE RefusedLeavesNothing'
  BY <1>1 DEF Start
<1>2. ASSUME NEW c \in Calls, Admit(c) PROVE RefusedLeavesNothing'
  BY <1>2 DEF Admit
<1>3. ASSUME NEW c \in Calls, Acquire(c) PROVE RefusedLeavesNothing'
  BY <1>3 DEF Acquire
<1>4. ASSUME NEW c \in Calls, Submit(c) PROVE RefusedLeavesNothing'
  BY <1>4 DEF Submit
<1>5. ASSUME NEW c \in Calls, Respond(c) \/ TimeOut(c) \/ Cancel(c)
      PROVE RefusedLeavesNothing'
  BY <1>5 DEF Respond, TimeOut, Cancel
<1>6. CASE TakeJob
  BY <1>6, QueueOfOne DEF TakeJob
<1>7. CASE FinishJob \/ SetResult
  BY <1>7 DEF FinishJob, SetResult, Outcome
<1>8. CASE Stop \/ Close \/ Exit
  BY <1>8 DEF Stop, Close, Exit
<1>9. CASE ShutExecutor
  <2>1. \A c \in ToSet(queue) : c \in Calls /\ future[c] = "pending"
    BY QueueOfOne, EmptyQueue
  <2> QED BY <2>1, <1>9 DEF ShutExecutor
<1>10. CASE UNCHANGED vars
  BY <1>10 DEF vars
<1> QED
  BY <1>1, <1>2, <1>3, <1>4, <1>5, <1>6, <1>7, <1>8, <1>9, <1>10 DEF Next, OnEventLoop

LEMMA NextJobsInStep == IInv /\ [Next]_vars => JobsInStep'
<1> SUFFICES ASSUME IInv, [Next]_vars PROVE JobsInStep'
  OBVIOUS
<1> USE DEF IInv, TypeOK, CallsInStep, JobsInStep, SlotHasOneHolder, Holders, Pool
<1>1. ASSUME NEW c \in Calls, Start(c) PROVE JobsInStep'
  BY <1>1 DEF Start
<1>2. ASSUME NEW c \in Calls, Admit(c) PROVE JobsInStep'
  BY <1>2 DEF Admit
<1>3. ASSUME NEW c \in Calls, Acquire(c) PROVE JobsInStep'
  BY <1>3 DEF Acquire
<1>4. ASSUME NEW c \in Calls, Submit(c) PROVE JobsInStep'
  <2>1. CASE ExecutorShut
    BY <2>1, <1>4 DEF Submit
  <2>2. CASE ~ExecutorShut
    (* The caller holds the slot, so that no job waits. *)
    <3>1. queue = << >>
      BY <1>4, QueueOfOne DEF Submit
    <3>2. queue' = <<c>>
      BY <2>2, <1>4, <3>1 DEF Submit
    <3>3. future' = [future EXCEPT ![c] = "pending"] /\ running' = running
      BY <2>2, <1>4 DEF Submit
    <3>4. future[c] = "none"
      BY <1>4 DEF Submit
    <3> QED BY <3>2, <3>3, <3>4, <3>1
  <2> QED BY <2>1, <2>2
<1>5. ASSUME NEW c \in Calls, Respond(c) \/ TimeOut(c) \/ Cancel(c) PROVE JobsInStep'
  BY <1>5 DEF Respond, TimeOut, Cancel
<1>6. CASE TakeJob
  <2>1. /\ queue' = << >>
        /\ running' = Head(queue)
        /\ future' = [future EXCEPT ![Head(queue)] = "running"]
    BY <1>6, QueueOfOne DEF TakeJob
  <2>2. \A c \in Calls : future[c] = "pending" => c = Head(queue)
    BY <1>6, QueueOfOne DEF TakeJob
  <2>3. \A c \in Calls : future[c] \notin {"running", "released"}
    BY <1>6, PoolAssumption DEF TakeJob
  <2> QED BY <1>6, <2>1, <2>2, <2>3, QueueOfOne DEF TakeJob
<1>7. CASE FinishJob \/ SetResult
  <2>1. running \in Calls /\ \A i \in DOMAIN queue : queue[i] # running
    BY <1>7 DEF FinishJob, SetResult
  <2> QED BY <1>7, <2>1, PoolAssumption DEF FinishJob, SetResult, Outcome
<1>8. CASE Stop \/ Close \/ Exit
  BY <1>8 DEF Stop, Close, Exit
<1>9. CASE ShutExecutor
  <2>1. \A c \in Calls : c \in ToSet(queue) <=> future[c] = "pending"
    BY QueueOfOne, EmptyQueue
  <2> QED BY <2>1, <1>9 DEF ShutExecutor
<1>10. CASE UNCHANGED vars
  BY <1>10 DEF vars
<1> QED
  BY <1>1, <1>2, <1>3, <1>4, <1>5, <1>6, <1>7, <1>8, <1>9, <1>10 DEF Next, OnEventLoop

LEMMA NextSlotHasOneHolder == IInv /\ [Next]_vars => SlotHasOneHolder'
<1> SUFFICES ASSUME IInv, [Next]_vars PROVE SlotHasOneHolder'
  OBVIOUS
<1> USE DEF IInv, TypeOK, CallsInStep, SlotHasOneHolder, Pool, Answer
<1>0. ASSUME Holders' = Holders, slot' = slot PROVE SlotHasOneHolder'
  BY <1>0
<1>1. ASSUME NEW c \in Calls, Start(c) PROVE SlotHasOneHolder'
  <2>1. Holders' = Holders
    BY <1>1 DEF Start, Holders
  <2> QED BY <2>1, <1>0, <1>1 DEF Start
<1>2. ASSUME NEW c \in Calls, Admit(c) PROVE SlotHasOneHolder'
  <2>1. Holders' = Holders
    BY <1>2 DEF Admit, Holders
  <2> QED BY <2>1, <1>0, <1>2 DEF Admit
<1>3. ASSUME NEW c \in Calls, Acquire(c) PROVE SlotHasOneHolder'
  <2>1. CASE slot
    <3>1. Holders' = Holders
      BY <2>1, <1>3 DEF Acquire, Holders
    <3> QED BY <3>1, <2>1, <1>0, <1>3 DEF Acquire
  <2>2. CASE ~slot
    (* Nobody holds the slot, and the caller takes it. *)
    <3>1. Holders' = {c}
      BY <2>2, <1>3 DEF Acquire, Holders
    <3> QED BY <3>1, <2>2, <1>3 DEF Acquire
  <2> QED BY <2>1, <2>2
<1>4. ASSUME NEW c \in Calls, Submit(c) PROVE SlotHasOneHolder'
  <2>1. Holders = {c}
    BY <1>4 DEF Submit, Holders
  <2>2. CASE ExecutorShut
    <3>1. Holders' = {}
      BY <2>1, <2>2, <1>4 DEF Submit, Holders
    <3> QED BY <3>1, <2>2, <1>4 DEF Submit
  <2>3. CASE ~ExecutorShut
    <3>1. Holders' = {c}
      BY <2>1, <2>3, <1>4 DEF Submit, Holders
    <3> QED BY <3>1, <2>1, <2>3, <1>4 DEF Submit
  <2> QED BY <2>2, <2>3
<1>5. ASSUME NEW c \in Calls, Respond(c) \/ TimeOut(c) \/ Cancel(c)
      PROVE SlotHasOneHolder'
  <2>1. Holders' = Holders
    BY <1>5 DEF Respond, TimeOut, Cancel, Holders
  <2> QED BY <2>1, <1>0, <1>5 DEF Respond, TimeOut, Cancel
<1>6. CASE TakeJob
  <2>1. Holders' = Holders
    BY <1>6, QueueOfOne DEF TakeJob, Holders
  <2> QED BY <2>1, <1>0, <1>6 DEF TakeJob
<1>7. CASE FinishJob
  (* The running job holds the slot, and nobody else does. *)
  <2>1. Holders = {running}
    BY <1>7 DEF FinishJob, Holders
  <2>2. Holders' = {}
    BY <2>1, <1>7 DEF FinishJob, Holders
  <2> QED BY <2>2, <1>7 DEF FinishJob
<1>8. CASE SetResult
  <2>1. Holders' = Holders
    BY <1>8 DEF SetResult, Holders, Outcome
  <2> QED BY <2>1, <1>0, <1>8 DEF SetResult
<1>9. CASE Stop \/ Close \/ Exit
  <2>1. Holders' = Holders
    BY <1>9 DEF Stop, Close, Exit, Holders
  <2> QED BY <2>1, <1>0, <1>9 DEF Stop, Close, Exit
<1>10. CASE ShutExecutor
  (* A cancelled job holds the slot in place of the pending one. *)
  <2>1. \A c \in ToSet(queue) : c \in Calls /\ future[c] = "pending"
    BY QueueOfOne, EmptyQueue
  <2>2. Holders' = Holders
    BY <2>1, <1>10 DEF ShutExecutor, Holders
  <2> QED BY <2>2, <1>0, <1>10 DEF ShutExecutor
<1>11. CASE UNCHANGED vars
  <2>1. Holders' = Holders
    BY <1>11 DEF vars, Holders
  <2> QED BY <2>1, <1>0, <1>11 DEF vars
<1> QED
  BY <1>1, <1>2, <1>3, <1>4, <1>5, <1>6, <1>7, <1>8, <1>9, <1>10, <1>11
  DEF Next, OnEventLoop

-----------------------------------------------------------------------------
LEMMA Invariance == Spec => []IInv
<1>1. Init => IInv
  BY InitIInv
<1>2. IInv /\ [Next]_vars => IInv'
  BY NextTypeOK, NextCallsInStep, NextJobsInStep, NextRefusedLeavesNothing,
     NextSlotHasOneHolder DEF IInv
<1> QED BY <1>1, <1>2, PTL DEF Spec

(* The variables of the server keep their types. *)
THEOREM TypeCorrect == Spec => []TypeOK
<1>1. IInv => TypeOK
  BY DEF IInv
<1> QED BY <1>1, Invariance, PTL

(* The slot is held for exactly one call at a time: mutual exclusion of jobs, *)
(* through deadlines, cancellations and a shutdown at any moment.             *)
THEOREM MutualExclusion == Spec => []SlotHasOneHolder
<1>1. IInv => SlotHasOneHolder
  BY DEF IInv
<1> QED BY <1>1, Invariance, PTL

(* A call that was refused never had a job. *)
THEOREM RefusalIsClean == Spec => []RefusedLeavesNothing
<1>1. IInv => RefusedLeavesNothing
  BY DEF IInv
<1> QED BY <1>1, Invariance, PTL

-----------------------------------------------------------------------------
(* Only Optimize itself answers a call. *)
LEMMA WhoAnswers ==
  ASSUME IInv, Next, NEW d \in Calls, reply'[d] # reply[d]
  PROVE  \/ Start(d) \/ OnEventLoop(d) \/ Respond(d) \/ TimeOut(d) \/ Cancel(d)
<1> USE DEF IInv, TypeOK, Pool, Answer
<1>1. ASSUME NEW c \in Calls, c # d,
             Start(c) \/ OnEventLoop(c) \/ Respond(c) \/ TimeOut(c) \/ Cancel(c)
      PROVE  FALSE
  BY <1>1 DEF Start, OnEventLoop, Admit, Acquire, Submit, Respond, TimeOut, Cancel
<1>2. CASE TakeJob \/ FinishJob \/ SetResult
  BY <1>2 DEF TakeJob, FinishJob, SetResult
<1>3. CASE Stop \/ Close \/ ShutExecutor \/ Exit
  BY <1>3 DEF Stop, Close, ShutExecutor, Exit
<1> QED BY <1>1, <1>2, <1>3 DEF Next

(* A call is refused for capacity only while another one's job works, or in *)
(* a shutdown.                                                              *)
THEOREM RefusalHasCause == Spec => RefusedForCause
<1> DEFINE Cause(c) ==
      reply'[c] # reply[c] =>
        /\ reply'[c] = "RESOURCE_EXHAUSTED" => Closed \/ Holders \ {c} # {}
        /\ reply'[c] = "UNAVAILABLE" => Closed
<1>1. ASSUME IInv, Next, NEW c \in Calls PROVE Cause(c)
  <2> SUFFICES ASSUME reply'[c] # reply[c] PROVE Cause(c)
    OBVIOUS
  <2> USE <1>1 DEF IInv, TypeOK, Answer
  <2>1. CASE Start(c)
    BY <2>1 DEF Start
  <2>2. CASE Admit(c)
    BY <2>2 DEF Admit
  <2>3. CASE Acquire(c)
    (* The slot is held, and not by a call that is still acquiring it. *)
    <3>1. c \notin Holders
      BY <2>3 DEF Acquire, Holders, CallsInStep
    <3>2. slot => Holders # {}
      BY DEF SlotHasOneHolder
    <3> QED BY <2>3, <3>1, <3>2 DEF Acquire
  <2>4. CASE Submit(c)
    BY <2>4 DEF Submit, ExecutorShut, Closed
  <2>5. CASE Respond(c) \/ TimeOut(c) \/ Cancel(c)
    BY <2>5 DEF Respond, TimeOut, Cancel
  <2> QED BY <1>1, <2>1, <2>2, <2>3, <2>4, <2>5, WhoAnswers DEF OnEventLoop
<1>2. IInv /\ [Next]_vars => [\A c \in Calls : Cause(c)]_vars
  BY <1>1
<1> QED BY <1>2, Invariance, PTL DEF Spec, RefusedForCause

(* A call is answered once, and with OK only for its own finished job. *)
THEOREM AnsweredOnce == Spec => OneAnswer
<1> DEFINE Once(c) ==
      reply'[c] # reply[c] =>
        /\ reply[c] = "none"
        /\ reply'[c] = "OK" => future[c] = "ok"
<1>1. ASSUME IInv, Next, NEW c \in Calls PROVE Once(c)
  <2> SUFFICES ASSUME reply'[c] # reply[c] PROVE Once(c)
    OBVIOUS
  <2> USE <1>1 DEF IInv, TypeOK, CallsInStep, Answer
  <2>1. CASE Start(c)
    BY <2>1 DEF Start
  <2>2. CASE OnEventLoop(c)
    BY <2>2 DEF OnEventLoop, Admit, Acquire, Submit
  <2>3. CASE Respond(c) \/ TimeOut(c) \/ Cancel(c)
    BY <2>3 DEF Respond, TimeOut, Cancel
  <2> QED BY <1>1, <2>1, <2>2, <2>3, WhoAnswers
<1>2. IInv /\ [Next]_vars => [\A c \in Calls : Once(c)]_vars
  BY <1>1
<1> QED BY <1>2, Invariance, PTL DEF Spec, OneAnswer
=============================================================================
