---------------------------- MODULE ExecutionPool ----------------------------
(***************************************************************************)
(* The RPC server (rpc/server.py): Optimize calls on the event loop, one   *)
(* worker thread, the slot that admits one job at a time, and the thread   *)
(* that shuts the pool down.                                               *)
(*                                                                         *)
(* A call hands its job to the pool without giving up the event loop, so   *)
(* calls do not interleave there; the worker and the shutdown thread do.   *)
(* A job outlives its call: neither the deadline nor a cancelled client    *)
(* stops it.  The executor is modelled from how the code uses it: submit   *)
(* and shutdown exclude each other, and shutdown cancels what still waits. *)
(***************************************************************************)
EXTENDS Naturals, Sequences, FiniteSets, SequencesExt

CONSTANTS
  Calls,    (* Optimize calls                                              *)
  NoCall    (* no call                                                     *)

ASSUME PoolAssumption == NoCall \notin Calls /\ IsFiniteSet(Calls)

VARIABLES
  phase,    (* where each call is                                          *)
  reply,    (* the status each call was answered with                      *)
  slot,     (* _slot is taken                                              *)
  queue,    (* jobs handed to the executor and not begun, named by call    *)
  running,  (* the job the worker thread works on                          *)
  future,   (* what each job came to                                       *)
  server    (* how far the shutdown got                                    *)

vars == <<phase, reply, slot, queue, running, future, server>>

Phase == {"idle", "admitting", "acquiring", "submitting", "waiting", "done"}

Outcome == {"ok", "undecodable", "failed"}

(* released: the slot is free again, the result is not yet set. *)
Future == {"none", "pending", "running", "released", "cancelled"} \cup Outcome

Reply ==
  {"none", "OK", "INVALID_ARGUMENT", "INTERNAL", "DEADLINE_EXCEEDED",
   "CANCELLED", "RESOURCE_EXHAUSTED", "UNAVAILABLE"}

Server == {"serving", "stopped", "closed", "shut", "exited"}

Closed == server \in {"closed", "shut", "exited"}

ExecutorShut == server \in {"shut", "exited"}

OnLoop == {c \in Calls : phase[c] \in {"admitting", "acquiring", "submitting"}}

-----------------------------------------------------------------------------
Init ==
  /\ phase = [c \in Calls |-> "idle"]
  /\ reply = [c \in Calls |-> "none"]
  /\ slot = FALSE
  /\ queue = << >>
  /\ running = NoCall
  /\ future = [c \in Calls |-> "none"]
  /\ server = "serving"

Answer(c, status) ==
  /\ phase' = [phase EXCEPT ![c] = "done"]
  /\ reply' = [reply EXCEPT ![c] = status]

Pool == <<slot, queue, running, future>>

(* Optimize, up to the pool: a deadline already past is answered at once. *)
Start(c) ==
  /\ phase[c] = "idle"
  /\ server = "serving"
  /\ OnLoop = {}
  /\ \/ phase' = [phase EXCEPT ![c] = "admitting"] /\ UNCHANGED reply
     \/ Answer(c, "DEADLINE_EXCEEDED")
  /\ UNCHANGED <<Pool, server>>

(* submit: the pool is not closed, *)
Admit(c) ==
  /\ phase[c] = "admitting"
  /\ IF Closed
     THEN Answer(c, "RESOURCE_EXHAUSTED")
     ELSE phase' = [phase EXCEPT ![c] = "acquiring"] /\ UNCHANGED reply
  /\ UNCHANGED <<Pool, server>>

(* the slot is free, *)
Acquire(c) ==
  /\ phase[c] = "acquiring"
  /\ IF slot
     THEN Answer(c, "RESOURCE_EXHAUSTED") /\ UNCHANGED slot
     ELSE /\ phase' = [phase EXCEPT ![c] = "submitting"]
          /\ slot' = TRUE
          /\ UNCHANGED reply
  /\ UNCHANGED <<queue, running, future, server>>

(* Seeded faults: a refused job keeps the slot; its future is made before  *)
(* the executor is asked.                                                  *)
SlotKeptOnRefusal(c) ==
  /\ phase[c] = "submitting"
  /\ IF ExecutorShut
     THEN Answer(c, "UNAVAILABLE") /\ UNCHANGED <<queue, future>>
     ELSE /\ phase' = [phase EXCEPT ![c] = "waiting"]
          /\ queue' = Append(queue, c)
          /\ future' = [future EXCEPT ![c] = "pending"]
          /\ UNCHANGED reply
  /\ UNCHANGED <<slot, running, server>>

FutureBeforeRefusal(c) ==
  /\ phase[c] = "submitting"
  /\ future' = [future EXCEPT ![c] = "pending"]
  /\ IF ExecutorShut
     THEN Answer(c, "UNAVAILABLE") /\ slot' = FALSE /\ UNCHANGED queue
     ELSE /\ phase' = [phase EXCEPT ![c] = "waiting"]
          /\ queue' = Append(queue, c)
          /\ UNCHANGED <<reply, slot>>
  /\ UNCHANGED <<running, server>>

(* and the executor takes the job; if not, the slot is given back. *)
Submit(c) ==
  /\ phase[c] = "submitting"
  /\ IF ExecutorShut
     THEN Answer(c, "UNAVAILABLE") /\ slot' = FALSE /\ UNCHANGED <<queue, future>>
     ELSE /\ phase' = [phase EXCEPT ![c] = "waiting"]
          /\ queue' = Append(queue, c)
          /\ future' = [future EXCEPT ![c] = "pending"]
          /\ UNCHANGED <<reply, slot>>
  /\ UNCHANGED <<running, server>>

(* Seeded faults: the outcome is sent as the status; an answered call is   *)
(* answered again.                                                         *)
RawOutcome(c) ==
  /\ phase[c] = "waiting"
  /\ future[c] \in Outcome
  /\ Answer(c, future[c])
  /\ UNCHANGED <<Pool, server>>

LateResponse(c) ==
  /\ phase[c] \in {"waiting", "done"}
  /\ future[c] = "ok"
  /\ Answer(c, "OK")
  /\ UNCHANGED <<Pool, server>>

(* The result arrives in time; encoding the response may still fail. *)
Respond(c) ==
  /\ phase[c] = "waiting"
  /\ OnLoop = {}
  /\ \/ future[c] = "ok" /\ (Answer(c, "OK") \/ Answer(c, "INTERNAL"))
     \/ future[c] = "undecodable" /\ Answer(c, "INVALID_ARGUMENT")
     \/ future[c] = "failed" /\ Answer(c, "INTERNAL")
     \/ future[c] = "cancelled" /\ Answer(c, "CANCELLED")
  /\ UNCHANGED <<Pool, server>>

(* Seeded fault: the deadline waits for the job. *)
DeadlineAwaitsJob(c) ==
  /\ phase[c] = "waiting"
  /\ future[c] \notin {"pending", "running"}
  /\ Answer(c, "DEADLINE_EXCEEDED")
  /\ UNCHANGED <<Pool, server>>

(* The deadline passes first: the job goes on. *)
TimeOut(c) ==
  /\ phase[c] = "waiting"
  /\ OnLoop = {}
  /\ Answer(c, "DEADLINE_EXCEEDED")
  /\ UNCHANGED <<Pool, server>>

(* The client, or the stopping server, cancels: the job goes on. *)
Cancel(c) ==
  /\ phase[c] = "waiting"
  /\ OnLoop = {}
  /\ Answer(c, "CANCELLED")
  /\ UNCHANGED <<Pool, server>>

-----------------------------------------------------------------------------
(* The worker thread. *)
TakeJob ==
  /\ running = NoCall
  /\ queue # << >>
  /\ running' = Head(queue)
  /\ queue' = Tail(queue)
  /\ future' = [future EXCEPT ![Head(queue)] = "running"]
  /\ UNCHANGED <<phase, reply, slot, server>>

(* Seeded fault: the job does not free the slot. *)
SlotNotFreed ==
  /\ running # NoCall
  /\ future[running] = "running"
  /\ future' = [future EXCEPT ![running] = "released"]
  /\ UNCHANGED <<phase, reply, slot, queue, running, server>>

(* The job returns or raises: either way it frees the slot, *)
FinishJob ==
  /\ running # NoCall
  /\ future[running] = "running"
  /\ slot' = FALSE
  /\ future' = [future EXCEPT ![running] = "released"]
  /\ UNCHANGED <<phase, reply, queue, running, server>>

(* and only then is its result set. *)
SetResult ==
  /\ running # NoCall
  /\ future[running] = "released"
  /\ \E o \in Outcome : future' = [future EXCEPT ![running] = o]
  /\ running' = NoCall
  /\ UNCHANGED <<phase, reply, slot, queue, server>>

-----------------------------------------------------------------------------
(* The shutdown: the server stops, and a thread closes the pool. *)
Stop ==
  /\ server = "serving"
  /\ server' = "stopped"
  /\ UNCHANGED <<phase, reply, Pool>>

Close ==
  /\ server = "stopped"
  /\ server' = "closed"
  /\ UNCHANGED <<phase, reply, Pool>>

(* Jobs not begun are cancelled; they never free the slot. *)
ShutExecutor ==
  /\ server = "closed"
  /\ server' = "shut"
  /\ queue' = << >>
  /\ future' = [c \in Calls |-> IF c \in ToSet(queue) THEN "cancelled" ELSE future[c]]
  /\ UNCHANGED <<phase, reply, slot, running>>

(* The thread waits for the worker to end. *)
Exit ==
  /\ server = "shut"
  /\ running = NoCall
  /\ server' = "exited"
  /\ UNCHANGED <<phase, reply, Pool>>

-----------------------------------------------------------------------------
OnEventLoop(c) == Admit(c) \/ Acquire(c) \/ Submit(c)

Next ==
  \/ \E c \in Calls : Start(c) \/ OnEventLoop(c) \/ Respond(c) \/ TimeOut(c) \/ Cancel(c)
  \/ TakeJob \/ FinishJob \/ SetResult
  \/ Stop \/ Close \/ ShutExecutor \/ Exit

Spec == Init /\ [][Next]_vars

(***************************************************************************)
(* The event loop and the threads are scheduled, timers fire, and a signal *)
(* is followed by the shutdown.  Nothing says that a job ends, that a      *)
(* client calls or cancels, or that the server is ever stopped.            *)
(***************************************************************************)
Fairness ==
  /\ \A c \in Calls : WF_vars(OnEventLoop(c)) /\ WF_vars(TimeOut(c))
  /\ WF_vars(TakeJob) /\ WF_vars(SetResult)
  /\ WF_vars(Close) /\ WF_vars(ShutExecutor) /\ WF_vars(Exit)

FairSpec == Spec /\ Fairness

(* Every job ends by itself, in the code by its deadline checks. *)
JobsEnd == WF_vars(FinishJob)

-----------------------------------------------------------------------------
(* Types of the variables. *)
TypeOK ==
  /\ phase \in [Calls -> Phase]
  /\ reply \in [Calls -> Reply]
  /\ slot \in BOOLEAN
  /\ queue \in Seq(Calls)
  /\ running \in Calls \cup {NoCall}
  /\ future \in [Calls -> Future]
  /\ server \in Server

(***************************************************************************)
(* The slot is taken exactly on behalf of one call: one that is about to   *)
(* submit its job, whose job waits or runs, or whose job the shutdown      *)
(* cancelled.  It is neither freed twice nor kept by a refused call, so no *)
(* second job is admitted next to one that works, even after its deadline. *)
(***************************************************************************)
Holders ==
  {c \in Calls : phase[c] = "submitting" \/ future[c] \in {"pending", "running", "cancelled"}}

SlotHasOneHolder ==
  /\ slot <=> Holders # {}
  /\ \A c, d \in Holders : c = d

(***************************************************************************)
(* A refusal has no aftermath: a call answered RESOURCE_EXHAUSTED or       *)
(* UNAVAILABLE left no job behind, so the caller may repeat it.            *)
(***************************************************************************)
RefusedLeavesNothing ==
  \A c \in Calls :
    reply[c] \in {"RESOURCE_EXHAUSTED", "UNAVAILABLE"} => future[c] = "none"

(***************************************************************************)
(* A call is refused for capacity only while the pool is closed or the job *)
(* of another call works; UNAVAILABLE is seen only in a shutdown.          *)
(***************************************************************************)
RefusedForCause ==
  [][ \A c \in Calls : reply'[c] # reply[c] =>
        /\ reply'[c] = "RESOURCE_EXHAUSTED" => Closed \/ Holders \ {c} # {}
        /\ reply'[c] = "UNAVAILABLE" => Closed
    ]_vars

(***************************************************************************)
(* The result a client gets is that of its own job, and it gets one answer *)
(* only: a result that comes after the deadline is dropped.                *)
(***************************************************************************)
OneAnswer ==
  [][ \A c \in Calls : reply'[c] # reply[c] =>
        /\ reply[c] = "none"
        /\ reply'[c] = "OK" => future[c] = "ok"
    ]_vars

(***************************************************************************)
(* Every call that is taken on is answered, also if its job never ends.    *)
(***************************************************************************)
EveryCallAnswered ==
  \A c \in Calls : phase[c] # "idle" ~> phase[c] = "done"

(***************************************************************************)
(* If jobs end, the slot is free again or the pool is shut, and a shutdown *)
(* comes to its end: no order of deadlines, cancellations and results      *)
(* leaves the server refusing for ever.                                    *)
(***************************************************************************)
SlotComesBack ==
  JobsEnd => /\ slot ~> ~slot \/ ExecutorShut
             /\ server # "serving" ~> server = "exited"
=============================================================================
