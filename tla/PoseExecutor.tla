----------------------------- MODULE PoseExecutor -----------------------------
(***************************************************************************)
(* PoseExecutor of native/src/runtime/engine_pipeline.cpp: one thread that *)
(* runs at most one pose task at a time, with a one-place mailbox guarded  *)
(* by a mutex, and the condition variable it sleeps on.                    *)
(*                                                                         *)
(* The module gives the operations; EnginePipeline, which owns the only    *)
(* executor, composes them with its callers.                               *)
(*                                                                         *)
(* submit and the first part of shutdown are critical sections.  The stop  *)
(* request and the notifications are made without the mutex, so the worker *)
(* is modelled at that grain: it evaluates the predicate of its wait       *)
(* holding the mutex ("check"), and when the predicate is false it still   *)
(* holds it ("parking") until it blocks ("asleep").  A notification finds  *)
(* only a worker that is asleep.                                           *)
(***************************************************************************)
EXTENDS Integers, FiniteSets

CONSTANTS
    Frames,  \* the frames whose poses may be asked for
    NoFrame  \* an empty mailbox

ASSUME ExecutorAssumption == NoFrame \notin Frames

VARIABLES
    worker,        \* where the worker is in run
    task,          \* task_: the frame of the pending task
    running,       \* the task the worker moved out of the mailbox
    accepting,     \* accepting_
    stopRequested, \* the stop token of worker_
    promise        \* the future's state, per frame

executorVars == <<worker, task, running, accepting, stopRequested, promise>>

WorkerPositions == {"check", "parking", "asleep", "running", "returned"}

PromiseStates == {"none", "pending", "value", "error"}

ExecutorInit ==
    /\ worker = "check"
    /\ task = NoFrame
    /\ running = NoFrame
    /\ accepting = TRUE
    /\ stopRequested = FALSE
    /\ promise = [f \in Frames |-> "none"]

\* The mutex can be taken by another thread.
MutexFree == worker # "parking"

\* wake_.notify_one.
NotifyWorker == worker' = IF worker = "asleep" THEN "check" ELSE worker

-----------------------------------------------------------------------------
(* submit, inside the lock.  The notification comes after it. *)

CanSubmit == accepting /\ task = NoFrame

Deposit(f) ==
    /\ task' = f
    /\ promise' = [promise EXCEPT ![f] = "pending"]
    /\ UNCHANGED <<worker, running, accepting, stopRequested>>

-----------------------------------------------------------------------------
(* run. *)

\* The wait's predicate is false: the worker is about to block, holding the
\* mutex.
PredicateFails ==
    /\ worker = "check"
    /\ ~stopRequested /\ task = NoFrame
    /\ worker' = "parking"
    /\ UNCHANGED <<task, running, accepting, stopRequested, promise>>

\* The worker blocks and releases the mutex.
Park ==
    /\ worker = "parking"
    /\ worker' = "asleep"
    /\ UNCHANGED <<task, running, accepting, stopRequested, promise>>

WorkerSpuriousWake ==
    /\ worker = "asleep"
    /\ worker' = "check"
    /\ UNCHANGED <<task, running, accepting, stopRequested, promise>>

\* The task is moved out of the mailbox, the mutex released.
TakeTask ==
    /\ worker = "check"
    /\ task # NoFrame
    /\ running' = task
    /\ task' = NoFrame
    /\ worker' = "running"
    /\ UNCHANGED <<accepting, stopRequested, promise>>

\* A stop was requested and no task is left.
WorkerReturns ==
    /\ worker = "check"
    /\ stopRequested /\ task = NoFrame
    /\ worker' = "returned"
    /\ UNCHANGED <<task, running, accepting, stopRequested, promise>>

\* (Fault: an exception of the task does not reach the promise.)
RunTaskSwallowing ==
    /\ worker = "running"
    /\ promise' \in {[promise EXCEPT ![running] = "value"], promise}
    /\ running' = NoFrame
    /\ worker' = "check"
    /\ UNCHANGED <<task, accepting, stopRequested>>

\* The task ends: its value or its exception is set in the promise.
RunTask ==
    /\ worker = "running"
    /\ \E outcome \in {"value", "error"} :
          promise' = [promise EXCEPT ![running] = outcome]
    /\ running' = NoFrame
    /\ worker' = "check"
    /\ UNCHANGED <<task, accepting, stopRequested>>

ExecutorStep ==
    PredicateFails \/ Park \/ TakeTask \/ WorkerReturns \/ RunTask

-----------------------------------------------------------------------------
(* shutdown, in its three parts before the join. *)

StopAccepting ==
    /\ MutexFree
    /\ accepting' = FALSE
    /\ UNCHANGED <<worker, task, running, stopRequested, promise>>

RequestStop ==
    /\ stopRequested' = TRUE
    /\ UNCHANGED <<worker, task, running, accepting, promise>>

WakeForStop ==
    /\ NotifyWorker
    /\ UNCHANGED <<task, running, accepting, stopRequested, promise>>

ExecutorTypeOK ==
    /\ worker \in WorkerPositions
    /\ task \in Frames \cup {NoFrame}
    /\ running \in IF worker = "running" THEN Frames ELSE {NoFrame}
    /\ accepting \in BOOLEAN
    /\ stopRequested \in BOOLEAN
    /\ promise \in [Frames -> PromiseStates]
=============================================================================
