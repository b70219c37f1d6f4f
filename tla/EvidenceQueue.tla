---------------------------- MODULE EvidenceQueue ----------------------------
(***************************************************************************)
(* EvidenceWriterQueue of native/src/runtime/evidence.cpp: the bounded     *)
(* FIFO between the monitor thread, which detects events, and the writer   *)
(* thread, which persists them.                                            *)
(*                                                                         *)
(* Every access to the fields of Impl is made under impl.mutex, so one     *)
(* critical section is one action.  The two condition variables are        *)
(* explicit: notFull is the set of producers asleep on not_full, and the   *)
(* worker sleeps on not_empty when worker = "waiting".  A thread that is   *)
(* not asleep evaluates its wait predicate again in its next action, which *)
(* is what std::condition_variable::wait does after a notification or a    *)
(* spurious wake-up.                                                       *)
(***************************************************************************)
EXTENDS Integers, Sequences

CONSTANTS
    Events,     \* the events the producers may submit, each at most once
    PpeEvents,  \* those of type ppe.violation.v2, persisted in v2 and in v3
    Producers,  \* the threads that call enqueue
    Capacity,   \* Impl::capacity
    NoEvent     \* the absence of an event

ASSUME QueueAssumption ==
    /\ PpeEvents \subseteq Events
    /\ NoEvent \notin Events
    /\ Capacity \in Nat \ {0}    \* the constructors reject a capacity of 0

VARIABLES
    jobs,            \* Impl::jobs, oldest first
    accepting,       \* Impl::accepting
    terminalFailure, \* Impl::terminal_failure
    stopped,         \* Impl::stopped
    closing,         \* drainAndStop is between its two critical sections
    stats,           \* Impl::stats, without durations
    failureMessage,  \* Impl::failure_message: which failures it names
    notFull,         \* producers asleep on Impl::not_full
    request,         \* the event each producer is inside enqueue with
    worker,          \* where the worker thread is in runWriterWorker
    job,             \* the job the worker has popped
    stage,           \* the worker's stage, as the operation last set it
    csv,             \* rows of Reporte_Eventos_Seguridad_v2.csv
    jsonl,           \* lines of Reporte_Eventos_Seguridad_v3.jsonl
    ledger,          \* lines of evidence_writer_failures.jsonl
    acceptedLog,     \* history: the events enqueue returned true for, in order
    refused          \* history: the events enqueue returned false for

fields == <<jobs, accepting, terminalFailure, stopped, closing, stats,
            failureMessage>>
threads == <<notFull, request, worker, job, stage>>
files == <<csv, jsonl, ledger>>
history == <<acceptedLog, refused>>
vars == <<fields, threads, files, history>>

Stages == {"v2", "v3", "terminal_rejected"}

\* The worker's positions: at the head of its loop, asleep on not_empty,
\* inside operation (v2 then v3), about to take the lock again to count a
\* success, a failure or a rejection, about to append to the ledger, returned.
WorkerPositions == {"loop", "waiting", "v2", "v3", "written", "failed",
                    "rejecting", "ledger", "exited"}

\* The job in hand is not yet counted as written or failed.
Uncounted == {"v2", "v3", "written", "failed", "rejecting"}

InHand == IF worker \in Uncounted THEN 1 ELSE 0

Handled == stats.written + stats.failed

Elements(s) == {s[i] : i \in DOMAIN s}

Fresh(e) ==
    /\ e \notin Elements(acceptedLog) \cup refused
    /\ \A p \in Producers : request[p] # e

Init ==
    /\ jobs = <<>>
    /\ accepting = TRUE
    /\ terminalFailure = FALSE
    /\ stopped = FALSE
    /\ closing = FALSE
    /\ stats = [accepted |-> 0, written |-> 0, failed |-> 0,
                currentDepth |-> 0, highWater |-> 0, blocked |-> 0]
    /\ failureMessage = {}
    /\ notFull = {}
    /\ request = [p \in Producers |-> NoEvent]
    /\ worker = "loop"
    /\ job = NoEvent
    /\ stage = "v2"
    /\ csv = <<>>
    /\ jsonl = <<>>
    /\ ledger = <<>>
    /\ acceptedLog = <<>>
    /\ refused = {}

-----------------------------------------------------------------------------
(* Producers: enqueue. *)

\* not_empty.notify_one and notify_all: the worker is the only waiter.
WakeWorker == worker' = IF worker = "waiting" THEN "loop" ELSE worker

\* (Fault: the notification on not_full is forgotten.)
NotifyNoProducer == UNCHANGED notFull

\* not_full.notify_one wakes one sleeping producer, if there is one.
NotifyOneProducer ==
    IF notFull = {} THEN UNCHANGED notFull
    ELSE \E p \in notFull : notFull' = notFull \ {p}

\* (Fault: enqueue does not look whether the queue was closed.)
CanPushUnlessFailed == ~terminalFailure

CanPush == accepting /\ ~terminalFailure

\* The last part of enqueue: push_back, the counters, notify_one.
Push(p, e) ==
    /\ jobs' = Append(jobs, e)
    /\ stats' = [stats EXCEPT
                   !.accepted = @ + 1,
                   !.currentDepth = Len(jobs) + 1,
                   !.highWater = IF @ > Len(jobs) + 1 THEN @ ELSE Len(jobs) + 1]
    /\ acceptedLog' = Append(acceptedLog, e)
    /\ request' = [request EXCEPT ![p] = NoEvent]
    /\ WakeWorker
    /\ UNCHANGED <<accepting, terminalFailure, stopped, closing,
                   failureMessage, notFull, job, stage, files, refused>>

\* enqueue returns false.
Refuse(p, e) ==
    /\ refused' = refused \cup {e}
    /\ request' = [request EXCEPT ![p] = NoEvent]
    /\ UNCHANGED <<fields, notFull, worker, job, stage, files, acceptedLog>>

\* The queue is full: count the blocked call and sleep on not_full.
Block(p, e) ==
    /\ stats' = [stats EXCEPT !.blocked = @ + 1]
    /\ request' = [request EXCEPT ![p] = e]
    /\ notFull' = notFull \cup {p}
    /\ UNCHANGED <<jobs, accepting, terminalFailure, stopped, closing,
                   failureMessage, worker, job, stage, files, history>>

\* A call of enqueue with a new event, up to its return or its first sleep.
Enqueue(p, e) ==
    /\ request[p] = NoEvent
    /\ Fresh(e)
    /\ \/ ~CanPush /\ Refuse(p, e)
       \/ CanPush /\ Len(jobs) < Capacity /\ Push(p, e)
       \/ CanPush /\ Len(jobs) = Capacity /\ Block(p, e)

\* A producer woken inside enqueue evaluates the predicate of its wait.
Resume(p) ==
    /\ request[p] # NoEvent
    /\ p \notin notFull
    /\ \/ ~CanPush /\ Refuse(p, request[p])
       \/ CanPush /\ Len(jobs) < Capacity /\ Push(p, request[p])
       \/ /\ CanPush /\ Len(jobs) = Capacity
          /\ notFull' = notFull \cup {p}
          /\ UNCHANGED <<fields, request, worker, job, stage, files, history>>

\* A condition variable may wake a thread without a notification.
SpuriousWake(p) ==
    /\ p \in notFull
    /\ notFull' = notFull \ {p}
    /\ UNCHANGED <<fields, request, worker, job, stage, files, history>>

-----------------------------------------------------------------------------
(* The worker: runWriterWorker. *)

WorkerWait ==
    /\ worker = "loop" /\ jobs = <<>> /\ accepting
    /\ worker' = "waiting"
    /\ UNCHANGED <<fields, notFull, request, job, stage, files, history>>

WorkerSpuriousWake ==
    /\ worker = "waiting"
    /\ worker' = "loop"
    /\ UNCHANGED <<fields, notFull, request, job, stage, files, history>>

WorkerExit ==
    /\ worker = "loop" /\ jobs = <<>> /\ ~accepting
    /\ worker' = "exited"
    /\ UNCHANGED <<fields, notFull, request, job, stage, files, history>>

\* What the worker does with the job it pops.
Disposition == IF terminalFailure THEN "rejecting" ELSE "v2"

\* Pops the oldest job and decides, from terminal_failure, what to do with it.
Pop ==
    /\ worker = "loop" /\ jobs # <<>>
    /\ job' = Head(jobs)
    /\ jobs' = Tail(jobs)
    /\ stats' = [stats EXCEPT !.currentDepth = Len(jobs) - 1]
    /\ worker' = Disposition
    /\ stage' = IF Disposition = "rejecting" THEN "terminal_rejected" ELSE "v2"
    /\ NotifyOneProducer
    /\ UNCHANGED <<accepting, terminalFailure, stopped, closing,
                   failureMessage, request, files, history>>

\* The default operation, outside the lock: EvidenceWriter::append, then
\* EvidenceWriterV3::append for a PPE violation.
WriteV2 ==
    /\ worker = "v2"
    /\ csv' = Append(csv, job)
    /\ IF job \in PpeEvents
       THEN worker' = "v3" /\ stage' = "v3"
       ELSE worker' = "written" /\ UNCHANGED stage
    /\ UNCHANGED <<fields, notFull, request, job, jsonl, ledger, history>>

WriteV3 ==
    /\ worker = "v3"
    /\ jsonl' = Append(jsonl, job)
    /\ worker' = "written"
    /\ UNCHANGED <<fields, notFull, request, job, stage, csv, ledger, history>>

\* The operation throws.  A failed flush throws after the bytes were handed
\* to the file, so the row may or may not be there.
FailV2 ==
    /\ worker = "v2"
    /\ csv' \in {csv, Append(csv, job)}
    /\ worker' = "failed"
    /\ UNCHANGED <<fields, notFull, request, job, stage, jsonl, ledger, history>>

FailV3 ==
    /\ worker = "v3"
    /\ jsonl' \in {jsonl, Append(jsonl, job)}
    /\ worker' = "failed"
    /\ UNCHANGED <<fields, notFull, request, job, stage, csv, ledger, history>>

CountWritten ==
    /\ worker = "written"
    /\ stats' = [stats EXCEPT !.written = @ + 1]
    /\ worker' = "loop"
    /\ job' = NoEvent
    /\ UNCHANGED <<jobs, accepting, terminalFailure, stopped, closing,
                   failureMessage, notFull, request, stage, files, history>>

\* (Fault: the failed job goes back to the queue, to be retried silently.)
CountFailureAndRetry ==
    /\ worker = "failed"
    /\ stats' = [stats EXCEPT !.failed = @ + 1, !.currentDepth = Len(jobs) + 1]
    /\ terminalFailure' = TRUE
    /\ failureMessage' = {"write"}
    /\ worker' = "ledger"
    /\ jobs' = Append(jobs, job)
    /\ UNCHANGED <<accepting, stopped, closing, notFull, request, job, stage,
                   files, history>>

\* The catch blocks: the failure is counted and becomes terminal.  Nobody is
\* notified here.
CountFailure ==
    /\ worker = "failed"
    /\ stats' = [stats EXCEPT !.failed = @ + 1]
    /\ terminalFailure' = TRUE
    /\ failureMessage' = {"write"}
    /\ worker' = "ledger"
    /\ UNCHANGED <<jobs, accepting, stopped, closing, notFull, request, job,
                   stage, files, history>>

\* (Fault: a rejected job is counted but not reported in the ledger.)
CountRejectionOnly ==
    /\ worker = "rejecting"
    /\ stats' = [stats EXCEPT !.failed = @ + 1]
    /\ worker' = "loop"
    /\ job' = NoEvent
    /\ UNCHANGED <<jobs, accepting, terminalFailure, stopped, closing,
                   failureMessage, notFull, request, stage, files, history>>

\* An accepted job popped after the terminal failure.
CountRejection ==
    /\ worker = "rejecting"
    /\ stats' = [stats EXCEPT !.failed = @ + 1]
    /\ worker' = "ledger"
    /\ UNCHANGED <<jobs, accepting, terminalFailure, stopped, closing,
                   failureMessage, notFull, request, job, stage, files, history>>

\* (Fault: the ledger names one stage whatever the stage was.)
LedgerLineFixed == [event |-> job, stage |-> "terminal_rejected"]

LedgerLine == [event |-> job, stage |-> stage]

AppendLedger ==
    /\ worker = "ledger"
    /\ ledger' = Append(ledger, LedgerLine)
    /\ worker' = "loop"
    /\ job' = NoEvent
    /\ UNCHANGED <<fields, notFull, request, stage, csv, jsonl, history>>

\* The ledger itself cannot be written (or only its flush failed).
FailLedger ==
    /\ worker = "ledger"
    /\ ledger' \in {ledger, Append(ledger, LedgerLine)}
    /\ failureMessage' = failureMessage \cup {"ledger"}
    /\ worker' = "loop"
    /\ job' = NoEvent
    /\ UNCHANGED <<jobs, accepting, terminalFailure, stopped, closing, stats,
                   notFull, request, stage, csv, jsonl, history>>

-----------------------------------------------------------------------------
(* drainAndStop, called by the monitor and again by the destructor. *)

\* First critical section: stop accepting, wake everybody.
BeginStop ==
    /\ ~stopped /\ ~closing
    /\ accepting' = FALSE
    /\ closing' = TRUE
    /\ WakeWorker
    /\ notFull' = {}
    /\ UNCHANGED <<jobs, terminalFailure, stopped, stats, failureMessage,
                   request, job, stage, files, history>>

\* The join returns, then the second critical section.
FinishStop ==
    /\ closing
    /\ worker = "exited"
    /\ stats' = [stats EXCEPT !.currentDepth = 0]
    /\ stopped' = TRUE
    /\ closing' = FALSE
    /\ UNCHANGED <<jobs, accepting, terminalFailure, failureMessage, threads,
                   files, history>>

\* Nothing is left to do: every event was submitted and the queue is stopped.
Terminated ==
    /\ stopped
    /\ Elements(acceptedLog) \cup refused = Events
    /\ UNCHANGED vars

WorkerStep ==
    \/ WorkerWait \/ WorkerExit \/ Pop
    \/ WriteV2 \/ WriteV3 \/ FailV2 \/ FailV3
    \/ CountWritten \/ CountFailure \/ CountRejection
    \/ AppendLedger \/ FailLedger

Next ==
    \/ \E p \in Producers, e \in Events : Enqueue(p, e)
    \/ \E p \in Producers : Resume(p) \/ SpuriousWake(p)
    \/ WorkerStep \/ WorkerSpuriousWake
    \/ BeginStop \/ FinishStop
    \/ Terminated

\* The threads run: the worker's file operations return, a woken producer
\* takes the mutex, and the thread that joined the worker returns.  Nobody has
\* to submit an event or to stop the queue, and no wake-up comes by itself.
Fairness ==
    /\ WF_vars(WorkerStep)
    /\ \A p \in Producers : WF_vars(Resume(p))
    /\ WF_vars(FinishStop)

Spec == Init /\ [][Next]_vars /\ Fairness

-----------------------------------------------------------------------------
(* Safety. *)

StatsType == [accepted : Nat, written : Nat, failed : Nat,
              currentDepth : Nat, highWater : Nat, blocked : Nat]

\* Type invariant of the fields, the threads, the files and the history.
TypeOK ==
    /\ jobs \in Seq(Events)
    /\ accepting \in BOOLEAN
    /\ terminalFailure \in BOOLEAN
    /\ stopped \in BOOLEAN
    /\ closing \in BOOLEAN
    /\ stats \in StatsType
    /\ failureMessage \in SUBSET {"write", "ledger"}
    /\ notFull \in SUBSET Producers
    /\ request \in [Producers -> Events \cup {NoEvent}]
    /\ worker \in WorkerPositions
    /\ job \in IF worker \in Uncounted \cup {"ledger"}
               THEN Events ELSE {NoEvent}
    /\ stage \in Stages
    /\ csv \in Seq(Events)
    /\ jsonl \in Seq(Events)
    /\ ledger \in Seq([event : Events, stage : Stages])
    /\ acceptedLog \in Seq(Events)
    /\ refused \in SUBSET Events

\* The counters tell where every accepted event is: counted as written or
\* failed, in the worker's hand, or queued.  The depth the telemetry reports
\* is the real one, also after drainAndStop has set it to 0 (the queue then is
\* empty, nothing was abandoned), and it never passes the capacity.
Accounting ==
    /\ stats.accepted = Len(acceptedLog)
    /\ stats.accepted = Handled + InHand + Len(jobs)
    /\ stats.currentDepth = Len(jobs)
    /\ stats.currentDepth <= stats.highWater
    /\ stats.highWater <= Capacity

\* The jobs still to do are the accepted events that follow the handled ones,
\* in the order enqueue accepted them.
BacklogInOrder ==
    /\ \A i \in 1..Len(jobs) : jobs[i] = acceptedLog[Handled + InHand + i]
    /\ worker \in Uncounted => job = acceptedLog[Handled + 1]

\* FIFO without a gap: the v2 report is a prefix of the accepted events.  It
\* may run ahead of the written counter by the one row whose job is in hand or
\* whose flush failed, and is never behind it.
ReportIsPrefix ==
    /\ stats.written <= Len(csv) /\ Len(csv) <= stats.written + 1
    /\ Len(csv) <= Len(acceptedLog)
    /\ \A i \in 1..Len(csv) : csv[i] = acceptedLog[i]

\* The files agree: the v3 report names no event the v2 report does not have,
\* and what a line of the failure ledger says is what happened on disk.  A v3
\* failure left the v2 row, a terminal rejection left no row, and every line
\* is about an accepted event.
FilesAgree ==
    /\ Elements(jsonl) \subseteq Elements(csv)
    /\ \A l \in Elements(ledger) :
          /\ l.event \in Elements(acceptedLog)
          /\ l.stage = "v3" => l.event \in Elements(csv)
          /\ l.stage = "terminal_rejected" => l.event \notin Elements(csv)

\* Once drainAndStop returned, every accepted event was counted, nobody is
\* blocked, and each one is in the v2 report, or in the ledger, or the failure
\* message says that the ledger could not be written.
DrainAccountsForAll ==
    stopped =>
        /\ stats.accepted = stats.written + stats.failed
        /\ notFull = {}
        /\ stats.failed > 0 <=> terminalFailure
        /\ \A e \in Elements(acceptedLog) :
              \/ e \in Elements(csv)
              \/ \E l \in Elements(ledger) : l.event = e
              \/ "ledger" \in failureMessage

\* After the terminal failure no report grows and no event is accepted.
NothingAfterFailure ==
    [][terminalFailure =>
         /\ UNCHANGED <<csv, jsonl, acceptedLog>>
         /\ terminalFailure']_vars

-----------------------------------------------------------------------------
(* Liveness. *)

\* A call of enqueue returns, although the queue may be full, fail or be
\* stopped while the caller sleeps.
EnqueueReturns ==
    \A p \in Producers : request[p] # NoEvent ~> request[p] = NoEvent

\* drainAndStop returns.
DrainTerminates == closing ~> stopped

\* Nobody sleeps for ever: neither a producer behind a full queue, nor the
\* worker behind an empty one, nor the thread that drains.
QueueProceeds == EnqueueReturns /\ DrainTerminates

-----------------------------------------------------------------------------
(* The queue implements the channel. *)

Channel == INSTANCE EvidenceChannel WITH
    log <- acceptedLog,
    settled <- Handled,
    persisted <- stats.written,
    healthy <- ~terminalFailure,
    open <- accepting,
    drained <- stopped

\* Seen through the accepted events, the counters and the flags, the queue
\* with its lock-level interleavings is the bounded channel, and keeps its
\* promise that settling goes on and that a close completes.
ImplementsChannel == Channel!Spec

\* Where the worker is tells how far the v2 report and the flags are.  This
\* is what makes the properties above inductive.
WorkerInv ==
    /\ terminalFailure <=> stats.failed > 0
    /\ worker \in {"v2", "v3", "written", "failed"} => ~terminalFailure
    /\ worker \in {"rejecting", "ledger"} => terminalFailure
    /\ worker \in {"loop", "waiting", "v2", "exited"} /\ ~terminalFailure
          => Len(csv) = stats.written
    /\ worker \in {"v3", "written"} => Len(csv) = stats.written + 1

\* The lifecycle of drainAndStop: it has not begun, or waits for the worker,
\* or has returned, and a worker that returned left no job behind.
CloseInv ==
    /\ accepting <=> ~closing /\ ~stopped
    /\ ~(closing /\ stopped)
    /\ worker = "waiting" => accepting /\ jobs = <<>>
    /\ worker = "exited" => ~accepting /\ jobs = <<>>
    /\ stopped => worker = "exited"

\* The inductive invariant: no step of any thread breaks the accounting, the
\* order of the backlog and of the report, or the lifecycle.
QueueInv ==
    /\ Accounting
    /\ BacklogInOrder
    /\ ReportIsPrefix
    /\ WorkerInv
    /\ CloseInv
=============================================================================
