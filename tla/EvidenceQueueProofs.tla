------------------------- MODULE EvidenceQueueProofs -------------------------
(***************************************************************************)
(* What EvidenceQueue guarantees for any set of events, any number of      *)
(* producers and any positive capacity.                                    *)
(***************************************************************************)
EXTENDS EvidenceQueue, TLAPS

(* Each update of the counters made by the queue is one of counters. *)
LEMMA StatsUpdates ==
    ASSUME NEW s \in StatsType, NEW n \in Nat
    PROVE  /\ [s EXCEPT !.written = @ + 1] \in StatsType
           /\ [s EXCEPT !.failed = @ + 1] \in StatsType
           /\ [s EXCEPT !.blocked = @ + 1] \in StatsType
           /\ [s EXCEPT !.currentDepth = n] \in StatsType
           /\ [s EXCEPT !.accepted = @ + 1,
                        !.currentDepth = n,
                        !.highWater = IF @ > n THEN @ ELSE n] \in StatsType
<1>1. [s EXCEPT !.written = @ + 1] \in StatsType
  BY DEF StatsType
<1>2. [s EXCEPT !.failed = @ + 1] \in StatsType
  BY DEF StatsType
<1>3. [s EXCEPT !.blocked = @ + 1] \in StatsType
  BY DEF StatsType
<1>4. [s EXCEPT !.currentDepth = n] \in StatsType
  BY DEF StatsType
<1>5. [s EXCEPT !.accepted = @ + 1, !.currentDepth = n,
                !.highWater = IF @ > n THEN @ ELSE n] \in StatsType
  <2>1. ASSUME NEW a \in Nat, NEW h \in Nat
        PROVE  [s EXCEPT !.accepted = a, !.currentDepth = n,
                         !.highWater = h] \in StatsType
    BY DEF StatsType
  <2>2. /\ s.accepted + 1 \in Nat
        /\ (IF s.highWater > n THEN s.highWater ELSE n) \in Nat
    BY DEF StatsType
  <2>3. QED
    BY <2>1, <2>2
<1>6. QED
  BY <1>1, <1>2, <1>3, <1>4, <1>5

(* A call of enqueue that returns false keeps the types. *)
LEMMA RefuseType ==
    ASSUME TypeOK, NEW p \in Producers, NEW e \in Events, Refuse(p, e)
    PROVE  TypeOK'
<1>1. refused' \in SUBSET Events /\ request' \in [Producers -> Events \cup {NoEvent}]
  BY DEF TypeOK, Refuse
<1>2. QED
  BY <1>1 DEF TypeOK, Refuse, fields, files

(* A call of enqueue that returns true keeps the types. *)
LEMMA PushType ==
    ASSUME TypeOK, NEW p \in Producers, NEW e \in Events, Push(p, e)
    PROVE  TypeOK'
<1>1. /\ jobs' \in Seq(Events) /\ acceptedLog' \in Seq(Events)
      /\ request' \in [Producers -> Events \cup {NoEvent}]
  BY DEF TypeOK, Push
<1>2. stats' \in StatsType
  <2>1. Len(jobs) + 1 \in Nat /\ stats \in StatsType
    BY DEF TypeOK
  <2>2. QED
    BY <2>1, StatsUpdates DEF Push
<1>3. /\ worker' \in WorkerPositions
      /\ job' \in IF worker' \in Uncounted \cup {"ledger"}
                  THEN Events ELSE {NoEvent}
  BY DEF TypeOK, Push, WakeWorker, WorkerPositions, Uncounted
<1>4. QED
  BY <1>1, <1>2, <1>3 DEF TypeOK, Push, files

(* A call of enqueue that goes to sleep keeps the types. *)
LEMMA BlockType ==
    ASSUME TypeOK, NEW p \in Producers, NEW e \in Events, Block(p, e)
    PROVE  TypeOK'
<1>1. stats' \in StatsType
  BY StatsUpdates DEF TypeOK, Block
<1>2. request' \in [Producers -> Events \cup {NoEvent}]
  BY DEF TypeOK, Block
<1>3. notFull' \in SUBSET Producers
  BY DEF TypeOK, Block
<1>4. QED
  BY <1>1, <1>2, <1>3 DEF TypeOK, Block, files, history

(* The type invariant is inductive on its own. *)
LEMMA TypeStep == TypeOK /\ [Next]_vars => TypeOK'
<1> SUFFICES ASSUME TypeOK, [Next]_vars PROVE TypeOK'
  OBVIOUS
<1> USE QueueAssumption DEF TypeOK, WorkerPositions, Uncounted,
        Disposition,
        Stages, files, fields, threads, history
<1>1. ASSUME NEW p \in Producers, NEW e \in Events, Enqueue(p, e) PROVE TypeOK'
  <2>1. CASE Refuse(p, e)
    BY <2>1, RefuseType
  <2>2. CASE Push(p, e)
    BY <2>2, PushType
  <2>3. CASE Block(p, e)
    BY <2>3, BlockType
  <2>4. QED
    BY <1>1, <2>1, <2>2, <2>3 DEF Enqueue
<1>2. ASSUME NEW p \in Producers, Resume(p) PROVE TypeOK'
  <2>0. request[p] \in Events
    BY <1>2 DEF Resume
  <2>1. CASE Refuse(p, request[p])
    BY <2>0, <2>1, RefuseType
  <2>2. CASE Push(p, request[p])
    BY <2>0, <2>2, PushType
  <2>3. CASE Len(jobs) = Capacity /\ ~Refuse(p, request[p]) /\ ~Push(p, request[p])
    BY <1>2, <2>3 DEF Resume
  <2>4. QED
    BY <1>2, <2>1, <2>2, <2>3 DEF Resume
<1>3. ASSUME NEW p \in Producers, SpuriousWake(p) PROVE TypeOK'
  BY <1>3 DEF SpuriousWake
<1>4. CASE WorkerWait
  BY <1>4 DEF WorkerWait
<1>5. CASE WorkerExit
  BY <1>5 DEF WorkerExit
<1>6. CASE Pop
  <2>1. jobs' \in Seq(Events) /\ job' \in Events
    BY <1>6 DEF Pop
  <2>2. notFull' \in SUBSET Producers
    BY <1>6 DEF Pop, NotifyOneProducer
  <2>3. stats' \in StatsType
    <3>1. Len(jobs) - 1 \in Nat
      BY <1>6 DEF Pop
    <3>2. QED
      BY <1>6, <3>1, StatsUpdates DEF Pop
  <2>4. QED
    BY <1>6, <2>1, <2>2, <2>3 DEF Pop
<1>7. CASE WriteV2
  BY <1>7 DEF WriteV2
<1>8. CASE WriteV3
  BY <1>8 DEF WriteV3
<1>9. CASE FailV2
  <2>1. csv' \in Seq(Events)
    <3>1. job \in Events
      BY <1>9 DEF FailV2
    <3>2. CASE csv' = csv
      BY <3>2
    <3>3. CASE csv' = Append(csv, job)
      BY <3>1, <3>3
    <3>4. QED
      BY <1>9, <3>2, <3>3 DEF FailV2
  <2>2. QED
    BY <1>9, <2>1 DEF FailV2
<1>10. CASE FailV3
  <2>1. jsonl' \in Seq(Events)
    <3>1. job \in Events
      BY <1>10 DEF FailV3
    <3>2. CASE jsonl' = jsonl
      BY <3>2
    <3>3. CASE jsonl' = Append(jsonl, job)
      BY <3>1, <3>3
    <3>4. QED
      BY <1>10, <3>2, <3>3 DEF FailV3
  <2>2. QED
    BY <1>10, <2>1 DEF FailV3
<1>11. CASE CountWritten
  <2>1. stats' \in StatsType
    BY <1>11, StatsUpdates DEF CountWritten
  <2>2. QED
    BY <1>11, <2>1 DEF CountWritten
<1>12. CASE CountFailure
  <2>1. stats' \in StatsType
    BY <1>12, StatsUpdates DEF CountFailure
  <2>2. QED
    BY <1>12, <2>1 DEF CountFailure
<1>13. CASE CountRejection
  <2>1. stats' \in StatsType
    BY <1>13, StatsUpdates DEF CountRejection
  <2>2. QED
    BY <1>13, <2>1 DEF CountRejection
<1>14. CASE AppendLedger
  BY <1>14 DEF AppendLedger, LedgerLine
<1>15. CASE FailLedger
  <2>1. ledger' \in Seq([event : Events, stage : Stages])
    <3>1. LedgerLine \in [event : Events, stage : Stages]
      BY <1>15 DEF FailLedger, LedgerLine
    <3>2. CASE ledger' = ledger
      BY <3>2
    <3>3. CASE ledger' = Append(ledger, LedgerLine)
      BY <3>1, <3>3
    <3>4. QED
      BY <1>15, <3>2, <3>3 DEF FailLedger
  <2>2. failureMessage' \in SUBSET {"write", "ledger"}
    BY <1>15 DEF FailLedger
  <2>3. QED
    BY <1>15, <2>1, <2>2 DEF FailLedger
<1>16. CASE WorkerSpuriousWake
  BY <1>16 DEF WorkerSpuriousWake
<1>17. CASE BeginStop
  BY <1>17 DEF BeginStop, WakeWorker
<1>18. CASE FinishStop
  <2>1. stats' \in StatsType
    BY <1>18, StatsUpdates DEF FinishStop
  <2>2. QED
    BY <1>18, <2>1 DEF FinishStop
<1>19. CASE Terminated \/ UNCHANGED vars
  BY <1>19 DEF Terminated, vars
<1>20. QED
  BY <1>1, <1>2, <1>3, <1>4, <1>5, <1>6, <1>7, <1>8, <1>9, <1>10, <1>11,
     <1>12, <1>13, <1>14, <1>15, <1>16, <1>17, <1>18, <1>19
     DEF Next, WorkerStep

(* In every reachable state the fields, files and threads have their types. *)
THEOREM TypeCorrect == Spec => []TypeOK
<1>1. Init => TypeOK
  <2>1. ASSUME Init PROVE stats \in StatsType
    BY <2>1 DEF Init, StatsType
  <2>2. ASSUME Init PROVE request \in [Producers -> Events \cup {NoEvent}]
    BY <2>2 DEF Init
  <2>3. ASSUME Init
        PROVE  /\ <<>> \in Seq(Events)
               /\ <<>> \in Seq([event : Events, stage : Stages])
               /\ worker \in WorkerPositions /\ stage \in Stages
               /\ job \in IF worker \in Uncounted \cup {"ledger"}
                          THEN Events ELSE {NoEvent}
    BY <2>3 DEF Init, WorkerPositions, Stages, Uncounted
  <2>4. QED
    BY <2>1, <2>2, <2>3 DEF Init, TypeOK
<1>2. QED
  BY <1>1, TypeStep, PTL DEF Spec

-----------------------------------------------------------------------------
(* The inductive invariant. *)

(* A step that leaves the queue, the v2 report, the accepted events and the  *)
(* counters alone, and the job in hand uncounted if it was, keeps the        *)
(* accounting and the order.                                                 *)
LEMMA FrameStep ==
    ASSUME Accounting, BacklogInOrder, ReportIsPrefix,
           UNCHANGED <<jobs, csv, acceptedLog>>,
           stats'.accepted = stats.accepted,
           stats'.written = stats.written,
           stats'.failed = stats.failed,
           stats'.currentDepth = stats.currentDepth,
           stats'.highWater = stats.highWater,
           worker' \in Uncounted <=> worker \in Uncounted,
           worker \in Uncounted => job' = job
    PROVE  Accounting' /\ BacklogInOrder' /\ ReportIsPrefix'
<1>1. Handled' = Handled /\ InHand' = InHand
  BY DEF Handled, InHand, Uncounted
<1>2. Accounting'
  BY <1>1 DEF Accounting
<1>3. BacklogInOrder'
  BY <1>1 DEF BacklogInOrder
<1>4. ReportIsPrefix'
  BY DEF ReportIsPrefix
<1>5. QED
  BY <1>2, <1>3, <1>4

(* enqueue that returns true. *)
LEMMA PushStep ==
    ASSUME TypeOK, QueueInv, NEW p \in Producers, NEW e \in Events,
           CanPush, Len(jobs) < Capacity, Push(p, e)
    PROVE  QueueInv'
<1>1. /\ stats'.accepted = stats.accepted + 1
      /\ stats'.written = stats.written
      /\ stats'.failed = stats.failed
  BY DEF TypeOK, StatsType, Push
<1>2. /\ stats'.currentDepth = Len(jobs) + 1
      /\ stats'.highWater = IF stats.highWater > Len(jobs) + 1
                            THEN stats.highWater ELSE Len(jobs) + 1
  BY DEF TypeOK, StatsType, Push
<1>3. /\ Len(jobs') = Len(jobs) + 1
      /\ Len(acceptedLog') = Len(acceptedLog) + 1
      /\ \A i \in 1..Len(jobs) : jobs'[i] = jobs[i]
      /\ jobs'[Len(jobs) + 1] = e
      /\ \A i \in 1..Len(acceptedLog) : acceptedLog'[i] = acceptedLog[i]
      /\ acceptedLog'[Len(acceptedLog) + 1] = e
  BY DEF TypeOK, Push
<1>4. InHand' = InHand /\ Handled' = Handled
  BY <1>1 DEF Push, WakeWorker, InHand, Uncounted, Handled
<1>5. /\ stats \in StatsType /\ Capacity \in Nat
      /\ Len(jobs) \in Nat /\ Len(acceptedLog) \in Nat /\ Len(csv) \in Nat
      /\ Handled \in Nat /\ InHand \in {0, 1}
  BY QueueAssumption DEF TypeOK, StatsType, Handled, InHand
<1>6. Len(acceptedLog) = Handled + InHand + Len(jobs)
  BY DEF QueueInv, Accounting
<1>7. Accounting'
  <2>1. stats'.accepted = Len(acceptedLog') /\ stats'.currentDepth = Len(jobs')
    BY <1>1, <1>2, <1>3 DEF QueueInv, Accounting
  <2>2. stats'.accepted = Handled' + InHand' + Len(jobs')
    BY <1>1, <1>3, <1>4, <1>5, <1>6 DEF QueueInv, Accounting
  <2>3. stats'.currentDepth <= stats'.highWater
    BY <1>2, <1>5 DEF StatsType
  <2>4. stats'.highWater <= Capacity
    BY <1>2, <1>5 DEF QueueInv, Accounting, StatsType
  <2>5. QED
    BY <2>1, <2>2, <2>3, <2>4 DEF Accounting
<1>8. BacklogInOrder'
  <2>1. ASSUME NEW i \in 1..Len(jobs')
        PROVE  jobs'[i] = acceptedLog'[Handled' + InHand' + i]
    <3>1. CASE i = Len(jobs) + 1
      BY <3>1, <1>3, <1>4, <1>5, <1>6
    <3>2. CASE i \in 1..Len(jobs)
      <4>1. Handled + InHand + i \in 1..Len(acceptedLog)
        BY <3>2, <1>5, <1>6
      <4>2. QED
        BY <4>1, <3>2, <1>3, <1>4 DEF QueueInv, BacklogInOrder
    <3>3. QED
      BY <3>1, <3>2, <1>3, <1>5
  <2>2. worker' \in Uncounted => job' = acceptedLog'[Handled' + 1]
    <3>1. SUFFICES ASSUME worker' \in Uncounted
                   PROVE  job' = acceptedLog'[Handled' + 1]
      OBVIOUS
    <3>2. worker \in Uncounted
      BY <3>1 DEF Push, WakeWorker, Uncounted
    <3>3. Handled + 1 \in 1..Len(acceptedLog)
      BY <3>2, <1>5, <1>6 DEF InHand
    <3>4. QED
      BY <3>2, <3>3, <1>3, <1>4 DEF QueueInv, BacklogInOrder, Push
  <2>3. QED
    BY <2>1, <2>2 DEF BacklogInOrder
<1>9. ReportIsPrefix'
  <2>1. csv' = csv
    BY DEF Push, files
  <2>2. QED
    BY <2>1, <1>1, <1>3, <1>5 DEF QueueInv, ReportIsPrefix
<1>10. WorkerInv'
  <2>1. /\ UNCHANGED <<csv, terminalFailure>>
        /\ worker' = IF worker = "waiting" THEN "loop" ELSE worker
    BY DEF Push, WakeWorker, files
  <2>2. QED
    BY <1>1, <2>1 DEF QueueInv, WorkerInv
<1>11. CloseInv'
  BY DEF QueueInv, CloseInv, Push, WakeWorker, CanPush
<1>12. QED
  BY <1>7, <1>8, <1>9, <1>10, <1>11 DEF QueueInv

(* The counters are numbers, and the handled, held and queued jobs together *)
(* are the accepted events.                                                  *)
LEMMA Numbers ==
    ASSUME TypeOK, QueueInv
    PROVE  /\ stats.accepted \in Nat /\ stats.written \in Nat
           /\ stats.failed \in Nat /\ stats.currentDepth \in Nat
           /\ stats.highWater \in Nat /\ Capacity \in Nat
           /\ Len(jobs) \in Nat /\ Len(acceptedLog) \in Nat /\ Len(csv) \in Nat
           /\ Handled \in Nat /\ InHand \in {0, 1}
           /\ Handled = stats.written + stats.failed
           /\ Len(acceptedLog) = Handled + InHand + Len(jobs)
<1>1. stats.accepted \in Nat /\ stats.written \in Nat /\ stats.failed \in Nat
  BY DEF TypeOK, StatsType
<1>2. stats.currentDepth \in Nat /\ stats.highWater \in Nat
  BY DEF TypeOK, StatsType
<1>3. Len(jobs) \in Nat /\ Len(acceptedLog) \in Nat /\ Len(csv) \in Nat
  BY DEF TypeOK
<1>4. QED
  BY <1>1, <1>2, <1>3, QueueAssumption
     DEF QueueInv, Accounting, Handled, InHand

(* The worker takes the oldest job. *)
LEMMA PopStep ==
    ASSUME TypeOK, QueueInv, Pop
    PROVE  QueueInv'
<1>1. /\ stats'.accepted = stats.accepted
      /\ stats'.written = stats.written
      /\ stats'.failed = stats.failed
      /\ stats'.currentDepth = Len(jobs) - 1
      /\ stats'.highWater = stats.highWater
  BY DEF TypeOK, StatsType, Pop
<1>2. /\ jobs # <<>> /\ Len(jobs') = Len(jobs) - 1
      /\ \A i \in 1..Len(jobs') : jobs'[i] = jobs[i + 1]
      /\ job' = jobs[1] /\ Len(jobs) >= 1
  BY DEF TypeOK, Pop
<1>3. InHand = 0 /\ InHand' = 1 /\ Handled' = Handled
  BY <1>1 DEF Pop, Disposition, InHand, Uncounted, Handled
<1>4. UNCHANGED <<accepting, closing, stopped, terminalFailure, csv, acceptedLog>>
  BY DEF Pop, files, history
<1>5. Accounting'
  <2>1. /\ stats.accepted = Len(acceptedLog)
        /\ stats.currentDepth = Len(jobs)
        /\ stats.currentDepth <= stats.highWater
        /\ stats.highWater <= Capacity
    BY DEF QueueInv, Accounting
  <2>2. stats'.accepted = Handled' + InHand' + Len(jobs')
    BY <2>1, <1>1, <1>2, <1>3, Numbers
  <2>3. stats'.currentDepth <= stats'.highWater
    BY <2>1, <1>1, Numbers
  <2>4. QED
    BY <2>1, <2>2, <2>3, <1>1, <1>2, <1>4 DEF Accounting
<1>6. BacklogInOrder'
  <2>1. ASSUME NEW i \in 1..Len(jobs')
        PROVE  jobs'[i] = acceptedLog'[Handled' + InHand' + i]
    <3>1. i + 1 \in 1..Len(jobs)
      BY <1>2, Numbers
    <3>2. jobs[i + 1] = acceptedLog[Handled + InHand + (i + 1)]
      BY <3>1 DEF QueueInv, BacklogInOrder
    <3>3. Handled + InHand + (i + 1) = Handled' + InHand' + i
      <4>1. i \in Nat /\ Handled \in Nat
        BY <1>2, Numbers
      <4>2. QED
        BY <4>1, <1>3
    <3>4. QED
      BY <3>2, <3>3, <1>2, <1>4
  <2>2. job' = acceptedLog'[Handled' + 1]
    BY <1>2, <1>3, <1>4, Numbers DEF QueueInv, BacklogInOrder
  <2>3. QED
    BY <2>1, <2>2 DEF BacklogInOrder
<1>7. ReportIsPrefix'
  BY <1>1, <1>4 DEF QueueInv, ReportIsPrefix
<1>8. WorkerInv'
  <2>1. worker = "loop" /\ worker' = IF terminalFailure THEN "rejecting" ELSE "v2"
    BY DEF Pop, Disposition
  <2>2. QED
    BY <2>1, <1>1, <1>4 DEF QueueInv, WorkerInv
<1>9. CloseInv'
  <2>1. worker = "loop" /\ worker' \in {"rejecting", "v2"}
    BY DEF Pop, Disposition
  <2>2. QED
    BY <2>1, <1>4 DEF QueueInv, CloseInv
<1>10. QED
  BY <1>5, <1>6, <1>7, <1>8, <1>9 DEF QueueInv

(* The operation appends a row, or throws after it may have done so. *)
LEMMA V2Step ==
    ASSUME TypeOK, QueueInv, WriteV2 \/ FailV2
    PROVE  QueueInv'
<1>1. /\ worker = "v2" /\ csv' \in {csv, Append(csv, job)}
      /\ worker' \in {"v3", "written", "failed"}
      /\ worker' # "failed" => csv' = Append(csv, job)
      /\ UNCHANGED <<fields, acceptedLog, job>>
  BY DEF WriteV2, FailV2, history
<1>2. Len(csv) = stats.written /\ stats.failed = 0 /\ ~terminalFailure
  BY <1>1, Numbers DEF QueueInv, WorkerInv
<1>3. job \in Events /\ job = acceptedLog[stats.written + 1]
  <2>1. job = acceptedLog[Handled + 1] /\ job \in Events
    BY <1>1 DEF QueueInv, BacklogInOrder, Uncounted, TypeOK
  <2>2. QED
    BY <2>1, <1>2, Numbers
<1>4. stats.written + 1 <= Len(acceptedLog)
  BY <1>1, <1>2, Numbers DEF InHand, Uncounted
<1>5. Accounting' /\ BacklogInOrder'
  <2>1. Handled' = Handled /\ InHand' = InHand
    BY <1>1 DEF Handled, InHand, Uncounted, fields
  <2>2. UNCHANGED <<stats, jobs, acceptedLog, job>>
    BY <1>1 DEF fields
  <2>3. worker \in Uncounted
    BY <1>1 DEF Uncounted
  <2>4. QED
    BY <2>1, <2>2, <2>3 DEF QueueInv, Accounting, BacklogInOrder
<1>6. UNCHANGED <<stats, terminalFailure, jobs, accepting, closing, stopped>>
  BY <1>1 DEF fields
<1>7. ReportIsPrefix' /\ WorkerInv'
  <2>1. CASE csv' = csv
    <3>1. worker' = "failed"
      <4>1. Len(Append(csv, job)) = Len(csv) + 1
        BY <1>3 DEF TypeOK
      <4>2. QED
        BY <4>1, <2>1, <1>1, Numbers
    <3>2. QED
      BY <3>1, <2>1, <1>1, <1>2, <1>6, Numbers
         DEF QueueInv, ReportIsPrefix, WorkerInv
  <2>2. CASE csv' = Append(csv, job)
    <3>1. /\ Len(csv') = stats.written + 1
          /\ \A i \in 1..Len(csv) : csv'[i] = csv[i]
          /\ csv'[stats.written + 1] = job
      <4>1. csv \in Seq(Events)
        BY DEF TypeOK
      <4>2. QED
        BY <4>1, <2>2, <1>2, <1>3
    <3>2. ReportIsPrefix'
      <4>1. \A i \in 1..Len(csv) : csv[i] = acceptedLog[i]
        BY DEF QueueInv, ReportIsPrefix
      <4>2. ASSUME NEW i \in 1..Len(csv') PROVE csv'[i] = acceptedLog'[i]
        <5>1. i \in 1..Len(csv) \/ i = stats.written + 1
          BY <3>1, <1>2, Numbers
        <5>2. QED
          BY <5>1, <4>1, <3>1, <1>1, <1>3
      <4>3. /\ stats'.written <= Len(csv') /\ Len(csv') <= stats'.written + 1
            /\ Len(csv') <= Len(acceptedLog')
        <5>1. acceptedLog' = acceptedLog /\ stats' = stats
          BY <1>1, <1>6
        <5>2. stats.written \in Nat /\ Len(csv') = stats.written + 1
          BY <3>1, Numbers
        <5>3. QED
          BY <5>1, <5>2, <1>4
      <4>4. QED
        BY <4>2, <4>3 DEF ReportIsPrefix
    <3>3. WorkerInv'
      BY <3>1, <1>1, <1>2, <1>6, Numbers DEF WorkerInv
    <3>4. QED
      BY <3>2, <3>3
  <2>3. QED
    BY <1>1, <2>1, <2>2
<1>8. CloseInv'
  BY <1>1, <1>6 DEF QueueInv, CloseInv
<1>9. QED
  BY <1>5, <1>7, <1>8 DEF QueueInv

(* The worker takes the lock again and counts the job in its hand.          *)
LEMMA CountStep ==
    ASSUME TypeOK, QueueInv, CountWritten \/ CountFailure \/ CountRejection
    PROVE  QueueInv'
<1>1. /\ worker \in Uncounted /\ worker' \notin Uncounted
      /\ UNCHANGED <<jobs, accepting, closing, stopped, csv, acceptedLog>>
  BY DEF CountWritten, CountFailure, CountRejection, Uncounted, files, history
<1>2. /\ stats'.accepted = stats.accepted
      /\ stats'.currentDepth = stats.currentDepth
      /\ stats'.highWater = stats.highWater
  BY DEF TypeOK, StatsType, CountWritten, CountFailure, CountRejection
<1>3. \/ /\ worker = "written" /\ worker' = "loop"
         /\ terminalFailure' = terminalFailure
         /\ stats'.written = stats.written + 1 /\ stats'.failed = stats.failed
      \/ /\ worker = "failed" /\ worker' = "ledger"
         /\ terminalFailure' = TRUE
         /\ stats'.written = stats.written /\ stats'.failed = stats.failed + 1
      \/ /\ worker = "rejecting" /\ worker' = "ledger"
         /\ terminalFailure' = terminalFailure
         /\ stats'.written = stats.written /\ stats'.failed = stats.failed + 1
  BY DEF TypeOK, StatsType, CountWritten, CountFailure, CountRejection
<1>4. Handled' = Handled + 1 /\ InHand = 1 /\ InHand' = 0
  <2>1. InHand = 1 /\ InHand' = 0
    BY <1>1 DEF InHand
  <2>2. Handled' = stats'.written + stats'.failed
    BY DEF Handled
  <2>3. \/ stats'.written = stats.written + 1 /\ stats'.failed = stats.failed
        \/ stats'.written = stats.written /\ stats'.failed = stats.failed + 1
    BY <1>3
  <2>4. /\ stats.written \in Nat /\ stats.failed \in Nat
        /\ Handled = stats.written + stats.failed
    BY Numbers
  <2>5. QED
    BY <2>1, <2>2, <2>3, <2>4
<1>5. Accounting'
  <2>1. /\ stats.accepted = Len(acceptedLog)
        /\ stats.currentDepth = Len(jobs)
        /\ stats.currentDepth <= stats.highWater
        /\ stats.highWater <= Capacity
    BY DEF QueueInv, Accounting
  <2>2. stats'.accepted = Handled' + InHand' + Len(jobs')
    <3>1. Len(jobs') = Len(jobs) /\ stats'.accepted = Len(acceptedLog)
      BY <2>1, <1>1, <1>2
    <3>2. /\ Handled \in Nat /\ Len(jobs) \in Nat
          /\ Len(acceptedLog) = Handled + InHand + Len(jobs)
      BY Numbers
    <3>3. QED
      BY <3>1, <3>2, <1>4
  <2>3. QED
    BY <2>1, <2>2, <1>1, <1>2 DEF Accounting
<1>6. BacklogInOrder'
  <2>1. ASSUME NEW i \in 1..Len(jobs')
        PROVE  jobs'[i] = acceptedLog'[Handled' + InHand' + i]
    <3>1. jobs[i] = acceptedLog[Handled + InHand + i]
      BY <1>1 DEF QueueInv, BacklogInOrder
    <3>2. Handled + InHand + i = Handled' + InHand' + i
      <4>1. i \in Nat /\ Handled \in Nat
        BY <1>1, Numbers
      <4>2. QED
        BY <4>1, <1>4
    <3>3. QED
      BY <3>1, <3>2, <1>1
  <2>2. QED
    BY <2>1, <1>1 DEF BacklogInOrder
<1>7. ReportIsPrefix'
  <2>1. \A i \in 1..Len(csv') : csv'[i] = acceptedLog'[i]
    BY <1>1 DEF QueueInv, ReportIsPrefix
  <2>2. /\ stats.written <= Len(csv) /\ Len(csv) <= stats.written + 1
        /\ Len(csv) <= Len(acceptedLog)
    BY DEF QueueInv, ReportIsPrefix
  <2>3. worker = "written" => Len(csv) = stats.written + 1
    BY DEF QueueInv, WorkerInv
  <2>4. stats'.written <= Len(csv) /\ Len(csv) <= stats'.written + 1
    BY <2>2, <2>3, <1>3, Numbers
  <2>5. QED
    BY <2>1, <2>2, <2>4, <1>1 DEF ReportIsPrefix
<1>8. WorkerInv'
  <2>1. /\ terminalFailure <=> stats.failed > 0
        /\ worker = "written" => /\ Len(csv) = stats.written + 1
                                 /\ ~terminalFailure
        /\ worker = "rejecting" => terminalFailure
    BY DEF QueueInv, WorkerInv
  <2>2. CASE worker' = "loop"
    BY <2>1, <2>2, <1>1, <1>3, Numbers DEF WorkerInv
  <2>3. CASE worker' = "ledger"
    <3>1. stats'.failed > 0 /\ terminalFailure'
      BY <2>1, <2>3, <1>3, Numbers
    <3>2. QED
      BY <3>1, <2>3 DEF WorkerInv
  <2>4. QED
    BY <1>3, <2>2, <2>3
<1>9. CloseInv'
  <2>1. /\ worker # "exited" /\ worker' \in {"loop", "ledger"}
    BY <1>3
  <2>2. QED
    BY <2>1, <1>1 DEF QueueInv, CloseInv
<1>10. QED
  BY <1>5, <1>6, <1>7, <1>8, <1>9 DEF QueueInv

(* The steps of drainAndStop. *)
LEMMA StopStep ==
    ASSUME TypeOK, QueueInv, BeginStop \/ FinishStop
    PROVE  QueueInv'
<1>1. CASE BeginStop
  <2>1. /\ UNCHANGED <<jobs, csv, acceptedLog, stats, terminalFailure, job, stopped>>
        /\ worker' = IF worker = "waiting" THEN "loop" ELSE worker
        /\ accepting' = FALSE /\ closing' = TRUE
        /\ ~stopped /\ ~closing
    BY <1>1 DEF BeginStop, WakeWorker, files, history
  <2>2. Accounting' /\ BacklogInOrder' /\ ReportIsPrefix'
    BY <2>1, FrameStep DEF QueueInv, Uncounted
  <2>3. WorkerInv'
    BY <2>1 DEF QueueInv, WorkerInv
  <2>4. CloseInv'
    BY <2>1 DEF QueueInv, CloseInv
  <2>5. QED
    BY <2>2, <2>3, <2>4 DEF QueueInv
<1>2. CASE FinishStop
  <2>1. /\ UNCHANGED <<jobs, csv, acceptedLog, terminalFailure, job, worker,
                       accepting>>
        /\ worker = "exited" /\ closing
        /\ closing' = FALSE /\ stopped' = TRUE
    BY <1>2 DEF FinishStop, files, history, threads
  <2>2. stats.currentDepth = 0
    <3>1. jobs = <<>> /\ stats.currentDepth = Len(jobs)
      BY <2>1 DEF QueueInv, CloseInv, Accounting
    <3>2. QED
      BY <3>1
  <2>3. stats' = stats
    <3>1. stats' = [stats EXCEPT !.currentDepth = 0]
      BY <1>2 DEF FinishStop
    <3>2. stats \in StatsType
      BY DEF TypeOK
    <3>3. QED
      BY <3>1, <3>2, <2>2 DEF StatsType
  <2>4. Accounting' /\ BacklogInOrder' /\ ReportIsPrefix'
    BY <2>1, <2>3, FrameStep DEF QueueInv
  <2>5. WorkerInv'
    BY <2>1, <2>3 DEF QueueInv, WorkerInv
  <2>6. CloseInv'
    BY <2>1 DEF QueueInv, CloseInv
  <2>7. QED
    BY <2>4, <2>5, <2>6 DEF QueueInv
<1>3. QED
  BY <1>1, <1>2

(* Every other step leaves the queue, the report and the counters alone.     *)
LEMMA QuietStep ==
    ASSUME TypeOK, QueueInv,
           \/ \E p \in Producers, e \in Events : Refuse(p, e) \/ Block(p, e)
           \/ \E p \in Producers : SpuriousWake(p)
           \/ \E p \in Producers : Resume(p) /\ UNCHANGED <<fields, files, worker, job, history>>
           \/ WorkerWait \/ WorkerSpuriousWake \/ WorkerExit
           \/ WriteV3 \/ FailV3 \/ AppendLedger \/ FailLedger
           \/ UNCHANGED vars
    PROVE  QueueInv'
<1>1. /\ UNCHANGED <<jobs, csv, acceptedLog, terminalFailure, accepting,
                     closing, stopped>>
      /\ \/ UNCHANGED <<worker, job>>
         \/ /\ worker = "loop" /\ jobs = <<>> /\ accepting
            /\ worker' = "waiting" /\ job' = job
         \/ worker = "waiting" /\ worker' = "loop" /\ job' = job
         \/ /\ worker = "loop" /\ jobs = <<>> /\ ~accepting
            /\ worker' = "exited" /\ job' = job
         \/ worker = "v3" /\ worker' \in {"written", "failed"} /\ job' = job
         \/ worker = "ledger" /\ worker' = "loop"
  BY DEF Refuse, Block, SpuriousWake, WorkerWait, WorkerSpuriousWake,
         WorkerExit, WriteV3, FailV3, AppendLedger, FailLedger, fields, files,
         threads, history, vars
<1>2. /\ stats'.accepted = stats.accepted
      /\ stats'.written = stats.written
      /\ stats'.failed = stats.failed
      /\ stats'.currentDepth = stats.currentDepth
      /\ stats'.highWater = stats.highWater
  <2>1. stats' = stats \/ stats' = [stats EXCEPT !.blocked = @ + 1]
    BY DEF Refuse, Block, SpuriousWake, WorkerWait, WorkerSpuriousWake,
           WorkerExit, WriteV3, FailV3, AppendLedger, FailLedger, fields, vars
  <2>2. stats \in StatsType
    BY DEF TypeOK
  <2>3. QED
    BY <2>1, <2>2 DEF StatsType
<1>3. Accounting' /\ BacklogInOrder' /\ ReportIsPrefix'
  BY <1>1, <1>2, FrameStep DEF QueueInv, Uncounted
<1>4. WorkerInv'
  BY <1>1, <1>2 DEF QueueInv, WorkerInv
<1>5. CloseInv'
  BY <1>1 DEF QueueInv, CloseInv
<1>6. QED
  BY <1>3, <1>4, <1>5 DEF QueueInv

(* The invariant holds at the start and every step keeps it. *)
LEMMA QueueInvInit == Init => QueueInv
<1> SUFFICES ASSUME Init PROVE QueueInv
  OBVIOUS
<1>1. /\ stats.accepted = 0 /\ stats.written = 0 /\ stats.failed = 0
      /\ stats.currentDepth = 0 /\ stats.highWater = 0
      /\ Len(jobs) = 0 /\ Len(csv) = 0 /\ Len(acceptedLog) = 0
      /\ worker = "loop"
  BY DEF Init
<1>2. InHand = 0 /\ Handled = 0
  BY <1>1 DEF InHand, Handled, Uncounted
<1>3. Accounting
  BY <1>1, <1>2, QueueAssumption DEF Accounting
<1>4. BacklogInOrder
  BY <1>1 DEF BacklogInOrder, Uncounted
<1>5. ReportIsPrefix
  BY <1>1 DEF ReportIsPrefix
<1>6. WorkerInv
  BY <1>1 DEF Init, WorkerInv
<1>7. CloseInv
  BY <1>1 DEF Init, CloseInv
<1>8. QED
  BY <1>3, <1>4, <1>5, <1>6, <1>7 DEF QueueInv

LEMMA QueueInvStep == TypeOK /\ QueueInv /\ [Next]_vars => QueueInv'
<1> SUFFICES ASSUME TypeOK, QueueInv, [Next]_vars PROVE QueueInv'
  OBVIOUS
<1>1. ASSUME NEW p \in Producers, NEW e \in Events, Enqueue(p, e)
      PROVE  QueueInv'
  <2>1. CASE Refuse(p, e) \/ Block(p, e)
    BY <2>1, QuietStep
  <2>2. CASE CanPush /\ Len(jobs) < Capacity /\ Push(p, e)
    BY <2>2, PushStep
  <2>3. QED
    BY <1>1, <2>1, <2>2 DEF Enqueue
<1>2. ASSUME NEW p \in Producers, Resume(p) PROVE QueueInv'
  <2>1. request[p] \in Events
    BY <1>2 DEF Resume, TypeOK
  <2>2. CASE Refuse(p, request[p])
    BY <2>1, <2>2, QuietStep
  <2>3. CASE CanPush /\ Len(jobs) < Capacity /\ Push(p, request[p])
    BY <2>1, <2>3, PushStep
  <2>4. CASE UNCHANGED <<fields, files, worker, job, history>>
    BY <1>2, <2>4, QuietStep
  <2>5. QED
    BY <1>2, <2>2, <2>3, <2>4 DEF Resume
<1>3. ASSUME NEW p \in Producers, SpuriousWake(p) PROVE QueueInv'
  BY <1>3, QuietStep
<1>4. CASE WorkerStep \/ WorkerSpuriousWake
  BY <1>4, PopStep, V2Step, CountStep, QuietStep DEF WorkerStep
<1>5. CASE BeginStop \/ FinishStop
  BY <1>5, StopStep
<1>6. CASE Terminated \/ UNCHANGED vars
  <2>1. UNCHANGED vars
    BY <1>6 DEF Terminated
  <2>2. QED
    BY <2>1, QuietStep
<1>7. QED
  BY <1>1, <1>2, <1>3, <1>4, <1>5, <1>6 DEF Next

-----------------------------------------------------------------------------
(* The theorems. *)

(* In every reachable state, for any number of producers and any capacity,   *)
(* the inductive invariant of the queue holds.                               *)
THEOREM QueueCorrect == Spec => []QueueInv
<1>1. QED
  BY QueueInvInit, QueueInvStep, TypeCorrect, PTL DEF Spec

(* No accepted event is ever lost or counted twice: accepted = written +     *)
(* failed + in hand + queued, and the backlog never passes the capacity.     *)
THEOREM AccountingHolds == Spec => []Accounting
<1>1. QueueInv => Accounting
  BY DEF QueueInv
<1>2. QED
  BY <1>1, QueueCorrect, PTL

(* Events are persisted in the order enqueue accepted them, without a gap.   *)
THEOREM ReportInOrder == Spec => [](BacklogInOrder /\ ReportIsPrefix)
<1>1. QueueInv => BacklogInOrder /\ ReportIsPrefix
  BY DEF QueueInv
<1>2. QED
  BY <1>1, QueueCorrect, PTL

(* The first failed write is the last: no later step adds to a report or     *)
(* accepts an event, and the failure is never forgotten.                     *)
THEOREM FailureIsTerminal == Spec => NothingAfterFailure
<1> DEFINE Quiet == terminalFailure => /\ UNCHANGED <<csv, jsonl, acceptedLog>>
                                       /\ terminalFailure'
<1>1. QueueInv /\ [Next]_vars => [Quiet]_vars
  <2> SUFFICES ASSUME QueueInv, Next, terminalFailure
               PROVE  UNCHANGED <<csv, jsonl, acceptedLog>> /\ terminalFailure'
    BY DEF vars
  <2>1. ~CanPush /\ worker \notin {"v2", "v3", "written", "failed"}
    BY DEF CanPush, QueueInv, WorkerInv
  <2>2. ASSUME NEW p \in Producers, NEW e \in Events, Enqueue(p, e)
        PROVE  UNCHANGED <<csv, jsonl, acceptedLog>> /\ terminalFailure'
    BY <2>1, <2>2 DEF Enqueue, Refuse, files, fields
  <2>3. ASSUME NEW p \in Producers, Resume(p)
        PROVE  UNCHANGED <<csv, jsonl, acceptedLog>> /\ terminalFailure'
    BY <2>1, <2>3 DEF Resume, Refuse, files, fields
  <2>4. ASSUME NEW p \in Producers, SpuriousWake(p)
        PROVE  UNCHANGED <<csv, jsonl, acceptedLog>> /\ terminalFailure'
    BY <2>4 DEF SpuriousWake, files, fields, history
  <2>5. CASE WorkerStep
    BY <2>1, <2>5
       DEF WorkerStep, WorkerWait, WorkerExit, Pop, WriteV2, WriteV3, FailV2,
           FailV3, CountWritten, CountFailure, CountRejection, AppendLedger,
           FailLedger, files, fields, history
  <2>6. CASE WorkerSpuriousWake \/ BeginStop \/ FinishStop \/ Terminated
    BY <2>6 DEF WorkerSpuriousWake, BeginStop, FinishStop, Terminated, files,
                fields, history, vars
  <2>7. QED
    BY <2>2, <2>3, <2>4, <2>5, <2>6 DEF Next
<1>2. QED
  BY <1>1, QueueCorrect, PTL DEF Spec, NothingAfterFailure

(* Every critical section of the queue is a step of the bounded channel, or  *)
(* changes nothing the channel shows.                                        *)
LEMMA ChannelStep ==
    ASSUME TypeOK, QueueInv, Next
    PROVE  [Channel!Next]_(Channel!vars)
<1> USE DEF Channel!Next, Channel!vars
<1>1. ASSUME NEW p \in Producers, NEW e \in Events,
             CanPush, Len(jobs) < Capacity, Push(p, e)
      PROVE  Channel!Accept(e)
  <2>1. /\ acceptedLog' = Append(acceptedLog, e)
        /\ UNCHANGED <<terminalFailure, accepting, stopped>>
    BY <1>1 DEF Push
  <2>2. stats'.written = stats.written /\ stats'.failed = stats.failed
    BY <1>1 DEF TypeOK, StatsType, Push
  <2>3. Len(acceptedLog) - Handled <= Capacity
    BY <1>1, Numbers
  <2>4. QED
    BY <1>1, <2>1, <2>2, <2>3 DEF Channel!Accept, CanPush, Handled
<1>2. ASSUME UNCHANGED <<stats, acceptedLog, terminalFailure, accepting, stopped>>
      PROVE  UNCHANGED Channel!vars
  BY <1>2 DEF Handled
<1>3. ASSUME NEW p \in Producers, NEW e \in Events, Block(p, e)
      PROVE  UNCHANGED Channel!vars
  <2>1. stats'.written = stats.written /\ stats'.failed = stats.failed
    BY <1>3 DEF TypeOK, StatsType, Block
  <2>2. QED
    BY <1>3, <2>1 DEF Block, history, Handled
<1>4. ASSUME NEW p \in Producers, NEW e \in Events, Enqueue(p, e)
      PROVE  [Channel!Next]_(Channel!vars)
  <2>1. CASE Refuse(p, e)
    BY <2>1, <1>2 DEF Refuse, fields
  <2>2. QED
    BY <1>1, <1>3, <1>4, <2>1 DEF Enqueue
<1>5. ASSUME NEW p \in Producers, Resume(p)
      PROVE  [Channel!Next]_(Channel!vars)
  <2>1. request[p] \in Events
    BY <1>5 DEF Resume, TypeOK
  <2>2. CASE Refuse(p, request[p])
    BY <2>2, <1>2 DEF Refuse, fields
  <2>3. CASE CanPush /\ Len(jobs) < Capacity /\ Push(p, request[p])
    BY <2>1, <2>3, <1>1
  <2>4. CASE UNCHANGED <<fields, files, worker, job, history>>
    BY <2>4, <1>2 DEF fields, history
  <2>5. QED
    BY <1>5, <2>2, <2>3, <2>4 DEF Resume
<1>6. CASE Pop
  <2>1. stats'.written = stats.written /\ stats'.failed = stats.failed
    BY <1>6 DEF TypeOK, StatsType, Pop
  <2>2. QED
    BY <1>6, <2>1 DEF Pop, history, Handled
<1>7. CASE CountWritten \/ CountFailure \/ CountRejection
  <2>0. stats.written \in Nat /\ stats.failed \in Nat
    BY Numbers
  <2>1. UNCHANGED <<acceptedLog, accepting, stopped>> /\ worker \in Uncounted
    BY <1>7 DEF CountWritten, CountFailure, CountRejection, history, Uncounted
  <2>2. Handled < Len(acceptedLog)
    BY <2>1, Numbers DEF InHand
  <2>3. CASE CountWritten
    <3>1. /\ stats'.written = stats.written + 1 /\ stats'.failed = stats.failed
          /\ terminalFailure' = terminalFailure
      BY <2>3 DEF TypeOK, StatsType, CountWritten
    <3>2. Handled' = Handled + 1
      BY <3>1, <2>0 DEF Handled
    <3>3. ~terminalFailure
      BY <2>3 DEF CountWritten, QueueInv, WorkerInv
    <3>4. QED
      BY <3>1, <3>2, <3>3, <2>1, <2>2 DEF Channel!Persist
  <2>4. CASE CountFailure
    <3>1. /\ stats'.written = stats.written /\ stats'.failed = stats.failed + 1
          /\ terminalFailure' = TRUE
      BY <2>4 DEF TypeOK, StatsType, CountFailure
    <3>2. Handled' = Handled + 1
      BY <3>1, <2>0 DEF Handled
    <3>3. ~terminalFailure
      BY <2>4 DEF CountFailure, QueueInv, WorkerInv
    <3>4. QED
      BY <3>1, <3>2, <3>3, <2>1, <2>2 DEF Channel!Break
  <2>5. CASE CountRejection
    <3>1. /\ stats'.written = stats.written /\ stats'.failed = stats.failed + 1
          /\ terminalFailure' = terminalFailure
      BY <2>5 DEF TypeOK, StatsType, CountRejection
    <3>2. Handled' = Handled + 1
      BY <3>1, <2>0 DEF Handled
    <3>3. terminalFailure
      BY <2>5 DEF CountRejection, QueueInv, WorkerInv
    <3>4. QED
      BY <3>1, <3>2, <3>3, <2>1, <2>2 DEF Channel!Discard
  <2>6. QED
    BY <1>7, <2>3, <2>4, <2>5
<1>8. CASE BeginStop
  <2>1. accepting
    BY <1>8 DEF BeginStop, QueueInv, CloseInv
  <2>2. QED
    BY <1>8, <2>1 DEF BeginStop, history, Handled, Channel!Close
<1>9. CASE FinishStop
  <2>1. Handled = Len(acceptedLog)
    <3>1. Len(jobs) = 0 /\ InHand = 0
      BY <1>9 DEF FinishStop, QueueInv, CloseInv, InHand, Uncounted
    <3>2. QED
      BY <3>1, Numbers
  <2>2. stats'.written = stats.written /\ stats'.failed = stats.failed
    BY <1>9 DEF FinishStop, TypeOK, StatsType
  <2>3. ~accepting /\ ~stopped
    BY <1>9 DEF FinishStop, QueueInv, CloseInv
  <2>4. QED
    BY <1>9, <2>1, <2>2, <2>3 DEF FinishStop, history, Handled, Channel!Drain
<1>10. CASE \/ \E p \in Producers : SpuriousWake(p)
            \/ WorkerWait \/ WorkerExit \/ WriteV2 \/ WriteV3 \/ FailV2
            \/ FailV3 \/ AppendLedger \/ FailLedger \/ WorkerSpuriousWake
            \/ Terminated
  <2>1. UNCHANGED <<stats, acceptedLog, terminalFailure, accepting, stopped>>
    BY <1>10 DEF SpuriousWake, WorkerWait, WorkerExit, WriteV2, WriteV3,
                 FailV2, FailV3, AppendLedger, FailLedger, WorkerSpuriousWake,
                 Terminated, vars, fields, history
  <2>2. QED
    BY <2>1, <1>2
<1>11. QED
  BY <1>4, <1>5, <1>6, <1>7, <1>8, <1>9, <1>10 DEF Next, WorkerStep

(* The lock-level queue implements the bounded channel: what the monitor can *)
(* observe of the interleavings is one accepted event settled after the      *)
(* other.  (That settling goes on is model-checked, not proved.)             *)
THEOREM QueueRefinesChannel == Spec => Channel!SafeSpec
<1>1. Init => Channel!Init
  BY DEF Init, Channel!Init, Handled
<1>2. TypeOK /\ QueueInv /\ [Next]_vars => [Channel!Next]_(Channel!vars)
  <2>1. CASE UNCHANGED vars
    BY <2>1 DEF vars, fields, history, Handled, Channel!vars
  <2>2. QED
    BY <2>1, ChannelStep
<1>3. QED
  BY <1>1, <1>2, TypeCorrect, QueueCorrect, PTL DEF Spec, Channel!SafeSpec

-----------------------------------------------------------------------------
(***************************************************************************)
(* The files: what the queue leaves on disk.  The reports and the failure  *)
(* ledger agree, and after a drain every accepted event is accounted for.  *)
(***************************************************************************)
(* The invariants. *)

\* No event is accepted twice: those in a call of enqueue are new, and no two
\* calls have the same one.
OnceInv ==
    /\ \A p \in Producers :
          request[p] # NoEvent => request[p] \notin Elements(acceptedLog)
    /\ \A p, q \in Producers :
          request[p] = request[q] /\ request[p] # NoEvent => p = q
    /\ \A i, j \in 1..Len(acceptedLog) :
          acceptedLog[i] = acceptedLog[j] => i = j

\* An event can be found: in the v2 report, in the ledger, or the failure
\* message says that the ledger is incomplete.
Located(e) ==
    \/ e \in Elements(csv)
    \/ \E l \in Elements(ledger) : l.event = e
    \/ "ledger" \in failureMessage

\* The stage is the one of the worker's position; it says whether the v2 row
\* of the job is there.
StageInv ==
    /\ worker = "v2" => stage = "v2"
    /\ worker = "v3" => stage = "v3"
    /\ worker = "rejecting" => stage = "terminal_rejected"
    /\ worker = "failed" => stage # "terminal_rejected"
    /\ worker = "ledger" => Handled > 0 /\ job = acceptedLog[Handled]
    /\ worker \in {"v3", "failed", "ledger"} /\ stage = "v3"
          => job \in Elements(csv)
    /\ worker \in {"rejecting", "ledger"} /\ stage = "terminal_rejected"
          => job \notin Elements(csv)

\* Nothing is said of a failure before there is one.
SilenceInv ==
    ~terminalFailure => Elements(ledger) = {} /\ failureMessage = {}

\* Every handled event can be found, except the one the worker is about to
\* put into the ledger.
HandledInv ==
    \A i \in 1..Handled :
        Located(acceptedLog[i]) \/ (worker = "ledger" /\ i = Handled)

\* A producer sleeps only while the queue accepts.
SleepInv == notFull # {} => accepting

FilesInv ==
    /\ OnceInv
    /\ FilesAgree
    /\ StageInv
    /\ SilenceInv
    /\ HandledInv
    /\ SleepInv

-----------------------------------------------------------------------------
(* Sequences and the events in them. *)

(* What is in a sequence after an append. *)
LEMMA ElementsOfAppend ==
    ASSUME NEW S, NEW s \in Seq(S), NEW e \in S
    PROVE  Elements(Append(s, e)) = Elements(s) \cup {e}
<1> DEFINE t == Append(s, e)
<1>1. /\ t \in Seq(S) /\ Len(t) = Len(s) + 1 /\ Len(s) \in Nat
      /\ DOMAIN t = 1..(Len(s) + 1) /\ DOMAIN s = 1..Len(s)
      /\ \A i \in 1..Len(s) : t[i] = s[i]
      /\ t[Len(s) + 1] = e
  OBVIOUS
<1> HIDE DEF t
<1>2. ASSUME NEW x \in Elements(t) PROVE x \in Elements(s) \cup {e}
  <2>1. PICK i \in 1..(Len(s) + 1) : x = t[i]
    BY <1>1 DEF Elements
  <2>2. CASE i = Len(s) + 1
    BY <2>1, <2>2, <1>1
  <2>3. CASE i \in 1..Len(s)
    BY <2>1, <2>3, <1>1 DEF Elements
  <2>4. QED
    BY <2>2, <2>3, <1>1
<1>3. ASSUME NEW x \in Elements(s) PROVE x \in Elements(t)
  <2>1. PICK i \in 1..Len(s) : x = s[i]
    BY <1>1 DEF Elements
  <2>2. i \in 1..(Len(s) + 1) /\ t[i] = x
    BY <2>1, <1>1
  <2>3. QED
    BY <2>2, <1>1 DEF Elements
<1>4. e \in Elements(t)
  <2>1. Len(s) + 1 \in DOMAIN t
    BY <1>1
  <2>2. QED
    BY <2>1, <1>1 DEF Elements
<1>5. QED
  BY <1>2, <1>3, <1>4 DEF t

(* The events of a report are those at its positions. *)
LEMMA ElementsOfSeq ==
    ASSUME NEW S, NEW s \in Seq(S)
    PROVE  /\ \A i \in 1..Len(s) : s[i] \in Elements(s)
           /\ \A x \in Elements(s) : \E i \in 1..Len(s) : x = s[i]
           /\ Elements(s) \subseteq S
<1>1. DOMAIN s = 1..Len(s) /\ \A i \in 1..Len(s) : s[i] \in S
  OBVIOUS
<1>2. QED
  BY <1>1 DEF Elements

-----------------------------------------------------------------------------
(* Acceptance. *)

(* enqueue that returns true, for an event that no other call has. *)
LEMMA PushOnce ==
    ASSUME TypeOK, OnceInv, NEW p \in Producers, NEW e \in Events,
           e \notin Elements(acceptedLog),
           \A q \in Producers : q # p => request[q] # e,
           Push(p, e)
    PROVE  OnceInv'
<1>1. /\ acceptedLog \in Seq(Events) /\ acceptedLog' = Append(acceptedLog, e)
      /\ request \in [Producers -> Events \cup {NoEvent}]
      /\ request' = [request EXCEPT ![p] = NoEvent]
  BY DEF TypeOK, Push
<1>2. Elements(acceptedLog') = Elements(acceptedLog) \cup {e}
  BY <1>1, ElementsOfAppend
<1>3. \A q \in Producers : request'[q] = IF q = p THEN NoEvent ELSE request[q]
  BY <1>1
<1>4. ASSUME NEW q \in Producers, request'[q] # NoEvent
      PROVE  request'[q] \notin Elements(acceptedLog')
  BY <1>2, <1>3, <1>4 DEF OnceInv
<1>5. ASSUME NEW q \in Producers, NEW r \in Producers,
             request'[q] = request'[r], request'[q] # NoEvent
      PROVE  q = r
  BY <1>3, <1>5 DEF OnceInv
<1>6. ASSUME NEW i \in 1..Len(acceptedLog'), NEW j \in 1..Len(acceptedLog'),
             acceptedLog'[i] = acceptedLog'[j]
      PROVE  i = j
  <2>1. /\ Len(acceptedLog') = Len(acceptedLog) + 1 /\ Len(acceptedLog) \in Nat
        /\ \A k \in 1..Len(acceptedLog) : acceptedLog'[k] = acceptedLog[k]
        /\ acceptedLog'[Len(acceptedLog) + 1] = e
    BY <1>1
  <2>2. \A k \in 1..Len(acceptedLog) : acceptedLog[k] # e
    BY <1>1, ElementsOfSeq
  <2>3. \A k \in 1..Len(acceptedLog') :
           k \in 1..Len(acceptedLog) \/ k = Len(acceptedLog) + 1
    BY <2>1
  <2>4. CASE i \in 1..Len(acceptedLog) /\ j \in 1..Len(acceptedLog)
    BY <2>4, <2>1, <1>6 DEF OnceInv
  <2>5. CASE i = Len(acceptedLog) + 1 \/ j = Len(acceptedLog) + 1
    BY <2>5, <2>1, <2>2, <2>3, <1>6
  <2>6. QED
    BY <2>3, <2>4, <2>5
<1>7. QED
  BY <1>4, <1>5, <1>6 DEF OnceInv

(* No step accepts an event a second time. *)
LEMMA OnceStep ==
    ASSUME TypeOK, OnceInv, [Next]_vars
    PROVE  OnceInv'
<1>1. request \in [Producers -> Events \cup {NoEvent}] /\ NoEvent \notin Events
  BY QueueAssumption DEF TypeOK
<1>2. ASSUME UNCHANGED <<request, acceptedLog>> PROVE OnceInv'
  BY <1>2 DEF OnceInv
<1>3. ASSUME NEW p \in Producers, NEW e, Refuse(p, e) PROVE OnceInv'
  <2>1. acceptedLog' = acceptedLog
    BY <1>3 DEF Refuse
  <2>2. \A q \in Producers : request'[q] = IF q = p THEN NoEvent ELSE request[q]
    BY <1>1, <1>3 DEF Refuse
  <2>3. QED
    BY <2>1, <2>2 DEF OnceInv
<1>4. ASSUME NEW p \in Producers, NEW e \in Events, Enqueue(p, e) PROVE OnceInv'
  <2>1. e \notin Elements(acceptedLog) /\ \A q \in Producers : request[q] # e
    BY <1>4 DEF Enqueue, Fresh
  <2>2. CASE Refuse(p, e)
    BY <2>2, <1>3
  <2>3. CASE Push(p, e)
    BY <2>1, <2>3, PushOnce
  <2>4. CASE Block(p, e)
    <3>1. acceptedLog' = acceptedLog
      BY <2>4 DEF Block, history
    <3>2. \A q \in Producers : request'[q] = IF q = p THEN e ELSE request[q]
      BY <1>1, <2>4 DEF Block
    <3>3. QED
      BY <2>1, <3>1, <3>2 DEF OnceInv
  <2>5. QED
    BY <1>4, <2>2, <2>3, <2>4 DEF Enqueue
<1>5. ASSUME NEW p \in Producers, Resume(p) PROVE OnceInv'
  <2>1. request[p] # NoEvent /\ request[p] \in Events
    BY <1>1, <1>5 DEF Resume
  <2>2. CASE Refuse(p, request[p])
    BY <2>2, <1>3
  <2>3. CASE Push(p, request[p])
    BY <2>1, <2>3, PushOnce DEF OnceInv
  <2>4. CASE UNCHANGED <<request, history>>
    BY <2>4, <1>2 DEF history
  <2>5. QED
    BY <1>5, <2>2, <2>3, <2>4 DEF Resume
<1>6. ASSUME NEW p \in Producers, SpuriousWake(p) PROVE OnceInv'
  BY <1>6, <1>2 DEF SpuriousWake, history
<1>7. CASE WorkerStep \/ WorkerSpuriousWake
  BY <1>7, <1>2 DEF WorkerStep, WorkerSpuriousWake, WorkerWait, WorkerExit, Pop,
     WriteV2, WriteV3, FailV2, FailV3, CountWritten, CountFailure,
     CountRejection, AppendLedger, FailLedger, history
<1>8. CASE BeginStop \/ FinishStop \/ Terminated \/ UNCHANGED vars
  BY <1>8, <1>2 DEF BeginStop, FinishStop, Terminated, vars, threads, history
<1>9. QED
  BY <1>4, <1>5, <1>6, <1>7, <1>8 DEF Next

(* A producer that sleeps is woken by the close. *)
LEMMA SleepStep ==
    ASSUME SleepInv, [Next]_vars
    PROVE  SleepInv'
<1>1. ASSUME notFull' \subseteq notFull, UNCHANGED accepting PROVE SleepInv'
  BY <1>1 DEF SleepInv
<1>2. ASSUME NEW p \in Producers, NEW e, Push(p, e) \/ Refuse(p, e)
      PROVE  SleepInv'
  BY <1>2, <1>1 DEF Push, Refuse, fields
<1>3. ASSUME NEW p \in Producers, NEW e \in Events, Enqueue(p, e)
      PROVE  SleepInv'
  <2>1. CASE CanPush /\ Block(p, e)
    BY <2>1 DEF CanPush, Block, SleepInv
  <2>2. QED
    BY <1>2, <1>3, <2>1 DEF Enqueue
<1>4. ASSUME NEW p \in Producers, Resume(p) PROVE SleepInv'
  <2>1. CASE CanPush /\ UNCHANGED fields
    BY <2>1 DEF CanPush, fields, SleepInv
  <2>2. QED
    BY <1>2, <1>4, <2>1 DEF Resume
<1>5. ASSUME NEW p \in Producers, SpuriousWake(p) PROVE SleepInv'
  BY <1>5, <1>1 DEF SpuriousWake, fields
<1>6. CASE Pop
  BY <1>6, <1>1 DEF Pop, NotifyOneProducer
<1>7. CASE (WorkerStep /\ ~Pop) \/ WorkerSpuriousWake
  BY <1>7, <1>1 DEF WorkerStep, WorkerSpuriousWake, WorkerWait, WorkerExit,
     WriteV2, WriteV3, FailV2, FailV3, CountWritten, CountFailure,
     CountRejection, AppendLedger, FailLedger, fields
<1>8. CASE BeginStop
  BY <1>8 DEF BeginStop, SleepInv
<1>9. CASE FinishStop \/ Terminated \/ UNCHANGED vars
  BY <1>9, <1>1 DEF FinishStop, Terminated, vars, fields, threads
<1>10. QED
  BY <1>3, <1>4, <1>5, <1>6, <1>7, <1>8, <1>9 DEF Next, WorkerStep

-----------------------------------------------------------------------------
(* Files. *)

\* What the steps of the worker have to preserve.
ReportsInv == FilesAgree /\ StageInv /\ SilenceInv /\ HandledInv

(* A step that leaves the files and the job alone, and moves the worker at   *)
(* most between waiting and looking for a job, preserves the reports.        *)
LEMMA QuietFiles ==
    ASSUME ReportsInv,
           UNCHANGED <<csv, jsonl, ledger, failureMessage, terminalFailure>>,
           UNCHANGED <<acceptedLog, stage, job>>,
           Handled' = Handled,
           \/ worker' = worker
           \/ worker \in {"loop", "waiting"} /\ worker' \in {"loop", "waiting", "exited"}
    PROVE  ReportsInv'
<1>1. FilesAgree' /\ SilenceInv'
  BY DEF ReportsInv, FilesAgree, SilenceInv
<1>2. StageInv'
  BY DEF ReportsInv, StageInv
<1>3. HandledInv'
  BY DEF ReportsInv, HandledInv, Located
<1>4. QED
  BY <1>1, <1>2, <1>3 DEF ReportsInv

(* Accepting one more event preserves the reports. *)
LEMMA PushFiles ==
    ASSUME TypeOK, QueueInv, ReportsInv,
           NEW p \in Producers, NEW e \in Events, Push(p, e)
    PROVE  ReportsInv'
<1>1. /\ acceptedLog \in Seq(Events) /\ acceptedLog' = Append(acceptedLog, e)
      /\ UNCHANGED <<csv, jsonl, ledger, failureMessage, terminalFailure>>
      /\ UNCHANGED <<stage, job>>
      /\ worker' = worker \/ (worker = "waiting" /\ worker' = "loop")
  BY DEF TypeOK, Push, WakeWorker, files
<1>2. stats'.written = stats.written /\ stats'.failed = stats.failed
  BY DEF TypeOK, StatsType, Push
<1>3. Handled' = Handled /\ Handled \in Nat /\ Handled <= Len(acceptedLog)
  BY <1>2, Numbers DEF Handled
<1>4. \A i \in 1..Handled : acceptedLog'[i] = acceptedLog[i]
  BY <1>1, <1>3
<1>5. Elements(acceptedLog) \subseteq Elements(acceptedLog')
  BY <1>1, ElementsOfAppend
<1>6. FilesAgree' /\ SilenceInv'
  BY <1>1, <1>5 DEF ReportsInv, FilesAgree, SilenceInv
<1>7. StageInv'
  <2>1. Handled > 0 => acceptedLog'[Handled] = acceptedLog[Handled]
    BY <1>3, <1>4
  <2>2. QED
    BY <2>1, <1>1, <1>3 DEF ReportsInv, StageInv
<1>8. HandledInv'
  BY <1>1, <1>3, <1>4 DEF ReportsInv, HandledInv, Located
<1>9. QED
  BY <1>6, <1>7, <1>8 DEF ReportsInv

(* An event the worker pops after the failure has no row: the v2 report is a *)
(* prefix of the accepted events that ends before it.                        *)
LEMMA PopFiles ==
    ASSUME TypeOK, QueueInv, OnceInv, ReportsInv, Pop
    PROVE  ReportsInv'
<1>1. /\ worker = "loop"
      /\ worker' = IF terminalFailure THEN "rejecting" ELSE "v2"
      /\ stage' = IF terminalFailure THEN "terminal_rejected" ELSE "v2"
      /\ UNCHANGED <<csv, jsonl, ledger, failureMessage, terminalFailure>>
      /\ UNCHANGED acceptedLog
  BY DEF Pop, Disposition, files, history
<1>2. Handled' = Handled
  BY DEF TypeOK, StatsType, Pop, Handled
<1>3. FilesAgree' /\ SilenceInv'
  BY <1>1 DEF ReportsInv, FilesAgree, SilenceInv
<1>4. HandledInv'
  BY <1>1, <1>2 DEF ReportsInv, HandledInv, Located
<1>5. ASSUME terminalFailure PROVE job' \notin Elements(csv)
  <2>1. job' = jobs[1] /\ Len(jobs) >= 1
    BY DEF Pop, TypeOK
  <2>2. InHand = 0
    BY <1>1 DEF InHand, Uncounted
  <2>3. jobs[1] = acceptedLog[Handled + InHand + 1]
    BY <2>1, Numbers DEF QueueInv, BacklogInOrder
  <2>4. job' = acceptedLog[Handled + 1] /\ Handled + 1 <= Len(acceptedLog)
    BY <2>1, <2>2, <2>3, Numbers
  <2>5. stats.failed > 0 /\ Len(csv) <= stats.written + 1
    BY <1>5 DEF QueueInv, WorkerInv, ReportIsPrefix
  <2>6. Len(csv) < Handled + 1
    BY <2>5, Numbers
  <2>7. ASSUME NEW i \in 1..Len(csv) PROVE csv[i] # job'
    <3>1. csv[i] = acceptedLog[i]
      BY DEF QueueInv, ReportIsPrefix
    <3>2. /\ i \in 1..Len(acceptedLog) /\ Handled + 1 \in 1..Len(acceptedLog)
          /\ i # Handled + 1
      BY <2>4, <2>6, Numbers
    <3>3. QED
      BY <3>1, <3>2, <2>4 DEF OnceInv
  <2>8. QED
    BY <2>7, ElementsOfSeq DEF TypeOK
<1>6. StageInv'
  BY <1>1, <1>5 DEF StageInv
<1>7. QED
  BY <1>3, <1>4, <1>6 DEF ReportsInv

(* The v2 stage: nothing was reported as failed before it. *)
LEMMA V2Files ==
    ASSUME TypeOK, QueueInv, ReportsInv, WriteV2 \/ FailV2
    PROVE  ReportsInv'
<1>1. /\ worker = "v2" /\ worker' \in {"v3", "written", "failed"}
      /\ csv' = csv \/ csv' = Append(csv, job)
      /\ worker' # "failed" => csv' = Append(csv, job)
      /\ stage' = IF worker' = "v3" THEN "v3" ELSE stage
      /\ UNCHANGED <<jsonl, ledger, failureMessage, terminalFailure, stats>>
      /\ UNCHANGED <<acceptedLog, job>>
  BY DEF WriteV2, FailV2, fields, history
<1>2. ~terminalFailure /\ stage = "v2" /\ job \in Events /\ csv \in Seq(Events)
  BY <1>1 DEF QueueInv, WorkerInv, ReportsInv, StageInv, TypeOK, Uncounted
<1>3. /\ Elements(csv) \subseteq Elements(csv')
      /\ worker' # "failed" => job \in Elements(csv')
  <2>1. Elements(Append(csv, job)) = Elements(csv) \cup {job}
    BY <1>2, ElementsOfAppend
  <2>2. QED
    BY <2>1, <1>1
<1>4. Elements(ledger) = {} /\ failureMessage = {}
  BY <1>2 DEF ReportsInv, SilenceInv
<1>5. FilesAgree' /\ SilenceInv'
  BY <1>1, <1>3, <1>4 DEF ReportsInv, FilesAgree, SilenceInv
<1>6. StageInv'
  BY <1>1, <1>2, <1>3 DEF StageInv
<1>7. HandledInv'
  <2>1. Handled' = Handled
    BY <1>1 DEF Handled
  <2>2. QED
    BY <2>1, <1>1, <1>3 DEF ReportsInv, HandledInv, Located
<1>8. QED
  BY <1>5, <1>6, <1>7 DEF ReportsInv

(* The v3 stage: the v2 row is there. *)
LEMMA V3Files ==
    ASSUME TypeOK, ReportsInv, WriteV3 \/ FailV3
    PROVE  ReportsInv'
<1>1. /\ worker = "v3" /\ worker' \in {"written", "failed"}
      /\ jsonl' = jsonl \/ jsonl' = Append(jsonl, job)
      /\ UNCHANGED <<csv, ledger, failureMessage, terminalFailure, stats>>
      /\ UNCHANGED <<stage, acceptedLog, job>>
  BY DEF WriteV3, FailV3, fields, history
<1>2. /\ stage = "v3" /\ job \in Elements(csv)
      /\ job \in Events /\ jsonl \in Seq(Events)
  BY <1>1 DEF ReportsInv, StageInv, TypeOK, Uncounted
<1>3. Elements(jsonl') \subseteq Elements(jsonl) \cup {job}
  <2>1. Elements(Append(jsonl, job)) = Elements(jsonl) \cup {job}
    BY <1>2, ElementsOfAppend
  <2>2. QED
    BY <2>1, <1>1
<1>4. FilesAgree' /\ SilenceInv'
  BY <1>1, <1>2, <1>3 DEF ReportsInv, FilesAgree, SilenceInv
<1>5. StageInv'
  BY <1>1, <1>2 DEF StageInv
<1>6. HandledInv'
  <2>1. Handled' = Handled
    BY <1>1 DEF Handled
  <2>2. QED
    BY <2>1, <1>1 DEF ReportsInv, HandledInv, Located
<1>7. QED
  BY <1>4, <1>5, <1>6 DEF ReportsInv

(* A success is counted: the row of the event is the last one. *)
LEMMA WrittenFiles ==
    ASSUME TypeOK, QueueInv, ReportsInv, CountWritten
    PROVE  ReportsInv'
<1>1. /\ worker = "written" /\ worker' = "loop"
      /\ UNCHANGED <<csv, jsonl, ledger, failureMessage, terminalFailure>>
      /\ UNCHANGED <<stage, acceptedLog>>
  BY DEF CountWritten, files, history
<1>2. stats'.written = stats.written + 1 /\ stats'.failed = stats.failed
  BY DEF TypeOK, StatsType, CountWritten
<1>3. /\ ~terminalFailure /\ stats.failed = 0 /\ Len(csv) = stats.written + 1
      /\ \A i \in 1..Len(csv) : csv[i] = acceptedLog[i]
  BY <1>1, Numbers DEF QueueInv, WorkerInv, ReportIsPrefix
<1>4. Handled' = Handled + 1 /\ Len(csv) = Handled + 1 /\ Handled \in Nat
  BY <1>2, <1>3, Numbers DEF Handled
<1>5. \A i \in 1..Handled' : acceptedLog[i] \in Elements(csv)
  BY <1>3, <1>4, ElementsOfSeq DEF TypeOK
<1>6. FilesAgree' /\ SilenceInv'
  BY <1>1 DEF ReportsInv, FilesAgree, SilenceInv
<1>7. StageInv'
  BY <1>1 DEF StageInv
<1>8. HandledInv'
  BY <1>1, <1>5 DEF HandledInv, Located
<1>9. QED
  BY <1>6, <1>7, <1>8 DEF ReportsInv

(* A failure or a rejection is counted: its line is the next thing to do.   *)
LEMMA FailedFiles ==
    ASSUME TypeOK, QueueInv, ReportsInv, CountFailure \/ CountRejection
    PROVE  ReportsInv'
<1>1. /\ worker \in {"failed", "rejecting"} /\ worker' = "ledger"
      /\ terminalFailure'
      /\ failureMessage \subseteq failureMessage' \/ failureMessage' = {"write"}
      /\ UNCHANGED <<csv, jsonl, ledger, stage, job, acceptedLog>>
  BY DEF CountFailure, CountRejection, files, history, QueueInv, WorkerInv
<1>2. stats'.written = stats.written /\ stats'.failed = stats.failed + 1
  BY DEF TypeOK, StatsType, CountFailure, CountRejection
<1>3. Handled' = Handled + 1 /\ Handled \in Nat
  BY <1>2, Numbers DEF Handled
<1>4. job = acceptedLog[Handled + 1]
  BY <1>1 DEF QueueInv, BacklogInOrder, Uncounted
<1>5. "ledger" \in failureMessage => "ledger" \in failureMessage'
  <2>1. CASE CountFailure
    <3>1. ~terminalFailure
      BY <2>1 DEF CountFailure, QueueInv, WorkerInv
    <3>2. QED
      BY <3>1 DEF ReportsInv, SilenceInv
  <2>2. CASE CountRejection
    BY <2>2 DEF CountRejection
  <2>3. QED
    BY <2>1, <2>2
<1>6. FilesAgree' /\ SilenceInv'
  BY <1>1 DEF ReportsInv, FilesAgree, SilenceInv
<1>7. StageInv'
  <2>1. Handled' > 0 /\ job' = acceptedLog'[Handled']
    BY <1>1, <1>3, <1>4
  <2>2. QED
    BY <2>1, <1>1 DEF ReportsInv, StageInv
<1>8. HandledInv'
  <2>1. ASSUME NEW i \in 1..Handled', i # Handled' PROVE Located(acceptedLog[i])'
    <3>1. i \in 1..Handled /\ worker # "ledger"
      BY <2>1, <1>1, <1>3
    <3>2. QED
      BY <3>1, <1>1, <1>5 DEF ReportsInv, HandledInv, Located
  <2>2. QED
    BY <2>1, <1>1 DEF HandledInv, Located
<1>9. QED
  BY <1>6, <1>7, <1>8 DEF ReportsInv

(* The line of the ledger is written, or the message says that it is not.   *)
LEMMA LedgerFiles ==
    ASSUME TypeOK, QueueInv, ReportsInv, AppendLedger \/ FailLedger
    PROVE  ReportsInv'
<1>1. /\ worker = "ledger" /\ worker' = "loop"
      /\ \/ ledger' = Append(ledger, LedgerLine)
         \/ ledger' = ledger /\ "ledger" \in failureMessage'
      /\ failureMessage \subseteq failureMessage'
      /\ UNCHANGED <<csv, jsonl, terminalFailure, stats, stage, acceptedLog>>
  BY DEF AppendLedger, FailLedger, fields, history
<1>2. /\ terminalFailure /\ Handled > 0 /\ job = acceptedLog[Handled]
      /\ stage = "v3" => job \in Elements(csv)
      /\ stage = "terminal_rejected" => job \notin Elements(csv)
  BY <1>1 DEF QueueInv, WorkerInv, ReportsInv, StageInv
<1>3. /\ LedgerLine \in [event : Events, stage : Stages]
      /\ LedgerLine.event = job /\ LedgerLine.stage = stage
  BY <1>1 DEF TypeOK, LedgerLine, Uncounted
<1>4. job \in Elements(acceptedLog)
  <2>1. acceptedLog \in Seq(Events)
    BY DEF TypeOK
  <2>2. Handled \in 1..Len(acceptedLog)
    BY <1>2, Numbers
  <2>3. QED
    BY <2>1, <2>2, <1>2, ElementsOfSeq
<1>5. Elements(Append(ledger, LedgerLine)) = Elements(ledger) \cup {LedgerLine}
  <2> DEFINE Line == [event : Events, stage : Stages]
  <2>1. ledger \in Seq(Line) /\ LedgerLine \in Line
    BY <1>3 DEF TypeOK
  <2> HIDE DEF Line
  <2>2. QED
    BY <2>1, ElementsOfAppend
<1>6. /\ Elements(ledger) \subseteq Elements(ledger')
      /\ Elements(ledger') \subseteq Elements(ledger) \cup {LedgerLine}
      /\ LedgerLine \in Elements(ledger') \/ "ledger" \in failureMessage'
  BY <1>1, <1>5
<1>7. FilesAgree'
  BY <1>1, <1>2, <1>3, <1>4, <1>6 DEF ReportsInv, FilesAgree
<1>8. SilenceInv' /\ StageInv'
  BY <1>1, <1>2 DEF SilenceInv, StageInv
<1>9. HandledInv'
  <2>1. Handled' = Handled
    BY <1>1 DEF Handled
  <2>2. ASSUME NEW i \in 1..Handled PROVE Located(acceptedLog[i])'
    <3>1. CASE i = Handled
      BY <3>1, <1>1, <1>2, <1>3, <1>6 DEF Located
    <3>2. CASE i # Handled
      BY <3>2, <1>1, <1>6 DEF ReportsInv, HandledInv, Located
    <3>3. QED
      BY <3>1, <3>2
  <2>3. QED
    BY <2>1, <2>2, <1>1 DEF HandledInv, Located
<1>10. QED
  BY <1>7, <1>8, <1>9 DEF ReportsInv

-----------------------------------------------------------------------------
(* The theorems. *)

(* The reports are empty at the start. *)
LEMMA FilesInvInit == Init => FilesInv
<1> SUFFICES ASSUME Init PROVE FilesInv
  OBVIOUS
<1>1. /\ Elements(csv) = {} /\ Elements(jsonl) = {} /\ Elements(ledger) = {}
      /\ Elements(acceptedLog) = {}
  BY DEF Init, Elements
<1>2. OnceInv
  BY <1>1 DEF Init, OnceInv
<1>3. Handled = 0
  BY DEF Init, Handled
<1>4. FilesAgree /\ StageInv /\ SilenceInv /\ SleepInv
  BY <1>1 DEF Init, FilesAgree, StageInv, SilenceInv, SleepInv
<1>5. HandledInv
  BY <1>3 DEF HandledInv
<1>6. QED
  BY <1>2, <1>4, <1>5 DEF FilesInv

(* The counters change only when the worker counts. *)
LEMMA HandledFrame ==
    ASSUME TypeOK, NEW p \in Producers, NEW e,
           Block(p, e) \/ FinishStop \/ UNCHANGED stats
    PROVE  Handled' = Handled
  BY DEF TypeOK, StatsType, Block, FinishStop, Handled

(* Every step preserves the invariant of the files. *)
LEMMA FilesInvStep ==
    ASSUME TypeOK, QueueInv, FilesInv, [Next]_vars
    PROVE  FilesInv'
<1>1. OnceInv' /\ SleepInv'
  BY OnceStep, SleepStep DEF FilesInv
<1>2. ReportsInv /\ OnceInv
  BY DEF FilesInv, ReportsInv
<1>3. request \in [Producers -> Events \cup {NoEvent}]
  BY DEF TypeOK
<1>4. ASSUME NEW p \in Producers, NEW e \in Events, Refuse(p, e) \/ Block(p, e)
      PROVE  ReportsInv'
  <2>1. Handled' = Handled
    BY <1>4, HandledFrame DEF Refuse, fields
  <2>2. QED
    BY <2>1, <1>2, <1>4, QuietFiles DEF Refuse, Block, fields, files, history
<1>5. ASSUME NEW p \in Producers, NEW e \in Events, Enqueue(p, e)
      PROVE  ReportsInv'
  BY <1>2, <1>4, <1>5, PushFiles DEF Enqueue
<1>6. ASSUME UNCHANGED <<fields, files, history, stage, job, worker>>
      PROVE  ReportsInv'
  <2>1. Handled' = Handled
    BY <1>6 DEF fields, Handled
  <2>2. QED
    BY <2>1, <1>2, <1>6, QuietFiles DEF fields, files, history
<1>7. ASSUME NEW p \in Producers, Resume(p) PROVE ReportsInv'
  <2>1. request[p] \in Events
    BY <1>3, <1>7 DEF Resume
  <2>2. CASE Refuse(p, request[p]) \/ Push(p, request[p])
    BY <2>1, <2>2, <1>2, <1>4, PushFiles
  <2>3. QED
    BY <2>2, <1>6, <1>7 DEF Resume
<1>8. ASSUME NEW p \in Producers, SpuriousWake(p) PROVE ReportsInv'
  BY <1>6, <1>8 DEF SpuriousWake
<1>9. ASSUME WorkerWait \/ WorkerExit \/ WorkerSpuriousWake PROVE ReportsInv'
  <2>1. Handled' = Handled
    BY <1>9 DEF WorkerWait, WorkerExit, WorkerSpuriousWake, fields, Handled
  <2>2. QED
    BY <2>1, <1>2, <1>9, QuietFiles
       DEF WorkerWait, WorkerExit, WorkerSpuriousWake, fields, files, history
<1>10. ASSUME WorkerStep PROVE ReportsInv'
  BY <1>2, <1>9, <1>10, PopFiles, V2Files, V3Files, WrittenFiles, FailedFiles,
     LedgerFiles DEF WorkerStep
<1>11. ASSUME BeginStop \/ FinishStop PROVE ReportsInv'
  <2>1. Handled' = Handled
    BY <1>11 DEF BeginStop, FinishStop, TypeOK, StatsType, Handled
  <2>2. QED
    BY <2>1, <1>2, <1>11, QuietFiles
       DEF BeginStop, WakeWorker, FinishStop, threads, files, history
<1>12. ASSUME Terminated \/ UNCHANGED vars PROVE ReportsInv'
  BY <1>6, <1>12 DEF Terminated, vars, threads
<1>13. QED
  <2>1. ReportsInv'
    BY <1>5, <1>7, <1>8, <1>9, <1>10, <1>11, <1>12 DEF Next
  <2>2. QED
    BY <2>1, <1>1 DEF FilesInv, ReportsInv

(* The invariant of the files. *)
LEMMA FilesCorrect == Spec => []FilesInv
<1>1. TypeOK /\ QueueInv /\ FilesInv /\ [Next]_vars => FilesInv'
  BY FilesInvStep
<1>2. QED
  BY <1>1, FilesInvInit, TypeCorrect, QueueCorrect, PTL DEF Spec

(* The v3 report stays within the v2 report, and every line of the failure  *)
(* ledger says what happened on disk: runWriterWorker's stages.             *)
THEOREM ReportsAgree == Spec => []FilesAgree
<1>1. FilesInv => FilesAgree
  BY DEF FilesInv
<1>2. QED
  BY <1>1, FilesCorrect, PTL

(* When drainAndStop has returned, every accepted event was counted, nobody *)
(* is blocked, and each one is in the v2 report or in the ledger, or the    *)
(* failure message says that the ledger is incomplete.                      *)
THEOREM DrainIsComplete == Spec => []DrainAccountsForAll
<1>1. TypeOK /\ QueueInv /\ FilesInv => DrainAccountsForAll
  <2> SUFFICES ASSUME TypeOK, QueueInv, FilesInv, stopped
               PROVE  /\ stats.accepted = stats.written + stats.failed
                      /\ notFull = {}
                      /\ stats.failed > 0 <=> terminalFailure
                      /\ \A e \in Elements(acceptedLog) : Located(e)
    BY DEF DrainAccountsForAll, Located
  <2>1. worker = "exited" /\ jobs = <<>> /\ ~accepting
    BY DEF QueueInv, CloseInv
  <2>2. Len(jobs) = 0 /\ InHand = 0
    BY <2>1 DEF InHand, Uncounted
  <2>3. Len(acceptedLog) = Handled
    BY <2>2, Numbers
  <2>4. stats.accepted = stats.written + stats.failed
    BY <2>3 DEF QueueInv, Accounting, Handled
  <2>5. notFull = {} /\ (stats.failed > 0 <=> terminalFailure)
    BY <2>1 DEF FilesInv, SleepInv, QueueInv, WorkerInv
  <2>6. ASSUME NEW e \in Elements(acceptedLog) PROVE Located(e)
    <3>1. PICK i \in 1..Len(acceptedLog) : e = acceptedLog[i]
      BY ElementsOfSeq DEF TypeOK
    <3>2. QED
      BY <3>1, <2>1, <2>3 DEF FilesInv, HandledInv
  <2>7. QED
    BY <2>4, <2>5, <2>6
<1>2. QED
  BY <1>1, TypeCorrect, QueueCorrect, FilesCorrect, PTL
===============================================================================
