----------------------- MODULE LatestFrameCaptureProofs -----------------------
(***************************************************************************)
(* What LatestFrameCapture guarantees to the monitor loop for any sources, *)
(* any backoff delays and any number of frames and restarts; and what the  *)
(* readers of any number of cameras, with any transports, get out of the   *)
(* one environment variable they share.                                    *)
(***************************************************************************)
EXTENDS LatestFrameCapture, CaptureTransport, FiniteSetTheorems, TLAPS

\* The steps of the reader thread that put no frame into the slot and do not
\* end the capture, by what they change of the slot: nothing, or the error.
Silent == QuietSlot \/ \E e \in Errors : Report(e)

\* The reader's positions while it works.
Working == {"begin", "top", "connecting", "reading", "inRead", "retry",
            "backoff", "ending"}

-----------------------------------------------------------------------------
(* Types. *)

(* The sequences of opens of one attempt. *)
LEMMA ShortSequences ==
    ASSUME NEW S, NEW a \in S, NEW b \in S
    PROVE  /\ <<>> \in Seq(S) /\ <<a>> \in Seq(S) /\ <<a, b>> \in Seq(S)
           /\ \A s \in Seq(S) : \A n \in DOMAIN s : SubSeq(s, 1, n) \in Seq(S)
  OBVIOUS

\* The calls of capture.open.
Opens == {"parameters", "software", "simple"}

(* The opens of an attempt, all of them or those up to the first success.   *)
LEMMA OpenCallsType ==
    /\ <<>> \in Seq(Opens)
    /\ OpenCalls \in Seq(Opens)
    /\ \A n \in DOMAIN OpenCalls : SubSeq(OpenCalls, 1, n) \in Seq(Opens)
<1>1. "parameters" \in Opens /\ "software" \in Opens /\ "simple" \in Opens
  BY DEF Opens
<1>2. OpenCalls \in Seq(Opens)
  BY <1>1, ShortSequences DEF OpenCalls
<1>3. QED
  BY <1>1, <1>2, ShortSequences

(* A frame is added to the history. *)
LEMMA PublishType ==
    ASSUME TypeOK, Publish
    PROVE  /\ published' \in Seq(Nat) /\ latest' \in Nat /\ sequence' \in Nat
           /\ ended' = ended /\ error' = "none"
<1>1. published \in Seq(Nat) /\ runs \in Nat /\ sequence \in Nat
  BY DEF TypeOK
<1>2. QED
  BY <1>1 DEF Publish

(* Every step keeps the types; the delay stays between its bounds because a *)
(* doubled delay is cut at the maximum.                                     *)
LEMMA CaptureTypeStep == TypeOK /\ [Next]_vars => TypeOK'
<1> SUFFICES ASSUME TypeOK, [Next]_vars PROVE TypeOK'
  OBVIOUS
<1> USE DEF TypeOK
<1>1. /\ BaseDelay \in Nat /\ MaxDelay \in Nat /\ BaseDelay <= MaxDelay
      /\ RetryBound \in Nat
  BY CaptureAssumption
<1>2. ASSUME NEW position \in ReaderPositions, Goto(position),
             Publish \/ Silent
      PROVE  TypeOK'
  <2>1. CASE Publish
    BY <2>1, <1>2, PublishType DEF Goto, monitorVars, Errors
  <2>2. CASE Silent
    BY <2>2, <1>2 DEF Goto, Silent, QuietSlot, Report, slot, monitorVars, Errors
  <2>3. QED
    BY <1>2, <2>1, <2>2
<1>3. CASE ReadImage
  BY <1>2, <1>3 DEF ReadImage, Silent, Errors, ReaderPositions
<1>4. CASE Begin
  BY <1>1, <1>4 DEF Begin, QuietSlot, slot, monitorVars, ReaderPositions
<1>5. CASE LoopHead \/ Retry
  BY <1>2, <1>5 DEF LoopHead, Retry, Silent, ReaderPositions
<1>6. /\ <<>> \in Seq(Opens) /\ OpenCalls \in Seq(Opens)
      /\ \A n \in DOMAIN OpenCalls : SubSeq(OpenCalls, 1, n) \in Seq(Opens)
  BY OpenCallsType
<1>7. CASE SkipOpen \/ OpenFails
  <2>1. tried' \in Seq(Opens)
    BY <1>6, <1>7 DEF SkipOpen, OpenFails
  <2>2. QED
    BY <2>1, <1>7 DEF SkipOpen, OpenFails, Report, monitorVars, ReaderPositions,
       Errors, Opens
<1>8. CASE OpenSucceeds
  <2>1. tried' \in Seq(Opens)
    BY <1>6, <1>8 DEF OpenSucceeds
  <2>2. QED
    BY <2>1, <1>1, <1>8
       DEF OpenSucceeds, QuietSlot, slot, monitorVars, ReaderPositions, Opens
<1>9. CASE ReadHead \/ ReadFrame \/ ReadFails
  BY <1>2, <1>9 DEF ReadHead, ReadFrame, ReadFails, Disconnect, Silent, Errors,
     ReaderPositions
<1>10. CASE LeaveBackoff
  <2>1. Smaller(2 * delay, MaxDelay) \in BaseDelay..MaxDelay
    BY <1>1 DEF Smaller
  <2>2. Smaller(retries + 1, RetryBound) \in Nat
    BY <1>1 DEF Smaller
  <2>3. QED
    BY <2>1, <2>2, <1>10
       DEF LeaveBackoff, QuietSlot, slot, monitorVars, ReaderPositions
<1>11. CASE SetEnded \/ Throw
  BY <1>11 DEF SetEnded, Throw, Goto, monitorVars, ReaderPositions, Errors
<1>12. CASE Start
  <2>1. /\ latest' = 0 /\ sequence' = 0 /\ seen' = 0
        /\ ended' = FALSE /\ stopRequested' = FALSE /\ exhausted' = FALSE
    BY <1>12 DEF Start
  <2>5. runs \in Nat /\ runs' = runs + 1
    BY <1>12 DEF Start
  <2>6. runs' \in Nat
    BY <2>5
  <2>2. /\ error' \in Errors /\ reader' \in ReaderPositions
        /\ monitor' \in MonitorPositions
    BY <1>12 DEF Start, Errors, ReaderPositions, MonitorPositions
  <2>3. UNCHANGED <<source, delay, tried, anyRunning, drops, published,
                    delivered, retries>>
    BY <1>12 DEF Start
  <2>4. QED
    BY <2>1, <2>2, <2>3, <2>6
<1>13. CASE RequestStop \/ Join
  BY <1>13 DEF RequestStop, Join, slot, ReaderPositions, MonitorPositions
<1>14. CASE Check \/ WaitInVain \/ Decide \/ Leave
  BY <1>14 DEF Check, WaitInVain, Decide, Leave, MonitorOnly, slot, readerVars,
     MonitorPositions
<1>15. CASE Receive
  <2>1. Gap \in Nat
    BY DEF Gap
  <2>2. QED
    BY <2>1, <1>15 DEF Receive, MonitorOnly, slot, readerVars, MonitorPositions
<1>16. CASE Terminated \/ UNCHANGED vars
  BY <1>16 DEF Terminated, vars, slot, readerVars, monitorVars
<1>17. QED
  BY <1>3, <1>4, <1>5, <1>7, <1>8, <1>9, <1>10, <1>11, <1>12, <1>13, <1>14,
     <1>15, <1>16
     DEF Next, ReaderStep, MonitorStep, BackoffExpires, StopEndsBackoff

(* In every reachable state the slot, the threads and the history have their *)
(* types, and the backoff delay is between its configured bounds.            *)
THEOREM CaptureTypeCorrect == Spec => []TypeOK
<1>1. Init => TypeOK
  <2> SUFFICES ASSUME Init PROVE TypeOK
    OBVIOUS
  <2>1. tried \in Seq(Opens) /\ published \in Seq(Nat)
    BY OpenCallsType DEF Init
  <2>2. delay \in BaseDelay..MaxDelay
    BY CaptureAssumption DEF Init
  <2>3. /\ error \in Errors /\ reader \in ReaderPositions
        /\ monitor \in MonitorPositions
    BY DEF Init, Errors, ReaderPositions, MonitorPositions
  <2>4. QED
    BY <2>1, <2>2, <2>3 DEF Init, TypeOK, Opens
<1>2. QED
  BY <1>1, CaptureTypeStep, PTL DEF Spec

-----------------------------------------------------------------------------
(* What the reader thread does, seen from the slot. *)

\* What no step of the reader changes.
OthersKept == UNCHANGED <<source, stopRequested, monitorVars, runs>>

\* It goes on without touching the frame in the slot; a camera's reader goes
\* to its end only because it was stopped.
Works ==
    /\ reader \in Working /\ reader' \in Working
    /\ UNCHANGED <<latest, sequence, ended, published>>
    /\ reader' = "ending" /\ IsRtsp => stopRequested
    /\ OthersKept

\* It puts a frame into the slot.
Publishes ==
    /\ reader \in Working /\ reader' \in Working
    /\ Publish
    /\ reader' = "ending" => ~IsRtsp
    /\ OthersKept

\* It ends, at the end of its loop or because it threw.
Ends ==
    /\ reader \in Working /\ reader' = "returned"
    /\ ended' = TRUE
    /\ (reader = "ending" /\ error' = error) \/ error' = "exception"
    /\ UNCHANGED <<latest, sequence, published>>
    /\ OthersKept

(* Every step of the reader, and the passing of a deadline, is one of these. *)
LEMMA ReaderCases ==
    ASSUME ReaderStep \/ BackoffExpires
    PROVE  Works \/ Publishes \/ Ends
<1> USE DEF Working, OthersKept
<1>1. CASE ReadImage
  <2>1. ~IsRtsp
    BY <1>1 DEF ReadImage, IsRtsp
  <2>2. QED
    BY <2>1, <1>1 DEF ReadImage, Goto, Report, Works, Publishes
<1>2. CASE Begin \/ LoopHead \/ Retry
  BY <1>2 DEF Begin, LoopHead, Retry, Goto, QuietSlot, slot, Works
<1>3. CASE SkipOpen \/ OpenFails \/ OpenSucceeds
  BY <1>3 DEF SkipOpen, OpenFails, OpenSucceeds, Report, QuietSlot, slot, Works
<1>4. ASSUME reader \in {"reading", "inRead"}, Disconnect PROVE Works
  BY <1>4 DEF Disconnect, Report, Goto, QuietSlot, slot, Works
<1>5. CASE ReadHead
  BY <1>4, <1>5 DEF ReadHead, Goto, QuietSlot, slot, Works
<1>6. CASE ReadFrame
  BY <1>6 DEF ReadFrame, Goto, Publishes
<1>7. CASE ReadFails
  BY <1>4, <1>7 DEF ReadFails
<1>8. CASE LeaveBackoff
  BY <1>8 DEF LeaveBackoff, QuietSlot, slot, Works
<1>9. CASE SetEnded \/ Throw
  BY <1>9 DEF SetEnded, Throw, Goto, Ends
<1>10. QED
  BY <1>1, <1>2, <1>3, <1>5, <1>6, <1>7, <1>8, <1>9
     DEF ReaderStep, BackoffExpires, StopEndsBackoff

-----------------------------------------------------------------------------
(* The last frame. *)

\* The lives of the two threads, and what the monitor knows at each point of
\* its loop: when it saw that the capture had ended, nothing newer can come.
LifeInv ==
    /\ monitor = "idle" <=> reader = "none"
    /\ ended => reader \in {"returned", "none"}
    /\ reader = "returned" => ended
    /\ monitor \in {"wait", "decide"} /\ ~anyRunning => ended
    /\ monitor = "decide" /\ ~anyRunning => seen = sequence
    /\ exhausted => /\ monitor \in {"stop", "joining", "idle"}
                    /\ ended /\ seen = sequence

\* The monitor is never ahead of the slot; when it is level with it, it was
\* given the frame in it.
SeenInv ==
    /\ seen <= sequence
    /\ seen = sequence /\ sequence > 0 => latest \in delivered

(* The two threads keep LifeInv and SeenInv, whatever their interleaving.   *)
LEMMA DeliveryStep ==
    ASSUME TypeOK, LifeInv, SeenInv, [Next]_vars
    PROVE  LifeInv' /\ SeenInv'
<1>1. seen \in Nat /\ sequence \in Nat
  BY DEF TypeOK
<1>2. CASE Works
  BY <1>2 DEF Works, OthersKept, monitorVars, Working, LifeInv, SeenInv
<1>3. CASE Publishes
  <2>1. ~ended /\ sequence' = sequence + 1 /\ ended' = ended
    BY <1>3 DEF Publishes, Publish, Working, LifeInv
  <2>2. UNCHANGED <<monitor, anyRunning, seen, exhausted, delivered>>
    BY <1>3 DEF Publishes, OthersKept, monitorVars
  <2>3. reader \in Working /\ reader' \in Working
    BY <1>3 DEF Publishes
  <2>4. LifeInv'
    BY <2>1, <2>2, <2>3 DEF LifeInv, Working
  <2>5. SeenInv'
    BY <1>1, <2>1, <2>2 DEF SeenInv
  <2>6. QED
    BY <2>4, <2>5
<1>4. CASE Ends
  BY <1>4 DEF Ends, OthersKept, monitorVars, Working, LifeInv, SeenInv
<1>5. CASE Start
  BY <1>5 DEF Start, LifeInv, SeenInv
<1>6. CASE RequestStop \/ Join
  BY <1>6 DEF RequestStop, Join, slot, LifeInv, SeenInv
<1>7. CASE Check
  <2>1. ended \in BOOLEAN
    BY DEF TypeOK
  <2>2. ~anyRunning' => ended
    BY <2>1, <1>7 DEF Check
  <2>3. QED
    BY <2>2, <1>7 DEF Check, MonitorOnly, slot, readerVars, LifeInv, SeenInv
<1>8. CASE WaitInVain
  BY <1>8 DEF WaitInVain, MonitorOnly, slot, readerVars, LifeInv, SeenInv
<1>9. CASE Receive
  BY <1>1, <1>9 DEF Receive, MonitorOnly, slot, readerVars, LifeInv, SeenInv
<1>10. CASE Decide
  BY <1>10 DEF Decide, MonitorOnly, slot, readerVars, LifeInv, SeenInv, TypeOK
<1>11. CASE Leave
  BY <1>11 DEF Leave, MonitorOnly, slot, readerVars, LifeInv, SeenInv
<1>12. CASE Terminated \/ UNCHANGED vars
  BY <1>12 DEF Terminated, vars, slot, readerVars, monitorVars, LifeInv, SeenInv
<1>13. QED
  BY <1>2, <1>3, <1>4, <1>5, <1>6, <1>7, <1>8, <1>9, <1>10, <1>11, <1>12,
     ReaderCases DEF Next, MonitorStep

(* The lives of the threads and the knowledge of the monitor. *)
LEMMA DeliveryCorrect == Spec => [](LifeInv /\ SeenInv)
<1>1. Init => LifeInv /\ SeenInv
  BY DEF Init, LifeInv, SeenInv
<1>2. TypeOK /\ LifeInv /\ SeenInv /\ [Next]_vars => LifeInv' /\ SeenInv'
  BY DeliveryStep
<1>3. QED
  BY <1>1, <1>2, CaptureTypeCorrect, PTL DEF Spec

(* The monitor that leaves its loop because no capture runs any more has    *)
(* received the last frame, although the frame, the end and the monitor's   *)
(* questions about both come in any order.                                  *)
THEOREM LastFrameArrives == Spec => []LastFrameDelivered
<1>1. LifeInv /\ SeenInv => LastFrameDelivered
  BY DEF LifeInv, SeenInv, LastFrameDelivered
<1>2. QED
  BY <1>1, DeliveryCorrect, PTL

-----------------------------------------------------------------------------
(* Cameras. *)

\* A camera's reader goes to its end, and ends, only when told or by a throw.
CameraInv ==
    /\ RtspNeverGivesUp
    /\ reader = "ending" /\ IsRtsp => stopRequested

(* A camera's capture that has ended was stopped, or its reader threw: no   *)
(* failed preflight, open or read ends it.                                  *)
THEOREM CameraGoesOn == Spec => []RtspNeverGivesUp
<1>1. Init => CameraInv
  BY DEF Init, CameraInv, RtspNeverGivesUp
<1>2. LifeInv /\ CameraInv /\ [Next]_vars => CameraInv'
  <2> SUFFICES ASSUME LifeInv, CameraInv, [Next]_vars PROVE CameraInv'
    OBVIOUS
  <2> USE DEF CameraInv, RtspNeverGivesUp, IsRtsp
  <2>1. CASE Works
    BY <2>1 DEF Works, OthersKept, Working, LifeInv, IsRtsp
  <2>2. CASE Publishes
    BY <2>2 DEF Publishes, OthersKept, Publish, Working, LifeInv
  <2>3. CASE Ends
    BY <2>3 DEF Ends, OthersKept, Working, LifeInv
  <2>4. CASE Start \/ RequestStop \/ Join
    BY <2>4 DEF Start, RequestStop, Join, slot
  <2>5. CASE Check \/ WaitInVain \/ Receive \/ Decide \/ Leave
    BY <2>5 DEF Check, WaitInVain, Receive, Decide, Leave, MonitorOnly, slot,
       readerVars
  <2>6. CASE Terminated \/ UNCHANGED vars
    BY <2>6 DEF Terminated, vars, slot, readerVars
  <2>7. QED
    BY <2>1, <2>2, <2>3, <2>4, <2>5, <2>6, ReaderCases DEF Next, MonitorStep
<1>3. CameraInv => RtspNeverGivesUp
  BY DEF CameraInv
<1>4. QED
  BY <1>1, <1>2, <1>3, DeliveryCorrect, PTL DEF Spec

-----------------------------------------------------------------------------
(* The slot. *)

\* The frames of the history belong to the runs so far.
HistoryInv ==
    /\ \A i \in 1..Len(published) : published[i] <= runs
    /\ latest = IF FramesOf(runs) = {} THEN 0 ELSE Len(published)
    /\ sequence = Cardinality(FramesOf(runs))

(* A published frame is one more frame of the current run, and the newest. *)
LEMMA PublishHistory ==
    ASSUME TypeOK, HistoryInv, Publish, UNCHANGED runs
    PROVE  HistoryInv'
<1> DEFINE n == Len(published)
<1>1. published \in Seq(Nat) /\ runs \in Nat /\ n \in Nat /\ sequence \in Nat
  BY DEF TypeOK
<1>2. /\ published' \in Seq(Nat) /\ Len(published') = n + 1
      /\ DOMAIN published = 1..n /\ DOMAIN published' = 1..(n + 1)
      /\ \A i \in 1..n : published'[i] = published[i]
      /\ published'[n + 1] = runs
      /\ latest' = n + 1 /\ sequence' = sequence + 1 /\ runs' = runs
  BY <1>1 DEF Publish
<1>3. FramesOf(runs)' = FramesOf(runs) \cup {n + 1}
  BY <1>1, <1>2 DEF FramesOf
<1>4. n + 1 \notin FramesOf(runs) /\ FramesOf(runs) \subseteq 1..n
  BY <1>1, <1>2 DEF FramesOf
<1>5. IsFiniteSet(FramesOf(runs))
  <2>1. IsFiniteSet(1..n)
    <3>1. 1 \in Int /\ n \in Int
      BY <1>1
    <3>2. QED
      BY <3>1, FS_Interval
  <2>2. FramesOf(runs) \in SUBSET (1..n)
    BY <1>4
  <2>3. QED
    BY <2>1, <2>2, FS_Subset
<1>6. Cardinality(FramesOf(runs)') = Cardinality(FramesOf(runs)) + 1
  BY <1>3, <1>4, <1>5, FS_AddElement
<1>7. sequence' = Cardinality(FramesOf(runs)')
  <2>1. sequence = Cardinality(FramesOf(runs))
    BY DEF HistoryInv
  <2>2. QED
    BY <2>1, <1>2, <1>6
<1>8. ASSUME NEW i \in 1..Len(published') PROVE published'[i] <= runs'
  <2>1. i \in 1..n \/ i = n + 1
    BY <1>1, <1>2
  <2>2. \A j \in 1..n : published[j] <= runs
    BY DEF HistoryInv
  <2>3. QED
    BY <2>1, <2>2, <1>1, <1>2
<1>9. FramesOf(runs)' # {}
  BY <1>3
<1>10. QED
  <2>1. latest' = Len(published')
    BY <1>2
  <2>2. QED
    BY <2>1, <1>7, <1>8, <1>9 DEF HistoryInv

(* A new run has no frame yet, and the slot is empty. *)
LEMMA StartHistory ==
    ASSUME TypeOK, HistoryInv, Start
    PROVE  HistoryInv'
<1>1. /\ published \in Seq(Nat) /\ runs \in Nat /\ runs' = runs + 1
      /\ UNCHANGED published /\ latest' = 0 /\ sequence' = 0
  BY DEF TypeOK, Start
<1>2. \A i \in 1..Len(published) : published[i] \in Nat /\ published[i] <= runs
  BY <1>1 DEF HistoryInv
<1>3. \A i \in 1..Len(published) : published[i] <= runs + 1 /\ published[i] # runs + 1
  BY <1>1, <1>2
<1>4. FramesOf(runs)' = {}
  BY <1>1, <1>3 DEF FramesOf
<1>5. Cardinality(FramesOf(runs)') = 0
  BY <1>4, FS_EmptySet
<1>6. QED
  BY <1>1, <1>3, <1>4, <1>5 DEF HistoryInv

(* The slot holds the newest frame of the current run and the number of its *)
(* frames, or is empty: nothing of an earlier run is shown or counted.      *)
THEOREM SlotIsFresh == Spec => []SlotIsLatest
<1>1. Init => HistoryInv
  <2> SUFFICES ASSUME Init PROVE HistoryInv
    OBVIOUS
  <2>1. FramesOf(runs) = {}
    BY DEF Init, FramesOf
  <2>2. QED
    BY <2>1, FS_EmptySet DEF Init, HistoryInv
<1>2. TypeOK /\ HistoryInv /\ [Next]_vars => HistoryInv'
  <2> SUFFICES ASSUME TypeOK, HistoryInv, [Next]_vars PROVE HistoryInv'
    OBVIOUS
  <2>1. ASSUME UNCHANGED <<published, runs, latest, sequence>> PROVE HistoryInv'
    BY <2>1 DEF HistoryInv, FramesOf
  <2>2. CASE Works \/ Ends
    BY <2>1, <2>2 DEF Works, Ends, OthersKept
  <2>3. CASE Publishes
    BY <2>3, PublishHistory DEF Publishes, OthersKept
  <2>4. CASE Start
    BY <2>4, StartHistory
  <2>5. CASE MonitorStep \/ Leave
    BY <2>1, <2>5 DEF MonitorStep, Check, WaitInVain, Receive, Decide, Leave,
       RequestStop, Join, MonitorOnly, slot
  <2>6. CASE Terminated \/ UNCHANGED vars
    BY <2>1, <2>6 DEF Terminated, vars, slot
  <2>7. QED
    BY <2>2, <2>3, <2>4, <2>5, <2>6, ReaderCases DEF Next
<1>3. HistoryInv /\ SeenInv => SlotIsLatest
  BY DEF HistoryInv, SeenInv, SlotIsLatest
<1>4. QED
  BY <1>1, <1>2, <1>3, CaptureTypeCorrect, DeliveryCorrect, PTL DEF Spec

-----------------------------------------------------------------------------
(* The dropped frames. *)

\* The frames that were overwritten before the monitor saw them: a later frame
\* of the same run was delivered.
Missed == {i \in DOMAIN published :
             /\ i \notin delivered
             /\ \E j \in delivered : i < j /\ published[i] = published[j]}

\* The frames of the current run are the last ones of the history; of these the
\* monitor has been given the seen-th and none after it.
First == Len(published) - sequence
DropInv ==
    /\ sequence <= Len(published)
    /\ \A i \in 1..Len(published) : published[i] = runs <=> i > First
    /\ latest = IF sequence = 0 THEN 0 ELSE Len(published)
    /\ \A i \in delivered : i \in 1..(First + seen)
    /\ seen > 0 => First + seen \in delivered
    /\ \A i \in 1..Len(published) : published[i] <= runs
    /\ IsFiniteSet(Missed) /\ drops = Cardinality(Missed)

(* A frame is published: nothing that was delivered or missed changes. *)
LEMMA PublishDrops ==
    ASSUME TypeOK, SeenInv, DropInv, Publish, UNCHANGED <<runs, seen, delivered, drops>>
    PROVE  DropInv'
<1> DEFINE n == Len(published)
<1>1. /\ published \in Seq(Nat) /\ runs \in Nat /\ n \in Nat /\ sequence \in Nat
      /\ seen \in Nat /\ seen <= sequence /\ sequence <= n
  BY DEF TypeOK, SeenInv, DropInv
<1>2. /\ published' \in Seq(Nat) /\ Len(published') = n + 1
      /\ DOMAIN published = 1..n /\ DOMAIN published' = 1..(n + 1)
      /\ \A i \in 1..n : published'[i] = published[i]
      /\ published'[n + 1] = runs
      /\ latest' = n + 1 /\ sequence' = sequence + 1
  BY <1>1 DEF Publish
<1>3. First' = First /\ First \in 0..n /\ First + seen \in 0..n
  BY <1>1, <1>2 DEF First
<1>4. delivered \subseteq 1..n
  BY <1>1, <1>3 DEF DropInv
<1>5. Missed' = Missed
  <2>1. ASSUME NEW i PROVE i \in Missed' <=> i \in Missed
    <3>1. CASE i \in 1..n
      BY <1>1, <1>2, <1>4, <3>1 DEF Missed
    <3>2. CASE i = n + 1
      BY <1>1, <1>2, <1>4, <3>2 DEF Missed
    <3>3. CASE i \notin 1..(n + 1)
      BY <1>1, <1>2, <3>3 DEF Missed
    <3>4. QED
      BY <1>1, <3>1, <3>2, <3>3
  <2>2. QED
    BY <2>1
<1>6. \A i \in 1..(n + 1) : (published'[i] = runs <=> i > First) /\ published'[i] <= runs
  <2>1. \A i \in 1..n : (published[i] = runs <=> i > First) /\ published[i] <= runs
    BY DEF DropInv
  <2>2. \A i \in 1..(n + 1) : i \in 1..n \/ i = n + 1
    BY <1>1
  <2>3. n + 1 > First
    BY <1>1, <1>3
  <2>4. QED
    BY <2>1, <2>2, <2>3, <1>1, <1>2
<1>7. /\ sequence' <= Len(published')
      /\ latest' = IF sequence' = 0 THEN 0 ELSE Len(published')
  BY <1>1, <1>2
<1>8. /\ \A i \in delivered' : i \in 1..(First' + seen')
      /\ seen' > 0 => First' + seen' \in delivered'
      /\ IsFiniteSet(Missed') /\ drops' = Cardinality(Missed')
  BY <1>3, <1>5 DEF DropInv
<1>9. \A i \in 1..Len(published') :
         (published'[i] = runs' <=> i > First') /\ published'[i] <= runs'
  BY <1>2, <1>3, <1>6
<1>10. QED
  BY <1>7, <1>8, <1>9 DEF DropInv

(* A new run begins without a frame, and misses none of the run before. *)
LEMMA StartDrops ==
    ASSUME TypeOK, SeenInv, DropInv, Start
    PROVE  DropInv'
<1>1. /\ published \in Seq(Nat) /\ runs \in Nat /\ runs' = runs + 1
      /\ UNCHANGED <<published, delivered, drops>>
      /\ latest' = 0 /\ sequence' = 0 /\ seen' = 0
      /\ seen \in Nat /\ sequence \in Nat /\ seen <= sequence
  BY DEF TypeOK, Start, SeenInv
<1>2. Missed' = Missed
  BY <1>1 DEF Missed
<1>3. First' = Len(published) /\ Len(published) \in Nat
  BY <1>1 DEF First
<1>4. \A i \in 1..Len(published) : published[i] \in Nat /\ published[i] <= runs
  BY <1>1 DEF DropInv
<1>5. \A i \in 1..Len(published) :
         published[i] <= runs + 1 /\ published[i] # runs + 1 /\ ~(i > Len(published))
  BY <1>1, <1>3, <1>4
<1>6. \A i \in delivered : i \in 1..Len(published)
  <2>1. sequence <= Len(published) /\ \A i \in delivered : i \in 1..(First + seen)
    BY DEF DropInv
  <2>2. First \in Nat /\ First + seen \in Nat /\ First + seen <= Len(published)
    BY <1>1, <1>3, <2>1 DEF First
  <2>3. QED
    BY <1>3, <2>1, <2>2
<1>7. QED
  BY <1>1, <1>2, <1>3, <1>5, <1>6 DEF DropInv

(* The frame in the slot is received: the ones between it and the last frame *)
(* received are missed, and Gap is their number.                             *)
LEMMA ReceiveDrops ==
    ASSUME TypeOK, SeenInv, DropInv, Receive
    PROVE  DropInv'
<1> DEFINE n == Len(published)
           Overwritten == (First + seen + 1)..(n - 1)
<1>1. /\ published \in Seq(Nat) /\ runs \in Nat /\ n \in Nat /\ sequence \in Nat
      /\ seen \in Nat /\ seen < sequence /\ sequence <= n /\ DOMAIN published = 1..n
      /\ drops \in Nat
  BY DEF TypeOK, SeenInv, DropInv, Receive
<1>2. /\ UNCHANGED <<published, runs, sequence, latest>>
      /\ seen' = sequence /\ delivered' = delivered \cup {latest} /\ drops' = drops + Gap
  BY DEF Receive, MonitorOnly, slot
<1>3. latest = n /\ First \in Nat /\ First + sequence = n /\ First' = First
  <2>1. latest = n
    <3>1. latest = IF sequence = 0 THEN 0 ELSE Len(published)
      BY DEF DropInv
    <3>2. sequence # 0
      BY <1>1
    <3>3. QED
      BY <3>1, <3>2
  <2>2. First = n - sequence /\ First' = Len(published') - sequence'
    BY DEF First
  <2>3. QED
    BY <1>1, <1>2, <2>1, <2>2
<1>4. /\ \A i \in delivered : i \in 1..(First + seen)
      /\ seen > 0 => First + seen \in delivered
      /\ \A i \in 1..n : published[i] = runs <=> i > First
  BY DEF DropInv
<1>5. ASSUME NEW i \in 1..n PROVE i \in Missed' <=> i \in Missed \cup Overwritten
  <2>1. i \in Missed' <=> /\ i \notin delivered /\ i # n
                         /\ \/ \E j \in delivered : i < j /\ published[i] = published[j]
                            \/ i < n /\ published[i] = published[n]
    BY <1>1, <1>2, <1>3 DEF Missed
  <2>2. i \in Missed <=> /\ i \notin delivered
                        /\ \E j \in delivered : i < j /\ published[i] = published[j]
    BY <1>1 DEF Missed
  <2>3. published[n] = runs /\ n \in 1..n /\ i \in Nat
    BY <1>1, <1>3, <1>4
  <2>4. CASE i = n
    <3>1. i \notin Overwritten
      BY <1>1, <1>3, <2>4
    <3>2. ~(\E j \in delivered : n < j)
      BY <1>1, <1>3, <1>4
    <3>3. QED
      BY <2>1, <2>2, <2>4, <3>1, <3>2
  <2>5. CASE i < n /\ i > First + seen
    <3>1. i \in Overwritten /\ i > First
      BY <1>1, <1>3, <2>3, <2>5
    <3>2. i \notin delivered
      BY <1>1, <1>3, <1>4, <2>3, <2>5
    <3>3. published[i] = published[n]
      BY <3>1, <2>3, <1>4
    <3>4. i < n /\ i # n
      <4>1. i < n
        BY <2>5
      <4>2. i \in Nat /\ n \in Nat
        BY <1>1, <2>3
      <4>3. QED
        BY <4>1, <4>2
    <3>5. QED
      BY <2>1, <3>1, <3>2, <3>3, <3>4
  <2>6. CASE i < n /\ ~(i > First + seen)
    <3>1. i \notin Overwritten /\ i # n
      <4>1. /\ i < n /\ ~(i > First + seen)
            /\ i \in Nat /\ n \in Nat /\ First + seen \in Nat
        BY <1>1, <1>3, <2>3, <2>6
      <4>2. QED
        BY <4>1
    <3>2. CASE i \in delivered \/ published[i] # runs
      BY <2>1, <2>2, <2>3, <3>1, <3>2
    <3>3. CASE i \notin delivered /\ published[i] = runs
      <4>1. i > First
        BY <1>4, <3>3
      <4>2. seen > 0
        BY <1>1, <1>3, <2>3, <2>6, <4>1
      <4>3. First + seen \in delivered
        BY <1>4, <4>2
      <4>4. i # First + seen
        BY <3>3, <4>3
      <4>5. i < First + seen /\ First + seen \in 1..n /\ First + seen > First
        BY <1>1, <1>3, <2>3, <2>6, <4>2, <4>4
      <4>6. published[i] = published[First + seen]
        BY <1>4, <4>5, <3>3
      <4>7. QED
        BY <2>1, <2>2, <3>1, <3>3, <4>3, <4>5, <4>6
    <3>4. QED
      BY <3>2, <3>3
  <2>7. i = n \/ i < n
    <3>1. n \in Nat
      BY <1>1
    <3>2. QED
      BY <3>1
  <2>8. QED
    BY <2>4, <2>5, <2>6, <2>7
<1>6. Missed' = Missed \cup Overwritten
  <2>1. Missed \subseteq 1..n
    BY <1>1 DEF Missed
  <2>2. Missed' \subseteq 1..n
    BY <1>1, <1>2 DEF Missed
  <2>3. Overwritten \subseteq 1..n
    BY <1>1, <1>3
  <2>4. QED
    BY <1>5, <2>1, <2>2, <2>3
<1>7. /\ IsFiniteSet(Overwritten) /\ Cardinality(Overwritten) = Gap /\ Gap \in Nat
  <2>1. First + seen + 1 \in Int /\ n - 1 \in Int
    BY <1>1, <1>3
  <2>2. /\ IsFiniteSet(Overwritten)
        /\ Cardinality(Overwritten) =
             IF First + seen + 1 > n - 1 THEN 0 ELSE (n - 1) - (First + seen + 1) + 1
    BY <2>1, FS_Interval
  <2>3. Gap = IF First + seen + 1 > n - 1 THEN 0 ELSE (n - 1) - (First + seen + 1) + 1
    BY <1>1, <1>3 DEF Gap
  <2>4. Gap \in Nat
    BY <1>1 DEF Gap
  <2>5. QED
    BY <2>2, <2>3, <2>4
<1>8. Missed \cap Overwritten = {}
  <2>1. ASSUME NEW i \in Missed PROVE i \notin Overwritten
    <3>1. PICK j \in delivered : i < j
      BY DEF Missed
    <3>2. i \in 1..n /\ j \in 1..(First + seen)
      BY <1>1, <1>4 DEF Missed
    <3>3. QED
      BY <1>1, <1>3, <3>1, <3>2
  <2>2. QED
    BY <2>1
<1>9. IsFiniteSet(Missed') /\ drops' = Cardinality(Missed')
  <2>1. IsFiniteSet(Missed) /\ drops = Cardinality(Missed)
    BY DEF DropInv
  <2>2. /\ IsFiniteSet(Missed \cup Overwritten)
        /\ Cardinality(Missed \cup Overwritten) =
             Cardinality(Missed) + Cardinality(Overwritten) - Cardinality(Missed \cap Overwritten)
    BY <2>1, <1>7, FS_Union
  <2>3. Cardinality(Missed \cap Overwritten) = 0
    BY <1>8, FS_EmptySet
  <2>4. QED
    BY <2>1, <2>2, <2>3, <1>1, <1>2, <1>6, <1>7
<1>10. \A i \in delivered' : i \in 1..(First + sequence)
  BY <1>1, <1>2, <1>3, <1>4
<1>11. QED
  BY <1>1, <1>2, <1>3, <1>4, <1>9, <1>10 DEF DropInv

(* The telemetry's gap drops are exactly the frames that were overwritten in *)
(* the slot before the monitor saw them, over any number of restarts.        *)
THEOREM DropsAreExact == Spec => []DropsAreCounted
<1>1. Init => DropInv
  <2> SUFFICES ASSUME Init PROVE DropInv
    OBVIOUS
  <2>1. published = <<>> /\ delivered = {} /\ drops = 0 /\ runs = 0
        /\ sequence = 0 /\ seen = 0 /\ latest = 0
    BY DEF Init
  <2>2. Missed = {}
    BY <2>1 DEF Missed
  <2>3. Len(published) = 0 /\ First = 0
    BY <2>1 DEF First
  <2>4. QED
    BY <2>1, <2>2, <2>3, FS_EmptySet DEF DropInv
<1>2. TypeOK /\ SeenInv /\ DropInv /\ [Next]_vars => DropInv'
  <2> SUFFICES ASSUME TypeOK, SeenInv, DropInv, [Next]_vars PROVE DropInv'
    OBVIOUS
  <2>1. ASSUME UNCHANGED <<published, runs, latest, sequence, seen, delivered, drops>>
        PROVE  DropInv'
    BY <2>1 DEF DropInv, Missed, First
  <2>2. CASE Works \/ Ends
    BY <2>1, <2>2 DEF Works, Ends, OthersKept, monitorVars
  <2>3. CASE Publishes
    BY <2>3, PublishDrops DEF Publishes, OthersKept, monitorVars
  <2>4. CASE Start
    BY <2>4, StartDrops
  <2>5. CASE Receive
    BY <2>5, ReceiveDrops
  <2>6. CASE Check \/ WaitInVain \/ Decide \/ Leave \/ RequestStop \/ Join
    BY <2>1, <2>6 DEF Check, WaitInVain, Decide, Leave, RequestStop, Join,
       MonitorOnly, slot
  <2>7. CASE Terminated \/ UNCHANGED vars
    BY <2>1, <2>7 DEF Terminated, vars, slot, monitorVars
  <2>8. QED
    BY <2>2, <2>3, <2>4, <2>5, <2>6, <2>7, ReaderCases DEF Next, MonitorStep
<1>3. DropInv => DropsAreCounted
  BY DEF DropInv, Missed, DropsAreCounted
<1>4. QED
  BY <1>1, <1>2, <1>3, CaptureTypeCorrect, DeliveryCorrect, PTL DEF Spec

-----------------------------------------------------------------------------
(* The transport that several captures share. *)

\* The variable holds a camera's own transport or that of another camera that
\* asks for one, and a camera that asks for one has set it before it opens: it
\* never opens with the default of the process.
SharedInv ==
    /\ transport \in [Cameras -> Transports]
    /\ stage \in [Cameras -> Stages]
    /\ DOMAIN opened = Cameras
    /\ options = "default" \/ \E d \in Explicit : options = transport[d]
    /\ \A c \in Explicit :
          /\ stage[c] \in {"opening", "reading", "backoff"} => options # "default"
          /\ opened[c] = "none" \/ \E d \in Explicit : opened[c] = transport[d]

LEMMA SharedInvInit == TransportInit => SharedInv
  BY TransportAssumption DEF TransportInit, SharedInv, Explicit, Stages

LEMMA SharedInvStep == SharedInv /\ [TransportNext]_transportVars => SharedInv'
<1> SUFFICES ASSUME SharedInv, [TransportNext]_transportVars
             PROVE  SharedInv'
  OBVIOUS
<1> USE DEF SharedInv, Explicit, Stages, Move
<1>1. ASSUME NEW c \in Cameras, StartReader(c) PROVE SharedInv'
  BY <1>1 DEF StartReader
<1>2. ASSUME NEW c \in Cameras, SetTransport(c) PROVE SharedInv'
  BY <1>2 DEF SetTransport
<1>3. ASSUME NEW c \in Cameras, KeepTransport(c) PROVE SharedInv'
  BY <1>3 DEF KeepTransport
<1>4. ASSUME NEW c \in Cameras, Open(c) PROVE SharedInv'
  BY <1>4 DEF Open
<1>5. ASSUME NEW c \in Cameras, LoseCamera(c) PROVE SharedInv'
  BY <1>5 DEF LoseCamera
<1>6. ASSUME NEW c \in Cameras, Reconnect(c) PROVE SharedInv'
  BY <1>6 DEF Reconnect
<1>7. ASSUME NEW c \in Cameras, End(c) PROVE SharedInv'
  BY <1>7 DEF End
<1>8. CASE UNCHANGED transportVars
  BY <1>8 DEF transportVars
<1>9. QED
  BY <1>1, <1>2, <1>3, <1>4, <1>5, <1>6, <1>7, <1>8 DEF TransportNext, Finished

\* A camera with a transport of its own is opened with its own transport or with
\* that of another camera, and never with the default (readerLoop).
ExplicitIsHonoured ==
    \A c \in Explicit : opened[c] = "none" \/ \E d \in Explicit : opened[c] = transport[d]

\* Any number of cameras that agree on their transport all have it, at the first
\* open and at every reconnection, whatever the cameras without one do
\* (setRtspTransport and readerLoop).
THEOREM AgreedTransportHolds == TransportSpec => [](UniformTransport /\ ExplicitIsHonoured)
<1>1. SharedInv => UniformTransport /\ ExplicitIsHonoured
  BY DEF SharedInv, UniformTransport, ExplicitIsHonoured, Explicit
<1>2. QED
  BY <1>1, SharedInvInit, SharedInvStep, PTL DEF TransportSpec
===============================================================================
