-------------------------- MODULE LatestFrameCapture --------------------------
(***************************************************************************)
(* LatestFrameCapture of native/src/runtime/capture.cpp: a reader thread   *)
(* that opens a source, reconnects, and keeps only the newest frame in a   *)
(* slot, together with the part of the monitor loop of                     *)
(* native/src/app/main.cpp that owns and consumes one capture.             *)
(*                                                                         *)
(* The slot (latest_, sequence_, ended_, error_) is guarded by mutex_: one *)
(* critical section is one action.  The stop token is not guarded by it,   *)
(* so each place where the reader looks at the token is a step of its own. *)
(* waitForLatest waits with a timeout and decides on the slot as it is     *)
(* when it returns, so one action per call is exact.  Calls into OpenCV    *)
(* and into the network return any of their outcomes.                      *)
(***************************************************************************)
EXTENDS Integers, Sequences, FiniteSets

CONSTANTS
    Sources,    \* the configurations a capture may be built with
    BaseDelay,  \* reconnect_delay_
    MaxDelay,   \* maximum_reconnect_delay_
    RetryBound, \* bound: retries are counted up to here
    FrameBound, \* bound: frames published over all runs
    RunBound    \* bound: calls of start

Kinds == {"image", "file", "rtsp"}

ASSUME CaptureAssumption ==
    /\ Sources \subseteq [kind : Kinds, cpu : BOOLEAN, timeouts : BOOLEAN]
    /\ BaseDelay \in Nat
    /\ MaxDelay \in Nat
    /\ BaseDelay <= MaxDelay    \* the constructor rejects anything else
    /\ RetryBound \in Nat
    /\ FrameBound \in Nat
    /\ RunBound \in Nat
    \* Counting further than RetryBound would not change the delay.
    /\ BaseDelay = 0 \/ BaseDelay * 2^RetryBound >= MaxDelay

VARIABLES
    source,        \* source_, video_acceleration_ and the timeouts: constant
    \* The slot.
    latest,        \* latest_: an index into published, 0 when released
    sequence,      \* sequence_
    ended,         \* ended_
    error,         \* error_
    \* The reader thread.
    reader,        \* where it is in readerLoop; "none" when not joinable
    stopRequested, \* the stop token of reader_
    delay,         \* the next backoff
    tried,         \* the capture.open calls of the last attempt, in order
    \* The monitor loop, for this source.
    monitor,       \* where it is
    anyRunning,    \* any_running of this iteration
    seen,          \* SourceState::sequence
    drops,         \* latest_slot_sequence_gap_drops
    exhausted,     \* it left its loop because no capture was running
    \* History.
    published,     \* for each frame ever published, the run it belongs to
    runs,          \* calls of start
    delivered,     \* the frames waitForLatest returned
    retries        \* backoffs since the last successful open

slot == <<latest, sequence, ended, error>>
readerVars == <<reader, stopRequested, delay, tried, retries>>
monitorVars == <<monitor, anyRunning, seen, drops, exhausted, delivered>>
vars == <<source, slot, readerVars, monitorVars, published, runs>>

IsRtsp == source.kind = "rtsp"

Errors == {"none", "open", "disconnected", "exception"}

\* The reader's positions: before it looked at the source, at the head of its
\* outer loop, in the preflight and the opens, at the head of its inner loop,
\* inside capture.read, before the decision to retry, in the backoff wait,
\* before ended_ is set, returned.
ReaderPositions == {"none", "begin", "top", "connecting", "reading", "inRead",
                    "retry", "backoff", "ending", "returned"}

\* The monitor's positions: no capture running, at the head of its loop,
\* before waitForLatest, before its decision to go on, about to call stop,
\* inside stop.
MonitorPositions == {"idle", "check", "wait", "decide", "stop", "joining"}

Init ==
    /\ source \in Sources
    /\ latest = 0
    /\ sequence = 0
    /\ ended = FALSE
    /\ error = "none"
    /\ reader = "none"
    /\ stopRequested = FALSE
    /\ delay = BaseDelay
    /\ tried = <<>>
    /\ monitor = "idle"
    /\ anyRunning = FALSE
    /\ seen = 0
    /\ drops = 0
    /\ exhausted = FALSE
    /\ published = <<>>
    /\ runs = 0
    /\ delivered = {}
    /\ retries = 0

-----------------------------------------------------------------------------
(* The reader thread: readerLoop. *)

\* publish: the frame replaces the one in the slot, read or not.
Publish ==
    /\ Len(published) < FrameBound
    /\ published' = Append(published, runs)
    /\ latest' = Len(published) + 1
    /\ sequence' = sequence + 1
    /\ error' = "none"
    /\ UNCHANGED ended

Report(e) ==
    /\ error' = e
    /\ UNCHANGED <<latest, sequence, ended, published>>

QuietSlot == UNCHANGED <<slot, published>>

\* The reader's next position, with the rest of the thread left alone.
Goto(position) ==
    /\ reader' = position
    /\ UNCHANGED <<source, stopRequested, delay, tried, retries, monitorVars, runs>>

\* A still image: one read, one frame or an error, and the end.
ReadImage ==
    /\ reader = "begin" /\ source.kind = "image"
    /\ Publish \/ Report("open")
    /\ Goto("ending")

Begin ==
    /\ reader = "begin" /\ source.kind # "image"
    /\ reader' = "top"
    /\ delay' = BaseDelay
    /\ retries' = 0
    /\ QuietSlot
    /\ UNCHANGED <<source, stopRequested, tried, monitorVars, runs>>

LoopHead ==
    /\ reader = "top"
    /\ QuietSlot
    /\ Goto(IF stopRequested THEN "ending" ELSE "connecting")

\* The capture.open calls of one attempt, each made when those before failed:
\* with the timeouts and, for RTSP, the acceleration; for RTSP with software
\* decoding; for a file without any parameter.
OpenCalls ==
    IF IsRtsp
    THEN IF source.cpu THEN <<"parameters">> ELSE <<"parameters", "software">>
    ELSE IF source.timeouts THEN <<"parameters", "simple">> ELSE <<"simple">>

\* The TCP preflight says that the camera is unreachable: no open is tried.
SkipOpen ==
    /\ reader = "connecting" /\ IsRtsp
    /\ tried' = <<>>
    /\ Report("open")
    /\ reader' = "retry"
    /\ UNCHANGED <<source, stopRequested, delay, retries, monitorVars, runs>>

OpenFails ==
    /\ reader = "connecting"
    /\ tried' = OpenCalls
    /\ Report("open")
    /\ reader' = "retry"
    /\ UNCHANGED <<source, stopRequested, delay, retries, monitorVars, runs>>

OpenSucceeds ==
    /\ reader = "connecting"
    /\ \E n \in DOMAIN OpenCalls : tried' = SubSeq(OpenCalls, 1, n)
    /\ delay' = BaseDelay
    /\ reader' = "reading"
    /\ retries' = 0
    /\ QuietSlot
    /\ UNCHANGED <<source, stopRequested, monitorVars, runs>>

\* The inner loop is left, at its head or after a failed read.  An RTSP
\* source reports the disconnection, also when it was stopped.
Disconnect ==
    IF IsRtsp
    THEN Report("disconnected") /\ Goto("retry")
    ELSE QuietSlot /\ Goto("ending")

ReadHead ==
    /\ reader = "reading"
    /\ \/ ~stopRequested /\ QuietSlot /\ Goto("inRead")
       \/ stopRequested /\ Disconnect

ReadFrame ==
    /\ reader = "inRead"
    /\ Publish
    /\ Goto("reading")

ReadFails ==
    /\ reader = "inRead"
    /\ Disconnect

\* (Fault: a camera that disconnects is not tried again.)
RetryNever ==
    /\ reader = "retry"
    /\ QuietSlot
    /\ Goto("ending")

Retry ==
    /\ reader = "retry"
    /\ QuietSlot
    /\ Goto(IF ~IsRtsp \/ stopRequested THEN "ending" ELSE "backoff")

Smaller(a, b) == IF a < b THEN a ELSE b

\* The backoff wait is over: the delay doubles up to its maximum.
LeaveBackoff ==
    /\ reader = "backoff"
    /\ reader' = "top"
    /\ delay' = Smaller(2 * delay, MaxDelay)
    /\ retries' = Smaller(retries + 1, RetryBound)
    /\ QuietSlot
    /\ UNCHANGED <<source, stopRequested, tried, monitorVars, runs>>

\* The deadline passes.
BackoffExpires == LeaveBackoff

\* (Fault: the wait does not observe the stop token.)
StopIgnored == FALSE /\ LeaveBackoff

\* wait_until with the stop token returns as soon as a stop is requested.
StopEndsBackoff == stopRequested /\ LeaveBackoff

SetEnded ==
    /\ reader = "ending"
    /\ ended' = TRUE
    /\ UNCHANGED <<latest, sequence, error, published>>
    /\ Goto("returned")

\* Setting the FFmpeg transport (RTSP), OpenCV or an allocation throws: the
\* thread's handler reports it and ends the capture, for an RTSP source too.
Throw ==
    /\ \/ reader = "begin" /\ source.kind # "file"
       \/ reader \in {"connecting", "inRead"}
    /\ error' = "exception"
    /\ ended' = TRUE
    /\ UNCHANGED <<latest, sequence, published>>
    /\ Goto("returned")

-----------------------------------------------------------------------------
(* The owner: start and stop. *)

\* (Fault: start leaves the slot of the previous run in place.)
StartWithoutReset ==
    /\ monitor = "idle" /\ reader = "none" /\ runs < RunBound
    /\ runs' = runs + 1
    /\ ended' = FALSE
    /\ error' = "none"
    /\ reader' = "begin"
    /\ stopRequested' = FALSE
    /\ seen' = 0
    /\ exhausted' = FALSE
    /\ monitor' = "check"
    /\ UNCHANGED <<source, latest, sequence, delay, tried, anyRunning, drops,
                   published, delivered, retries>>

\* start: empties the slot, then makes a new thread with a new stop token.
\* The owner begins with the sequence number of an empty slot.
Start ==
    /\ monitor = "idle" /\ reader = "none" /\ runs < RunBound
    /\ runs' = runs + 1
    /\ latest' = 0
    /\ sequence' = 0
    /\ ended' = FALSE
    /\ error' = "none"
    /\ reader' = "begin"
    /\ stopRequested' = FALSE
    /\ seen' = 0
    /\ exhausted' = FALSE
    /\ monitor' = "check"
    /\ UNCHANGED <<source, delay, tried, anyRunning, drops, published,
                   delivered, retries>>

\* stop: requests the stop and notifies, then joins.
RequestStop ==
    /\ monitor = "stop"
    /\ stopRequested' = TRUE
    /\ monitor' = "joining"
    /\ UNCHANGED <<source, slot, reader, delay, tried, retries, anyRunning,
                   seen, drops, exhausted, delivered, published, runs>>

Join ==
    /\ monitor = "joining" /\ reader = "returned"
    /\ reader' = "none"
    /\ monitor' = "idle"
    /\ UNCHANGED <<source, slot, stopRequested, delay, tried, retries,
                   anyRunning, seen, drops, exhausted, delivered, published, runs>>

-----------------------------------------------------------------------------
(* The monitor loop. *)

MonitorOnly == UNCHANGED <<source, slot, readerVars, published, runs>>

\* The head of the iteration: is the capture still running?
Check ==
    /\ monitor = "check"
    /\ anyRunning' = ~ended
    /\ monitor' = "wait"
    /\ MonitorOnly
    /\ UNCHANGED <<seen, drops, exhausted, delivered>>

\* waitForLatest returns false: nothing newer, by timeout or at the end.
WaitInVain ==
    /\ monitor = "wait"
    /\ sequence = seen
    /\ monitor' = "decide"
    /\ MonitorOnly
    /\ UNCHANGED <<anyRunning, seen, drops, exhausted, delivered>>

\* (Fault: the gap counts the frame that was received, too.)
WholeGap == sequence - seen

\* recordLatestSlotSequence: frames overwritten before anybody saw them.
Gap == IF sequence > seen + 1 THEN sequence - seen - 1 ELSE 0

\* waitForLatest returns the frame in the slot and its sequence number.
Receive ==
    /\ monitor = "wait"
    /\ sequence # seen
    /\ drops' = drops + Gap
    /\ seen' = sequence
    /\ delivered' = delivered \cup {latest}
    /\ monitor' = "decide"
    /\ MonitorOnly
    /\ UNCHANGED <<anyRunning, exhausted>>

\* (Fault: the loop asks again whether the capture runs, after the wait.)
DecideAfresh ==
    /\ monitor = "decide"
    /\ monitor' = IF ended THEN "stop" ELSE "check"
    /\ exhausted' = ended
    /\ MonitorOnly
    /\ UNCHANGED <<anyRunning, seen, drops, delivered>>

\* The end of the iteration: if (!any_running) break.
Decide ==
    /\ monitor = "decide"
    /\ monitor' = IF anyRunning THEN "check" ELSE "stop"
    /\ exhausted' = ~anyRunning
    /\ MonitorOnly
    /\ UNCHANGED <<anyRunning, seen, drops, delivered>>

\* stop_requested is set (a signal, the window, the evidence queue), or the
\* pipeline throws on the frame just received and the captures are destroyed.
Leave ==
    /\ monitor \in {"check", "decide"}
    /\ monitor' = "stop"
    /\ MonitorOnly
    /\ UNCHANGED <<anyRunning, seen, drops, exhausted, delivered>>

Terminated ==
    /\ monitor = "idle" /\ runs = RunBound
    /\ UNCHANGED vars

-----------------------------------------------------------------------------

\* What the reader does when it is scheduled and its calls return.
ReaderStep ==
    \/ ReadImage \/ Begin \/ LoopHead
    \/ SkipOpen \/ OpenFails \/ OpenSucceeds
    \/ ReadHead \/ ReadFrame \/ ReadFails
    \/ Retry \/ StopEndsBackoff \/ SetEnded \/ Throw

MonitorStep ==
    \/ Check \/ WaitInVain \/ Receive \/ Decide \/ RequestStop \/ Join

Next ==
    \/ ReaderStep \/ BackoffExpires
    \/ Start \/ MonitorStep \/ Leave
    \/ Terminated

\* Both threads run and the backend's open and read calls return.  Nothing is
\* assumed of the clock: a backoff may last for ever unless it is stopped.
Spec ==
    /\ Init /\ [][Next]_vars
    /\ WF_vars(ReaderStep)
    /\ WF_vars(MonitorStep)

-----------------------------------------------------------------------------
(* Safety. *)

\* Type invariant; the delay stays between its two configured bounds.
TypeOK ==
    /\ source \in Sources
    /\ latest \in Nat
    /\ sequence \in Nat
    /\ ended \in BOOLEAN
    /\ error \in Errors
    /\ reader \in ReaderPositions
    /\ stopRequested \in BOOLEAN
    /\ delay \in BaseDelay..MaxDelay
    /\ tried \in Seq({"parameters", "software", "simple"})
    /\ monitor \in MonitorPositions
    /\ anyRunning \in BOOLEAN
    /\ seen \in Nat
    /\ drops \in Nat
    /\ exhausted \in BOOLEAN
    /\ published \in Seq(Nat)
    /\ runs \in Nat
    /\ delivered \subseteq Nat
    /\ retries \in Nat

FramesOf(run) == {i \in DOMAIN published : published[i] = run}

\* The slot holds the newest frame of the current run and its number, or is
\* empty: a restart shows no frame, and counts none, of the run before it.
SlotIsLatest ==
    /\ latest = IF FramesOf(runs) = {} THEN 0 ELSE Len(published)
    /\ sequence = Cardinality(FramesOf(runs))
    /\ monitor # "idle" => seen <= sequence

\* The telemetry's gap drops are exactly the frames that were overwritten in
\* the slot before the monitor saw them.
DropsAreCounted ==
    drops = Cardinality({i \in DOMAIN published :
                            /\ i \notin delivered
                            /\ \E j \in delivered :
                                  i < j /\ published[i] = published[j]})

\* When the monitor leaves its loop because nothing runs any more, it has
\* received the last frame of the capture: a frame published just before the
\* end, between the check of ended and the wait, is not lost.
LastFrameDelivered ==
    exhausted /\ sequence > 0 => latest \in delivered

\* The backoff is the base delay doubled once per retry since the last
\* successful open, up to the maximum.
BackoffLaw ==
    reader \notin {"none", "begin", "returned"} =>
        delay = Smaller(BaseDelay * 2^retries, MaxDelay)

\* An RTSP capture ends only because it was stopped or its reader threw.
RtspNeverGivesUp ==
    ended /\ IsRtsp => stopRequested \/ error = "exception"

-----------------------------------------------------------------------------
(* Liveness. *)

\* stop returns, also when it comes during a backoff whose deadline is far.
StopReturns == monitor = "joining" ~> monitor = "idle"

\* A published frame reaches the monitor, or a newer one does, unless the
\* monitor is told to leave.
NewestIsReceived ==
    \A f \in 1..FrameBound :
        Len(published) = f /\ latest = f
          ~> \/ \E g \in delivered : g >= f
             \/ monitor \in {"stop", "joining", "idle"} /\ ~exhausted

\* If the clock advances, a camera that cannot be opened or that disconnects
\* is tried again, unless the monitor stops it, and not because it ended, or
\* its reader throws.
CameraIsRetried ==
    WF_vars(BackoffExpires) =>
        (IsRtsp /\ reader = "retry"
           ~> \/ reader = "connecting"
              \/ stopRequested /\ ~exhausted
              \/ error = "exception")

\* What the capture owes in time: stop returns, the newest frame arrives, and a
\* camera is tried again after a delay that obeys the backoff law.
CaptureProceeds ==
    StopReturns /\ NewestIsReceived /\ CameraIsRetried /\ []BackoffLaw
=============================================================================
