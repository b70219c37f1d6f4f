-------------------------------- MODULE Monitor --------------------------------
(* The monitor loop (app/main.cpp): it takes the newest frame of each capture,
   sends the frames through the pipeline in micro-batches, and hands the events
   to the evidence queue or, without one, writes them itself.

   The queue is the abstract channel that EvidenceQueue implements.  A capture
   is its newest sequence number and whether it has ended; the analytics of a
   source (analytics/analytics_pipeline.cpp) are the last frame they have
   recorded and whether an exception has left them in the middle of one. *)
EXTENDS Naturals, Sequences, FiniteSets

CONSTANTS
  Sources,    \* how many cameras or videos
  MaxFrames,  \* frames a capture publishes
  MaxEvents,  \* events of one frame
  MaxBatch,   \* the models' maximum batch size
  Capacity,   \* of the evidence queue
  TargetFps   \* whether inference is held back to a frame rate

ASSUME MonitorAssumption ==
  /\ Sources \in Nat \ {0} /\ MaxBatch \in Nat \ {0} /\ Capacity \in Nat \ {0}
  /\ MaxFrames \in Nat /\ MaxEvents \in Nat /\ TargetFps \in BOOLEAN

VARIABLES
  published, finished,               \* of each capture
  queued,                            \* whether there is an evidence queue
  pc, turn, anyRunning, stop,        \* the loop
  seen,                              \* the sequence number last received
  batch, results, upto,              \* frames, their events, the end of the chunk
  analytics,                         \* [source -> [last, broken]]
  made, written, failed,             \* events made, and written or not without a queue
  code,
  log, settled, persisted, healthy, open, drained   \* the channel

captureVars == <<published, finished>>
channelVars == <<log, settled, persisted, healthy, open, drained>>
workVars == <<seen, batch, results, upto, analytics, made, written, failed>>
loopVars == <<turn, anyRunning, stop>>
vars == <<captureVars, queued, pc, loopVars, workVars, code, channelVars>>

Cameras == 1..Sources
Events == [source : Cameras, frame : 1..MaxFrames, index : 0..(MaxEvents - 1)]

Channel == INSTANCE EvidenceChannel

Running == 256   \* no exit code yet

Init ==
  /\ published = [s \in Cameras |-> 0] /\ finished = [s \in Cameras |-> FALSE]
  /\ queued \in BOOLEAN
  /\ pc = "loop" /\ turn = 1 /\ anyRunning = FALSE /\ stop = FALSE
  /\ seen = [s \in Cameras |-> 0]
  /\ batch = <<>> /\ results = <<>> /\ upto = 0
  /\ analytics = [s \in Cameras |-> [last |-> 0, broken |-> FALSE]]
  /\ made = <<>> /\ written = {} /\ failed = {}
  /\ code = Running
  /\ Channel!Init

--------------------------------------------------------------------------------
(* The captures' workers, the signals and the window. *)
Publish(s) ==
  /\ ~finished[s] /\ published[s] < MaxFrames
  /\ published' = [published EXCEPT ![s] = @ + 1]
  /\ UNCHANGED <<finished, queued, pc, loopVars, workVars, code, channelVars>>

Finish(s) ==
  /\ ~finished[s]
  /\ finished' = [finished EXCEPT ![s] = TRUE]
  /\ UNCHANGED <<published, queued, pc, loopVars, workVars, code, channelVars>>

RequestStop ==
  /\ ~stop /\ pc \notin {"leave", "unwind", "exited"}
  /\ stop' = TRUE
  /\ UNCHANGED <<captureVars, queued, pc, turn, anyRunning, workVars, code, channelVars>>

--------------------------------------------------------------------------------
(* The head of the loop. *)
Begin ==
  /\ pc = "loop"
  /\ IF stop THEN pc' = "leave" /\ UNCHANGED <<turn, anyRunning, batch, results, upto>>
     ELSE /\ pc' = "ended"
          /\ turn' = 1 /\ anyRunning' = FALSE
          /\ batch' = <<>> /\ results' = <<>> /\ upto' = 0
  /\ UNCHANGED <<captureVars, queued, stop, seen, analytics, made, written, failed, code, channelVars>>

(* A bug: the end of the capture is read after its frame. *)
ReadsFrameFirst == <<"frame", "ended">>

(* Whether the capture has ended is read first, its frame second. *)
Reads == <<"ended", "frame">>
After(read) ==
  CASE read = Reads[1] -> pc' = Reads[2] /\ UNCHANGED turn
    [] read = Reads[2] /\ turn < Sources -> pc' = Reads[1] /\ turn' = turn + 1
    [] OTHER -> pc' = "process" /\ UNCHANGED turn

ReadEnded ==
  /\ pc = "ended"
  /\ anyRunning' = (anyRunning \/ ~finished[turn])
  /\ After("ended")
  /\ UNCHANGED <<captureVars, queued, stop, workVars, code, channelVars>>

(* waitForLatest: a frame that comes too early for target_fps is dropped. *)
ReadFrame ==
  /\ pc = "frame"
  /\ \/ published[turn] = seen[turn] /\ UNCHANGED <<seen, batch>>
     \/ /\ published[turn] # seen[turn]
        /\ seen' = [seen EXCEPT ![turn] = published[turn]]
        /\ \/ batch' = Append(batch, [source |-> turn, frame |-> published[turn]])
           \/ TargetFps /\ UNCHANGED batch
  /\ After("frame")
  /\ UNCHANGED <<captureVars, queued, anyRunning, stop, results, upto, analytics, made, written,
                 failed, code, channelVars>>

(* A bug: an exception costs the chunk, not the monitor. *)
RaiseAndGoOn(status) ==
  /\ pc' = "bottom"
  /\ UNCHANGED code

(* An exception leaves monitor: main tells a refused argument by its code. *)
Raise(status) ==
  /\ pc' = "unwind"
  /\ code' = status

(* The next chunk; its inference comes before any of its analytics. *)
Infer ==
  /\ pc = "process"
  /\ IF Len(results) = Len(batch)
       THEN pc' = "emit" /\ UNCHANGED <<upto, code>>
       ELSE \/ /\ pc' = "analyze"
               /\ upto' = IF Len(results) + MaxBatch < Len(batch) THEN Len(results) + MaxBatch ELSE Len(batch)
               /\ UNCHANGED code
            \/ Raise(1) /\ UNCHANGED upto
  /\ UNCHANGED <<captureVars, queued, loopVars, seen, batch, results, analytics, made, written, failed, channelVars>>

(* AnalyticsPipeline::process for one frame of the chunk: refused, done, or
   left in the middle, with the tracker and the analyzers changed already. *)
NextFrame == batch[Len(results) + 1]
Analyze ==
  LET s == NextFrame.source
      f == NextFrame.frame
  IN  /\ pc = "analyze"
      /\ IF f <= analytics[s].last
           THEN Raise(2) /\ UNCHANGED <<results, analytics, made>>
           ELSE \/ /\ analytics' = [analytics EXCEPT ![s].broken = TRUE]
                   /\ Raise(1)
                   /\ UNCHANGED <<results, made>>
                \/ /\ \E n \in 0..MaxEvents :
                        LET events == [i \in 1..n |-> [source |-> s, frame |-> f, index |-> i - 1]]
                        IN  results' = Append(results, events) /\ made' = made \o events
                   /\ analytics' = [analytics EXCEPT ![s].last = f]
                   /\ pc' = IF Len(results) + 1 = upto THEN "process" ELSE "analyze"
                   /\ UNCHANGED code
      /\ UNCHANGED <<captureVars, queued, loopVars, seen, batch, upto, written, failed, channelVars>>

--------------------------------------------------------------------------------
(* The events of the batch, frame after frame. *)
Emitting == pc = "emit" /\ results # <<>> /\ results[1] # <<>>
Event == results[1][1]
Emitted == results' = <<Tail(results[1])>> \o Tail(results)

NextResult ==
  /\ pc = "emit"
  /\ \/ results = <<>> /\ pc' = "bottom" /\ UNCHANGED results
     \/ results # <<>> /\ results[1] = <<>> /\ results' = Tail(results) /\ UNCHANGED pc
  /\ UNCHANGED <<captureVars, queued, loopVars, seen, batch, upto, analytics, made, written, failed, code, channelVars>>

(* enqueue waits while the queue is full. *)
Enqueue ==
  /\ Emitting /\ queued
  /\ Channel!Accept(Event)
  /\ Emitted
  /\ UNCHANGED <<captureVars, queued, pc, loopVars, seen, batch, upto, analytics, made, written, failed, code>>

(* A rejection stops the monitor and the events of this frame, not of the rest. *)
Reject ==
  /\ Emitting /\ queued /\ ~healthy
  /\ stop' = TRUE
  /\ results' = Tail(results)
  /\ UNCHANGED <<captureVars, queued, pc, turn, anyRunning, seen, batch, upto, analytics, made, written, failed, code, channelVars>>

(* Without a queue a write that fails is reported, and the next one tried. *)
Write ==
  /\ Emitting /\ ~queued
  /\ \/ written' = written \cup {Event} /\ UNCHANGED failed
     \/ failed' = failed \cup {Event} /\ UNCHANGED written
  /\ Emitted
  /\ UNCHANGED <<captureVars, queued, pc, loopVars, seen, batch, upto, analytics, made, code, channelVars>>

(* A bug: the loop goes on when no capture runs. *)
BottomWithoutEnd ==
  /\ pc = "bottom"
  /\ pc' = "loop"
  /\ UNCHANGED <<captureVars, queued, loopVars, workVars, code, channelVars>>

(* The end of an iteration. *)
Bottom ==
  /\ pc = "bottom"
  /\ pc' = IF anyRunning THEN "loop" ELSE "leave"
  /\ UNCHANGED <<captureVars, queued, loopVars, workVars, code, channelVars>>

(* A bug: the exit code does not look at the queue's failure. *)
ExitCodeOfLoop == 0

(* The exit code of a loop that was left in order. *)
ExitCode == IF queued /\ ~healthy THEN 1 ELSE 0

(* The captures are stopped, then the queue is drained: in order or by the
   destructors of what monitor holds. *)
StopAll ==
  /\ pc \in {"leave", "unwind"} /\ open
  /\ finished' = [s \in Cameras |-> TRUE]
  /\ Channel!Close
  /\ UNCHANGED <<published, queued, pc, loopVars, workVars, code>>

Leave ==
  /\ pc \in {"leave", "unwind"} /\ drained
  /\ code' = IF pc = "leave" THEN ExitCode ELSE code
  /\ pc' = "exited"
  /\ UNCHANGED <<captureVars, queued, loopVars, workVars, channelVars>>

(* The queue's worker. *)
Settle ==
  /\ Channel!Persist \/ Channel!Break \/ Channel!Discard \/ Channel!Drain
  /\ UNCHANGED <<captureVars, queued, pc, loopVars, workVars, code>>

LoopStep ==
  \/ Begin \/ ReadEnded \/ ReadFrame \/ Infer \/ Analyze
  \/ NextResult \/ Enqueue \/ Reject \/ Write \/ Bottom \/ StopAll \/ Leave

Next ==
  \/ LoopStep \/ Settle \/ RequestStop
  \/ \E s \in Cameras : Publish(s) \/ Finish(s)

(* The loop is one thread that never waits for long, and the channel settles:
   its own fairness.  Nothing obliges a capture to publish or to end. *)
Spec == Init /\ [][Next]_vars /\ WF_vars(LoopStep) /\ WF_vars(Settle)

--------------------------------------------------------------------------------
TypeOK ==
  /\ pc \in {"loop", "ended", "frame", "process", "analyze", "emit", "bottom", "leave", "unwind", "exited"}
  /\ turn \in Cameras
  /\ \A s \in Cameras : seen[s] \in 0..published[s] /\ analytics[s].last \in 0..seen[s]
  /\ code \in {0, 1, 2, Running}

(* The analytics never see a frame that is not newer than their last one, and an
   exception that leaves them between tracker and record ends their use. *)
AnalyticsIsSound ==
  pc = "analyze" => ~analytics[NextFrame.source].broken /\ NextFrame.frame > analytics[NextFrame.source].last

SeqToSet(q) == {q[i] : i \in DOMAIN q}

(* Exit code 0 means that every event the analytics made is in the reports; or,
   without a queue, that each is there or was reported as not written. *)
NothingIsLost ==
  code = 0 =>
    IF queued THEN SeqToSet(log) = SeqToSet(made) /\ persisted = Len(log)
    ELSE SeqToSet(made) = written \cup failed

(* A monitor that ends because its captures have ended has received the last
   frame of each of them. *)
LastFrameIsSeen ==
  code = 0 /\ ~stop => \A s \in Cameras : seen[s] = published[s]

(* A monitor that is told to stop, or whose captures have all ended, exits. *)
MonitorEnds == (stop \/ \A s \in Cameras : finished[s]) ~> pc = "exited"
================================================================================
