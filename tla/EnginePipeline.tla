---------------------------- MODULE EnginePipeline ----------------------------
(***************************************************************************)
(* NativeEnginePipeline::Impl of native/src/runtime/engine_pipeline.cpp:   *)
(* process, the inference of one frame, called by several threads and      *)
(* serialised by process_mutex, on the three execution paths the pipeline  *)
(* may be built for:                                                       *)
(*   "serial"   PPE, then pose if the person gate lets it run;             *)
(*   "hybrid"   pose on PoseExecutor while the caller runs PPE;            *)
(*   "overlap"  PPE and pose submitted to the GPU, collected in that order.*)
(* On the last two the pose inference is speculative: the gate only        *)
(* discards its result.  Each path applies the gate at a place of its own. *)
(* Detections and poses are known by the frame they were computed from, so *)
(* an answer shows whose they are.  Preprocessing, inference and decoding  *)
(* return or throw.  The owner builds the pipeline, which may fail after   *)
(* its executor thread has started, and destroys it.                       *)
(***************************************************************************)
EXTENDS PoseExecutor

CONSTANTS
    Callers,    \* threads that call process
    Paths,      \* the paths to consider
    WithPerson, \* the frames in which the PPE model finds a person
    NoCaller    \* process_mutex is free

ASSUME PipelineAssumption ==
    /\ Paths \subseteq {"serial", "hybrid", "overlap"}
    /\ WithPerson \subseteq Frames
    /\ NoCaller \notin Callers

VARIABLES
    path,         \* hybrid_pose_executor, tensorrt_gpu_overlap: constant
    gate,         \* pose_requires_person: constant
    owner,        \* where the owner of the pipeline is
    processMutex, \* who holds process_mutex
    caller,       \* where each caller is in process
    frame,        \* the frame each caller is in process with
    detected,     \* the frame that each caller's ppe_detections are of
    onGpu,        \* overlap: the pose inference in flight on the GPU
    submitted,    \* overlap: the frame last submitted to each session
    result        \* what process returned for each frame

gpuVars == <<onGpu, submitted>>
pipelineVars == <<path, gate, owner, processMutex, caller, frame, detected,
                  gpuVars, result>>
vars == <<executorVars, pipelineVars>>

OwnerPositions == {"building", "ready", "shutdown", "stopping", "notifying",
                   "joining", "destroyed"}

CallerPositions == {"idle", "locking", "preprocess", "submit", "notify",
                    "submitGpu", "ppe", "get", "getAndRethrow", "collect",
                    "personGate", "pose"}

Sessions == {"ppe", "pose"}

\* Whose detections and whose poses process returned, if it did.
Results == [outcome : {"none", "error", "answer"},
            detections : Frames \cup {NoFrame}, poses : Frames \cup {NoFrame}]

Without(outcome) == [outcome |-> outcome, detections |-> NoFrame, poses |-> NoFrame]
Error == Without("error")

Init ==
    /\ ExecutorInit
    /\ path \in Paths
    /\ gate \in BOOLEAN
    /\ owner = "building"
    /\ processMutex = NoCaller
    /\ caller = [c \in Callers |-> "idle"]
    /\ frame = [c \in Callers |-> NoFrame]
    /\ detected = frame
    /\ onGpu = NoFrame
    /\ submitted = [s \in Sessions |-> NoFrame]
    /\ result = [f \in Frames |-> Without("none")]

-----------------------------------------------------------------------------
(* The callers: process. *)

Goto(c, position) == caller' = [caller EXCEPT ![c] = position]

\* process returns or throws: its variables are gone, the lock is released.
Return(c, outcome) ==
    /\ Goto(c, "idle")
    /\ frame' = [frame EXCEPT ![c] = NoFrame]
    /\ detected' = [detected EXCEPT ![c] = NoFrame]
    /\ result' = [result EXCEPT ![frame[c]] = outcome]
    /\ processMutex' = NoCaller

\* The analytics get the detections of the call and these poses.
Answer(c, poses) ==
    Return(c, [outcome |-> "answer", detections |-> detected[c], poses |-> poses])

Stay == UNCHANGED <<frame, detected, result, processMutex>>

Environment == UNCHANGED <<path, gate, owner>>

Call(c, f) ==
    /\ owner = "ready"
    /\ caller[c] = "idle"
    /\ result[f].outcome = "none" /\ \A d \in Callers : frame[d] # f
    /\ Goto(c, "locking")
    /\ frame' = [frame EXCEPT ![c] = f]
    /\ UNCHANGED <<executorVars, processMutex, detected, gpuVars, result>>
    /\ Environment

Lock(c) ==
    /\ caller[c] = "locking"
    /\ processMutex = NoCaller
    /\ processMutex' = c
    /\ Goto(c, "preprocess")
    /\ UNCHANGED <<executorVars, frame, detected, gpuVars, result>>
    /\ Environment

\* The frame is checked and letterboxed, for hybrid and overlap twice.
Preprocess(c) ==
    /\ caller[c] = "preprocess"
    /\ \/ Return(c, Error)
       \/ /\ Goto(c, CASE path = "hybrid" -> "submit"
                       [] path = "overlap" -> "submitGpu"
                       [] OTHER -> "ppe")
          /\ Stay
    /\ UNCHANGED <<executorVars, gpuVars>>
    /\ Environment

\* PoseExecutor::submit throws when the mailbox is full or closed.
Submit(c) ==
    /\ caller[c] = "submit"
    /\ MutexFree
    /\ \/ CanSubmit /\ Deposit(frame[c]) /\ Goto(c, "notify") /\ Stay
       \/ ~CanSubmit /\ Return(c, Error) /\ UNCHANGED executorVars
    /\ UNCHANGED gpuVars
    /\ Environment

Notify(c) ==
    /\ caller[c] = "notify"
    /\ NotifyWorker
    /\ Goto(c, "ppe")
    /\ Stay
    /\ UNCHANGED <<task, running, accepting, stopRequested, promise, gpuVars>>
    /\ Environment

\* Overlap: submit PPE, then pose.  Either may throw; if the second does, PPE
\* is left on its stream, where the submission of the next frame follows it.
SubmitGpu(c) ==
    /\ caller[c] = "submitGpu"
    /\ \/ /\ Return(c, Error)
          /\ submitted' \in {submitted, [submitted EXCEPT !["ppe"] = frame[c]]}
          /\ UNCHANGED onGpu
       \/ /\ Goto(c, "ppe") /\ Stay
          /\ submitted' = [s \in Sessions |-> frame[c]]
          /\ onGpu' = frame[c]
    /\ UNCHANGED executorVars
    /\ Environment

\* Where process goes after PPE, when PPE returned.
AfterPpe(c) ==
    CASE path = "hybrid" -> "get"
      [] path = "overlap" -> "collect"
      [] OTHER -> "personGate"

\* infer gives the output of its own input; collect that of the last submit.
PpeOutput(c) == IF path = "overlap" THEN submitted["ppe"] ELSE frame[c]

PpeReturns(c) ==
    /\ caller[c] = "ppe"
    /\ detected' = [detected EXCEPT ![c] = PpeOutput(c)]
    /\ Goto(c, AfterPpe(c))
    /\ UNCHANGED <<executorVars, frame, result, processMutex, gpuVars>>
    /\ Environment

\* (Fault: the pose task is left alone when PPE throws.)
PpeThrowsAbandoning(c) ==
    /\ caller[c] = "ppe"
    /\ Return(c, Error)
    /\ onGpu' = NoFrame
    /\ UNCHANGED <<executorVars, submitted>>
    /\ Environment

\* PPE throws: the speculative pose inference is waited for, then the
\* exception goes on.
PpeThrows(c) ==
    /\ caller[c] = "ppe"
    /\ IF path = "hybrid"
       THEN Goto(c, "getAndRethrow") /\ Stay
       ELSE Return(c, Error)
    /\ onGpu' = NoFrame
    /\ UNCHANGED <<executorVars, submitted>>
    /\ Environment

\* shouldRunPoseInference(true, pose_requires_person, ppe_detections, ...).
ShouldRunPose(detections) == ~gate \/ detections \in WithPerson

\* Hybrid: pose_future.get() blocks until the promise is set, with the poses of
\* the caller's own task; they are cleared when the gate is closed.  On every
\* path decoding or the analytics may still throw.
Get(c) ==
    /\ caller[c] = "get"
    /\ \/ /\ promise[frame[c]] = "value"
          /\ Answer(c, IF ShouldRunPose(detected[c]) THEN frame[c] ELSE NoFrame)
       \/ promise[frame[c]] \in {"value", "error"} /\ Return(c, Error)
    /\ UNCHANGED <<executorVars, gpuVars>>
    /\ Environment

\* The catch block of a throwing PPE inference: the future is consumed first.
GetAndRethrow(c) ==
    /\ caller[c] = "getAndRethrow"
    /\ promise[frame[c]] \in {"value", "error"}
    /\ Return(c, Error)
    /\ UNCHANGED <<executorVars, gpuVars>>
    /\ Environment

\* (Fault: what was collected is decoded whatever the gate says.)
CollectUngated(c) ==
    /\ caller[c] = "collect"
    /\ onGpu' = NoFrame
    /\ Answer(c, submitted["pose"]) \/ Return(c, Error)
    /\ UNCHANGED <<executorVars, submitted>>
    /\ Environment

\* Overlap: collect the pose inference, decode it if the gate is open.
Collect(c) ==
    /\ caller[c] = "collect"
    /\ onGpu' = NoFrame
    /\ \/ Answer(c, IF ShouldRunPose(detected[c]) THEN submitted["pose"] ELSE NoFrame)
       \/ Return(c, Error)
    /\ UNCHANGED <<executorVars, submitted>>
    /\ Environment

\* Serial: the gate decides whether pose runs at all.
PersonGate(c) ==
    /\ caller[c] = "personGate"
    /\ \/ ShouldRunPose(detected[c]) /\ Goto(c, "pose") /\ Stay
       \/ ~ShouldRunPose(detected[c]) /\ (Answer(c, NoFrame) \/ Return(c, Error))
    /\ UNCHANGED <<executorVars, gpuVars>>
    /\ Environment

Pose(c) ==
    /\ caller[c] = "pose"
    /\ Answer(c, frame[c]) \/ Return(c, Error)
    /\ UNCHANGED <<executorVars, gpuVars>>
    /\ Environment

CallerStep(c) ==
    \/ Lock(c) \/ Preprocess(c) \/ Submit(c) \/ Notify(c) \/ SubmitGpu(c)
    \/ PpeReturns(c) \/ PpeThrows(c)
    \/ Get(c) \/ GetAndRethrow(c) \/ Collect(c) \/ PersonGate(c) \/ Pose(c)

-----------------------------------------------------------------------------
(* The owner: construction and destruction. *)

OwnerGoto(position) ==
    /\ owner' = position
    /\ UNCHANGED <<path, gate, processMutex, caller, frame, detected, gpuVars, result>>

\* The constructor has started the executor's thread and loads the models:
\* it succeeds, or throws, and then the executor is destroyed.
Build ==
    /\ owner = "building"
    /\ OwnerGoto("ready") \/ OwnerGoto("shutdown")
    /\ UNCHANGED executorVars

\* The destructor, when no call is in progress.
Destroy ==
    /\ owner = "ready"
    /\ \A c \in Callers : caller[c] = "idle"
    /\ OwnerGoto("shutdown")
    /\ UNCHANGED executorVars

ShutdownClose  == owner = "shutdown" /\ StopAccepting /\ OwnerGoto("stopping")
ShutdownStop   == owner = "stopping" /\ RequestStop /\ OwnerGoto("notifying")
ShutdownNotify == owner = "notifying" /\ WakeForStop /\ OwnerGoto("joining")

ShutdownJoin ==
    /\ owner = "joining"
    /\ worker = "returned"
    /\ OwnerGoto("destroyed")
    /\ UNCHANGED executorVars

OwnerStep == ShutdownClose \/ ShutdownStop \/ ShutdownNotify \/ ShutdownJoin

Terminated == owner = "destroyed" /\ UNCHANGED vars

Next ==
    \/ \E c \in Callers, f \in Frames : Call(c, f)
    \/ \E c \in Callers : CallerStep(c)
    \/ (ExecutorStep \/ WorkerSpuriousWake) /\ UNCHANGED pipelineVars
    \/ Build \/ Destroy \/ OwnerStep
    \/ Terminated

\* Every thread runs, and inference returns or throws.  A thread that waits
\* for a mutex gets it although others keep taking it.  No spurious wake-up is
\* ever due.
Fairness ==
    /\ \A c \in Callers : SF_vars(CallerStep(c))
    /\ WF_vars(ExecutorStep /\ UNCHANGED pipelineVars)
    /\ SF_vars(OwnerStep)

Spec == Init /\ [][Next]_vars /\ Fairness

-----------------------------------------------------------------------------
(* Safety. *)

\* Type invariant: the executor's part is in PoseExecutor.
TypeOK ==
    /\ ExecutorTypeOK
    /\ path \in Paths
    /\ gate \in BOOLEAN
    /\ owner \in OwnerPositions
    /\ processMutex \in Callers \cup {NoCaller}
    /\ caller \in [Callers -> CallerPositions]
    /\ frame \in [Callers -> Frames \cup {NoFrame}]
    /\ \A c \in Callers :
          frame[c] \in IF caller[c] = "idle" THEN {NoFrame} ELSE Frames
    /\ detected \in [Callers -> Frames \cup {NoFrame}]
    /\ onGpu \in Frames \cup {NoFrame}
    /\ submitted \in [Sessions -> Frames \cup {NoFrame}]
    /\ result \in [Frames -> Results]

\* A caller that is about to submit finds the executor without any task: the
\* exception "already has a pending task" is never thrown, and the pose
\* session is never used for two frames at once.
ExecutorIsIdleAtSubmit ==
    \A c \in Callers : caller[c] = "submit" =>
        accepting /\ task = NoFrame /\ running = NoFrame

\* The buffers that a task reads and the sessions it uses belong to the frame
\* in process.
TaskBelongsToCall ==
    \A f \in {task, running} \ {NoFrame} :
        \E c \in Callers :
            /\ processMutex = c /\ frame[c] = f
            /\ caller[c] \in {"notify", "ppe", "get", "getAndRethrow"}

GpuBelongsToCall ==
    onGpu # NoFrame =>
        \E c \in Callers :
            processMutex = c /\ frame[c] = onGpu /\ caller[c] \in {"ppe", "collect"}

\* A pose inference, on the executor or on the GPU, is in flight only inside
\* the call that started it, also when PPE throws meanwhile.
PoseBelongsToCall == TaskBelongsToCall /\ GpuBelongsToCall

\* The promise of a frame is set once: no task runs twice, none is set after
\* its future was answered (std::promise would throw in the worker).
PromiseSetOnce ==
    [][\A f \in Frames :
          promise[f] \in {"value", "error"} => running' # f]_vars

\* Whatever the path, and whatever was thrown before, an answer holds the
\* detections of its own frame, and its own poses exactly when the person gate
\* is open for that frame: speculation is not visible, and nothing of another
\* frame is left in a session or a future.
PathsAgree ==
    \A f \in Frames : result[f].outcome = "answer" =>
        /\ result[f].detections = f
        /\ result[f].poses = IF ~gate \/ f \in WithPerson THEN f ELSE NoFrame

-----------------------------------------------------------------------------
(* Liveness. *)

\* Every call of process returns or throws, also when PPE, pose or both
\* throw.
CallReturns == \A c \in Callers : caller[c] # "idle" ~> caller[c] = "idle"

\* The destructor of the executor returns, after use as well as when the
\* constructor of the pipeline throws.
ShutdownReturns == owner = "shutdown" ~> owner = "destroyed"
=============================================================================
