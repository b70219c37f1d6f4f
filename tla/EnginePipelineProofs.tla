------------------------- MODULE EnginePipelineProofs -------------------------
(***************************************************************************)
(* What EnginePipeline guarantees for any frames, any number of calling    *)
(* threads and every execution path.                                       *)
(***************************************************************************)
EXTENDS EnginePipeline, TLAPS

\* The positions of a caller that holds process_mutex.
Inside == CallerPositions \ {"idle", "locking"}

\* Those in which it may have a task in the executor, and has not consumed it.
Waiting == {"notify", "ppe", "get", "getAndRethrow"}

Busy == {task, running} \ {NoFrame}

-----------------------------------------------------------------------------
(* The invariant. *)

\* process_mutex is held by the one caller that is inside, and the pipeline
\* exists while it is called.
LockInv ==
    \A c \in Callers :
        /\ caller[c] \in Inside <=> processMutex = c
        /\ caller[c] # "idle" => owner = "ready"

\* The executor accepts until it is shut down, is used on the hybrid path
\* only, and a frame's promise is pending while its task is in the mailbox or
\* runs; never are both places taken.
ExecutorInv ==
    /\ owner \in {"building", "ready", "shutdown"} => accepting
    /\ task = NoFrame \/ running = NoFrame
    /\ \A f \in Frames : promise[f] = "pending" <=> f \in Busy
    /\ Busy # {} => path = "hybrid"

\* A caller is where its path leads.
PathInv ==
    \A c \in Callers :
        /\ caller[c] \in {"submit", "notify", "get", "getAndRethrow"}
              => path = "hybrid"
        /\ caller[c] \in {"personGate", "pose"} => path # "hybrid"
        /\ caller[c] = "collect" => path = "overlap"

PipelineInv ==
    /\ LockInv
    /\ ExecutorInv
    /\ PathInv
    /\ TaskBelongsToCall

-----------------------------------------------------------------------------
(* Types. *)

\* The types of what process changes.
CallTypes ==
    /\ processMutex \in Callers \cup {NoCaller}
    /\ caller \in [Callers -> CallerPositions]
    /\ frame \in [Callers -> Frames \cup {NoFrame}]
    /\ \A c \in Callers :
          frame[c] \in IF caller[c] = "idle" THEN {NoFrame} ELSE Frames
    /\ detected \in [Callers -> Frames \cup {NoFrame}]
    /\ result \in [Frames -> Results]

(* A caller goes on inside process. *)
LEMMA MoveType ==
    ASSUME CallTypes, NEW c \in Callers, NEW position \in CallerPositions \ {"idle"},
           caller[c] # "idle", Goto(c, position), UNCHANGED <<frame, result>>,
           processMutex' \in {processMutex, c},
           detected' \in [Callers -> Frames \cup {NoFrame}]
    PROVE  CallTypes'
<1>1. caller' \in [Callers -> CallerPositions]
  BY DEF CallTypes, Goto
<1>2. \A d \in Callers : caller'[d] = "idle" <=> caller[d] = "idle"
  BY DEF CallTypes, Goto
<1>3. QED
  BY <1>1, <1>2 DEF CallTypes

(* A caller returns from process. *)
LEMMA ReturnType ==
    ASSUME CallTypes, NEW c \in Callers, NEW outcome \in Results,
           Return(c, outcome)
    PROVE  CallTypes'
<1>1. caller' \in [Callers -> CallerPositions]
  BY DEF CallTypes, Return, Goto, CallerPositions
<1>2. frame' \in [Callers -> Frames \cup {NoFrame}]
  BY DEF CallTypes, Return
<1>3. ASSUME NEW d \in Callers
      PROVE  frame'[d] \in IF caller'[d] = "idle" THEN {NoFrame} ELSE Frames
  BY DEF CallTypes, Return, Goto
<1>4. result' \in [Frames -> Results]
  BY DEF CallTypes, Return
<1>5. processMutex' \in Callers \cup {NoCaller}
  BY DEF Return
<1>6. detected' \in [Callers -> Frames \cup {NoFrame}]
  BY DEF CallTypes, Return
<1>7. QED
  BY <1>1, <1>2, <1>3, <1>4, <1>5, <1>6 DEF CallTypes

(* What process returns is an error or an answer. *)
LEMMA AnswerType ==
    ASSUME CallTypes, NEW c \in Callers, NEW poses \in Frames \cup {NoFrame}
    PROVE  /\ Error \in Results
           /\ [outcome |-> "answer", detections |-> detected[c], poses |-> poses]
                 \in Results
  BY DEF CallTypes, Results, Error, Without

(* The executor's own steps and the parts of its shutdown keep its types.  *)
LEMMA ExecutorType ==
    ASSUME ExecutorTypeOK,
           \/ ExecutorStep \/ WorkerSpuriousWake
           \/ StopAccepting \/ RequestStop \/ WakeForStop
    PROVE  ExecutorTypeOK'
<1> USE DEF ExecutorTypeOK, WorkerPositions
<1>1. CASE PredicateFails \/ Park \/ WorkerReturns \/ WorkerSpuriousWake
  BY <1>1 DEF PredicateFails, Park, WorkerReturns, WorkerSpuriousWake
<1>2. CASE TakeTask
  BY <1>2 DEF TakeTask
<1>3. CASE RunTask
  <2>1. running \in Frames /\ promise \in [Frames -> PromiseStates]
    BY <1>3 DEF RunTask
  <2>2. promise' \in [Frames -> PromiseStates]
    BY <2>1, <1>3 DEF RunTask, PromiseStates
  <2>3. QED
    BY <2>2, <1>3 DEF RunTask
<1>4. CASE StopAccepting \/ RequestStop \/ WakeForStop
  BY <1>4 DEF StopAccepting, RequestStop, WakeForStop, NotifyWorker
<1>5. QED
  BY <1>1, <1>2, <1>3, <1>4 DEF ExecutorStep

(* Every step keeps the types. *)
LEMMA PipelineTypeStep == TypeOK /\ [Next]_vars => TypeOK'
<1> SUFFICES ASSUME TypeOK, [Next]_vars PROVE TypeOK'
  OBVIOUS
<1>1. CallTypes /\ ExecutorTypeOK
  BY DEF TypeOK, CallTypes
<1>2. /\ path \in Paths /\ gate \in BOOLEAN /\ owner \in OwnerPositions
      /\ onGpu \in Frames \cup {NoFrame}
      /\ submitted \in [Sessions -> Frames \cup {NoFrame}]
  BY DEF TypeOK
<1>3. ASSUME CallTypes', ExecutorTypeOK', UNCHANGED <<path, gate, owner>>,
             onGpu' \in Frames \cup {NoFrame},
             submitted' \in [Sessions -> Frames \cup {NoFrame}]
      PROVE  TypeOK'
  BY <1>2, <1>3 DEF TypeOK, CallTypes
<1>4. ASSUME UNCHANGED executorVars PROVE ExecutorTypeOK'
  BY <1>1, <1>4 DEF executorVars, ExecutorTypeOK
<1>5. ASSUME NEW c \in Callers, NEW f \in Frames, Call(c, f) PROVE TypeOK'
  <2>1. CallTypes'
    BY <1>1, <1>5 DEF Call, Goto, CallTypes, CallerPositions
  <2>2. QED
    BY <2>1, <1>2, <1>3, <1>4, <1>5 DEF Call, Environment, gpuVars
<1>6. ASSUME NEW c \in Callers, CallerStep(c) PROVE TypeOK'
  <2>1. UNCHANGED <<path, gate, owner>>
    BY <1>6 DEF CallerStep, Lock, Preprocess, Submit, Notify, SubmitGpu,
       PpeReturns, PpeThrows, Get, GetAndRethrow, Collect, PersonGate, Pose, Environment
  <2>2. caller[c] # "idle" /\ frame[c] \in Frames
    BY <1>1, <1>6 DEF CallerStep, Lock, Preprocess, Submit, Notify, SubmitGpu,
       PpeReturns, PpeThrows, Get, GetAndRethrow, Collect, PersonGate, Pose, CallTypes
  <2>3. /\ onGpu' \in Frames \cup {NoFrame}
        /\ submitted' \in [Sessions -> Frames \cup {NoFrame}]
    BY <1>2, <1>6, <2>2 DEF CallerStep, Lock, Preprocess, Submit, Notify,
       SubmitGpu, PpeReturns, PpeThrows, Get, GetAndRethrow, Collect, PersonGate,
       Pose, gpuVars
  <2>4. /\ Error \in Results
        /\ \A g \in Frames \cup {NoFrame} : Answer(c, g) => CallTypes'
    <3>1. ASSUME NEW g \in Frames \cup {NoFrame}, Answer(c, g) PROVE CallTypes'
      BY <3>1, <1>1, AnswerType, ReturnType DEF Answer
    <3>2. QED
      BY <3>1, <1>1, AnswerType
  <2>5. CallTypes'
    <3>1. ASSUME NEW position \in CallerPositions \ {"idle"}, Goto(c, position),
                 Stay
          PROVE  CallTypes'
      BY <3>1, <1>1, <2>2, MoveType DEF Stay, CallTypes
    <3>2. ASSUME NEW outcome \in Results, Return(c, outcome) PROVE CallTypes'
      BY <3>2, <1>1, ReturnType
    <3>3. CASE Lock(c)
      BY <3>3, <1>1, <2>2, MoveType DEF Lock, CallerPositions, CallTypes
    <3>4. CASE Preprocess(c)
      <4>1. (CASE path = "hybrid" -> "submit"
               [] path = "overlap" -> "submitGpu"
               [] OTHER -> "ppe") \in CallerPositions \ {"idle"}
        BY DEF CallerPositions
      <4>2. QED
        BY <4>1, <3>1, <3>2, <3>4, <2>4 DEF Preprocess
    <3>5. CASE Submit(c) \/ Notify(c) \/ SubmitGpu(c)
      BY <3>5, <3>1, <3>2, <2>4 DEF Submit, Notify, SubmitGpu, CallerPositions
    <3>6. CASE PpeReturns(c) \/ PpeThrows(c)
      <4>1. AfterPpe(c) \in CallerPositions \ {"idle"}
        BY DEF AfterPpe, CallerPositions
      <4>2. "getAndRethrow" \in CallerPositions \ {"idle"}
        BY DEF CallerPositions
      <4>3. CASE PpeReturns(c)
        <5>1. PpeOutput(c) \in Frames \cup {NoFrame}
          BY <1>2, <2>2 DEF PpeOutput, Sessions
        <5>2. detected' \in [Callers -> Frames \cup {NoFrame}]
          BY <4>3, <5>1, <1>1 DEF PpeReturns, CallTypes
        <5>3. QED
          BY <4>1, <4>3, <5>2, <1>1, <2>2, MoveType DEF PpeReturns
      <4>4. QED
        BY <4>2, <4>3, <3>6, <3>1, <3>2, <2>4 DEF PpeThrows
    <3>7. CASE Get(c) \/ GetAndRethrow(c) \/ Collect(c)
      <4>1. /\ NoFrame \in Frames \cup {NoFrame}
            /\ frame[c] \in Frames \cup {NoFrame}
            /\ submitted["pose"] \in Frames \cup {NoFrame}
        BY <1>2, <2>2 DEF Sessions
      <4>2. QED
        BY <4>1, <3>7, <3>2, <2>4 DEF Get, GetAndRethrow, Collect
    <3>9. CASE PersonGate(c) \/ Pose(c)
      <4>1. "pose" \in CallerPositions \ {"idle"}
        BY DEF CallerPositions
      <4>2. QED
        BY <4>1, <3>9, <3>1, <3>2, <2>2, <2>4 DEF PersonGate, Pose
    <3>8. QED
      BY <1>6, <3>3, <3>4, <3>5, <3>6, <3>7, <3>9 DEF CallerStep
  <2>6. ExecutorTypeOK'
    <3>1. CASE Deposit(frame[c])
      BY <3>1, <1>1, <2>2 DEF Deposit, ExecutorTypeOK, PromiseStates
    <3>2. CASE Notify(c)
      BY <3>2, <1>1 DEF Notify, NotifyWorker, ExecutorTypeOK, WorkerPositions
    <3>3. CASE UNCHANGED executorVars
      BY <3>3, <1>4
    <3>4. QED
      BY <1>6, <3>1, <3>2, <3>3 DEF CallerStep, Lock, Preprocess, Submit,
         SubmitGpu, PpeReturns, PpeThrows, Get, GetAndRethrow, Collect, PersonGate, Pose
  <2>7. QED
    BY <1>3, <2>1, <2>3, <2>5, <2>6
<1>7. CASE (ExecutorStep \/ WorkerSpuriousWake) /\ UNCHANGED pipelineVars
  BY <1>7, <1>1, ExecutorType DEF pipelineVars, gpuVars, TypeOK, CallTypes
<1>8. ASSUME NEW position \in OwnerPositions, OwnerGoto(position),
             ExecutorTypeOK'
      PROVE  TypeOK'
  BY <1>8 DEF OwnerGoto, gpuVars, TypeOK
<1>9. CASE Build \/ Destroy
  BY <1>4, <1>8, <1>9 DEF Build, Destroy, OwnerPositions
<1>10. CASE OwnerStep
  <2>1. ExecutorTypeOK'
    BY <1>1, <1>4, <1>10, ExecutorType DEF OwnerStep, ShutdownClose,
       ShutdownStop, ShutdownNotify, ShutdownJoin
  <2>2. QED
    BY <2>1, <1>8, <1>10 DEF OwnerStep, ShutdownClose, ShutdownStop,
       ShutdownNotify, ShutdownJoin, OwnerPositions
<1>11. CASE Terminated \/ UNCHANGED vars
  <2>1. UNCHANGED vars
    BY <1>11 DEF Terminated
  <2>2. QED
    BY <2>1, <1>3, <1>4, <1>1, <1>2 DEF vars, pipelineVars, gpuVars, CallTypes
<1>12. QED
  BY <1>5, <1>6, <1>7, <1>9, <1>10, <1>11 DEF Next

(* In every reachable state the executor, the callers and the owner have    *)
(* their types.                                                             *)
THEOREM PipelineTypeCorrect == Spec => []TypeOK
<1>1. Init => TypeOK
  <2> SUFFICES ASSUME Init PROVE TypeOK
    OBVIOUS
  <2>1. ExecutorTypeOK
    BY DEF Init, ExecutorInit, ExecutorTypeOK, WorkerPositions, PromiseStates
  <2>2. QED
    BY <2>1 DEF Init, TypeOK, OwnerPositions, CallerPositions, Results, Without
<1>2. QED
  BY <1>1, PipelineTypeStep, PTL DEF Spec

-----------------------------------------------------------------------------
(* The invariant holds. *)

\* The part of the executor that the invariant is about.
MailboxKept == UNCHANGED <<task, running, accepting, promise>>

(* A caller inside process that cannot have a task finds no task at all.    *)
LEMMA NoTaskOfOthers ==
    ASSUME TypeOK, PipelineInv, NEW c \in Callers, caller[c] \in Inside,
           caller[c] \notin Waiting
    PROVE  Busy = {}
<1>1. processMutex = c
  BY DEF PipelineInv, LockInv
<1>2. ASSUME NEW f \in Busy PROVE FALSE
  <2>1. PICK d \in Callers : processMutex = d /\ caller[d] \in Waiting
    BY <1>2 DEF PipelineInv, TaskBelongsToCall, Busy, Waiting
  <2>2. QED
    BY <2>1, <1>1
<1>3. QED
  BY <1>2

(* A caller goes on inside process, with its task if it has one.            *)
LEMMA MovePreserves ==
    ASSUME TypeOK, PipelineInv, NEW c \in Callers, NEW position \in Inside,
           caller[c] \in Inside, Goto(c, position),
           UNCHANGED <<frame, processMutex>>, MailboxKept, Environment,
           caller[c] \in Waiting => position \in Waiting \/ Busy = {},
           position \in {"submit", "notify", "get", "getAndRethrow"}
              => path = "hybrid",
           position \in {"personGate", "pose"} => path # "hybrid",
           position = "collect" => path = "overlap"
    PROVE  PipelineInv'
<1>1. \A d \in Callers : caller'[d] = IF d = c THEN position ELSE caller[d]
  BY DEF TypeOK, Goto
<1>2. UNCHANGED <<owner, processMutex, frame, path, task, running, accepting, promise>>
  BY DEF Environment, MailboxKept
<1>3. LockInv'
  BY <1>1, <1>2 DEF PipelineInv, LockInv, Inside
<1>4. ExecutorInv'
  BY <1>2 DEF PipelineInv, ExecutorInv, Busy
<1>5. PathInv'
  BY <1>1, <1>2 DEF PipelineInv, PathInv
<1>6. TaskBelongsToCall'
  <2>1. ASSUME NEW f \in Busy
        PROVE  \E d \in Callers : /\ processMutex = d /\ frame[d] = f
                                  /\ caller'[d] \in Waiting
    <3>1. PICK d \in Callers : /\ processMutex = d /\ frame[d] = f
                               /\ caller[d] \in Waiting
      BY <2>1 DEF PipelineInv, TaskBelongsToCall, Busy, Waiting
    <3>2. d = c
      BY <3>1 DEF PipelineInv, LockInv
    <3>3. QED
      BY <3>1, <3>2, <2>1, <1>1
  <2>2. QED
    BY <2>1, <1>2 DEF TaskBelongsToCall, Busy, Waiting
<1>7. QED
  BY <1>3, <1>4, <1>5, <1>6 DEF PipelineInv

(* A caller returns when its task has been consumed, or was never made.     *)
LEMMA ReturnPreserves ==
    ASSUME TypeOK, PipelineInv, NEW c \in Callers, NEW outcome,
           caller[c] \in Inside, Return(c, outcome), MailboxKept, Environment,
           Busy = {}
    PROVE  PipelineInv'
<1>1. \A d \in Callers : caller'[d] = IF d = c THEN "idle" ELSE caller[d]
  BY DEF TypeOK, Return, Goto
<1>2. UNCHANGED <<owner, path, task, running, accepting, promise>>
  BY DEF Environment, MailboxKept
<1>3. processMutex = c /\ processMutex' = NoCaller /\ NoCaller \notin Callers
  BY PipelineAssumption DEF PipelineInv, LockInv, Return
<1>4. LockInv'
  <2>1. \A d \in Callers \ {c} : caller[d] \notin Inside
    BY <1>3 DEF PipelineInv, LockInv
  <2>2. QED
    BY <2>1, <1>1, <1>2, <1>3 DEF PipelineInv, LockInv, Inside
<1>5. ExecutorInv'
  BY <1>2 DEF PipelineInv, ExecutorInv, Busy
<1>6. PathInv'
  BY <1>1, <1>2 DEF PipelineInv, PathInv
<1>7. TaskBelongsToCall'
  BY <1>2 DEF TaskBelongsToCall, Busy
<1>8. QED
  BY <1>4, <1>5, <1>6, <1>7 DEF PipelineInv

(* A call begins, or takes the lock. *)
LEMMA EnterPreserves ==
    ASSUME TypeOK, PipelineInv, NEW c \in Callers,
           Lock(c) \/ \E f \in Frames : Call(c, f)
    PROVE  PipelineInv'
<1>1. CASE Lock(c)
  <2>1. \A d \in Callers : caller'[d] = IF d = c THEN "preprocess" ELSE caller[d]
    BY <1>1 DEF TypeOK, Lock, Goto
  <2>2. /\ UNCHANGED <<owner, path, task, running, accepting, promise, frame>>
        /\ caller[c] = "locking" /\ processMutex = NoCaller /\ processMutex' = c
    BY <1>1 DEF Lock, Environment, executorVars
  <2>3. NoCaller \notin Callers
    BY PipelineAssumption
  <2>4. Busy = {}
    BY <2>2, <2>3 DEF PipelineInv, TaskBelongsToCall, Busy
  <2>5. LockInv'
    BY <2>1, <2>2, <2>3 DEF PipelineInv, LockInv, Inside, CallerPositions
  <2>6. ExecutorInv' /\ PathInv' /\ TaskBelongsToCall'
    BY <2>1, <2>2, <2>4
       DEF PipelineInv, ExecutorInv, PathInv, TaskBelongsToCall, Busy
  <2>7. QED
    BY <2>5, <2>6 DEF PipelineInv
<1>2. ASSUME NEW f \in Frames, Call(c, f) PROVE PipelineInv'
  <2>1. \A d \in Callers : caller'[d] = IF d = c THEN "locking" ELSE caller[d]
    BY <1>2 DEF TypeOK, Call, Goto
  <2>2. \A d \in Callers : d # c => frame'[d] = frame[d]
    BY <1>2 DEF TypeOK, Call
  <2>3. /\ UNCHANGED <<owner, path, task, running, accepting, promise, processMutex>>
        /\ caller[c] = "idle" /\ owner = "ready"
    BY <1>2 DEF Call, Environment, executorVars
  <2>4. LockInv'
    BY <2>1, <2>3 DEF PipelineInv, LockInv, Inside
  <2>5. ExecutorInv' /\ PathInv'
    BY <2>1, <2>3 DEF PipelineInv, ExecutorInv, PathInv, Busy
  <2>6. TaskBelongsToCall'
    <3>1. ASSUME NEW g \in Busy
          PROVE  \E d \in Callers : /\ processMutex = d /\ frame'[d] = g
                                    /\ caller'[d] \in Waiting
      <4>1. PICK d \in Callers : /\ processMutex = d /\ frame[d] = g
                                 /\ caller[d] \in Waiting
        BY <3>1 DEF PipelineInv, TaskBelongsToCall, Busy, Waiting
      <4>2. d # c
        BY <4>1, <2>3 DEF Waiting
      <4>3. QED
        BY <4>1, <4>2, <2>1, <2>2
    <3>2. QED
      BY <3>1, <2>3 DEF TaskBelongsToCall, Busy, Waiting
  <2>7. QED
    BY <2>4, <2>5, <2>6 DEF PipelineInv
<1>3. QED
  BY <1>1, <1>2

(* submit puts the caller's frame into the empty mailbox. *)
LEMMA DepositPreserves ==
    ASSUME TypeOK, PipelineInv, NEW c \in Callers, Submit(c), Deposit(frame[c])
    PROVE  PipelineInv'
<1>1. caller[c] = "submit" /\ CallerPositions = CallerPositions
  BY DEF Submit
<1>2. Busy = {} /\ caller[c] \in Inside
  BY <1>1, NoTaskOfOthers DEF Inside, Waiting, CallerPositions
<1>3. frame[c] \in Frames /\ frame[c] # NoFrame
  BY <1>1, ExecutorAssumption DEF TypeOK
<1>4. task = NoFrame /\ running = NoFrame
  BY <1>2 DEF Busy
<1>5. /\ \A d \in Callers : caller'[d] = IF d = c THEN "notify" ELSE caller[d]
      /\ UNCHANGED <<frame, processMutex>>
  <2>1. ~Return(c, Error)
    <3>1. \A f \in Frames : promise'[f] = IF f = frame[c] THEN "pending" ELSE promise[f]
      BY DEF TypeOK, ExecutorTypeOK, Deposit
    <3>2. task' # task
      BY <1>3, <1>4 DEF Deposit
    <3>3. Goto(c, "notify") /\ Stay
      BY <3>2 DEF Submit, executorVars
    <3>4. processMutex = c /\ processMutex' = processMutex
      BY <3>3, <1>2 DEF PipelineInv, LockInv, Stay
    <3>5. QED
      BY <3>4, PipelineAssumption DEF Return
  <2>2. Goto(c, "notify") /\ Stay
    BY <2>1 DEF Submit
  <2>3. QED
    BY <2>2 DEF Goto, Stay, TypeOK
<1>6. /\ task' = frame[c] /\ running' = NoFrame
      /\ UNCHANGED <<accepting, owner, path>>
      /\ \A f \in Frames : promise'[f] = IF f = frame[c] THEN "pending" ELSE promise[f]
  BY <1>4 DEF TypeOK, ExecutorTypeOK, Deposit, Submit, Environment
<1>7. Busy' = {frame[c]}
  BY <1>3, <1>6 DEF Busy
<1>8. path = "hybrid"
  BY <1>1 DEF PipelineInv, PathInv
<1>9. LockInv'
  BY <1>2, <1>5, <1>6 DEF PipelineInv, LockInv, Inside, CallerPositions
<1>10. ExecutorInv'
  BY <1>2, <1>3, <1>6, <1>7, <1>8 DEF PipelineInv, ExecutorInv
<1>11. PathInv'
  BY <1>5, <1>6, <1>8 DEF PipelineInv, PathInv
<1>12. TaskBelongsToCall'
  <2>1. processMutex = c
    BY <1>2 DEF PipelineInv, LockInv
  <2>2. QED
    BY <2>1, <1>5, <1>7 DEF TaskBelongsToCall, Busy
<1>13. QED
  BY <1>9, <1>10, <1>11, <1>12 DEF PipelineInv

(* What the worker does with the mailbox. *)
LEMMA WorkerPreserves ==
    ASSUME TypeOK, PipelineInv, ExecutorStep \/ WorkerSpuriousWake,
           UNCHANGED pipelineVars
    PROVE  PipelineInv'
<1>1. UNCHANGED <<owner, processMutex, caller, frame, path>>
  BY DEF pipelineVars
<1>2. LockInv' /\ PathInv'
  BY <1>1 DEF PipelineInv, LockInv, PathInv
<1>3. ASSUME Busy' \subseteq Busy PROVE TaskBelongsToCall'
  BY <1>1, <1>3 DEF PipelineInv, TaskBelongsToCall, Busy
<1>4. CASE MailboxKept
  BY <1>1, <1>2, <1>3, <1>4 DEF PipelineInv, ExecutorInv, Busy, MailboxKept
<1>5. CASE TakeTask
  <2>1. /\ running' = task /\ task' = NoFrame /\ running = NoFrame
        /\ UNCHANGED <<accepting, promise>>
    BY <1>5 DEF TakeTask, PipelineInv, ExecutorInv
  <2>2. Busy' = Busy
    BY <2>1 DEF Busy
  <2>3. QED
    BY <2>1, <2>2, <1>1, <1>2, <1>3 DEF PipelineInv, ExecutorInv
<1>6. CASE RunTask
  <2>1. /\ running \in Frames /\ running # NoFrame /\ running' = NoFrame
        /\ UNCHANGED <<task, accepting>>
    BY <1>6, ExecutorAssumption DEF RunTask, TypeOK, ExecutorTypeOK
  <2>2. PICK outcome \in {"value", "error"} :
           promise' = [promise EXCEPT ![running] = outcome]
    BY <1>6 DEF RunTask
  <2>3. \A f \in Frames : promise'[f] = IF f = running THEN outcome ELSE promise[f]
    BY <2>2 DEF TypeOK, ExecutorTypeOK
  <2>4. task = NoFrame
    BY <2>1 DEF PipelineInv, ExecutorInv
  <2>5. Busy = {running} /\ Busy' = {}
    BY <2>1, <2>4 DEF Busy
  <2>6. ExecutorInv'
    BY <2>1, <2>3, <2>4, <2>5, <1>1 DEF PipelineInv, ExecutorInv
  <2>7. QED
    BY <2>5, <2>6, <1>2, <1>3 DEF PipelineInv
<1>7. QED
  BY <1>4, <1>5, <1>6 DEF ExecutorStep, PredicateFails, Park, WorkerReturns,
     WorkerSpuriousWake, MailboxKept

(* A step of a call. *)
LEMMA CallerPreserves ==
    ASSUME TypeOK, PipelineInv, NEW c \in Callers, CallerStep(c)
    PROVE  PipelineInv'
<1>1. CASE Lock(c)
  BY <1>1, EnterPreserves
<1>2. ASSUME UNCHANGED executorVars PROVE MailboxKept
  BY <1>2 DEF executorVars, MailboxKept
<1>3. path \in {"serial", "hybrid", "overlap"}
  BY PipelineAssumption DEF TypeOK
<1> USE DEF Inside, Waiting, CallerPositions
<1>4. CASE Preprocess(c)
  <2>1. Busy = {}
    BY <1>4, NoTaskOfOthers DEF Preprocess
  <2>2. CASE Return(c, Error)
    BY <2>1, <2>2, <1>2, <1>4, ReturnPreserves DEF Preprocess
  <2>3. ASSUME NEW position \in {"submit", "submitGpu", "ppe"},
               Goto(c, position), Stay, position = "submit" => path = "hybrid"
        PROVE  PipelineInv'
    BY <2>1, <2>3, <1>2, <1>4, MovePreserves DEF Preprocess, Stay
  <2>4. QED
    BY <2>2, <2>3, <1>3, <1>4 DEF Preprocess
<1>5. CASE Submit(c)
  <2>1. Busy = {}
    BY <1>5, NoTaskOfOthers DEF Submit
  <2>2. CASE Deposit(frame[c])
    BY <2>2, <1>5, DepositPreserves
  <2>3. CASE Return(c, Error) /\ UNCHANGED executorVars
    BY <2>1, <2>3, <1>2, <1>5, ReturnPreserves DEF Submit
  <2>4. QED
    BY <2>2, <2>3, <1>5 DEF Submit
<1>6. CASE Notify(c)
  BY <1>6, MovePreserves DEF Notify, MailboxKept, Stay, PipelineInv, PathInv
<1>7. CASE SubmitGpu(c)
  <2>1. Busy = {}
    BY <1>7, NoTaskOfOthers DEF SubmitGpu
  <2>2. QED
    BY <2>1, <1>2, <1>7, ReturnPreserves, MovePreserves DEF SubmitGpu, Stay
<1>8. CASE PpeReturns(c)
  <2>1. path # "hybrid" => Busy = {}
    BY DEF PipelineInv, ExecutorInv
  <2>2. CASE path = "hybrid"
    BY <2>2, <1>2, <1>8, MovePreserves DEF PpeReturns, AfterPpe
  <2>3. CASE path # "hybrid"
    BY <2>1, <2>3, <1>2, <1>3, <1>8, MovePreserves DEF PpeReturns, AfterPpe
  <2>4. QED
    BY <2>2, <2>3
<1>9. CASE PpeThrows(c)
  <2>1. path # "hybrid" => Busy = {}
    BY DEF PipelineInv, ExecutorInv
  <2>2. CASE path = "hybrid"
    BY <2>2, <1>2, <1>9, MovePreserves DEF PpeThrows, Stay
  <2>3. CASE path # "hybrid"
    BY <2>1, <2>3, <1>2, <1>9, ReturnPreserves DEF PpeThrows
  <2>4. QED
    BY <2>2, <2>3
<1>10. CASE Get(c) \/ GetAndRethrow(c)
  <2>1. Busy = {}
    <3>1. promise[frame[c]] # "pending" /\ processMutex = c
      BY <1>10 DEF Get, GetAndRethrow, PipelineInv, LockInv
    <3>2. ASSUME NEW f \in Busy PROVE FALSE
      <4>1. frame[c] = f /\ f \in Frames
        BY <3>1, <3>2 DEF PipelineInv, TaskBelongsToCall, Busy, TypeOK,
           ExecutorTypeOK
      <4>2. QED
        BY <4>1, <3>1, <3>2 DEF PipelineInv, ExecutorInv
    <3>3. QED
      BY <3>2
  <2>2. QED
    BY <2>1, <1>2, <1>10, ReturnPreserves DEF Get, GetAndRethrow, Answer
<1>11. CASE Collect(c) \/ PersonGate(c) \/ Pose(c)
  <2>1. Busy = {}
    BY <1>11, NoTaskOfOthers DEF Collect, PersonGate, Pose
  <2>2. caller[c] = "personGate" => path # "hybrid"
    BY DEF PipelineInv, PathInv
  <2>3. CASE PersonGate(c) /\ Goto(c, "pose") /\ Stay
    BY <2>1, <2>2, <2>3, <1>2, MovePreserves DEF PersonGate, Stay
  <2>4. QED
    BY <2>1, <2>3, <1>2, <1>11, ReturnPreserves DEF Collect, PersonGate, Pose, Answer
<1>12. QED
  BY <1>1, <1>4, <1>5, <1>6, <1>7, <1>8, <1>9, <1>10, <1>11 DEF CallerStep

(* The owner destroys the pipeline only when nobody calls it. *)
LEMMA OwnerPreserves ==
    ASSUME TypeOK, PipelineInv, Build \/ Destroy \/ OwnerStep
    PROVE  PipelineInv'
<1>1. UNCHANGED <<path, processMutex, caller, frame>>
  BY DEF Build, Destroy, OwnerStep, ShutdownClose, ShutdownStop,
     ShutdownNotify, ShutdownJoin, OwnerGoto
<1>2. UNCHANGED <<task, running, promise>>
  BY DEF Build, Destroy, OwnerStep, ShutdownClose, ShutdownStop,
     ShutdownNotify, ShutdownJoin, StopAccepting, RequestStop, WakeForStop,
     executorVars
<1>3. \A c \in Callers : caller[c] = "idle"
  <2>1. owner # "ready" \/ Destroy
    BY DEF Build, OwnerStep, ShutdownClose, ShutdownStop, ShutdownNotify,
       ShutdownJoin
  <2>2. QED
    BY <2>1 DEF Destroy, PipelineInv, LockInv
<1>4. LockInv'
  BY <1>1, <1>3 DEF PipelineInv, LockInv
<1>5. owner' \in {"building", "ready", "shutdown"}
         => accepting' = accepting /\ owner \in {"building", "ready", "shutdown"}
  BY DEF Build, Destroy, OwnerStep, ShutdownClose, ShutdownStop,
     ShutdownNotify, ShutdownJoin, OwnerGoto, executorVars
<1>6. ExecutorInv'
  BY <1>1, <1>2, <1>5 DEF PipelineInv, ExecutorInv, Busy
<1>7. PathInv' /\ TaskBelongsToCall'
  BY <1>1, <1>2 DEF PipelineInv, PathInv, TaskBelongsToCall
<1>8. QED
  BY <1>4, <1>6, <1>7 DEF PipelineInv

(* Every step preserves the invariant. *)
LEMMA PipelineInvStep ==
    ASSUME TypeOK, PipelineInv, [Next]_vars
    PROVE  PipelineInv'
<1>1. CASE \E c \in Callers, f \in Frames : Call(c, f)
  BY <1>1, EnterPreserves
<1>2. CASE \E c \in Callers : CallerStep(c)
  BY <1>2, CallerPreserves
<1>3. CASE (ExecutorStep \/ WorkerSpuriousWake) /\ UNCHANGED pipelineVars
  BY <1>3, WorkerPreserves
<1>4. CASE Build \/ Destroy \/ OwnerStep
  BY <1>4, OwnerPreserves
<1>5. CASE Terminated \/ UNCHANGED vars
  <2>1. UNCHANGED vars
    BY <1>5 DEF Terminated
  <2>2. QED
    BY <2>1 DEF vars, executorVars, pipelineVars, PipelineInv, LockInv,
       ExecutorInv, PathInv, TaskBelongsToCall, Busy
<1>6. QED
  BY <1>1, <1>2, <1>3, <1>4, <1>5 DEF Next

(* The mutex, the mailbox, the promises and the paths are used as intended. *)
LEMMA PipelineCorrect == Spec => []PipelineInv
<1>1. Init => PipelineInv
  <2> SUFFICES ASSUME Init PROVE PipelineInv
    OBVIOUS
  <2>1. Busy = {}
    BY DEF Init, ExecutorInit, Busy
  <2>2. LockInv
    BY PipelineAssumption DEF Init, LockInv, Inside
  <2>3. ExecutorInv /\ PathInv /\ TaskBelongsToCall
    BY <2>1 DEF Init, ExecutorInit, ExecutorInv, PathInv, TaskBelongsToCall, Busy
  <2>4. QED
    BY <2>2, <2>3 DEF PipelineInv
<1>2. TypeOK /\ PipelineInv /\ [Next]_vars => PipelineInv'
  BY PipelineInvStep
<1>3. QED
  BY <1>1, <1>2, PipelineTypeCorrect, PTL DEF Spec

-----------------------------------------------------------------------------
(* The theorems. *)

\* The GPU is used on the overlap path only.
GpuInv ==
    /\ \A c \in Callers : caller[c] = "submitGpu" => path = "overlap"
    /\ onGpu # NoFrame => path = "overlap"
    /\ GpuBelongsToCall

(* A call that is not in flight on the GPU leaves the one that is alone.    *)
LEMMA GpuKept ==
    ASSUME TypeOK, PipelineInv, GpuInv, UNCHANGED <<onGpu, path>>,
           NEW c \in Callers, c # processMutex \/ onGpu = NoFrame,
           \A d \in Callers \ {c} : caller'[d] = caller[d] /\ frame'[d] = frame[d],
           processMutex' = processMutex \/ onGpu = NoFrame,
           caller'[c] = "submitGpu" => path = "overlap"
    PROVE  GpuInv'
<1>1. \A d \in Callers : caller'[d] = "submitGpu" => path' = "overlap"
  BY DEF GpuInv
<1>2. GpuBelongsToCall'
  BY DEF GpuInv, GpuBelongsToCall
<1>3. QED
  BY <1>1, <1>2 DEF GpuInv

(* Every step of a call keeps the GPU inside one call. *)
LEMMA GpuCallerStep ==
    ASSUME TypeOK, PipelineInv, GpuInv, NEW c \in Callers, CallerStep(c)
    PROVE  GpuInv'
<1>1. /\ \A d \in Callers \ {c} : caller'[d] = caller[d] /\ frame'[d] = frame[d]
      /\ path' = path
  BY DEF CallerStep, Lock, Preprocess, Submit, Notify, SubmitGpu, PpeReturns,
     PpeThrows, Get, GetAndRethrow, Collect, PersonGate, Pose, Environment, Goto, Return,
     Answer, Stay, TypeOK
<1>2. caller[c] # "locking" => processMutex = c
  <2>1. caller[c] # "idle"
    BY DEF CallerStep, Lock, Preprocess, Submit, Notify, SubmitGpu, PpeReturns,
       PpeThrows, Get, GetAndRethrow, Collect, PersonGate, Pose
  <2>2. caller[c] \in CallerPositions
    BY DEF TypeOK
  <2>3. QED
    BY <2>1, <2>2 DEF PipelineInv, LockInv, Inside
<1>3. onGpu # NoFrame => /\ path = "overlap" /\ processMutex \in Callers
                         /\ frame[processMutex] = onGpu
                         /\ caller[processMutex] \in {"ppe", "collect"}
  BY DEF GpuInv, GpuBelongsToCall
<1>4. CASE Lock(c)
  <2>1. onGpu = NoFrame
    BY <1>3, <1>4, PipelineAssumption DEF Lock
  <2>2. caller'[c] = "preprocess" /\ UNCHANGED onGpu
    BY <1>4 DEF Lock, Goto, TypeOK, gpuVars
  <2>3. QED
    BY <2>1, <2>2, <1>1, GpuKept
<1>5. CASE Preprocess(c)
  <2>1. onGpu = NoFrame /\ UNCHANGED onGpu
    BY <1>2, <1>3, <1>5 DEF Preprocess, gpuVars
  <2>2. caller'[c] = "submitGpu" => path = "overlap"
    <3>1. ASSUME NEW position, Goto(c, position) PROVE caller'[c] = position
      BY <3>1 DEF Goto, TypeOK
    <3>2. CASE Return(c, Error)
      BY <3>1, <3>2 DEF Return
    <3>3. CASE Goto(c, CASE path = "hybrid" -> "submit"
                         [] path = "overlap" -> "submitGpu"
                         [] OTHER -> "ppe")
      <4>1. caller'[c] = (CASE path = "hybrid" -> "submit"
                            [] path = "overlap" -> "submitGpu"
                            [] OTHER -> "ppe")
        BY <3>1, <3>3
      <4>2. QED
        BY <4>1
    <3>4. QED
      BY <3>2, <3>3, <1>5 DEF Preprocess
  <2>3. QED
    BY <2>1, <2>2, <1>1, GpuKept
<1>6. CASE Submit(c) \/ Notify(c) \/ Get(c) \/ GetAndRethrow(c) \/ PersonGate(c) \/ Pose(c)
  <2>1. onGpu = NoFrame /\ UNCHANGED onGpu
    BY <1>2, <1>3, <1>6 DEF Submit, Notify, Get, GetAndRethrow, PersonGate, Pose, gpuVars
  <2>2. caller'[c] # "submitGpu"
    BY <1>6 DEF Submit, Notify, Get, GetAndRethrow, PersonGate, Pose, Answer, Return, Goto, TypeOK
  <2>3. QED
    BY <2>1, <2>2, <1>1, GpuKept
<1>7. \A d \in Callers \ {c} : caller'[d] = "submitGpu" => path' = "overlap"
  BY <1>1 DEF GpuInv
<1>8. ASSUME onGpu' = NoFrame, caller'[c] # "submitGpu" PROVE GpuInv'
  BY <1>7, <1>8 DEF GpuInv, GpuBelongsToCall
<1>9. CASE SubmitGpu(c)
  <2>1. path = "overlap" /\ processMutex = c /\ onGpu = NoFrame
    BY <1>2, <1>3, <1>9 DEF SubmitGpu, GpuInv
  <2>2. CASE Return(c, Error) /\ UNCHANGED onGpu
    BY <2>1, <2>2, <1>8 DEF Return, Goto, TypeOK
  <2>3. CASE onGpu' = frame[c] /\ Goto(c, "ppe") /\ Stay
    <3>1. /\ caller'[c] = "ppe" /\ frame'[c] = onGpu' /\ processMutex' = c
          /\ path' = "overlap"
      BY <2>1, <2>3, <1>1 DEF Goto, Stay, TypeOK
    <3>2. QED
      BY <3>1, <1>7 DEF GpuInv, GpuBelongsToCall
  <2>4. QED
    BY <2>2, <2>3, <1>9 DEF SubmitGpu
<1>10. CASE PpeReturns(c)
  <2>1. processMutex = c /\ UNCHANGED <<onGpu, frame, processMutex>>
    BY <1>2, <1>10 DEF PpeReturns, gpuVars
  <2>2. caller'[c] = AfterPpe(c) /\ AfterPpe(c) # "submitGpu"
    BY <1>10 DEF PpeReturns, Goto, AfterPpe, TypeOK
  <2>3. CASE onGpu = NoFrame
    BY <2>1, <2>2, <2>3, <1>8
  <2>4. CASE onGpu # NoFrame
    <3>1. caller'[c] = "collect" /\ frame[c] = onGpu /\ path' = "overlap"
      BY <2>1, <2>2, <2>4, <1>1, <1>3 DEF AfterPpe
    <3>2. QED
      BY <3>1, <2>1, <1>7 DEF GpuInv, GpuBelongsToCall
  <2>5. QED
    BY <2>3, <2>4
<1>11. CASE PpeThrows(c) \/ Collect(c)
  BY <1>8, <1>11 DEF PpeThrows, Collect, Answer, Return, Goto, TypeOK
<1>12. QED
  BY <1>4, <1>5, <1>6, <1>9, <1>10, <1>11 DEF CallerStep

(* A pose inference is in flight, on the executor or on the GPU, only inside *)
(* the call that started it, also when PPE throws meanwhile: its buffers and *)
(* sessions are never those of another frame.                                *)
THEOREM PoseStaysInCall == Spec => []PoseBelongsToCall
<1>1. Init => GpuInv
  BY DEF Init, GpuInv, GpuBelongsToCall
<1>2. TypeOK /\ PipelineInv /\ GpuInv /\ [Next]_vars => GpuInv'
  <2> SUFFICES ASSUME TypeOK, PipelineInv, GpuInv, [Next]_vars PROVE GpuInv'
    OBVIOUS
  <2>1. ASSUME NEW c \in Callers, NEW f \in Frames, Call(c, f) PROVE GpuInv'
    <3>1. caller[c] = "idle" /\ caller'[c] = "locking"
      BY <2>1 DEF Call, Goto, TypeOK
    <3>2. c # processMutex
      BY <3>1 DEF PipelineInv, LockInv, Inside
    <3>3. /\ UNCHANGED <<onGpu, path, processMutex>>
          /\ \A d \in Callers \ {c} : caller'[d] = caller[d] /\ frame'[d] = frame[d]
      BY <2>1 DEF Call, Goto, Environment, gpuVars, TypeOK
    <3>4. QED
      BY <3>1, <3>2, <3>3, GpuKept
  <2>2. CASE \E c \in Callers : CallerStep(c)
    BY <2>2, GpuCallerStep
  <2>3. ASSUME UNCHANGED <<onGpu, path, processMutex, caller, frame>>
        PROVE  GpuInv'
    BY <2>3 DEF GpuInv, GpuBelongsToCall
  <2>4. QED
    BY <2>1, <2>2, <2>3 DEF Next, pipelineVars, gpuVars, vars, Build, Destroy, OwnerStep,
       ShutdownClose, ShutdownStop, ShutdownNotify, ShutdownJoin, OwnerGoto,
       Terminated
<1>3. PipelineInv /\ GpuInv => PoseBelongsToCall
  BY DEF PipelineInv, GpuInv, PoseBelongsToCall
<1>4. QED
  BY <1>1, <1>2, <1>3, PipelineTypeCorrect, PipelineCorrect, PTL DEF Spec

(* submit never finds a task in the mailbox, and never a closed executor.   *)
THEOREM SubmitSucceeds == Spec => []ExecutorIsIdleAtSubmit
<1>1. TypeOK /\ PipelineInv => ExecutorIsIdleAtSubmit
  <2> SUFFICES ASSUME TypeOK, PipelineInv, NEW c \in Callers,
                      caller[c] = "submit"
               PROVE  accepting /\ task = NoFrame /\ running = NoFrame
    BY DEF ExecutorIsIdleAtSubmit
  <2>1. Busy = {}
    BY NoTaskOfOthers DEF Inside, Waiting, CallerPositions
  <2>2. accepting
    BY DEF PipelineInv, LockInv, ExecutorInv
  <2>3. QED
    BY <2>1, <2>2 DEF Busy
<1>2. QED
  BY <1>1, PipelineTypeCorrect, PipelineCorrect, PTL

(* No task runs whose promise is already set: std::promise never throws in  *)
(* the worker, which would end the process.                                 *)
THEOREM PromiseIsSetOnce == Spec => PromiseSetOnce
<1>1. TypeOK /\ PipelineInv /\ [Next]_vars
        => (\A f \in Frames : promise[f] \in {"value", "error"} => running' # f)
           \/ UNCHANGED vars
  <2> SUFFICES ASSUME TypeOK, PipelineInv, [Next]_vars, NEW f \in Frames,
                      running' = f
               PROVE  promise[f] \notin {"value", "error"}
    OBVIOUS
  <2>1. running' \in {running, task, NoFrame}
    BY DEF Next, CallerStep, Call, Lock, Preprocess, Submit, Deposit, Notify,
       SubmitGpu, PpeReturns, PpeThrows, Get, GetAndRethrow, Collect, PersonGate, Pose,
       ExecutorStep, PredicateFails, Park, TakeTask, WorkerReturns, RunTask,
       WorkerSpuriousWake, Build, Destroy, OwnerStep, ShutdownClose,
       ShutdownStop, ShutdownNotify, ShutdownJoin, StopAccepting, RequestStop,
       WakeForStop, Terminated, vars, executorVars
  <2>2. f \in Busy
    BY <2>1, ExecutorAssumption DEF Busy
  <2>3. QED
    BY <2>2 DEF PipelineInv, ExecutorInv
<1>2. QED
  BY <1>1, PipelineTypeCorrect, PipelineCorrect, PTL DEF Spec, PromiseSetOnce

\* What a call has of its frame before it answers: its detections, after the
\* gate an open gate, and on the overlap path both sessions.
AnswerInv ==
    /\ \A c \in Callers :
        /\ caller[c] \in {"get", "collect", "personGate", "pose"}
              => detected[c] = frame[c]
        /\ caller[c] = "pose" => ShouldRunPose(frame[c])
        /\ caller[c] = "collect" \/ (caller[c] = "ppe" /\ path = "overlap")
              => submitted = [s \in Sessions |-> frame[c]]
    /\ PathsAgree

(* A call returns an error, or its detections with the poses they ask for.  *)
LEMMA ReturnAgrees ==
    ASSUME TypeOK, PathsAgree, UNCHANGED gate, NEW c \in Callers, caller[c] # "idle",
           NEW outcome, Return(c, outcome),
           outcome.outcome = "answer" =>
              /\ outcome.detections = frame[c]
              /\ outcome.poses = IF ShouldRunPose(frame[c]) THEN frame[c] ELSE NoFrame
    PROVE  PathsAgree'
<1> SUFFICES ASSUME NEW f \in Frames, result'[f].outcome = "answer"
             PROVE  /\ result'[f].detections = f
                    /\ result'[f].poses = IF ~gate \/ f \in WithPerson THEN f ELSE NoFrame
  BY DEF PathsAgree
<1>1. result'[f] = IF f = frame[c] THEN outcome ELSE result[f]
  BY DEF Return, TypeOK
<1>2. CASE f = frame[c]
  BY <1>1, <1>2 DEF ShouldRunPose
<1>3. CASE f # frame[c]
  BY <1>1, <1>3 DEF PathsAgree
<1>4. QED
  BY <1>2, <1>3

(* A step of one call that leaves the others what they have.                *)
LEMMA AnswerKept ==
    ASSUME AnswerInv, PathsAgree', UNCHANGED <<path, gate>>, NEW c \in Callers,
           \A d \in Callers \ {c} :
              /\ caller'[d] = caller[d] /\ frame'[d] = frame[d]
              /\ detected'[d] = detected[d]
              /\ UNCHANGED submitted \/ caller[d] \notin {"ppe", "collect"},
           caller'[c] \in {"get", "collect", "personGate", "pose"}
              => detected'[c] = frame'[c],
           caller'[c] = "pose" => ShouldRunPose(frame'[c]),
           caller'[c] = "collect" \/ (caller'[c] = "ppe" /\ path = "overlap")
              => submitted' = [s \in Sessions |-> frame'[c]]
    PROVE  AnswerInv'
  BY DEF AnswerInv, ShouldRunPose

(* Every step of a call keeps what it has of its frame.                     *)
LEMMA AnswerCallerStep ==
    ASSUME TypeOK, PipelineInv, AnswerInv, NEW c \in Callers, CallerStep(c)
    PROVE  AnswerInv'
<1>1. /\ UNCHANGED <<path, gate>>
      /\ \A d \in Callers \ {c} : /\ caller'[d] = caller[d] /\ frame'[d] = frame[d]
                                   /\ detected'[d] = detected[d]
  BY DEF CallerStep, Lock, Preprocess, Submit, Notify, SubmitGpu, PpeReturns,
     PpeThrows, Get, GetAndRethrow, Collect, PersonGate, Pose, Environment, Goto,
     Return, Answer, Stay, TypeOK
<1>2. caller[c] # "idle" /\ frame[c] \in Frames
  BY DEF CallerStep, Lock, Preprocess, Submit, Notify, SubmitGpu, PpeReturns,
     PpeThrows, Get, GetAndRethrow, Collect, PersonGate, Pose, TypeOK
<1>3. UNCHANGED submitted \/ \A d \in Callers \ {c} : caller[d] \notin {"ppe", "collect"}
  <2>1. CASE SubmitGpu(c)
    <3>1. processMutex = c
      BY <2>1 DEF SubmitGpu, PipelineInv, LockInv, Inside, CallerPositions
    <3>2. QED
      BY <3>1 DEF PipelineInv, LockInv, Inside, CallerPositions
  <2>2. CASE ~SubmitGpu(c)
    BY <2>2 DEF CallerStep, Lock, Preprocess, Submit, Notify, PpeReturns, PpeThrows,
       Get, GetAndRethrow, Collect, PersonGate, Pose, gpuVars
  <2>3. QED
    BY <2>1, <2>2
<1>4. PathsAgree /\ (UNCHANGED result => PathsAgree')
  BY <1>1 DEF AnswerInv, PathsAgree
<1>5. ASSUME NEW outcome, Return(c, outcome),
             outcome.outcome = "answer" =>
                /\ outcome.detections = frame[c]
                /\ outcome.poses = IF ShouldRunPose(frame[c]) THEN frame[c] ELSE NoFrame
      PROVE  AnswerInv'
  <2>1. PathsAgree'
    BY <1>1, <1>2, <1>4, <1>5, ReturnAgrees
  <2>2. caller'[c] = "idle"
    BY <1>5 DEF Return, Goto, TypeOK
  <2>3. QED
    BY <2>1, <2>2, <1>1, <1>3, AnswerKept
<1>6. ASSUME Return(c, Error) PROVE AnswerInv'
  <2>1. Error.outcome # "answer"
    BY DEF Error, Without
  <2>2. QED
    BY <2>1, <1>5, <1>6
<1>7. ASSUME NEW poses, Answer(c, poses), detected[c] = frame[c],
             poses = IF ShouldRunPose(frame[c]) THEN frame[c] ELSE NoFrame
      PROVE  AnswerInv'
  BY <1>5, <1>7 DEF Answer
<1>8. ASSUME NEW position \in CallerPositions, Goto(c, position), UNCHANGED result,
             UNCHANGED <<frame, submitted>>, UNCHANGED detected,
             position \notin {"get", "collect", "personGate", "pose"},
             position = "ppe" => path # "overlap"
      PROVE  AnswerInv'
  <2>1. caller'[c] = position
    BY <1>8 DEF Goto, TypeOK
  <2>2. QED
    BY <2>1, <1>1, <1>4, <1>8, AnswerKept
<1> USE DEF CallerPositions
<1>9. CASE Lock(c)
  BY <1>8, <1>9 DEF Lock, gpuVars
<1>10. CASE Preprocess(c)
  <2>1. CASE Return(c, Error)
    BY <2>1, <1>6
  <2>2. ASSUME NEW position \in {"submit", "submitGpu", "ppe"}, Goto(c, position),
               Stay, position = "ppe" => path # "overlap"
        PROVE  AnswerInv'
    BY <2>2, <1>8, <1>10 DEF Preprocess, Stay, gpuVars
  <2>3. QED
    BY <2>1, <2>2, <1>10 DEF Preprocess
<1>11. CASE Submit(c) \/ Notify(c)
  <2>1. path = "hybrid"
    BY <1>11 DEF Submit, Notify, PipelineInv, PathInv
  <2>2. QED
    BY <2>1, <1>6, <1>8, <1>11 DEF Submit, Notify, Stay, gpuVars
<1>12. CASE SubmitGpu(c)
  <2>1. CASE Return(c, Error)
    BY <2>1, <1>6
  <2>2. CASE Goto(c, "ppe") /\ Stay /\ submitted' = [s \in Sessions |-> frame[c]]
    <3>1. caller'[c] = "ppe" /\ frame'[c] = frame[c] /\ UNCHANGED result
      BY <2>2 DEF Goto, Stay, TypeOK
    <3>2. QED
      BY <3>1, <2>2, <1>1, <1>3, <1>4, AnswerKept
  <2>3. QED
    BY <2>1, <2>2, <1>12 DEF SubmitGpu
<1>13. CASE PpeReturns(c)
  <2>1. /\ caller'[c] = AfterPpe(c) /\ detected'[c] = PpeOutput(c)
        /\ UNCHANGED <<frame, result, submitted>> /\ caller[c] = "ppe"
    BY <1>13 DEF PpeReturns, Goto, TypeOK, gpuVars
  <2>2. path = "overlap" => submitted = [s \in Sessions |-> frame[c]]
    BY <2>1 DEF AnswerInv
  <2>3. PpeOutput(c) = frame[c]
    BY <2>2 DEF PpeOutput, Sessions
  <2>4. AfterPpe(c) # "pose" /\ AfterPpe(c) # "ppe"
        /\ (AfterPpe(c) = "collect" => path = "overlap")
    BY DEF AfterPpe
  <2>5. QED
    BY <2>1, <2>2, <2>3, <2>4, <1>1, <1>4, AnswerKept
<1>14. CASE PpeThrows(c)
  <2>1. CASE path = "hybrid"
    BY <2>1, <1>8, <1>14 DEF PpeThrows, Stay
  <2>2. CASE path # "hybrid"
    BY <2>2, <1>6, <1>14 DEF PpeThrows
  <2>3. QED
    BY <2>1, <2>2
<1>15. CASE Get(c) \/ GetAndRethrow(c)
  <2>1. caller[c] = "get" => detected[c] = frame[c]
    BY DEF AnswerInv
  <2>2. QED
    BY <2>1, <1>6, <1>7, <1>15 DEF Get, GetAndRethrow
<1>16. CASE Collect(c)
  <2>1. detected[c] = frame[c] /\ submitted["pose"] = frame[c]
    BY <1>16 DEF Collect, AnswerInv, Sessions
  <2>2. QED
    BY <2>1, <1>6, <1>7, <1>16 DEF Collect
<1>17. CASE PersonGate(c)
  <2>1. detected[c] = frame[c]
    BY <1>17 DEF PersonGate, AnswerInv
  <2>2. CASE ShouldRunPose(detected[c]) /\ Goto(c, "pose") /\ Stay
    <3>1. /\ caller'[c] = "pose" /\ detected'[c] = detected[c]
          /\ UNCHANGED <<frame, result, submitted>>
      BY <2>2, <1>17 DEF PersonGate, Goto, Stay, TypeOK, gpuVars
    <3>2. ShouldRunPose(frame'[c])
      BY <2>1, <2>2, <3>1
    <3>3. QED
      BY <2>1, <3>1, <3>2, <1>1, <1>4, AnswerKept
  <2>3. CASE ~ShouldRunPose(detected[c])
    BY <2>1, <2>3, <1>6, <1>7, <1>17 DEF PersonGate
  <2>4. QED
    BY <2>2, <2>3, <1>17 DEF PersonGate
<1>18. CASE Pose(c)
  <2>1. detected[c] = frame[c] /\ ShouldRunPose(frame[c])
    BY <1>18 DEF Pose, AnswerInv
  <2>2. QED
    BY <2>1, <1>6, <1>7, <1>18 DEF Pose
<1>19. QED
  BY <1>9, <1>10, <1>11, <1>12, <1>13, <1>14, <1>15, <1>16, <1>17, <1>18 DEF CallerStep

(* On every path an answer has its frame's own detections, and its own poses *)
(* exactly when the person gate is open for it: a speculative inference, or  *)
(* one that an exception left behind, changes no answer.                     *)
THEOREM PathsGiveOneAnswer == Spec => []PathsAgree
<1>1. Init => AnswerInv
  BY DEF Init, AnswerInv, PathsAgree, Without
<1>2. TypeOK /\ PipelineInv /\ AnswerInv /\ [Next]_vars => AnswerInv'
  <2> SUFFICES ASSUME TypeOK, PipelineInv, AnswerInv, [Next]_vars PROVE AnswerInv'
    OBVIOUS
  <2>1. ASSUME NEW c \in Callers, NEW f \in Frames, Call(c, f) PROVE AnswerInv'
    <3>1. /\ caller'[c] = "locking" /\ UNCHANGED <<path, gate, result, submitted>>
          /\ \A d \in Callers \ {c} : /\ caller'[d] = caller[d] /\ frame'[d] = frame[d]
                                       /\ detected'[d] = detected[d]
      BY <2>1 DEF Call, Goto, Environment, TypeOK, gpuVars
    <3>2. PathsAgree'
      BY <3>1 DEF AnswerInv, PathsAgree
    <3>3. QED
      BY <3>1, <3>2, AnswerKept
  <2>2. CASE \E c \in Callers : CallerStep(c)
    BY <2>2, AnswerCallerStep
  <2>3. ASSUME UNCHANGED <<result, gate, path, caller, frame, detected, submitted>>
        PROVE  AnswerInv'
    BY <2>3 DEF AnswerInv, PathsAgree, ShouldRunPose
  <2>4. QED
    BY <2>1, <2>2, <2>3 DEF Next, pipelineVars, gpuVars, vars, Build, Destroy,
       OwnerStep, ShutdownClose, ShutdownStop, ShutdownNotify, ShutdownJoin,
       OwnerGoto, Terminated
<1>3. AnswerInv => PathsAgree
  BY DEF AnswerInv
<1>4. QED
  BY <1>1, <1>2, <1>3, PipelineTypeCorrect, PipelineCorrect, PTL DEF Spec
===============================================================================
