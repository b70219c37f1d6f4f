-------------------------------- MODULE Startup --------------------------------
(* From a command line, or from the launcher's settings, to a runtime that
   monitors (app/main.cpp, with the loading of runtime/engine_pipeline.cpp).

   Before it uses the ONNX CUDA provider on Windows the runtime starts itself
   once more and lets that child make the first inference: a native crash kills
   the child only.  Both are processes here, and both run the same main.  The
   child's output goes to a pipe that the parent reads after the child's end. *)
EXTENDS Naturals, Sequences, CommandLine, ComputePlan, ModelContract

CONSTANTS
  Starts,    \* the situations a runtime is started in
  PipeRoom,  \* lines the pipe of the warm-up child holds
  MaxLines,  \* lines a step of the child writes
  MaxEdits   \* model files exchanged while the runtime starts

VARIABLES
  start,   \* the situation: it does not change
  cmd,     \* the command line
  onDisk, \* [role -> [manifest, model]]: the ONNX files of the command's root
  edits,   \* how often a file was exchanged
  process, \* the runtime and its warm-up child
  pipe     \* the child's output: [captured, held, waiting]

startupVars == <<start, cmd, onDisk, edits, process, pipe>>

Processes == {"runtime", "warmup"}
None == "none"
NoCommand == [asks |-> None]
NoSettings == [mode |-> None]
NoFile == [version |-> 0]

(* How a process ended: an exit code below 256, or one of these. *)
NotEnded == 256
Crashed == 257
RefusedByLauncher == 258

(* A situation is [settings, cmd, machine, installed, roots, files, next,
   engine, reachable]: the launcher's settings or an operator's command, what
   the installer wrote, the model roots, the ONNX files and what they may be
   exchanged for, the engines, and whether sources and output can be used. *)
LaunchedIn(s) == s.settings # NoSettings
ByLauncher == LaunchedIn(start)
KeypointsIn(s) == IF LaunchedIn(s) THEN <<17, 3>> ELSE s.cmd.keypoints

EndToEnd(role, shape, keypoints) ==
  shape[2] = 300 /\ shape[3] = IF role = "pose" THEN 6 + keypoints[1] * keypoints[2] ELSE 6

(* The keypoint shape is two numbers; the dialog offers two modes and always
   names a compute mode. *)
ASSUME StartupAssumption ==
  /\ PipeRoom \in Nat /\ MaxLines \in Nat /\ MaxEdits \in Nat
  /\ \A s \in Starts :
       /\ KeypointsIn(s) \in Nat \X Nat
       /\ s.machine.display \in Displays /\ s.machine.driver \in Drivers
       /\ s.machine.cuda \in {"works", "absent", "throws", "crashes"}
       /\ LaunchedIn(s) => s.settings.mode \in {"ppe-only", "ppe-fall"} /\ s.settings.compute # "unset"

(* A model was exported end to end exactly if its output has that shape. *)
ASSUME FilesAssumption ==
  \A s \in Starts :
    /\ DOMAIN s.files = Roles
    /\ \A r \in Roles :
         /\ DOMAIN s.files[r] = {"manifest", "model"}
         /\ \A model \in {s.files[r].model, s.next[r].model} :
              model.export = IF EndToEnd(r, model.output, KeypointsIn(s)) THEN "end2end" ELSE "raw"

NewProcess(pc) ==
  [pc |-> pc, requested |-> None, status |-> None, selection |-> Nowhere,
   fallback |-> Nowhere, failed |-> FALSE, role |-> "ppe",
   manifest |-> [r \in Roles |-> NoFile], model |-> [r \in Roles |-> NoFile],
   schema |-> [r \in Roles |-> None], code |-> NotEnded]

StartupInit ==
  /\ start \in Starts
  /\ cmd = start.cmd
  /\ onDisk = start.files
  /\ edits = 0
  /\ process = [p \in Processes |->
               NewProcess(IF p = "warmup" THEN "absent"
                          ELSE IF ByLauncher THEN "launcher" ELSE "parse")]
  /\ pipe = [captured |-> FALSE, held |-> 0, waiting |-> 0]

--------------------------------------------------------------------------------
At(p, pc) == process[p].pc = pc
Set(p, new) == process' = [process EXCEPT ![p] = new]
Goto(p, pc) == Set(p, [process[p] EXCEPT !.pc = pc])
Ended(p, code) == [process[p] EXCEPT !.pc = "ended", !.code = code]

(* What a step of the child writes, none of it after a crash: its own lines,
   which depend on the sources and on the failures, and those the ONNX Runtime
   logs.  It goes on when all are written; the parent's own output is read. *)
Says(p) ==
  IF p = "warmup"
    THEN /\ pipe.waiting = 0
         /\ \E lines \in 0..(IF process'[p].code = Crashed THEN 0 ELSE MaxLines) :
              pipe' = [pipe EXCEPT !.waiting = lines]
    ELSE UNCHANGED pipe

(* A line finds room in the pipe, if there is a pipe. *)
ChildBlocked == pipe.captured /\ pipe.waiting > 0 /\ pipe.held = PipeRoom
WriteLine ==
  /\ pipe.waiting > 0 /\ ~ChildBlocked
  /\ pipe' = [pipe EXCEPT !.waiting = @ - 1, !.held = IF pipe.captured THEN @ + 1 ELSE @]
  /\ UNCHANGED <<start, cmd, onDisk, edits, process>>

(* A bug: the fallback does not run the preflight again. *)
FailedForGood(p, code) == Ended(p, code)

(* The catch block of the preflight: Auto starts again on the CPU, once. *)
Failed(p, code) ==
  IF process[p].fallback # Nowhere
    THEN [process[p] EXCEPT !.pc = "check", !.selection = process[p].fallback,
            !.fallback = Nowhere, !.failed = TRUE, !.role = "ppe"]
    ELSE Ended(p, code)
Fail(p, code) == Set(p, Failed(p, code))

(* modelArtifactAvailability: the files named that are there. *)
Available == cmd.files \cap start.roots[cmd.root]

--------------------------------------------------------------------------------
(* launchRuntime in the launcher. *)
BuildLaunchPlan ==
  /\ At("runtime", "launcher")
  /\ \/ /\ PlanRefused(start.settings, start.roots)
        /\ Set("runtime", Ended("runtime", RefusedByLauncher))
        /\ UNCHANGED cmd
     \/ /\ ~PlanRefused(start.settings, start.roots)
        /\ cmd' = LaunchPlan(start.settings, start.roots, start.settings.preflight)
        /\ Goto("runtime", "parse")
  /\ UNCHANGED <<start, onDisk, edits, pipe>>

(* parseCommandLine and the answers that need no inference; the installed
   compute mode is read only if the command names none. *)
Parse(p) ==
  LET installed == IF cmd.compute = "unset" THEN start.installed ELSE "unset"
      answer == CASE ~Understood(cmd) -> 2
                  [] Understood(cmd) /\ cmd.asks = "help" -> 0
                  [] Understood(cmd) /\ cmd.asks = "probe" ->
                       HardwareProbeExitCode(ProbeHardware(start.machine).status)
                  [] OTHER -> CASE installed = "malformed" -> 2
                                [] installed = "unreadable" -> 1
                                [] OTHER -> NotEnded
  IN  /\ At(p, "parse")
      /\ Set(p, IF answer # NotEnded THEN Ended(p, answer)
                ELSE [process[p] EXCEPT !.pc = "plan", !.requested = Requested(cmd.compute, installed)])
      /\ UNCHANGED <<start, cmd, onDisk, edits>>

(* The hardware probe, if the CPU is not asked for, and the plan. *)
Plan(p) ==
  LET requested == process[p].requested
      status == IF requested = "cpu" THEN "no_nvidia_adapter" ELSE ProbeHardware(start.machine).status
      selection == SelectComputeBackend(requested, status, start.machine, Available, cmd.mode)
  IN  /\ At(p, "plan")
      /\ Set(p, IF selection = Nowhere THEN Ended(p, 1)
                ELSE [process[p] EXCEPT !.pc = "check", !.status = status, !.selection = selection,
                        !.fallback = Fallback(requested, selection, Available, cmd.mode)])
      /\ UNCHANGED <<start, cmd, onDisk, edits>>

(* Bugs: forced CUDA needs no warm-up, or the child wants one of its own. *)
NeedsWarmupInAuto(p) ==
  /\ start.machine.windows /\ p # "warmup" /\ process[p].requested = "auto"
  /\ process[p].selection.provider = "onnxCuda" /\ ~cmd.benchmark
NeedsWarmupAlways(p) ==
  start.machine.windows /\ process[p].selection.provider = "onnxCuda" /\ ~cmd.benchmark

NeedsWarmup(p) ==
  /\ start.machine.windows /\ p # "warmup"
  /\ process[p].selection.provider = "onnxCuda" /\ ~cmd.benchmark

(* runBasePreflight: validateSourceWithoutOpening and validateWritableOutput. *)
Check(p) ==
  /\ At(p, "check")
  /\ IF start.reachable THEN Goto(p, IF NeedsWarmup(p) THEN "warmup" ELSE "load")
     ELSE Fail(p, 1)
  /\ UNCHANGED <<start, cmd, onDisk, edits>>

(* runIsolatedCudaWarmup: the child gets the same command line, and a pipe for
   its output if one can be made... *)
StartWarmup ==
  /\ At("runtime", "warmup") /\ At("warmup", "absent")
  /\ \/ /\ process' = [process EXCEPT !["warmup"] = NewProcess("parse")]
        /\ \E captured \in BOOLEAN : pipe' = [pipe EXCEPT !.captured = captured]
     \/ Fail("runtime", 1) /\ UNCHANGED pipe   \* no path, no environment, no process
  /\ UNCHANGED <<start, cmd, onDisk, edits>>

(* ... and its output is read only when it has ended. *)
WarmupEnds ==
  /\ At("runtime", "warmup") /\ At("warmup", "ended") /\ pipe.waiting = 0
  /\ pipe' = [pipe EXCEPT !.held = 0]
  /\ IF process["warmup"].code = 0 THEN Goto("runtime", "load") ELSE Fail("runtime", 1)
  /\ UNCHANGED <<start, cmd, onDisk, edits>>

--------------------------------------------------------------------------------
(* The NativeEnginePipeline constructor. *)
CudaDevice ==
  SelectCudaDevice(ProbeHardware(start.machine).devices, cmd.device)

(* loadCuda: both engines. *)
LoadEngines(p) ==
  LET roles == IF cmd.mode = "ppe-fall" THEN Roles ELSE {"ppe"}
      sound == /\ CudaDevice # NoDevice
               /\ \A r \in roles : EngineAccepted(start.engine[r], r, cmd.labels)
      schema == [r \in Roles |-> IF r \in roles
                   THEN Schema(r, start.engine[r].output, cmd.keypoints) ELSE None]
  IN  /\ At(p, "load") /\ process[p].selection.provider = "tensorrt"
      /\ IF sound /\ \A r \in roles : schema[r] # "refused"
           THEN Set(p, [process[p] EXCEPT !.pc = "report", !.schema = schema])
           ELSE Fail(p, 1)
      /\ UNCHANGED <<start, cmd, onDisk, edits>>

(* loadCpu and loadCudaOnnx up to the first session; the latter probes the
   hardware once more. *)
LoadOnnx(p) ==
  LET cuda == process[p].selection.provider = "onnxCuda"
  IN  /\ At(p, "load") /\ process[p].selection.provider # "tensorrt"
      /\ IF cmd.labels /\ (cuda => CudaDevice # NoDevice)
           THEN Goto(p, "manifest") ELSE Fail(p, 1)
      /\ UNCHANGED <<start, cmd, onDisk, edits>>

(* verifyOnnxModel reads the manifest, then the model... *)
ReadManifest(p) ==
  /\ At(p, "manifest")
  /\ Set(p, [process[p] EXCEPT !.pc = "model", !.manifest[process[p].role] = onDisk[process[p].role].manifest])
  /\ UNCHANGED <<start, cmd, onDisk, edits>>

ReadModel(p) ==
  LET role == process[p].role
      model == onDisk[role].model
  IN  /\ At(p, "model")
      /\ IF VerifyOnnxModel(process[p].manifest[role], model, role)
           THEN Set(p, [process[p] EXCEPT !.pc = "session", !.model[role] = model])
           ELSE Fail(p, 1)
      /\ UNCHANGED <<start, cmd, onDisk, edits>>

(* A bug: the session opens the path once more. *)
SessionModelOnDisk(p) == onDisk[process[p].role].model

(* ... and the session is made of the bytes that were verified. *)
SessionModel(p) == process[p].model[process[p].role]
NextRole(p) ==
  IF process[p].role = "ppe" /\ cmd.mode = "ppe-fall" THEN [pc |-> "manifest", role |-> "pose"]
  ELSE [pc |-> IF p = "warmup" /\ process[p].selection.provider = "onnxCuda" THEN "infer" ELSE "report",
        role |-> "ppe"]

OpenSession(p) ==
  LET role == process[p].role
      model == SessionModel(p)
      output == SessionOutput(process[p].manifest[role], model, cmd.size)
      schema == Schema(role, output, cmd.keypoints)
      provider == process[p].selection.provider = "onnxCuda" /\ role = "ppe"
                    => start.machine.cuda # "absent"
  IN  /\ At(p, "session")
      /\ IF provider /\ schema # "refused"
           THEN Set(p, [process[p] EXCEPT !.pc = NextRole(p).pc, !.role = NextRole(p).role,
                          !.model[role] = model, !.schema[role] = schema])
           ELSE Fail(p, 1)
      /\ UNCHANGED <<start, cmd, onDisk, edits>>

(* The child's inference: an exception is caught like any other failure of
   the preflight, a native failure ends the process. *)
WarmUp(p) ==
  /\ At(p, "infer")
  /\ CASE start.machine.cuda = "works" -> Goto(p, "report")
       [] start.machine.cuda = "throws" -> Fail(p, 1)
       [] start.machine.cuda = "crashes" -> Set(p, Ended(p, Crashed))
  /\ UNCHANGED <<start, cmd, onDisk, edits>>

(* The lines about the pipeline, and "Preflight: OK". *)
Report(p) ==
  /\ At(p, "report")
  /\ Set(p, IF p = "warmup" \/ cmd.asks = "preflight" THEN Ended(p, 0)
            ELSE [process[p] EXCEPT !.pc = "running"])
  /\ UNCHANGED <<start, cmd, onDisk, edits>>

(* Somebody installs other models: a file at a time. *)
Exchange(role, file) ==
  /\ edits < MaxEdits /\ process["runtime"].pc \notin {"running", "ended"}
  /\ onDisk[role][file] # start.next[role][file]
  /\ onDisk' = [onDisk EXCEPT ![role][file] = start.next[role][file]]
  /\ edits' = edits + 1
  /\ UNCHANGED <<start, cmd, process, pipe>>

Step(p) ==
  /\ \/ Parse(p) \/ Plan(p) \/ Check(p)
     \/ LoadEngines(p) \/ LoadOnnx(p) \/ ReadManifest(p) \/ ReadModel(p) \/ OpenSession(p)
     \/ WarmUp(p) \/ Report(p)
  /\ Says(p)
ChildStep == Step("warmup") \/ WriteLine

ParentStep == BuildLaunchPlan \/ StartWarmup \/ WarmupEnds \/ Step("runtime")

StartupNext ==
  \/ ParentStep \/ ChildStep
  \/ \E role \in Roles, file \in {"manifest", "model"} : Exchange(role, file)

(* The processes run, and an inference on the GPU returns, throws or crashes. *)
StartupSpec == StartupInit /\ [][StartupNext]_startupVars /\ WF_startupVars(ParentStep) /\ WF_startupVars(ChildStep)

--------------------------------------------------------------------------------
runtime == process["runtime"]
Running == runtime.pc = "running"

(* A runtime works on the CPU only because it was told to, or because Auto saw
   no usable CUDA or saw the CUDA preflight fail: forced CUDA never degrades. *)
CpuIsExplained ==
  Running /\ runtime.selection = Cpu =>
    \/ runtime.requested = "cpu"
    \/ /\ runtime.requested = "auto"
       /\ \/ runtime.failed
          \/ runtime.status # "cuda_ready"
          \/ CudaProvider(start.machine, Available, cmd.mode) = "none"

(* Auto comes up wherever the CPU could have served: whatever goes wrong with
   CUDA, in the probe, in an engine, in the child or in a session. *)
CpuWouldServe ==
  /\ start.reachable /\ cmd.labels
  /\ Complete(Available, "onnx", cmd.mode)
  /\ \A r \in IF cmd.mode = "ppe-fall" THEN Roles ELSE {"ppe"} :
       /\ VerifyOnnxModel(onDisk[r].manifest, onDisk[r].model, r)
       /\ Schema(r, SessionOutput(onDisk[r].manifest, onDisk[r].model, cmd.size), cmd.keypoints) # "refused"

AutoServes ==
  At("runtime", "ended") /\ runtime.requested = "auto" /\ edits = 0 /\ CpuWouldServe
    => runtime.code = 0

(* Forced CUDA through ONNX Runtime monitors only where the inference of the
   child has worked.  With Auto a failure short of a crash is lost: the child
   falls back to the CPU itself, ends with 0, and the parent goes on. *)
WarmupDecides ==
  Running /\ runtime.selection = Cuda("onnxCuda") /\ start.machine.windows /\ ~cmd.benchmark
    => \/ start.machine.cuda = "works"
       \/ runtime.requested = "auto" /\ process["warmup"].failed

(* Each session of a running runtime holds the model its manifest is about, read
   from the layout it was exported with, though files change underneath. *)
LoadedIsVerified ==
  Running /\ runtime.selection.provider # "tensorrt" =>
    \A r \in IF cmd.mode = "ppe-fall" THEN Roles ELSE {"ppe"} :
      /\ VerifyOnnxModel(runtime.manifest[r], runtime.model[r], r)
      /\ runtime.schema[r] = runtime.model[r].export

(* What the launcher's checks let through the runtime understands, but for two
   cases: a camera whose authority only parseRtspAuthority looks into, and a
   video without a label whose name another source has as its label.  White space
   and an authority without host and port are found by both. *)
OnlyRuntimeLooks(place) ==
  /\ place.rtsp /\ ~place.spaced
  /\ \/ place.credentials = "empty" /\ (place.host = "empty" => place.port # "none")
     \/ place.host \in {"bareIpv6", "malformed"}
     \/ place.host = "empty" /\ place.port # "none"
     \/ place.port = "bad"
ClashOfDefault(sources) ==
  \E i \in DOMAIN sources : sources[i].label = NoLabel /\ ~UniqueLabels(sources)
LaunchedIsUnderstood ==
  ByLauncher /\ runtime.code = 2 =>
    \/ \E i \in DOMAIN cmd.sources : OnlyRuntimeLooks(cmd.sources[i].place)
    \/ ClashOfDefault(cmd.sources)

(* A start comes to an end, the runtime monitors or has given up, exactly if the
   warm-up child never finds its pipe full: the parent waits for its end before
   it reads, so a child that blocks blocks both for good. *)
Decided == runtime.pc \in {"running", "ended"}
StartupDecides ==
  /\ []~ChildBlocked => <>Decided
  /\ []~Decided \/ []~ChildBlocked
================================================================================
