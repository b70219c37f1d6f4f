------------------------------ MODULE CommandLine ------------------------------
(* What the runtime accepts on its command line (app/cli.cpp) and what the
   launcher puts there (launcher/launcher_support.cpp).

   A command line is a record: what it asks for, the mode, the compute
   backend, the model files <<role, kind>> and their root, the image size, the
   keypoint shape, the sources, the output, the CUDA device, and whether the
   class labels, the performance report, the snapshots, the window and a
   benchmark image are given.  The numbers stand
   for every threshold, count and duration: "fine", "outside" their range, or
   "malformed".  A source is [place, label].

   A place is [rtsp, name, spaced, credentials, host, port, exists]: a camera's
   authority, with the white space, the text before the last @, the host and the
   port that are in it, or a video file, which exists or not. *)
LOCAL INSTANCE Naturals
LOCAL INSTANCE Sequences
LOCAL INSTANCE FiniteSetsExt

Roles == {"ppe", "pose"}
Kinds == {"engine", "onnx"}
NoLabel == "none"

Credentials == {"none", "given", "empty"}   \* "empty": nothing before the @
Hosts == {"plain", "bracketed", "empty", "bareIpv6", "malformed"}
Ports == {"none", "good", "bad"}   \* "bad": a colon and no number from 1 to 65535

(* parseRtspAuthority *)
RtspAuthorityFails(place) ==
  \/ place.spaced
  \/ place.credentials = "empty"
  \/ place.host \in {"empty", "bareIpv6", "malformed"}
  \/ place.port = "bad"

(* defaultSourceLabel: made of the host of a camera, the name of a file. *)
DefaultSourceLabel(place) == place.name
LabelOf(source) == IF source.label = NoLabel THEN DefaultSourceLabel(source.place) ELSE source.label

UniqueLabels(sources) ==
  \A i, j \in DOMAIN sources : LabelOf(sources[i]) = LabelOf(sources[j]) => i = j

Given(files, kind, mode) ==
  /\ <<"ppe", kind>> \in files
  /\ mode = "ppe-only" \/ <<"pose", kind>> \in files

(* A complete pair: of engines or ONNX for CUDA, of ONNX for the CPU. *)
ModelsSuffice(cmd) ==
  LET onnx == Given(cmd.files, "onnx", cmd.mode)
      any  == onnx \/ Given(cmd.files, "engine", cmd.mode)
  IN  IF cmd.compute = "cpu" THEN onnx ELSE any

BenchmarkAlone(cmd) ==
  /\ cmd.report /\ cmd.sources = <<>>
  /\ ~cmd.window /\ cmd.asks # "preflight" /\ ~cmd.snapshots

(* validate, in its order; --help and --hardware-probe-json skip it. *)
Valid(cmd) ==
  /\ cmd.benchmark => BenchmarkAlone(cmd)
  /\ cmd.snapshots => cmd.report
  /\ ~cmd.benchmark => cmd.sources # <<>> /\ cmd.output
  /\ ModelsSuffice(cmd)
  /\ ~cmd.benchmark =>
       /\ \A i \in DOMAIN cmd.sources :
            cmd.sources[i].place.rtsp => ~RtspAuthorityFails(cmd.sources[i].place)
       /\ UniqueLabels(cmd.sources)
  /\ cmd.numbers = "fine"

(* parseCommandLine: a text that is no number is refused even with --help. *)
Understood(cmd) ==
  /\ cmd.numbers # "malformed"
  /\ cmd.asks \in {"help", "probe"} \/ Valid(cmd)

--------------------------------------------------------------------------------
(* The launcher.  A root is the set of files in a model directory: the models
   and, for ONNX, their manifests <<role, "manifest">>. *)

(* resolveManagedModelSet *)
EnginesComplete(root, pose) ==
  <<"ppe", "engine">> \in root /\ (pose => <<"pose", "engine">> \in root)
OnnxComplete(root, pose) ==
  \A role \in IF pose THEN Roles ELSE {"ppe"} : {<<role, "onnx">>, <<role, "manifest">>} \subseteq root

(* resolveBestManagedModelSet: the first root with ONNX, else the first with
   engines, else the one that was configured. *)
BestRoot(roots, pose) ==
  LET onnx    == {i \in DOMAIN roots : OnnxComplete(roots[i], pose)}
      engines == {i \in DOMAIN roots : EnginesComplete(roots[i], pose)}
  IN  CASE onnx # {} -> Min(onnx)
        [] onnx = {} /\ engines # {} -> Min(engines)
        [] OTHER -> 1

Serves(root, compute, pose) ==
  OnnxComplete(root, pose) \/ (compute # "cpu" /\ EnginesComplete(root, pose))

(* The root of the plan: the configured one if it serves the compute mode. *)
ChosenRoot(settings, roots) ==
  LET pose == settings.mode = "ppe-fall"
  IN  IF settings.search /\ ~Serves(roots[1], settings.compute, pose)
        THEN BestRoot(roots, pose) ELSE 1

NamedTwice(cameras) ==
  \E i, j \in DOMAIN cameras :
    i # j /\ cameras[i].label # NoLabel /\ cameras[i].label = cameras[j].label

(* A bug: white space in an authority is let through. *)
CameraUrlFailsUnspaced(place) == place.host = "empty" /\ place.port = "none"

(* validateRtspCameraUrl: something other than white space after the
   credentials, if only a port. *)
CameraUrlFails(place) == place.spaced \/ (place.host = "empty" /\ place.port = "none")
SourceRefused(place) == IF place.rtsp THEN CameraUrlFails(place) ELSE ~place.exists

(* The conditions under which buildLaunchPlan throws. *)
PlanRefused(settings, roots) ==
  \/ settings.numbers # "fine"
  \/ settings.cameras = <<>>
  \/ \E i \in DOMAIN settings.cameras : SourceRefused(settings.cameras[i].place)
  \/ NamedTwice(settings.cameras)
  \/ settings.output # "folder"
  \/ settings.options = "managed"
  \/ ~Serves(roots[ChosenRoot(settings, roots)], settings.compute, settings.mode = "ppe-fall")

(* The files of the plan: engines unless CPU is asked for, ONNX if complete. *)
PlannedFiles(settings, root) ==
  LET pose  == settings.mode = "ppe-fall"
      roles == IF pose THEN Roles ELSE {"ppe"}
      kinds == {k \in Kinds : \/ k = "engine" /\ EnginesComplete(root, pose) /\ settings.compute # "cpu"
                              \/ k = "onnx" /\ OnnxComplete(root, pose)}
  IN  roles \X kinds

(* buildLaunchPlan *)
LaunchPlan(settings, roots, preflight) ==
  LET chosen == ChosenRoot(settings, roots)
  IN  [asks |-> IF preflight THEN "preflight" ELSE "run",
       mode |-> settings.mode, compute |-> settings.compute,
       root |-> chosen, files |-> PlannedFiles(settings, roots[chosen]),
       sources |-> settings.cameras, output |-> TRUE, device |-> settings.device,
       size |-> settings.size, keypoints |-> <<17, 3>>,
       labels |-> TRUE, numbers |-> "fine", report |-> settings.report,
       snapshots |-> settings.report, window |-> settings.window, benchmark |-> FALSE]
================================================================================
