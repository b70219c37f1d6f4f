----------------------------- MODULE ModelContract -----------------------------
(* What a model file and the manifest beside it must say before the runtime
   opens an inference session on it (runtime/model_manifest.cpp,
   runtime/onnx_session.cpp, inference/engine_reader.cpp), and how its output
   is read (inference/yolo_decode.cpp).

   A manifest is [sound, schema, role, mode, labels, sizes, input, output,
   binds]: sound is what the JSON parser and the typed fields check one by one,
   binds the version of the model whose name, size and digest it holds.  A
   model is [version, parts, input, output, export]: parts are the protobuf
   paths in it, export how its output was laid out when it was made. *)
LOCAL INSTANCE Integers
LOCAL INSTANCE Sequences
LOCAL INSTANCE FiniteSets

Dynamic == -1
NoShape == <<>>
ImageSizes == {640, 768, 960, 1280}
Classes == 8

YoloPredictionCount(size) ==
  LET Cells(stride) == (size \div stride) * (size \div stride)
  IN  Cells(8) + Cells(16) + Cells(32)

--------------------------------------------------------------------------------
(* parseManifest *)
InputBounded(m) ==
  IF m.schema = 1
    THEN /\ Len(m.input) = 4 /\ m.input[1] = 1 /\ m.input[2] = 3
         /\ \A i \in 3..4 : m.input[i] \in 1..1280
    ELSE m.input = <<1, 3, Dynamic, Dynamic>>

ApprovedOutput(m) ==
  CASE m.role = "pose" -> <<1, 300, 57>>
    [] m.role = "ppe" /\ m.mode = "end2end" -> <<1, 300, 6>>
    [] m.role = "ppe" /\ m.mode # "end2end" -> <<1, 12, Dynamic>>

ManifestAccepted(m) ==
  /\ m.sound
  /\ m.schema \in 1..3
  /\ m.mode = "absent" \/ (m.schema = 3 /\ m.mode \in {"raw-nms", "end2end"})
  /\ InputBounded(m)
  /\ m.role = "ppe" => m.labels = Classes
  /\ m.schema = 1 => \A i \in DOMAIN m.output : m.output[i] > 0
  /\ m.schema >= 2 => m.sizes = ImageSizes /\ m.output = ApprovedOutput(m)

(* OnnxSecurityScanner: the fields it follows from a message, and those it
   refuses.  It skips every other field. *)
Followed ==
  {<<"model", "graph">>, <<"model", "opset">>, <<"model", "training">>,
   <<"graph", "node">>, <<"graph", "tensor">>, <<"graph", "sparse">>,
   <<"node", "attribute">>, <<"attribute", "tensor">>, <<"attribute", "graph">>,
   <<"attribute", "sparse">>, <<"sparse", "tensor">>, <<"training", "graph">>}
Prohibited ==
  {<<"model", "function">>, <<"node", "customDomain">>, <<"opset", "customDomain">>,
   <<"tensor", "externalData">>, <<"tensor", "externalLocation">>}
MaximumNesting == 32

(* A path is the messages from the model down to a field.  A sparse tensor, a
   tensor and an opset do not count as a level. *)
Reached(path) == \A i \in 2..(Len(path) - 1) : <<path[i - 1], path[i]>> \in Followed
ScanRefuses(path) ==
  /\ Reached(path)
  /\ \/ <<path[Len(path) - 1], path[Len(path)]>> \in Prohibited
     \/ Cardinality({i \in 2..Len(path) : path[i] \in {"graph", "node", "attribute", "training"}})
          > MaximumNesting

(* verifyOnnxModel, on the manifest and the bytes it has read. *)
VerifyOnnxModel(m, model, role) ==
  /\ ManifestAccepted(m) /\ m.role = role
  /\ m.binds = model.version
  /\ \A path \in model.parts : ~ScanRefuses(path)

(* OnnxSession: the output shape of the session, NoShape where it throws. *)
SessionOutput(m, model, size) ==
  CASE m.input # model.input \/ m.output # model.output -> NoShape
    [] m.input = model.input /\ m.output = model.output /\ m.schema >= 2 ->
         IF size \notin m.sizes THEN NoShape
         ELSE IF m.role = "ppe" /\ m.output[3] = Dynamic
                THEN <<1, 12, YoloPredictionCount(size)>> ELSE m.output
    [] OTHER -> IF m.input = <<1, 3, size, size>> THEN m.output ELSE NoShape

--------------------------------------------------------------------------------
(* validateSchema: raw output is read along the one axis that has as many
   channels as the formula says. *)
RawSchema(shape, payload) ==
  LET fits == {axis \in 2..3 : shape[axis] \in {4 + payload, 5 + payload}}
  IN  IF Cardinality(fits) = 1 THEN "raw" ELSE "refused"

(* validateDetectSchema and validatePoseSchema: end-to-end output is told by
   its exact shape and tried first. *)
DetectSchema(shape, classes) ==
  IF shape[2] = 300 /\ shape[3] = 6 THEN "end2end" ELSE RawSchema(shape, classes)

PoseSchema(shape, keypoints) ==
  LET payload == keypoints[1] * keypoints[2]
  IN  CASE keypoints[2] < 3 -> "refused"
        [] keypoints[2] >= 3 /\ shape[2] = 300 /\ shape[3] = 6 + payload -> "end2end"
        [] OTHER -> RawSchema(shape, 1 + payload)

Schema(role, shape, keypoints) ==
  CASE shape = NoShape -> "refused"
    [] shape # NoShape /\ role = "ppe" -> DetectSchema(shape, Classes)
    [] shape # NoShape /\ role = "pose" -> PoseSchema(shape, keypoints)

--------------------------------------------------------------------------------
(* EngineFile::read and the checks of loadCuda.  An engine is [prefix, task,
   names, person, output]: prefix "broken" is a metadata prefix that is cut,
   too long or no JSON object. *)
EngineAccepted(engine, role, labels) ==
  /\ engine.prefix # "broken"
  /\ engine.task \in {"absent", IF role = "ppe" THEN "detect" ELSE "pose"}
  /\ IF role = "ppe" THEN engine.names = Classes \/ (engine.names = 0 /\ labels)
                     ELSE engine.names \in 0..1
  /\ role = "pose" /\ engine.names = 1 => engine.person
================================================================================
