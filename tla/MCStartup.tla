------------------------------- MODULE MCStartup -------------------------------
(* Situations a runtime is started in, in three groups: what an operator may
   type, what may go wrong with a sound command line, and what the launcher
   makes of its settings. *)
EXTENDS Startup

Manifest(role, schema, mode, output, version) ==
  [sound |-> TRUE, schema |-> schema, role |-> role, mode |-> mode, labels |-> Classes,
   sizes |-> ImageSizes, binds |-> version, output |-> output,
   input |-> IF schema = 1 THEN <<1, 3, 640, 640>> ELSE <<1, 3, Dynamic, Dynamic>>]
Model(m, export) ==
  [version |-> m.binds, input |-> m.input, output |-> m.output, export |-> export,
   parts |-> {<<"model", "graph", "node", "attribute", "graph", "tensor", "data">>}]
File(m, export) == [manifest |-> m, model |-> Model(m, export)]

PpeRaw(version) == File(Manifest("ppe", 3, "raw-nms", <<1, 12, Dynamic>>, version), "raw")
PpeEndToEnd(version) == File(Manifest("ppe", 3, "end2end", <<1, 300, 6>>, version), "end2end")
PpeStatic == File(Manifest("ppe", 1, "absent", <<1, 12, 8400>>, 3), "raw")
Pose(version) == File(Manifest("pose", 2, "absent", <<1, 300, 57>>, version), "end2end")

Sound == [ppe |-> PpeEndToEnd(1), pose |-> Pose(1)]
Newer == [ppe |-> PpeRaw(2), pose |-> Pose(2)]
External == [Sound EXCEPT !.ppe.model.parts = {<<"model", "graph", "tensor", "externalData">>}]
Foreign == [Sound EXCEPT !.pose.manifest.role = "ppe"]
Static == [Sound EXCEPT !.ppe = PpeStatic]
Relabeled == [Sound EXCEPT !.ppe.manifest.labels = 6]

Engine == [prefix |-> "sound", task |-> "detect", names |-> Classes, person |-> FALSE, output |-> <<1, 12, 8400>>]
Engines ==
  [ppe |-> Engine, pose |-> [Engine EXCEPT !.task = "pose", !.names = 1, !.person = TRUE, !.output = <<1, 56, 8400>>]]
BrokenEngines == [Engines EXCEPT !.ppe.prefix = "broken"]
WrongEngines == [Engines EXCEPT !.pose.output = <<1, 300, 58>>]

AllOnnx == Roles \X {"onnx", "manifest"}
AllEngines == Roles \X {"engine"}
Everything == AllOnnx \cup AllEngines

Machine ==
  [windows |-> TRUE, display |-> "nvidia", driver |-> "ready", devices |-> <<"sm75">>,
   engines |-> FALSE, cuda |-> "works"]
Machines ==
  {[Machine EXCEPT !.cuda = c] : c \in {"works", "absent", "throws", "crashes"}}
  \cup {[Machine EXCEPT !.display = d] : d \in {"other", "unreadable"}}
  \cup {[Machine EXCEPT !.driver = d] : d \in {"absent", "incomplete", "old"}}
  \cup {[Machine EXCEPT !.devices = d] : d \in {<<"older">>, <<"older", "unreadable">>, <<"unreadable">>}}
  \cup {[Machine EXCEPT !.engines = TRUE], [Machine EXCEPT !.windows = FALSE]}

Video(name, label) ==
  [place |-> [rtsp |-> FALSE, name |-> name, exists |-> name # "lost", spaced |-> FALSE,
              credentials |-> "none", host |-> "plain", port |-> "none"],
   label |-> label]
Camera(label) ==
  [place |-> [rtsp |-> TRUE, name |-> "camera", exists |-> TRUE, spaced |-> FALSE,
              credentials |-> "given", host |-> "plain", port |-> "good"],
   label |-> label]
(* One camera, its authority changed in each way that either side looks at. *)
Authorities ==
  LET camera == Camera(NoLabel)
  IN  {camera, [camera EXCEPT !.place.spaced = TRUE], [camera EXCEPT !.place.credentials = "empty"],
       [camera EXCEPT !.place.port = "bad"]}
      \cup {[camera EXCEPT !.place.host = h, !.place.port = p] : h \in Hosts, p \in {"none", "good"}}
Command ==
  [asks |-> "run", mode |-> "ppe-fall", compute |-> "auto", root |-> 1,
   files |-> Roles \X {"onnx"}, sources |-> <<Camera(NoLabel)>>, output |-> TRUE,
   device |-> NoDevice, size |-> 640, keypoints |-> <<17, 3>>, labels |-> TRUE,
   numbers |-> "fine", report |-> FALSE, snapshots |-> FALSE, window |-> FALSE, benchmark |-> FALSE]
Typed ==
  {[Command EXCEPT !.asks = a] : a \in {"help", "probe", "preflight"}}
  \cup {[Command EXCEPT !.numbers = n] : n \in {"outside", "malformed"}}
  \cup {[Command EXCEPT !.compute = c] : c \in {"unset", "cuda", "cpu"}}
  \cup {[Command EXCEPT !.sources = s] : s \in {<<>>, <<Camera("a"), Video("video", "a")>>}
                                                     \cup {<<a>> : a \in Authorities}}
  \cup {[Command EXCEPT !.files = Roles \X {"engine"}], [Command EXCEPT !.mode = "ppe-only"],
        [Command EXCEPT !.labels = FALSE], [Command EXCEPT !.snapshots = TRUE],
        [Command EXCEPT !.size = 768, !.device = 2],
        [Command EXCEPT !.benchmark = TRUE, !.report = TRUE, !.sources = <<>>]}

Situation ==
  [settings |-> NoSettings, cmd |-> Command, machine |-> Machine, installed |-> "unset",
   roots |-> <<Everything>>, files |-> Sound, next |-> Sound, engine |-> Engines, reachable |-> TRUE]

ByOperator ==
  {[Situation EXCEPT !.cmd = c, !.machine = m, !.installed = i, !.reachable = r] :
     c \in Typed, m \in {Machine, [Machine EXCEPT !.driver = "old"]},
     i \in {"unset", "cuda", "malformed", "unreadable"}, r \in BOOLEAN}
ByMachine ==
  {[Situation EXCEPT !.cmd.compute = c, !.machine = m, !.engine = e, !.files = f,
      !.cmd.files = Roles \X Kinds] :
     c \in {"auto", "cuda"}, m \in Machines, e \in {Engines, BrokenEngines, WrongEngines},
     f \in {Sound, External, Foreign, Static, Relabeled}}
Exchanged ==
  {[Situation EXCEPT !.cmd.compute = c, !.machine.cuda = m, !.next = Newer] :
     c \in {"auto", "cuda", "cpu"}, m \in {"works", "crashes"}}

Settings ==
  [mode |-> "ppe-fall", compute |-> "auto", search |-> TRUE, cameras |-> <<Camera("a")>>,
   output |-> "folder", options |-> "extra", numbers |-> "fine", report |-> FALSE,
   window |-> FALSE, device |-> NoDevice, size |-> 640, preflight |-> FALSE]
AllSettings ==
  {[Settings EXCEPT !.compute = c, !.preflight = p, !.search = s, !.cameras = v] :
     c \in {"auto", "cuda", "cpu"}, p \in BOOLEAN, s \in BOOLEAN,
     v \in {<<Camera("a")>>, <<Camera("video"), Video("video", NoLabel)>>,
            <<Camera(NoLabel), Camera(NoLabel)>>}}
  \cup {[Settings EXCEPT !.cameras = <<a>>] : a \in Authorities \cup {Video("lost", NoLabel)}}
  \cup {[Settings EXCEPT !.numbers = "outside"], [Settings EXCEPT !.cameras = <<>>],
        [Settings EXCEPT !.output = "file"], [Settings EXCEPT !.options = "managed"],
        [Settings EXCEPT !.mode = "ppe-only", !.size = 768, !.report = TRUE]}
ByLauncherSettings ==
  {[Situation EXCEPT !.settings = s, !.cmd = NoCommand, !.roots = r] :
     s \in AllSettings,
     r \in {<<Everything>>, <<AllEngines, AllOnnx>>, <<{}, AllEngines>>, <<AllOnnx>>}}

MCStarts == ByOperator \cup ByMachine \cup Exchanged \cup ByLauncherSettings
================================================================================
