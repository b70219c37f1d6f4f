# NEXO AI Vision: verification project

TLA+ models of the native runtime of NEXO AI Vision (`src/native`) and of its
launcher, the TLC runs that check them, and TLAPS proofs about them. NEXO AI Vision watches
cameras, files or images, detects missing protective equipment (PPE) and falls
of persons with two neural networks, and writes the events it detects, with
their photos, to reports on disk.

Line numbers below are those of the files in `src/`. Every definition that
models code is listed with its lines in `PROJECT.json` under `map`; every
hazard the properties are for is listed there under `hazards`.

## 1. The system

A Qt program, the launcher, keeps preferences and camera profiles, makes a
command line of them and supervises one child process, the runtime
`nexoai_monitor`. The runtime parses the command line, finds out where it can
infer (CUDA or CPU; on Windows it starts itself once more as a warm-up child, so
that a native crash kills the child only), verifies and loads the models, and then
runs these threads and objects:

    reader thread   reader thread            monitor thread              writer thread
    of camera 1 ... of camera n      (main.cpp: monitor loop)       (runWriterWorker)
         |               |                     |                            |
     [slot of 1]     [slot of n] --waitForLatest-->  NativeEnginePipeline   |
         (newest frame only)                   |       |   PoseExecutor     |
                                               |       |   (pose thread)    |
                                               |       +-- AnalyticsPipeline|
                                               |           tracker, PPE,    |
                                               |           fall analyzers   |
                                               +--enqueue--> [bounded FIFO] +--> images,
                                                                                 CSV, JSONL

| Component | State | Operations | Talks to | What is hard about it |
|---|---|---|---|---|
| `EvidenceWriterQueue` (`runtime/evidence.cpp`) | deque, `accepting`, `terminal_failure`, `stopped`, statistics, two condition variables | `enqueue`, `drainAndStop`, the worker's loop | called by the monitor, calls the writers | lost wake-ups, full queue, failure of one stage out of two, failure of the failure ledger, stop at any time |
| `EvidenceWriter`, `EvidenceWriterV3` (`runtime/evidence.cpp`) | the files themselves | constructor, `append` | file system | partial failure, torn appends, death between two steps, restart on the files of an earlier run |
| `LatestFrameCapture` (`runtime/capture.cpp`) | slot (`latest_`, `sequence_`, `ended_`, `error_`), reader thread, stop token | `start`, `stop`, `waitForLatest`, `readerLoop` | OpenCV, the monitor | frame published while the capture ends, reconnection with backoff, stop during a backoff, restart, an environment variable shared by all readers |
| `PoseExecutor` (`runtime/engine_pipeline.cpp`) | mailbox of one task, worker thread | `submit`, `run`, `shutdown` | the pipeline | notification without the mutex, exceptions carried by a future |
| `NativeEnginePipeline` (`runtime/engine_pipeline.cpp`) | sessions, buffers, analytics per source | `process`, `processBatch`, `reset` | executor, sessions, analytics | three execution paths with one meaning, exceptions while a task is in flight, concurrent callers |
| Decoding, tracking, association (`inference/yolo_decode.cpp`, `analytics/byte_tracker.cpp`, `associatePpe`) | the candidates of one frame; the tracks of BYTETrack | decode, suppress, match, associate | the analyzers | a bounded heap that must not depend on the order of the predictions, greedy choices, ties |
| `AnalyticsPipeline` (`analytics/`) | tracks, last frame id | `process`, `reset` | the analyzers | state changed before an exception; strict order of frames |
| `PpeAnalyzer` (`analytics/ppe_analytics.cpp`) | per track: a window of votes per item, last status, last alert | `update`, `prune`, `reset` | | windows of different lengths, a status that changes during a cooldown, forgetting of tracks |
| `FallAnalyzer` (`analytics/fall_analytics.cpp`) | counters per track | `update`, `prune`, `reset` | | long sequences of frames, decay, cooldown, forgetting of tracks |
| Monitor loop (`app/main.cpp`) | per source: sequence seen, worker state; exit code | the loop, shutdown | everything | when to leave, what is lost when something fails |
| Startup: command line, compute selection, execution plan, model contract (`app/cli.cpp`, `foundation/compute.cpp`, `app/runtime_execution_plan.cpp`, `runtime/model_manifest.cpp`, `inference/engine_reader.cpp`) | the choice made so far; the warm-up child and its pipe | parse, probe, plan, warm up, verify, load | files, CUDA, a child process | fallbacks that must not hide a failure, files exchanged between two reads, a child whose output nobody reads |
| Qt launcher (`launcher-qt/`, `launcher/`) | the child process, its log, the buttons; preferences; profiles and passwords | start, validate, stop, close; save, import; create, edit, rename, delete | the runtime, files, the secret store | a stop that the child ignores, waits that run out, operations that fail half-way, crashes |
| `PerformanceTelemetry` (`foundation/performance_telemetry.cpp`) | counters, samples, one mutex | increments, snapshot | all | gap accounting |
| Contracts and canonical JSON, preprocessing | none | pure functions | | - |
| Qt mosaic viewer, platform layer, Python bindings, Python tools, installers | - | I/O | | - |

What makes the components correct:

* **Queue.** Events reach the report in the order in which they were accepted,
  without a gap; after the first failure nothing more is written or accepted;
  every accepted event is accounted for; `enqueue` and `drainAndStop` return.
* **Writers.** A record always has its photo; the header is on the first line
  only; what a crash can cost is bounded.
* **Capture.** The slot holds the newest frame of this run; overwritten frames
  are counted exactly; the last frame is not lost; a camera is retried for
  ever, at growing distances; `stop` always returns.
* **Executor and pipeline.** One task at a time, inside the call that submitted
  it; each of the three paths, which gate the poses at three places, answers with
  what belongs to the frame; each call returns.
* **Fall analyzer.** An alert rests on enough frames of its own fall; one alert
  per fall; the cooldown.
* **PPE analyzer.** An alert names an item only on the evidence of frames that
  showed it; a judged violation is never silent; repetitions are spaced.
* **Decoding and association.** What is kept of a frame depends on its
  predictions and not on their order; the matching is stable; a piece of
  equipment belongs to one person.
* **Monitor.** Exit code 0 means that no event is lost; the last frame of each
  source is seen; analytics that an exception left half-way are not used again.
* **Startup.** Every fallback to the CPU has a reason that is told; a model is
  loaded only with the manifest that was verified for it; a warm-up that failed
  is not overruled; what the launcher accepts the runtime understands; startup
  ends.
* **Launcher.** A runtime that is there can be stopped; a verdict is about the
  run that ended; what was announced as saved is saved; a stop ends.

## 2. Modules

| Module | Models | State and actions |
|---|---|---|
| `EvidenceQueue` | `EvidenceWriterQueue`, `runWriterWorker`, `drainAndStop` | The fields of `Impl`, who sleeps on which condition variable, where the worker is, the three files. One action per critical section: `Enqueue`, `Resume` (a producer evaluates its predicate again), `WorkerWait`, `Pop`, the two stages of a job with success and failure, the three ways to count it, the ledger, `BeginStop`, `FinishStop`, and spurious wake-ups. |
| `EvidenceChannel` | what the queue promises | The accepted events, how many are settled, how many of those persisted, and three flags. The abstract specification. |
| `EvidenceQueueProofs` | | Theorems about the queue, and about the files and the ledger behind it. |
| `EvidenceWriter` | `EvidenceWriter::append`, `EvidenceWriterV3::append`, `appendDurably`, constructors | The report as a sequence of lines with a torn last line or not, images, temporaries. One action per file operation, with success, failure with or without a part written, and `Exit` (death of the process) everywhere. |
| `EvidenceWriterProofs` | | Theorems about the writers. |
| `LatestFrameCapture` | `LatestFrameCapture` and the monitor's loop around one capture | The slot, where the reader is in `readerLoop`, the stop token, where the monitor is. |
| `CaptureTransport` | `setRtspTransport` and the opens, for several captures | The environment variable, and the options each open has used. |
| `LatestFrameCaptureProofs` | | Theorems about the capture, and about the transport that captures share. |
| `PoseExecutor` | `PoseExecutor` | Mailbox, worker, stop token, state of each promise. The worker's wait is split: predicate evaluated, about to block, asleep. |
| `EnginePipeline` | `NativeEnginePipeline::Impl::process`, construction, destruction | Composes `PoseExecutor` with its callers, with `process_mutex`, and with the paths `serial`, `hybrid`, `overlap`. Detections and poses are known by the frame they were computed from, up to the answer. |
| `EnginePipelineProofs` | | Theorems about the executor and its callers. |
| `FallAnalyzer` | `FallAnalyzer` | The `State` of each remembered track. One action per frame: `update` for every person and then `prune`, as `AnalyticsPipeline::process` calls them. |
| `FallAnalyzerProofs` | | Theorems about the fall analyzer. |
| `PpeAnalyzer` | `PpeAnalyzer`, `evaluate`, `ppeStatus` | The `State` of each remembered track: votes per item, whether it was judged and what was missing, last alert. One action per frame, as for the falls, and `Reset`. |
| `Geometry` | `types.cpp`, `letterbox.cpp` | Boxes, their overlap, and the way from the model's image back to the frame, in whole numbers. |
| `FrameAnalytics` | `yolo_decode.cpp`, `ByteTracker::update`, `associatePpe` | One frame: `Read` (one prediction, in any order), `Decode`, `Track`, `Associate`. |
| `AnalyticsProofs` | | Theorems about the PPE analyzer, and about what a frame becomes. |
| `Monitor` | the monitor loop of `main.cpp`, `processBatch`, the order of `AnalyticsPipeline::process` | Captures, loop position, batch, results, the analytics of each source, events, and the queue as the abstract channel. Composes `EvidenceChannel` (as `Channel`). |
| `MonitorProofs` | | Theorems about the monitor. |
| `CommandLine` | `cli.cpp`; the launch plan of `launcher_support.cpp` | Pure operators: which command lines are accepted, and which one the launcher builds. |
| `ComputePlan` | `compute.cpp`, `runtime_execution_plan.cpp` | Pure operators: probe, selection, plan. |
| `ModelContract` | `model_manifest.cpp`, `onnx_session.cpp`, `engine_reader.cpp`, output schemas of `yolo_decode.cpp` | Pure operators: what a manifest, a model and an engine must say. |
| `Startup` | `main.cpp` up to the monitor, loading in `engine_pipeline.cpp` | Composes the three with two processes (the runtime and its warm-up child), the pipe between them with the lines that the child still has to write, and the files, which somebody may exchange meanwhile. |
| `LauncherProcess` | `launcher_window.cpp`, the child process | `QProcess` state, the child, its output, the log, the buttons, and where the GUI thread waits. One action per handler and per outcome of a wait. |
| `LauncherPreferences` | the dialogs, save and import of preferences | What is in memory, on disk, and what the user was told. Each save may fail, and each load. |
| `CameraProfiles` | the dialogs that create, edit, rename and delete profiles | Files, passwords, the list, what the open dialog is about to do, and what the user was told. One action per file and per password: `WriteFile`, `StoreSecret`, `RemoveFile`, `ForgetSecret`, each with success and failure. |
| `Launcher` | the window as a whole | Composes the three above, with `.env` import, and a crash and a restart after any step. |
| `LauncherProofs` | | Theorems about the launcher, and about the start of the runtime. |
| `MC...` | | Instances for TLC. |

What is abstracted: a frame, an event and a photo are values; the text of rows
and messages is left out; calls to OpenCV, CUDA and ONNX Runtime return any of
their outcomes; durations are left out except where a deadline matters
(backoff, cooldown, time to live).

History variables (marked `history` in each module) only record what happened.
No guard of an action of the code reads them, except for the bounds of the
runs: each event is submitted at most once, and the counters of frames and
starts end a run.

Operators marked `Fault` are changed forms of the definition that follows
them. No action uses them. Each shows, for one property, that a plausible
mistake in that code would be caught.

Choices worth knowing:

* **Queue.** The job of one event is `v2`, then `v3` for a PPE violation. A
  failed append may leave its row in the file (the flush failed) or not. The
  queue sees whole rows; what a failed append leaves of one is the subject of
  `EvidenceWriter`. A throw while a failure is *counted* is not modelled.
* **Writer.** File names (label, type, time and the end of the event id) are
  taken to be distinct per event. In synchronous mode the monitor goes on
  after a failed append; in queue mode it does not.
* **Capture.** `waitForLatest` decides on the slot as it finds it when it
  returns, so one action per call is exact. The network preflight is one
  nondeterministic outcome. The product starts each capture once; a second
  start is what the class allows. A source that ends in `.jpg` is an image,
  whatever its scheme.
* **Executor.** `shutdown` requests the stop and notifies without the mutex.
  A plain `std::condition_variable` does not observe the stop token. So the
  interval between the predicate and the wait is a state of the model.
* **Pipeline.** The person gate is applied at a place of its own on each path:
  after the collection of the poses (`Collect`, `engine_pipeline.cpp:479`), after
  the future (`Get`, :525) and before the inference (`PersonGate`, :531). All three
  ask `shouldRunPoseInference` (`ShouldRunPose`) about the detections that the call
  holds, whatever frame these are of. On overlap a session answers with the frame
  last submitted to it (`submitted`): when the pose submission throws, PPE stays in
  flight, and the next frame's submission follows it in stream order. The batch
  path has a fourth gate (:675), which is outside the model.
* **Fall analyzer.** A pose is four comparisons: horizontal, near the floor,
  centre low enough to be falling, vertical. `descent_ratio > 0` is assumed,
  which excludes a descent from a centre at the same height.
* **PPE analyzer.** `update` pushes to the confidences and to the wear states
  together, so one vote stands for both. A status text is the set of items it
  names; absent and present incorrectly give the same text, so both are
  missing. The ratio is a percentage compared in integers, where the code
  compares floats. Disabled items take no part in the code's decisions and are
  not in `Items`. `shown` keeps the votes from the frames themselves, with a
  statement of its own of when a frame shows an item, so that the code's
  windows can be compared with it.
* **Frame analytics.** Boxes have whole-number coordinates and confidences are
  percentages, so that the divisions of the code become multiplications; the
  arithmetic of floats is not modelled. BYTETrack is a library outside `src/`:
  it answers with any of the given sets of tracks. The keypoints of a pose are
  what they show. Each sort followed by a greedy scan is a fold that comes to the
  worst last: `Nms` and `Matched` over a set, with `Worst` and `Loosest` as its
  last element; `Only`, `Best` and `Associated` over a sequence. A fold unfolds to
  a function, which the prover can reason about.
* **Monitor.** A capture is its newest number and whether it has ended:
  `LatestFrameCapture` models what is inside. The queue is `EvidenceChannel`,
  which `EvidenceQueue` is proved to implement. Each call may throw where the
  code can throw. Drawing is left out; the window is one more `RequestStop`.
* **Startup.** A number on the command line is fine, outside its range or
  malformed. A manifest's fields are those that later decisions compare; "sound"
  stands for the syntax and for the fields checked one by one. A digest is a
  version. What DXGI, the CUDA driver and an inference do is a machine, fixed
  when the program starts. A camera's authority is what the two checks of it tell
  apart: white space, credentials, host and port. The warm-up child writes some
  lines in each step, its own and those that ONNX Runtime logs, up to `MaxLines`; a
  line that finds the pipe full waits.
* **Launcher.** `QProcess` is external: its state changes and its signals are
  delivered while the event loop runs or inside a wait. A profile's content is a
  version; a password carries the version it belongs to. A dialog is modelled from
  the moment the user accepts it; while it works on its files no other handler runs,
  and the process may end before any of its steps. The power failing under a file
  that was written is not modelled. The stream settings are one field that is
  supported or not.

## 3. Runs

| Run | Instance | What it shows |
|---|---|---|
| `evidence_queue` | 4 events (2 of them PPE), capacity 2, one producer | Order, accounting, agreement of the files, what is known after a drain, terminal failure; somebody is always awake while there is work, and the queue implements `EvidenceChannel`, liveness included. |
| `evidence_writer` | 3 events (2 PPE), 3 starts, both modes | No row without its photo, whatever failed; what can be read of a report, the loss per cut append and when a report is refused; which temporaries stay. |
| `latest_frame_capture` | image, two files, two cameras, 4 frames, 2 starts, delays 1 to 3 | Freshness of the slot, exact drop count, delivery of the last frame, a camera never gives up, the reader proceeds, a stop during a backoff ends. |
| `capture_transport` | 3 cameras, all 27 configurations | What the shared variable still guarantees. |
| `fall_analyzer` | one track, 9 frames, 5 poses or absence, time steps 1 and 3 | Evidence of an alert, one alert per fall, spacing. |
| `ppe_analyzer` | one track, 2 items (one on the face), window 3, 6 frames, 7 appearances or absence, resets | What an alert may name, no silent violation, spacing of repetitions. |
| `engine_pipeline` | 3 frames, 2 calling threads, 3 paths, gate on or off, with and without a person in the frame | A pose inference in flight (executor or GPU) belongs to the call that started it; an answer has its own detections, and its own poses exactly when the gate is open; calls return. |
| `executor_shutdown` | the same | **Defect**: the destructor may never return. |
| `frame_analytics` | every tensor of up to 5 of 11 predictions, in every order, 4 sets of tracks, both modes and formats | The bounded heap and the suppression keep what a definition without an order says; the matching is stable; an item has one owner, whatever the order of the people. |
| `monitor` | 2 sources, 2 frames each, one event per frame, batch 2, with and without a queue of capacity 1 | No event is lost at exit code 0, the last frame is seen, no half-changed analytics are used, the monitor ends. |
| `startup` | 1110 situations: what an operator types, what machines and models do, what the launcher makes of its settings, files exchanged meanwhile | Every decision of the startup against what it promises; it ends unless the child blocks on its pipe. |
| `launcher` | 2 chunks of output, 2 profiles, 2 contents, every outcome of each file, password and wait, a crash anywhere | Supervision, verdicts, announcements, profiles; a stop ends. |

### Disagreements between code and documents

One has a run of its own:

**`executor_shutdown`** (`engine_pipeline.cpp:93`). The worker finds its
predicate false and holds the mutex only until it blocks, but the stop
request and the notification are made without it and can both fall in
between. Nothing wakes the worker again, and `join` waits for it for ever.
It concerns the end of the program, and a constructor that throws after the
executor has started (models that do not load, CUDA fallback). Requesting
the stop under the mutex, or `std::condition_variable_any` with the stop
token, closes the window.

The others were met while modelling. The models follow the code, and the
properties say what remains true; no run is spent on them.

* **Transport** (`capture.cpp:619`). `--source-rtsp-transport` is documented per
  source (`cli.cpp:477`), but it ends in one variable of the process, which
  OpenCV reads at each open and reconnection. `UniformTransport` is what remains
  true: cameras that agree get what they ask for.
* **Torn report** (`evidence.cpp:233`). A row is appended to whatever the last
  run left. After an append that was cut short the next row continues the torn
  line, so its event is counted as written and cannot be read
  (`docs/ppe-contract-v2.md:56-57`). `ReportsAreReadable` is what remains true.
* **Open** (`capture.cpp:697`). `native/README.md:379-380` promises a simple open
  when the parameterised one fails; the code makes it only for sources that are
  not RTSP.
* **Spacing of falls** (`fall_analytics.cpp:169`). `prune` forgets the last alert
  together with the track, after `track_ttl` (5 s), so the separation of alerts
  (`FALL_ALERT_COOLDOWN_S`, 120 s, `docs/development/environment.md:172`) does not hold for a
  person who is hidden for a while and keeps the track id. `OneAlertPerFall`
  therefore speaks of tracks that stay remembered.
* **Warm-up** (`main.cpp:1281-1291`). With `auto`, a CUDA inference that fails
  short of a crash is handled inside the child: it falls back to the CPU, ends with
  0, and the parent goes on to CUDA. `native/README.md:501-503` says that a failure
  lets `Auto` rebuild on the CPU, which happens for a crash only. `WarmupDecides`
  names the exception.
* **Warm-up pipe** (`main.cpp:147`). The parent waits for the child without a time
  limit and reads its output afterwards. A child that writes more than the pipe
  holds blocks, and the parent with it. Nothing in the code bounds what the child, or
  ONNX Runtime inside it, writes. In the run both happen, and `StartupDecides` is
  what remains true: a start comes to an end exactly if the child never finds the
  pipe full. (If no pipe could be made the child's output goes nowhere.)
* **Stopping.** `native/README.md:262-265` describes a stop by `CTRL_BREAK_EVENT`
  that waits up to 30 seconds outside the UI thread, and a job object. The Qt
  launcher terminates, waits 5000 ms in the UI thread, kills, and waits 2000 ms
  more.
* **Settings.** The pose gate exists twice in the launcher, and saving the PPE
  thresholds alone writes the older one. `saveState` (`launcher_window.cpp:392`)
  drops every exception, so that the catch blocks of its callers never run and
  "Advanced settings saved" (:768) and ".env settings imported" (:845) are shown also
  when the preferences could not be written: the directory or the disk refused, or
  an imported `.env` holds stream settings that `serializeOperatorPreferences`
  refuses. A file that cannot be read becomes the defaults, and the next save
  writes them. `AnnouncedIsKept` names these exceptions.
* **Profiles.** A launcher that ends between the commit of a profile's file and
  the storing of its password (:450-451) leaves the new file with the old password;
  a store that refuses does so with an error shown. Both are `torn` in the model, and
  `ProfilesAreKept` excepts them. Removing an old file (:505, :525) and deleting a
  password (`windows/platform_secrets.cpp:56`) may fail unseen: the file stays in
  the list, the password stays without a file.
* **Launch plan.** `validateRtspCameraUrl` (`launcher_support.cpp:74-97`) looks for
  white space and for something after the credentials. `parseRtspAuthority`
  (`cli.cpp:143-209`) also refuses empty credentials, a missing host before a port,
  bare IPv6 hosts, malformed brackets and bad ports: such a camera is launched and
  refused with exit code 2. So is an unlabeled video whose label clashes with a
  camera's. `LaunchedIsUnderstood` names them, and says that nothing else is.

### Bounds, and why they are enough

* **Queue.** Four events pass a capacity of two: one in the worker's hand, two
  queued, one producer blocked; each may be the first to fail. The proofs
  remove the bound for safety. The product has one producer. With more
  producers than the capacity a terminal failure, which notifies nobody on
  `not_full`, could leave one of them asleep until the queue is closed: this is
  why `EnqueueReturns` (a part of `QueueProceeds`) is claimed for the product only.
* **Writer.** Two restarts with three events give a torn line, its
  continuation, and a third run on the result. `RunBound` bounds the starts.
* **Capture.** Four frames over two runs give two frames of one run overwritten
  in the slot, and frames of two runs. Delays 1, 2, 3 reach the maximum by
  doubling past it. `RetryBound` only keeps the history counter finite: past
  it the delay no longer changes.
* **Transport.** Two cameras that disagree and a third with the default.
* **Fall analyzer.** Nine frames allow a confirmation, a recovery, the end of
  the cooldown and a second alert, or the forgetting of the track between them.
  Tracks do not influence each other, so one track is enough for the run; the
  module is parameterised by the set of tracks.
* **PPE analyzer.** Window 3 and two samples: a window can be short, judged,
  full and slide. Steps 1 and 3 lie on both sides of the time to live (2), and
  of the rest of the cooldown (4). Six frames fill the window, alert, change
  the judgement and outlast the cooldown, or forget the track and begin again.
  Tracks are independent. With 35 % (the product's ratio) one vote in three is
  not enough and one in two is.
* **Pipeline.** Two callers contend for the mutex. Three frames allow a call
  after one that threw, also one that left its PPE submission on the GPU, with
  detections that open the gate or close it.
* **Frame analytics.** The pool has, for each decision of the code, predictions
  on both sides of it: overlapping people, an item between two people, one that is
  nobody's, one in the padding, a disabled class, equal ranks up to the last
  coordinate. Five predictions fill the heap (4) and go past the limit (3).
* **Monitor.** Two sources make a batch of two, whose first frame may have changed
  its analytics when the second throws. Two frames per source allow a frame that
  is overwritten and one that comes after an error. Capacity 1 with two events of
  one batch makes the queue full. The proofs remove all these bounds for safety.
* **Startup.** Two edits (`MaxEdits`) exchange the manifest and the model of one
  role, or one file of each, between any two steps. Up to two lines per step of the
  child (`MaxLines`) reach the end of a pipe of three (`PipeRoom`) after some steps
  and not after others; the real numbers are larger, and only their comparison is read.
* **Launcher.** A behaviour of the run works either with the runtime and the
  preferences or with the profiles (`focus` in `MCLauncher`): the two do not read
  each other's state, except that a running child closes the dialogs. The theorems
  are about `Spec`, without this restriction and for any `MaxOutput`. Two names allow a
  rename onto another and a deletion that stops between two, two contents a password
  of another content and an announcement that is stale.

### Fairness

* **Queue.** The worker runs and its file operations return; a producer that
  was woken takes the mutex; the thread that joined returns. Nothing is
  assumed of callers: nobody must submit or stop. Spurious wake-ups are
  possible and never due.
* **Capture.** Both threads run, and open and read calls return (the code sets
  timeouts on them). The clock is not fair in general, so `StopReturns` (like
  `CameraIsRetried` a part of `CaptureProceeds`) cannot rest on a backoff that
  ends; `CameraIsRetried` states its own assumption that the clock advances.
* **Pipeline.** Every thread runs, inference returns or throws. Strong
  fairness of callers and owner stands for a mutex that does not starve a
  thread for ever.
* **Monitor.** The loop runs and the worker of the queue settles. Nothing is
  assumed of the captures: `MonitorEnds` has the end of all of them, or a stop, as
  its premise.
* **Startup.** Both processes run, and their calls return, except the wait for the
  child and the child's write to a full pipe. Nobody has to edit a file.
* **Launcher.** The event loop runs, its handlers return, a wait ends or runs out, and a killed child
  ends. A child that was only asked to stop need not end, which is why
  `StopEnds` is about the kill as well.
* The writer, the transport, the two analyzers and the frame analytics have
  safety properties only.

## 4. Proofs

All theorems are checked by TLAPS. They hold for every value of the constants
that satisfies the named assumption of the module, which TLC evaluates in the
runs.

### The queue: `EvidenceQueueProofs`

For every set of events, every number of producers and every positive capacity
(`QueueAssumption`; the constructors reject a capacity of 0):

| Theorem | Says |
|---|---|
| `TypeCorrect` | `Spec => []TypeOK` |
| `QueueCorrect` | `Spec => []QueueInv` |
| `AccountingHolds` | Every accepted event is counted, in hand, or queued; the reported depth is the real one and never passes the capacity. |
| `ReportInOrder` | The v2 report is a prefix of the accepted events and the backlog is what follows. |
| `FailureIsTerminal` | After the first failed write no report grows and nothing is accepted. |
| `QueueRefinesChannel` | `Spec => Channel!SafeSpec`: the queue implements the channel. |
| `ReportsAgree` | `Spec => []FilesAgree`: the v3 report stays within the v2 report, and the ledger tells what happened on disk. |
| `DrainIsComplete` | `Spec => []DrainAccountsForAll`: what is known of every accepted event once `drainAndStop` has returned. |

The argument. `QueueInv` is the conjunction of five parts. `Accounting` and
`BacklogInOrder` say where every accepted event is; they are not inductive
alone, because the worker's counting step relies on the job in hand being the
next accepted event, and on the depth being 0 when `drainAndStop` resets it.
`WorkerInv` ties the worker's position to the length of the report and to the
failure flag: between the append and the count the report is one row ahead.
`CloseInv` says that a worker that returned left no job, so the reset of the
depth is harmless. With them, each action preserves each part: one lemma per
group of actions (`PushStep`, `PopStep`, `V2Step`, `CountStep`, `StopStep`,
`QuietStep`), put together in `QueueInvStep`. The refinement maps `log` to the
accepted events, `settled` to the handled ones, `persisted` to the written
counter, and the three flags; `ChannelStep` shows that each step of the queue is
one of the channel or leaves it unchanged.

The files need more, because a row and the ledger line that contradicts it are
written by different iterations of the worker. `FilesInv` adds to `QueueInv`:
`OnceInv` (an event is accepted once, which is an assumption on the callers
turned into an invariant of the model), `StageInv` (where the worker is
determines the stage it will blame), `SilenceInv` (no ledger line and no failure
message before the failure), `HandledInv` (every handled event can be found,
except the one whose ledger line is being written) and `SleepInv` (a producer
sleeps only while the queue accepts, because `BeginStop` wakes all).

### The writers: `EvidenceWriterProofs`

For every set of events, every subset of PPE events and any number of starts
(`WriterAssumption`):

| Theorem | Says |
|---|---|
| `WriterCorrect` | `Spec => []WriterInv`, which includes the types. |
| `PhotoBeforeRecord` | `Spec => []RecordHasImage`: no row or line without its image. |
| `ReportsStayReadable` | `Spec => []ReportsAreReadable`: the header stays first and alone, a cut costs at most one event, only a cut header makes a report unusable. |
| `StraysStayExplained` | `Spec => []StraysAreExplained` |

The argument. What an append, or a part of one, does to a report is settled first,
as lemmas about lines: the new report is the old one, the old one with its torn
last line broken, the old one with one more line, or one of the four beginnings
(`CutOne`, `CutFirst`, `JoinOne`). `LinesInv` then says what the form of a report
owes to the headers that were cut short, and in particular that a torn last line
is never a record, so that the append that continues it destroys none. The bound
on the lost events is not inductive alone: a row that continues a torn line is
lost without a new cut. `LossInv` counts a tear as a cut that has not yet cost its
event, and counts the event whose v3 line is still to come as written.

### The capture: `LatestFrameCaptureProofs`

For every set of sources and every `0 <= BaseDelay <= MaxDelay`
(`CaptureAssumption`, which also states the types of the bounds of the runs;
the proofs use no particular value of those):

| Theorem | Says |
|---|---|
| `CaptureTypeCorrect` | `Spec => []TypeOK`, which includes that the delay stays within its limits. |
| `LastFrameArrives` | `Spec => []LastFrameDelivered`: a monitor that leaves because nothing runs has received the last frame. |
| `CameraGoesOn` | `Spec => []RtspNeverGivesUp`: a camera's capture ends only by a stop or a throw. |
| `SlotIsFresh` | `Spec => []SlotIsLatest`: the slot is empty or holds the newest frame of this run. |
| `DropsAreExact` | `Spec => []DropsAreCounted`: the gaps that the telemetry counts are exactly the frames overwritten before the monitor saw them. |

The argument. The reader's actions are of three classes: they leave the slot
alone (`Works`), publish one frame (`Publishes`) or end the capture (`Ends`).
Each invariant is proved class by class. Delivery needs that a monitor that has
found nothing running has found the capture ended *after* it compared sequence
numbers, and that an ended capture publishes no more: `LifeInv` and `SeenInv`.
Freshness needs that the published frames of the run are exactly the first
`sequence` ones: `HistoryInv`. The count of the drops needs, beside it, where the
frames of this run lie in the history (the last `sequence` ones) and which of
them the monitor has: a delivery then adds exactly its gap to the missed frames,
and a restart of the capture starts a range of its own. `CameraInv` adds to `RtspNeverGivesUp` that a
camera's reader which is about to end was stopped.

About the variable that the captures share, for any number of cameras and any
transports (`CaptureTransport`):

| Theorem | Says |
|---|---|
| `AgreedTransportHolds` | `TransportSpec => [](UniformTransport /\ ExplicitIsHonoured)`: where all cameras with a transport of their own agree, each of them opens with it; where they do not, what such a camera opens with is the transport of one of them, never the default. |

The argument. `SharedInv` says whose transport the variable holds, that it holds
one from the first `setRtspTransport` on, and that every open of such a camera
comes after its own. Which camera wrote last is not known, and nothing more is
claimed than what holds of each.

### The executor and the pipeline: `EnginePipelineProofs`

For any set of callers, any set of frames and any of the three paths
(`PipelineAssumption`):

| Theorem | Says |
|---|---|
| `PipelineTypeCorrect` | `Spec => []TypeOK` |
| `PoseStaysInCall` | `Spec => []PoseBelongsToCall`: a pose inference, on the executor or on the GPU, is in flight only inside the call that started it, also when PPE throws meanwhile. |
| `SubmitSucceeds` | `Spec => []ExecutorIsIdleAtSubmit`: the mailbox is free and the executor open when a call submits. |
| `PromiseIsSetOnce` | `Spec => PromiseSetOnce`: `std::promise` never throws in the worker. |
| `PathsGiveOneAnswer` | `Spec => []PathsAgree`: on every path an answer has the detections of its own frame, and its own poses exactly when the person gate is open for that frame. |

The argument. `LockInv` says that a caller is inside `process` exactly when it
owns `process_mutex`; `ExecutorInv` that the mailbox and the worker's hands are
never both full and that a promise is pending exactly for the task in one of
them; `PathInv` that only the hybrid path uses the executor. With
`TaskBelongsToCall` they are inductive. A free mailbox at the submission follows
from the promise of the caller's frame not being pending there. `GpuInv` says the
same of the GPU, which only the overlap path uses. `AnswerInv` follows a frame
through a call: that the gate's question is asked about this frame's detections, and
that both sessions hold this frame when it is collected, although an exception may
have left them on another; each of the three places of the gate is a step of its own
in the proof.

### The PPE analyzer: `AnalyticsProofs`

For every set of tracks and items, every set of appearances, every window,
ratio, cooldown and time to live the constructor accepts (`PpeAssumption`):

| Theorem | Says |
|---|---|
| `PpeTypeCorrect` | `Spec => []TypeOK`, which bounds every window. |
| `PpeCorrect` | `Spec => []PpeInv` |
| `AlertsAreFounded` | `Spec => []BlameIsShown`: an alert names an item only on the evidence of frames that showed it. |
| `NoSilentViolation` | `Spec => []ViolationIsReported`: a judged violation has been reported, for exactly these items, within the cooldown. |
| `RepeatsWait` | `Spec => RepeatsAreSpaced`: an unchanged violation waits for the cooldown. |

The argument. `BlameIsShown` looks at the last frame only and
`ViolationIsReported` at the last alert, so neither is inductive. `WindowInv`
says that the code's window of each item is the last `Window` votes that the
frames gave it since the track is remembered; `ReportInv` that a track is judged
only with enough votes, that `last_alert` is the time of the last alert, and the
statement of `ViolationIsReported`; `EventInv` that the alerts of the last frame
name what its window gives. A track that is pruned leaves all three trivially,
because its history is emptied with it.

### A frame: `AnalyticsProofs`

For every set of predictions a model may answer with, however many, every answer
of the tracker, and all limits that `validateDecodeOptions` accepts
(`FrameAssumption`; two predictions of a tensor differ in rank, two tracks in their
id, a letterbox has sides):

| Theorem | Says |
|---|---|
| `FrameCorrect` | `FrameSpec => []FrameInv` |
| `FrameKeepsTheBest` | `FrameSpec => []DetectionsAreTheBest`: in whatever order a model lists its predictions, what is kept is what a definition without an order says. |
| `MatchingStaysStable` | `FrameSpec => []MatchingIsStable`: no track and row that overlap would both be better off with each other. |
| `OneOwnerForEachItem` | `FrameSpec => []ItemsHaveOneOwner`: in whatever order the people stand they hold the same; an item has one owner at most, and the surest of a class are kept. |

The argument. The predictions are read one at a time, so `CandidatesInv` says at each
moment what the heap is: the `MaxCandidates` best of the acceptable predictions read
so far. `AddKeepsTheBest` is the step: what is better than the worst of the best
exchanges it, and nothing that was let go can come back (`BestOfBest`). `DecodedInv`,
`PeopleInv` and `HoldingsInv` say what the decoded, tracked and associated frame is.
Each is a fact about one greedy fold:

* `NmsKeepsTheBest`. The property names as survivors the candidates that no better
  survivor covers; that is one set only, because whether a candidate survives depends
  on the better ones alone (`OneIsSettled`), and the fold comes to them first.
* `MatchedIsStable`. `Closer` is a strict order on the overlaps, which are
  fractions with positive denominators (`CloserIsOrder`); a pair that the fold refuses
  finds its track or its row taken by a pair it came to before, which is at least as
  close.
* `OwnerIsUnique`, `PlaceIsUnordered`, `AssociatedIsUnordered`. The owner of an item is
  the greatest of an order on scores and tracks that has no ties, so where the
  people stand in the sequence makes no difference; `SurestIsKept` does the same
  for the detections of one list.

A fold is defined by a recursive function over sets or numbers, whose existence is an
induction. The library states induction over an operator, which the provers cannot
instantiate; it is stated here over a *set* (`NaturalsAll`, `FiniteSetsAll`, from the
library's theorems that the orders are well-founded), and `FoldExists` and
`PlacesFoldExists` unfold every fold of the module once and for all.

### The fall analyzer: `FallAnalyzerProofs`

For every set of tracks and poses, any number of frames, and every cooldown and
time to live the constructor accepts (`FallAssumption`):

| Theorem | Says |
|---|---|
| `FallTypeCorrect` | `Spec => []TypeOK`; no track was last seen later than now. |
| `FallCorrect` | `Spec => [](TypeOK /\ FallInv)` |
| `AlertsAreFounded` | `Spec => AlertNeedsEvidence`: an alert rests on `ConfirmFrames` candidate frames of its own fall. |
| `FallsAlertOnce` | `Spec => OneAlertPerFall`: a remembered track alerts again only after a recovery and after the cooldown. |

The argument. Both properties compare an alert with frames long gone, which the
histories `evidence`, `standing`, `risen`, `unbroken` and `alarm` keep. `FallInv`
ties the `State` to them for each track: the upright frames are the ones in a row
(`StandingInv`), the fall is active exactly when the last alert of this track has
not been followed by a recovery (`AlarmInv`), and decay only takes candidates away
(`EvidenceInv`). A frame changes one `State` in three ways (`FrameStates`), so the
invariant is proved for one track (`FrameKeepsTrack`); a reset is the frame that
forgets every track.

### The monitor: `MonitorProofs`

For any number of sources, frames and events, any batch size and any capacity
(`MonitorAssumption`):

| Theorem | Says |
|---|---|
| `MonitorTypeCorrect` | `Spec => []TypeOK` |
| `MonitorCorrect` | `Spec => []MonitorInv` |
| `AnalyticsStaySound` | `Spec => []AnalyticsIsSound`: analytics that an exception left half-way see no further frame, and the frames of a source come in strict order. |
| `NoEventIsLost` | `Spec => []NothingIsLost`: with exit code 0 every event is in the report or, without a queue, there or reported as not written. |
| `NoLastFrameIsMissed` | `Spec => []LastFrameIsSeen` |

The argument. `MonitorInv` has six parts. `AccountInv` says where every event is:
in a result that waits, in the channel, written or reported; an event leaves one
place for the next in each step, unless an exception unwinds the loop or the
channel has broken, and then `CodeInv` keeps the exit code from being 0.
`ChannelInv` says that the loop closes the channel before it waits for the drain,
so at the exit nothing is unsettled. `BatchInv` says that a batch holds one frame
of a source at most, newer than what its analytics have seen. `LastInv` says that
an iteration that found a capture ended has read its last frame: the end is read
before the frame, and an ended capture publishes nothing more.

### The launcher: `LauncherProofs`

For any amount of output, any preferences and any profiles (`OutputAssumption`,
`PreferencesAssumption`, `ProfileAssumption`), about the whole window (`Launcher`):

| Theorem | Says |
|---|---|
| `LauncherTypeCorrect` | `Spec => []TypeOK` |
| `LauncherCorrect` | `Spec => []LauncherInv` |
| `RuntimeStaysSupervised` | `Spec => []RuntimeIsSupervised` |
| `VerdictsAreTrue` | `Spec => []VerdictIsTrue` |
| `AnnouncementsAreKept` | `Spec => []AnnouncedIsKept` |
| `ProfilesStayKept` | `Spec => []ProfilesAreKept` |

The argument. `LauncherInv` is one invariant per part, and every step of the window
is a step of one part or leaves it alone. `ProcessInv` is the deep one: the
supervision holds when the GUI thread is idle only because of what holds while it
waits (`WaitInv`, `SupervisionInv`), and a verdict is true only because the log and
the preflight mark belong to this launch as long as the child is there (`LogInv`),
and because a verdict is the last word on a child that is gone (`VerdictInv`).
`PreferencesInv` adds to `AnnouncedIsKept` that the announced stream settings are
those of the window, so that a save of the thresholds, which writes them all, heals
an earlier save that was swallowed. `ProfilesInv` adds `WorkInv`: what an open dialog
has done by the time it comes to each of its steps. With it every step, and an end
before any step, keeps what `ProfilesAreKept` says of each profile (`Kept`): the
old profile of a rename goes only when the new one has its file and its password, and
a write that stored the file alone leaves a profile that is excepted.

### The start: `LauncherProofs`

For any command lines, settings, machines and files, a pipe of any size and any
number of exchanges of files (`StartupAssumption`: the launcher's dialogs offer only modes
and computes that exist; `FilesAssumption`: a model was exported end to end exactly if
its output has that shape):

| Theorem | Says |
|---|---|
| `StartupCorrect` | `StartupSpec => []StartupInv` |
| `CpuHasAReason` | `StartupSpec => []CpuIsExplained`: a runtime works on the CPU because it was asked to, or as an `auto` that saw no usable CUDA or saw it fail. |
| `AutoComesUp` | `StartupSpec => []AutoServes`: `auto` comes up wherever the CPU could have served, unless somebody exchanges files meanwhile. |
| `WarmupHasTheSay` | `StartupSpec => []WarmupDecides` |
| `LoadedStaysVerified` | `StartupSpec => []LoadedIsVerified`: a running runtime holds, for each role, a model that its manifest is about, also when files were exchanged between the reads. |
| `LaunchesAreUnderstood` | `StartupSpec => []LaunchedIsUnderstood` |

The argument. `StartupInv` has five parts. `ProcessesInv` says of each of the two
processes, by where it is, what its probe, its choice and its fallback may be
(`PlanOf`) and which files it has read and verified (`LoadOf`): the invariants of a
running runtime follow from what each step on the way checked. `ChildInv` is about
the two together: a child exists only for a parent whose plan is the ONNX CUDA
provider, and its exit code 0 means that its inference worked or that it gave CUDA up
itself. `CommandInv` says whose command line it is, so that `LaunchesAreUnderstood`
is a fact about the launcher's checks and the parser's: what of an authority the first
lets through and the second refuses. `ServeInv`
compares what was read with what is on disk as long as nothing was exchanged, which
`AutoServes` needs; `DiskInv` bounds what an exchange can bring.

### Checked by TLC only

Every safety invariant that a run checks is stated by a theorem above. TLC alone
checks everything under fairness (`QueueProceeds`, the liveness part of
`ImplementsChannel`, `CaptureProceeds`, `CallReturns`, `MonitorEnds`,
`StartupDecides`, `StopEnds`): liveness is out of the prover's reach.

## 5. Not modelled

* `reset` of the pipeline (nothing in the product calls it between frames), its
  class mask, and the tensors of a batch: `Monitor` has the order of inference and
  analytics in `processBatch`.
* BYTETrack itself, a library outside `src/`; the texts and ids of events.
* The characters of a command line, of JSON, protobuf and plan files, and SHA-256:
  `CommandLine` and `ModelContract` take their results.
* `foundation/contracts.cpp` and canonical JSON: validation and formatting of one
  value, without state or order.
* The pixels of preprocessing, and floats: outside what TLC can enumerate.
* Of `PerformanceTelemetry` everything but the gap count: increments under one
  mutex and samples that nothing reads back.
* Drawing, windows, platform calls, bindings, Python tools, installers: I/O.
* The CUDA and ONNX Runtime calls themselves: outside the repository. A session's
  constructor is modelled as what it compares with the manifest.

## 6. Plan

In order of importance to the system. All eight steps have a model; what each
leaves open:

1. `EvidenceQueue`, `EvidenceChannel` with their proofs: complete.
2. `EvidenceWriter` with its proofs: complete.
3. `LatestFrameCapture`, `CaptureTransport` with their proofs: complete.
4. `PoseExecutor`, `EnginePipeline` with their proofs: `reset` while calls wait for
   the mutex.
5. `FallAnalyzer`, `PpeAnalyzer`, `FrameAnalytics` with their proofs: complete for one
   component at a time; a composition in which a frame's people feed the two analyzers.
6. `Monitor` with its proofs: the refinement of each abstract capture by
   `LatestFrameCapture`.
7. `Startup` with its proofs: complete; that it ends (`StartupDecides`) stays with TLC.
8. `Launcher` with its proofs: complete.

To reproduce: `tlc -config X.cfg M.tla` for each run of `PROJECT.json`, and
`tlapm M.tla` for each module whose name ends in `Proofs`.
