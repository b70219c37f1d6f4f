----------------------------- MODULE LauncherProofs -----------------------------
(* Theorems about the launcher, for any amount of output, any preferences and
   any profiles: one invariant for each of its three parts, and the steps of the
   window as steps of the parts; and about the start of the runtime that it
   launches, for any situations, any pipe and any exchange of model files. *)
EXTENDS Launcher, Startup, TLAPS

--------------------------------------------------------------------------------
(* The runtime and the window. *)

Verdicts == {"crashed", "validationPassed", "completed", "stopped"}

(* What was written is logged, waits to be read, or was read after the log was
   closed. *)
OutputInv == logged + unread <= written

(* QProcess has no runtime only when there is none; it has one whenever the
   buttons say so, and the buttons say so unless a wait ran out. *)
SupervisionInv ==
  /\ proc = "notRunning" => child \in {"none"} \cup Ends
  /\ running => proc # "notRunning"
  /\ gui = "idle" /\ proc # "notRunning" /\ overdue = "none" => running
  /\ gui = "closed" => child \in {"none", "killed"} \cup Ends

(* While there is a runtime its log is open, unless the launch gave it up, and
   the preflight mark is that of its launch. *)
LogInv ==
  /\ gui # "closed" /\ proc # "notRunning" /\ overdue # "start" =>
       log /\ logged + unread = written
  /\ proc # "notRunning" => preflight = launched

(* A verdict is the last word on a runtime that is gone. *)
VerdictInv ==
  gui # "waitStarted" /\ status \in Verdicts =>
  /\ proc = "notRunning" /\ unread = 0
  /\ overdue # "start" => logged = written
  /\ status = "validationPassed" => launched /\ child = "exit0"
  /\ status = "completed" => ~launched /\ child = "exit0"

(* The window waits for the end of a runtime for a reason. *)
WaitInv == gui \in {"waitFinished", "waitKilled"} => purpose # "none"

(* The three parts of ProcessTypeOK. *)
CountersOK == /\ written \in 0..MaxOutput /\ unread \in 0..MaxOutput /\ logged \in 0..MaxOutput
FlagsOK ==
  /\ log \in BOOLEAN /\ preflight \in BOOLEAN /\ running \in BOOLEAN /\ launched \in BOOLEAN
ControlOK ==
  /\ proc \in {"notRunning", "starting", "running"}
  /\ child \in {"none", "spawned", "up", "asked", "killed"} \cup Ends
  /\ status \in {"ready", "validating", "running", "stopping", "validationFailed",
                 "couldNotStart", "startFailed"} \cup Verdicts
  /\ gui \in {"idle", "waitStarted", "waitFinished", "waitKilled", "closed"}
  /\ purpose \in {"none", "stop", "close", "destroy"}
  /\ overdue \in {"none", "start", "end"}

(* The three parts are the whole of the type invariant. *)
LEMMA TypeParts == ProcessTypeOK <=> CountersOK /\ FlagsOK /\ ControlOK
  BY DEF ProcessTypeOK, CountersOK, FlagsOK, ControlOK, Verdicts

ProcessInv == CountersOK /\ FlagsOK /\ ControlOK /\ OutputInv /\ WaitInv /\ SupervisionInv /\ LogInv /\ VerdictInv

(* A window opens without a runtime. *)
LEMMA ProcessInitHolds == ProcessInit => ProcessInv
<1> SUFFICES ASSUME ProcessInit PROVE ProcessInv
  OBVIOUS
<1>1. CountersOK
  BY OutputAssumption DEF ProcessInit, CountersOK
<1>2. FlagsOK
  BY DEF ProcessInit, FlagsOK
<1>3. ControlOK
  BY DEF ProcessInit, ControlOK, Ends
<1>4. OutputInv
  BY DEF ProcessInit, OutputInv
<1>5. WaitInv
  BY DEF ProcessInit, WaitInv
<1>6. SupervisionInv
  BY DEF ProcessInit, SupervisionInv, Ends
<1>7. LogInv
  BY DEF ProcessInit, LogInv
<1>8. VerdictInv
  BY DEF ProcessInit, VerdictInv, Verdicts
<1> QED
  BY <1>1, <1>2, <1>3, <1>4, <1>5, <1>6, <1>7, <1>8 DEF ProcessInv

(* A step of the runtime, of a handler or of a wait. *)
ProcessStep ==
  \/ \E check \in BOOLEAN : Launch(check) \/ LaunchRefused(check)
  \/ ChildWrites \/ ChildEnds \/ AppendOutput \/ LateStart \/ Finished
  \/ Started \/ StartFails \/ StartTimesOut
  \/ Stop \/ Close
  \/ WaitSeesEnd \/ WaitSeesFailure \/ GraceIsOver \/ KillIsOverdue

(* The counters of the output: what is read is no longer unread. *)
LEMMA OutputHolds == ProcessInv /\ ProcessStep => CountersOK' /\ OutputInv'
<1> SUFFICES ASSUME ProcessInv, ProcessStep PROVE CountersOK' /\ OutputInv'
  OBVIOUS
<1> USE DEF ProcessInv, CountersOK, OutputInv, WaitInv, ControlOK
<1>1. CASE \E check \in BOOLEAN : Launch(check)
  BY <1>1, OutputAssumption DEF Launch, MarkPreflight
<1>2. CASE \E check \in BOOLEAN : LaunchRefused(check)
  BY <1>2, OutputAssumption DEF LaunchRefused, Refusal, output
<1>3. CASE ChildWrites
  BY <1>3, OutputAssumption DEF ChildWrites
<1>4. CASE ChildEnds
  BY <1>4, OutputAssumption DEF ChildEnds, output
<1>5. CASE AppendOutput
  BY <1>5, OutputAssumption DEF AppendOutput, ReadOutput
<1>6. CASE LateStart
  BY <1>6, OutputAssumption DEF LateStart, OnFailedToStart, output
<1>7. CASE Finished
  BY <1>7, OutputAssumption DEF Finished, OnFinished, ReadOutput, Verdict
<1>8. CASE Started
  BY <1>8, OutputAssumption DEF Started, output
<1>9. CASE StartFails
  BY <1>9, OutputAssumption DEF StartFails, OnFailedToStart, Refusal, output
<1>10. CASE StartTimesOut
  BY <1>10, OutputAssumption DEF StartTimesOut, Refusal, output
<1>11. CASE Stop
  BY <1>11, OutputAssumption DEF Stop, Terminated, output
<1>12. CASE Close
  BY <1>12, OutputAssumption DEF Close, Terminated, ReadOutput, output
<1>13. CASE WaitSeesEnd
  BY <1>13, OutputAssumption DEF WaitSeesEnd, OnFinished, ReadOutput, Verdict, Release
<1>14. CASE WaitSeesFailure
  BY <1>14, OutputAssumption DEF WaitSeesFailure, Release, output
<1>15. CASE GraceIsOver
  BY <1>15, OutputAssumption DEF GraceIsOver, Killed, output
<1>16. CASE KillIsOverdue
  <2>1. /\ written' = written
        /\ \/ unread' = unread /\ logged' = logged
           \/ unread' = 0 /\ logged' = logged + unread
           \/ unread' = 0 /\ logged' = logged
    BY <1>16 DEF KillIsOverdue, ReadOutput, output
  <2> QED
    BY <2>1, OutputAssumption
<1> QED
  BY <1>1, <1>2, <1>3, <1>4, <1>5, <1>6, <1>7, <1>8, <1>9, <1>10,
     <1>11, <1>12, <1>13, <1>14, <1>15, <1>16 DEF ProcessStep

(* The control: the states, the buttons and the reason to wait. *)
LEMMA ControlHolds == ProcessInv /\ ProcessStep => FlagsOK' /\ ControlOK' /\ WaitInv'
<1> SUFFICES ASSUME ProcessInv, ProcessStep PROVE FlagsOK' /\ ControlOK' /\ WaitInv'
  OBVIOUS
<1> USE DEF ProcessInv, FlagsOK, ControlOK, WaitInv, Ends, Verdicts
<1>1. CASE \E check \in BOOLEAN : Launch(check)
  BY <1>1 DEF Launch, MarkPreflight
<1>2. CASE \E check \in BOOLEAN : LaunchRefused(check)
  BY <1>2 DEF LaunchRefused, Refusal, output
<1>3. CASE ChildWrites
  BY <1>3 DEF ChildWrites
<1>4. CASE ChildEnds
  BY <1>4 DEF ChildEnds, output
<1>5. CASE AppendOutput
  BY <1>5 DEF AppendOutput, ReadOutput
<1>6. CASE LateStart
  BY <1>6 DEF LateStart, OnFailedToStart, output
<1>7. CASE Finished
  BY <1>7 DEF Finished, OnFinished, ReadOutput, Verdict
<1>8. CASE Started
  BY <1>8 DEF Started, output
<1>9. CASE StartFails
  BY <1>9 DEF StartFails, OnFailedToStart, Refusal, output
<1>10. CASE StartTimesOut
  BY <1>10 DEF StartTimesOut, Refusal, output
<1>11. CASE Stop
  BY <1>11 DEF Stop, Terminated, output
<1>12. CASE Close
  BY <1>12 DEF Close, Terminated, ReadOutput, output
<1>13. CASE WaitSeesEnd
  BY <1>13 DEF WaitSeesEnd, OnFinished, ReadOutput, Verdict, Release
<1>14. CASE WaitSeesFailure
  <2>1. FlagsOK'
    BY <1>14 DEF WaitSeesFailure
  <2>2. ControlOK' /\ WaitInv'
    BY <1>14 DEF WaitSeesFailure, Release, output
  <2> QED
    BY <2>1, <2>2
<1>15. CASE GraceIsOver
  BY <1>15 DEF GraceIsOver, Killed, output
<1>16. CASE KillIsOverdue
  <2>1. FlagsOK'
    BY <1>16 DEF KillIsOverdue
  <2>2. ControlOK' /\ WaitInv'
    BY <1>16 DEF KillIsOverdue, Killed
  <2> QED
    BY <2>1, <2>2
<1> QED
  BY <1>1, <1>2, <1>3, <1>4, <1>5, <1>6, <1>7, <1>8, <1>9, <1>10,
     <1>11, <1>12, <1>13, <1>14, <1>15, <1>16 DEF ProcessStep

(* The buttons and the runtime. *)
LEMMA SupervisionHolds == ProcessInv /\ ProcessStep => SupervisionInv'
<1> SUFFICES ASSUME ProcessInv, ProcessStep PROVE SupervisionInv'
  OBVIOUS
<1> USE DEF ProcessInv, SupervisionInv, WaitInv, ControlOK, FlagsOK, Ends
<1>1. CASE \E check \in BOOLEAN : Launch(check)
  BY <1>1 DEF Launch, MarkPreflight
<1>2. CASE \E check \in BOOLEAN : LaunchRefused(check)
  BY <1>2 DEF LaunchRefused, Refusal, output
<1>3. CASE ChildWrites
  BY <1>3 DEF ChildWrites
<1>4. CASE ChildEnds
  BY <1>4 DEF ChildEnds, output
<1>5. CASE AppendOutput
  BY <1>5 DEF AppendOutput, ReadOutput
<1>6. CASE LateStart
  BY <1>6 DEF LateStart, OnFailedToStart, output
<1>7. CASE Finished
  BY <1>7 DEF Finished, OnFinished, ReadOutput, Verdict
<1>8. CASE Started
  BY <1>8 DEF Started, output
<1>9. CASE StartFails
  BY <1>9 DEF StartFails, OnFailedToStart, Refusal, output
<1>10. CASE StartTimesOut
  BY <1>10 DEF StartTimesOut, Refusal, output
<1>11. CASE Stop
  BY <1>11 DEF Stop, Terminated, output
<1>12. CASE Close
  BY <1>12 DEF Close, Terminated, ReadOutput, output
<1>13. CASE WaitSeesEnd
  BY <1>13 DEF WaitSeesEnd, OnFinished, ReadOutput, Verdict, Release
<1>14. CASE WaitSeesFailure
  BY <1>14 DEF WaitSeesFailure, Release, output
<1>15. CASE GraceIsOver
  BY <1>15 DEF GraceIsOver, Killed, output
<1>16. CASE KillIsOverdue
  BY <1>16 DEF KillIsOverdue, Killed, ReadOutput, output
<1> QED
  BY <1>1, <1>2, <1>3, <1>4, <1>5, <1>6, <1>7, <1>8, <1>9, <1>10,
     <1>11, <1>12, <1>13, <1>14, <1>15, <1>16 DEF ProcessStep

(* The log and the preflight mark of a run. *)
LEMMA LogHolds == ProcessInv /\ ProcessStep => LogInv'
<1> SUFFICES ASSUME ProcessInv, ProcessStep PROVE LogInv'
  OBVIOUS
<1> USE DEF ProcessInv, LogInv, CountersOK, FlagsOK, ControlOK, SupervisionInv, WaitInv
<1>1. CASE \E check \in BOOLEAN : Launch(check)
  BY <1>1 DEF Launch, MarkPreflight
<1>2. CASE \E check \in BOOLEAN : LaunchRefused(check)
  BY <1>2 DEF LaunchRefused, Refusal, output
<1>3. CASE ChildWrites
  BY <1>3 DEF ChildWrites
<1>4. CASE ChildEnds
  BY <1>4 DEF ChildEnds, output
<1>5. CASE AppendOutput
  BY <1>5 DEF AppendOutput, ReadOutput
<1>6. CASE LateStart
  BY <1>6 DEF LateStart, OnFailedToStart, output
<1>7. CASE Finished
  BY <1>7 DEF Finished, OnFinished, ReadOutput, Verdict
<1>8. CASE Started
  BY <1>8 DEF Started, output
<1>9. CASE StartFails
  BY <1>9 DEF StartFails, OnFailedToStart, Refusal, output
<1>10. CASE StartTimesOut
  BY <1>10 DEF StartTimesOut, Refusal, output
<1>11. CASE Stop
  BY <1>11 DEF Stop, Terminated, output
<1>12. CASE Close
  BY <1>12 DEF Close, Terminated, ReadOutput, output
<1>13. CASE WaitSeesEnd
  BY <1>13 DEF WaitSeesEnd, OnFinished, ReadOutput, Verdict, Release
<1>14. CASE WaitSeesFailure
  BY <1>14 DEF WaitSeesFailure, Release, output
<1>15. CASE GraceIsOver
  BY <1>15 DEF GraceIsOver, Killed, output
<1>16. CASE KillIsOverdue
  BY <1>16 DEF KillIsOverdue, Killed, ReadOutput, output
<1> QED
  BY <1>1, <1>2, <1>3, <1>4, <1>5, <1>6, <1>7, <1>8, <1>9, <1>10,
     <1>11, <1>12, <1>13, <1>14, <1>15, <1>16 DEF ProcessStep

(* The verdict on a run, from its log and its mark. *)
LEMMA VerdictHolds == ProcessInv /\ ProcessStep => VerdictInv'
<1> SUFFICES ASSUME ProcessInv, ProcessStep PROVE VerdictInv'
  OBVIOUS
<1> USE DEF ProcessInv, VerdictInv, LogInv, SupervisionInv, FlagsOK, ControlOK, WaitInv, CountersOK, Verdicts, Ends
<1>1. CASE \E check \in BOOLEAN : Launch(check)
  BY <1>1 DEF Launch, MarkPreflight
<1>2. CASE \E check \in BOOLEAN : LaunchRefused(check)
  BY <1>2 DEF LaunchRefused, Refusal, output
<1>3. CASE ChildWrites
  BY <1>3 DEF ChildWrites
<1>4. CASE ChildEnds
  BY <1>4 DEF ChildEnds, output
<1>5. CASE AppendOutput
  BY <1>5 DEF AppendOutput, ReadOutput
<1>6. CASE LateStart
  BY <1>6 DEF LateStart, OnFailedToStart, output
<1>7. CASE Finished
  BY <1>7 DEF Finished, OnFinished, ReadOutput, Verdict
<1>8. CASE Started
  BY <1>8 DEF Started, output
<1>9. CASE StartFails
  BY <1>9 DEF StartFails, OnFailedToStart, Refusal, output
<1>10. CASE StartTimesOut
  BY <1>10 DEF StartTimesOut, Refusal, output
<1>11. CASE Stop
  BY <1>11 DEF Stop, Terminated, output
<1>12. CASE Close
  BY <1>12 DEF Close, Terminated, ReadOutput, output
<1>13. CASE WaitSeesEnd
  BY <1>13 DEF WaitSeesEnd, OnFinished, ReadOutput, Verdict, Release
<1>14. CASE WaitSeesFailure
  BY <1>14 DEF WaitSeesFailure, Release, output
<1>15. CASE GraceIsOver
  BY <1>15 DEF GraceIsOver, Killed, output
<1>16. CASE KillIsOverdue
  BY <1>16 DEF KillIsOverdue, Killed, ReadOutput, output
<1> QED
  BY <1>1, <1>2, <1>3, <1>4, <1>5, <1>6, <1>7, <1>8, <1>9, <1>10,
     <1>11, <1>12, <1>13, <1>14, <1>15, <1>16 DEF ProcessStep

(* The five parts together are inductive. *)
LEMMA ProcessStepHolds == ProcessInv /\ ProcessStep => ProcessInv'
  BY OutputHolds, ControlHolds, SupervisionHolds, LogHolds, VerdictHolds DEF ProcessInv

(* A step of the other parts of the window leaves the process alone. *)
LEMMA ProcessStutters == ProcessInv /\ UNCHANGED processVars => ProcessInv'
  BY DEF processVars, output, ProcessInv, CountersOK, FlagsOK, ControlOK, OutputInv, WaitInv,
         SupervisionInv, LogInv, VerdictInv

(* A new window begins as the first one. *)
LEMMA ProcessRestarts == ProcessInit' => ProcessInv'
  BY ProcessInitHolds, PTL

--------------------------------------------------------------------------------
(* The preferences. *)

(* What the user was told of the stream settings is what the window holds: it is
   the save of them that may fail. *)
PreferencesInv ==
  PreferencesTypeOK /\ AnnouncedIsKept /\ announced.stream = memory.stream

(* The first session begins with what is on disk. *)
LEMMA PreferencesInitHolds == PreferencesInit => PreferencesInv
  BY DEF PreferencesInit, PreferencesInv, PreferencesTypeOK, AnnouncedIsKept, Preferences, Streams

(* A file that cannot be read is replaced by valid preferences. *)
LEMMA DefaultsAreValid == Defaults \in Preferences /\ Defaults.gate \in BOOLEAN
  BY PreferencesAssumption DEF Defaults, Preferences, Streams

(* A full save writes what it announces, or swallows that it did not. *)
LEMMA FullSave ==
  ASSUME PreferencesInv, NEW p \in Preferences, NEW g \in BOOLEAN, NEW writable \in BOOLEAN,
         memory' = p, SaveState(p, g, writable), gate' = g,
         announced' = [p EXCEPT !.gate = g], reverted' = FALSE
  PROVE  PreferencesInv'
<1> DEFINE saved == [p EXCEPT !.gate = g]
<1>1. /\ saved \in Preferences
      /\ saved.stream = p.stream /\ saved.confidence = p.confidence /\ saved.gate = g
  BY DEF Preferences
<1>2. /\ disk' = IF p.stream = "supported" /\ writable THEN saved ELSE disk
      /\ swallowed' = ~(p.stream = "supported" /\ writable)
  BY <1>1 DEF SaveState, Written, Saved
<1>3. disk \in Preferences /\ disk.stream = "supported"
  BY DEF PreferencesInv, PreferencesTypeOK
<1> HIDE DEF saved
<1>4. announced' = saved
  BY DEF saved
<1>5. PreferencesTypeOK'
  BY <1>1, <1>2, <1>3, <1>4 DEF PreferencesTypeOK
<1>6. AnnouncedIsKept'
  BY <1>1, <1>2, <1>4 DEF AnnouncedIsKept
<1>7. announced'.stream = memory'.stream
  BY <1>1, <1>4
<1> QED
  BY <1>5, <1>6, <1>7 DEF PreferencesInv

(* The dialog of the advanced settings announces what it tried to save. *)
LEMMA AdvancedSettingsHolds ==
  ASSUME PreferencesInv, NEW g \in BOOLEAN, NEW writable \in BOOLEAN, AdvancedSettings(g, writable)
  PROVE  PreferencesInv'
<1>1. memory' \in Preferences
  BY DEF PreferencesInv, PreferencesTypeOK, AdvancedSettings, Preferences, Streams
<1> QED
  BY <1>1, FullSave DEF AdvancedSettings

(* The dialog of the thresholds announces what it saved, which heals a save that
   was swallowed before: the stream settings in the window are the announced
   ones, and the gate on disk goes back to the window's old one. *)
LEMMA ThresholdsHold ==
  ASSUME PreferencesInv, NEW c \in Confidences, NEW writable \in BOOLEAN, PpeThresholds(c, writable)
  PROVE  PreferencesInv'
<1>1. /\ memory \in Preferences /\ disk \in Preferences /\ announced \in Preferences
      /\ gate \in BOOLEAN /\ reverted \in BOOLEAN /\ swallowed \in BOOLEAN
      /\ disk.stream = "supported" /\ announced.stream = memory.stream
  BY DEF PreferencesInv, PreferencesTypeOK
<1>2. /\ memory' \in Preferences
      /\ memory'.stream = memory.stream /\ memory'.confidence = c /\ memory'.gate = memory.gate
  BY <1>1 DEF PpeThresholds, Preferences
<1>3. CASE Saved(memory', writable)
  <2>1. disk' = memory' /\ reverted' = TRUE /\ swallowed' = FALSE /\ gate' = gate
    BY <1>3 DEF PpeThresholds, Written
  <2>2. announced' = [announced EXCEPT !.confidence = c]
    BY <1>3 DEF PpeThresholds
  <2>3. /\ announced' \in Preferences
        /\ announced'.stream = announced.stream /\ announced'.confidence = c
    BY <1>1, <2>2 DEF Preferences
  <2>4. memory'.stream = "supported"
    BY <1>3 DEF Saved
  <2>5. PreferencesTypeOK'
    BY <1>1, <1>2, <2>1, <2>3, <2>4 DEF PreferencesTypeOK
  <2>6. AnnouncedIsKept'
    BY <1>1, <1>2, <2>1, <2>3 DEF AnnouncedIsKept
  <2> QED
    BY <1>1, <1>2, <2>3, <2>5, <2>6 DEF PreferencesInv
<1>4. CASE ~Saved(memory', writable)
  <2>1. disk' = disk /\ UNCHANGED <<gate, announced, reverted, swallowed>>
    BY <1>4 DEF PpeThresholds, Written
  <2> QED
    BY <1>1, <1>2, <2>1 DEF PreferencesInv, PreferencesTypeOK, AnnouncedIsKept
<1> QED
  BY <1>3, <1>4

(* An import that breaks off changes the window only; a complete one announces
   what it tried to save. *)
LEMMA ImportHolds ==
  ASSUME PreferencesInv, NEW c \in Confidences, NEW g \in BOOLEAN, NEW s \in Streams,
         NEW bad \in {"none", "gate"}, NEW writable \in BOOLEAN,
         ImportPreferences(c, g, s, bad, writable)
  PROVE  PreferencesInv'
<1>1. memory \in Preferences
  BY DEF PreferencesInv, PreferencesTypeOK
<1>2. CASE bad = "gate"
  <2>1. /\ memory' = [memory EXCEPT !.confidence = c]
        /\ UNCHANGED <<gate, disk, announced, reverted, swallowed>>
    BY <1>2 DEF ImportPreferences
  <2>2. /\ memory' \in Preferences
        /\ memory'.stream = memory.stream /\ memory'.gate = memory.gate
    BY <1>1, <2>1 DEF Preferences
  <2> QED
    BY <2>1, <2>2 DEF PreferencesInv, PreferencesTypeOK, AnnouncedIsKept
<1>3. CASE bad = "none"
  <2>1. /\ memory' = [memory EXCEPT !.confidence = c, !.stream = s]
        /\ gate' = g /\ SaveState(memory', g, writable)
        /\ announced' = [memory' EXCEPT !.gate = g] /\ reverted' = FALSE
    BY <1>3 DEF ImportPreferences
  <2>2. memory' \in Preferences
    BY <1>1, <2>1 DEF Preferences
  <2> QED
    BY <2>1, <2>2, FullSave
<1> QED
  BY <1>2, <1>3

(* A new session shows what is on disk, or defaults without a word. *)
LEMMA SessionHolds ==
  ASSUME PreferencesInv, NEW closed \in BOOLEAN, NEW writable \in BOOLEAN,
         NEW readable \in BOOLEAN, NextSession(closed, writable, readable)
  PROVE  PreferencesInv'
<1>1. /\ memory \in Preferences /\ disk \in Preferences /\ gate \in BOOLEAN
      /\ disk.stream = "supported"
  BY DEF PreferencesInv, PreferencesTypeOK
<1>2. [memory EXCEPT !.gate = gate] \in Preferences
  BY <1>1 DEF Preferences
<1>3. disk' \in Preferences /\ disk'.stream = "supported"
  BY <1>1, <1>2 DEF NextSession, Written, Saved
<1>4. memory' = (IF readable THEN disk' ELSE Defaults)
  BY DEF NextSession
<1>5. memory' \in Preferences
  BY <1>3, <1>4, DefaultsAreValid
<1>6. memory'.gate \in BOOLEAN
  BY <1>5 DEF Preferences
<1>7. /\ gate' = memory'.gate /\ announced' = memory'
      /\ reverted' = FALSE /\ swallowed' = ~readable
  BY DEF NextSession
<1>8. PreferencesTypeOK'
  BY <1>3, <1>5, <1>6, <1>7 DEF PreferencesTypeOK
<1>9. AnnouncedIsKept'
  BY <1>4, <1>7 DEF AnnouncedIsKept
<1> QED
  BY <1>7, <1>8, <1>9 DEF PreferencesInv

(* A step of the other parts of the window leaves the preferences alone. *)
LEMMA PreferencesStutter == PreferencesInv /\ UNCHANGED preferenceVars => PreferencesInv'
  BY DEF preferenceVars, PreferencesInv, PreferencesTypeOK, AnnouncedIsKept

--------------------------------------------------------------------------------
(* The camera profiles. *)

(* What ProfilesAreKept says of one profile. *)
Kept(n) ==
  /\ told[n] # 0 => files[n] # 0
  /\ Settled(n) /\ told[n] # 0 => files[n] = told[n]
  /\ Settled(n) /\ files[n] # 0 /\ secrets[n] # 0 => secrets[n] = files[n]

(* What a dialog has done when it comes to a step: the profile it writes is in
   its file before its password, and with its password before the old profile
   goes; and nobody was told of a new name while the old profile has to go. *)
WorkInv ==
  /\ work.step \in {"file", "secret"} => work.name \in Names /\ work.version \in Versions
  /\ work.step \in {"file", "secret"} /\ work.leaving # {} => told[work.name] = 0
  /\ work.step = "secret" => files[work.name] = work.version
  /\ work.step = "unlink" /\ work.name # NoName =>
       /\ work.version \in Versions
       /\ files[work.name] = work.version /\ secrets[work.name] = work.version
  /\ work.step = "forget" => work.name \in Names

ProfilesInv == ProfilesTypeOK /\ WorkInv /\ \A n \in Names : Kept(n)

(* No version is the mark of a profile that is not there. *)
LEMMA VersionsAreContents == \A v \in Versions : v \in Contents /\ v # 0
  BY ProfileAssumption DEF Contents

(* An idle window has nothing left to do. *)
LEMMA IdleWorks == Idle \in Works /\ Idle.step = "none"
  BY DEF Idle, Works, Steps, Contents

(* The first session has no profiles. *)
LEMMA ProfilesInitHolds == ProfilesInit => ProfilesInv
  BY IdleWorks DEF ProfilesInit, ProfilesInv, ProfilesTypeOK, WorkInv, Kept, Contents

(* The profiles that a directory holds have names. *)
LEMMA PresentIsNames == Present(files) \subseteq Names /\ Present(files') \subseteq Names
  BY DEF Present

(* What is said of a profile does not change while its file, its password and
   its announcement stay, and its write neither begins nor ends. *)
LEMMA KeptStays ==
  ASSUME NEW n \in Names, Kept(n),
         files'[n] = files[n], secrets'[n] = secrets[n], told'[n] = told[n],
         Settled(n)' => Settled(n)
  PROVE  Kept(n)'
  BY DEF Kept

(* A dialog that the user accepted has done nothing yet. *)
LEMMA BeginHolds == ProfilesInv /\ BeginProfiles => ProfilesInv'
<1> SUFFICES ASSUME ProfilesInv, BeginProfiles PROVE ProfilesInv'
  OBVIOUS
<1>1. ASSUME NEW n \in Names, NEW v \in Versions, NEW leaving \in SUBSET Names,
             NEW import \in BOOLEAN, StartWrite(n, v, leaving, import),
             leaving # {} => told[n] = 0
      PROVE  ProfilesInv'
  <2>1. /\ work'.step = "file" /\ work'.name = n /\ work'.version = v
        /\ work'.leaving = leaving
        /\ UNCHANGED <<files, secrets, shown, told, torn>>
    BY <1>1 DEF StartWrite
  <2>2. work' \in Works
    BY <1>1, VersionsAreContents DEF StartWrite, Works, Steps
  <2>3. ASSUME NEW m \in Names PROVE Kept(m)'
    BY <1>1, <2>1, <2>3, KeptStays, IdleWorks DEF ProfilesInv, StartWrite, Settled
  <2> QED
    BY <1>1, <2>1, <2>2, <2>3 DEF ProfilesInv, ProfilesTypeOK, WorkInv
<1>2. ASSUME NEW selected \in SUBSET Names, DeleteProfiles(selected)
      PROVE  ProfilesInv'
  <2>1. /\ work' = [Idle EXCEPT !.step = "unlink", !.leaving = selected]
        /\ work = Idle
        /\ UNCHANGED <<files, secrets, shown, told, torn>>
    BY <1>2 DEF DeleteProfiles
  <2>2. work' \in Works /\ work'.step = "unlink" /\ work'.name = NoName
    BY <1>2, <2>1 DEF Idle, Works, Steps, Contents
  <2>3. ASSUME NEW m \in Names PROVE Kept(m)'
    BY <2>1, <2>2, <2>3, KeptStays, IdleWorks DEF ProfilesInv, Settled
  <2> QED
    BY <2>1, <2>2, <2>3 DEF ProfilesInv, ProfilesTypeOK, WorkInv
<1> QED
  <2>1. CASE \E n \in Names, v \in Versions : CreateProfile(n, v) \/ ImportCamera(n, v)
    BY <1>1, <2>1 DEF CreateProfile, ImportCamera
  <2>2. CASE \E old, new \in Names, v \in Versions : EditProfile(old, new, v)
    <3>1. PICK old \in Names, new \in Names, v \in Versions : EditProfile(old, new, v)
      BY <2>2
    <3>2. {old} \ {new} # {} => told[new] = 0
      BY <3>1 DEF EditProfile, ProfilesInv, Kept
    <3> QED
      BY <1>1, <3>1, <3>2 DEF EditProfile
  <2> QED
    BY <1>2, <2>1, <2>2 DEF BeginProfiles

(* The file of a profile is written; until its password is, it is unsettled. *)
LEMMA WriteFileHolds ==
  ASSUME ProfilesInv, NEW committed \in BOOLEAN, WriteFile(committed)
  PROVE  ProfilesInv'
<1>1. /\ work \in Works /\ work.step = "file" /\ work.name \in Names /\ work.version \in Versions
      /\ UNCHANGED <<secrets, shown, told, torn>>
  BY DEF ProfilesInv, ProfilesTypeOK, WorkInv, WriteFile
<1>2. files \in [Names -> Contents]
  BY DEF ProfilesInv, ProfilesTypeOK
<1>3. CASE committed
  <2>1. /\ files' = [files EXCEPT ![work.name] = work.version]
        /\ work' = [work EXCEPT !.step = "secret"]
    BY <1>3 DEF WriteFile
  <2>2. work' \in Works /\ work'.step = "secret" /\ work'.name = work.name
        /\ work'.version = work.version /\ work'.leaving = work.leaving
    BY <1>1, <2>1 DEF Works, Steps
  <2>3. files' \in [Names -> Contents] /\ files'[work.name] = work.version
    BY <1>1, <1>2, <2>1, VersionsAreContents
  <2>4. ASSUME NEW m \in Names PROVE Kept(m)'
    <3>1. CASE m = work.name
      BY <1>1, <2>2, <2>3, <3>1, VersionsAreContents DEF Kept, Settled
    <3>2. CASE m # work.name
      <4>1. files'[m] = files[m]
        BY <1>2, <2>1, <3>2
      <4>2. Settled(m)' => Settled(m)
        BY <1>1 DEF Settled
      <4> QED
        BY <1>1, <4>1, <4>2, KeptStays DEF ProfilesInv
    <3> QED
      BY <3>1, <3>2
  <2> QED
    BY <1>1, <2>2, <2>3, <2>4 DEF ProfilesInv, ProfilesTypeOK, WorkInv
<1>4. CASE ~committed
  <2>1. work' = Idle /\ files' = files
    BY <1>4 DEF WriteFile
  <2>2. ASSUME NEW m \in Names PROVE Kept(m)'
    BY <1>1, <2>1, <2>2, KeptStays DEF ProfilesInv, Settled
  <2> QED
    BY <1>1, <2>1, <2>2, IdleWorks DEF ProfilesInv, ProfilesTypeOK, WorkInv
<1> QED
  BY <1>3, <1>4

(* The password settles the profile, or leaves it torn. *)
LEMMA StoreSecretHolds ==
  ASSUME ProfilesInv, NEW stored \in BOOLEAN, StoreSecret(stored)
  PROVE  ProfilesInv'
<1>1. /\ work \in Works /\ work.step = "secret"
      /\ work.name \in Names /\ work.version \in Versions
      /\ files[work.name] = work.version /\ files' = files
  BY DEF ProfilesInv, ProfilesTypeOK, WorkInv, StoreSecret
<1>2. /\ secrets \in [Names -> Contents] /\ told \in [Names -> Contents]
      /\ files \in [Names -> Contents] /\ torn \in SUBSET Names /\ shown \in SUBSET Names
  BY DEF ProfilesInv, ProfilesTypeOK
<1>3. ASSUME NEW m \in Names, m # work.name,
             secrets'[m] = secrets[m], told'[m] = told[m], m \notin torn' => m \notin torn
      PROVE  Kept(m)'
  BY <1>1, <1>3, KeptStays DEF ProfilesInv, Settled
<1>4. CASE stored
  <2>1. /\ secrets' = [secrets EXCEPT ![work.name] = work.version]
        /\ torn' = torn \ {work.name}
    BY <1>4 DEF StoreSecret
  <2>2. /\ secrets' \in [Names -> Contents] /\ secrets'[work.name] = work.version
        /\ torn' \in SUBSET Names /\ work.name \notin torn'
    BY <1>1, <1>2, <2>1, VersionsAreContents
  <2>3. CASE work.leaving # {}
    <3>1. work' = [work EXCEPT !.step = "unlink"] /\ UNCHANGED <<shown, told>>
      BY <1>4, <2>3 DEF StoreSecret, Stored
    <3>2. /\ work' \in Works /\ work'.step = "unlink"
          /\ work'.name = work.name /\ work'.version = work.version
      BY <1>1, <3>1 DEF Works, Steps
    <3>3. ASSUME NEW m \in Names PROVE Kept(m)'
      <4>1. CASE m # work.name
        BY <1>2, <1>3, <2>1, <3>1, <4>1
      <4>2. CASE m = work.name
        <5>1. told[m] = 0
          BY <1>1, <2>3, <4>2 DEF ProfilesInv, WorkInv
        <5> QED
          BY <1>1, <2>2, <3>1, <4>2, <5>1, VersionsAreContents DEF Kept
      <4> QED
        BY <4>1, <4>2
    <3> QED
      BY <1>1, <1>2, <2>2, <3>1, <3>2, <3>3 DEF ProfilesInv, ProfilesTypeOK, WorkInv
  <2>4. CASE work.leaving = {}
    <3>1. /\ work' = IF work.import THEN [Idle EXCEPT !.step = "import"] ELSE Idle
          /\ shown' = Present(files)
          /\ told' = [told EXCEPT ![work.name] = work.version]
      BY <1>4, <2>4 DEF StoreSecret, Stored
    <3>2. work' \in Works /\ work'.step \in {"none", "import"}
      BY <3>1 DEF Idle, Works, Steps, Contents
    <3>3. told' \in [Names -> Contents] /\ told'[work.name] = work.version
      BY <1>1, <1>2, <3>1, VersionsAreContents
    <3>4. ASSUME NEW m \in Names PROVE Kept(m)'
      <4>1. CASE m # work.name
        BY <1>2, <1>3, <2>1, <3>1, <4>1
      <4>2. CASE m = work.name
        BY <1>1, <2>2, <3>3, <4>2, VersionsAreContents DEF Kept
      <4> QED
        BY <4>1, <4>2
    <3> QED
      BY <1>1, <1>2, <2>2, <3>1, <3>2, <3>3, <3>4, PresentIsNames
      DEF ProfilesInv, ProfilesTypeOK, WorkInv
  <2> QED
    BY <2>3, <2>4
<1>5. CASE ~stored
  <2>1. /\ work' = Idle /\ torn' = torn \cup {work.name}
        /\ UNCHANGED <<secrets, shown, told>>
    BY <1>5 DEF StoreSecret
  <2>2. ASSUME NEW m \in Names PROVE Kept(m)'
    <3>1. CASE m # work.name
      BY <1>3, <2>1, <3>1
    <3>2. CASE m = work.name
      BY <1>1, <2>1, <3>2, VersionsAreContents DEF Kept, Settled
    <3> QED
      BY <3>1, <3>2
  <2> QED
    BY <1>1, <1>2, <2>1, <2>2, IdleWorks DEF ProfilesInv, ProfilesTypeOK, WorkInv
<1> QED
  BY <1>4, <1>5

(* From the removal of its file the old profile of a rename is nobody's; the new
   one is the user's, with its file and its password. *)
LEMMA RemoveFileHolds ==
  ASSUME ProfilesInv, NEW n \in work.leaving, NEW removed \in BOOLEAN, RemoveFile(n, removed)
  PROVE  ProfilesInv'
<1>1. /\ work \in Works /\ work.step = "unlink" /\ n \in Names
      /\ UNCHANGED <<secrets, shown>>
  BY DEF ProfilesInv, ProfilesTypeOK, RemoveFile, Works
<1>2. /\ secrets \in [Names -> Contents] /\ told \in [Names -> Contents]
      /\ files \in [Names -> Contents] /\ torn \in SUBSET Names /\ shown \in SUBSET Names
  BY DEF ProfilesInv, ProfilesTypeOK
<1>3. work' = [work EXCEPT !.step = "forget", !.name = n, !.version = 0]
  BY DEF RemoveFile
<1>4. work' \in Works /\ work'.step = "forget" /\ work'.name = n
  BY <1>1, <1>3 DEF Works, Steps, Contents
<1>5. told' = [m \in Names |-> IF m = n THEN 0
                              ELSE IF m = work.name THEN work.version ELSE told[m]]
  BY DEF RemoveFile
<1>6. work.version \in Contents /\ 0 \in Contents
  BY <1>1 DEF Works, Contents
<1>7. told' \in [Names -> Contents]
  BY <1>2, <1>5, <1>6
<1>8. /\ files' = IF removed THEN [files EXCEPT ![n] = 0] ELSE files
      /\ torn' = IF removed THEN torn \ {n} ELSE torn
  BY DEF RemoveFile
<1>9. files' \in [Names -> Contents] /\ torn' \in SUBSET Names
  BY <1>2, <1>6, <1>8
<1>10. ASSUME NEW m \in Names PROVE Kept(m)'
  <2>1. CASE m = n
    <3>1. told'[m] = 0
      BY <1>1, <1>5, <2>1
    <3>2. CASE removed
      BY <1>1, <1>2, <1>8, <2>1, <3>1, <3>2 DEF Kept
    <3>3. CASE ~removed
      BY <1>1, <1>8, <1>10, <3>1, <3>3 DEF Kept, Settled, ProfilesInv
    <3> QED
      BY <3>2, <3>3
  <2>2. CASE m # n /\ m = work.name
    <3>1. /\ work.version \in Versions
          /\ files[m] = work.version /\ secrets[m] = work.version
      BY <1>1, <1>10, <2>2, ProfileAssumption DEF ProfilesInv, WorkInv
    <3>2. told'[m] = work.version /\ files'[m] = files[m] /\ secrets'[m] = secrets[m]
      BY <1>1, <1>2, <1>5, <1>8, <2>2
    <3> QED
      BY <3>1, <3>2, VersionsAreContents DEF Kept
  <2>3. CASE m # n /\ m # work.name
    <3>1. told'[m] = told[m] /\ files'[m] = files[m] /\ secrets'[m] = secrets[m]
      BY <1>1, <1>2, <1>5, <1>8, <2>3
    <3>2. Settled(m)' => Settled(m)
      BY <1>1, <1>8, <2>3 DEF Settled
    <3> QED
      BY <1>10, <3>1, <3>2, KeptStays DEF ProfilesInv
  <2> QED
    BY <2>1, <2>2, <2>3
<1> QED
  BY <1>1, <1>2, <1>4, <1>7, <1>9, <1>10 DEF ProfilesInv, ProfilesTypeOK, WorkInv

(* A forgotten password belongs to no file. *)
LEMMA ForgetSecretHolds ==
  ASSUME ProfilesInv, NEW forgotten \in BOOLEAN, ForgetSecret(forgotten)
  PROVE  ProfilesInv'
<1>1. /\ work \in Works /\ work.step = "forget" /\ work.name \in Names
      /\ UNCHANGED <<files, shown, told, torn>>
  BY DEF ProfilesInv, ProfilesTypeOK, WorkInv, ForgetSecret
<1>2. secrets \in [Names -> Contents]
  BY DEF ProfilesInv, ProfilesTypeOK
<1>3. /\ work' = [work EXCEPT !.step = "unlink", !.name = NoName, !.leaving = @ \ {work.name}]
      /\ secrets' = IF forgotten THEN [secrets EXCEPT ![work.name] = 0] ELSE secrets
  BY DEF ForgetSecret
<1>4. work' \in Works /\ work'.step = "unlink" /\ work'.name = NoName
  BY <1>1, <1>3 DEF Works, Steps
<1>5. secrets' \in [Names -> Contents]
  BY <1>2, <1>3 DEF Contents
<1>6. ASSUME NEW m \in Names PROVE Kept(m)'
  <2>1. secrets'[m] \in {0, secrets[m]}
    BY <1>2, <1>3
  <2>2. Settled(m)' => Settled(m)
    BY <1>1 DEF Settled
  <2> QED
    BY <1>1, <1>6, <2>1, <2>2 DEF ProfilesInv, Kept
<1> QED
  BY <1>1, <1>4, <1>5, <1>6 DEF ProfilesInv, ProfilesTypeOK, WorkInv

(* A window that is done, or that gives up, touches no profile. *)
LEMMA ListHolds ==
  ASSUME ProfilesInv, LeaveDone \/ DeleteThrows \/ ImportGoesOn
  PROVE  ProfilesInv'
<1>1. /\ work' = Idle /\ work.step # "secret"
      /\ UNCHANGED <<files, secrets, told, torn>>
      /\ shown' \in {shown, Present(files)}
  BY DEF LeaveDone, DeleteThrows, ImportGoesOn
<1>2. ASSUME NEW m \in Names PROVE Kept(m)'
  BY <1>1, <1>2, KeptStays DEF ProfilesInv, Settled
<1> QED
  BY <1>1, <1>2, IdleWorks, PresentIsNames DEF ProfilesInv, ProfilesTypeOK, WorkInv

(* Every step of a dialog, and its beginning. *)
LEMMA ProfileStepHolds == ProfilesInv /\ ProfileStep => ProfilesInv'
  BY WriteFileHolds, StoreSecretHolds, RemoveFileHolds, ForgetSecretHolds, ListHolds
  DEF ProfileStep

(* A launcher that starts finds its files, and its passwords if they persist; a
   profile whose password the last launcher had still to store is torn. *)
LEMMA ProfileSessionHolds == ProfilesInv /\ NextProfileSession => ProfilesInv'
<1> SUFFICES ASSUME ProfilesInv, NextProfileSession PROVE ProfilesInv'
  OBVIOUS
<1>1. /\ work' = Idle /\ UNCHANGED <<files, told>> /\ shown' = Present(files)
      /\ torn' = IF work.step = "secret" THEN torn \cup {work.name} ELSE torn
      /\ secrets' = IF PersistentSecrets THEN secrets ELSE [n \in Names |-> 0]
  BY DEF NextProfileSession
<1>2. work.step = "secret" => work.name \in Names
  BY DEF ProfilesInv, WorkInv
<1>3. ProfilesTypeOK'
  BY <1>1, <1>2, IdleWorks, PresentIsNames DEF ProfilesInv, ProfilesTypeOK, Contents
<1>4. ASSUME NEW m \in Names PROVE Kept(m)'
  <2>1. Settled(m)' => Settled(m)
    BY <1>1 DEF Settled
  <2>2. secrets'[m] \in {0, secrets[m]}
    BY <1>1, <1>4
  <2> QED
    BY <1>1, <1>4, <2>1, <2>2 DEF ProfilesInv, Kept
<1> QED
  BY <1>1, <1>3, <1>4, IdleWorks DEF ProfilesInv, WorkInv

(* A step of the other parts of the window leaves the profiles alone. *)
LEMMA ProfilesStutter == ProfilesInv /\ UNCHANGED profileVars => ProfilesInv'
  BY DEF profileVars, ProfilesInv, ProfilesTypeOK, WorkInv, Kept, Settled

--------------------------------------------------------------------------------
(* The steps of the window as steps of its parts. *)

LauncherInv == ProcessInv /\ PreferencesInv /\ ProfilesInv

(* The launcher begins with its three invariants. *)
LEMMA InitHolds == Init => LauncherInv
  BY ProcessInitHolds, PreferencesInitHolds, ProfilesInitHolds DEF Init, LauncherInv

(* A launch, accepted or refused, is a step of the process. *)
LEMMA LaunchStep ==
  ASSUME NEW check \in BOOLEAN, LaunchRuntime(check)
  PROVE  ProcessStep /\ UNCHANGED preferenceVars /\ UNCHANGED profileVars
  BY DEF LaunchRuntime, ProcessStep, storeVars

(* So is every other step of the runtime and of its buttons. *)
LEMMA RuntimeIsProcessStep ==
  RuntimeStep => ProcessStep /\ UNCHANGED preferenceVars /\ UNCHANGED profileVars
  BY DEF RuntimeStep, ProcessStep, storeVars

(* Editing the preferences keeps the other invariants. *)
LEMMA ChangePreferencesHolds == LauncherInv /\ ChangePreferences => LauncherInv'
  BY AdvancedSettingsHolds, ThresholdsHold, ProcessStutters, ProfilesStutter
  DEF LauncherInv, ChangePreferences

(* Importing a .env file writes the preferences once the profile is written. *)
LEMMA ImportEnvHolds == LauncherInv /\ ImportEnv => LauncherInv'
<1> SUFFICES ASSUME LauncherInv, ImportEnv PROVE LauncherInv'
  OBVIOUS
<1>1. ProfilesInv'
  BY ListHolds, ProfilesStutter DEF LauncherInv, ImportEnv
<1>2. PreferencesInv'
  BY ImportHolds DEF LauncherInv, ImportEnv
<1> QED
  BY <1>1, <1>2, ProcessStutters DEF LauncherInv, ImportEnv

(* Editing the profiles keeps the other invariants. *)
LEMMA ChangeProfilesHolds == LauncherInv /\ ChangeProfiles => LauncherInv'
<1> SUFFICES ASSUME LauncherInv, ChangeProfiles PROVE LauncherInv'
  OBVIOUS
<1>1. ProfilesInv'
  BY BeginHolds, ProfileStepHolds DEF LauncherInv, ChangeProfiles
<1> QED
  BY <1>1, ProcessStutters, PreferencesStutter DEF LauncherInv, ChangeProfiles

(* A restart begins a session of all three parts, whatever the last one was
   about to write. *)
LEMMA RestartHolds == LauncherInv /\ Restart => LauncherInv'
<1> SUFFICES ASSUME LauncherInv, Restart PROVE LauncherInv'
  OBVIOUS
<1>1. ProcessInit'
  BY DEF Restart, ProcessInit
<1>2. PreferencesInv'
  BY SessionHolds DEF LauncherInv, Restart
<1>3. ProfilesInv'
  BY ProfileSessionHolds DEF LauncherInv, Restart
<1> QED
  BY <1>1, <1>2, <1>3, ProcessRestarts DEF LauncherInv

(* The invariant is inductive. *)
LEMMA NextHolds == LauncherInv /\ [Next]_vars => LauncherInv'
<1> SUFFICES ASSUME LauncherInv, [Next]_vars PROVE LauncherInv'
  OBVIOUS
<1>1. CASE \E check \in BOOLEAN : LaunchRuntime(check)
  BY <1>1, LaunchStep, ProcessStepHolds, PreferencesStutter, ProfilesStutter DEF LauncherInv
<1>2. CASE RuntimeStep
  BY <1>2, RuntimeIsProcessStep, ProcessStepHolds, PreferencesStutter, ProfilesStutter DEF LauncherInv
<1>3. CASE ChangePreferences
  BY <1>3, ChangePreferencesHolds
<1>4. CASE ChangeProfiles
  BY <1>4, ChangeProfilesHolds
<1>5. CASE ImportEnv
  BY <1>5, ImportEnvHolds
<1>6. CASE Restart
  BY <1>6, RestartHolds
<1>7. CASE UNCHANGED vars
  BY <1>7, ProcessStutters, PreferencesStutter, ProfilesStutter DEF LauncherInv, vars
<1> QED
  BY <1>1, <1>2, <1>3, <1>4, <1>5, <1>6, <1>7 DEF Next

--------------------------------------------------------------------------------
(* Theorems. *)

(* The invariants of the three parts hold together, through saves that fail and
   a launcher that ends between any two of its steps. *)
THEOREM LauncherCorrect == Spec => []LauncherInv
  BY InitHolds, NextHolds, PTL DEF Spec

(* The variables of the window keep their types, for any amount of output. *)
THEOREM LauncherTypeCorrect == Spec => []TypeOK
<1>1. LauncherInv => TypeOK
  BY TypeParts DEF LauncherInv, ProcessInv, PreferencesInv, ProfilesInv, TypeOK
<1> QED
  BY <1>1, LauncherCorrect, PTL

(* Stop is offered exactly while there is a runtime to stop, unless a wait for
   it ran out, and closing leaves none that was not killed. *)
THEOREM RuntimeStaysSupervised == Spec => []RuntimeIsSupervised
<1>1. LauncherInv => RuntimeIsSupervised
  BY DEF LauncherInv, ProcessInv, SupervisionInv, RuntimeIsSupervised
<1> QED
  BY <1>1, LauncherCorrect, PTL

(* The verdict that is shown is about the run that ended, and its log is
   complete unless the launch had given the run up. *)
THEOREM VerdictsAreTrue == Spec => []VerdictIsTrue
<1>1. LauncherInv => VerdictIsTrue
  BY DEF LauncherInv, ProcessInv, VerdictInv, VerdictIsTrue, Verdicts
<1> QED
  BY <1>1, LauncherCorrect, PTL

(* What the user was told is saved is on disk although any save may fail, with
   the exceptions that AnnouncedIsKept names: the failure that saveState drops,
   and the pose gate that a save of the thresholds takes back. *)
THEOREM AnnouncementsAreKept == Spec => []AnnouncedIsKept
<1>1. LauncherInv => AnnouncedIsKept
  BY DEF LauncherInv, PreferencesInv
<1> QED
  BY <1>1, LauncherCorrect, PTL

(* No profile that the user made is lost, and no camera is opened with the
   password of another content, through failed steps, renames and a launcher
   that ends between any two steps, except a profile whose file was written
   without its password. *)
THEOREM ProfilesStayKept == Spec => []ProfilesAreKept
<1>1. LauncherInv => ProfilesAreKept
  BY DEF LauncherInv, ProfilesInv, Kept, ProfilesAreKept
<1> QED
  BY <1>1, LauncherCorrect, PTL

--------------------------------------------------------------------------------
(* The start of a runtime: the plan, the warm-up, the models. *)

(* What a process of the runtime keeps. *)
Fields == {"pc", "requested", "status", "selection", "fallback", "failed", "role",
           "manifest", "model", "schema", "code"}
ShapeOf(x) ==
  /\ DOMAIN x = Fields
  /\ DOMAIN x.manifest = Roles /\ DOMAIN x.model = Roles /\ DOMAIN x.schema = Roles
  /\ x.role \in Roles
  /\ x.failed \in BOOLEAN
  /\ x.pc # "ended" => x.code = NotEnded

(* What the command line, the installation and the machine make of the question
   where to run: the same for both processes. *)
Installed == IF cmd.compute = "unset" THEN start.installed ELSE "unset"
Asked == Requested(cmd.compute, Installed)
Status == IF Asked = "cpu" THEN "no_nvidia_adapter" ELSE ProbeHardware(start.machine).status
Planned == SelectComputeBackend(Asked, Status, start.machine, Available, cmd.mode)

(* The command line is one that leads to a preflight. *)
Admitted ==
  /\ Understood(cmd) /\ cmd.asks \notin {"help", "probe"}
  /\ Installed \notin {"malformed", "unreadable"}

Unborn == {"absent", "launcher", "parse"}
Planless == Unborn \cup {"plan", "ended"}

(* A process that has a plan has the plan of the command line, or is the Auto
   that gave up CUDA for good. *)
PlanOf(x) ==
  /\ x.fallback \in {Nowhere, Cpu}
  /\ x.fallback = Cpu => x.requested = "auto"
  /\ x.failed => x.requested = "auto" /\ x.selection = Cpu /\ x.fallback = Nowhere
  /\ x.pc \in Unborn => x.requested = None
  /\ x.pc \in Unborn \cup {"plan"} => ~x.failed
  /\ x.pc \notin Unborn /\ x.requested # None => x.requested = Asked /\ Admitted
  /\ x.pc \notin Unborn \cup {"ended"} => x.requested = Asked /\ Admitted
  /\ x.pc \notin Planless => x.status = Status /\ x.selection # Nowhere
  /\ x.pc \notin Planless /\ ~x.failed =>
       /\ x.selection = Planned
       /\ x.fallback = Fallback(Asked, Planned, Available, cmd.mode)

ModelRoles == IF cmd.mode = "ppe-fall" THEN Roles ELSE {"ppe"}
ByOnnx(x) == x.selection.provider # "tensorrt"

(* The session of a role holds a verified model, read as it was exported. *)
Held(x, r) ==
  VerifyOnnxModel(x.manifest[r], x.model[r], r) /\ x.schema[r] = x.model[r].export

(* What was read and opened so far, by where the process is. *)
LoadOf(x) ==
  /\ x.pc \in Unborn \cup {"plan", "check", "warmup", "load"} => x.role = "ppe"
  /\ x.pc \in {"manifest", "model", "session"} =>
       /\ ByOnnx(x)
       /\ x.role \in ModelRoles
       /\ x.role = "pose" => Held(x, "ppe")
  /\ x.pc = "session" =>
       /\ VerifyOnnxModel(x.manifest[x.role], x.model[x.role], x.role)
       /\ x.model[x.role] \in {start.files[x.role].model, start.next[x.role].model}
  /\ x.pc \in {"infer", "report", "running"} /\ ByOnnx(x) =>
       \A r \in ModelRoles : Held(x, r)

ProcessesInv ==
  /\ start \in Starts
  /\ DOMAIN process = Processes
  /\ \A p \in Processes : ShapeOf(process[p]) /\ PlanOf(process[p]) /\ LoadOf(process[p])

(* A file is the one that was there or the one it was exchanged for. *)
DiskInv ==
  /\ edits \in Nat
  /\ DOMAIN onDisk = Roles
  /\ \A r \in Roles :
       /\ DOMAIN onDisk[r] = {"manifest", "model"}
       /\ onDisk[r].model \in {start.files[r].model, start.next[r].model}

(* The command line is the operator's or the plan of the launcher's settings. *)
CommandInv ==
  /\ process["runtime"].pc = "launcher" => ByLauncher
  /\ process["runtime"].pc # "launcher" /\ process["runtime"].code # RefusedByLauncher =>
       IF ByLauncher
       THEN /\ ~PlanRefused(start.settings, start.roots)
            /\ cmd = LaunchPlan(start.settings, start.roots, start.settings.preflight)
            /\ process["runtime"].code = 2 => ~Understood(cmd)
       ELSE cmd = start.cmd

(* The child has a parent whose plan is the ONNX CUDA provider; that it says yes
   means that its inference worked, or that it gave CUDA up itself. *)
ChildInv ==
  LET w == process["warmup"]
      x == process["runtime"]
  IN  /\ x.pc \notin {"absent", "infer"} /\ w.pc # "launcher"
      /\ x.pc = "warmup" => NeedsWarmup("runtime")
      /\ w.pc # "absent" =>
           /\ x.pc \notin Unborn /\ x.code # RefusedByLauncher
           /\ Planned = Cuda("onnxCuda") /\ Admitted
      /\ w.pc = "infer" => ~w.failed /\ start.machine.cuda # "absent"
      /\ w.pc \in {"manifest", "model", "session"} /\ w.role = "pose" =>
           w.failed \/ start.machine.cuda # "absent"
      /\ w.pc = "report" \/ (w.pc = "ended" /\ w.code = 0) =>
           w.failed \/ start.machine.cuda = "works"
      /\ x.pc \in {"load", "manifest", "model", "session", "report", "running"} /\ NeedsWarmup("runtime") =>
           w.pc = "ended" /\ w.code = 0

(* With the models as they were at the start, what a process has read is what
   is there, and the CPU serves where it can. *)
ServeInv ==
  LET x == process["runtime"] IN
    edits = 0 =>
      /\ x.pc \in {"model", "session"} => x.manifest[x.role] = onDisk[x.role].manifest
      /\ x.pc = "session" => x.model[x.role] = onDisk[x.role].model
      /\ x.requested = "auto" /\ CpuWouldServe =>
           /\ x.pc = "ended" => x.code = 0
           /\ x.pc \notin Planless => x.fallback = Cpu \/ x.selection = Cpu

StartupInv == ProcessesInv /\ DiskInv /\ CommandInv /\ ChildInv /\ ServeInv

(* Where inference may run. *)

(* The probe answers with one of five words, and its exit code with 13 at most. *)
LEMMA ProbeAnswers ==
  ASSUME NEW machine, machine.display \in Displays, machine.driver \in Drivers
  PROVE  HardwareProbeExitCode(ProbeHardware(machine).status) \in 0..13
<1> DEFINE answers == {"cuda_ready", "no_nvidia_adapter", "driver_unavailable", "probe_error", "driver_too_old"}
<1>1. ListDevices(machine.devices).status \in answers
  BY DEF ListDevices, Probe
<1>2. ProbeDriver(machine).status \in answers
  BY <1>1 DEF ProbeDriver, Probe, Drivers
<1>3. ProbeHardware(machine).status \in answers
  BY <1>2 DEF ProbeHardware, Probe, Displays
<1>4. QED
  BY <1>3 DEF HardwareProbeExitCode

(* Nowhere, the CPU and CUDA with any provider are three different plans. *)
LEMMA Backends ==
  /\ Cpu # Nowhere
  /\ Cpu.provider = "onnxCpu" /\ Nowhere.provider = "none"
  /\ \A provider : Cuda(provider) # Cpu /\ Cuda(provider) # Nowhere /\ Cuda(provider).provider = provider
                   /\ Cuda(provider).backend = "cuda"
  /\ Cpu.backend = "cpu"
<1>1. Cpu.backend = "cpu" /\ Cpu.provider = "onnxCpu" /\ Nowhere.backend = "none" /\ Nowhere.provider = "none"
  BY DEF Cpu, Nowhere
<1>2. ASSUME NEW provider PROVE Cuda(provider).provider = provider /\ Cuda(provider).backend = "cuda"
  BY DEF Cuda
<1>3. QED
  BY <1>1, <1>2

(* The plan is nowhere, the CPU, or CUDA with a provider that is there; the CPU
   is planned only for who asks for it and for an Auto without usable CUDA. *)
LEMMA PlanFacts ==
  ASSUME NEW requested, NEW answer, NEW machine, NEW models, NEW mode, NEW selection,
         selection = SelectComputeBackend(requested, answer, machine, models, mode)
  PROVE  /\ selection.provider = "onnxCuda" => selection = Cuda("onnxCuda")
         /\ selection = Cpu =>
              \/ requested = "cpu"
              \/ requested = "auto" /\ (answer # "cuda_ready" \/ CudaProvider(machine, models, mode) = "none")
         /\ requested = "auto" /\ Complete(models, "onnx", mode) =>
              /\ selection # Nowhere
              /\ Fallback(requested, selection, models, mode) = Cpu \/ selection = Cpu
         /\ Fallback(requested, selection, models, mode) \in {Nowhere, Cpu}
         /\ Fallback(requested, selection, models, mode) = Cpu => requested = "auto"
<1>1. \/ selection = Nowhere /\ ~(requested = "auto" /\ Complete(models, "onnx", mode))
      \/ /\ selection = Cpu
         /\ \/ requested = "cpu"
            \/ requested = "auto" /\ (answer # "cuda_ready" \/ CudaProvider(machine, models, mode) = "none")
      \/ selection = Cuda(CudaProvider(machine, models, mode))
  BY DEF SelectComputeBackend
<1>2. QED
  BY <1>1, Backends DEF Fallback

(* How a model's output is read is how it was exported. *)
LEMMA ExportIsRead ==
  ASSUME NEW r \in Roles, NEW m, NEW model, NEW size, NEW keypoints \in Nat \X Nat,
         VerifyOnnxModel(m, model, r),
         model.export = IF EndToEnd(r, model.output, keypoints) THEN "end2end" ELSE "raw",
         Schema(r, SessionOutput(m, model, size), keypoints) # "refused"
  PROVE  Schema(r, SessionOutput(m, model, size), keypoints) = model.export
<1> DEFINE shape == SessionOutput(m, model, size)
<1>1. shape # NoShape
  BY DEF Schema
<1>2. m.output = model.output
  BY <1>1 DEF SessionOutput
<1>3. m.role = r /\ ManifestAccepted(m)
  BY DEF VerifyOnnxModel
<1>4. CASE shape = m.output
  <2>1. CASE r = "ppe"
    BY <1>1, <1>2, <1>4, <2>1 DEF Schema, DetectSchema, RawSchema, EndToEnd
  <2>2. CASE r = "pose"
    <3> DEFINE payload == keypoints[1] * keypoints[2]
    <3>1. Schema(r, shape, keypoints) = PoseSchema(shape, keypoints)
      BY <1>1, <2>2 DEF Schema
    <3>2. keypoints[2] \in Nat /\ keypoints[2] >= 3
      BY <3>1 DEF PoseSchema
    <3>3. EndToEnd(r, shape, keypoints) <=> shape[2] = 300 /\ shape[3] = 6 + payload
      BY <2>2 DEF EndToEnd
    <3>4. CASE EndToEnd(r, shape, keypoints)
      BY <1>2, <1>4, <3>1, <3>2, <3>3, <3>4 DEF PoseSchema
    <3>5. CASE ~EndToEnd(r, shape, keypoints)
      <4>1. PoseSchema(shape, keypoints) = RawSchema(shape, 1 + payload)
        BY <3>2, <3>3, <3>5 DEF PoseSchema
      <4>2. QED
        BY <1>2, <1>4, <3>1, <3>5, <4>1 DEF RawSchema
    <3>6. QED
      BY <3>4, <3>5
  <2>3. QED
    BY <2>1, <2>2 DEF Roles
<1>5. CASE shape # m.output
  <2>1. /\ m.role = "ppe" /\ m.output[3] = Dynamic /\ m.schema >= 2
        /\ shape = <<1, 12, YoloPredictionCount(size)>>
    BY <1>1, <1>5 DEF SessionOutput
  <2>2. m.output = ApprovedOutput(m)
    BY <1>3, <2>1 DEF ManifestAccepted
  <2>3. m.output = <<1, 300, 6>> \/ m.output = <<1, 12, Dynamic>>
    BY <2>1, <2>2 DEF ApprovedOutput
  <2>4. m.output[2] = 12
    BY <2>1, <2>3 DEF Dynamic
  <2>5. model.export = "raw"
    BY <1>2, <2>4 DEF EndToEnd
  <2>6. shape[2] # 300
    BY <2>1
  <2>7. QED
    BY <1>1, <1>3, <2>1, <2>5, <2>6 DEF Schema, DetectSchema, RawSchema
<1>6. QED
  BY <1>4, <1>5

(* What the launcher's checks let through is understood, but for the two cases
   that LaunchedIsUnderstood names. *)
LEMMA PlanIsUnderstood ==
  ASSUME NEW settings, NEW roots, NEW check, NEW plan,
         settings.mode \in {"ppe-only", "ppe-fall"},
         plan = LaunchPlan(settings, roots, check),
         ~PlanRefused(settings, roots),
         ~Understood(plan)
  PROVE  \/ \E i \in DOMAIN plan.sources : OnlyRuntimeLooks(plan.sources[i].place)
         \/ ClashOfDefault(plan.sources)
<1> DEFINE root == roots[ChosenRoot(settings, roots)]
           pose == settings.mode = "ppe-fall"
<1>1. /\ plan.asks \in {"preflight", "run"} /\ plan.mode = settings.mode
      /\ plan.compute = settings.compute /\ plan.files = PlannedFiles(settings, root)
      /\ plan.sources = settings.cameras /\ plan.output = TRUE /\ plan.numbers = "fine"
      /\ plan.report = settings.report /\ plan.snapshots = settings.report
      /\ plan.benchmark = FALSE
  BY DEF LaunchPlan
<1>2. /\ settings.cameras # <<>>
      /\ \A i \in DOMAIN settings.cameras :
           settings.cameras[i].place.rtsp => ~CameraUrlFails(settings.cameras[i].place)
      /\ ~NamedTwice(settings.cameras)
      /\ Serves(root, settings.compute, pose)
  BY DEF PlanRefused, SourceRefused
<1>3. ASSUME NEW kind \in Kinds, <<"ppe", kind>> \in plan.files,
             pose => <<"pose", kind>> \in plan.files
      PROVE  Given(plan.files, kind, plan.mode)
  BY <1>1, <1>3 DEF Given
<1>4. ModelsSuffice(plan)
  <2>1. CASE OnnxComplete(root, pose)
    <3>1. <<"ppe", "onnx">> \in plan.files /\ (pose => <<"pose", "onnx">> \in plan.files)
      BY <1>1, <2>1 DEF PlannedFiles, Roles, Kinds
    <3>2. Given(plan.files, "onnx", plan.mode)
      BY <1>3, <3>1 DEF Kinds
    <3>3. QED
      BY <3>2 DEF ModelsSuffice
  <2>2. CASE EnginesComplete(root, pose) /\ settings.compute # "cpu"
    <3>1. <<"ppe", "engine">> \in plan.files /\ (pose => <<"pose", "engine">> \in plan.files)
      BY <1>1, <2>2 DEF PlannedFiles, Roles, Kinds
    <3>2. Given(plan.files, "engine", plan.mode)
      BY <1>3, <3>1 DEF Kinds
    <3>3. QED
      BY <1>1, <2>2, <3>2 DEF ModelsSuffice
  <2>3. QED
    BY <1>2, <2>1, <2>2 DEF Serves
<1>5. \/ \E i \in DOMAIN plan.sources :
           plan.sources[i].place.rtsp /\ RtspAuthorityFails(plan.sources[i].place)
      \/ ~UniqueLabels(plan.sources)
  BY <1>1, <1>2, <1>4 DEF Understood, Valid
<1>6. CASE \E i \in DOMAIN plan.sources :
              plan.sources[i].place.rtsp /\ RtspAuthorityFails(plan.sources[i].place)
  BY <1>1, <1>2, <1>6 DEF RtspAuthorityFails, CameraUrlFails, OnlyRuntimeLooks
<1>7. CASE ~UniqueLabels(plan.sources)
  <2>1. PICK i, j \in DOMAIN plan.sources :
          LabelOf(plan.sources[i]) = LabelOf(plan.sources[j]) /\ i # j
    BY <1>7 DEF UniqueLabels
  <2>2. plan.sources[i].label = NoLabel \/ plan.sources[j].label = NoLabel
    BY <1>1, <1>2, <2>1 DEF LabelOf, NamedTwice
  <2>3. QED
    BY <1>7, <2>2 DEF ClashOfDefault
<1>8. QED
  BY <1>5, <1>6, <1>7

(* A process that changes alone leaves the other as it was. *)
LEMMA OneProcess ==
  ASSUME ProcessesInv, NEW p \in Processes, NEW new,
         process' = [process EXCEPT ![p] = new], start' = start, cmd' = cmd,
         ShapeOf(new), PlanOf(new), LoadOf(new)
  PROVE  ProcessesInv'
<1>1. DOMAIN process' = Processes /\ process'[p] = new
  BY DEF ProcessesInv
<1>2. \A q \in Processes : q # p => process'[q] = process[q]
  BY DEF ProcessesInv
<1>3. ASSUME NEW q \in Processes
      PROVE  (ShapeOf(process[q]) /\ PlanOf(process[q]) /\ LoadOf(process[q]))'
  <2> DEFINE x == process'[q]
  <2>1. ShapeOf(x) /\ PlanOf(x) /\ LoadOf(x)
    BY <1>1, <1>2 DEF ProcessesInv
  <2>2. ShapeOf(process[q])'
    BY <2>1 DEF ShapeOf
  <2>3. PlanOf(process[q])'
    BY <2>1 DEF PlanOf, Asked, Installed, Admitted, Status, Planned, Available
  <2>4. LoadOf(process[q])'
    BY <2>1 DEF LoadOf, Held, ModelRoles, ByOnnx, Unborn
  <2>5. QED
    BY <2>2, <2>3, <2>4
<1>4. QED
  BY <1>1, <1>3 DEF ProcessesInv

(* A failure ends a process, or starts it again on the CPU. *)
LEMMA FailureKeeps ==
  ASSUME ProcessesInv, NEW p \in Processes, process[p].pc \notin Planless, NEW new,
         new = Failed(p, 1)
  PROVE  /\ ShapeOf(new) /\ PlanOf(new) /\ LoadOf(new)
         /\ \/ new.pc = "ended" /\ new.code = 1 /\ new.failed = process[p].failed /\ process[p].fallback = Nowhere
            \/ new.pc = "check" /\ new.failed
         /\ new.requested = process[p].requested
<1>1. ShapeOf(process[p]) /\ PlanOf(process[p]) /\ LoadOf(process[p])
  BY DEF ProcessesInv
<1>2. CASE process[p].fallback # Nowhere
  <2>1. /\ new.pc = "check" /\ new.selection = process[p].fallback /\ new.fallback = Nowhere
        /\ new.failed = TRUE /\ new.role = "ppe" /\ DOMAIN new = Fields
        /\ new.requested = process[p].requested /\ new.status = process[p].status
        /\ new.code = process[p].code /\ new.manifest = process[p].manifest
        /\ new.model = process[p].model /\ new.schema = process[p].schema
    BY <1>1, <1>2 DEF Failed, ShapeOf, Fields
  <2>2. ShapeOf(new)
    BY <1>1, <2>1 DEF ShapeOf, Roles, Planless
  <2>3. PlanOf(new)
    BY <1>1, <1>2, <2>1, Backends DEF PlanOf, Planless, Unborn
  <2>4. LoadOf(new)
    BY <2>1 DEF LoadOf, Unborn
  <2>5. QED
    BY <2>1, <2>2, <2>3, <2>4
<1>3. CASE process[p].fallback = Nowhere
  <2>1. /\ new.pc = "ended" /\ new.code = 1 /\ DOMAIN new = Fields
        /\ \A f \in Fields \ {"pc", "code"} : new[f] = process[p][f]
    BY <1>1, <1>3 DEF Failed, Ended, ShapeOf, Fields
  <2>2. /\ new.selection = process[p].selection /\ new.fallback = Nowhere
        /\ new.failed = process[p].failed /\ new.role = process[p].role
        /\ new.requested = process[p].requested
        /\ new.manifest = process[p].manifest
        /\ new.model = process[p].model /\ new.schema = process[p].schema
    BY <1>3, <2>1 DEF Fields
  <2>3. ShapeOf(new)
    BY <1>1, <2>1, <2>2 DEF ShapeOf
  <2>4. PlanOf(new)
    BY <1>1, <1>3, <2>1, <2>2, Backends DEF PlanOf, Planless, Unborn
  <2>5. LoadOf(new)
    BY <2>1 DEF LoadOf, Unborn
  <2>6. QED
    BY <1>3, <2>1, <2>2, <2>3, <2>4, <2>5
<1>4. QED
  BY <1>2, <1>3

(* The command names the keypoints of the situation once it leads to a preflight. *)
LEMMA KeypointsKnown ==
  ASSUME ProcessesInv, CommandInv, ChildInv, NEW p \in Processes, process[p].pc \notin Planless
  PROVE  cmd.keypoints = KeypointsIn(start)
<1>1. process["runtime"].pc # "launcher" /\ process["runtime"].code # RefusedByLauncher
  BY DEF ProcessesInv, ChildInv, ShapeOf, Planless, Unborn, Processes, NotEnded, RefusedByLauncher
<1>2. IF ByLauncher THEN cmd = LaunchPlan(start.settings, start.roots, start.settings.preflight)
      ELSE cmd = start.cmd
  BY <1>1 DEF CommandInv
<1>3. QED
  BY <1>2 DEF KeypointsIn, ByLauncher, LaunchPlan

(* The steps that every process takes. *)
LEMMA ParseKeeps ==
  ASSUME ProcessesInv, NEW p \in Processes, Parse(p)
  PROVE  /\ ProcessesInv'
         /\ \/ process'[p].pc = "ended" /\ process'[p].requested = None /\ ~Admitted
            \/ process'[p].pc = "plan" /\ Admitted
         /\ process'[p].code = 2 => 
              ~Understood(cmd) \/ cmd.asks = "probe" \/ Installed = "malformed"
         /\ process'[p].failed = process[p].failed
<1> DEFINE x == process[p]
           answer == CASE ~Understood(cmd) -> 2
                  [] Understood(cmd) /\ cmd.asks = "help" -> 0
                  [] Understood(cmd) /\ cmd.asks = "probe" ->
                       HardwareProbeExitCode(ProbeHardware(start.machine).status)
                  [] OTHER -> CASE Installed = "malformed" -> 2
                                [] Installed = "unreadable" -> 1
                                [] OTHER -> NotEnded
           new == process'[p]
<1>1. ShapeOf(x) /\ PlanOf(x) /\ LoadOf(x) /\ x.pc = "parse" /\ start \in Starts
  BY DEF ProcessesInv, Parse, At
<1>2. HardwareProbeExitCode(ProbeHardware(start.machine).status) \in 0..13
  BY <1>1, ProbeAnswers, StartupAssumption
<1>3. \/ /\ answer # NotEnded /\ ~Admitted
         /\ process' = [process EXCEPT ![p] = Ended(p, answer)]
      \/ /\ answer = NotEnded /\ Admitted
         /\ process' = [process EXCEPT ![p] =
              [x EXCEPT !.pc = "plan", !.requested = Requested(cmd.compute, Installed)]]
  <2>1. answer # NotEnded <=> ~Admitted
    BY <1>2 DEF Admitted, NotEnded
  <2>2. process' = [process EXCEPT ![p] =
              IF answer # NotEnded THEN Ended(p, answer)
              ELSE [x EXCEPT !.pc = "plan", !.requested = Requested(cmd.compute, Installed)]]
    BY DEF Parse, Set, Installed
  <2>3. QED
    BY <2>1, <2>2
<1>4. answer = 2 => ~Understood(cmd) \/ cmd.asks = "probe" \/ Installed = "malformed"
  BY DEF NotEnded
<1> HIDE DEF answer
<1>5. CASE answer # NotEnded
  <2>1. process' = [process EXCEPT ![p] = Ended(p, answer)] /\ new = Ended(p, answer) /\ ~Admitted
    BY <1>3, <1>5 DEF ProcessesInv
  <2>2. new.pc = "ended" /\ new.code = answer /\ DOMAIN new = Fields
    BY <1>1, <2>1 DEF Ended, ShapeOf, Fields
  <2>3. \A f \in Fields \ {"pc", "code"} : new[f] = x[f]
    BY <1>1, <2>1 DEF Ended, ShapeOf
  <2>4. /\ new.selection = x.selection /\ new.fallback = x.fallback
        /\ new.failed = x.failed /\ new.role = x.role /\ new.requested = x.requested
        /\ new.manifest = x.manifest /\ new.model = x.model /\ new.schema = x.schema
    BY <2>3 DEF Fields
  <2>5. ShapeOf(new)
    BY <1>1, <2>2, <2>4 DEF ShapeOf
  <2>6. PlanOf(new)
    BY <1>1, <2>2, <2>4 DEF PlanOf, Planless, Unborn
  <2>7. LoadOf(new)
    BY <1>1, <2>2 DEF LoadOf, Unborn
  <2>8. ProcessesInv'
    BY <2>1, <2>5, <2>6, <2>7, OneProcess DEF Parse
  <2>9. QED
    BY <1>1, <1>4, <2>1, <2>2, <2>4, <2>8 DEF PlanOf, Unborn
<1>6. CASE answer = NotEnded
  <2>1. process' = [process EXCEPT ![p] = new] /\ Admitted
        /\ new = [x EXCEPT !.pc = "plan", !.requested = Asked]
    BY <1>3, <1>6 DEF ProcessesInv, Asked
  <2>2. /\ new.pc = "plan" /\ new.requested = Asked /\ DOMAIN new = Fields
        /\ new.selection = x.selection /\ new.fallback = x.fallback
        /\ new.failed = x.failed /\ new.role = x.role /\ new.code = x.code
        /\ new.manifest = x.manifest /\ new.model = x.model /\ new.schema = x.schema
    BY <1>1, <2>1 DEF ShapeOf, Fields
  <2>3. ShapeOf(new)
    BY <1>1, <2>2 DEF ShapeOf
  <2>4. PlanOf(new)
    BY <1>1, <2>1, <2>2, Backends DEF PlanOf, Planless, Unborn, None
  <2>5. LoadOf(new)
    BY <1>1, <2>2 DEF LoadOf, Unborn
  <2>6. ProcessesInv'
    BY <2>1, <2>3, <2>4, <2>5, OneProcess DEF Parse
  <2>7. QED
    BY <1>1, <2>1, <2>2, <2>6 DEF ShapeOf, NotEnded
<1>7. QED
  BY <1>5, <1>6

(* A plan is the plan of the command line, or there is none and the process ends. *)
LEMMA PlanKeeps ==
  ASSUME ProcessesInv, NEW p \in Processes, Plan(p)
  PROVE  /\ ProcessesInv'
         /\ \/ process'[p].pc = "ended" /\ process'[p].code = 1 /\ Planned = Nowhere
            \/ process'[p].pc = "check" /\ process'[p].code = NotEnded
         /\ process'[p].failed = process[p].failed
         /\ process'[p].requested = Asked /\ Admitted
<1> DEFINE x == process[p]
           new == process'[p]
<1>1. ShapeOf(x) /\ PlanOf(x) /\ LoadOf(x) /\ x.pc = "plan" /\ x.requested = Asked /\ Admitted
  BY DEF ProcessesInv, Plan, At, PlanOf, Unborn
<1>2. /\ process' = [process EXCEPT ![p] = new] /\ start' = start /\ cmd' = cmd
      /\ new = IF Planned = Nowhere THEN Ended(p, 1)
               ELSE [x EXCEPT !.pc = "check", !.status = Status, !.selection = Planned,
                       !.fallback = Fallback(Asked, Planned, Available, cmd.mode)]
  BY <1>1 DEF Plan, Set, ProcessesInv, Planned, Status
<1>3. CASE Planned = Nowhere
  <2>1. /\ new.pc = "ended" /\ new.code = 1 /\ DOMAIN new = Fields
        /\ \A f \in Fields \ {"pc", "code"} : new[f] = x[f]
    BY <1>1, <1>2, <1>3 DEF Ended, ShapeOf, Fields
  <2>2. /\ new.selection = x.selection /\ new.fallback = x.fallback
        /\ new.failed = x.failed /\ new.role = x.role /\ new.requested = x.requested
        /\ new.manifest = x.manifest /\ new.model = x.model /\ new.schema = x.schema
    BY <2>1 DEF Fields
  <2>3. ShapeOf(new)
    BY <1>1, <2>1, <2>2 DEF ShapeOf
  <2>4. PlanOf(new)
    BY <1>1, <2>1, <2>2 DEF PlanOf, Planless, Unborn
  <2>5. LoadOf(new)
    BY <2>1 DEF LoadOf, Unborn
  <2>6. QED
    BY <1>1, <1>2, <1>3, <2>1, <2>2, <2>3, <2>4, <2>5, OneProcess
<1>4. CASE Planned # Nowhere
  <2>1. /\ new.pc = "check" /\ new.status = Status /\ new.selection = Planned
        /\ new.fallback = Fallback(Asked, Planned, Available, cmd.mode) /\ DOMAIN new = Fields
        /\ new.failed = x.failed /\ new.role = x.role /\ new.requested = x.requested
        /\ new.manifest = x.manifest /\ new.model = x.model /\ new.schema = x.schema
        /\ new.code = x.code
    BY <1>1, <1>2, <1>4 DEF ShapeOf, Fields
  <2>2. ShapeOf(new)
    BY <1>1, <2>1 DEF ShapeOf
  <2>3. x.failed = FALSE /\ x.role = "ppe"
    BY <1>1 DEF ShapeOf, PlanOf, LoadOf
  <2>4. PlanOf(new)
    BY <1>1, <1>4, <2>1, <2>3, PlanFacts DEF PlanOf, Planless, Unborn, Planned
  <2>5. LoadOf(new)
    BY <1>1, <2>1, <2>3 DEF LoadOf, Unborn
  <2>6. QED
    BY <1>1, <1>2, <2>1, <2>2, <2>4, <2>5, OneProcess DEF ShapeOf
<1>5. QED
  BY <1>3, <1>4

(* The steps behind the plan change what they read and opened, and keep the plan. *)
Advanced(x, new) ==
  /\ DOMAIN new = Fields /\ new.pc \notin Unborn \cup {"plan"}
  /\ new.requested = x.requested /\ new.status = x.status /\ new.selection = x.selection
  /\ new.fallback = x.fallback /\ new.failed = x.failed
  /\ new.role \in Roles
  /\ DOMAIN new.manifest = Roles /\ DOMAIN new.model = Roles /\ DOMAIN new.schema = Roles
  /\ new.pc # "ended" => new.code = x.code

(* A process that goes on with its plan and its models goes on within the invariant. *)
LEMMA AdvanceKeeps ==
  ASSUME ProcessesInv, NEW p \in Processes, process[p].pc \notin Planless, NEW new,
         Advanced(process[p], new),
         process' = [process EXCEPT ![p] = new], start' = start, cmd' = cmd,
         LoadOf(new)
  PROVE  ProcessesInv' /\ process'[p] = new
<1>1. ShapeOf(process[p]) /\ PlanOf(process[p])
  BY DEF ProcessesInv
<1>2. ShapeOf(new)
  BY <1>1 DEF ShapeOf, Advanced, Planless
<1>3. PlanOf(new)
  BY <1>1 DEF PlanOf, Advanced, Planless, Unborn
<1>4. process'[p] = new
  BY DEF ProcessesInv
<1>5. QED
  BY <1>2, <1>3, <1>4, OneProcess

(* A step behind the plan fails, or its process goes on: to these places. *)
Goes(p, places) ==
  /\ Advanced(process[p], process'[p])
  /\ process'[p].pc \in places
Fails(p) == process' = [process EXCEPT ![p] = Failed(p, 1)]

(* The checks before the models disturb no plan. *)
LEMMA CheckKeeps ==
  ASSUME ProcessesInv, NEW p \in Processes, Check(p)
  PROVE  /\ ProcessesInv'
         /\ \/ Fails(p) /\ ~start.reachable
            \/ Goes(p, {"warmup"}) /\ NeedsWarmup(p)
            \/ Goes(p, {"load"}) /\ ~NeedsWarmup(p)
<1> DEFINE x == process[p]
           new == process'[p]
<1>1. ShapeOf(x) /\ PlanOf(x) /\ LoadOf(x) /\ x.pc = "check" /\ x.pc \notin Planless
  BY DEF ProcessesInv, Check, At, Planless, Unborn
<1>2. start' = start /\ cmd' = cmd
  BY DEF Check
<1>3. CASE ~start.reachable
  BY <1>1, <1>2, <1>3, FailureKeeps, OneProcess DEF Check, Fail, Fails, Set
<1>4. CASE start.reachable
  <2>1. /\ process' = [process EXCEPT ![p] = new]
        /\ new = [x EXCEPT !.pc = IF NeedsWarmup(p) THEN "warmup" ELSE "load"]
    BY <1>4 DEF Check, Goto, Set, ProcessesInv
  <2>2. Advanced(x, new) /\ new.role = x.role /\ new.pc = IF NeedsWarmup(p) THEN "warmup" ELSE "load"
    BY <1>1, <2>1 DEF Advanced, ShapeOf, Fields, Unborn
  <2>3. LoadOf(new)
    BY <1>1, <2>2 DEF LoadOf, Unborn
  <2>4. QED
    BY <1>1, <1>2, <2>1, <2>2, <2>3, AdvanceKeeps DEF Goes
<1>5. QED
  BY <1>3, <1>4

(* The engines are loaded, or the preflight fails. *)
LEMMA EnginesKeep ==
  ASSUME ProcessesInv, NEW p \in Processes, LoadEngines(p)
  PROVE  /\ ProcessesInv'
         /\ Fails(p) \/ Goes(p, {"report"})
<1> DEFINE x == process[p]
           new == process'[p]
<1>1. /\ ShapeOf(x) /\ PlanOf(x) /\ LoadOf(x) /\ x.pc = "load" /\ x.pc \notin Planless
      /\ x.selection.provider = "tensorrt"
  BY DEF ProcessesInv, LoadEngines, At, Planless, Unborn
<1>2. start' = start /\ cmd' = cmd
  BY DEF LoadEngines
<1>3. CASE Fails(p)
  BY <1>1, <1>2, <1>3, FailureKeeps, OneProcess DEF Fails
<1>4. ASSUME ~Fails(p) PROVE ProcessesInv' /\ Goes(p, {"report"})
  <2>1. PICK read : /\ process' = [process EXCEPT ![p] = [x EXCEPT !.pc = "report", !.schema = read]]
                    /\ DOMAIN read = Roles
    BY <1>4 DEF LoadEngines, Fail, Set, Fails
  <2>2. new = [x EXCEPT !.pc = "report", !.schema = read] /\ process' = [process EXCEPT ![p] = new]
    BY <2>1 DEF ProcessesInv
  <2>3. /\ new.pc = "report" /\ new.schema = read /\ DOMAIN new = Fields
        /\ \A f \in Fields \ {"pc", "schema"} : new[f] = x[f]
    BY <1>1, <2>2 DEF ShapeOf, Fields
  <2>4. Advanced(x, new)
    BY <1>1, <2>1, <2>3 DEF Advanced, ShapeOf, Fields, Unborn
  <2>5. LoadOf(new)
    BY <1>1, <2>3, <2>4 DEF LoadOf, Advanced, ByOnnx, Unborn
  <2>6. QED
    BY <1>1, <1>2, <2>2, <2>3, <2>4, <2>5, AdvanceKeeps DEF Goes
<1>5. QED
  BY <1>3, <1>4

(* The first ONNX model is read, or the preflight fails. *)
LEMMA OnnxKeeps ==
  ASSUME ProcessesInv, NEW p \in Processes, LoadOnnx(p)
  PROVE  /\ ProcessesInv'
         /\ \/ Fails(p) /\ ~(cmd.labels /\ process[p].selection.provider # "onnxCuda")
            \/ Goes(p, {"manifest"}) /\ process'[p].role = "ppe"
<1> DEFINE x == process[p]
           new == process'[p]
<1>1. /\ ShapeOf(x) /\ PlanOf(x) /\ LoadOf(x) /\ x.pc = "load" /\ x.pc \notin Planless
      /\ x.role = "ppe" /\ ByOnnx(x)
  BY DEF ProcessesInv, LoadOnnx, At, Planless, Unborn, LoadOf, ByOnnx
<1>2. start' = start /\ cmd' = cmd
  BY DEF LoadOnnx
<1>3. CASE Fails(p) /\ ~(cmd.labels /\ x.selection.provider # "onnxCuda")
  BY <1>1, <1>2, <1>3, FailureKeeps, OneProcess DEF Fails
<1>4. CASE process' = [process EXCEPT ![p] = [x EXCEPT !.pc = "manifest"]]
  <2>1. new = [x EXCEPT !.pc = "manifest"] /\ process' = [process EXCEPT ![p] = new]
    BY <1>4 DEF ProcessesInv
  <2>2. Advanced(x, new) /\ new.pc = "manifest" /\ new.role = "ppe"
    BY <1>1, <2>1 DEF Advanced, ShapeOf, Fields, Unborn
  <2>3. LoadOf(new)
    BY <1>1, <2>2 DEF LoadOf, Advanced, ByOnnx, ModelRoles, Roles, Unborn
  <2>4. QED
    BY <1>1, <1>2, <2>1, <2>2, <2>3, AdvanceKeeps DEF Goes
<1>5. QED
  BY <1>3, <1>4 DEF LoadOnnx, Fail, Fails, Goto, Set

(* A manifest is read. *)
LEMMA ManifestKeeps ==
  ASSUME ProcessesInv, NEW p \in Processes, ReadManifest(p)
  PROVE  /\ ProcessesInv'
         /\ Goes(p, {"model"}) /\ process'[p].role = process[p].role
         /\ process'[p].manifest[process[p].role] = onDisk[process[p].role].manifest
<1> DEFINE x == process[p]
           new == process'[p]
<1>1. /\ ShapeOf(x) /\ PlanOf(x) /\ LoadOf(x) /\ x.pc = "manifest" /\ x.pc \notin Planless
  BY DEF ProcessesInv, ReadManifest, At, Planless, Unborn
<1>2. start' = start /\ cmd' = cmd
  BY DEF ReadManifest
<1>3. /\ new = [x EXCEPT !.pc = "model", !.manifest[x.role] = onDisk[x.role].manifest]
      /\ process' = [process EXCEPT ![p] = new]
  BY DEF ProcessesInv, ReadManifest, Set
<1>4. /\ Advanced(x, new) /\ new.pc = "model" /\ new.role = x.role
      /\ new.model = x.model /\ new.schema = x.schema
      /\ new.manifest = [x.manifest EXCEPT ![x.role] = onDisk[x.role].manifest]
  BY <1>1, <1>3 DEF Advanced, ShapeOf, Fields, Unborn
<1>5. x.role = "pose" => new.manifest["ppe"] = x.manifest["ppe"]
  BY <1>1, <1>4 DEF ShapeOf, Roles
<1>6. LoadOf(new)
  BY <1>1, <1>4, <1>5 DEF LoadOf, Advanced, ByOnnx, Held, Unborn
<1>7. QED
  BY <1>1, <1>2, <1>3, <1>4, <1>6, AdvanceKeeps DEF Goes, ShapeOf

(* A model is read and verified against the manifest, or the preflight fails. *)
LEMMA ModelKeeps ==
  ASSUME ProcessesInv, DiskInv, NEW p \in Processes, ReadModel(p)
  PROVE  /\ ProcessesInv'
         /\ \/ /\ Fails(p)
               /\ ~VerifyOnnxModel(process[p].manifest[process[p].role], onDisk[process[p].role].model, process[p].role)
            \/ /\ Goes(p, {"session"}) /\ process'[p].role = process[p].role
               /\ process'[p].manifest = process[p].manifest
               /\ process'[p].model[process[p].role] = onDisk[process[p].role].model
<1> DEFINE x == process[p]
           new == process'[p]
           model == onDisk[x.role].model
<1>1. /\ ShapeOf(x) /\ PlanOf(x) /\ LoadOf(x) /\ x.pc = "model" /\ x.pc \notin Planless
      /\ x.role \in Roles
  BY DEF ProcessesInv, ReadModel, At, Planless, Unborn, ShapeOf
<1>2. start' = start /\ cmd' = cmd
  BY DEF ReadModel
<1>3. model \in {start.files[x.role].model, start.next[x.role].model}
  BY <1>1 DEF DiskInv
<1> HIDE DEF model
<1>4. CASE Fails(p) /\ ~VerifyOnnxModel(x.manifest[x.role], model, x.role)
  BY <1>1, <1>2, <1>4, FailureKeeps, OneProcess DEF Fails, model
<1>5. CASE /\ VerifyOnnxModel(x.manifest[x.role], model, x.role)
           /\ process' = [process EXCEPT ![p] = [x EXCEPT !.pc = "session", !.model[x.role] = model]]
  <2>1. /\ new = [x EXCEPT !.pc = "session", !.model[x.role] = model]
        /\ process' = [process EXCEPT ![p] = new]
    BY <1>5 DEF ProcessesInv
  <2>2. /\ Advanced(x, new) /\ new.pc = "session" /\ new.role = x.role
        /\ new.manifest = x.manifest /\ new.schema = x.schema
        /\ new.model = [x.model EXCEPT ![x.role] = model]
    BY <1>1, <2>1 DEF Advanced, ShapeOf, Fields, Unborn
  <2>3. new.model[x.role] = model /\ (x.role = "pose" => new.model["ppe"] = x.model["ppe"])
    BY <1>1, <2>2 DEF ShapeOf, Roles
  <2>4. LoadOf(new)
    BY <1>1, <1>3, <1>5, <2>2, <2>3 DEF LoadOf, Advanced, ByOnnx, Held, Unborn
  <2>5. QED
    BY <1>1, <1>2, <2>1, <2>2, <2>3, <2>4, AdvanceKeeps DEF Goes, model
<1>6. QED
  BY <1>4, <1>5 DEF ReadModel, Fail, Fails, Set, model

(* A session is made of the verified model and read as it was exported. *)
LEMMA SessionKeeps ==
  ASSUME ProcessesInv, CommandInv, ChildInv, NEW p \in Processes, OpenSession(p)
  PROVE  /\ ProcessesInv'
         /\ \/ /\ Fails(p)
               /\ \/ process[p].selection.provider = "onnxCuda"
                  \/ Schema(process[p].role,
                            SessionOutput(process[p].manifest[process[p].role], process[p].model[process[p].role],
                                          cmd.size), cmd.keypoints) = "refused"
            \/ /\ Goes(p, {NextRole(p).pc}) /\ process'[p].role = NextRole(p).role
               /\ process[p].selection.provider = "onnxCuda" /\ process[p].role = "ppe"
                    => start.machine.cuda # "absent"
<1> DEFINE x == process[p]
           new == process'[p]
           r == x.role
           shape == SessionOutput(x.manifest[r], x.model[r], cmd.size)
           schema == Schema(r, shape, cmd.keypoints)
           provider == x.selection.provider = "onnxCuda" /\ r = "ppe" => start.machine.cuda # "absent"
<1>1. /\ ShapeOf(x) /\ PlanOf(x) /\ LoadOf(x) /\ x.pc = "session" /\ x.pc \notin Planless
      /\ r \in Roles /\ start \in Starts
  BY DEF ProcessesInv, OpenSession, At, Planless, Unborn, ShapeOf
<1>2. start' = start /\ cmd' = cmd
  BY DEF OpenSession
<1>3. /\ ByOnnx(x) /\ r \in ModelRoles /\ (r = "pose" => Held(x, "ppe"))
      /\ VerifyOnnxModel(x.manifest[r], x.model[r], r)
      /\ x.model[r] \in {start.files[r].model, start.next[r].model}
  BY <1>1 DEF LoadOf
<1>4. schema # "refused" => schema = x.model[r].export
  <2>1. cmd.keypoints = KeypointsIn(start) /\ KeypointsIn(start) \in Nat \X Nat
    BY <1>1, KeypointsKnown, StartupAssumption
  <2>2. x.model[r].export = IF EndToEnd(r, x.model[r].output, KeypointsIn(start)) THEN "end2end" ELSE "raw"
    BY <1>1, <1>3, FilesAssumption
  <2>3. QED
    BY <1>1, <1>3, <2>1, <2>2, ExportIsRead
<1>5. IF provider /\ schema # "refused"
      THEN process' = [process EXCEPT ![p] =
             [x EXCEPT !.pc = NextRole(p).pc, !.role = NextRole(p).role,
                       !.model[r] = x.model[r], !.schema[r] = schema]]
      ELSE Fails(p)
  BY DEF OpenSession, SessionModel, Fail, Fails, Set
<1> HIDE DEF schema, provider
<1>6. CASE ~(provider /\ schema # "refused")
  <2>1. Fails(p)
    BY <1>5, <1>6
  <2>2. QED
    BY <1>1, <1>2, <1>6, <2>1, FailureKeeps, OneProcess DEF Fails, schema, provider
<1>7. CASE provider /\ schema # "refused"
  <2> DEFINE place == NextRole(p).pc
             next == NextRole(p).role
  <2>1. /\ new = [x EXCEPT !.pc = place, !.role = next, !.model[r] = x.model[r], !.schema[r] = schema]
        /\ process' = [process EXCEPT ![p] = new]
    BY <1>5, <1>7 DEF ProcessesInv
  <2>2. \/ place = "manifest" /\ next = "pose" /\ r = "ppe" /\ cmd.mode = "ppe-fall"
        \/ place \in {"infer", "report"} /\ next = "ppe" /\ (r = "pose" \/ cmd.mode # "ppe-fall")
    BY <1>1 DEF NextRole, Roles
  <2> HIDE DEF place, next
  <2>3. /\ new.pc = place /\ new.role = next /\ DOMAIN new = Fields
        /\ new.manifest = x.manifest
        /\ new.schema = [x.schema EXCEPT ![r] = schema]
        /\ new.model = [x.model EXCEPT ![r] = x.model[r]]
        /\ \A f \in Fields \ {"pc", "role", "model", "schema"} : new[f] = x[f]
    BY <1>1, <2>1 DEF ShapeOf, Fields
  <2>4. DOMAIN new.model = Roles /\ \A q \in Roles : new.model[q] = x.model[q]
    BY <1>1, <2>3 DEF ShapeOf
  <2>5. Advanced(x, new)
    BY <1>1, <2>2, <2>3, <2>4 DEF Advanced, ShapeOf, Fields, Unborn, Roles
  <2>6. Held(new, r)
    BY <1>1, <1>3, <1>4, <1>7, <2>3, <2>4 DEF Held, ShapeOf
  <2>7. r = "pose" => Held(new, "ppe")
    BY <1>1, <1>3, <2>3, <2>4 DEF Held, ShapeOf, Roles
  <2>8. CASE place = "manifest"
    <3>1. ByOnnx(new) /\ next \in ModelRoles /\ Held(new, "ppe")
      BY <1>3, <2>2, <2>5, <2>6, <2>8 DEF Advanced, ByOnnx, ModelRoles, Roles
    <3>2. LoadOf(new)
      BY <2>3, <2>8, <3>1 DEF LoadOf, Unborn
    <3>3. QED
      BY <1>1, <1>2, <1>7, <2>1, <2>3, <2>5, <3>2, AdvanceKeeps DEF Goes, place, next, provider
  <2>9. CASE place \in {"infer", "report"}
    <3>1. \A q \in ModelRoles : Held(new, q)
      BY <1>3, <2>2, <2>6, <2>7, <2>9 DEF ModelRoles, Roles
    <3>2. LoadOf(new)
      BY <2>3, <2>9, <3>1 DEF LoadOf, Unborn
    <3>3. QED
      BY <1>1, <1>2, <1>7, <2>1, <2>3, <2>5, <3>2, AdvanceKeeps DEF Goes, place, next, provider
  <2>10. QED
    BY <2>2, <2>8, <2>9
<1>8. QED
  BY <1>6, <1>7

(* An inference works, throws or crashes. *)
LEMMA WarmUpKeeps ==
  ASSUME ProcessesInv, ChildInv, NEW p \in Processes, WarmUp(p)
  PROVE  /\ ProcessesInv' /\ p = "warmup"
         /\ \/ Fails(p)
            \/ Goes(p, {"report"}) /\ start.machine.cuda = "works"
            \/ process'[p].pc = "ended" /\ process'[p].code = Crashed /\ Advanced(process[p], process'[p])
<1> DEFINE x == process[p]
           new == process'[p]
<1>1. /\ ShapeOf(x) /\ PlanOf(x) /\ LoadOf(x) /\ x.pc = "infer" /\ x.pc \notin Planless
      /\ start \in Starts /\ p = "warmup"
  BY DEF ProcessesInv, WarmUp, At, Planless, Unborn, ChildInv, Processes
<1>2. start' = start /\ cmd' = cmd
  BY DEF WarmUp
<1>3. start.machine.cuda \in {"works", "throws", "crashes"}
  BY <1>1, StartupAssumption DEF ChildInv
<1>4. CASE start.machine.cuda = "works"
  <2>1. /\ new = [x EXCEPT !.pc = "report"] /\ process' = [process EXCEPT ![p] = new]
    BY <1>4 DEF ProcessesInv, WarmUp, Goto, Set
  <2>2. /\ Advanced(x, new) /\ new.pc = "report" /\ new.schema = x.schema
        /\ new.manifest = x.manifest /\ new.model = x.model
    BY <1>1, <2>1 DEF Advanced, ShapeOf, Fields, Unborn
  <2>3. LoadOf(new)
    BY <1>1, <2>2 DEF LoadOf, Advanced, ByOnnx, Held, Unborn
  <2>4. QED
    BY <1>1, <1>2, <1>4, <2>1, <2>2, <2>3, AdvanceKeeps DEF Goes
<1>5. CASE start.machine.cuda = "throws"
  <2>1. Fails(p)
    BY <1>5 DEF WarmUp, Fail, Fails, Set
  <2>2. QED
    BY <1>1, <1>2, <2>1, FailureKeeps, OneProcess DEF Fails
<1>6. CASE start.machine.cuda = "crashes"
  <2>1. /\ new = [x EXCEPT !.pc = "ended", !.code = Crashed] /\ process' = [process EXCEPT ![p] = new]
    BY <1>6 DEF ProcessesInv, WarmUp, Ended, Set
  <2>2. Advanced(x, new) /\ new.pc = "ended" /\ new.code = Crashed
    BY <1>1, <2>1 DEF Advanced, ShapeOf, Fields, Unborn
  <2>3. LoadOf(new)
    BY <2>2 DEF LoadOf, Unborn
  <2>4. QED
    BY <1>1, <1>2, <2>1, <2>2, <2>3, AdvanceKeeps
<1>7. QED
  BY <1>3, <1>4, <1>5, <1>6

(* The lines are written. *)
LEMMA ReportKeeps ==
  ASSUME ProcessesInv, NEW p \in Processes, Report(p)
  PROVE  /\ ProcessesInv' /\ process[p].pc = "report"
         /\ Advanced(process[p], process'[p])
         /\ \/ process'[p].pc = "ended" /\ process'[p].code = 0
            \/ process'[p].pc = "running" /\ p # "warmup"
<1> DEFINE x == process[p]
           new == process'[p]
<1>1. /\ ShapeOf(x) /\ PlanOf(x) /\ LoadOf(x) /\ x.pc = "report" /\ x.pc \notin Planless
  BY DEF ProcessesInv, Report, At, Planless, Unborn
<1>2. start' = start /\ cmd' = cmd
  BY DEF Report
<1>3. /\ process' = [process EXCEPT ![p] = new]
      /\ \/ new = [x EXCEPT !.pc = "ended", !.code = 0]
         \/ new = [x EXCEPT !.pc = "running"] /\ p # "warmup"
  BY DEF ProcessesInv, Report, Ended, Set
<1>4. /\ Advanced(x, new) /\ new.schema = x.schema
      /\ new.manifest = x.manifest /\ new.model = x.model
      /\ \/ new.pc = "ended" /\ new.code = 0
         \/ new.pc = "running" /\ p # "warmup"
  BY <1>1, <1>3 DEF Advanced, ShapeOf, Fields, Unborn
<1>5. LoadOf(new)
  BY <1>1, <1>4 DEF LoadOf, Advanced, ByOnnx, Held, Unborn
<1>6. QED
  BY <1>1, <1>2, <1>3, <1>4, <1>5, AdvanceKeeps

--------------------------------------------------------------------------------
(* The initial state and the steps of the launcher, the warm-up and the disk. *)

(* A start begins within the invariant. *)
LEMMA StartupInitHolds == StartupInit => StartupInv
<1> SUFFICES ASSUME StartupInit PROVE StartupInv
  OBVIOUS
<1>1. ASSUME NEW pc \in {"absent", "launcher", "parse"}
      PROVE  /\ ShapeOf(NewProcess(pc)) /\ PlanOf(NewProcess(pc)) /\ LoadOf(NewProcess(pc))
             /\ NewProcess(pc).pc = pc /\ NewProcess(pc).code = NotEnded
             /\ NewProcess(pc).requested = None /\ ~NewProcess(pc).failed
  <2> DEFINE x == NewProcess(pc)
  <2>1. /\ x.pc = pc /\ x.code = NotEnded /\ x.requested = None /\ x.failed = FALSE
        /\ x.role = "ppe" /\ x.fallback = Nowhere /\ DOMAIN x = Fields
        /\ DOMAIN x.manifest = Roles /\ DOMAIN x.model = Roles /\ DOMAIN x.schema = Roles
    BY DEF NewProcess, Fields
  <2>2. ShapeOf(x)
    BY <2>1 DEF ShapeOf, Roles
  <2>3. PlanOf(x)
    BY <2>1, Backends DEF PlanOf, Planless, Unborn
  <2>4. LoadOf(x)
    BY <2>1 DEF LoadOf, Unborn
  <2>5. QED
    BY <2>1, <2>2, <2>3, <2>4
<1>2. /\ process["warmup"] = NewProcess("absent")
      /\ process["runtime"] = NewProcess(IF ByLauncher THEN "launcher" ELSE "parse")
      /\ DOMAIN process = Processes
  BY DEF StartupInit, Processes
<1>3. ProcessesInv
  BY <1>1, <1>2 DEF StartupInit, ProcessesInv, Processes
<1>4. DiskInv
  BY FilesAssumption DEF StartupInit, DiskInv
<1>5. CommandInv
  BY <1>1, <1>2 DEF CommandInv, StartupInit, NotEnded
<1>6. ChildInv
  BY <1>1, <1>2 DEF ChildInv, StartupInit, NotEnded
<1>7. ServeInv
  BY <1>1, <1>2 DEF ServeInv, None, NotEnded, Planless, Unborn
<1>8. QED
  BY <1>3, <1>4, <1>5, <1>6, <1>7 DEF StartupInv

(* The command line is made while no process has looked at it. *)
LEMMA BuildKeeps ==
  ASSUME StartupInv, BuildLaunchPlan
  PROVE  StartupInv'
<1> DEFINE x == process["runtime"]
           w == process["warmup"]
           new == process'["runtime"]
<1>1. /\ ShapeOf(x) /\ PlanOf(x) /\ LoadOf(x) /\ x.pc = "launcher" /\ x.code = NotEnded /\ ByLauncher
      /\ ShapeOf(w) /\ PlanOf(w) /\ LoadOf(w) /\ w.pc = "absent"
  BY DEF StartupInv, ProcessesInv, BuildLaunchPlan, At, Processes, ShapeOf, ChildInv, CommandInv, Unborn
<1>2. start' = start /\ onDisk' = onDisk /\ edits' = edits
  BY DEF BuildLaunchPlan
<1>3. process' = [process EXCEPT !["runtime"] = new] /\ process'["warmup"] = w /\ DOMAIN process' = Processes
  BY DEF StartupInv, ProcessesInv, BuildLaunchPlan, Set, Goto, Processes
<1>4. \/ /\ new = [x EXCEPT !.pc = "ended", !.code = RefusedByLauncher]
      \/ /\ ~PlanRefused(start.settings, start.roots)
         /\ cmd' = LaunchPlan(start.settings, start.roots, start.settings.preflight)
         /\ new = [x EXCEPT !.pc = "parse"]
  BY DEF StartupInv, ProcessesInv, BuildLaunchPlan, Set, Goto, Ended, Processes
<1>5. /\ DOMAIN new = Fields
      /\ \/ new.pc = "ended" /\ new.code = RefusedByLauncher
         \/ /\ new.pc = "parse" /\ new.code = NotEnded
            /\ ~PlanRefused(start.settings, start.roots)
            /\ cmd' = LaunchPlan(start.settings, start.roots, start.settings.preflight)
      /\ \A f \in Fields \ {"pc", "code"} : new[f] = x[f]
  BY <1>1, <1>4 DEF ShapeOf, Fields
<1>6. /\ new.requested = None /\ new.fallback = x.fallback /\ new.failed = FALSE
      /\ new.role = x.role /\ new.selection = x.selection
      /\ new.manifest = x.manifest /\ new.model = x.model /\ new.schema = x.schema
  BY <1>1, <1>5 DEF Fields, PlanOf, Unborn, ShapeOf
<1>7. ProcessesInv'
  <2>1. (ShapeOf(process["runtime"]))'
    BY <1>1, <1>5, <1>6 DEF ShapeOf
  <2>2. (PlanOf(process["runtime"]))'
    BY <1>1, <1>5, <1>6 DEF PlanOf, Planless, Unborn
  <2>3. (LoadOf(process["runtime"]))'
    BY <1>1, <1>5, <1>6 DEF LoadOf, Unborn
  <2>4. (ShapeOf(process["warmup"]))'
    BY <1>1, <1>3 DEF ShapeOf
  <2>5. (PlanOf(process["warmup"]))'
    BY <1>1, <1>3 DEF PlanOf, Planless, Unborn
  <2>6. (LoadOf(process["warmup"]))'
    BY <1>1, <1>3 DEF LoadOf, Unborn
  <2>7. QED
    BY <1>2, <1>3, <2>1, <2>2, <2>3, <2>4, <2>5, <2>6 DEF ProcessesInv, Processes, StartupInv
<1>8. DiskInv'
  BY <1>2 DEF StartupInv, DiskInv
<1>9. CommandInv'
  BY <1>1, <1>2, <1>5 DEF CommandInv, ByLauncher, NotEnded
<1>10. ChildInv'
  BY <1>1, <1>3, <1>5 DEF ChildInv
<1>11. ServeInv'
  BY <1>5, <1>6 DEF ServeInv, None
<1>12. QED
  BY <1>7, <1>8, <1>9, <1>10, <1>11 DEF StartupInv

(* A failure of the runtime is the end of an Auto only where the CPU failed. *)
LEMMA ServeAfterFailure ==
  ASSUME ProcessesInv, ProcessesInv', ServeInv, process["runtime"].pc \notin Planless, Fails("runtime"),
         UNCHANGED <<start, cmd, onDisk, edits>>,
         edits = 0 /\ process["runtime"].requested = "auto" /\ CpuWouldServe =>
           process["runtime"].selection # Cpu
  PROVE  ServeInv'
<1> DEFINE x == process["runtime"]
           new == process'["runtime"]
<1>1. new = Failed("runtime", 1) /\ "runtime" \in Processes
  BY DEF ProcessesInv, Fails, Processes
<1>2. /\ new.requested = x.requested
      /\ \/ new.pc = "ended" /\ new.code = 1 /\ x.fallback = Nowhere
         \/ new.pc = "check" /\ new.failed
  BY <1>1, FailureKeeps
<1>3. new.failed => new.selection = Cpu
  BY <1>1 DEF ProcessesInv, PlanOf
<1>4. CpuWouldServe' <=> CpuWouldServe
  BY DEF CpuWouldServe, Available
<1>5. QED
  BY <1>2, <1>3, <1>4, Backends DEF ServeInv

(* A step of the runtime behind the launcher leaves the command line as it is. *)
LEMMA CommandStays ==
  ASSUME CommandInv, process["runtime"].pc \notin {"launcher", "ended"}, ProcessesInv,
         process'["runtime"].pc # "launcher",
         process'["runtime"].code # 2 \/ ~ByLauncher,
         UNCHANGED <<start, cmd>>
  PROVE  CommandInv'
<1>1. process["runtime"].code # RefusedByLauncher
  BY DEF ProcessesInv, ShapeOf, Processes, NotEnded, RefusedByLauncher
<1>2. QED
  BY <1>1 DEF CommandInv, ByLauncher

(* A step of the runtime after the parse, which the child does not see. *)
LEMMA ChildAfterRuntime ==
  ASSUME ChildInv, process["runtime"].pc \notin Planless,
         process'["warmup"] = process["warmup"], UNCHANGED <<start, cmd>>,
         \/ /\ process'["runtime"].pc \in {"check", "ended"}
            /\ process'["runtime"].code # RefusedByLauncher
         \/ /\ Advanced(process["runtime"], process'["runtime"])
            /\ process["runtime"].code # RefusedByLauncher
            /\ process'["runtime"].pc \in {"load", "manifest", "model", "session", "report", "running"}
            /\ \/ process["runtime"].pc \in {"load", "manifest", "model", "session", "report"}
               \/ ~NeedsWarmup("runtime")
               \/ process["warmup"].pc = "ended" /\ process["warmup"].code = 0
         \/ /\ Advanced(process["runtime"], process'["runtime"])
            /\ process["runtime"].code # RefusedByLauncher
            /\ process'["runtime"].pc = "warmup" /\ NeedsWarmup("runtime")
  PROVE  ChildInv'
<1>1. (Planned' = Planned) /\ (Admitted' <=> Admitted)
  BY DEF Planned, Asked, Status, Installed, Available, Admitted
<1>2. process'["runtime"].pc \notin Unborn \cup {"infer"} /\ process'["runtime"].code # RefusedByLauncher
  BY DEF Unborn, Advanced, Planless
<1>3. Advanced(process["runtime"], process'["runtime"]) => (NeedsWarmup("runtime")' <=> NeedsWarmup("runtime"))
  BY DEF Advanced, NeedsWarmup
<1>4. QED
  BY <1>1, <1>2, <1>3 DEF ChildInv, Unborn

--------------------------------------------------------------------------------
(* The steps of the runtime. *)

(* Whoever waits for a child planned the ONNX CUDA provider. *)
LEMMA WarmupIsPlanned ==
  ASSUME ProcessesInv, NEW p \in Processes, process[p].pc \notin Planless,
         process[p].selection.provider = "onnxCuda"
  PROVE  Planned = Cuda("onnxCuda") /\ Admitted /\ ~process[p].failed
<1>1. PlanOf(process[p])
  BY DEF ProcessesInv
<1>2. ~process[p].failed
  BY <1>1, Backends DEF PlanOf
<1>3. process[p].selection = Planned /\ Admitted
  BY <1>1, <1>2 DEF PlanOf, Planless, Unborn
<1>4. QED
  BY <1>2, <1>3, PlanFacts DEF Planned

(* The invariant after a failure of the runtime that no Auto on the CPU meets. *)
LEMMA FailureOfRuntime ==
  ASSUME StartupInv, process["runtime"].pc \notin Planless, Fails("runtime"),
         UNCHANGED <<start, cmd, onDisk, edits>>,
         edits = 0 /\ process["runtime"].requested = "auto" /\ CpuWouldServe =>
           process["runtime"].selection # Cpu
  PROVE  StartupInv'
<1> DEFINE x == process["runtime"]
           new == process'["runtime"]
<1>1. /\ "runtime" \in Processes /\ x.code = NotEnded /\ x.pc \notin {"launcher", "ended"}
      /\ new = Failed("runtime", 1) /\ process'["warmup"] = process["warmup"]
  BY DEF StartupInv, ProcessesInv, Fails, Processes, ShapeOf, Planless, Unborn
<1>2. ProcessesInv'
  BY <1>1, FailureKeeps, OneProcess DEF Fails, StartupInv
<1>3. new.pc \in {"check", "ended"} /\ new.code \in {1, NotEnded}
  BY <1>1, <1>2, FailureKeeps DEF StartupInv, ProcessesInv, ShapeOf
<1>4. CommandInv'
  BY <1>1, <1>2, <1>3, CommandStays DEF StartupInv, NotEnded
<1>5. ChildInv'
  BY <1>1, <1>3, ChildAfterRuntime DEF StartupInv, NotEnded, RefusedByLauncher
<1>6. ServeInv'
  BY <1>2, ServeAfterFailure DEF StartupInv
<1>7. DiskInv'
  BY DEF StartupInv, DiskInv
<1>8. QED
  BY <1>2, <1>4, <1>5, <1>6, <1>7 DEF StartupInv

(* ... and after a step with which it goes on. *)
LEMMA ProgressOfRuntime ==
  ASSUME StartupInv, ProcessesInv', process["runtime"].pc \notin Planless,
         process'["warmup"] = process["warmup"],
         UNCHANGED <<start, cmd, onDisk, edits>>,
         Advanced(process["runtime"], process'["runtime"]),
         \/ /\ process'["runtime"].pc \in {"load", "manifest", "model", "session", "report", "running"}
            /\ \/ process["runtime"].pc \in {"load", "manifest", "model", "session", "report"}
               \/ ~NeedsWarmup("runtime")
               \/ process["warmup"].pc = "ended" /\ process["warmup"].code = 0
         \/ process'["runtime"].pc = "warmup" /\ NeedsWarmup("runtime")
         \/ process'["runtime"].pc = "ended" /\ process'["runtime"].code = 0,
         \/ process'["runtime"].pc \notin {"model", "session"}
         \/ edits # 0
         \/ /\ process'["runtime"].manifest[process'["runtime"].role] = onDisk[process'["runtime"].role].manifest
            /\ process'["runtime"].pc = "session" =>
                 process'["runtime"].model[process'["runtime"].role] = onDisk[process'["runtime"].role].model
  PROVE  StartupInv'
<1> DEFINE x == process["runtime"]
           new == process'["runtime"]
<1>1. /\ "runtime" \in Processes /\ x.code = NotEnded /\ x.pc \notin {"launcher", "ended"}
      /\ new.code \in {0, NotEnded} /\ new.pc # "launcher"
  BY DEF StartupInv, ProcessesInv, Processes, ShapeOf, Planless, Unborn, Advanced
<1>2. CommandInv'
  BY <1>1, CommandStays DEF StartupInv, NotEnded
<1>3. ChildInv'
  BY <1>1, ChildAfterRuntime DEF StartupInv, NotEnded, RefusedByLauncher
<1>4. CpuWouldServe' <=> CpuWouldServe
  BY DEF CpuWouldServe, Available
<1>5. ServeInv'
  BY <1>4 DEF ServeInv, Advanced, StartupInv
<1>6. DiskInv'
  BY DEF StartupInv, DiskInv
<1>7. QED
  BY <1>2, <1>3, <1>5, <1>6 DEF StartupInv

(* The parent starts the child... *)
LEMMA StartWarmupKeeps ==
  ASSUME StartupInv, StartWarmup
  PROVE  StartupInv'
<1> DEFINE x == process["runtime"]
<1>1. /\ ShapeOf(x) /\ PlanOf(x) /\ LoadOf(x) /\ x.pc = "warmup" /\ x.pc \notin Planless
      /\ "runtime" \in Processes /\ "warmup" \in Processes /\ x.code = NotEnded
  BY DEF StartupInv, ProcessesInv, StartWarmup, At, Processes, Planless, Unborn, ShapeOf
<1>2. UNCHANGED <<start, cmd, onDisk, edits>>
  BY DEF StartWarmup
<1>3. DiskInv'
  BY <1>2 DEF StartupInv, DiskInv
<1>4. x.selection.provider = "onnxCuda" /\ Planned = Cuda("onnxCuda") /\ Admitted
  BY <1>1, WarmupIsPlanned DEF StartupInv, ChildInv, NeedsWarmup
<1>5. CASE process' = [process EXCEPT !["warmup"] = NewProcess("parse")]
  <2> DEFINE new == NewProcess("parse")
  <2>1. /\ new.pc = "parse" /\ new.code = NotEnded /\ new.requested = None /\ new.failed = FALSE
        /\ new.role = "ppe" /\ new.fallback = Nowhere /\ DOMAIN new = Fields
        /\ DOMAIN new.manifest = Roles /\ DOMAIN new.model = Roles /\ DOMAIN new.schema = Roles
    BY DEF NewProcess, Fields
  <2> HIDE DEF new
  <2>2. ShapeOf(new) /\ LoadOf(new)
    BY <2>1 DEF ShapeOf, LoadOf, Unborn, Roles
  <2>3. PlanOf(new)
    BY <2>1, Backends DEF PlanOf, Planless, Unborn
  <2>4. ProcessesInv'
    BY <1>1, <1>2, <1>5, <2>2, <2>3, OneProcess DEF StartupInv, new
  <2>5. process'["runtime"] = x /\ process'["warmup"] = new
    BY <1>5 DEF StartupInv, ProcessesInv, Processes, new
  <2>6. CommandInv'
    BY <1>2, <2>5 DEF StartupInv, CommandInv, ByLauncher
  <2>7. (Planned' = Planned) /\ (Admitted' <=> Admitted) /\ (NeedsWarmup("runtime")' <=> NeedsWarmup("runtime"))
    BY <1>2, <2>5 DEF Planned, Asked, Status, Installed, Available, Admitted, NeedsWarmup
  <2>8. ChildInv'
    BY <1>1, <1>2, <1>4, <2>1, <2>5, <2>7 DEF StartupInv, ChildInv, Unborn, NotEnded, RefusedByLauncher
  <2>9. (CpuWouldServe' <=> CpuWouldServe)
    BY <1>2 DEF CpuWouldServe, Available
  <2>10. ServeInv'
    BY <1>2, <2>5, <2>9 DEF StartupInv, ServeInv
  <2>11. QED
    BY <1>3, <2>4, <2>6, <2>8, <2>10 DEF StartupInv
<1>6. CASE Fails("runtime")
  BY <1>1, <1>2, <1>4, <1>6, FailureOfRuntime, Backends
<1>7. QED
  BY <1>5, <1>6 DEF StartWarmup, Fail, Fails, Set

(* ... and reads its verdict. *)
LEMMA WarmupEndsKeeps ==
  ASSUME StartupInv, WarmupEnds
  PROVE  StartupInv'
<1> DEFINE x == process["runtime"]
           w == process["warmup"]
           new == process'["runtime"]
<1>1. /\ ShapeOf(x) /\ PlanOf(x) /\ LoadOf(x) /\ x.pc = "warmup" /\ x.pc \notin Planless
      /\ "runtime" \in Processes /\ w.pc = "ended"
  BY DEF StartupInv, ProcessesInv, WarmupEnds, At, Processes, Planless, Unborn
<1>2. UNCHANGED <<start, cmd, onDisk, edits>>
  BY DEF WarmupEnds
<1>3. CASE w.code # 0
  <2>1. Fails("runtime")
    BY <1>3 DEF WarmupEnds, Fail, Fails, Set
  <2>2. x.selection.provider = "onnxCuda"
    BY <1>1 DEF StartupInv, ChildInv, NeedsWarmup
  <2>3. QED
    BY <1>1, <1>2, <2>1, <2>2, FailureOfRuntime, Backends
<1>4. CASE w.code = 0
  <2>1. /\ process' = [process EXCEPT !["runtime"] = new] /\ new = [x EXCEPT !.pc = "load"]
        /\ process'["warmup"] = w
    BY <1>4 DEF StartupInv, ProcessesInv, WarmupEnds, Goto, Set, Processes
  <2>2. Advanced(x, new) /\ new.pc = "load" /\ new.role = x.role
    BY <1>1, <2>1 DEF Advanced, ShapeOf, Fields, Unborn
  <2>3. LoadOf(new)
    BY <1>1, <2>2 DEF LoadOf, Unborn
  <2>4. ProcessesInv'
    BY <1>1, <1>2, <2>1, <2>2, <2>3, AdvanceKeeps DEF StartupInv
  <2>5. QED
    BY <1>1, <1>2, <1>4, <2>1, <2>2, <2>4, ProgressOfRuntime
<1>5. QED
  BY <1>3, <1>4

(* A process leaves the other one, the command line and the files alone. *)
LEMMA Alone ==
  ASSUME ProcessesInv, ChildInv, NEW p \in Processes, Step(p)
  PROVE  /\ UNCHANGED <<start, cmd, onDisk, edits>>
         /\ \A q \in Processes \ {p} : process'[q] = process[q]
<1>1. UNCHANGED <<start, cmd, onDisk, edits>>
  BY DEF Step, Parse, Plan, Check, LoadEngines, LoadOnnx, ReadManifest, ReadModel, OpenSession,
         WarmUp, Report
<1>2. \E new : process' = [process EXCEPT ![p] = new]
  <2>1. CASE Parse(p)
    BY <2>1 DEF Parse, Set
  <2>2. CASE Plan(p)
    BY <2>2 DEF Plan, Set
  <2>3. CASE Check(p)
    BY <2>3 DEF Check, Goto, Fail, Set
  <2>4. CASE LoadEngines(p)
    BY <2>4 DEF LoadEngines, Fail, Set
  <2>5. CASE LoadOnnx(p)
    BY <2>5 DEF LoadOnnx, Goto, Fail, Set
  <2>6. CASE ReadManifest(p)
    BY <2>6 DEF ReadManifest, Set
  <2>7. CASE ReadModel(p)
    BY <2>7 DEF ReadModel, Fail, Set
  <2>8. CASE OpenSession(p)
    BY <2>8 DEF OpenSession, Fail, Set
  <2>9. CASE WarmUp(p)
    <3>1. start.machine.cuda \in {"works", "throws", "crashes"}
      BY <2>9, StartupAssumption DEF ProcessesInv, ChildInv, WarmUp, At, Processes
    <3>2. QED
      BY <2>9, <3>1 DEF WarmUp, Goto, Fail, Set
  <2>10. CASE Report(p)
    BY <2>10 DEF Report, Set
  <2>11. QED
    BY <2>1, <2>2, <2>3, <2>4, <2>5, <2>6, <2>7, <2>8, <2>9, <2>10 DEF Step
<1>3. QED
  BY <1>1, <1>2 DEF ProcessesInv

(* Each step of the runtime on its own account keeps the invariant. *)
LEMMA RuntimeStepKeeps ==
  ASSUME StartupInv, Step("runtime")
  PROVE  StartupInv'
<1> DEFINE x == process["runtime"]
           w == process["warmup"]
           new == process'["runtime"]
           serving == edits = 0 /\ x.requested = "auto" /\ CpuWouldServe
<1> USE DEF StartupInv
<1>1. /\ ShapeOf(x) /\ PlanOf(x) /\ LoadOf(x) /\ "runtime" \in Processes /\ start \in Starts
      /\ x.pc # "infer"
  BY DEF ProcessesInv, Processes, ChildInv
<1>2. UNCHANGED <<start, cmd, onDisk, edits>> /\ process'["warmup"] = w
  BY <1>1, Alone DEF Processes
<1>3. DiskInv' /\ (CpuWouldServe' <=> CpuWouldServe)
  BY <1>2 DEF DiskInv, CpuWouldServe, Available
<1>4. CASE Parse("runtime")
  <2>1. /\ ProcessesInv'
        /\ \/ new.pc = "ended" /\ new.requested = None
           \/ new.pc = "plan"
        /\ new.code = 2 => ~Understood(cmd) \/ cmd.asks = "probe" \/ Installed = "malformed"
    BY <1>1, <1>4, ParseKeeps
  <2>2. x.pc = "parse" /\ x.code = NotEnded /\ w.pc = "absent"
    BY <1>1, <1>4 DEF Parse, At, ShapeOf, ChildInv, Unborn
  <2>3. ByLauncher => /\ cmd = LaunchPlan(start.settings, start.roots, start.settings.preflight)
                      /\ ~PlanRefused(start.settings, start.roots)
    BY <2>2 DEF CommandInv, NotEnded, RefusedByLauncher
  <2>4. ByLauncher => cmd.asks # "probe" /\ Installed = "unset"
    <3>1. ASSUME ByLauncher PROVE cmd.compute = start.settings.compute /\ cmd.asks \in {"preflight", "run"}
      BY <2>3, <3>1 DEF LaunchPlan
    <3>2. ByLauncher => start.settings.compute # "unset"
      BY <1>1, StartupAssumption DEF ByLauncher
    <3>3. QED
      BY <3>1, <3>2 DEF Installed
  <2>5. CommandInv'
    BY <1>2, <2>1, <2>2, <2>3, <2>4 DEF CommandInv, ByLauncher, NotEnded, RefusedByLauncher
  <2>6. ChildInv'
    BY <1>2, <2>1, <2>2 DEF ChildInv
  <2>7. ServeInv'
    BY <2>1, <1>2 DEF ServeInv, None, Planless
  <2>8. QED
    BY <1>3, <2>1, <2>5, <2>6, <2>7
<1>5. CASE Plan("runtime")
  <2>1. /\ ProcessesInv'
        /\ \/ new.pc = "ended" /\ new.code = 1 /\ Planned = Nowhere
           \/ new.pc = "check" /\ new.code = NotEnded
        /\ new.failed = x.failed /\ new.requested = Asked /\ Admitted
    BY <1>1, <1>5, PlanKeeps
  <2>2. x.pc = "plan" /\ x.code = NotEnded /\ ~x.failed
    BY <1>1, <1>5 DEF Plan, At, ShapeOf, PlanOf
  <2>3. CommandInv'
    BY <1>2, <2>1, <2>2, CommandStays DEF NotEnded
  <2>4. (Planned' = Planned) /\ (Admitted' <=> Admitted) /\ Asked' = Asked /\ Available' = Available
    BY <1>2 DEF Planned, Asked, Status, Installed, Available, Admitted
  <2>5. ChildInv'
    BY <1>2, <2>1, <2>2, <2>4 DEF ChildInv, Unborn, NotEnded, RefusedByLauncher
  <2>6. PlanOf(process["runtime"])'
    BY <1>1, <2>1 DEF ProcessesInv
  <2>7. new.pc = "check" => new.selection = Planned /\ new.fallback = Fallback(Asked, Planned, Available, cmd.mode)
    BY <1>2, <2>1, <2>2, <2>4, <2>6 DEF PlanOf, Planless, Unborn
  <2>8. ASSUME Asked = "auto", CpuWouldServe
        PROVE  Planned # Nowhere /\ (Fallback(Asked, Planned, Available, cmd.mode) = Cpu \/ Planned = Cpu)
    BY <2>8, PlanFacts DEF Planned, CpuWouldServe
  <2>9. ServeInv'
    BY <1>2, <1>3, <2>1, <2>7, <2>8 DEF ServeInv
  <2>10. QED
    BY <1>3, <2>1, <2>3, <2>5, <2>9
<1>6. CASE Check("runtime")
  <2>1. /\ ProcessesInv' /\ x.pc \notin Planless
        /\ \/ Fails("runtime") /\ ~start.reachable
           \/ Goes("runtime", {"warmup"}) /\ NeedsWarmup("runtime")
           \/ Goes("runtime", {"load"}) /\ ~NeedsWarmup("runtime")
    BY <1>1, <1>6, CheckKeeps DEF Check, At, Planless, Unborn
  <2>2. CASE Fails("runtime") /\ ~start.reachable
    BY <1>2, <2>1, <2>2, FailureOfRuntime DEF CpuWouldServe
  <2>3. CASE Goes("runtime", {"warmup"}) /\ NeedsWarmup("runtime")
    BY <1>2, <2>1, <2>3, ProgressOfRuntime DEF Goes
  <2>4. CASE Goes("runtime", {"load"}) /\ ~NeedsWarmup("runtime")
    BY <1>2, <2>1, <2>4, ProgressOfRuntime DEF Goes
  <2>5. QED
    BY <2>1, <2>2, <2>3, <2>4
<1>7. CASE LoadEngines("runtime")
  <2>1. /\ ProcessesInv' /\ x.pc \notin Planless /\ x.pc = "load"
        /\ Fails("runtime") \/ Goes("runtime", {"report"})
        /\ x.selection.provider = "tensorrt"
    BY <1>1, <1>7, EnginesKeep DEF LoadEngines, At, Planless, Unborn
  <2>2. CASE Fails("runtime")
    BY <1>2, <2>1, <2>2, FailureOfRuntime, Backends
  <2>3. CASE Goes("runtime", {"report"})
    BY <1>2, <2>1, <2>3, ProgressOfRuntime DEF Goes
  <2>4. QED
    BY <2>1, <2>2, <2>3
<1>8. CASE LoadOnnx("runtime")
  <2>1. /\ ProcessesInv' /\ x.pc \notin Planless /\ x.pc = "load"
        /\ \/ Fails("runtime") /\ ~(cmd.labels /\ x.selection.provider # "onnxCuda")
           \/ Goes("runtime", {"manifest"})
    BY <1>1, <1>8, OnnxKeeps DEF LoadOnnx, At, Planless, Unborn
  <2>2. CASE Fails("runtime") /\ ~(cmd.labels /\ x.selection.provider # "onnxCuda")
    BY <1>2, <2>1, <2>2, FailureOfRuntime, Backends DEF CpuWouldServe
  <2>3. CASE Goes("runtime", {"manifest"})
    BY <1>2, <2>1, <2>3, ProgressOfRuntime DEF Goes
  <2>4. QED
    BY <2>1, <2>2, <2>3
<1>9. CASE ReadManifest("runtime")
  <2>1. /\ ProcessesInv' /\ x.pc \notin Planless /\ x.pc = "manifest"
        /\ Goes("runtime", {"model"}) /\ new.role = x.role
        /\ new.manifest[x.role] = onDisk[x.role].manifest
    BY <1>1, <1>9, ManifestKeeps DEF ReadManifest, At, Planless, Unborn
  <2>2. QED
    BY <1>2, <2>1, ProgressOfRuntime DEF Goes
<1>10. CASE ReadModel("runtime")
  <2>1. /\ ProcessesInv' /\ x.pc \notin Planless /\ x.pc = "model"
        /\ \/ /\ Fails("runtime")
              /\ ~VerifyOnnxModel(x.manifest[x.role], onDisk[x.role].model, x.role)
           \/ /\ Goes("runtime", {"session"}) /\ new.role = x.role
              /\ new.manifest = x.manifest
              /\ new.model[x.role] = onDisk[x.role].model
    BY <1>1, <1>10, ModelKeeps DEF ReadModel, At, Planless, Unborn
  <2>2. x.role \in ModelRoles /\ (edits = 0 => x.manifest[x.role] = onDisk[x.role].manifest)
    BY <1>1, <2>1 DEF LoadOf, ServeInv
  <2>3. CASE Fails("runtime") /\ ~VerifyOnnxModel(x.manifest[x.role], onDisk[x.role].model, x.role)
    <3>1. ~serving
      BY <2>2, <2>3 DEF CpuWouldServe, ModelRoles
    <3>2. QED
      BY <1>2, <2>1, <2>3, <3>1, FailureOfRuntime
  <2>4. CASE /\ Goes("runtime", {"session"}) /\ new.role = x.role
             /\ new.manifest = x.manifest
             /\ new.model[x.role] = onDisk[x.role].model
    BY <1>2, <2>1, <2>2, <2>4, ProgressOfRuntime DEF Goes
  <2>5. QED
    BY <2>1, <2>3, <2>4
<1>11. CASE OpenSession("runtime")
  <2> DEFINE schema == Schema(x.role, SessionOutput(x.manifest[x.role], x.model[x.role], cmd.size), cmd.keypoints)
  <2>1. /\ ProcessesInv' /\ x.pc \notin Planless /\ x.pc = "session"
        /\ \/ Fails("runtime") /\ (x.selection.provider = "onnxCuda" \/ schema = "refused")
           \/ Goes("runtime", {NextRole("runtime").pc})
    BY <1>1, <1>11, SessionKeeps DEF OpenSession, At, Planless, Unborn
  <2>2. /\ x.role \in ModelRoles
        /\ edits = 0 => /\ x.manifest[x.role] = onDisk[x.role].manifest
                        /\ x.model[x.role] = onDisk[x.role].model
    BY <1>1, <2>1 DEF LoadOf, ServeInv
  <2>3. CASE Fails("runtime") /\ (x.selection.provider = "onnxCuda" \/ schema = "refused")
    <3>1. ~(serving /\ schema = "refused")
      BY <2>2 DEF CpuWouldServe, ModelRoles
    <3>2. serving => x.selection # Cpu
      BY <2>3, <3>1, Backends
    <3>3. QED
      BY <1>2, <2>1, <2>3, <3>2, FailureOfRuntime
  <2>4. CASE Goes("runtime", {NextRole("runtime").pc})
    <3>1. NextRole("runtime").pc \in {"manifest", "report"}
      BY DEF NextRole
    <3>2. QED
      BY <1>2, <2>1, <2>4, <3>1, ProgressOfRuntime DEF Goes
  <2>5. QED
    BY <2>1, <2>3, <2>4
<1>12. CASE Report("runtime")
  <2>1. /\ ProcessesInv' /\ x.pc = "report" /\ x.pc \notin Planless /\ Advanced(x, new)
        /\ \/ new.pc = "ended" /\ new.code = 0
           \/ new.pc = "running"
    BY <1>1, <1>12, ReportKeeps DEF Planless, Unborn
  <2>2. QED
    BY <1>2, <2>1, ProgressOfRuntime
<1>13. QED
  BY <1>1, <1>4, <1>5, <1>6, <1>7, <1>8, <1>9, <1>10, <1>11, <1>12 DEF Step, WarmUp, At

--------------------------------------------------------------------------------
(* The steps of the child and of whoever exchanges files. *)

(* Each step of the child keeps the invariant. *)
LEMMA ChildStepKeeps ==
  ASSUME StartupInv, Step("warmup")
  PROVE  StartupInv'
<1> DEFINE x == process["runtime"]
           w == process["warmup"]
           new == process'["warmup"]
<1> USE DEF StartupInv
<1>1. /\ ShapeOf(w) /\ PlanOf(w) /\ LoadOf(w) /\ "warmup" \in Processes /\ w.pc # "absent"
  BY DEF ProcessesInv, Processes, Step, Parse, Plan, Check, LoadEngines, LoadOnnx, ReadManifest,
         ReadModel, OpenSession, WarmUp, Report, At
<1>2. UNCHANGED <<start, cmd, onDisk, edits>> /\ process'["runtime"] = x
  BY <1>1, Alone DEF Processes
<1>3. DiskInv' /\ (CpuWouldServe' <=> CpuWouldServe)
  BY <1>2 DEF DiskInv, CpuWouldServe, Available
<1>4. CommandInv' /\ ServeInv'
  BY <1>2, <1>3 DEF CommandInv, ServeInv, ByLauncher
<1>5. /\ Planned' = Planned /\ (Admitted' <=> Admitted)
      /\ NeedsWarmup("runtime")' <=> NeedsWarmup("runtime")
  BY <1>2 DEF Planned, Asked, Status, Installed, Available, Admitted, NeedsWarmup
<1>6. Planned = Cuda("onnxCuda") /\ Admitted
  BY <1>1 DEF ChildInv
<1>7. w.pc \notin Planless =>
        \/ w.failed /\ w.selection.provider = "onnxCpu"
        \/ ~w.failed /\ w.selection.provider = "onnxCuda"
  BY <1>1, <1>6, Backends DEF PlanOf, ShapeOf
<1>8. w.pc # "ended"
  BY DEF Step, Parse, Plan, Check, LoadEngines, LoadOnnx, ReadManifest, ReadModel, OpenSession,
         WarmUp, Report, At
<1>9. ASSUME ProcessesInv',
             new.pc \notin {"launcher", "absent"},
             new.pc = "infer" => ~new.failed /\ start.machine.cuda # "absent",
             new.pc \in {"manifest", "model", "session"} /\ new.role = "pose" =>
               new.failed \/ start.machine.cuda # "absent",
             new.pc = "report" \/ (new.pc = "ended" /\ new.code = 0) =>
               new.failed \/ start.machine.cuda = "works"
      PROVE  StartupInv'
  <2>1. ChildInv'
    BY <1>1, <1>2, <1>5, <1>6, <1>8, <1>9 DEF ChildInv
  <2>2. QED
    BY <1>3, <1>4, <1>9, <2>1
<1>10. ASSUME Fails("warmup"), ProcessesInv', w.pc \notin Planless
       PROVE  StartupInv'
  <2>1. new = Failed("warmup", 1)
    BY <1>1, <1>10 DEF Fails, ProcessesInv
  <2>2. \/ new.pc = "ended" /\ new.code = 1
        \/ new.pc = "check"
    BY <1>1, <1>10, <2>1, FailureKeeps
  <2>3. QED
    BY <1>9, <1>10, <2>2
<1>11. CASE Parse("warmup")
  <2>1. ProcessesInv' /\ new.pc = "plan"
    BY <1>1, <1>6, <1>11, ParseKeeps
  <2>2. QED
    BY <1>9, <2>1
<1>12. CASE Plan("warmup")
  <2>1. /\ ProcessesInv'
        /\ (new.pc = "ended" /\ new.code = 1) \/ new.pc = "check"
    BY <1>1, <1>12, PlanKeeps
  <2>2. QED
    BY <1>9, <2>1
<1>13. CASE Check("warmup")
  <2>1. ProcessesInv' /\ w.pc \notin Planless /\ (Fails("warmup") \/ new.pc \in {"warmup", "load"})
    BY <1>1, <1>13, CheckKeeps DEF Check, At, Planless, Unborn, Goes
  <2>2. QED
    BY <1>9, <1>10, <2>1
<1>14. CASE LoadEngines("warmup")
  BY <1>7, <1>14 DEF LoadEngines, At, Planless, Unborn
<1>15. CASE LoadOnnx("warmup")
  <2>1. /\ ProcessesInv' /\ w.pc \notin Planless
        /\ Fails("warmup") \/ (new.pc = "manifest" /\ new.role = "ppe")
    BY <1>1, <1>15, OnnxKeeps DEF LoadOnnx, At, Planless, Unborn, Goes
  <2>2. QED
    BY <1>9, <1>10, <2>1
<1>16. CASE ReadManifest("warmup")
  <2>1. ProcessesInv' /\ w.pc = "manifest" /\ new.pc = "model" /\ new.role = w.role /\ new.failed = w.failed
    BY <1>1, <1>16, ManifestKeeps DEF ReadManifest, At, Goes, Advanced
  <2>2. QED
    BY <1>9, <2>1 DEF ChildInv
<1>17. CASE ReadModel("warmup")
  <2>1. /\ ProcessesInv' /\ w.pc = "model" /\ w.pc \notin Planless
        /\ Fails("warmup") \/ (new.pc = "session" /\ new.role = w.role /\ new.failed = w.failed)
    BY <1>1, <1>17, ModelKeeps DEF ReadModel, At, Goes, Advanced, Planless, Unborn
  <2>2. QED
    BY <1>9, <1>10, <2>1 DEF ChildInv
<1>18. CASE OpenSession("warmup")
  <2>1. /\ ProcessesInv' /\ w.pc = "session" /\ w.pc \notin Planless
        /\ \/ Fails("warmup")
           \/ /\ new.pc = NextRole("warmup").pc /\ new.role = NextRole("warmup").role /\ new.failed = w.failed
              /\ w.selection.provider = "onnxCuda" /\ w.role = "ppe" => start.machine.cuda # "absent"
    BY <1>1, <1>18, SessionKeeps DEF OpenSession, At, Goes, Advanced, Planless, Unborn
  <2>2. w.failed \/ w.role = "ppe" \/ start.machine.cuda # "absent"
    BY <1>1, <2>1 DEF ChildInv, ShapeOf, Roles
  <2>3. /\ NextRole("warmup").pc \in {"manifest", "infer", "report"}
        /\ NextRole("warmup").pc = "infer" => w.selection.provider = "onnxCuda"
        /\ NextRole("warmup").pc = "report" => w.selection.provider # "onnxCuda"
        /\ NextRole("warmup").role = "pose" => w.role = "ppe"
    BY DEF NextRole
  <2>4. QED
    BY <1>7, <1>9, <1>10, <2>1, <2>2, <2>3
<1>19. CASE WarmUp("warmup")
  <2>1. /\ ProcessesInv' /\ w.pc = "infer" /\ w.pc \notin Planless
        /\ \/ Fails("warmup")
           \/ new.pc = "report" /\ start.machine.cuda = "works"
           \/ new.pc = "ended" /\ new.code = Crashed
    BY <1>1, <1>19, WarmUpKeeps DEF WarmUp, At, Goes, Planless, Unborn
  <2>2. QED
    BY <1>9, <1>10, <2>1 DEF Crashed
<1>20. CASE Report("warmup")
  <2>1. ProcessesInv' /\ w.pc = "report" /\ new.pc = "ended" /\ new.failed = w.failed
    BY <1>1, <1>20, ReportKeeps DEF Advanced
  <2>2. QED
    BY <1>9, <2>1 DEF ChildInv
<1>21. QED
  BY <1>11, <1>12, <1>13, <1>14, <1>15, <1>16, <1>17, <1>18, <1>19, <1>20 DEF Step

(* What the processes know depends on the situation and the command line only. *)
LEMMA ProcessesStay ==
  ASSUME ProcessesInv, UNCHANGED <<start, cmd, process>>
  PROVE  ProcessesInv'
<1>1. ASSUME NEW q \in Processes
      PROVE  (ShapeOf(process[q]) /\ PlanOf(process[q]) /\ LoadOf(process[q]))'
  <2> DEFINE x == process'[q]
  <2>1. ShapeOf(x) /\ PlanOf(x) /\ LoadOf(x)
    BY DEF ProcessesInv
  <2>2. ShapeOf(process[q])'
    BY <2>1 DEF ShapeOf
  <2>3. PlanOf(process[q])'
    BY <2>1 DEF PlanOf, Asked, Installed, Admitted, Status, Planned, Available
  <2>4. LoadOf(process[q])'
    BY <2>1 DEF LoadOf, Held, ModelRoles, ByOnnx, Unborn
  <2>5. QED
    BY <2>2, <2>3, <2>4
<1>2. QED
  BY <1>1 DEF ProcessesInv

(* An exchange of a file keeps the invariant. *)
LEMMA ExchangeKeeps ==
  ASSUME StartupInv, NEW role \in Roles, NEW file \in {"manifest", "model"}, Exchange(role, file)
  PROVE  StartupInv'
<1> USE DEF StartupInv
<1>1. /\ UNCHANGED <<start, cmd, process>> /\ edits' = edits + 1
      /\ onDisk' = [onDisk EXCEPT ![role][file] = start.next[role][file]]
  BY DEF Exchange
<1>2. edits' \in Nat /\ edits' # 0
  BY <1>1 DEF DiskInv
<1>3. DiskInv'
  <2>1. DOMAIN onDisk' = Roles
    BY <1>1 DEF DiskInv
  <2>2. ASSUME NEW r \in Roles
        PROVE  /\ DOMAIN onDisk'[r] = {"manifest", "model"}
               /\ onDisk'[r].model \in {start.files[r].model, start.next[r].model}
    <3>1. CASE r # role
      BY <1>1, <3>1 DEF DiskInv
    <3>2. CASE r = role
      <4>1. onDisk'[r] = [onDisk[r] EXCEPT ![file] = start.next[r][file]]
        BY <1>1, <3>2 DEF DiskInv
      <4>2. QED
        BY <4>1 DEF DiskInv
    <3>3. QED
      BY <3>1, <3>2
  <2>3. QED
    BY <1>1, <1>2, <2>1, <2>2 DEF DiskInv
<1>4. ProcessesInv'
  BY <1>1, ProcessesStay
<1>5. CommandInv'
  BY <1>1 DEF CommandInv, ByLauncher
<1>6. ChildInv'
  BY <1>1 DEF ChildInv, Planned, Asked, Status, Installed, Available, Admitted, NeedsWarmup
<1>7. ServeInv'
  BY <1>2 DEF ServeInv
<1>8. QED
  BY <1>3, <1>4, <1>5, <1>6, <1>7

(* StartupInv is inductive. *)
LEMMA StartupStep == StartupInv /\ [StartupNext]_startupVars => StartupInv'
<1> SUFFICES ASSUME StartupInv, [StartupNext]_startupVars
             PROVE  StartupInv'
  OBVIOUS
<1>1. CASE ParentStep
  BY <1>1, BuildKeeps, StartWarmupKeeps, WarmupEndsKeeps, RuntimeStepKeeps DEF ParentStep
<1>2. CASE Step("warmup")
  BY <1>2, ChildStepKeeps
<1>3. CASE WriteLine
  <2> USE <1>3 DEF WriteLine, StartupInv
  <2>1. ProcessesInv'
    BY ProcessesStay
  <2>2. DiskInv' /\ CommandInv'
    BY DEF DiskInv, CommandInv, ByLauncher
  <2>3. ChildInv'
    BY DEF ChildInv, Planned, Asked, Status, Installed, Available, Admitted, NeedsWarmup
  <2>4. ServeInv'
    BY DEF ServeInv, CpuWouldServe, Available
  <2>5. QED
    BY <2>1, <2>2, <2>3, <2>4
<1>4. ASSUME NEW role \in Roles, NEW file \in {"manifest", "model"}, Exchange(role, file)
      PROVE  StartupInv'
  BY <1>4, ExchangeKeeps
<1>5. CASE UNCHANGED startupVars
  <2> USE <1>5 DEF startupVars, StartupInv
  <2>1. ProcessesInv'
    BY ProcessesStay
  <2>2. DiskInv' /\ CommandInv'
    BY DEF DiskInv, CommandInv, ByLauncher
  <2>3. ChildInv'
    BY DEF ChildInv, Planned, Asked, Status, Installed, Available, Admitted, NeedsWarmup
  <2>4. ServeInv'
    BY DEF ServeInv, CpuWouldServe, Available
  <2>5. QED
    BY <2>1, <2>2, <2>3, <2>4
<1>6. QED
  BY <1>1, <1>2, <1>3, <1>4, <1>5 DEF StartupNext, ChildStep

--------------------------------------------------------------------------------
(* What the start of a runtime guarantees. *)

(* The inductive invariant: the plan, the command line, the child, the models and
   the files, for any situations, any pipe and any number of edits. *)
THEOREM StartupCorrect == StartupSpec => []StartupInv
  BY StartupInitHolds, StartupStep, PTL DEF StartupSpec

(* Forced CUDA never degrades: a runtime works on the CPU because it was asked
   to, or as an Auto that saw no usable CUDA or saw it fail
   (planRuntimeExecution and the catch block of main). *)
THEOREM CpuHasAReason == StartupSpec => []CpuIsExplained
<1>1. StartupInv => CpuIsExplained
  <2> SUFFICES ASSUME StartupInv, Running, runtime.selection = Cpu
               PROVE  \/ runtime.requested = "cpu"
                      \/ /\ runtime.requested = "auto"
                         /\ \/ runtime.failed
                            \/ runtime.status # "cuda_ready"
                            \/ CudaProvider(start.machine, Available, cmd.mode) = "none"
    BY DEF CpuIsExplained
  <2>1. PlanOf(runtime) /\ runtime.pc \notin Planless
    BY DEF StartupInv, ProcessesInv, runtime, Running, Processes, Planless, Unborn
  <2>2. runtime.requested = Asked /\ runtime.status = Status
    BY <2>1 DEF PlanOf, Planless, Unborn
  <2>3. CASE runtime.failed
    BY <2>1, <2>3 DEF PlanOf
  <2>4. CASE ~runtime.failed
    <3>1. Planned = Cpu
      BY <2>1, <2>4 DEF PlanOf
    <3>2. QED
      BY <2>2, <3>1, PlanFacts DEF Planned
  <2>5. QED
    BY <2>3, <2>4
<1>2. QED
  BY <1>1, StartupCorrect, PTL

(* Auto comes up wherever the CPU could have served, whatever fails with CUDA,
   as long as nobody exchanges the models meanwhile. *)
THEOREM AutoComesUp == StartupSpec => []AutoServes
<1>1. StartupInv => AutoServes
  BY DEF StartupInv, ServeInv, AutoServes, At, runtime
<1>2. QED
  BY <1>1, StartupCorrect, PTL

(* Nobody monitors with the ONNX CUDA provider on Windows before a child has made
   an inference with it, or, an Auto, has given CUDA up itself
   (runIsolatedCudaWarmup). *)
THEOREM WarmupHasTheSay == StartupSpec => []WarmupDecides
<1>1. StartupInv => WarmupDecides
  <2> SUFFICES ASSUME StartupInv, Running, runtime.selection = Cuda("onnxCuda"),
                      start.machine.windows, ~cmd.benchmark
               PROVE  \/ start.machine.cuda = "works"
                      \/ runtime.requested = "auto" /\ process["warmup"].failed
    BY DEF WarmupDecides
  <2> DEFINE w == process["warmup"]
  <2>1. PlanOf(runtime) /\ PlanOf(w) /\ runtime.pc = "running"
    BY DEF StartupInv, ProcessesInv, runtime, Running, Processes
  <2>2. NeedsWarmup("runtime")
    BY Backends DEF NeedsWarmup, runtime
  <2>3. w.pc = "ended" /\ w.code = 0
    BY <2>1, <2>2 DEF StartupInv, ChildInv, runtime
  <2>4. w.failed \/ start.machine.cuda = "works"
    BY <2>3 DEF StartupInv, ChildInv
  <2>5. w.failed => w.requested = "auto" /\ w.requested = Asked
    BY <2>1, <2>3 DEF PlanOf, Unborn, None
  <2>6. runtime.requested = Asked
    BY <2>1 DEF PlanOf, Unborn
  <2>7. QED
    BY <2>4, <2>5, <2>6
<1>2. QED
  BY <1>1, StartupCorrect, PTL

(* A running runtime holds, for each role, a model that its manifest is about,
   read in the layout it was exported with, whenever files were exchanged
   (verifyOnnxModel, OnnxSession and validateSchema). *)
THEOREM LoadedStaysVerified == StartupSpec => []LoadedIsVerified
<1>1. StartupInv => LoadedIsVerified
  <2>1. ASSUME StartupInv PROVE LoadOf(runtime)
    BY <2>1 DEF StartupInv, ProcessesInv, runtime, Processes
  <2>2. QED
    BY <2>1 DEF LoadedIsVerified, LoadOf, Held, ModelRoles, ByOnnx, Running
<1>2. QED
  BY <1>1, StartupCorrect, PTL

(* What passes the launcher's checks the runtime understands, but for a camera's
   authority of which only the runtime looks at the malformed part, and a clash
   with a default label (validateRtspCameraUrl in buildLaunchPlan, and
   parseRtspAuthority in parseCommandLine). *)
THEOREM LaunchesAreUnderstood == StartupSpec => []LaunchedIsUnderstood
<1>1. StartupInv => LaunchedIsUnderstood
  <2> SUFFICES ASSUME StartupInv, ByLauncher, runtime.code = 2
               PROVE  \/ \E i \in DOMAIN cmd.sources : OnlyRuntimeLooks(cmd.sources[i].place)
                      \/ ClashOfDefault(cmd.sources)
    BY DEF LaunchedIsUnderstood
  <2>1. runtime.pc # "launcher" /\ start \in Starts
    BY DEF StartupInv, ProcessesInv, ShapeOf, runtime, Processes, NotEnded
  <2>2. /\ ~PlanRefused(start.settings, start.roots)
        /\ cmd = LaunchPlan(start.settings, start.roots, start.settings.preflight)
        /\ ~Understood(cmd)
    BY <2>1 DEF StartupInv, CommandInv, runtime, RefusedByLauncher
  <2>3. start.settings.mode \in {"ppe-only", "ppe-fall"}
    BY <2>1, StartupAssumption DEF ByLauncher
  <2>4. QED
    BY <2>2, <2>3, PlanIsUnderstood
<1>2. QED
  BY <1>1, StartupCorrect, PTL
================================================================================
