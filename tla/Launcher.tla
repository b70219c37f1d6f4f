------------------------------- MODULE Launcher -------------------------------
(* The launcher window as a whole: the runtime it controls, its preferences and
   its camera profiles.  While a runtime is shown as running the list of
   profiles and the menus are disabled; a launch reads both stores. *)
EXTENDS LauncherProcess, LauncherPreferences, CameraProfiles

vars == <<processVars, preferenceVars, profileVars>>
storeVars == <<preferenceVars, profileVars>>

Init == ProcessInit /\ PreferencesInit /\ ProfilesInit

(* The handlers run one at a time: none while a dialog works on its files. *)
Ready == work = Idle

(* The user can open a dialog. *)
Free == gui = "idle" /\ ~running /\ Ready

(* buildLaunchPlan refuses unsupported stream settings. *)
LaunchRuntime(check) ==
  /\ Ready
  /\ \/ memory.stream = "supported" /\ Launch(check)
     \/ LaunchRefused(check)
  /\ UNCHANGED storeVars

RuntimeStep ==
  /\ \/ ChildWrites \/ ChildEnds
     \/ /\ Ready
        /\ \/ AppendOutput \/ LateStart \/ Finished
           \/ Started \/ StartFails \/ StartTimesOut
           \/ Stop \/ Close
           \/ WaitSeesEnd \/ WaitSeesFailure \/ GraceIsOver \/ KillIsOverdue
  /\ UNCHANGED storeVars

ChangePreferences ==
  /\ Free
  /\ \E writable \in BOOLEAN :
       \/ \E g \in BOOLEAN : AdvancedSettings(g, writable)
       \/ \E c \in Confidences : PpeThresholds(c, writable)
  /\ UNCHANGED <<processVars, profileVars>>

ChangeProfiles ==
  /\ \/ Free /\ BeginProfiles
     \/ ProfileStep
  /\ UNCHANGED <<processVars, preferenceVars>>

(* importEnv: the profile of the camera first, if the file names one, then the
   preferences. *)
ImportEnv ==
  /\ \/ Free /\ UNCHANGED profileVars
     \/ ImportGoesOn
  /\ \E c \in Confidences, g \in BOOLEAN, s \in Streams, bad \in {"none", "gate"},
        writable \in BOOLEAN : ImportPreferences(c, g, s, bad, writable)
  /\ UNCHANGED processVars

(* A closed launcher has tried to save its state; one that crashes, in a dialog,
   in a wait or between them, has not, and leaves its runtime to the system. *)
Restart ==
  /\ \E writable, readable \in BOOLEAN : NextSession(gui = "closed", writable, readable)
  /\ NextProfileSession
  /\ proc' = "notRunning" /\ child' = "none" /\ log' = FALSE
  /\ written' = 0 /\ unread' = 0 /\ logged' = 0
  /\ preflight' = FALSE /\ running' = FALSE /\ status' = "ready"
  /\ gui' = "idle" /\ purpose' = "none" /\ launched' = FALSE /\ overdue' = "none"

Next ==
  \/ \E check \in BOOLEAN : LaunchRuntime(check)
  \/ RuntimeStep
  \/ ChangePreferences \/ ChangeProfiles \/ ImportEnv
  \/ Restart

(* The signals of QProcess and the ends of the waits reach the window, whose
   handlers return. *)
Spec == Init /\ [][Next]_vars /\ ProcessFairness

(* The variables of the three parts keep their types. *)
TypeOK == ProcessTypeOK /\ PreferencesTypeOK /\ ProfilesTypeOK
================================================================================
