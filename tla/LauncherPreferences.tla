-------------------------- MODULE LauncherPreferences --------------------------
(* The operator preferences of the launcher: what the window holds, what its
   dialogs change, and what is in preferences.txt.  The pose gate exists twice,
   in preferences_ and as a field of the window, and only a full save joins
   them. *)
EXTENDS Naturals

CONSTANTS Confidences,         \* values of the PPE thresholds
          DefaultConfidence    \* the one of a launcher without a file

ASSUME PreferencesAssumption == DefaultConfidence \in Confidences

VARIABLES
  memory,     \* preferences_
  gate,       \* pose_requires_person_
  disk,       \* what preferences.txt holds
  announced,  \* history: the preferences the user was told are saved
  reverted,   \* history: the thresholds were saved alone since the last full save
  swallowed   \* history: the last announcement hides a file not read or not written

preferenceVars == <<memory, gate, disk, announced, reverted, swallowed>>

Streams == {"supported", "unsupported"}

(* OperatorPreferences; stream stands for stream_resolution and stream_fps,
   which only the dialogs restrict to supported values. *)
Preferences == [stream : Streams, confidence : Confidences, gate : BOOLEAN]
Defaults == [stream |-> "supported", confidence |-> DefaultConfidence, gate |-> TRUE]

PreferencesInit ==
  /\ disk \in [stream : {"supported"}, confidence : Confidences, gate : BOOLEAN]
  /\ memory = disk /\ gate = disk.gate
  /\ announced = disk /\ reverted = FALSE /\ swallowed = FALSE

(* saveOperatorPreferencesAtomic validates, writes a second file and renames it:
   it throws for unsupported values and when the directory or the disk refuses
   (~writable), and the old file stays. *)
Saved(preferences, writable) == preferences.stream = "supported" /\ writable
Written(preferences, writable) ==
  IF Saved(preferences, writable) THEN preferences ELSE disk

(* A save that forgets the window's gate. *)
SaveMemory(mem, g, writable) ==
  /\ disk' = Written(mem, writable)
  /\ swallowed' = ~Saved(mem, writable)

(* saveState drops whatever is thrown, so its callers go on as after a save. *)
SaveState(mem, g, writable) ==
  /\ disk' = Written([mem EXCEPT !.gate = g], writable)
  /\ swallowed' = ~Saved(mem, writable)

(* openAdvancedSettings: its lists hold supported streams only. *)
AdvancedSettings(g, writable) ==
  /\ memory' = [memory EXCEPT !.stream = "supported"]
  /\ gate' = g
  /\ SaveState(memory', g, writable)
  /\ announced' = [memory' EXCEPT !.gate = g]
  /\ reverted' = FALSE

(* openPpeThresholds saves preferences_ as it is, the gate of the last start
   included; what this save throws is shown. *)
PpeThresholds(c, writable) ==
  /\ memory' = [memory EXCEPT !.confidence = c]
  /\ disk' = Written(memory', writable)
  /\ IF Saved(memory', writable)
     THEN /\ announced' = [announced EXCEPT !.confidence = c]
          /\ reverted' = TRUE /\ swallowed' = FALSE
     ELSE UNCHANGED <<announced, reverted, swallowed>>
  /\ UNCHANGED gate

(* importEnv takes the values of the file one by one: a bad gate ends it, and
   what was taken before stays in memory. *)
ImportPreferences(c, g, s, bad, writable) ==
  \/ /\ bad = "gate"
     /\ memory' = [memory EXCEPT !.confidence = c]
     /\ UNCHANGED <<gate, disk, announced, reverted, swallowed>>
  \/ /\ bad = "none"
     /\ memory' = [memory EXCEPT !.confidence = c, !.stream = s]
     /\ gate' = g
     /\ SaveState(memory', g, writable)
     /\ announced' = [memory' EXCEPT !.gate = g]
     /\ reverted' = FALSE

(* The next start of the launcher, after a close (which saves first, and drops
   what that throws) or a crash.  A file that cannot be read is replaced by the
   defaults, in the window only. *)
NextSession(closed, writable, readable) ==
  /\ disk' = IF closed THEN Written([memory EXCEPT !.gate = gate], writable) ELSE disk
  /\ memory' = IF readable THEN disk' ELSE Defaults
  /\ gate' = memory'.gate /\ announced' = memory'
  /\ reverted' = FALSE /\ swallowed' = ~readable

--------------------------------------------------------------------------------
(* The variables keep their types, and the file is always one that is valid. *)
PreferencesTypeOK ==
  /\ memory \in Preferences /\ disk \in Preferences /\ announced \in Preferences
  /\ gate \in BOOLEAN /\ reverted \in BOOLEAN /\ swallowed \in BOOLEAN
  /\ disk.stream = "supported"

(* What the user was told is saved, imported or loaded is on disk for the next
   start, whatever failed and was told before.  The exceptions are what the code
   does: an announcement made after saveState dropped an exception (stream
   settings imported unsupported, or a file not written) or after the file was
   not read; and saving the thresholds takes the pose gate on disk back to its
   value at the start. *)
AnnouncedIsKept ==
  ~swallowed =>
    /\ disk.stream = announced.stream /\ disk.confidence = announced.confidence
    /\ disk.gate = announced.gate \/ (reverted /\ disk.gate = memory.gate)
================================================================================
