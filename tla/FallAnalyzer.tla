----------------------------- MODULE FallAnalyzer -----------------------------
(***************************************************************************)
(* FallAnalyzer of native/src/analytics/fall_analytics.cpp: for every      *)
(* track, the counters that turn poses into one alert per fall.            *)
(*                                                                         *)
(* AnalyticsPipeline::process, which owns the analyzer, calls update for   *)
(* each person of a frame and then prune, with the time of the frame: one  *)
(* frame is one action.  The geometry of a pose is abstracted to the four  *)
(* comparisons update makes with it.  A descent is measured against an     *)
(* earlier centre of the same track, not older than DescentWindow.         *)
(***************************************************************************)
EXTENDS Integers

CONSTANTS
    Tracks,        \* the track ids the tracker assigns
    Poses,         \* what a pose may look like
    ConfirmFrames, \* confirm_frames
    ResetFrames,   \* reset_frames
    Cooldown,      \* alert_cooldown
    Ttl,           \* track_ttl
    DescentWindow, \* the second a centre is remembered for
    DescentHold,   \* the 1.5 seconds a descent is recent for
    Steps,         \* times between two frames
    FrameBound     \* bound: frames

ASSUME FallAssumption ==
    /\ Poses \subseteq [horizontal : BOOLEAN, nearFloor : BOOLEAN,
                        falling : BOOLEAN, vertical : BOOLEAN]
    /\ ConfirmFrames \in Nat \ {0}
    /\ ResetFrames \in Nat \ {0}
    /\ Cooldown \in Nat
    /\ Ttl \in Nat
    /\ DescentWindow \in Nat
    /\ DescentHold \in Nat
    /\ Steps \subseteq Nat
    /\ FrameBound \in Nat

VARIABLES
    states,    \* states_: the State of each remembered track
    now,       \* the time of the last frame
    confirmed, \* the tracks with confirmed_now in the last frame
    frames,    \* frames processed
    \* History.
    alarm,     \* the time of the last alert of a track, 0 when there is none
    unbroken,  \* the tracks remembered without a break since that alert
    evidence,  \* its candidate frames since it is remembered or recovered
    standing,  \* its upright frames in a row
    risen      \* the tracks that stood ResetFrames in a row since the alert

history == <<alarm, unbroken, evidence, standing, risen>>
vars == <<states, now, confirmed, frames, history>>

Known == DOMAIN states

Init ==
    /\ states = [t \in {} |-> 0]
    /\ now = 1
    /\ confirmed = {}
    /\ frames = 0
    /\ alarm = [t \in Tracks |-> 0]
    /\ unbroken = {}
    /\ evidence = [t \in Tracks |-> 0]
    /\ standing = [t \in Tracks |-> 0]
    /\ risen = {}

-----------------------------------------------------------------------------
(* update. *)

\* A value-initialised State.
NewState == [candidates |-> 0, upright |-> 0, active |-> FALSE,
             alerted |-> FALSE, lastAlert |-> 0, descentUntil |-> 0,
             lastSeen |-> 0]

StateOf(t) == IF t \in Known THEN states[t] ELSE NewState

\* A descent needs an earlier centre.
Possible(t, pose, time) ==
    pose.falling => t \in Known /\ time - states[t].lastSeen <= DescentWindow

DescentUntil(s, pose, time) ==
    IF pose.falling THEN time + DescentHold ELSE s.descentUntil

Candidate(s, pose, time) ==
    /\ pose.horizontal
    /\ pose.nearFloor \/ time <= DescentUntil(s, pose, time)

\* (Fault: the decay has the wrong sign.)
CandidatesGrowing(s, candidate) ==
    IF candidate THEN s.candidates + 1 ELSE s.candidates + 2

Candidates(s, candidate) ==
    IF candidate THEN s.candidates + 1
    ELSE IF s.candidates > 2 THEN s.candidates - 2 ELSE 0

\* Upright frames count only in a row.
Upright(s, pose, candidate) ==
    IF ~candidate /\ pose.vertical THEN s.upright + 1 ELSE 0

\* The pose is observed: the first part of update.
Observe(s, pose, time) ==
    LET candidate == Candidate(s, pose, time)
    IN [candidates |-> Candidates(s, candidate),
        upright |-> Upright(s, pose, candidate),
        active |-> s.active,
        alerted |-> s.alerted,
        lastAlert |-> s.lastAlert,
        descentUntil |-> DescentUntil(s, pose, time),
        lastSeen |-> time]

\* (Fault: the cooldown alone decides whether a fall is reported again.)
ConfirmsAnyway(s, time) ==
    /\ s.candidates >= ConfirmFrames
    /\ ~s.alerted \/ time - s.lastAlert >= Cooldown

Confirms(s, time) ==
    /\ s.candidates >= ConfirmFrames
    /\ ~s.active
    /\ ~s.alerted \/ time - s.lastAlert >= Cooldown

Confirm(s, time) ==
    IF Confirms(s, time)
    THEN [s EXCEPT !.active = TRUE, !.alerted = TRUE, !.lastAlert = time]
    ELSE s

Recovers(s) == s.active /\ s.upright >= ResetFrames

Recover(s) ==
    IF Recovers(s) THEN [s EXCEPT !.active = FALSE, !.candidates = 0] ELSE s

Update(s, pose, time) == Recover(Confirm(Observe(s, pose, time), time))

-----------------------------------------------------------------------------
(* A frame. *)

\* prune: the track has not been seen for longer than track_ttl.
Forget(s, time) == time - s.lastSeen > Ttl

\* What update leaves in the map for the tracks in seen, at this time.
Updated(seen, time) ==
    [t \in Known \cup DOMAIN seen |->
        IF t \in DOMAIN seen THEN Update(StateOf(t), seen[t], time)
        ELSE states[t]]

\* The history of a frame.
Record(seen, time, kept) ==
    LET observed(t) == Observe(StateOf(t), seen[t], time)
        isCandidate(t) ==
            t \in DOMAIN seen /\ Candidate(StateOf(t), seen[t], time)
        isUpright(t) ==
            t \in DOMAIN seen /\ ~isCandidate(t) /\ seen[t].vertical
        stood(t) ==
            IF isUpright(t) THEN standing[t] + 1
            ELSE IF t \in DOMAIN seen THEN 0 ELSE standing[t]
        recovered(t) ==
            t \in DOMAIN seen /\ Recovers(Confirm(observed(t), time))
    IN /\ alarm' = [t \in Tracks |-> IF t \in confirmed' THEN time ELSE alarm[t]]
       /\ unbroken' = (unbroken \cup confirmed') \cap kept
       /\ evidence' = [t \in Tracks |->
                          IF t \notin kept \/ recovered(t) THEN 0
                          ELSE IF isCandidate(t) THEN evidence[t] + 1
                          ELSE evidence[t]]
       /\ standing' = [t \in Tracks |-> IF t \in kept THEN stood(t) ELSE 0]
       /\ risen' = {t \in kept :
                       \/ stood(t) >= ResetFrames
                       \/ t \in risen /\ t \notin confirmed'}

\* process: update for the people of the frame, then prune.
Frame(seen, time) ==
    LET updated == Updated(seen, time)
        kept == {t \in DOMAIN updated : ~Forget(updated[t], time)}
    IN /\ \A t \in DOMAIN seen : Possible(t, seen[t], time)
       /\ states' = [t \in kept |-> updated[t]]
       /\ now' = time
       /\ confirmed' = {t \in DOMAIN seen :
                           Confirms(Observe(StateOf(t), seen[t], time), time)}
       /\ frames' = frames + 1
       /\ Record(seen, time, kept)

\* reset.
Reset ==
    /\ states # [t \in {} |-> 0]
    /\ states' = [t \in {} |-> 0]
    /\ confirmed' = {}
    /\ alarm' = [t \in Tracks |-> 0]
    /\ unbroken' = {}
    /\ evidence' = [t \in Tracks |-> 0]
    /\ standing' = [t \in Tracks |-> 0]
    /\ risen' = {}
    /\ UNCHANGED <<now, frames>>

ProcessFrame ==
    /\ frames < FrameBound
    /\ \E people \in SUBSET Tracks : \E seen \in [people -> Poses], d \in Steps :
          Frame(seen, now + d)

\* The source has no more frames.
Finished == frames = FrameBound /\ UNCHANGED vars

Next == ProcessFrame \/ Reset \/ Finished

Spec == Init /\ [][Next]_vars

-----------------------------------------------------------------------------
(* Safety. *)

State == [candidates : Nat, upright : Nat, active : BOOLEAN,
          alerted : BOOLEAN, lastAlert : Nat, descentUntil : Nat,
          lastSeen : Nat]

\* Type invariant; a remembered track was seen, and not later than now.
TypeOK ==
    /\ Known \subseteq Tracks
    /\ \A t \in Known : states[t] \in State /\ states[t].lastSeen <= now
    /\ now \in Nat
    /\ confirmed \subseteq Tracks
    /\ frames \in Nat
    /\ alarm \in [Tracks -> Nat]
    /\ unbroken \subseteq Tracks
    /\ evidence \in [Tracks -> Nat]
    /\ standing \in [Tracks -> Nat]
    /\ risen \subseteq Tracks

\* A fall is active from its alert until the person stood upright for
\* ResetFrames in a row; then, and only then, it is over.
ActiveUntilRisen ==
    \A t \in Known : states[t].active <=> t \in unbroken \ risen

\* Every alert rests on ConfirmFrames frames of its own fall.
AlertNeedsEvidence ==
    [][\A t \in confirmed' :
          frames' > frames => evidence[t] + 1 >= ConfirmFrames]_vars

\* One alert per fall: a fall lasts from its alert until the person has risen,
\* and between two alerts of a track that was not forgotten lie the cooldown and
\* a time in which the person stood.
OneAlertPerFall ==
    /\ []ActiveUntilRisen
    /\ [][\A t \in confirmed' :
            t \in unbroken /\ frames' > frames =>
                t \in risen /\ now' - alarm[t] >= Cooldown]_vars
=============================================================================
