----------------------------- MODULE PpeAnalyzer -----------------------------
(***************************************************************************)
(* PpeAnalyzer of native/src/analytics/ppe_analytics.cpp: for every track, *)
(* a sliding window of votes per item of protective equipment, the         *)
(* judgement they give, and the alerts.                                    *)
(*                                                                         *)
(* AnalyticsPipeline::process, which owns the analyzer, calls update for   *)
(* each person of a frame and then prune, with the time of the frame: one  *)
(* frame is one action.  What associatePpe found of an item is one of      *)
(* three outcomes.  A vote stands for the entries update pushes to the     *)
(* confidences and to the wear states, whose lengths are always equal; the *)
(* mean confidence and the texts are left out.  A status text is the set   *)
(* of items it names: "EPP Completo" names none.                           *)
(***************************************************************************)
EXTENDS Integers, Sequences, FiniteSets

CONSTANTS
    Tracks,         \* the track ids the tracker assigns
    Items,          \* the items of equipment enabled by the policy
    FaceItems,      \* those that need a frontal face: faceItem
    Looks,          \* what a frame may show of a person
    Window,         \* window
    MinimumSamples, \* minimum_samples
    PresentPercent, \* present_ratio, in percent
    Cooldown,       \* alert_cooldown
    Ttl,            \* track_ttl
    Steps,          \* times between two frames
    FrameBound      \* bound: frames

\* worn: detected in its region; misplaced: detected elsewhere on the person.
Sightings == {"worn", "misplaced", "unseen"}

\* A vote is the wear state of an item in one frame that shows it.
Votes == {"correct", "incorrect", "absent"}

ASSUME PpeAssumption ==
    /\ FaceItems \subseteq Items
    /\ Looks \subseteq [face : BOOLEAN, item : [Items -> Sightings]]
    /\ Window \in Nat
    /\ MinimumSamples \in 1..Window    \* the constructor rejects others
    /\ PresentPercent \in 0..100
    /\ Cooldown \in Nat
    /\ Ttl \in Nat
    /\ Steps \subseteq Nat
    /\ FrameBound \in Nat

VARIABLES
    states,  \* states_: the State of each remembered track
    now,     \* the time of the last frame
    events,  \* the tracks for which the last frame gave an event
    frames,  \* frames processed
    \* History.
    shown,   \* the last Window votes each item of a track had occasion for
    alarm,   \* the time of the last alert of a track since it is remembered
    blamed   \* the items that alert named

history == <<shown, alarm, blamed>>
vars == <<states, now, events, frames, history>>

Known == DOMAIN states
NoStates == [t \in {} |-> {}]

Init ==
    /\ states = NoStates
    /\ now = 1
    /\ events = {}
    /\ frames = 0
    /\ shown = [t \in Tracks |-> [i \in Items |-> <<>>]]
    /\ alarm = [t \in Tracks |-> 0]
    /\ blamed = [t \in Tracks |-> {}]

-----------------------------------------------------------------------------
(* The vote of a frame, and the judgement of a window. *)

\* A value-initialised State.
NewState == [votes |-> [i \in Items |-> <<>>], judged |-> FALSE, missing |-> {},
             lastSeen |-> 0, alerted |-> FALSE, lastAlert |-> 0]

StateOf(t) == IF t \in Known THEN states[t] ELSE NewState

\* (Fault: an item on a face that is turned away counts as missing.)
AlwaysVerifiable(i, look) == TRUE

\* Items on the face are not judged unless the face is seen from the front.
Verifiable(i, look) == i \notin FaceItems \/ look.face

Vote(i, look) ==
    CASE look.item[i] = "worn" -> "correct"
      [] look.item[i] = "misplaced" -> "incorrect"
      [] look.item[i] = "unseen" -> "absent"

Push(votes, vote) ==
    LET pushed == Append(votes, vote)
    IN IF Len(pushed) > Window THEN Tail(pushed) ELSE pushed

Observe(s, look) ==
    [i \in Items |-> IF Verifiable(i, look) THEN Push(s.votes[i], Vote(i, look))
                     ELSE s.votes[i]]

Count(votes, vote) == Cardinality({k \in DOMAIN votes : votes[k] = vote})

Reached(votes, vote) ==
    Count(votes, vote) * 100 >= PresentPercent * Len(votes)

Sampled(votes) == Len(votes) >= MinimumSamples

\* evaluated: one item with enough votes is enough.
Evaluated(votes) == \E i \in Items : Sampled(votes[i])

\* The enabled items that are absent or present incorrectly, which are those
\* that ppeStatus names.
Missing(votes) ==
    {i \in Items : Sampled(votes[i]) /\ ~Reached(votes[i], "correct")}

-----------------------------------------------------------------------------
(* update. *)

\* (Fault: only the cooldown decides.)
AlertsAfterCooldown(s, missing, time) ==
    /\ missing # {}
    /\ ~s.alerted \/ time - s.lastAlert >= Cooldown

\* (Fault: the cooldown ends one unit early.)
AlertsEarly(s, missing, time) ==
    /\ missing # {}
    /\ \/ ~s.judged \/ missing # s.missing
       \/ ~s.alerted \/ time - s.lastAlert >= Cooldown - 1

\* A violation is reported when the status has changed, and again after each
\* cooldown.
Alerts(s, missing, time) ==
    /\ missing # {}
    /\ \/ ~s.judged \/ missing # s.missing
       \/ ~s.alerted \/ time - s.lastAlert >= Cooldown

\* update returns an event.
Reports(s, look, time) ==
    LET votes == Observe(s, look)
    IN Evaluated(votes) /\ Alerts(s, Missing(votes), time)

Update(s, look, time) ==
    LET votes == Observe(s, look)
        reports == Reports(s, look, time)
    IN [votes |-> votes,
        judged |-> s.judged \/ Evaluated(votes),
        missing |-> IF Evaluated(votes) THEN Missing(votes) ELSE s.missing,
        lastSeen |-> time,
        alerted |-> s.alerted \/ reports,
        lastAlert |-> IF reports THEN time ELSE s.lastAlert]

-----------------------------------------------------------------------------
(* A frame. *)

\* prune: the track has not been seen for longer than track_ttl.
Forget(s, time) == time - s.lastSeen > Ttl

\* What update leaves in the map for the people in seen, at this time.
Updated(seen, time) ==
    [t \in Known \cup DOMAIN seen |->
        IF t \in DOMAIN seen THEN Update(StateOf(t), seen[t], time)
        ELSE states[t]]

\* The last n elements of a sequence.
LastOf(s, n) == SubSeq(s, IF Len(s) > n THEN Len(s) - n + 1 ELSE 1, Len(s))

\* The history of a frame.
Record(seen, time, kept) ==
    /\ shown' = [t \in Tracks |-> [i \in Items |->
           IF t \notin kept THEN <<>>
           ELSE IF t \in DOMAIN seen /\ (i \in FaceItems => seen[t].face)
           THEN LastOf(Append(shown[t][i], Vote(i, seen[t])), Window)
           ELSE shown[t][i]]]
    /\ alarm' = [t \in Tracks |-> IF t \notin kept THEN 0
                                  ELSE IF t \in events' THEN time
                                  ELSE alarm[t]]
    /\ blamed' = [t \in Tracks |-> IF t \notin kept THEN {}
                                   ELSE IF t \in events' THEN states'[t].missing
                                   ELSE blamed[t]]

\* process: update for the people of the frame, then prune.
Frame(seen, time) ==
    LET updated == Updated(seen, time)
        kept == {t \in DOMAIN updated : ~Forget(updated[t], time)}
    IN /\ states' = [t \in kept |-> updated[t]]
       /\ now' = time
       /\ events' = {t \in DOMAIN seen : Reports(StateOf(t), seen[t], time)}
       /\ frames' = frames + 1
       /\ Record(seen, time, kept)

ProcessFrame ==
    /\ frames < FrameBound
    /\ \E people \in SUBSET Tracks : \E seen \in [people -> Looks], d \in Steps :
          Frame(seen, now + d)

\* reset.
Reset ==
    /\ states # NoStates
    /\ states' = NoStates
    /\ events' = {}
    /\ shown' = [t \in Tracks |-> [i \in Items |-> <<>>]]
    /\ alarm' = [t \in Tracks |-> 0]
    /\ blamed' = [t \in Tracks |-> {}]
    /\ UNCHANGED <<now, frames>>

\* The source has no more frames.
Finished == frames = FrameBound /\ UNCHANGED vars

Next == ProcessFrame \/ Reset \/ Finished

Spec == Init /\ [][Next]_vars

-----------------------------------------------------------------------------
(* Safety. *)

State == [votes : [Items -> Seq(Votes)], judged : BOOLEAN,
          missing : SUBSET Items, lastSeen : Nat, alerted : BOOLEAN,
          lastAlert : Nat]

\* Type invariant; no window is longer than it may be.
TypeOK ==
    /\ Known \subseteq Tracks
    /\ \A t \in Known :
          /\ states[t] \in State
          /\ states[t].lastSeen <= now
          /\ \A i \in Items : Len(states[t].votes[i]) <= Window
    /\ now \in Nat
    /\ events \subseteq Known
    /\ frames \in Nat
    /\ shown \in [Tracks -> [Items -> Seq(Votes)]]
    /\ alarm \in [Tracks -> Nat]
    /\ blamed \in [Tracks -> SUBSET Items]

\* An alert names an item only when the frames that really showed it say so:
\* there are MinimumSamples of them in the window, and those in which it was
\* worn do not reach the ratio.  Frames of an earlier person with the same
\* track id, or of a face turned away, do not count.
BlameIsShown ==
    \A t \in events : \A i \in blamed[t] :
        /\ Len(shown[t][i]) >= MinimumSamples
        /\ Count(shown[t][i], "correct") * 100
              < PresentPercent * Len(shown[t][i])

\* A person who is judged to lack items has been reported for exactly these
\* items, and less than the cooldown before the last frame that shows the
\* person (or in it): neither a change of what is missing, nor the cooldown
\* of an earlier alert, keeps a violation silent.
ViolationIsReported ==
    \A t \in Known :
        states[t].judged /\ states[t].missing # {} =>
            /\ blamed[t] = states[t].missing
            /\ \/ states[t].lastSeen = alarm[t]
               \/ states[t].lastSeen - alarm[t] < Cooldown

\* A violation that lasts is not reported again before the cooldown: two
\* alerts of a remembered track that are closer name different items, or the
\* judgement was another one in between.
RepeatsAreSpaced ==
    [][\A t \in events' \cap Known :
          frames' > frames /\ states[t].judged /\ states[t].alerted
          /\ states[t].missing = states'[t].missing
              => now' - alarm[t] >= Cooldown]_vars
=============================================================================
