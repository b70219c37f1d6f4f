-------------------------- MODULE FallAnalyzerProofs --------------------------
(***************************************************************************)
(* Theorems about the fall analyzer, for any tracks and poses, and any     *)
(* number of frames, cooldown and time to live that FallAssumption allows. *)
(***************************************************************************)
EXTENDS FallAnalyzer, TLAPS

-----------------------------------------------------------------------------
(* The invariant: what the State of a track says of its history.  A track  *)
(* that is not remembered has a fresh State and no history.                *)

\* The upright frames are the ones in a row, and enough of them are the end
\* of a fall.
StandingInv(t) ==
    /\ StateOf(t).upright = standing[t]
    /\ standing[t] >= ResetFrames => t \in risen

\* The alert the State remembers is the last one.
AlarmInv(t) ==
    /\ StateOf(t).alerted <=> t \in unbroken
    /\ StateOf(t).alerted => StateOf(t).lastAlert = alarm[t]
    /\ StateOf(t).active <=> t \in unbroken /\ t \notin risen

\* Decay only takes candidates away.
EvidenceInv(t) == StateOf(t).candidates <= evidence[t]

FallInv == \A t \in Tracks : StandingInv(t) /\ AlarmInv(t) /\ EvidenceInv(t)

-----------------------------------------------------------------------------
(* update. *)

(* A remembered track, or a fresh one, has a State. *)
LEMMA StateOfType ==
    ASSUME TypeOK, NEW t \in Tracks
    PROVE  StateOf(t) \in State
<1>1. NewState \in State
  BY DEF NewState, State
<1> QED
  BY <1>1 DEF TypeOK, StateOf

(* The counters stay natural numbers, and candidates grow by one at most. *)
LEMMA CountersType ==
    ASSUME NEW s \in State, NEW pose \in Poses, NEW candidate \in BOOLEAN
    PROVE  /\ Candidates(s, candidate) \in Nat
           /\ Candidates(s, candidate) <= s.candidates + (IF candidate THEN 1 ELSE 0)
           /\ Upright(s, pose, candidate) \in Nat
<1>1. s.candidates \in Nat /\ s.upright \in Nat
  BY DEF State
<1> QED
  BY <1>1 DEF Candidates, Upright

(* Counting a pose leaves a State. *)
LEMMA ObserveType ==
    ASSUME NEW s \in State, NEW pose \in Poses, NEW time \in Nat
    PROVE  Observe(s, pose, time) \in State
<1>1. Candidate(s, pose, time) \in BOOLEAN
  BY FallAssumption DEF Candidate
<1>2. /\ Candidates(s, Candidate(s, pose, time)) \in Nat
      /\ Upright(s, pose, Candidate(s, pose, time)) \in Nat
  BY <1>1, CountersType
<1>3. DescentUntil(s, pose, time) \in Nat
  BY FallAssumption DEF DescentUntil, State
<1>4. s.active \in BOOLEAN /\ s.alerted \in BOOLEAN /\ s.lastAlert \in Nat
  BY DEF State
<1> QED
  BY <1>2, <1>3, <1>4 DEF Observe, State

(* Confirming a fall changes the alert and nothing that was counted. *)
LEMMA ConfirmType ==
    ASSUME NEW s \in State, NEW time \in Nat
    PROVE  /\ Confirm(s, time) \in State
           /\ Confirm(s, time).candidates = s.candidates
           /\ Confirm(s, time).upright = s.upright
           /\ Confirm(s, time).lastSeen = s.lastSeen
           /\ Confirm(s, time).active <=> s.active \/ Confirms(s, time)
           /\ Confirm(s, time).alerted <=> s.alerted \/ Confirms(s, time)
           /\ Confirm(s, time).lastAlert = IF Confirms(s, time) THEN time ELSE s.lastAlert
  BY DEF Confirm, State

(* A recovery clears the candidates and ends the fall. *)
LEMMA RecoverType ==
    ASSUME NEW s \in State
    PROVE  /\ Recover(s) \in State
           /\ Recover(s).candidates = IF Recovers(s) THEN 0 ELSE s.candidates
           /\ Recover(s).upright = s.upright
           /\ Recover(s).lastSeen = s.lastSeen
           /\ Recover(s).active <=> s.active /\ ~(s.upright >= ResetFrames)
           /\ Recover(s).alerted <=> s.alerted
           /\ Recover(s).lastAlert = s.lastAlert
  BY DEF Recover, Recovers, State

(* What one observation makes of a State. *)
LEMMA UpdateFields ==
    ASSUME NEW s \in State, NEW pose \in Poses, NEW time \in Nat
    PROVE  LET observed == Observe(s, pose, time)
               updated == Update(s, pose, time)
               upright == Upright(s, pose, Candidate(s, pose, time))
               candidates == Candidates(s, Candidate(s, pose, time))
           IN /\ updated \in State
              /\ updated.lastSeen = time
              /\ updated.upright = upright
              /\ updated.alerted <=> s.alerted \/ Confirms(observed, time)
              /\ updated.lastAlert = IF Confirms(observed, time) THEN time ELSE s.lastAlert
              /\ updated.active <=> (s.active \/ Confirms(observed, time)) /\ ~(upright >= ResetFrames)
              /\ updated.candidates = IF Recovers(Confirm(observed, time)) THEN 0 ELSE candidates
              /\ observed.candidates = candidates
              /\ ~observed.active <=> ~s.active
              /\ observed.alerted <=> s.alerted
              /\ observed.lastAlert = s.lastAlert
<1> DEFINE observed == Observe(s, pose, time)
<1>1. /\ observed \in State
      /\ observed.candidates = Candidates(s, Candidate(s, pose, time))
      /\ observed.upright = Upright(s, pose, Candidate(s, pose, time))
      /\ observed.active = s.active /\ observed.alerted = s.alerted
      /\ observed.lastAlert = s.lastAlert /\ observed.lastSeen = time
  BY ObserveType DEF Observe
<1> DEFINE raised == Confirm(observed, time)
<1>2. Update(s, pose, time) = Recover(raised)
  BY DEF Update
<1> HIDE DEF observed
<1>3. /\ raised \in State
      /\ raised.candidates = observed.candidates
      /\ raised.upright = observed.upright
      /\ raised.lastSeen = time
      /\ raised.active <=> observed.active \/ Confirms(observed, time)
      /\ raised.alerted <=> observed.alerted \/ Confirms(observed, time)
      /\ raised.lastAlert = IF Confirms(observed, time) THEN time ELSE observed.lastAlert
  BY <1>1, ConfirmType
<1> HIDE DEF raised
<1>4. /\ Recover(raised) \in State
      /\ Recover(raised).candidates = IF Recovers(raised) THEN 0 ELSE raised.candidates
      /\ Recover(raised).upright = raised.upright
      /\ Recover(raised).lastSeen = raised.lastSeen
      /\ Recover(raised).active <=> raised.active /\ ~(raised.upright >= ResetFrames)
      /\ Recover(raised).alerted <=> raised.alerted
      /\ Recover(raised).lastAlert = raised.lastAlert
  BY <1>3, RecoverType
<1>5. Recovers(Confirm(observed, time)) <=> Recovers(raised)
  BY DEF raised
<1> QED
  BY <1>1, <1>2, <1>3, <1>4, <1>5 DEF observed

-----------------------------------------------------------------------------
(* A frame. *)

(* A frame changes the State of a track in one of three ways: it is updated *)
(* when the track is seen, left as it is when not, and fresh when pruned.   *)
LEMMA FrameStates ==
    ASSUME TypeOK,
           NEW people \in SUBSET Tracks, NEW seen \in [people -> Poses],
           NEW time \in Nat, Frame(seen, time)
    PROVE  /\ DOMAIN states' \subseteq Tracks
           /\ \A t \in DOMAIN states' :
                 states'[t] = IF t \in people THEN Update(StateOf(t), seen[t], time)
                              ELSE StateOf(t)
           /\ \A t \in DOMAIN states' : t \in people \cup Known
           /\ \A t \in Tracks :
                 StateOf(t)' = IF t \notin DOMAIN states' THEN NewState
                               ELSE IF t \in people THEN Update(StateOf(t), seen[t], time)
                               ELSE StateOf(t)
<1> DEFINE updated == Updated(seen, time)
           kept == {t \in DOMAIN updated : ~Forget(updated[t], time)}
<1>1. states' = [t \in kept |-> updated[t]]
  BY DEF Frame
<1>2. DOMAIN updated = Known \cup people /\ DOMAIN seen = people
  BY DEF Updated
<1>3. \A t \in DOMAIN updated :
         updated[t] = IF t \in people THEN Update(StateOf(t), seen[t], time) ELSE states[t]
  BY <1>2 DEF Updated
<1>4. \A t \in Known : StateOf(t) = states[t]
  BY DEF StateOf
<1>5. kept \subseteq Known \cup people
  BY <1>2
<1> HIDE DEF updated, kept
<1>6. DOMAIN states' = kept /\ \A t \in kept : states'[t] = updated[t]
  BY <1>1
<1>7. Known \subseteq Tracks
  BY DEF TypeOK
<1>8. kept \subseteq DOMAIN updated
  BY <1>2, <1>5
<1>9. \A t \in kept : states'[t] = IF t \in people THEN Update(StateOf(t), seen[t], time)
                                   ELSE StateOf(t)
  BY <1>2, <1>3, <1>4, <1>6, <1>8
<1>10. \A t \in Tracks : StateOf(t)' = IF t \in DOMAIN states' THEN states'[t] ELSE NewState
  BY DEF StateOf, Known, NewState
<1> QED
  BY <1>5, <1>6, <1>7, <1>9, <1>10
(* What a frame adds to the history of a track that is kept, and that it     *)
(* clears it for every other.                                               *)
LEMMA FrameHistory ==
    ASSUME TypeOK,
           NEW people \in SUBSET Tracks, NEW seen \in [people -> Poses],
           NEW time \in Nat, Frame(seen, time), NEW t \in Tracks
    PROVE  LET candidate == t \in people /\ Candidate(StateOf(t), seen[t], time)
               stood == IF t \in people
                        THEN IF ~candidate /\ seen[t].vertical THEN standing[t] + 1 ELSE 0
                        ELSE standing[t]
               recovered == /\ t \in people
                            /\ Recovers(Confirm(Observe(StateOf(t), seen[t], time), time))
               kept == t \in DOMAIN states'
           IN /\ alarm'[t] = IF t \in confirmed' THEN time ELSE alarm[t]
              /\ t \in unbroken' <=> (t \in unbroken \/ t \in confirmed') /\ kept
              /\ evidence'[t] = IF ~kept \/ recovered THEN 0
                               ELSE IF candidate THEN evidence[t] + 1 ELSE evidence[t]
              /\ standing'[t] = IF kept THEN stood ELSE 0
              /\ t \in risen' <=> kept /\ (stood >= ResetFrames \/ (t \in risen /\ t \notin confirmed'))
<1> DEFINE updated == Updated(seen, time)
           kept == {u \in DOMAIN updated : ~Forget(updated[u], time)}
<1>1. DOMAIN states' = kept
  BY DEF Frame
<1>2. DOMAIN seen = people
  OBVIOUS
<1>3. Record(seen, time, kept)
  BY DEF Frame
<1>4. kept \subseteq Tracks
  BY <1>1, FrameStates
<1> HIDE DEF kept
<1> QED
  BY <1>1, <1>2, <1>3, <1>4 DEF Record

(* A track with a new alert was seen in this frame. *)
LEMMA FrameConfirms ==
    ASSUME NEW people \in SUBSET Tracks, NEW seen \in [people -> Poses],
           NEW time \in Nat, Frame(seen, time)
    PROVE  /\ confirmed' \subseteq people
           /\ \A t \in people :
                 t \in confirmed' <=> Confirms(Observe(StateOf(t), seen[t], time), time)
  BY DEF Frame

-----------------------------------------------------------------------------
(* The invariant is inductive. *)

(* A frame keeps every State and the history of the right type. *)
LEMMA FrameKeepsType ==
    ASSUME TypeOK,
           NEW people \in SUBSET Tracks, NEW seen \in [people -> Poses],
           NEW time \in Nat, time >= now, Frame(seen, time)
    PROVE  TypeOK'
<1>1. /\ now' = time /\ frames' \in Nat /\ confirmed' \subseteq Tracks
  <2>1. now' = time /\ frames' = frames + 1 /\ frames \in Nat
    BY DEF Frame, TypeOK
  <2> QED
    BY <2>1, FrameConfirms
<1>2. ASSUME NEW t \in DOMAIN states'
      PROVE  states'[t] \in State /\ states'[t].lastSeen <= time
  <2>1. t \in Tracks /\ t \in people \cup Known
    BY FrameStates
  <2>2. StateOf(t) \in State
    BY <2>1, StateOfType
  <2>3. CASE t \in people
    <3>1. states'[t] = Update(StateOf(t), seen[t], time)
      BY <2>3, FrameStates
    <3> QED
      BY <2>2, <2>3, <3>1, UpdateFields
  <2>4. CASE t \notin people
    <3>1. states'[t] = states[t] /\ t \in Known
      BY <2>1, <2>4, FrameStates DEF StateOf
    <3>2. states[t] \in State /\ states[t].lastSeen <= now /\ now \in Nat
      BY <3>1 DEF TypeOK
    <3> QED
      BY <3>1, <3>2 DEF State
  <2> QED
    BY <2>3, <2>4
<1>3. DOMAIN states' \subseteq Tracks
  BY FrameStates
<1>4. /\ alarm' \in [Tracks -> Nat] /\ unbroken' \subseteq Tracks
      /\ evidence' \in [Tracks -> Nat] /\ standing' \in [Tracks -> Nat]
      /\ risen' \subseteq Tracks
  <2> DEFINE updated == Updated(seen, time)
             kept == {u \in DOMAIN updated : ~Forget(updated[u], time)}
  <2>1. DOMAIN states' = kept
    BY DEF Frame
  <2>2. Record(seen, time, kept)
    BY DEF Frame
  <2>3. kept \subseteq Tracks
    BY <1>3, <2>1
  <2>4. /\ alarm \in [Tracks -> Nat] /\ evidence \in [Tracks -> Nat]
        /\ standing \in [Tracks -> Nat]
    BY DEF TypeOK
  <2> HIDE DEF kept
  <2> QED
    BY <1>1, <2>2, <2>3, <2>4 DEF Record
<1> QED
  BY <1>1, <1>2, <1>3, <1>4 DEF TypeOK, Known

(* One track through one frame. *)
LEMMA FrameKeepsTrack ==
    ASSUME TypeOK, FallInv,
           NEW people \in SUBSET Tracks, NEW seen \in [people -> Poses],
           NEW time \in Nat, Frame(seen, time), NEW t \in Tracks
    PROVE  /\ StandingInv(t)' /\ AlarmInv(t)' /\ EvidenceInv(t)'
<1> DEFINE s == StateOf(t)
           candidate == Candidate(s, seen[t], time)
           confirms == Confirms(Observe(s, seen[t], time), time)
<1>1. s \in State
  BY StateOfType
<1>2. /\ s.upright = standing[t]
      /\ standing[t] >= ResetFrames => t \in risen
      /\ s.alerted <=> t \in unbroken
      /\ s.alerted => s.lastAlert = alarm[t]
      /\ s.active <=> t \in unbroken /\ t \notin risen
      /\ s.candidates <= evidence[t]
  BY DEF FallInv, StandingInv, AlarmInv, EvidenceInv
<1>3. /\ s.candidates \in Nat /\ evidence[t] \in Nat /\ standing[t] \in Nat
      /\ ResetFrames \in Nat \ {0}
  BY <1>1, FallAssumption DEF State, TypeOK
<1>4. CASE t \notin DOMAIN states'
  <2>1. StateOf(t)' = NewState
    BY <1>4, FrameStates
  <2>2. /\ t \notin unbroken' /\ evidence'[t] = 0 /\ standing'[t] = 0 /\ t \notin risen'
    BY <1>4, FrameHistory
  <2>3. /\ NewState.upright = 0 /\ NewState.candidates = 0
        /\ NewState.active = FALSE /\ NewState.alerted = FALSE
    BY DEF NewState
  <2> QED
    BY <1>3, <2>1, <2>2, <2>3 DEF StandingInv, AlarmInv, EvidenceInv
<1>5. CASE t \in DOMAIN states' /\ t \notin people
  <2>1. StateOf(t)' = s
    BY <1>5, FrameStates
  <2>2. t \notin confirmed'
    BY <1>5, FrameConfirms
  <2>3. /\ alarm'[t] = alarm[t] /\ (t \in unbroken' <=> t \in unbroken)
        /\ evidence'[t] = evidence[t] /\ standing'[t] = standing[t]
        /\ t \in risen' <=> standing[t] >= ResetFrames \/ t \in risen
    BY <1>5, <2>2, FrameHistory
  <2> HIDE DEF s
  <2> QED
    BY <1>2, <2>1, <2>3 DEF StandingInv, AlarmInv, EvidenceInv
<1>6. CASE t \in DOMAIN states' /\ t \in people
  <2> DEFINE u == Update(s, seen[t], time)
             upright == Upright(s, seen[t], candidate)
             counted == Candidates(s, candidate)
             recovers == Recovers(Confirm(Observe(s, seen[t], time), time))
  <2>1. StateOf(t)' = u
    BY <1>6, FrameStates
  <2>2. seen[t] \in Poses
    BY <1>6
  <2>3. candidate \in BOOLEAN
    BY <2>2, FallAssumption DEF Candidate
  <2>4. t \in confirmed' <=> confirms
    BY <1>6, FrameConfirms
  <2>5. /\ u.upright = upright
        /\ u.alerted <=> s.alerted \/ confirms
        /\ u.lastAlert = IF confirms THEN time ELSE s.lastAlert
        /\ u.active <=> (s.active \/ confirms) /\ ~(upright >= ResetFrames)
        /\ u.candidates = IF recovers THEN 0 ELSE counted
    BY <1>1, <2>2, UpdateFields
  <2>6. upright = IF ~candidate /\ seen[t].vertical THEN standing[t] + 1 ELSE 0
    BY <1>2 DEF Upright
  <2>7. /\ alarm'[t] = IF confirms THEN time ELSE alarm[t]
        /\ t \in unbroken' <=> t \in unbroken \/ confirms
        /\ evidence'[t] = IF recovers THEN 0
                         ELSE IF candidate THEN evidence[t] + 1 ELSE evidence[t]
        /\ standing'[t] = upright
        /\ t \in risen' <=> upright >= ResetFrames \/ (t \in risen /\ ~confirms)
    BY <1>6, <2>4, <2>6, FrameHistory
  <2>8. counted \in Nat /\ counted <= s.candidates + (IF candidate THEN 1 ELSE 0)
    BY <1>1, <2>2, <2>3, CountersType
  <2> HIDE DEF s, candidate, confirms, u, upright, counted, recovers
  <2>9. u.candidates <= evidence'[t]
    BY <1>2, <1>3, <2>3, <2>5, <2>7, <2>8
  <2>10. /\ u.upright = standing'[t]
         /\ standing'[t] >= ResetFrames => t \in risen'
    BY <2>5, <2>7
  <2>11. /\ u.alerted <=> t \in unbroken'
         /\ u.alerted => u.lastAlert = alarm'[t]
         /\ u.active <=> t \in unbroken' /\ t \notin risen'
    BY <1>2, <2>5, <2>7
  <2> QED
    BY <2>1, <2>9, <2>10, <2>11 DEF StandingInv, AlarmInv, EvidenceInv
<1> QED
  BY <1>4, <1>5, <1>6

(* The analyzer begins with no track and no history. *)
LEMMA InitHolds == Init => TypeOK /\ FallInv
<1> SUFFICES ASSUME Init PROVE TypeOK /\ FallInv
  OBVIOUS
<1>1. Known = {} /\ \A t \in Tracks : StateOf(t) = NewState
  BY DEF Init, Known, StateOf
<1>2. /\ NewState.upright = 0 /\ NewState.candidates = 0
      /\ NewState.active = FALSE /\ NewState.alerted = FALSE
  BY DEF NewState
<1>3. ResetFrames \in Nat \ {0}
  BY FallAssumption
<1>4. TypeOK
  BY <1>1 DEF Init, TypeOK
<1> QED
  BY <1>1, <1>2, <1>3, <1>4 DEF Init, FallInv, StandingInv, AlarmInv, EvidenceInv

(* reset forgets every track together with its history. *)
LEMMA ResetHolds == TypeOK /\ Reset => TypeOK' /\ FallInv'
<1> SUFFICES ASSUME TypeOK, Reset PROVE TypeOK' /\ FallInv'
  OBVIOUS
<1>1. Known' = {} /\ \A t \in Tracks : StateOf(t)' = NewState
  BY DEF Reset, Known, StateOf, NewState
<1>2. /\ NewState.upright = 0 /\ NewState.candidates = 0
      /\ NewState.active = FALSE /\ NewState.alerted = FALSE
  BY DEF NewState
<1>3. ResetFrames \in Nat \ {0}
  BY FallAssumption
<1>4. TypeOK'
  BY <1>1 DEF Reset, TypeOK
<1> QED
  BY <1>1, <1>2, <1>3, <1>4 DEF Reset, FallInv, StandingInv, AlarmInv, EvidenceInv

(* The steps of the specification, as frames. *)
LEMMA NextIsFrame ==
    ASSUME TypeOK, ProcessFrame
    PROVE  \E people \in SUBSET Tracks : \E seen \in [people -> Poses], time \in Nat :
              time >= now /\ Frame(seen, time)
<1>1. PICK people \in SUBSET Tracks : \E seen \in [people -> Poses], d \in Steps :
         Frame(seen, now + d)
  BY DEF ProcessFrame
<1>2. PICK seen \in [people -> Poses], d \in Steps : Frame(seen, now + d)
  BY <1>1
<1>3. now + d \in Nat /\ now + d >= now
  BY FallAssumption DEF TypeOK
<1> QED
  BY <1>2, <1>3

(* The invariant is inductive. *)
LEMMA NextHolds == TypeOK /\ FallInv /\ [Next]_vars => TypeOK' /\ FallInv'
<1> SUFFICES ASSUME TypeOK, FallInv, [Next]_vars PROVE TypeOK' /\ FallInv'
  OBVIOUS
<1>1. CASE ProcessFrame
  <2>1. PICK people \in SUBSET Tracks : \E seen \in [people -> Poses], time \in Nat :
           time >= now /\ Frame(seen, time)
    BY <1>1, NextIsFrame
  <2>2. PICK seen \in [people -> Poses], time \in Nat : time >= now /\ Frame(seen, time)
    BY <2>1
  <2>3. TypeOK'
    BY <2>2, FrameKeepsType
  <2>4. \A t \in Tracks : StandingInv(t)' /\ AlarmInv(t)' /\ EvidenceInv(t)'
    BY <2>2, FrameKeepsTrack
  <2> QED
    BY <2>3, <2>4 DEF FallInv
<1>2. CASE Reset
  BY <1>2, ResetHolds
<1>3. CASE UNCHANGED vars
  <2>1. UNCHANGED states
    BY <1>3 DEF vars
  <2>2. \A t : StateOf(t)' = StateOf(t)
    BY <2>1 DEF StateOf, Known, NewState
  <2>3. TypeOK'
    BY <1>3 DEF vars, history, TypeOK, Known
  <2> QED
    BY <1>3, <2>2, <2>3 DEF vars, history, FallInv, StandingInv, AlarmInv, EvidenceInv
<1> QED
  BY <1>1, <1>2, <1>3 DEF Next, Finished

-----------------------------------------------------------------------------
(* Theorems. *)

(* The states, the time and the history keep their types, for any poses and *)
(* thresholds, and no track was last seen later than now.                   *)
THEOREM FallTypeCorrect == Spec => []TypeOK
<1>1. Spec => [](TypeOK /\ FallInv)
  BY InitHolds, NextHolds, PTL DEF Spec
<1> QED
  BY <1>1, PTL

(* The inductive invariant: upright frames in a row, the alert and the      *)
(* candidates of every State are what its history says.                     *)
THEOREM FallCorrect == Spec => [](TypeOK /\ FallInv)
  BY InitHolds, NextHolds, PTL DEF Spec

(* Every alert rests on ConfirmFrames candidate frames of its own fall.     *)
THEOREM AlertsAreFounded == Spec => AlertNeedsEvidence
<1> DEFINE Founded == \A t \in confirmed' :
                         frames' > frames => evidence[t] + 1 >= ConfirmFrames
<1>1. TypeOK /\ FallInv /\ [Next]_vars => [Founded]_vars
  <2> SUFFICES ASSUME TypeOK, FallInv, Next, NEW t \in confirmed', frames' > frames
               PROVE  evidence[t] + 1 >= ConfirmFrames
    BY DEF Founded
  <2>1. frames \in Nat
    BY DEF TypeOK
  <2>2. ProcessFrame
    BY <2>1 DEF Next, Reset, Finished, vars
  <2>3. PICK people \in SUBSET Tracks : \E seen \in [people -> Poses], time \in Nat :
           time >= now /\ Frame(seen, time)
    BY <2>2, NextIsFrame
  <2>4. PICK seen \in [people -> Poses], time \in Nat : time >= now /\ Frame(seen, time)
    BY <2>3
  <2>5. t \in people /\ t \in Tracks /\ Confirms(Observe(StateOf(t), seen[t], time), time)
    BY <2>4, FrameConfirms
  <2>6. StateOf(t) \in State /\ seen[t] \in Poses
    BY <2>5, StateOfType
  <2> DEFINE candidate == Candidate(StateOf(t), seen[t], time)
             counted == Candidates(StateOf(t), candidate)
  <2>7. candidate \in BOOLEAN
    BY <2>6, FallAssumption DEF Candidate
  <2>8. counted \in Nat /\ counted <= StateOf(t).candidates + (IF candidate THEN 1 ELSE 0)
    BY <2>6, <2>7, CountersType
  <2>9. counted >= ConfirmFrames
    BY <2>5 DEF Confirms, Observe
  <2>10. StateOf(t).candidates <= evidence[t] /\ evidence[t] \in Nat /\ StateOf(t).candidates \in Nat
    BY <2>5, <2>6 DEF FallInv, EvidenceInv, TypeOK, State
  <2> HIDE DEF candidate, counted
  <2> QED
    BY <2>7, <2>8, <2>9, <2>10, FallAssumption
<1> QED
  BY <1>1, FallCorrect, PTL DEF Spec, AlertNeedsEvidence

(* One alert per fall: a fall is active from its alert until the person has *)
(* risen, and a second alert of a track that was not forgotten follows a    *)
(* recovery and waits for the cooldown.                                     *)
THEOREM FallsAlertOnce == Spec => OneAlertPerFall
<1> DEFINE Spaced == \A t \in confirmed' :
                        t \in unbroken /\ frames' > frames =>
                            t \in risen /\ now' - alarm[t] >= Cooldown
<1>1. TypeOK /\ FallInv => ActiveUntilRisen
  <2> SUFFICES ASSUME TypeOK, FallInv, NEW t \in Known
               PROVE  states[t].active <=> t \in unbroken \ risen
    BY DEF ActiveUntilRisen
  <2>1. t \in Tracks /\ StateOf(t) = states[t]
    BY DEF TypeOK, StateOf
  <2> QED
    BY <2>1 DEF FallInv, AlarmInv
<1>2. TypeOK /\ FallInv /\ [Next]_vars => [Spaced]_vars
  <2> SUFFICES ASSUME TypeOK, FallInv, Next, NEW t \in confirmed', t \in unbroken,
                      frames' > frames
               PROVE  t \in risen /\ now' - alarm[t] >= Cooldown
    BY DEF Spaced
  <2>1. frames \in Nat
    BY DEF TypeOK
  <2>2. ProcessFrame
    BY <2>1 DEF Next, Reset, Finished, vars
  <2>3. PICK people \in SUBSET Tracks : \E seen \in [people -> Poses], time \in Nat :
           time >= now /\ Frame(seen, time)
    BY <2>2, NextIsFrame
  <2>4. PICK seen \in [people -> Poses], time \in Nat : time >= now /\ Frame(seen, time)
    BY <2>3
  <2>5. t \in people /\ t \in Tracks /\ Confirms(Observe(StateOf(t), seen[t], time), time)
    BY <2>4, FrameConfirms
  <2>6. now' = time
    BY <2>4 DEF Frame
  <2>7. /\ StateOf(t).alerted
        /\ StateOf(t).lastAlert = alarm[t]
        /\ StateOf(t).active <=> t \notin risen
    BY <2>5 DEF FallInv, AlarmInv
  <2>8. /\ ~StateOf(t).active
        /\ ~StateOf(t).alerted \/ time - StateOf(t).lastAlert >= Cooldown
    BY <2>5 DEF Confirms, Observe
  <2> QED
    BY <2>6, <2>7, <2>8
<1> QED
  BY <1>1, <1>2, FallCorrect, PTL DEF Spec, OneAlertPerFall
=============================================================================
