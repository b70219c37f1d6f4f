--------------------------- MODULE AnalyticsProofs ---------------------------
(***************************************************************************)
(* Theorems about the PPE analyzer, for any tracks, items and looks, and   *)
(* any window, ratio, cooldown and time to live that PpeAssumption allows; *)
(* and about what a frame's tensors become, for any answers of the models  *)
(* and of BYTETrack, any letterbox and any limits that FrameAssumption     *)
(* allows.                                                                 *)
(***************************************************************************)
EXTENDS PpeAnalyzer, FrameAnalytics, FiniteSetTheorems, TLAPS

-----------------------------------------------------------------------------
(* The invariant. *)

\* The window of a track is what its frames showed; a track that is not
\* remembered has none.
WindowInv ==
    \A t \in Tracks : \A i \in Items : shown[t][i] = StateOf(t).votes[i]

\* Who was judged once is judged in every frame; a remembered violation was
\* reported, in time and by these items.
ReportInv ==
    \A t \in Known :
        /\ states[t].judged => Evaluated(states[t].votes)
        /\ states[t].alerted => states[t].lastAlert = alarm[t]
        /\ states[t].judged /\ states[t].missing # {} =>
              /\ states[t].alerted
              /\ blamed[t] = states[t].missing
              /\ \/ states[t].lastSeen = states[t].lastAlert
                 \/ states[t].lastSeen - states[t].lastAlert < Cooldown

\* An event of the last frame names what the window then says.
EventInv == \A t \in events : blamed[t] = Missing(states[t].votes)

PpeInv ==
    /\ WindowInv
    /\ ReportInv
    /\ EventInv

-----------------------------------------------------------------------------
(* The window. *)

(* Pushing a vote keeps the last Window votes.                              *)
LEMMA PushKeepsLast ==
    ASSUME NEW votes \in Seq(Votes), Len(votes) <= Window, NEW vote \in Votes
    PROVE  /\ Push(votes, vote) = LastOf(Append(votes, vote), Window)
           /\ Push(votes, vote) \in Seq(Votes)
           /\ Len(Push(votes, vote)) <= Window
<1> DEFINE pushed == Append(votes, vote)
<1>1. /\ pushed \in Seq(Votes) /\ Len(pushed) = Len(votes) + 1
      /\ Len(votes) \in Nat /\ Window \in Nat
  BY PpeAssumption
<1>2. CASE Len(pushed) > Window
  <2>1. Len(pushed) - Window + 1 = 2 /\ Len(pushed) >= 1
    BY <1>1, <1>2
  <2>2. LastOf(pushed, Window) = SubSeq(pushed, 2, Len(pushed))
    BY <1>2, <2>1 DEF LastOf
  <2>3. Tail(pushed) = SubSeq(pushed, 2, Len(pushed))
    BY <1>1, <2>1
  <2>4. Tail(pushed) \in Seq(Votes) /\ Len(Tail(pushed)) = Len(pushed) - 1
    BY <1>1, <2>1
  <2>5. Push(votes, vote) = Tail(pushed)
    BY <1>2 DEF Push
  <2>6. Push(votes, vote) = LastOf(pushed, Window)
    BY <2>2, <2>3, <2>5
  <2>7. Len(Tail(pushed)) <= Window
    BY <1>1, <2>4
  <2>8. QED
    BY <2>4, <2>5, <2>6, <2>7
<1>3. CASE ~(Len(pushed) > Window)
  <2>1. LastOf(pushed, Window) = SubSeq(pushed, 1, Len(pushed))
    BY <1>3 DEF LastOf
  <2>2. SubSeq(pushed, 1, Len(pushed)) = pushed
    BY <1>1
  <2>3. Push(votes, vote) = pushed
    BY <1>3 DEF Push
  <2>4. QED
    BY <1>1, <1>3, <2>1, <2>2, <2>3
<1>4. QED
  BY <1>2, <1>3

(* A look at an item gives a vote.                                          *)
LEMMA VoteType ==
    ASSUME NEW look \in Looks, NEW i \in Items
    PROVE  Vote(i, look) \in Votes
<1>1. look.item[i] \in Sightings
  BY PpeAssumption
<1>2. QED
  BY <1>1 DEF Vote, Votes, Sightings

(* What a frame makes of a State is a State, with a window that is not too  *)
(* long.                                                                    *)
LEMMA UpdateType ==
    ASSUME NEW s \in State, \A i \in Items : Len(s.votes[i]) <= Window,
           NEW look \in Looks, NEW time \in Nat
    PROVE  /\ Update(s, look, time) \in State
           /\ Update(s, look, time).lastSeen = time
           /\ \A i \in Items : Len(Update(s, look, time).votes[i]) <= Window
<1> DEFINE votes == Observe(s, look)
<1>1. s.votes \in [Items -> Seq(Votes)]
  BY DEF State
<1>2. ASSUME NEW i \in Items
      PROVE  votes[i] \in Seq(Votes) /\ Len(votes[i]) <= Window
  BY <1>1, PushKeepsLast, VoteType DEF Observe
<1>3. votes \in [Items -> Seq(Votes)]
  BY <1>2 DEF Observe
<1>4. Missing(votes) \in SUBSET Items
  BY DEF Missing
<1>5. Evaluated(votes) \in BOOLEAN /\ Reports(s, look, time) \in BOOLEAN
  BY DEF Evaluated, Reports
<1> HIDE DEF votes
<1> DEFINE u == Update(s, look, time)
<1>6. /\ s.judged \in BOOLEAN /\ s.missing \in SUBSET Items
      /\ s.alerted \in BOOLEAN /\ s.lastAlert \in Nat
  BY DEF State
<1>7. u = [votes |-> votes,
           judged |-> s.judged \/ Evaluated(votes),
           missing |-> IF Evaluated(votes) THEN Missing(votes) ELSE s.missing,
           lastSeen |-> time,
           alerted |-> s.alerted \/ Reports(s, look, time),
           lastAlert |-> IF Reports(s, look, time) THEN time ELSE s.lastAlert]
  BY DEF Update, votes
<1>8. u \in State
  BY <1>3, <1>4, <1>5, <1>6, <1>7 DEF State
<1>9. QED
  BY <1>2, <1>7, <1>8

(* A State that is remembered, or a new one.                                *)
LEMMA StateOfType ==
    ASSUME TypeOK, NEW t \in Tracks
    PROVE  StateOf(t) \in State /\ \A i \in Items : Len(StateOf(t).votes[i]) <= Window
<1>1. CASE t \in Known
  BY <1>1 DEF TypeOK, StateOf
<1>2. CASE t \notin Known
  <2>1. StateOf(t) = NewState
    BY <1>2 DEF StateOf
  <2>2. [i \in Items |-> <<>>] \in [Items -> Seq(Votes)]
    OBVIOUS
  <2>3. NewState \in State
    BY <2>2 DEF NewState, State
  <2>4. \A i \in Items : Len(NewState.votes[i]) <= Window
    BY PpeAssumption DEF NewState
  <2>5. QED
    BY <2>1, <2>3, <2>4
<1>3. QED
  BY <1>1, <1>2

(* In the map after a frame, each track has a State.                        *)
LEMMA UpdatedType ==
    ASSUME TypeOK, NEW crowd \in SUBSET Tracks, NEW seen \in [crowd -> Looks],
           NEW time \in Nat, now <= time, NEW t \in Known \cup crowd
    PROVE  /\ Updated(seen, time)[t] \in State
           /\ Updated(seen, time)[t].lastSeen <= time
           /\ \A i \in Items : Len(Updated(seen, time)[t].votes[i]) <= Window
<1>1. t \in Tracks /\ DOMAIN seen = crowd
  BY DEF TypeOK
<1>2. CASE t \in crowd
  <2>1. Updated(seen, time)[t] = Update(StateOf(t), seen[t], time)
    BY <1>1, <1>2 DEF Updated
  <2>2. QED
    BY <1>1, <1>2, <2>1, StateOfType, UpdateType
<1>3. CASE t \notin crowd
  <2>1. Updated(seen, time)[t] = states[t] /\ t \in Known
    BY <1>1, <1>3 DEF Updated
  <2>2. states[t] \in State /\ states[t].lastSeen <= now /\ now \in Nat
    BY <2>1 DEF TypeOK
  <2>3. states[t].lastSeen \in Nat
    BY <2>2 DEF State
  <2>4. QED
    BY <2>1, <2>2, <2>3 DEF TypeOK
<1>4. QED
  BY <1>2, <1>3

-----------------------------------------------------------------------------
(* Types. *)

\* A frame of this crowd, after d.
FrameOf(crowd, seen, d) ==
    /\ crowd \in SUBSET Tracks
    /\ seen \in [crowd -> Looks]
    /\ d \in Steps
    /\ Frame(seen, now + d)

(* The tracks a frame keeps, and their States.                              *)
LEMMA FrameStates ==
    ASSUME TypeOK, NEW crowd, NEW seen, NEW d, FrameOf(crowd, seen, d)
    PROVE  /\ now + d \in Nat /\ now <= now + d
           /\ Known' \subseteq Known \cup crowd
           /\ crowd \subseteq Known'
           /\ \A t \in Known' : states'[t] = Updated(seen, now + d)[t]
<1> DEFINE time == now + d
           updated == Updated(seen, time)
           kept == {t \in DOMAIN updated : ~Forget(updated[t], time)}
<1>1. time \in Nat /\ now <= time /\ now \in Nat
  BY PpeAssumption DEF FrameOf, TypeOK
<1>2. DOMAIN updated = Known \cup crowd /\ DOMAIN seen = crowd
  BY DEF FrameOf, Updated
<1>3. states' = [t \in kept |-> updated[t]]
  BY DEF FrameOf, Frame
<1>4. ASSUME NEW t \in crowd
      PROVE  t \in kept
  <2>1. t \in Tracks /\ seen[t] \in Looks
    BY DEF FrameOf
  <2>2. updated[t] = Update(StateOf(t), seen[t], time)
    BY <1>2 DEF Updated
  <2>3. updated[t].lastSeen = time
    BY <1>1, <2>1, <2>2, StateOfType, UpdateType
  <2>4. QED
    BY <1>1, <1>2, <2>3, PpeAssumption DEF Forget
<1>5. Known' = kept
  BY <1>3 DEF Known
<1>6. kept \subseteq DOMAIN updated
  OBVIOUS
<1> HIDE DEF kept
<1>7. \A t \in Known' : states'[t] = updated[t]
  BY <1>3, <1>5
<1>8. QED
  BY <1>1, <1>2, <1>4, <1>5, <1>6, <1>7

(* A frame keeps the types.                                                 *)
LEMMA FrameType ==
    ASSUME TypeOK, NEW crowd, NEW seen, NEW d, FrameOf(crowd, seen, d)
    PROVE  TypeOK'
<1> DEFINE time == now + d
<1>1. /\ time \in Nat /\ now <= time /\ now' = time
      /\ Known' \subseteq Known \cup crowd /\ crowd \subseteq Known'
      /\ \A t \in Known' : states'[t] = Updated(seen, time)[t]
  BY FrameStates DEF FrameOf, Frame
<1>2. Known' \subseteq Tracks
  BY <1>1 DEF TypeOK, FrameOf
<1>3. ASSUME NEW t \in Known'
      PROVE  /\ states'[t] \in State
             /\ states'[t].lastSeen <= now'
             /\ \A i \in Items : Len(states'[t].votes[i]) <= Window
  BY <1>1, <1>3, UpdatedType DEF FrameOf
<1>4. events' \subseteq crowd
  BY DEF FrameOf, Frame
<1>5. frames' \in Nat
  BY DEF FrameOf, Frame, TypeOK
<1>6. shown' \in [Tracks -> [Items -> Seq(Votes)]]
  <2> DEFINE look(t, i) == t \in DOMAIN seen /\ (i \in FaceItems => seen[t].face)
  <2>1. PICK kept : shown' = [t \in Tracks |-> [i \in Items |->
              IF t \notin kept THEN <<>>
              ELSE IF look(t, i)
              THEN LastOf(Append(shown[t][i], Vote(i, seen[t])), Window)
              ELSE shown[t][i]]]
    BY DEF FrameOf, Frame, Record
  <2>2. ASSUME NEW t \in Tracks, NEW i \in Items, t \in DOMAIN seen
        PROVE  LastOf(Append(shown[t][i], Vote(i, seen[t])), Window) \in Seq(Votes)
    <3>1. shown[t][i] \in Seq(Votes) /\ Vote(i, seen[t]) \in Votes
      BY <2>2, VoteType DEF TypeOK, FrameOf
    <3>2. \A a \in Seq(Votes) : LastOf(a, Window) \in Seq(Votes)
      BY PpeAssumption DEF LastOf
    <3>3. \A s \in Seq(Votes), v \in Votes : Append(s, v) \in Seq(Votes)
      OBVIOUS
    <3> HIDE DEF look
    <3>4. Append(shown[t][i], Vote(i, seen[t])) \in Seq(Votes)
      BY <3>1, <3>3
    <3>5. QED
      BY <3>2, <3>4
  <2>3. ASSUME NEW t \in Tracks, NEW i \in Items
        PROVE  shown'[t][i] \in Seq(Votes)
    BY <2>1, <2>2 DEF TypeOK
  <2>4. QED
    BY <2>1, <2>3
<1>7. alarm' \in [Tracks -> Nat]
  BY <1>1 DEF FrameOf, Frame, Record, TypeOK
<1>8. blamed' \in [Tracks -> SUBSET Items]
  <2>1. ASSUME NEW t \in events'
        PROVE  states'[t].missing \in SUBSET Items
    BY <1>1, <1>3, <1>4, <2>1 DEF State
  <2>2. PICK kept : blamed' = [t \in Tracks |-> IF t \notin kept THEN {}
                                   ELSE IF t \in events' THEN states'[t].missing
                                   ELSE blamed[t]]
    BY DEF FrameOf, Frame, Record
  <2>3. QED
    BY <2>1, <2>2 DEF TypeOK
<1>9. QED
  BY <1>1, <1>2, <1>3, <1>4, <1>5, <1>6, <1>7, <1>8 DEF TypeOK

(* In every reachable state the windows, the alerts and the history have    *)
(* their types, and no window is longer than the configured one.            *)
THEOREM PpeTypeCorrect == Spec => []TypeOK
<1>1. Init => TypeOK
  <2>1. [t \in Tracks |-> [i \in Items |-> <<>>]] \in [Tracks -> [Items -> Seq(Votes)]]
    OBVIOUS
  <2>2. QED
    BY <2>1 DEF Init, TypeOK, Known, NoStates
<1>2. TypeOK /\ [Next]_vars => TypeOK'
  <2> SUFFICES ASSUME TypeOK, [Next]_vars PROVE TypeOK'
    OBVIOUS
  <2>1. CASE ProcessFrame
    BY <2>1, FrameType DEF ProcessFrame, FrameOf
  <2>2. CASE Reset
    <3>1. [t \in Tracks |-> [i \in Items |-> <<>>]] \in [Tracks -> [Items -> Seq(Votes)]]
      OBVIOUS
    <3>2. QED
      BY <2>2, <3>1 DEF Reset, TypeOK, Known, NoStates
  <2>3. CASE UNCHANGED vars
    BY <2>3 DEF vars, history, TypeOK, Known
  <2>4. QED
    BY <2>1, <2>2, <2>3 DEF Next, Finished
<1>3. QED
  BY <1>1, <1>2, PTL DEF Spec

-----------------------------------------------------------------------------
(* The invariant is inductive. *)

(* A frame keeps the windows equal to what was shown.                       *)
LEMMA FrameWindow ==
    ASSUME TypeOK, WindowInv, NEW crowd, NEW seen, NEW d,
           FrameOf(crowd, seen, d)
    PROVE  WindowInv'
<1> DEFINE time == now + d
<1>1. /\ time \in Nat /\ DOMAIN seen = crowd
      /\ Known' \subseteq Known \cup crowd /\ crowd \subseteq Known'
      /\ \A t \in Known' : states'[t] = Updated(seen, time)[t]
  BY FrameStates DEF FrameOf
<1> SUFFICES ASSUME NEW t \in Tracks, NEW i \in Items
             PROVE  shown'[t][i] = (StateOf(t).votes[i])'
  BY DEF WindowInv
<1>2. shown[t][i] = StateOf(t).votes[i]
  BY DEF WindowInv
<1>3. shown'[t][i] = IF t \notin Known' THEN <<>>
                     ELSE IF t \in DOMAIN seen /\ (i \in FaceItems => seen[t].face)
                     THEN LastOf(Append(shown[t][i], Vote(i, seen[t])), Window)
                     ELSE shown[t][i]
  BY DEF FrameOf, Frame, Record, Known
<1>4. CASE t \notin Known'
  <2>1. StateOf(t)' = NewState
    BY <1>4 DEF StateOf
  <2>2. QED
    BY <1>3, <1>4, <2>1 DEF NewState
<1>5. CASE t \in crowd
  <2>1. t \in Known' /\ StateOf(t)' = states'[t]
    BY <1>1, <1>5 DEF StateOf
  <2>2. states'[t] = Update(StateOf(t), seen[t], time)
    BY <1>1, <1>5, <2>1 DEF Updated
  <2>3. states'[t].votes[i] = IF Verifiable(i, seen[t])
                              THEN Push(StateOf(t).votes[i], Vote(i, seen[t]))
                              ELSE StateOf(t).votes[i]
    BY <2>2 DEF Update, Observe
  <2>4. StateOf(t).votes[i] \in Seq(Votes) /\ Len(StateOf(t).votes[i]) <= Window
    BY StateOfType DEF State
  <2>5. seen[t] \in Looks /\ Vote(i, seen[t]) \in Votes
    BY <1>5, VoteType DEF FrameOf
  <2>6. Push(StateOf(t).votes[i], Vote(i, seen[t]))
          = LastOf(Append(StateOf(t).votes[i], Vote(i, seen[t])), Window)
    BY <2>4, <2>5, PushKeepsLast
  <2>7. Verifiable(i, seen[t]) <=> (i \in FaceItems => seen[t].face)
    BY DEF Verifiable
  <2>8. QED
    BY <1>1, <1>2, <1>3, <1>5, <2>1, <2>3, <2>6, <2>7
<1>6. CASE t \in Known' /\ t \notin crowd
  <2>1. t \in Known /\ states'[t] = states[t]
    BY <1>1, <1>6 DEF Updated
  <2>2. StateOf(t)' = StateOf(t)
    BY <1>6, <2>1 DEF StateOf
  <2>3. QED
    BY <1>1, <1>2, <1>3, <1>6, <2>2
<1>7. QED
  BY <1>4, <1>5, <1>6

(* Once there are enough votes for a judgement, there always are.           *)
LEMMA StaysEvaluated ==
    ASSUME NEW s \in State, NEW look \in Looks,
           \A i \in Items : Len(s.votes[i]) <= Window,
           Evaluated(s.votes)
    PROVE  Evaluated(Observe(s, look))
<1>1. PICK i \in Items : Len(s.votes[i]) >= MinimumSamples
  BY DEF Evaluated, Sampled
<1> DEFINE old == s.votes[i]
           pushed == Append(old, Vote(i, look))
<1>2. old \in Seq(Votes) /\ Vote(i, look) \in Votes
  BY VoteType DEF State
<1>3. Len(old) \in Nat /\ Len(old) >= MinimumSamples /\ Len(old) <= Window
  BY <1>1, <1>2
<1>4. MinimumSamples \in Nat /\ Window \in Nat /\ MinimumSamples <= Window
  BY PpeAssumption
<1> HIDE DEF old
<1>5. pushed \in Seq(Votes) /\ Len(pushed) = Len(old) + 1
  BY <1>2
<1>6. Len(Tail(pushed)) = Len(pushed) - 1
  BY <1>3, <1>5
<1> HIDE DEF pushed
<1>7. Len(Push(old, Vote(i, look))) >= MinimumSamples
  BY <1>3, <1>4, <1>5, <1>6 DEF Push, pushed
<1>8. Observe(s, look)[i] = IF Verifiable(i, look) THEN Push(old, Vote(i, look))
                            ELSE old
  BY DEF Observe, old
<1>9. Sampled(Observe(s, look)[i])
  BY <1>3, <1>7, <1>8 DEF Sampled
<1>10. QED
  BY <1>9 DEF Evaluated

\* What ReportInv says of one State with the history of its track.
Reported(s, time, items) ==
    /\ s.judged => Evaluated(s.votes)
    /\ s.alerted => s.lastAlert = time
    /\ s.judged /\ s.missing # {} =>
          /\ s.alerted
          /\ items = s.missing
          /\ s.lastSeen = s.lastAlert \/ s.lastSeen - s.lastAlert < Cooldown

(* update keeps it.                                                         *)
LEMMA UpdateReports ==
    ASSUME NEW s \in State, NEW look \in Looks, NEW time \in Nat,
           \A i \in Items : Len(s.votes[i]) <= Window,
           NEW last, NEW items, Reported(s, last, items)
    PROVE  LET u == Update(s, look, time)
               reports == Reports(s, look, time)
           IN Reported(u, IF reports THEN time ELSE last,
                       IF reports THEN u.missing ELSE items)
<1> DEFINE u == Update(s, look, time)
           votes == Observe(s, look)
           reports == Reports(s, look, time)
<1>1. /\ u.votes = votes
      /\ u.judged = (s.judged \/ Evaluated(votes))
      /\ u.missing = IF Evaluated(votes) THEN Missing(votes) ELSE s.missing
      /\ u.lastSeen = time
      /\ u.alerted = (s.alerted \/ reports)
      /\ u.lastAlert = IF reports THEN time ELSE s.lastAlert
  BY DEF Update
<1>2. s.judged => Evaluated(votes)
  BY StaysEvaluated DEF Reported
<1>3. reports <=> Evaluated(votes) /\ Alerts(s, Missing(votes), time)
  BY DEF Reports
<1>4. s.lastAlert \in Nat /\ Cooldown \in Nat
  BY PpeAssumption DEF State
<1> HIDE DEF u, votes
<1>5. CASE reports
  <2>1. u.lastSeen = u.lastAlert /\ u.lastAlert = time
    BY <1>1, <1>5
  <2>2. u.alerted /\ (u.judged => Evaluated(u.votes))
    BY <1>1, <1>2, <1>5
  <2>3. Reported(u, time, u.missing)
    BY <2>1, <2>2 DEF Reported
  <2>4. QED
    BY <1>5, <2>3 DEF u
<1>6. CASE ~reports
  <2>1. ASSUME u.judged, u.missing # {}
        PROVE  /\ s.judged /\ s.alerted /\ Missing(votes) = s.missing
               /\ u.missing = s.missing
               /\ time - s.lastAlert < Cooldown
    <3>1. Evaluated(votes) /\ u.missing = Missing(votes)
      BY <1>1, <1>2, <2>1
    <3>2. ~Alerts(s, Missing(votes), time)
      BY <1>3, <1>6, <3>1
    <3>3. QED
      BY <1>4, <2>1, <3>1, <3>2 DEF Alerts
  <2>2. u.judged => Evaluated(u.votes)
    BY <1>1, <1>2
  <2>3. u.alerted => u.lastAlert = last
    BY <1>1, <1>6 DEF Reported
  <2>4. ASSUME u.judged, u.missing # {}
        PROVE  /\ u.alerted /\ items = u.missing
               /\ u.lastSeen - u.lastAlert < Cooldown
    BY <1>1, <1>6, <2>1, <2>4 DEF Reported
  <2>5. Reported(u, last, items)
    BY <2>2, <2>3, <2>4 DEF Reported
  <2>6. QED
    BY <1>6, <2>5 DEF u
<1>7. QED
  BY <1>5, <1>6 DEF u

(* A frame keeps the reports.                                               *)
LEMMA FrameReports ==
    ASSUME TypeOK, ReportInv, NEW crowd, NEW seen, NEW d,
           FrameOf(crowd, seen, d)
    PROVE  ReportInv' /\ EventInv'
<1> DEFINE time == now + d
<1>1. /\ time \in Nat /\ DOMAIN seen = crowd /\ crowd \subseteq Tracks
      /\ Known' \subseteq Known \cup crowd /\ crowd \subseteq Known'
      /\ \A t \in Known' : states'[t] = Updated(seen, time)[t]
  BY FrameStates DEF FrameOf
<1>2. Known' \subseteq Tracks /\ Known \subseteq Tracks
  BY <1>1 DEF TypeOK
<1>3. events' = {t \in crowd : Reports(StateOf(t), seen[t], time)}
  BY <1>1 DEF FrameOf, Frame
<1>4. ASSUME NEW t \in Known'
      PROVE  /\ alarm'[t] = IF t \in events' THEN time ELSE alarm[t]
             /\ blamed'[t] = IF t \in events' THEN states'[t].missing ELSE blamed[t]
  <2>1. /\ alarm' = [x \in Tracks |-> IF x \notin Known' THEN 0
                                  ELSE IF x \in events' THEN time
                                  ELSE alarm[x]]
        /\ blamed' = [x \in Tracks |-> IF x \notin Known' THEN {}
                                   ELSE IF x \in events' THEN states'[x].missing
                                   ELSE blamed[x]]
    BY DEF FrameOf, Frame, Record, Known
  <2>2. QED
    BY <1>2, <1>4, <2>1
<1>5. ASSUME NEW t \in crowd
      PROVE  Reported(StateOf(t), alarm[t], blamed[t])
  <2>1. CASE t \in Known
    BY <2>1 DEF StateOf, ReportInv, Reported
  <2>2. CASE t \notin Known
    BY <2>2 DEF StateOf, NewState, Reported
  <2>3. QED
    BY <2>1, <2>2
<1>6. ASSUME NEW t \in crowd
      PROVE  states'[t] = Update(StateOf(t), seen[t], time)
  BY <1>1, <1>6 DEF Updated
<1>7. ASSUME NEW t \in Known'
      PROVE  Reported(states'[t], alarm'[t], blamed'[t])
  <2>1. CASE t \in crowd
    <3>1. StateOf(t) \in State /\ seen[t] \in Looks
      BY <1>1, <2>1, StateOfType DEF FrameOf
    <3>2. \A i \in Items : Len(StateOf(t).votes[i]) <= Window
      BY <1>1, <2>1, StateOfType
    <3>3. t \in events' <=> Reports(StateOf(t), seen[t], time)
      BY <1>3, <2>1
    <3> DEFINE u == Update(StateOf(t), seen[t], time)
               reports == Reports(StateOf(t), seen[t], time)
    <3>4. Reported(u, IF reports THEN time ELSE alarm[t],
                   IF reports THEN u.missing ELSE blamed[t])
      BY <1>1, <1>5, <2>1, <3>1, <3>2, UpdateReports
    <3>5. u = states'[t]
      BY <1>6, <2>1
    <3> HIDE DEF u, reports
    <3>6. /\ alarm'[t] = IF reports THEN time ELSE alarm[t]
          /\ blamed'[t] = IF reports THEN u.missing ELSE blamed[t]
      BY <1>4, <3>3, <3>5 DEF reports
    <3>7. QED
      BY <3>4, <3>5, <3>6
  <2>2. CASE t \notin crowd
    <3>1. t \in Known /\ states'[t] = states[t]
      BY <1>1, <2>2 DEF Updated
    <3>2. alarm'[t] = alarm[t] /\ blamed'[t] = blamed[t]
      BY <1>3, <1>4, <2>2
    <3>3. Reported(states[t], alarm[t], blamed[t])
      BY <3>1 DEF ReportInv, Reported
    <3>4. QED
      BY <3>1, <3>2, <3>3
  <2>3. QED
    BY <2>1, <2>2
<1>8. ReportInv'
  BY <1>7 DEF ReportInv, Reported
<1>9. ASSUME NEW t \in events'
      PROVE  blamed'[t] = Missing(states'[t].votes)
  <2>1. t \in crowd /\ Reports(StateOf(t), seen[t], time)
    BY <1>3
  <2>2. states'[t].missing = Missing(states'[t].votes)
    <3>1. Evaluated(Observe(StateOf(t), seen[t]))
      BY <2>1 DEF Reports
    <3>2. states'[t] = Update(StateOf(t), seen[t], time)
      BY <1>6, <2>1
    <3>3. QED
      BY <3>1, <3>2 DEF Update
  <2>3. QED
    BY <1>1, <1>4, <2>1, <2>2
<1>10. QED
  BY <1>8, <1>9 DEF EventInv

(* Every step keeps the invariant.                                          *)
LEMMA PpeInvStep ==
    ASSUME TypeOK, PpeInv, [Next]_vars
    PROVE  PpeInv'
<1>1. CASE ProcessFrame
  <2>1. PICK crowd, seen, d : FrameOf(crowd, seen, d)
    BY <1>1 DEF ProcessFrame, FrameOf
  <2>2. QED
    BY <2>1, FrameWindow, FrameReports DEF PpeInv
<1>2. CASE Reset
  <2>1. Known' = {} /\ events' = {}
    BY <1>2 DEF Reset, Known, NoStates
  <2>2. \A t \in Tracks : StateOf(t)' = NewState
    BY <2>1 DEF StateOf
  <2>3. WindowInv'
    BY <1>2, <2>2 DEF Reset, WindowInv, NewState
  <2>4. QED
    BY <2>1, <2>3 DEF PpeInv, ReportInv, EventInv
<1>3. CASE UNCHANGED vars
  BY <1>3 DEF vars, history, PpeInv, WindowInv, ReportInv, EventInv, StateOf, Known
<1>4. QED
  BY <1>1, <1>2, <1>3 DEF Next, Finished

(* The invariant holds in every reachable state.                            *)
THEOREM PpeCorrect == Spec => []PpeInv
<1>1. Init => PpeInv
  <2> SUFFICES ASSUME Init PROVE PpeInv
    OBVIOUS
  <2>1. Known = {} /\ events = {}
    BY DEF Init, Known, NoStates
  <2>2. \A t \in Tracks : StateOf(t) = NewState
    BY <2>1 DEF StateOf
  <2>3. QED
    BY <2>1, <2>2 DEF Init, PpeInv, WindowInv, ReportInv, EventInv, NewState
<1>2. TypeOK /\ PpeInv /\ [Next]_vars => PpeInv'
  BY PpeInvStep
<1>3. QED
  BY <1>1, <1>2, PpeTypeCorrect, PTL DEF Spec

-----------------------------------------------------------------------------
(* The theorems. *)

(* An alert names an item only when the frames of this person that showed   *)
(* the item say so: they are enough, and the item was worn in too few.      *)
THEOREM AlertsAreFounded == Spec => []BlameIsShown
<1>1. TypeOK /\ PpeInv => BlameIsShown
  <2> SUFFICES ASSUME TypeOK, PpeInv, NEW t \in events, NEW i \in blamed[t]
               PROVE  /\ Len(shown[t][i]) >= MinimumSamples
                      /\ Count(shown[t][i], "correct") * 100
                            < PresentPercent * Len(shown[t][i])
    BY DEF BlameIsShown
  <2>1. t \in Known /\ t \in Tracks
    BY DEF TypeOK
  <2>2. i \in Items /\ Sampled(states[t].votes[i])
        /\ ~Reached(states[t].votes[i], "correct")
    BY DEF PpeInv, EventInv, Missing
  <2>3. shown[t][i] = states[t].votes[i]
    BY <2>1, <2>2 DEF PpeInv, WindowInv, StateOf
  <2>4. Len(shown[t][i]) >= MinimumSamples
    BY <2>2, <2>3 DEF Sampled
  <2>5. shown[t][i] \in Seq(Votes)
    BY <2>1, <2>2 DEF TypeOK
  <2>6. Count(shown[t][i], "correct") \in Nat
    <3> DEFINE worn == {k \in 1..Len(shown[t][i]) : shown[t][i][k] = "correct"}
    <3>1. 1 \in Int /\ Len(shown[t][i]) \in Int
      BY <2>5
    <3>2. IsFiniteSet(1..Len(shown[t][i]))
      BY <3>1, FS_Interval
    <3>3. IsFiniteSet(worn)
      BY <3>2, FS_Subset
    <3>4. Cardinality(worn) \in Nat
      BY <3>3, FS_CardinalityType
    <3>5. DOMAIN shown[t][i] = 1..Len(shown[t][i])
      BY <2>5
    <3>6. QED
      BY <3>4, <3>5 DEF Count
  <2>7. Len(shown[t][i]) \in Nat /\ PresentPercent \in Nat
    BY <2>5, PpeAssumption
  <2>8. ~(Count(shown[t][i], "correct") * 100 >= PresentPercent * Len(shown[t][i]))
    BY <2>2, <2>3 DEF Reached
  <2>9. Count(shown[t][i], "correct") * 100
          < PresentPercent * Len(shown[t][i])
    BY <2>6, <2>7, <2>8
  <2>10. QED
    BY <2>4, <2>9
<1>2. QED
  BY <1>1, PpeTypeCorrect, PpeCorrect, PTL

(* No violation that is judged stays silent: it was reported with the items *)
(* that are missing now, and within the last cooldown.                      *)
THEOREM NoSilentViolation == Spec => []ViolationIsReported
<1>1. PpeInv => ViolationIsReported
  BY DEF PpeInv, ReportInv, ViolationIsReported
<1>2. QED
  BY <1>1, PpeCorrect, PTL

(* An alert with an unchanged judgement waits for the cooldown.             *)
LEMMA SameBlameWaits ==
    ASSUME NEW s, NEW missing, NEW time \in Nat, NEW last \in Nat,
           s.lastAlert = last, s.judged, s.alerted, s.missing = missing,
           Alerts(s, missing, time)
    PROVE  time - last >= Cooldown
  BY DEF Alerts

(* A violation that lasts is reported at most once per cooldown.            *)
THEOREM RepeatsWait == Spec => RepeatsAreSpaced
<1>1. TypeOK /\ PpeInv /\ [Next]_vars =>
        [\A t \in events' \cap Known :
          frames' > frames /\ states[t].judged /\ states[t].alerted
          /\ states[t].missing = states'[t].missing
              => now' - alarm[t] >= Cooldown]_vars
  <2> SUFFICES ASSUME TypeOK, PpeInv, Next,
                      NEW t \in events' \cap Known,
                      frames' > frames, states[t].judged, states[t].alerted,
                      states[t].missing = states'[t].missing
               PROVE  now' - alarm[t] >= Cooldown
    OBVIOUS
  <2>1. frames \in Nat
    BY DEF TypeOK
  <2>2. ProcessFrame
    BY <2>1 DEF Next, Reset, Finished, vars
  <2>3. PICK crowd, seen, d : FrameOf(crowd, seen, d)
    BY <2>2 DEF ProcessFrame, FrameOf
  <2>4. /\ DOMAIN seen = crowd /\ crowd \subseteq Known'
        /\ \A x \in Known' : states'[x] = Updated(seen, now + d)[x]
    BY <2>3, FrameStates DEF FrameOf
  <2>5. t \in crowd /\ Reports(StateOf(t), seen[t], now + d) /\ now' = now + d
    BY <2>3, <2>4 DEF FrameOf, Frame
  <2>6. StateOf(t) = states[t]
    BY DEF StateOf
  <2>7. states'[t] = Update(states[t], seen[t], now + d)
    BY <2>4, <2>5, <2>6 DEF Updated
  <2> DEFINE missing == Missing(Observe(states[t], seen[t]))
  <2>8. /\ Evaluated(Observe(states[t], seen[t]))
        /\ Alerts(states[t], missing, now + d)
    BY <2>5, <2>6 DEF Reports
  <2>9. states[t].missing = missing
    <3>1. states'[t].missing = missing
      BY <2>7, <2>8 DEF Update
    <3> HIDE DEF missing
    <3>2. QED
      BY <3>1
  <2>10. states[t].lastAlert = alarm[t] /\ alarm[t] \in Nat
    BY DEF PpeInv, ReportInv, TypeOK
  <2>11. now' = now + d /\ now + d \in Nat
    BY <2>3, <2>5, FrameStates
  <2> HIDE DEF missing
  <2>12. (now + d) - alarm[t] >= Cooldown
    BY <2>8, <2>9, <2>10, <2>11, SameBlameWaits
  <2>13. QED
    BY <2>11, <2>12
<1>2. QED
  BY <1>1, PpeTypeCorrect, PpeCorrect, PTL DEF Spec, RepeatsAreSpaced

--------------------------------------------------------------------------------
(* Induction and recursion on finite sets, said of sets and functions. *)

(* A set of numbers that has 0 and, with each, the next has all. *)
LEMMA NaturalsAll ==
  ASSUME NEW G, 0 \in G, \A n \in Nat : n \in G => n + 1 \in G
  PROVE  \A n \in Nat : n \in G
<1> DEFINE missing == Nat \ G
           R == OpToRel(<, Nat)
<1> SUFFICES ASSUME missing # {} PROVE FALSE
  OBVIOUS
<1>1. PICK least \in missing : \A n \in missing : ~(<<n, least>> \in R)
  <2>1. IsWellFoundedOn(R, Nat) /\ missing \subseteq Nat
    BY NatLessThanWellFounded
  <2> HIDE DEF R, missing
  <2>2. QED
    BY <2>1, WFMin
<1>2. least \in Nat /\ least # 0 /\ least - 1 \in Nat
  OBVIOUS
<1>3. least - 1 \in G
  <2>1. <<least - 1, least>> \in R
    BY <1>2 DEF OpToRel
  <2> HIDE DEF R
  <2>2. QED
    BY <1>1, <1>2, <2>1
<1> HIDE DEF R
<1>4. least \in G
  <2> DEFINE n == least - 1
  <2>1. n \in Nat /\ n \in G /\ n + 1 = least
    BY <1>2, <1>3
  <2> HIDE DEF n
  <2>2. QED
    BY <2>1
<1>5. QED
  BY <1>4

(* What holds of the empty set, and of a set if it holds without the element that
   is chosen from it, holds of every finite set. *)
LEMMA FiniteSetsAll ==
  ASSUME NEW S, IsFiniteSet(S), NEW G, {} \in G,
         \A t \in SUBSET S : t # {} => \E x \in t : t \ {x} \in G => t \in G
  PROVE  \A t \in SUBSET S : t \in G
<1> DEFINE Small(n) == {t \in SUBSET S : Cardinality(t) <= n}
           good == {n \in Nat : Small(n) \subseteq G}
<1>1. \A t \in SUBSET S : IsFiniteSet(t) /\ Cardinality(t) \in Nat
  BY FS_Subset, FS_CardinalityType
<1>2. 0 \in good
  <2>1. \A t \in Small(0) : t = {}
    BY <1>1, FS_EmptySet
  <2>2. QED
    BY <2>1
<1>3. ASSUME NEW n \in Nat, n \in good PROVE n + 1 \in good
  <2>1. ASSUME NEW t \in Small(n + 1) PROVE t \in G
    <3>1. CASE t = {}
      BY <3>1
    <3>2. CASE t # {}
      <4>1. PICK x \in t : t \ {x} \in G => t \in G
        BY <3>2
      <4>2. Cardinality(t \ {x}) = Cardinality(t) - 1
        BY <1>1, FS_RemoveElement
      <4>3. t \ {x} \in Small(n)
        BY <1>1, <4>2
      <4>4. QED
        BY <1>3, <4>1, <4>3
    <3>3. QED
      BY <3>1, <3>2
  <2>2. QED
    BY <2>1
<1>4. \A n \in Nat : n \in good
  <2> HIDE DEF good
  <2>1. QED
    BY <1>2, <1>3, NaturalsAll
<1>5. ASSUME NEW t \in SUBSET S PROVE t \in G
  <2>1. Cardinality(t) \in good /\ t \in Small(Cardinality(t))
    BY <1>1, <1>4
  <2>2. QED
    BY <2>1
<1>6. QED
  BY <1>5

(* g gives the value of the fold for each part of S. *)
FoldOf(g, S, base, op, choice) ==
  \A t \in SUBSET S : g[t] = IF t = {} THEN base ELSE op[choice[t]][g[t \ {choice[t]}]]
Chooses(choice, S) == \A t \in SUBSET S : t # {} => choice[t] \in t

(* A fold over a finite set has a value for each of its parts. *)
LEMMA FoldExists ==
  ASSUME NEW S, IsFiniteSet(S), NEW V, NEW base \in V, NEW op \in [S -> [V -> V]],
         NEW choice, Chooses(choice, S)
  PROVE  \E g \in [SUBSET S -> V] : FoldOf(g, S, base, op, choice)
<1> USE DEF Chooses
<1> DEFINE Small(n) == {t \in SUBSET S : Cardinality(t) <= n}
           Value(g, t) == IF t = {} THEN base ELSE op[choice[t]][g[t \ {choice[t]}]]
           Partial(g, n) == g \in [Small(n) -> V] /\ \A t \in Small(n) : g[t] = Value(g, t)
           good == {n \in Nat : \E g : Partial(g, n)}
<1>1. \A t \in SUBSET S : IsFiniteSet(t) /\ Cardinality(t) \in Nat /\ Cardinality(t) <= Cardinality(S)
  BY FS_Subset, FS_CardinalityType
<1>2. 0 \in good
  <2> DEFINE g == [t \in Small(0) |-> base]
  <2>1. \A t \in Small(0) : t = {}
    BY <1>1, FS_EmptySet
  <2>2. Partial(g, 0)
    BY <2>1
  <2> HIDE DEF g, Partial
  <2>3. QED
    BY <2>2
<1>3. ASSUME NEW n \in Nat, n \in good PROVE n + 1 \in good
  <2>1. PICK g : Partial(g, n)
    BY <1>3
  <2> DEFINE h == [t \in Small(n + 1) |-> IF t \in Small(n) THEN g[t] ELSE Value(g, t)]
  <2>2. Small(n) \subseteq Small(n + 1)
    BY <1>1
  <2>3. ASSUME NEW t \in Small(n + 1), t # {}
        PROVE  choice[t] \in S /\ t \ {choice[t]} \in Small(n)
    <3>1. choice[t] \in t /\ Cardinality(t \ {choice[t]}) = Cardinality(t) - 1
      BY <1>1, <2>3, FS_RemoveElement
    <3>2. QED
      BY <1>1, <3>1
  <2>4. ASSUME NEW t \in Small(n + 1) PROVE h[t] = Value(g, t) /\ h[t] \in V /\ h[t] = Value(h, t)
    <3>1. h[t] = Value(g, t)
      BY <2>1
    <3>2. CASE t = {}
      BY <3>1, <3>2
    <3>3. CASE t # {}
      <4>1. h[t \ {choice[t]}] = g[t \ {choice[t]}] /\ g[t \ {choice[t]}] \in V
        BY <2>1, <2>2, <2>3, <3>3
      <4>2. op[choice[t]] \in [V -> V]
        BY <2>3, <3>3
      <4>3. QED
        BY <3>1, <3>3, <4>1, <4>2
    <3>4. QED
      BY <3>2, <3>3
  <2>5. Partial(h, n + 1)
    BY <2>4
  <2> HIDE DEF h, Partial
  <2>6. QED
    BY <2>5
<1>4. Cardinality(S) \in good
  <2>1. \A n \in Nat : n \in good
    <3> HIDE DEF good
    <3>1. QED
      BY <1>2, <1>3, NaturalsAll
  <2>2. QED
    BY <1>1, <2>1
<1>5. Small(Cardinality(S)) = SUBSET S
  BY <1>1
<1>6. QED
  BY <1>4, <1>5 DEF FoldOf

--------------------------------------------------------------------------------
(* The order of the predictions. *)

(* DetectionBetter orders predictions strictly. *)
LEMMA BetterIsOrder ==
  ASSUME NEW p \in Predictions, NEW q \in Predictions, NEW r \in Predictions
  PROVE  /\ ~Better(p, p)
         /\ Better(p, q) => ~Better(q, p)
         /\ Better(p, q) /\ Better(q, r) => Better(p, r)
<1> DEFINE K(x) == Rank(x)
<1>1. \A x \in Predictions : \A i \in 1..6 : Rank(x)[i] \in Int
  <2> SUFFICES ASSUME NEW x \in Predictions PROVE \A i \in 1..6 : Rank(x)[i] \in Int
    OBVIOUS
  <2>1. /\ x.confidence \in Int /\ x.class \in Int /\ x.box.x1 \in Int /\ x.box.y1 \in Int
        /\ x.box.x2 \in Int /\ x.box.y2 \in Int
    BY DEF Predictions, Boxes
  <2>2. -x.confidence \in Int
    BY <2>1
  <2>3. QED
    BY <2>1, <2>2 DEF Rank
<1>2. ~Better(p, p)
  BY <1>1 DEF Better
<1>3. ASSUME Better(p, q), Better(q, r) PROVE Better(p, r)
  <2>1. PICK i \in 1..6 : Rank(p)[i] < Rank(q)[i] /\ \A j \in 1..(i - 1) : Rank(p)[j] = Rank(q)[j]
    BY <1>3 DEF Better
  <2>2. PICK k \in 1..6 : Rank(q)[k] < Rank(r)[k] /\ \A j \in 1..(k - 1) : Rank(q)[j] = Rank(r)[j]
    BY <1>3 DEF Better
  <2>3. CASE i < k
    <3>1. Rank(p)[i] < Rank(r)[i] /\ \A j \in 1..(i - 1) : Rank(p)[j] = Rank(r)[j]
      BY <1>1, <2>1, <2>2, <2>3
    <3>2. QED
      BY <3>1 DEF Better
  <2>4. CASE i >= k
    <3>1. Rank(p)[k] < Rank(r)[k] /\ \A j \in 1..(k - 1) : Rank(p)[j] = Rank(r)[j]
      BY <1>1, <2>1, <2>2, <2>4
    <3>2. QED
      BY <3>1 DEF Better
  <2>5. QED
    BY <2>3, <2>4
<1>4. ASSUME Better(p, q), Better(q, p) PROVE FALSE
  <2>1. PICK i \in 1..6 : Rank(p)[i] < Rank(q)[i] /\ \A j \in 1..(i - 1) : Rank(p)[j] = Rank(q)[j]
    BY <1>4 DEF Better
  <2>2. PICK k \in 1..6 : Rank(q)[k] < Rank(p)[k] /\ \A j \in 1..(k - 1) : Rank(q)[j] = Rank(p)[j]
    BY <1>4 DEF Better
  <2>3. QED
    BY <1>1, <2>1, <2>2
<1>5. QED
  BY <1>2, <1>3, <1>4

(* A set of predictions as a model may answer them. *)
Distinct(set) ==
  /\ IsFiniteSet(set) /\ set \subseteq Predictions
  /\ \A p, q \in set : p = q \/ Better(p, q) \/ Better(q, p)

(* What a model may answer it may answer a part of. *)
LEMMA DistinctParts ==
  ASSUME NEW set, Distinct(set), NEW part \in SUBSET set
  PROVE  Distinct(part)
  BY FS_Subset DEF Distinct

(* The worst of some predictions: every other one is better. *)
LEMMA WorstIsWorst ==
  ASSUME NEW set, Distinct(set), set # {}
  PROVE  Worst(set) \in set /\ \A p \in set : p # Worst(set) => Better(p, Worst(set))
<1> DEFINE HasWorst(t) == \E w \in t : \A p \in t : ~Better(w, p)
           G == {t \in SUBSET set : t = {} \/ HasWorst(t)}
<1>1. ASSUME NEW t \in SUBSET set, t # {}
      PROVE  \E x \in t : t \ {x} \in G => t \in G
  <2>1. PICK x \in t : TRUE
    BY <1>1
  <2>2. ASSUME t \ {x} \in G PROVE t \in G
    <3>1. CASE t \ {x} = {}
      <4>1. \A p \in t : ~Better(x, p)
        BY <2>1, <3>1, BetterIsOrder DEF Distinct
      <4>2. QED
        BY <2>1, <4>1
    <3>2. CASE HasWorst(t \ {x})
      <4>1. PICK w \in t \ {x} : \A p \in t \ {x} : ~Better(w, p)
        BY <3>2
      <4>2. CASE Better(w, x)
        <5>1. \A p \in t : ~Better(x, p)
          BY <2>1, <4>1, <4>2, BetterIsOrder DEF Distinct
        <5>2. QED
          BY <2>1, <5>1
      <4>3. CASE ~Better(w, x)
        BY <4>1, <4>3
      <4>4. QED
        BY <4>2, <4>3
    <3>3. QED
      BY <2>2, <3>1, <3>2
  <2>3. QED
    BY <2>1, <2>2
<1>2. \A t \in SUBSET set : t \in G
  <2>1. IsFiniteSet(set) /\ {} \in G
    BY DEF Distinct
  <2> HIDE DEF G
  <2>2. QED
    BY <1>1, <2>1, FiniteSetsAll
<1>3. \E w \in set : \A p \in set : ~Better(w, p)
  BY <1>2
<1>4. Worst(set) \in set /\ \A p \in set : ~Better(Worst(set), p)
  BY <1>3 DEF Worst
<1>5. QED
  BY <1>4 DEF Distinct

--------------------------------------------------------------------------------
(* The best of some predictions. *)

Above(set, p) == {q \in set : Better(q, p)}

(* Fewer are better than a prediction than there are. *)
LEMMA AboveIsFinite ==
  ASSUME NEW set, Distinct(set), NEW p \in set
  PROVE  /\ IsFiniteSet(Above(set, p)) /\ Cardinality(Above(set, p)) \in Nat
         /\ Cardinality(Above(set, p)) < Cardinality(set)
         /\ IsFiniteSet(set) /\ Cardinality(set) \in Nat
<1>1. IsFiniteSet(set) /\ Cardinality(set) \in Nat
  BY FS_CardinalityType DEF Distinct
<1>2. Above(set, p) \in SUBSET (set \ {p})
  BY BetterIsOrder DEF Above, Distinct
<1>3. IsFiniteSet(set \ {p}) /\ Cardinality(set \ {p}) = Cardinality(set) - 1
  BY <1>1, FS_RemoveElement
<1>4. IsFiniteSet(Above(set, p)) /\ Cardinality(Above(set, p)) <= Cardinality(set) - 1
  BY <1>2, <1>3, FS_Subset
<1>5. QED
  BY <1>1, <1>4, FS_CardinalityType

(* What is better than one of the best is one of them. *)
LEMMA BestIsClosed ==
  ASSUME NEW set, Distinct(set), NEW n \in Nat, NEW p \in BestOf(n, set), NEW q \in set,
         q \notin BestOf(n, set)
  PROVE  Better(p, q)
<1>1. p \in set /\ p # q /\ (Better(p, q) \/ Better(q, p))
  BY DEF BestOf, Distinct
<1>2. ASSUME Better(q, p) PROVE FALSE
  <2>1. Above(set, q) \in SUBSET Above(set, p)
    BY <1>1, <1>2, BetterIsOrder DEF Above, Distinct
  <2>2. Cardinality(Above(set, q)) <= Cardinality(Above(set, p))
    BY <1>1, <2>1, AboveIsFinite, FS_Subset
  <2>3. Cardinality(Above(set, p)) < n /\ ~(Cardinality(Above(set, q)) < n)
    BY DEF BestOf, Above
  <2>4. QED
    BY <1>1, <2>2, <2>3, AboveIsFinite
<1>3. QED
  BY <1>1, <1>2

(* As many as are wanted, each better than the others: these are the best. *)
LEMMA TopIsBest ==
  ASSUME NEW set, Distinct(set), NEW n \in Nat, NEW top \in SUBSET set,
         \A p \in top, q \in set \ top : Better(p, q),
         Cardinality(top) = n \/ (top = set /\ Cardinality(set) <= n)
  PROVE  BestOf(n, set) = top
<1>1. Distinct(top)
  BY DistinctParts
<1>2. ASSUME NEW p \in top PROVE Cardinality(Above(set, p)) < n
  <2>1. Above(set, p) = Above(top, p)
    BY BetterIsOrder DEF Above, Distinct
  <2>2. Cardinality(Above(top, p)) < Cardinality(top)
    BY <1>1, AboveIsFinite
  <2>3. Cardinality(Above(top, p)) \in Nat /\ Cardinality(top) \in Nat
    BY <1>1, AboveIsFinite
  <2>4. QED
    BY <2>1, <2>2, <2>3
<1>3. ASSUME NEW q \in set \ top PROVE ~(Cardinality(Above(set, q)) < n)
  <2>1. top \in SUBSET Above(set, q) /\ Cardinality(top) = n
    BY DEF Above
  <2>2. Cardinality(top) <= Cardinality(Above(set, q)) /\ Cardinality(Above(set, q)) \in Nat
    BY <2>1, AboveIsFinite, FS_Subset
  <2>3. QED
    BY <2>1, <2>2
<1>4. QED
  BY <1>2, <1>3 DEF BestOf, Above

(* Where there is room all are among the best. *)
LEMMA FewAreBest ==
  ASSUME NEW set, Distinct(set), NEW n \in Nat, Cardinality(set) <= n
  PROVE  BestOf(n, set) = set
  BY TopIsBest

(* The worst is one of the best only if there is room. *)
LEMMA BestAndWorst ==
  ASSUME NEW set, Distinct(set), NEW n \in Nat, NEW w \in set, \A p \in set : p # w => Better(p, w)
  PROVE  BestOf(n, set) = IF Cardinality(set \ {w}) < n THEN BestOf(n, set \ {w}) \cup {w}
                          ELSE BestOf(n, set \ {w})
<1> DEFINE rest == set \ {w}
<1>1. \A p \in rest : Above(set, p) = Above(rest, p)
  BY BetterIsOrder DEF Above, Distinct
<1>2. Above(set, w) = rest
  BY BetterIsOrder DEF Above, Distinct
<1>3. QED
  BY <1>1, <1>2 DEF BestOf, Above

(* There are as many of the best as wanted, or as there are. *)
LEMMA BestAreMany ==
  ASSUME NEW set, Distinct(set), NEW n \in Nat
  PROVE  /\ IsFiniteSet(BestOf(n, set)) /\ Cardinality(BestOf(n, set)) \in Nat
         /\ Cardinality(set) \in Nat /\ Distinct(BestOf(n, set))
         /\ Cardinality(BestOf(n, set)) <= n
         /\ Cardinality(BestOf(n, set)) < n => BestOf(n, set) = set
<1> DEFINE Many(t) == Cardinality(BestOf(n, t)) = IF Cardinality(t) < n THEN Cardinality(t) ELSE n
           G == {t \in SUBSET set : Many(t)}
<1>1. \A t \in SUBSET set : /\ Distinct(t) /\ IsFiniteSet(t) /\ Cardinality(t) \in Nat
                            /\ BestOf(n, t) \in SUBSET t /\ IsFiniteSet(BestOf(n, t))
  BY DistinctParts, FS_CardinalityType, FS_Subset DEF Distinct, BestOf
<1>2. {} \in G
  BY FS_EmptySet DEF BestOf
<1>3. ASSUME NEW t \in SUBSET set, t # {}, t \ {Worst(t)} \in G PROVE t \in G
  <2> DEFINE w == Worst(t)
             rest == t \ {w}
  <2>1. w \in t /\ \A p \in t : p # w => Better(p, w)
    BY <1>1, <1>3, WorstIsWorst
  <2> HIDE DEF w
  <2>2. Cardinality(rest) = Cardinality(t) - 1 /\ Cardinality(t) \in Nat /\ Cardinality(rest) \in Nat
    BY <1>1, <2>1, FS_RemoveElement
  <2>3. Many(rest)
    BY <1>3 DEF w
  <2>4. CASE Cardinality(rest) < n
    <3>1. BestOf(n, t) = BestOf(n, rest) \cup {w} /\ w \notin BestOf(n, rest)
      BY <1>1, <2>1, <2>4, BestAndWorst DEF BestOf
    <3>2. Cardinality(BestOf(n, t)) = Cardinality(BestOf(n, rest)) + 1
      BY <1>1, <3>1, FS_AddElement
    <3>3. QED
      BY <2>2, <2>3, <2>4, <3>2
  <2>5. CASE ~(Cardinality(rest) < n)
    <3>1. BestOf(n, t) = BestOf(n, rest)
      BY <1>1, <2>1, <2>5, BestAndWorst
    <3>2. QED
      BY <2>2, <2>3, <2>5, <3>1
  <2>6. QED
    BY <2>4, <2>5
<1>4. set \in G
  <2>0. IsFiniteSet(set) /\ set \in SUBSET set
    BY DEF Distinct
  <2>1. \A t \in SUBSET set : t # {} => \E x \in t : t \ {x} \in G => t \in G
    BY <1>1, <1>3, WorstIsWorst
  <2> HIDE DEF G
  <2>2. QED
    BY <1>2, <2>0, <2>1, FiniteSetsAll
<1>5. Cardinality(BestOf(n, set)) < n => Cardinality(BestOf(n, set)) = Cardinality(set)
  BY <1>1, <1>4
<1>6. QED
  BY <1>1, <1>4, <1>5, FS_Subset

(* The best of the best are the best. *)
LEMMA BestOfBest ==
  ASSUME NEW set, Distinct(set), NEW n \in Nat, NEW m \in Nat, n <= m
  PROVE  BestOf(n, BestOf(m, set)) = BestOf(n, set)
<1> DEFINE top == BestOf(m, set)
<1>1. ASSUME NEW p \in top PROVE Above(top, p) = Above(set, p)
  BY BestIsClosed, BetterIsOrder DEF Above, Distinct, BestOf
<1>2. \A p \in set : Cardinality(Above(set, p)) \in Nat
  BY AboveIsFinite
<1>3. /\ BestOf(n, top) = {p \in top : Cardinality(Above(top, p)) < n}
      /\ top = {p \in set : Cardinality(Above(set, p)) < m}
      /\ BestOf(n, set) = {p \in set : Cardinality(Above(set, p)) < n}
  BY DEF BestOf, Above
<1>4. ASSUME NEW p PROVE p \in BestOf(n, top) <=> p \in BestOf(n, set)
  <2>1. CASE p \in top
    BY <1>1, <1>2, <1>3, <2>1
  <2>2. CASE p \notin top
    BY <1>2, <1>3, <2>2
  <2>3. QED
    BY <2>1, <2>2
<1>5. QED
  BY <1>4

--------------------------------------------------------------------------------
(* The candidates of a frame. *)

(* BoundedCandidates keeps the best of what it was given. *)
LEMMA AddKeepsTheBest ==
  ASSUME NEW set, NEW p, p \notin set, Distinct(set \cup {p})
  PROVE  Add(BestOf(MaxCandidates, set), p) = BestOf(MaxCandidates, set \cup {p})
<1> DEFINE n == MaxCandidates
           all == set \cup {p}
           heap == BestOf(n, set)
           w == Worst(heap)
<1>1. n \in Nat /\ n >= 1
  BY FrameAssumption
<1>2. Distinct(set) /\ IsFiniteSet(set)
  BY DistinctParts DEF Distinct
<1>3. /\ IsFiniteSet(heap) /\ Cardinality(heap) \in Nat /\ Cardinality(heap) <= n /\ Distinct(heap)
      /\ Cardinality(heap) < n => heap = set
      /\ heap \in SUBSET set /\ p \notin heap
  BY <1>1, <1>2, BestAreMany DEF BestOf
<1>4. \A q \in heap, r \in set : r \notin heap => Better(q, r)
  BY <1>1, <1>2, BestIsClosed
<1> HIDE DEF n, heap
<1>5. CASE Cardinality(heap) < n
  <2>0. heap = set /\ Cardinality(all) = Cardinality(set) + 1
    BY <1>2, <1>3, <1>5, FS_AddElement
  <2>1. heap = set /\ Cardinality(all) <= n
    BY <1>1, <1>3, <1>5, <2>0
  <2>2. BestOf(n, all) = all
    BY <1>1, <2>1, FewAreBest
  <2>3. QED
    BY <1>5, <2>1, <2>2 DEF Add, n, heap
<1>6. CASE ~(Cardinality(heap) < n)
  <2>1. Cardinality(heap) = n /\ heap # {}
    BY <1>1, <1>3, <1>6, FS_EmptySet
  <2>2. w \in heap /\ \A q \in heap : q # w => Better(q, w)
    BY <1>3, <2>1, WorstIsWorst
  <2>3. p \in Predictions /\ all \subseteq Predictions /\ w \in all /\ w # p /\ (Better(p, w) \/ Better(w, p))
    BY <1>3, <2>2 DEF Distinct
  <2> HIDE DEF w
  <2>4. CASE Better(p, w)
    <3> DEFINE top == (heap \ {w}) \cup {p}
    <3>1. Cardinality(top) = n
      <4>1. IsFiniteSet(heap \ {w}) /\ Cardinality(heap \ {w}) = n - 1
        BY <1>3, <2>1, <2>2, FS_RemoveElement
      <4>2. p \notin heap \ {w}
        BY <1>3
      <4>3. Cardinality((heap \ {w}) \cup {p}) = Cardinality(heap \ {w}) + 1
        BY <4>1, <4>2, FS_AddElement
      <4>4. QED
        BY <1>1, <4>1, <4>3
    <3>2. ASSUME NEW q \in top, NEW r \in all \ top PROVE Better(q, r)
      <4>1. Better(q, w)
        BY <2>2, <2>4
      <4>2. CASE r = w
        BY <4>1, <4>2
      <4>3. CASE r # w
        <5>1. r \in set /\ r \notin heap /\ Better(w, r)
          BY <1>4, <2>2, <4>3
        <5>2. q \in Predictions /\ r \in Predictions /\ w \in Predictions
          BY <1>3, <2>3, <5>1
        <5>3. QED
          BY <4>1, <5>1, <5>2, BetterIsOrder
      <4>4. QED
        BY <4>2, <4>3
    <3>3. top \in SUBSET all
      BY <1>3
    <3>4. BestOf(n, all) = top
      <4> HIDE DEF top
      <4>1. QED
        BY <1>1, <3>1, <3>2, <3>3, TopIsBest
    <3>5. QED
      BY <1>6, <2>4, <3>4 DEF Add, n, heap, w
  <2>5. CASE ~Better(p, w)
    <3>1. ASSUME NEW q \in heap, NEW r \in all \ heap PROVE Better(q, r)
      <4>1. CASE r = p
        <5>1. q \in Predictions /\ (q = w \/ Better(q, w)) /\ Better(w, p)
          BY <1>3, <2>2, <2>3, <2>5
        <5>2. QED
          BY <2>3, <4>1, <5>1, BetterIsOrder
      <4>2. CASE r # p
        BY <1>4, <4>2
      <4>3. QED
        BY <4>1, <4>2
    <3>2. BestOf(n, all) = heap
      BY <1>1, <1>3, <2>1, <3>1, TopIsBest
    <3>3. QED
      BY <1>6, <2>5, <3>2 DEF Add, n, heap, w
  <2>6. QED
    BY <2>4, <2>5
<1>7. QED
  BY <1>5, <1>6

TensorInv ==
  /\ mode \in {"ppe_only", "ppe_fall"} /\ format \in {"raw", "end_to_end"}
  /\ tensor \in Tensors /\ read \in SUBSET tensor
  /\ pc \in {"decode", "track", "associate", "done"}
  /\ pc # "decode" => read = tensor

(* What is held of the predictions that were read. *)
Held(m, set) ==
  IF m = "ppe" /\ format = "end_to_end" THEN Good(m, set) ELSE BestOf(MaxCandidates, Good(m, set))

CandidatesInv == candidates = [m \in Models |-> Held(m, read)]

(* To read a prediction keeps the candidates what they should be. *)
LEMMA ReadKeepsTheBest ==
  ASSUME TensorInv, CandidatesInv, NEW p \in tensor, Read(p)
  PROVE  CandidatesInv'
<1> DEFINE good == Good(p.model, read)
<1>1. /\ Distinct(tensor) /\ p \in tensor /\ p \notin read /\ p \in Predictions /\ p.model \in Models
      /\ read \cup {p} \in SUBSET tensor
      /\ read' = read \cup {p} /\ UNCHANGED <<format, tensor>>
  BY FrameAssumption DEF Read, TensorInv, Distinct, Predictions
<1>2. \A m \in Models : m # p.model => Good(m, read') = Good(m, read)
  BY <1>1 DEF Good
<1>3. CASE ~Acceptable(p)
  <2>1. Good(p.model, read') = good
    BY <1>1, <1>3 DEF Good
  <2>2. \A m \in Models : Held(m, read)' = Held(m, read)
    BY <1>1, <1>2, <2>1 DEF Held, BestOf
  <2>3. candidates' = candidates
    BY <1>3 DEF Read
  <2>4. QED
    BY <2>2, <2>3 DEF CandidatesInv
<1>4. CASE Acceptable(p)
  <2>1. Good(p.model, read') = good \cup {p} /\ p \notin good
    BY <1>1, <1>4 DEF Good
  <2>2. Distinct(good \cup {p})
    BY <1>1, DistinctParts DEF Good
  <2>3. candidates' = [candidates EXCEPT ![p.model] = Collected(p)]
    BY <1>4 DEF Read
  <2>4. Collected(p) = Held(p.model, read)'
    BY <1>1, <2>1, <2>2, AddKeepsTheBest DEF Collected, CandidatesInv, Held
  <2>5. \A m \in Models : m # p.model => Held(m, read)' = Held(m, read)
    BY <1>1, <1>2 DEF Held
  <2>6. QED
    BY <1>1, <2>3, <2>4, <2>5 DEF CandidatesInv
<1>5. QED
  BY <1>3, <1>4

--------------------------------------------------------------------------------
(* The suppression. *)

NextKept(kept, p) == IF Refuses(kept, p) THEN kept ELSE Append(kept, p)

(* nms has a result for each part of the candidates. *)
LEMMA NmsUnfolds ==
  ASSUME NEW heap, Distinct(heap)
  PROVE  \E g : /\ Nms(heap) = g[heap]
                /\ g[{}] = <<>>
                /\ \A t \in SUBSET heap :
                     t # {} => g[t] = NextKept(g[t \ {Worst(t)}], Worst(t))
<1> DEFINE V == Seq(Predictions)
           op == [x \in heap |-> [kept \in V |-> NextKept(kept, x)]]
           choice == [t \in SUBSET heap |-> Worst(t)]
           Value(g, t) == IF t = {} THEN <<>> ELSE NextKept(g[t \ {Worst(t)}], Worst(t))
           iter == CHOOSE iter : iter = [t \in SUBSET heap |-> Value(iter, t)]
<1>1. \A t \in SUBSET heap : t # {} => Worst(t) \in t
  BY WorstIsWorst, DistinctParts
<1>2. op \in [heap -> [V -> V]] /\ <<>> \in V
  <2>1. \A x \in heap, kept \in V : NextKept(kept, x) \in V
    BY DEF NextKept, Distinct
  <2>2. QED
    BY <2>1
<1>3. \E g \in [SUBSET heap -> V] : FoldOf(g, heap, <<>>, op, choice)
  <2> DEFINE base == <<>>
  <2>1. IsFiniteSet(heap) /\ Chooses(choice, heap) /\ base \in V /\ op \in [heap -> [V -> V]]
    BY <1>1, <1>2 DEF Distinct, Chooses
  <2> HIDE DEF V, op, choice, base
  <2>2. \E g \in [SUBSET heap -> V] : FoldOf(g, heap, base, op, choice)
    BY <2>1, FoldExists
  <2>3. QED
    BY <2>2 DEF base
<1>4. PICK g \in [SUBSET heap -> V] :
         \A t \in SUBSET heap : g[t] = IF t = {} THEN <<>> ELSE op[choice[t]][g[t \ {choice[t]}]]
  BY <1>3 DEF FoldOf
<1>5. \A t \in SUBSET heap : g[t] = Value(g, t)
  <2> SUFFICES ASSUME NEW t \in SUBSET heap, t # {} PROVE g[t] = NextKept(g[t \ {Worst(t)}], Worst(t))
    BY <1>4
  <2>1. t \ {Worst(t)} \in SUBSET heap /\ Worst(t) \in heap /\ choice[t] = Worst(t)
    BY <1>1
  <2>2. g[t \ {Worst(t)}] \in V
    BY <2>1
  <2>3. g[t] = op[Worst(t)][g[t \ {Worst(t)}]]
    BY <1>4, <2>1
  <2>4. QED
    BY <2>1, <2>2, <2>3
<1>6. g = [t \in SUBSET heap |-> Value(g, t)]
  BY <1>5
<1>7. iter = [t \in SUBSET heap |-> Value(iter, t)]
  <2> HIDE DEF Value
  <2>1. QED
    BY <1>6
<1>8. Nms(heap) = iter[heap]
  BY DEF Nms, MapThenFoldSet, NextKept
<1>9. iter[{}] = <<>> /\ \A t \in SUBSET heap : t # {} => iter[t] = NextKept(iter[t \ {Worst(t)}], Worst(t))
  <2> HIDE DEF iter
  <2>1. \A t \in SUBSET heap : iter[t] = Value(iter, t)
    BY <1>7
  <2>2. QED
    BY <2>1
<1>10. QED
  <2> HIDE DEF iter
  <2>1. QED
    BY <1>8, <1>9

(* Exactly one part of a set of predictions is settled, and the worst of the set
   is in it unless a survivor covers it. *)
LEMMA OneIsSettled ==
  ASSUME NEW set, Distinct(set)
  PROVE  \E kept \in SUBSET set :
           Settled(set, kept) /\ \A other \in SUBSET set : Settled(set, other) => other = kept
<1> DEFINE Only1(t) == \E kept \in SUBSET t :
                         Settled(t, kept) /\ \A other \in SUBSET t : Settled(t, other) => other = kept
           G == {t \in SUBSET set : Only1(t)}
<1>1. {} \in G
  BY DEF Settled
<1>2. ASSUME NEW t \in SUBSET set, t # {}, t \ {Worst(t)} \in G PROVE t \in G
  <2> DEFINE w == Worst(t)
             rest == t \ {w}
  <2>1. w \in t /\ \A p \in t : ~Better(w, p) /\ (p # w => Better(p, w))
    <3>1. Distinct(t)
      BY DistinctParts
    <3>2. QED
      BY <1>2, <3>1, WorstIsWorst, BetterIsOrder DEF Distinct
  <2>2. PICK kept \in SUBSET rest :
           Settled(rest, kept) /\ \A other \in SUBSET rest : Settled(rest, other) => other = kept
    BY <1>2
  <2> HIDE DEF w
  <2> DEFINE covered == \E q \in kept : Clash(w, q)
             new == IF covered THEN kept ELSE kept \cup {w}
  <2>3. Settled(t, new)
    <3>1. ASSUME NEW p \in rest PROVE p \in new <=> ~\E q \in new : Better(q, p) /\ Clash(p, q)
      BY <2>1, <2>2 DEF Settled
    <3>2. w \in new <=> ~\E q \in new : Better(q, w) /\ Clash(w, q)
      BY <2>1, <2>2
    <3>3. QED
      BY <3>1, <3>2 DEF Settled
  <2>4. ASSUME NEW other \in SUBSET t, Settled(t, other) PROVE other = new
    <3>1. Settled(rest, other \ {w})
      BY <2>1, <2>4 DEF Settled
    <3>2. other \ {w} = kept
      BY <2>2, <3>1
    <3>3. w \in other <=> ~covered
      <4>1. w \in other <=> ~\E q \in other : Better(q, w) /\ Clash(w, q)
        BY <2>1, <2>4 DEF Settled
      <4>2. QED
        BY <2>1, <3>2, <4>1
    <3>4. QED
      BY <3>2, <3>3
  <2>5. QED
    BY <2>1, <2>3, <2>4
<1>3. set \in G
  <2>1. \A t \in SUBSET set : t # {} => \E x \in t : t \ {x} \in G => t \in G
    BY <1>2, WorstIsWorst, DistinctParts
  <2>2. IsFiniteSet(set) /\ set \in SUBSET set
    BY DEF Distinct
  <2> HIDE DEF G
  <2>3. QED
    BY <1>1, <2>1, <2>2, FiniteSetsAll
<1>4. QED
  BY <1>3

(* The survivors of a set are those of the set without its worst, and the worst if
   none of them covers it. *)
LEMMA SurvivorsGrow ==
  ASSUME NEW set, Distinct(set), format \in {"raw", "end_to_end"}, set # {}, NEW w, w = Worst(set)
  PROVE  Survivors(set) = IF format = "raw" /\ \E q \in Survivors(set \ {w}) : Clash(w, q)
                          THEN Survivors(set \ {w}) ELSE Survivors(set \ {w}) \cup {w}
<1> DEFINE rest == set \ {w}
<1>1. w \in set /\ Distinct(rest) /\ \A p \in set : ~Better(w, p) /\ (p # w => Better(p, w))
  BY WorstIsWorst, BetterIsOrder, DistinctParts DEF Distinct
<1>2. CASE format = "end_to_end"
  BY <1>1, <1>2 DEF Survivors
<1>3. CASE format = "raw"
  <2> DEFINE kept == Survivors(rest)
             new == Survivors(set)
  <2>1. kept \in SUBSET rest /\ \A other \in SUBSET rest : Settled(rest, other) => other = kept
    <3>1. PICK one \in SUBSET rest :
             Settled(rest, one) /\ \A other \in SUBSET rest : Settled(rest, other) => other = one
      BY <1>1, OneIsSettled
    <3>2. kept \in SUBSET rest /\ Settled(rest, kept)
      BY <1>3, <3>1 DEF Survivors
    <3>3. QED
      BY <3>1, <3>2
  <2>2. new \in SUBSET set /\ Settled(set, new)
    BY <1>3, OneIsSettled DEF Survivors
  <2> HIDE DEF kept, new
  <2>3. Settled(rest, new \ {w})
    BY <1>1, <2>2 DEF Settled
  <2>4. new \ {w} = kept
    BY <2>1, <2>2, <2>3
  <2>5. w \in new <=> ~\E q \in kept : Clash(w, q)
    <3>1. w \in new <=> ~\E q \in new : Better(q, w) /\ Clash(w, q)
      BY <1>1, <2>2 DEF Settled
    <3>2. QED
      BY <1>1, <2>2, <2>4, <3>1
  <2>6. QED
    BY <1>3, <2>1, <2>4, <2>5 DEF kept, new
<1>4. QED
  BY <1>2, <1>3

(* The suppression keeps the best of the survivors, each once. *)
LEMMA NmsKeepsTheBest ==
  ASSUME NEW heap, Distinct(heap), format \in {"raw", "end_to_end"}
  PROVE  /\ Nms(heap) \in Seq(Predictions)
         /\ Range(Nms(heap)) = BestOf(MaxDetections, Survivors(heap))
         /\ Range(Nms(heap)) \in SUBSET heap
<1> DEFINE n == MaxDetections
           Fits1(kept, t) == /\ kept \in Seq(Predictions)
                             /\ Range(kept) = BestOf(n, Survivors(t))
                             /\ Len(kept) = Cardinality(BestOf(n, Survivors(t)))
                             /\ Survivors(t) \in SUBSET t
<1>1. PICK g : /\ Nms(heap) = g[heap]
               /\ g[{}] = <<>>
               /\ \A t \in SUBSET heap :
                    t # {} => g[t] = NextKept(g[t \ {Worst(t)}], Worst(t))
  BY NmsUnfolds
<1> DEFINE G == {t \in SUBSET heap : Fits1(g[t], t)}
<1>2. n \in Nat /\ n >= 1
  BY FrameAssumption
<1>3. {} \in G
  <2>1. Survivors({}) = {}
    BY OneIsSettled, FS_EmptySet DEF Survivors, Settled
  <2>2. BestOf(n, {}) = {}
    BY DEF BestOf
  <2>3. Range(<<>>) = {} /\ Len(<<>>) = 0 /\ <<>> \in Seq(Predictions)
    BY DEF Range
  <2>4. QED
    BY <1>1, <2>1, <2>2, <2>3, FS_EmptySet
<1>4. ASSUME NEW t \in SUBSET heap, t # {}, t \ {Worst(t)} \in G PROVE t \in G
  <2> DEFINE w == Worst(t)
             rest == t \ {w}
             kept == g[rest]
             before == Survivors(rest)
             after == Survivors(t)
  <2>1. Distinct(t) /\ w \in t /\ w \in Predictions /\ \A p \in t : p # w => Better(p, w)
    BY <1>4, DistinctParts, WorstIsWorst DEF Distinct
  <2>2. /\ kept \in Seq(Predictions) /\ Range(kept) = BestOf(n, before)
        /\ Len(kept) = Cardinality(BestOf(n, before)) /\ before \in SUBSET rest
    BY <1>4
  <2>3. after = IF format = "raw" /\ \E q \in before : Clash(w, q) THEN before ELSE before \cup {w}
    BY <1>4, <2>1, SurvivorsGrow
  <2>4. g[t] = NextKept(kept, w)
    BY <1>1, <1>4
  <2> HIDE DEF w, kept, before, after
  <2>5. after \in SUBSET t /\ w \notin before /\ Distinct(before) /\ Distinct(after)
    <3>1. after \in SUBSET t /\ before \in SUBSET t /\ w \notin before
      BY <2>1, <2>2, <2>3
    <3>2. QED
      BY <2>1, <3>1, DistinctParts
  <2>6. /\ Cardinality(BestOf(n, before)) <= n /\ Cardinality(BestOf(n, before)) \in Nat
        /\ Cardinality(before) \in Nat
        /\ Cardinality(BestOf(n, before)) < n => BestOf(n, before) = before
    BY <1>2, <2>5, BestAreMany
  <2>7. after = before \cup {w} =>
          BestOf(n, after) = IF Cardinality(before) < n THEN BestOf(n, before) \cup {w} ELSE BestOf(n, before)
    <3>1. SUFFICES ASSUME after = before \cup {w}
                   PROVE  BestOf(n, after) = IF Cardinality(before) < n THEN BestOf(n, before) \cup {w}
                                             ELSE BestOf(n, before)
      OBVIOUS
    <3>2. w \in after /\ after \ {w} = before /\ \A p \in after : p # w => Better(p, w)
      BY <2>1, <2>5, <3>1
    <3>3. QED
      BY <1>2, <2>5, <3>2, BestAndWorst
  <2>8. CASE Len(kept) = n
    <3>1. Cardinality(before) >= n
      <4>1. BestOf(n, before) \in SUBSET before /\ IsFiniteSet(before)
        BY <2>5 DEF BestOf, Distinct
      <4>2. Cardinality(BestOf(n, before)) <= Cardinality(before)
        BY <4>1, FS_Subset
      <4>3. QED
        BY <1>2, <2>2, <2>6, <2>8, <4>2
    <3>2. BestOf(n, after) = BestOf(n, before)
      BY <1>2, <2>3, <2>6, <2>7, <3>1
    <3>3. g[t] = kept
      BY <2>4, <2>8 DEF NextKept, Refuses
    <3>4. Fits1(g[t], t)
      BY <2>2, <2>5, <3>2, <3>3 DEF after
    <3>5. QED
      BY <3>4
  <2>9. CASE Len(kept) # n
    <3>1. BestOf(n, before) = before /\ Cardinality(before) < n /\ Range(kept) = before
      BY <1>2, <2>2, <2>6, <2>9
    <3>2. Suppresses(kept, w) <=> \E q \in before : Clash(w, q)
      BY <3>1 DEF Suppresses, Clash
    <3>3. Refuses(kept, w) <=> (format = "raw" /\ \E q \in before : Clash(w, q))
      BY <2>9, <3>2 DEF Refuses
    <3>4. CASE Refuses(kept, w)
      <4>1. after = before /\ g[t] = kept
        BY <2>3, <2>4, <3>3, <3>4 DEF NextKept
      <4>2. Fits1(g[t], t)
        BY <2>2, <2>5, <4>1 DEF after
      <4>3. QED
        BY <4>2
    <3>5. CASE ~Refuses(kept, w)
      <4>1. after = before \cup {w} /\ g[t] = Append(kept, w)
        BY <2>3, <2>4, <3>3, <3>5 DEF NextKept
      <4>2. BestOf(n, after) = before \cup {w}
        BY <2>7, <3>1, <4>1
      <4>3. Range(g[t]) = before \cup {w} /\ g[t] \in Seq(Predictions) /\ Len(g[t]) = Len(kept) + 1
        BY <2>1, <2>2, <3>1, <4>1 DEF Range
      <4>4. Cardinality(before \cup {w}) = Cardinality(before) + 1
        BY <2>5, FS_AddElement DEF Distinct
      <4>5. Fits1(g[t], t)
        BY <2>2, <2>5, <3>1, <4>2, <4>3, <4>4 DEF after
      <4>6. QED
        BY <4>5
    <3>6. QED
      BY <3>4, <3>5
  <2>10. QED
    BY <2>8, <2>9
<1>5. heap \in G
  <2>1. \A t \in SUBSET heap : t # {} => \E x \in t : t \ {x} \in G => t \in G
    BY <1>4, WorstIsWorst, DistinctParts
  <2>2. IsFiniteSet(heap) /\ heap \in SUBSET heap
    BY DEF Distinct
  <2> HIDE DEF G
  <2>3. QED
    BY <1>3, <2>1, <2>2, FiniteSetsAll
<1>6. QED
  BY <1>1, <1>5 DEF BestOf

--------------------------------------------------------------------------------
(* Folds over sequences. *)

(* A fold over a sequence takes the last place first. *)
LEMMA MaxIsChosen ==
  ASSUME NEW n \in Nat
  PROVE  \A t \in SUBSET (1..n) : t # {} => Max(t) \in t
<1> DEFINE HasMax(t) == \E x \in t : \A y \in t : x >= y
           G == {t \in SUBSET (1..n) : t = {} \/ HasMax(t)}
<1>1. ASSUME NEW t \in SUBSET (1..n), t # {}
      PROVE  \E x \in t : t \ {x} \in G => t \in G
  <2>1. PICK x \in t : TRUE
    BY <1>1
  <2>2. ASSUME t \ {x} \in G PROVE HasMax(t)
    <3>1. CASE t \ {x} = {}
      <4>1. \A y \in t : x >= y
        BY <3>1
      <4>2. QED
        BY <4>1
    <3>2. CASE HasMax(t \ {x})
      <4>1. PICK m \in t \ {x} : \A y \in t \ {x} : m >= y
        BY <3>2
      <4>2. CASE m >= x
        BY <4>1, <4>2
      <4>3. CASE ~(m >= x)
        <5>1. \A y \in t : x >= y
          BY <4>1, <4>3
        <5>2. QED
          BY <5>1
      <4>4. QED
        BY <4>2, <4>3
    <3>3. QED
      BY <2>2, <3>1, <3>2
  <2>3. QED
    BY <2>1, <2>2
<1>2. \A t \in SUBSET (1..n) : t \in G
  <2>1. IsFiniteSet(1..n) /\ {} \in G
    BY FS_Interval
  <2> HIDE DEF G
  <2>2. QED
    BY <1>1, <2>1, FiniteSetsAll
<1>3. ASSUME NEW t \in SUBSET (1..n), t # {} PROVE Max(t) \in t
  BY <1>2, <1>3 DEF Max
<1>4. QED
  BY <1>3

(* The last of the first k places. *)
LEMMA MaxOfFirst ==
  ASSUME NEW k \in Nat \ {0}
  PROVE  Max(1..k) = k
<1>1. k \in 1..k /\ \A y \in 1..k : k >= y
  OBVIOUS
<1>2. Max(1..k) \in 1..k /\ \A y \in 1..k : Max(1..k) >= y
  BY <1>1 DEF Max
<1>3. QED
  BY <1>1, <1>2

(* g gives the value of the fold for each set of places. *)
PlacesFold(g, n, base, op) ==
  \A t \in SUBSET (1..n) : g[t] = IF t = {} THEN base ELSE op[Max(t)][g[t \ {Max(t)}]]

(* A fold over the places of a sequence has a value for each set of them. *)
LEMMA PlacesFoldExists ==
  ASSUME NEW n \in Nat, NEW V, NEW base \in V, NEW op \in [1..n -> [V -> V]]
  PROVE  \E g \in [SUBSET (1..n) -> V] : PlacesFold(g, n, base, op)
<1> DEFINE places == 1..n
           choice == [t \in SUBSET places |-> Max(t)]
<1>1. IsFiniteSet(places)
  BY FS_Interval
<1>2. \A t \in SUBSET places : choice[t] = Max(t)
  OBVIOUS
<1>3. \A t \in SUBSET places : t # {} => Max(t) \in t
  BY MaxIsChosen
<1> HIDE DEF places, choice
<1>4. Chooses(choice, places)
  BY <1>2, <1>3 DEF Chooses
<1>5. op \in [places -> [V -> V]]
  BY DEF places
<1>6. PICK g \in [SUBSET places -> V] : FoldOf(g, places, base, op, choice)
  BY <1>1, <1>4, <1>5, FoldExists
<1>7. \A t \in SUBSET places : g[t] = IF t = {} THEN base ELSE op[Max(t)][g[t \ {Max(t)}]]
  BY <1>2, <1>6 DEF FoldOf
<1>8. g \in [SUBSET (1..n) -> V] /\ PlacesFold(g, n, base, op)
  BY <1>7 DEF places, PlacesFold
<1>9. QED
  BY <1>8

NextOnly(kept, x, set) == IF x \in set THEN Append(kept, x) ELSE kept

(* A filter, element by element. *)
LEMMA OnlyUnfolds ==
  ASSUME NEW X, NEW seq \in Seq(X), NEW set
  PROVE  \E h : /\ Only(seq, set) = h[Len(seq)] /\ h[0] = <<>>
                /\ \A k \in 1..Len(seq) : h[k] = NextOnly(h[k - 1], seq[k], set)
<1> DEFINE n == Len(seq)
           V == Seq(X)
           op == [i \in 1..n |-> [kept \in V |-> NextOnly(kept, seq[i], set)]]
           Value(g, t) == IF t = {} THEN <<>> ELSE NextOnly(g[t \ {Max(t)}], seq[Max(t)], set)
           iter == CHOOSE iter : iter = [t \in SUBSET (1..n) |-> Value(iter, t)]
<1>1. n \in Nat /\ DOMAIN seq = 1..n /\ \A i \in 1..n : seq[i] \in X
  OBVIOUS
<1> HIDE DEF n
<1>2. op \in [1..n -> [V -> V]] /\ <<>> \in V
  <2>1. \A i \in 1..n, kept \in V : NextOnly(kept, seq[i], set) \in V
    BY <1>1 DEF NextOnly
  <2>2. QED
    BY <2>1
<1>3. \E g \in [SUBSET (1..n) -> V] : PlacesFold(g, n, <<>>, op)
  <2> DEFINE base == <<>>
  <2>1. base \in V /\ op \in [1..n -> [V -> V]]
    BY <1>2
  <2> HIDE DEF V, op, base
  <2>2. \E g \in [SUBSET (1..n) -> V] : PlacesFold(g, n, base, op)
    BY <1>1, <2>1, PlacesFoldExists
  <2>3. QED
    BY <2>2 DEF base
<1>4. PICK g \in [SUBSET (1..n) -> V] :
         \A t \in SUBSET (1..n) : g[t] = IF t = {} THEN <<>> ELSE op[Max(t)][g[t \ {Max(t)}]]
  BY <1>3 DEF PlacesFold
<1>5. \A t \in SUBSET (1..n) : g[t] = Value(g, t)
  <2> SUFFICES ASSUME NEW t \in SUBSET (1..n), t # {} PROVE g[t] = NextOnly(g[t \ {Max(t)}], seq[Max(t)], set)
    BY <1>4
  <2>1. t \ {Max(t)} \in SUBSET (1..n) /\ Max(t) \in 1..n
    BY <1>1, MaxIsChosen
  <2>2. g[t \ {Max(t)}] \in V
    BY <2>1
  <2>3. g[t] = op[Max(t)][g[t \ {Max(t)}]]
    BY <1>4
  <2>4. QED
    BY <2>1, <2>2, <2>3
<1>6. g = [t \in SUBSET (1..n) |-> Value(g, t)]
  BY <1>5
<1>7. iter = [t \in SUBSET (1..n) |-> Value(iter, t)]
  <2> HIDE DEF Value
  <2>1. QED
    BY <1>6
<1>8. Only(seq, set) = iter[1..n]
  BY <1>1 DEF Only, FoldLeft, MapThenFoldSet, NextOnly
<1> HIDE DEF iter
<1> DEFINE h == [k \in 0..n |-> iter[1..k]]
<1>9. h[0] = <<>>
  <2>1. 1..0 = {} /\ 0 \in 0..n
    BY <1>1
  <2>2. iter[{}] = <<>>
    BY <1>7
  <2>3. QED
    BY <2>1, <2>2
<1>10. ASSUME NEW k \in 1..n PROVE h[k] = NextOnly(h[k - 1], seq[k], set)
  <2>0. Max(1..k) = k
    <3>1. k \in Nat \ {0}
      BY <1>1
    <3>2. QED
      BY <3>1, MaxOfFirst
  <2>1. 1..k \in SUBSET (1..n) /\ 1..k # {} /\ Max(1..k) = k /\ (1..k) \ {k} = 1..(k - 1)
    <3>1. k \in Nat /\ k >= 1 /\ k <= n
      BY <1>1
    <3>2. 1..k \in SUBSET (1..n)
      BY <1>1, <3>1
    <3>3. k \in 1..k
      BY <3>1
    <3>4. (1..k) \ {k} = 1..(k - 1)
      BY <3>1
    <3>5. QED
      BY <2>0, <3>2, <3>3, <3>4
  <2>2. iter[1..k] = Value(iter, 1..k)
    BY <1>7, <2>1
  <2>3. iter[1..k] = NextOnly(iter[1..(k - 1)], seq[k], set)
    BY <2>1, <2>2
  <2>4. k \in 0..n /\ k - 1 \in 0..n
    BY <1>1
  <2>5. QED
    BY <2>3, <2>4
<1>11. Only(seq, set) = h[n]
  BY <1>1, <1>8
<1>12. QED
  <2> HIDE DEF h
  <2>1. QED
    BY <1>9, <1>10, <1>11 DEF n


(* What a filter keeps: the elements that are in the set, in their order. *)
LEMMA OnlyKeeps ==
  ASSUME NEW X, NEW seq \in Seq(X), NEW set
  PROVE  /\ Only(seq, set) \in Seq(X)
         /\ Range(Only(seq, set)) = Range(seq) \cap set
         /\ \A i, j \in DOMAIN Only(seq, set) :
              i < j => \E a, b \in DOMAIN seq :
                         a < b /\ Only(seq, set)[i] = seq[a] /\ Only(seq, set)[j] = seq[b]
<1> DEFINE n == Len(seq)
           First(k) == {seq[i] : i \in 1..k}
           InOrder(out, k) ==
             /\ \A i \in DOMAIN out : \E a \in 1..k : out[i] = seq[a]
             /\ \A i, j \in DOMAIN out :
                  i < j => \E a, b \in 1..k : a < b /\ out[i] = seq[a] /\ out[j] = seq[b]
           Fine(out, k) == out \in Seq(X) /\ Range(out) = First(k) \cap set /\ InOrder(out, k)
<1>1. PICK h : /\ Only(seq, set) = h[n] /\ h[0] = <<>>
               /\ \A k \in 1..n : h[k] = NextOnly(h[k - 1], seq[k], set)
  BY OnlyUnfolds
<1>2. n \in Nat /\ DOMAIN seq = 1..n /\ \A i \in 1..n : seq[i] \in X
  OBVIOUS
<1> HIDE DEF n
<1> DEFINE G == {k \in Nat : k <= n => Fine(h[k], k)}
<1>3. 0 \in G
  <2>1. <<>> \in Seq(X) /\ Range(<<>>) = {} /\ DOMAIN <<>> = {}
    BY DEF Range
  <2>2. First(0) = {}
    OBVIOUS
  <2>3. QED
    BY <1>1, <2>1, <2>2
<1>4. ASSUME NEW k \in Nat, k \in G PROVE k + 1 \in G
  <2> SUFFICES ASSUME k + 1 <= n PROVE Fine(h[k + 1], k + 1)
    OBVIOUS
  <2> DEFINE before == h[k]
             x == seq[k + 1]
  <2>1. before \in Seq(X) /\ Range(before) = First(k) \cap set /\ InOrder(before, k)
    BY <1>2, <1>4
  <2>2. k + 1 \in 1..n /\ (k + 1) - 1 = k /\ x \in X /\ 1..(k + 1) = (1..k) \cup {k + 1}
    BY <1>2
  <2>3. h[k + 1] = NextOnly(before, x, set)
    BY <1>1, <2>2
  <2>4. First(k + 1) = First(k) \cup {x}
    BY <2>2
  <2> HIDE DEF before, x, First
  <2>5. CASE x \in set
    <3> DEFINE after == Append(before, x)
    <3>1. h[k + 1] = after
      BY <2>3, <2>5 DEF NextOnly
    <3>2. /\ after \in Seq(X) /\ DOMAIN after = (DOMAIN before) \cup {Len(before) + 1}
          /\ Len(before) \in Nat /\ DOMAIN before = 1..Len(before)
          /\ after[Len(before) + 1] = x /\ \A i \in DOMAIN before : after[i] = before[i]
      BY <2>1, <2>2
    <3> HIDE DEF after
    <3>3. Range(after) = First(k + 1) \cap set
      BY <2>1, <2>4, <2>5, <3>2 DEF Range
    <3>4. \A i \in DOMAIN after : \E a \in 1..(k + 1) : after[i] = seq[a]
      BY <2>1, <2>2, <3>2 DEF x
    <3>5. ASSUME NEW i \in DOMAIN after, NEW j \in DOMAIN after, i < j
          PROVE  \E a, b \in 1..(k + 1) : a < b /\ after[i] = seq[a] /\ after[j] = seq[b]
      <4>1. CASE j \in DOMAIN before
        <5>1. i \in DOMAIN before
          BY <3>2, <3>5, <4>1
        <5>2. QED
          BY <2>1, <2>2, <3>2, <3>5, <4>1, <5>1
      <4>2. CASE j = Len(before) + 1
        <5>1. i \in DOMAIN before
          BY <3>2, <3>5, <4>2
        <5>2. PICK a \in 1..k : before[i] = seq[a]
          BY <2>1, <5>1
        <5>3. a < k + 1 /\ a \in 1..(k + 1) /\ k + 1 \in 1..(k + 1) /\ after[i] = seq[a] /\ after[j] = seq[k + 1]
          BY <2>2, <3>2, <4>2, <5>1, <5>2 DEF x
        <5>4. QED
          BY <5>3
      <4>3. QED
        BY <3>2, <4>1, <4>2
    <3>6. QED
      BY <3>1, <3>2, <3>3, <3>4, <3>5
  <2>6. CASE x \notin set
    <3>1. h[k + 1] = before
      BY <2>3, <2>6 DEF NextOnly
    <3>2. Range(before) = First(k + 1) \cap set
      BY <2>1, <2>4, <2>6
    <3>3. InOrder(before, k + 1)
      BY <2>1, <2>2
    <3>4. QED
      BY <2>1, <3>1, <3>2, <3>3
  <2>7. QED
    BY <2>5, <2>6
<1>5. n \in G
  <2> HIDE DEF G
  <2>1. QED
    BY <1>2, <1>3, <1>4, NaturalsAll
<1>6. Range(seq) = First(n)
  BY <1>2 DEF Range
<1>7. Fine(h[n], n)
  BY <1>2, <1>5
<1>8. QED
  <2> DEFINE out == h[n]
  <2>1. out \in Seq(X) /\ Range(out) = Range(seq) \cap set /\ InOrder(out, n) /\ Only(seq, set) = out
    BY <1>1, <1>6, <1>7
  <2> HIDE DEF out
  <2>2. QED
    BY <1>2, <2>1

--------------------------------------------------------------------------------
(* What a frame's detections and poses are. *)

DecodedInv ==
  pc # "decode" => /\ Range(detections) = Wanted("ppe") /\ Range(poses) = Wanted("pose")
                   /\ detections \in Seq(Predictions) /\ poses \in Seq(Predictions)

(* A prediction is one in the frame, too. *)
LEMMA RestoredIsABox ==
  ASSUME NEW box \in Boxes
  PROVE  Restored(Transform, box) \in Boxes
<1>1. /\ box.x1 \in Int /\ box.y1 \in Int /\ box.x2 \in Int /\ box.y2 \in Int
      /\ Transform.width \in Int /\ Transform.height \in Int
      /\ Transform.resizedWidth \in Nat \ {0} /\ Transform.resizedHeight \in Nat \ {0}
      /\ Transform.left \in Int /\ Transform.top \in Int
  <2>1. \A side \in {"width", "height", "resizedWidth", "resizedHeight"} : Transform[side] \in Nat \ {0}
    BY FrameAssumption
  <2>2. QED
    BY <2>1, FrameAssumption DEF Boxes
<1>2. ASSUME NEW a \in Int, NEW w \in Int PROVE Clamped(a, w) \in Int
  BY DEF Clamped, Greatest, Least
<1>3. ASSUME NEW x \in Int PROVE RestoredX(Transform, x) \in Int
  <2> DEFINE p == (x - Transform.left) * Transform.width
             q == Transform.resizedWidth
  <2>1. p \in Int /\ q \in Nat \ {0}
    BY <1>1
  <2> HIDE DEF p, q
  <2>2. p \div q \in Int
    BY <2>1
  <2>3. QED
    BY <1>1, <1>2, <2>2 DEF RestoredX, p, q
<1>4. ASSUME NEW y \in Int PROVE RestoredY(Transform, y) \in Int
  <2> DEFINE p == (y - Transform.top) * Transform.height
             q == Transform.resizedHeight
  <2>1. p \in Int /\ q \in Nat \ {0}
    BY <1>1
  <2> HIDE DEF p, q
  <2>2. p \div q \in Int
    BY <2>1
  <2>3. QED
    BY <1>1, <1>2, <2>2 DEF RestoredY, p, q
<1>5. QED
  BY <1>1, <1>3, <1>4 DEF Restored, Boxes

(* The cut output, in the frame and without the empty boxes. *)
LEMMA SelectedKeepsTheBest ==
  ASSUME NEW heap, Distinct(heap), format \in {"raw", "end_to_end"}
  PROVE  /\ Range(Selected(heap)) =
              {p \in {InFrame(q) : q \in BestOf(MaxDetections, Survivors(heap))} : Area(p.box) > 0}
         /\ Selected(heap) \in Seq(Predictions)
<1> DEFINE kept == Nms(heap)
           inFrame == [i \in 1..Len(kept) |-> InFrame(kept[i])]
           large == {p \in Range(inFrame) : Area(p.box) > 0}
<1>1. kept \in Seq(Predictions) /\ Range(kept) = BestOf(MaxDetections, Survivors(heap))
  BY NmsKeepsTheBest
<1>2. Selected(heap) = Only(inFrame, large)
  BY DEF Selected
<1> HIDE DEF kept
<1>3. \A p \in Predictions : InFrame(p) \in Predictions
  BY RestoredIsABox DEF InFrame, Predictions
<1>4. Len(kept) \in Nat /\ \A i \in 1..Len(kept) : kept[i] \in Predictions
  BY <1>1
<1>5. inFrame \in Seq(Predictions)
  BY <1>3, <1>4
<1>6. Range(inFrame) = {InFrame(q) : q \in Range(kept)}
  <2>1. DOMAIN kept = 1..Len(kept) /\ DOMAIN inFrame = 1..Len(kept)
    BY <1>1
  <2>2. QED
    BY <2>1 DEF Range
<1>7. Range(Only(inFrame, large)) = Range(inFrame) \cap large /\ Only(inFrame, large) \in Seq(Predictions)
  <2> HIDE DEF inFrame, large
  <2>1. QED
    BY <1>5, OnlyKeeps
<1>8. QED
  BY <1>1, <1>2, <1>6, <1>7

(* Between them the heap and the cut keep what is wanted of the whole tensor. *)
LEMMA HeldAreWanted ==
  ASSUME TensorInv, NEW m \in Models
  PROVE  /\ Distinct(Held(m, tensor))
         /\ Range(Selected(Held(m, tensor))) = Wanted(m)
         /\ Selected(Held(m, tensor)) \in Seq(Predictions)
<1> DEFINE good == Good(m, tensor)
           heap == Held(m, tensor)
           free == Survivors(IF format = "end_to_end" THEN good ELSE BestOf(MaxCandidates, good))
<1>1. MaxCandidates \in Nat /\ MaxDetections \in Nat /\ MaxDetections <= MaxCandidates
  BY FrameAssumption
<1>2. format \in {"raw", "end_to_end"} /\ Distinct(tensor)
  BY FrameAssumption DEF TensorInv, Distinct
<1>3. Distinct(good)
  BY <1>2, DistinctParts DEF Good
<1>4. Distinct(BestOf(MaxCandidates, good))
  BY <1>1, <1>3, BestAreMany
<1>5. Distinct(heap)
  BY <1>3, <1>4 DEF Held
<1>6. BestOf(MaxDetections, Survivors(heap)) = BestOf(MaxDetections, free)
  <2>1. CASE format = "raw"
    BY <2>1 DEF Held
  <2>2. CASE format = "end_to_end" /\ m = "ppe"
    BY <2>2 DEF Held
  <2>3. CASE format = "end_to_end" /\ m = "pose"
    <3>1. Survivors(heap) = BestOf(MaxCandidates, good) /\ free = good
      BY <2>3 DEF Held, Survivors
    <3>2. QED
      BY <1>1, <1>3, <3>1, BestOfBest
  <2>4. QED
    BY <1>2, <2>1, <2>2, <2>3 DEF Models
<1>7. Wanted(m) = {p \in {InFrame(q) : q \in BestOf(MaxDetections, free)} : Area(p.box) > 0}
  BY DEF Wanted
<1> HIDE DEF good, heap, free
<1>8. QED
  BY <1>2, <1>5, <1>6, <1>7, SelectedKeepsTheBest DEF heap

DecodingInv == TensorInv /\ CandidatesInv /\ DecodedInv

(* Every step keeps what is known of the tensor and what became of it. *)
LEMMA DecodingCorrect == FrameSpec => []DecodingInv
<1>1. FrameInit => DecodingInv
  <2> SUFFICES ASSUME FrameInit PROVE DecodingInv
    OBVIOUS
  <2>1. TensorInv
    BY DEF FrameInit, TensorInv
  <2>2. \A m \in Models : Held(m, read) = {}
    BY DEF FrameInit, Held, Good, BestOf
  <2>3. CandidatesInv /\ DecodedInv
    BY <2>2 DEF FrameInit, CandidatesInv, DecodedInv
  <2>4. QED
    BY <2>1, <2>3 DEF DecodingInv
<1>2. DecodingInv /\ [FrameNext]_frameVars => DecodingInv'
  <2> SUFFICES ASSUME DecodingInv, [FrameNext]_frameVars PROVE DecodingInv'
    OBVIOUS
  <2>1. ASSUME NEW p \in tensor, Read(p) PROVE DecodingInv'
    <3>1. CandidatesInv'
      BY <2>1, ReadKeepsTheBest DEF DecodingInv
    <3>2. TensorInv' /\ DecodedInv'
      BY <2>1 DEF DecodingInv, TensorInv, DecodedInv, Read
    <3>3. QED
      BY <3>1, <3>2 DEF DecodingInv
  <2>2. CASE Decode
    <3>1. TensorInv'
      BY <2>2 DEF DecodingInv, TensorInv, Decode
    <3>2. CandidatesInv'
      <4>1. UNCHANGED <<candidates, read, format>>
        BY <2>2 DEF Decode
      <4>2. QED
        BY <4>1 DEF DecodingInv, CandidatesInv, Held, Good, BestOf, Acceptable
    <3>3. DecodedInv'
      <4>1. /\ UNCHANGED <<tensor, format>>
            /\ detections' = Selected(candidates["ppe"]) /\ poses' = Selected(candidates["pose"])
        BY <2>2 DEF Decode
      <4>2. candidates["ppe"] = Held("ppe", tensor) /\ candidates["pose"] = Held("pose", tensor)
        BY <2>2 DEF DecodingInv, CandidatesInv, Decode, Models
      <4>3. "ppe" \in Models /\ "pose" \in Models
        BY DEF Models
      <4>4. /\ Range(detections') = Wanted("ppe") /\ Range(poses') = Wanted("pose")
            /\ detections' \in Seq(Predictions) /\ poses' \in Seq(Predictions)
        BY <4>1, <4>2, <4>3, HeldAreWanted DEF DecodingInv
      <4>5. \A m : Wanted(m)' = Wanted(m)
        BY <4>1 DEF Wanted, Survivors, Good
      <4>6. QED
        BY <4>4, <4>5 DEF DecodedInv
    <3>4. QED
      BY <3>1, <3>2, <3>3 DEF DecodingInv
  <2>3. CASE Track \/ Associate \/ UNCHANGED frameVars
    <3>1. /\ UNCHANGED <<mode, format, tensor, read, candidates, detections, poses>>
          /\ pc' = pc \/ (pc # "decode" /\ pc' \in {"associate", "done"})
      BY <2>3 DEF Track, Associate, frameVars
    <3>2. TensorInv'
      BY <3>1 DEF DecodingInv, TensorInv
    <3>3. CandidatesInv'
      BY <3>1 DEF DecodingInv, CandidatesInv, Held, Good, BestOf, Acceptable
    <3>4. DecodedInv'
      <4>1. \A m : Wanted(m)' = Wanted(m)
        BY <3>1 DEF Wanted, Survivors, Good
      <4>2. QED
        BY <3>1, <4>1 DEF DecodingInv, DecodedInv
    <3>5. QED
      BY <3>2, <3>3, <3>4 DEF DecodingInv
  <2>4. QED
    BY <2>1, <2>2, <2>3 DEF FrameNext
<1>3. QED
  BY <1>1, <1>2, PTL DEF FrameSpec

(* Whatever the order in which a model lists its predictions, however many it
   lists and in whichever of the two formats, a frame's detections and poses are
   the best of those that no better one covers (BoundedCandidates::add and nms in
   yolo_decode.cpp). *)
THEOREM FrameKeepsTheBest == FrameSpec => []DetectionsAreTheBest
<1>1. DecodingInv => DetectionsAreTheBest
  BY DEF DecodingInv, DecodedInv, DetectionsAreTheBest
<1>2. QED
  BY <1>1, DecodingCorrect, PTL

--------------------------------------------------------------------------------
(* The order of the overlaps. *)

(* To compare fractions with positive denominators is transitive. *)
LEMMA FractionsAreOrdered ==
  ASSUME NEW a \in Nat, NEW b \in Nat \ {0}, NEW c \in Nat, NEW d \in Nat \ {0},
         NEW e \in Nat, NEW f \in Nat \ {0},
         a * d >= c * b, c * f >= e * d
  PROVE  /\ a * f >= e * b
         /\ a * d > c * b \/ c * f > e * d => a * f > e * b
<1> DEFINE p == a * d
           q == c * b
           r == c * f
           s == e * d
           u == a * f
           v == e * b
<1>1. p \in Nat /\ q \in Nat /\ r \in Nat /\ s \in Nat /\ u \in Nat /\ v \in Nat
  OBVIOUS
<1>2. p * f = u * d /\ q * f = r * b /\ s * b = v * d
  OBVIOUS
<1>3. p >= q /\ r >= s
  OBVIOUS
<1> HIDE DEF p, q, r, s, u, v
<1>4. ASSUME NEW x \in Nat, NEW y \in Nat, NEW z \in Nat \ {0}
      PROVE  /\ x >= y => x * z >= y * z
             /\ x > y => x * z > y * z
             /\ x * z >= y * z => x >= y
             /\ x * z > y * z => x > y
  OBVIOUS
<1>5. p * f >= q * f /\ r * b >= s * b
  BY <1>1, <1>3, <1>4
<1>6. (p > q => p * f > q * f) /\ (r > s => r * b > s * b)
  BY <1>1, <1>4
<1>7. u * d >= v * d /\ (p > q \/ r > s => u * d > v * d)
  <2>1. p * f \in Nat /\ q * f \in Nat /\ s * b \in Nat /\ r * b \in Nat
    BY <1>1
  <2>2. QED
    BY <1>2, <1>5, <1>6, <2>1
<1>8. u >= v /\ (p > q \/ r > s => u > v)
  BY <1>1, <1>4, <1>7
<1>9. QED
  BY <1>8 DEF p, q, r, s, u, v

(* What two boxes cover, and what they have in common. *)
LEMMA AreasAreNatural ==
  ASSUME NEW a \in Boxes, NEW b \in Boxes
  PROVE  Area(a) \in Nat /\ Common(a, b) \in Nat
<1>1. \A x \in Int : Greatest(0, x) \in Nat
  BY DEF Greatest
<1>2. \A x, y \in Int : Greatest(x, y) \in Int /\ Least(x, y) \in Int
  BY DEF Greatest, Least
<1>3. \A x, y \in Nat : x * y \in Nat
  OBVIOUS
<1>4. /\ a.x1 \in Int /\ a.y1 \in Int /\ a.x2 \in Int /\ a.y2 \in Int
      /\ b.x1 \in Int /\ b.y1 \in Int /\ b.x2 \in Int /\ b.y2 \in Int
  BY DEF Boxes
<1>5. Area(a) \in Nat
  <2> DEFINE wide == Greatest(0, a.x2 - a.x1)
             high == Greatest(0, a.y2 - a.y1)
  <2>1. a.x2 - a.x1 \in Int /\ a.y2 - a.y1 \in Int
    BY <1>4
  <2>2. wide \in Nat /\ high \in Nat
    BY <1>1, <2>1
  <2>3. Area(a) = wide * high
    BY DEF Area
  <2> HIDE DEF wide, high
  <2>4. QED
    BY <1>3, <2>2, <2>3
<1>6. Common(a, b) \in Nat
  <2> DEFINE wide == Greatest(0, Least(a.x2, b.x2) - Greatest(a.x1, b.x1))
             high == Greatest(0, Least(a.y2, b.y2) - Greatest(a.y1, b.y1))
  <2>1. /\ Least(a.x2, b.x2) \in Int /\ Greatest(a.x1, b.x1) \in Int
        /\ Least(a.y2, b.y2) \in Int /\ Greatest(a.y1, b.y1) \in Int
    BY <1>2, <1>4
  <2>2. Least(a.x2, b.x2) - Greatest(a.x1, b.x1) \in Int /\ Least(a.y2, b.y2) - Greatest(a.y1, b.y1) \in Int
    BY <2>1
  <2>3. wide \in Nat /\ high \in Nat
    BY <1>1, <2>2
  <2>4. Common(a, b) = wide * high
    BY DEF Common
  <2> HIDE DEF wide, high
  <2>5. QED
    BY <1>3, <2>3, <2>4
<1>7. QED
  BY <1>5, <1>6

(* The tracks of a frame, as BYTETrack may answer them. *)
FoundTracks(found) ==
  /\ IsFiniteSet(found) /\ found \subseteq [id : Nat, box : Boxes]
  /\ \A t, u \in found : t = u \/ t.id # u.id

(* An overlap of a track and a row: a positive fraction. *)
LEMMA OverlapsAreFractions ==
  ASSUME NEW found, FoundTracks(found), NEW rows \in Seq(Predictions),
         NEW p \in Overlapping(found, rows)
  PROVE  /\ p.track \in found /\ p.track.id \in Nat /\ p.row \in 1..Len(rows)
         /\ p.iou[1] \in Nat \ {0} /\ p.iou[2] \in Nat \ {0}
         /\ p = [track |-> p.track, row |-> p.row, iou |-> Iou(p.track.box, rows[p.row].box)]
<1>1. PICK t \in found, i \in 1..Len(rows) :
         p = [track |-> t, row |-> i, iou |-> Iou(t.box, rows[i].box)]
  BY DEF Overlapping, Pairs
<1>2. t.box \in Boxes /\ t.id \in Nat /\ rows[i].box \in Boxes
  <2>1. rows[i] \in Predictions
    OBVIOUS
  <2>2. t \in [id : Nat, box : Boxes]
    BY DEF FoundTracks
  <2>3. QED
    BY <2>1, <2>2 DEF Predictions
<1> DEFINE a == t.box
           b == rows[i].box
<1>3. a \in Boxes /\ b \in Boxes
  BY <1>2
<1>4. p.iou = Iou(a, b) /\ p.iou[1] > 0
  BY <1>1 DEF Overlapping
<1> HIDE DEF a, b
<1>5. Common(a, b) \in Nat /\ Area(a) \in Nat /\ Area(b) \in Nat
  BY <1>3, AreasAreNatural
<1>6. Union(a, b) \in Int
  BY <1>5 DEF Union
<1>7. Iou(a, b) = IF Union(a, b) > 0 THEN <<Common(a, b), Union(a, b)>> ELSE <<0, 1>>
  BY DEF Iou
<1>8. p.iou[1] \in Nat \ {0} /\ p.iou[2] \in Nat \ {0}
  BY <1>4, <1>5, <1>6, <1>7
<1>9. QED
  BY <1>1, <1>2, <1>8

(* The greedy order never comes back to where it was. *)
LEMMA CloserIsOrder ==
  ASSUME NEW found, FoundTracks(found), NEW rows \in Seq(Predictions),
         NEW p \in Overlapping(found, rows), NEW q \in Overlapping(found, rows),
         NEW r \in Overlapping(found, rows)
  PROVE  ~Closer(p, p) /\ (Closer(p, q) /\ Closer(q, r) => Closer(p, r))
<1>0. \A x, y \in Nat : x * y \in Nat
  OBVIOUS
<1>1. \A x \in {p, q, r} : /\ x.track.id \in Nat /\ x.row \in Nat
                           /\ x.iou[1] \in Nat \ {0} /\ x.iou[2] \in Nat \ {0}
  BY OverlapsAreFractions
<1> DEFINE MoreOrSame(x, y) == x.iou[1] * y.iou[2] >= y.iou[1] * x.iou[2]
<1>2. \A x, y \in {p, q, r} : /\ MoreOrSame(x, y) <=> ~More(y.iou, x.iou)
                              /\ More(x.iou, y.iou) => MoreOrSame(x, y)
  <2> SUFFICES ASSUME NEW x \in {p, q, r}, NEW y \in {p, q, r}
               PROVE  /\ MoreOrSame(x, y) <=> ~More(y.iou, x.iou)
                      /\ More(x.iou, y.iou) => MoreOrSame(x, y)
    OBVIOUS
  <2>1. x.iou[1] * y.iou[2] \in Nat /\ y.iou[1] * x.iou[2] \in Nat
    BY <1>0, <1>1
  <2>2. QED
    BY <2>1 DEF More
<1>3. MoreOrSame(p, q) /\ MoreOrSame(q, r) =>
        MoreOrSame(p, r) /\ (More(p.iou, q.iou) \/ More(q.iou, r.iou) => More(p.iou, r.iou))
  <2> DEFINE a == p.iou[1]
             b == p.iou[2]
             c == q.iou[1]
             d == q.iou[2]
             e == r.iou[1]
             f == r.iou[2]
  <2>1. a \in Nat /\ b \in Nat \ {0} /\ c \in Nat /\ d \in Nat \ {0} /\ e \in Nat /\ f \in Nat \ {0}
    BY <1>1
  <2>2. /\ MoreOrSame(p, q) <=> a * d >= c * b
        /\ MoreOrSame(q, r) <=> c * f >= e * d
        /\ MoreOrSame(p, r) <=> a * f >= e * b
        /\ More(p.iou, q.iou) <=> a * d > c * b
        /\ More(q.iou, r.iou) <=> c * f > e * d
        /\ More(p.iou, r.iou) <=> a * f > e * b
    BY DEF More
  <2> HIDE DEF a, b, c, d, e, f, MoreOrSame
  <2>3. a * d >= c * b /\ c * f >= e * d => a * f >= e * b /\ (a * d > c * b \/ c * f > e * d => a * f > e * b)
    BY <2>1, FractionsAreOrdered
  <2>4. QED
    BY <2>2, <2>3
<1> HIDE DEF MoreOrSame
<1>4. ~Closer(p, p)
  <2>1. ~More(p.iou, p.iou)
    <3>1. p.iou[1] * p.iou[2] \in Nat
      BY <1>0, <1>1
    <3>2. QED
      BY <3>1 DEF More
  <2>2. QED
    BY <1>1, <2>1 DEF Closer
<1>5. ASSUME Closer(p, q), Closer(q, r) PROVE Closer(p, r)
  <2>1. MoreOrSame(p, q) /\ MoreOrSame(q, r)
    BY <1>2, <1>5 DEF Closer
  <2>2. CASE More(p.iou, q.iou) \/ More(q.iou, r.iou)
    BY <1>3, <2>1, <2>2 DEF Closer
  <2>3. CASE ~More(p.iou, q.iou) /\ ~More(q.iou, r.iou)
    <3>1. ~More(r.iou, p.iou)
      BY <1>2, <1>3, <2>1
    <3>2. /\ p.track.id < q.track.id \/ (p.track.id = q.track.id /\ p.row < q.row)
          /\ q.track.id < r.track.id \/ (q.track.id = r.track.id /\ q.row < r.row)
      BY <1>5, <2>3 DEF Closer
    <3>3. p.track.id < r.track.id \/ (p.track.id = r.track.id /\ p.row < r.row)
      BY <1>1, <3>2
    <3>4. QED
      BY <3>1, <3>3 DEF Closer
  <2>4. QED
    BY <2>2, <2>3
<1>6. QED
  BY <1>4, <1>5

(* The overlaps can be sorted: there are finitely many. *)
LEMMA OverlapsAreFinite ==
  ASSUME NEW found, FoundTracks(found), NEW rows \in Seq(Predictions)
  PROVE  IsFiniteSet(Overlapping(found, rows))
<1> DEFINE Pair(x) == [track |-> x[1], row |-> x[2], iou |-> Iou(x[1].box, rows[x[2]].box)]
           both == found \X (1..Len(rows))
           pairing == [x \in both |-> Pair(x)]
           all == {pairing[x] : x \in both}
<1>1. IsFiniteSet(found) /\ IsFiniteSet(1..Len(rows))
  <2>1. Len(rows) \in Int
    OBVIOUS
  <2>2. QED
    BY <2>1, FS_Interval DEF FoundTracks
<1>2. IsFiniteSet(found \X (1..Len(rows)))
  BY <1>1, FS_Product
<1>3. IsFiniteSet(all)
  <2>1. pairing \in Surjection(both, all)
    BY DEF Surjection
  <2> HIDE DEF pairing, all
  <2>2. QED
    BY <1>2, <2>1, FS_Surjection
<1>4. Pairs(found, rows) \subseteq all
  <2>1. ASSUME NEW t \in found, NEW i \in 1..Len(rows)
        PROVE  [track |-> t, row |-> i, iou |-> Iou(t.box, rows[i].box)] \in all
    <3>1. <<t, i>> \in found \X (1..Len(rows)) /\ <<t, i>>[1] = t /\ <<t, i>>[2] = i
      OBVIOUS
    <3>2. Pair(<<t, i>>) = [track |-> t, row |-> i, iou |-> Iou(t.box, rows[i].box)]
      BY <3>1
    <3>3. pairing[<<t, i>>] = Pair(<<t, i>>)
      BY <3>1
    <3>4. QED
      BY <3>1, <3>2, <3>3
  <2>2. QED
    <3> HIDE DEF all
    <3>1. QED
      BY <2>1 DEF Pairs
<1>5. Overlapping(found, rows) \in SUBSET all
  BY <1>4 DEF Overlapping
<1>6. QED
  BY <1>3, <1>5, FS_Subset

(* Of some overlaps one is not closer than any other: the one that comes last. *)
LEMMA LoosestIsLast ==
  ASSUME NEW found, FoundTracks(found), NEW rows \in Seq(Predictions),
         NEW part \in SUBSET Overlapping(found, rows), part # {}
  PROVE  Loosest(part) \in part /\ \A q \in part : ~Closer(Loosest(part), q)
<1> DEFINE set == Overlapping(found, rows)
           HasLast(t) == \E w \in t : \A p \in t : ~Closer(w, p)
           G == {t \in SUBSET set : t = {} \/ HasLast(t)}
<1>0. \A p, q, r \in set : ~Closer(p, p) /\ (Closer(p, q) /\ Closer(q, r) => Closer(p, r))
  BY CloserIsOrder
<1> HIDE DEF set
<1>1. ASSUME NEW t \in SUBSET set, t # {}
      PROVE  \E x \in t : t \ {x} \in G => t \in G
  <2>1. PICK x \in t : TRUE
    BY <1>1
  <2>2. ASSUME t \ {x} \in G PROVE t \in G
    <3>1. CASE t \ {x} = {}
      <4>1. \A p \in t : ~Closer(x, p)
        BY <1>0, <2>1, <3>1
      <4>2. QED
        BY <2>1, <4>1
    <3>2. CASE HasLast(t \ {x})
      <4>1. PICK w \in t \ {x} : \A p \in t \ {x} : ~Closer(w, p)
        BY <3>2
      <4>2. CASE Closer(w, x)
        <5>1. \A p \in t : ~Closer(x, p)
          BY <1>0, <2>1, <4>1, <4>2
        <5>2. QED
          BY <2>1, <5>1
      <4>3. CASE ~Closer(w, x)
        BY <4>1, <4>3
      <4>4. QED
        BY <4>2, <4>3
    <3>3. QED
      BY <2>2, <3>1, <3>2
  <2>3. QED
    BY <2>1, <2>2
<1>2. part \in G
  <2>1. IsFiniteSet(set) /\ {} \in G /\ part \in SUBSET set
    BY OverlapsAreFinite DEF set
  <2> HIDE DEF G
  <2>2. QED
    BY <1>1, <2>1, FiniteSetsAll
<1>3. QED
  BY <1>2 DEF Loosest

NextTaken(taken, p) == IF Free(taken, p) THEN [taken EXCEPT ![p.row] = p.track.id] ELSE taken

(* g gives the greedy matching of each part of the overlaps. *)
MatchedBy(g, found, rows) ==
  /\ Matched(found, rows) = g[Overlapping(found, rows)]
  /\ g[{}] = [i \in 1..Len(rows) |-> -1]
  /\ \A t \in SUBSET Overlapping(found, rows) :
       t # {} => g[t] = NextTaken(g[t \ {Loosest(t)}], Loosest(t))

(* The greedy matching has a result for each part of the overlaps. *)
LEMMA MatchedUnfolds ==
  ASSUME NEW found, FoundTracks(found), NEW rows \in Seq(Predictions)
  PROVE  \E g : MatchedBy(g, found, rows)
<1> DEFINE set == Overlapping(found, rows)
           nobody == [i \in 1..Len(rows) |-> -1]
           V == [1..Len(rows) -> Int]
           op == [x \in set |-> [taken \in V |-> NextTaken(taken, x)]]
           choice == [t \in SUBSET set |-> Loosest(t)]
           Value(g, t) == IF t = {} THEN nobody ELSE NextTaken(g[t \ {Loosest(t)}], Loosest(t))
           iter == CHOOSE iter : iter = [t \in SUBSET set |-> Value(iter, t)]
<1>1. \A t \in SUBSET set : t # {} => Loosest(t) \in t
  BY LoosestIsLast
<1>2. op \in [set -> [V -> V]] /\ nobody \in V
  <2>1. \A x \in set : x.row \in 1..Len(rows) /\ x.track.id \in Int
    BY OverlapsAreFractions
  <2>2. \A x \in set, taken \in V : NextTaken(taken, x) \in V
    BY <2>1 DEF NextTaken
  <2>3. QED
    BY <2>2
<1>3. \E g \in [SUBSET set -> V] : FoldOf(g, set, nobody, op, choice)
  <2>1. IsFiniteSet(set) /\ Chooses(choice, set) /\ nobody \in V /\ op \in [set -> [V -> V]]
    BY <1>1, <1>2, OverlapsAreFinite DEF Chooses
  <2> HIDE DEF V, op, choice, nobody, set
  <2>2. QED
    BY <2>1, FoldExists
<1>4. PICK g \in [SUBSET set -> V] :
         \A t \in SUBSET set : g[t] = IF t = {} THEN nobody ELSE op[choice[t]][g[t \ {choice[t]}]]
  BY <1>3 DEF FoldOf
<1>5. \A t \in SUBSET set : g[t] = Value(g, t)
  <2> SUFFICES ASSUME NEW t \in SUBSET set, t # {} PROVE g[t] = NextTaken(g[t \ {Loosest(t)}], Loosest(t))
    BY <1>4
  <2>1. t \ {Loosest(t)} \in SUBSET set /\ Loosest(t) \in set /\ choice[t] = Loosest(t)
    BY <1>1
  <2>2. g[t \ {Loosest(t)}] \in V
    BY <2>1
  <2>3. g[t] = op[Loosest(t)][g[t \ {Loosest(t)}]]
    BY <1>4, <2>1
  <2>4. QED
    BY <2>1, <2>2, <2>3
<1>6. g = [t \in SUBSET set |-> Value(g, t)]
  BY <1>5
<1>7. iter = [t \in SUBSET set |-> Value(iter, t)]
  <2> HIDE DEF Value
  <2>1. QED
    BY <1>6
<1>8. Matched(found, rows) = iter[set]
  BY DEF Matched, MapThenFoldSet, NextTaken
<1>9. iter[{}] = nobody /\ \A t \in SUBSET set : t # {} => iter[t] = NextTaken(iter[t \ {Loosest(t)}], Loosest(t))
  <2> HIDE DEF iter, set, nobody
  <2>1. \A t \in SUBSET set : iter[t] = Value(iter, t)
    BY <1>7
  <2>2. QED
    BY <2>1
<1>10. MatchedBy(iter, found, rows)
  <2> HIDE DEF iter
  <2>1. QED
    BY <1>8, <1>9 DEF MatchedBy
<1>11. QED
  BY <1>10

(* A matching of some of the overlaps: each track has one row at most, each row
   that is taken is so by an overlap, and an overlap that is not used meets one that
   is, at least as close, at its row or its track. *)
StableMatching(taken, part, n) ==
  /\ taken \in [1..n -> Int]
  /\ \A i \in 1..n : taken[i] = -1 \/ \E q \in part : q.row = i /\ q.track.id = taken[i]
  /\ \A i, j \in 1..n : taken[i] = taken[j] /\ taken[i] >= 0 => i = j
  /\ \A p \in part :
       \/ taken[p.row] = p.track.id
       \/ \E q \in part : /\ taken[q.row] = q.track.id
                          /\ (q.row = p.row \/ q.track = p.track)
                          /\ ~More(p.iou, q.iou)

(* The greedy matching is one. *)
LEMMA MatchedIsStable ==
  ASSUME NEW found, FoundTracks(found), NEW rows \in Seq(Predictions)
  PROVE  StableMatching(Matched(found, rows), Overlapping(found, rows), Len(rows))
<1>0. PICK g : MatchedBy(g, found, rows)
  BY MatchedUnfolds
<1>1. /\ Matched(found, rows) = g[Overlapping(found, rows)]
      /\ g[{}] = [i \in 1..Len(rows) |-> -1]
      /\ \A t \in SUBSET Overlapping(found, rows) :
           t # {} => g[t] = NextTaken(g[t \ {Loosest(t)}], Loosest(t))
  BY <1>0 DEF MatchedBy
<1> DEFINE set == Overlapping(found, rows)
           n == Len(rows)
           G == {t \in SUBSET set : StableMatching(g[t], t, n)}
<1>2. \A p \in set : p.track \in found /\ p.track.id \in Nat /\ p.row \in 1..n
  BY OverlapsAreFractions
<1>3. {} \in G
  <2>1. g[{}] \in [1..n -> Int] /\ \A i \in 1..n : g[{}][i] = -1
    BY <1>1
  <2>2. QED
    BY <2>1 DEF StableMatching
<1>4. ASSUME NEW t \in SUBSET set, t # {}, t \ {Loosest(t)} \in G PROVE t \in G
  <2> DEFINE p == Loosest(t)
             rest == t \ {p}
             old == g[rest]
             new == g[t]
  <2>1. p \in t /\ \A q \in t : ~Closer(p, q)
    BY <1>4, LoosestIsLast
  <2>2. \A q \in t : ~More(p.iou, q.iou)
    BY <2>1 DEF Closer
  <2>3. StableMatching(old, rest, n)
    BY <1>4
  <2>4. new = NextTaken(old, p)
    BY <1>1, <1>4
  <2>5. n \in Nat /\ p.row \in 1..n /\ p.track.id \in Nat /\ \A q \in t : q.row \in 1..n /\ q.track.id \in Nat
    BY <1>2, <2>1
  <2>6. \A q \in t : q.track.id = p.track.id => q.track = p.track
    BY <1>2, <2>1 DEF FoundTracks
  <2> HIDE DEF p, old, new, n, set
  <2>7. CASE Free(old, p)
    <3>1. new \in [1..n -> Int] /\ new[p.row] = p.track.id /\ \A i \in 1..n : i # p.row => new[i] = old[i]
      BY <2>3, <2>4, <2>5, <2>7 DEF NextTaken, StableMatching
    <3>2. old[p.row] < 0 /\ \A i \in 1..n : old[i] # p.track.id
      BY <2>3, <2>7 DEF Free, StableMatching
    <3>3. \A i \in 1..n : new[i] = -1 \/ \E q \in t : q.row = i /\ q.track.id = new[i]
      BY <2>1, <2>3, <3>1 DEF StableMatching
    <3>4. \A i, j \in 1..n : new[i] = new[j] /\ new[i] >= 0 => i = j
      BY <2>3, <2>5, <3>1, <3>2 DEF StableMatching
    <3>5. \A q \in rest : old[q.row] = q.track.id => new[q.row] = q.track.id
      BY <2>5, <3>1, <3>2
    <3>6. ASSUME NEW r \in t
          PROVE  \/ new[r.row] = r.track.id
                 \/ \E q \in t : /\ new[q.row] = q.track.id
                                 /\ (q.row = r.row \/ q.track = r.track)
                                 /\ ~More(r.iou, q.iou)
      <4>1. CASE r = p
        BY <3>1, <4>1
      <4>2. CASE r # p
        BY <2>3, <3>5, <4>2 DEF StableMatching
      <4>3. QED
        BY <4>1, <4>2
    <3>7. StableMatching(new, t, n)
      BY <3>1, <3>3, <3>4, <3>6 DEF StableMatching
    <3>8. QED
      BY <3>7 DEF new
  <2>8. CASE ~Free(old, p)
    <3>1. new = old
      BY <2>4, <2>8 DEF NextTaken
    <3>2. PICK q \in rest : old[q.row] = q.track.id /\ (q.row = p.row \/ q.track = p.track)
      <4>1. CASE ~(old[p.row] < 0)
        <5>1. old[p.row] # -1
          BY <2>3, <2>5, <4>1 DEF StableMatching
        <5>2. QED
          BY <2>3, <2>5, <5>1 DEF StableMatching
      <4>2. CASE \E i \in DOMAIN old : old[i] = p.track.id
        <5>1. PICK i \in 1..n : old[i] = p.track.id
          BY <2>3, <4>2 DEF StableMatching
        <5>2. old[i] # -1
          BY <2>5, <5>1
        <5>3. QED
          BY <2>3, <2>6, <5>1, <5>2 DEF StableMatching
      <4>3. QED
        BY <2>8, <4>1, <4>2 DEF Free
    <3>3. ~More(p.iou, q.iou)
      BY <2>2
    <3>4. StableMatching(old, t, n)
      <4>1. \A i \in 1..n : old[i] = -1 \/ \E r \in t : r.row = i /\ r.track.id = old[i]
        BY <2>3 DEF StableMatching
      <4>2. ASSUME NEW r \in t
            PROVE  \/ old[r.row] = r.track.id
                   \/ \E s \in t : /\ old[s.row] = s.track.id
                                   /\ (s.row = r.row \/ s.track = r.track)
                                   /\ ~More(r.iou, s.iou)
        <5>1. CASE r = p
          BY <3>2, <3>3, <5>1
        <5>2. CASE r # p
          BY <2>3, <5>2 DEF StableMatching
        <5>3. QED
          BY <5>1, <5>2
      <4>3. QED
        BY <2>3, <4>1, <4>2 DEF StableMatching
    <3>5. QED
      BY <3>1, <3>4 DEF new
  <2>9. QED
    BY <2>7, <2>8
<1>5. set \in G
  <2>1. \A t \in SUBSET set : t # {} => \E x \in t : t \ {x} \in G => t \in G
    BY <1>4, LoosestIsLast
  <2>2. IsFiniteSet(set) /\ set \in SUBSET set
    BY OverlapsAreFinite
  <2> HIDE DEF G, set
  <2>3. QED
    BY <1>3, <2>1, <2>2, FiniteSetsAll
<1>6. QED
  BY <1>1, <1>5

--------------------------------------------------------------------------------
(* Who wears a detection. *)

People == [track : Nat, row : Predictions]

(* A score is a natural number. *)
LEMMA ScoresAreNatural ==
  ASSUME NEW item \in Predictions, NEW person \in People
  PROVE  Score(item, person) \in Nat
<1> DEFINE box == person.row.box
           region == Region(box, item.class)
           large == Hundredfold(item.box)
<1>1. item.box \in Boxes /\ box \in Boxes
  BY DEF Predictions, People
<1>2. large \in Boxes
  BY <1>1 DEF Hundredfold, Boxes
<1>3. region \in Boxes
  <2> DEFINE r == RegionOf(item.class)
             width == Greatest(1, box.x2 - box.x1)
             height == Greatest(1, box.y2 - box.y1)
  <2>1. box.x1 \in Int /\ box.x2 \in Int /\ box.y1 \in Int /\ box.y2 \in Int
    BY <1>1 DEF Boxes
  <2>2. r.side \in Int /\ r.from \in Int /\ r.to \in Int
    BY DEF RegionOf
  <2>3. width \in Int /\ height \in Int
    BY <2>1 DEF Greatest
  <2>4. region = [x1 |-> 100 * box.x1 - r.side * width, x2 |-> 100 * box.x2 + r.side * width,
                  y1 |-> 100 * box.y1 + r.from * height, y2 |-> 100 * box.y1 + r.to * height]
    BY DEF Region
  <2> HIDE DEF r, width, height, box, region
  <2>5. r.side * width \in Int /\ r.from * height \in Int /\ r.to * height \in Int
    BY <2>2, <2>3
  <2>6. /\ 100 * box.x1 - r.side * width \in Int /\ 100 * box.x2 + r.side * width \in Int
        /\ 100 * box.y1 + r.from * height \in Int /\ 100 * box.y1 + r.to * height \in Int
    BY <2>1, <2>5
  <2>7. QED
    BY <2>4, <2>6 DEF Boxes
<1>4. Area(large) \in Nat /\ Common(large, region) \in Nat
  BY <1>2, <1>3, AreasAreNatural
<1>5. Weight(item) \in Nat
  BY <1>4 DEF Weight, Greatest
<1>6. Score(item, person) = 2 * Common(large, region) + IF CenterInside(large, region) THEN Weight(item) ELSE 0
  BY DEF Score
<1> HIDE DEF large, region
<1>7. QED
  BY <1>4, <1>5, <1>6

(* Of these persons nobody fits the item better than the one of best. *)
OwnerAmong(best, item, persons) ==
  \/ best = NoOwner /\ \A p \in persons : Score(item, p) <= 0
  \/ \E p \in persons :
       /\ best = [track |-> p.track, score |-> Score(item, p)]
       /\ Score(item, p) > 0
       /\ \A q \in persons : ~Fits(best, Score(item, q), q.track)

NextBest(best, item, person) ==
  IF Fits(best, Score(item, person), person.track)
  THEN [track |-> person.track, score |-> Score(item, person)] ELSE best

(* The best owner, person by person. *)
LEMMA BestUnfolds ==
  ASSUME NEW item, NEW crowd \in Seq(People)
  PROVE  \E h : /\ Best(item, crowd) = h[Len(crowd)] /\ h[0] = NoOwner
                /\ \A k \in 1..Len(crowd) : h[k] = NextBest(h[k - 1], item, crowd[k])
<1> DEFINE n == Len(crowd)
           base == NoOwner
           V == {base} \cup {[track |-> crowd[i].track, score |-> Score(item, crowd[i])] : i \in 1..n}
           op == [i \in 1..n |-> [best \in V |-> NextBest(best, item, crowd[i])]]
           Value(g, t) == IF t = {} THEN base ELSE NextBest(g[t \ {Max(t)}], item, crowd[Max(t)])
           iter == CHOOSE iter : iter = [t \in SUBSET (1..n) |-> Value(iter, t)]
<1>1. n \in Nat /\ DOMAIN crowd = 1..n
  OBVIOUS
<1> HIDE DEF n
<1>2. op \in [1..n -> [V -> V]] /\ base \in V
  <2>1. \A i \in 1..n, best \in V : NextBest(best, item, crowd[i]) \in V
    BY DEF NextBest
  <2>2. QED
    BY <2>1
<1>3. \E g \in [SUBSET (1..n) -> V] : PlacesFold(g, n, base, op)
  <2> HIDE DEF V, op, base
  <2>1. QED
    BY <1>1, <1>2, PlacesFoldExists
<1>4. PICK g \in [SUBSET (1..n) -> V] :
         \A t \in SUBSET (1..n) : g[t] = IF t = {} THEN base ELSE op[Max(t)][g[t \ {Max(t)}]]
  BY <1>3 DEF PlacesFold
<1>5. \A t \in SUBSET (1..n) : g[t] = Value(g, t)
  <2> SUFFICES ASSUME NEW t \in SUBSET (1..n), t # {} PROVE g[t] = NextBest(g[t \ {Max(t)}], item, crowd[Max(t)])
    BY <1>4
  <2> HIDE DEF V
  <2>1. t \ {Max(t)} \in SUBSET (1..n) /\ Max(t) \in 1..n
    BY <1>1, MaxIsChosen
  <2>2. g[t \ {Max(t)}] \in V
    BY <2>1
  <2>3. g[t] = op[Max(t)][g[t \ {Max(t)}]]
    BY <1>4
  <2>4. QED
    BY <2>1, <2>2, <2>3
<1>6. g = [t \in SUBSET (1..n) |-> Value(g, t)]
  <2> HIDE DEF V, base
  <2>1. QED
    BY <1>5
<1>7. iter = [t \in SUBSET (1..n) |-> Value(iter, t)]
  <2> HIDE DEF Value
  <2>1. QED
    BY <1>6
<1>8. Best(item, crowd) = iter[1..n]
  BY <1>1 DEF Best, FoldLeft, MapThenFoldSet, NextBest
<1> HIDE DEF iter, base
<1> DEFINE h == [k \in 0..n |-> iter[1..k]]
<1>9. h[0] = base
  <2>1. 1..0 = {} /\ 0 \in 0..n
    BY <1>1
  <2>2. iter[{}] = base
    BY <1>7
  <2>3. QED
    BY <2>1, <2>2
<1>10. ASSUME NEW k \in 1..n PROVE h[k] = NextBest(h[k - 1], item, crowd[k])
  <2>1. k \in Nat \ {0} /\ k <= n
    BY <1>1
  <2>2. Max(1..k) = k
    BY <2>1, MaxOfFirst
  <2>3. 1..k \in SUBSET (1..n) /\ k \in 1..k
    BY <1>1, <2>1
  <2>4. (1..k) \ {k} = 1..(k - 1)
    BY <2>1
  <2>5. iter[1..k] = Value(iter, 1..k)
    BY <1>7, <2>3
  <2>6. iter[1..k] = NextBest(iter[1..(k - 1)], item, crowd[k])
    BY <2>2, <2>3, <2>4, <2>5
  <2>7. k \in 0..n /\ k - 1 \in 0..n
    BY <1>1
  <2>8. QED
    BY <2>6, <2>7
<1>11. Best(item, crowd) = h[n]
  BY <1>1, <1>8
<1>12. QED
  <2> HIDE DEF h
  <2>1. QED
    BY <1>9, <1>10, <1>11 DEF n, base

(* The loop over the people ends with the one whom the item fits best. *)
LEMMA BestIsOwner ==
  ASSUME NEW item \in Predictions, NEW crowd \in Seq(People)
  PROVE  OwnerAmong(Best(item, crowd), item, Range(crowd))
<1> DEFINE n == Len(crowd)
           First(k) == {crowd[i] : i \in 1..k}
<1>1. PICK h : /\ Best(item, crowd) = h[n] /\ h[0] = NoOwner
               /\ \A k \in 1..n : h[k] = NextBest(h[k - 1], item, crowd[k])
  BY BestUnfolds
<1>2. n \in Nat /\ DOMAIN crowd = 1..n /\ \A i \in 1..n : crowd[i] \in People
  OBVIOUS
<1>3. \A p \in People : Score(item, p) \in Nat /\ p.track \in Nat
  BY ScoresAreNatural DEF People
<1> HIDE DEF n
<1> DEFINE G == {k \in Nat : k <= n => OwnerAmong(h[k], item, First(k))}
<1>4. 0 \in G
  BY <1>1 DEF OwnerAmong
<1>5. ASSUME NEW k \in Nat, k \in G PROVE k + 1 \in G
  <2> SUFFICES ASSUME k + 1 <= n PROVE OwnerAmong(h[k + 1], item, First(k + 1))
    OBVIOUS
  <2> DEFINE new == crowd[k + 1]
             before == First(k)
             after == First(k + 1)
             old == h[k]
             best == h[k + 1]
  <2>1. k + 1 \in 1..n /\ (k + 1) - 1 = k /\ 1..(k + 1) = (1..k) \cup {k + 1} /\ k <= n
    BY <1>2
  <2>2. best = NextBest(old, item, new) /\ new \in People /\ OwnerAmong(old, item, before)
    BY <1>1, <1>2, <1>5, <2>1
  <2>3. after = before \cup {new} /\ before \subseteq People
    BY <1>2, <2>1
  <2> HIDE DEF new, before, after, old, best, First
  <2>4. CASE old = NoOwner /\ \A p \in before : Score(item, p) <= 0
    <3>1. old.score = 0 /\ old.track = -1
      BY <2>4 DEF NoOwner
    <3>2. Fits(old, Score(item, new), new.track) <=> Score(item, new) > 0
      BY <1>3, <2>2, <3>1 DEF Fits
    <3>3. CASE Score(item, new) > 0
      <4>1. best = [track |-> new.track, score |-> Score(item, new)]
        BY <2>2, <3>2, <3>3 DEF NextBest
      <4>2. \A q \in after : ~Fits(best, Score(item, q), q.track)
        BY <1>3, <2>2, <2>3, <2>4, <3>3, <4>1 DEF Fits
      <4>3. QED
        BY <2>3, <3>3, <4>1, <4>2 DEF OwnerAmong, best, after
    <3>4. CASE ~(Score(item, new) > 0)
      <4>1. best = NoOwner
        BY <2>2, <2>4, <3>2, <3>4 DEF NextBest
      <4>2. \A p \in after : Score(item, p) <= 0
        BY <1>3, <2>2, <2>3, <2>4, <3>4
      <4>3. QED
        BY <4>1, <4>2 DEF OwnerAmong, best, after
    <3>5. QED
      BY <3>3, <3>4
  <2>5. ASSUME NEW p \in before,
               old = [track |-> p.track, score |-> Score(item, p)], Score(item, p) > 0,
               \A q \in before : ~Fits(old, Score(item, q), q.track)
        PROVE  OwnerAmong(best, item, after)
    <3>1. /\ old.track = p.track /\ old.score = Score(item, p) /\ old.track \in Nat /\ old.score \in Nat
          /\ old.score > 0
      BY <1>3, <2>3, <2>5
    <3>2. CASE Fits(old, Score(item, new), new.track)
      <4>1. best = [track |-> new.track, score |-> Score(item, new)]
        BY <2>2, <3>2 DEF NextBest
      <4>2. Score(item, new) > 0
        BY <1>3, <2>2, <3>1, <3>2 DEF Fits
      <4>3. ASSUME NEW q \in after PROVE ~Fits(best, Score(item, q), q.track)
        <5>1. CASE q = new
          BY <1>3, <2>2, <4>1, <5>1 DEF Fits
        <5>2. CASE q # new
          <6>1. q \in before /\ q \in People
            BY <2>3, <5>2
          <6>2. ~Fits(old, Score(item, q), q.track)
            BY <2>5, <6>1
          <6>3. QED
            BY <1>3, <2>2, <3>1, <3>2, <4>1, <6>1, <6>2 DEF Fits
        <5>3. QED
          BY <5>1, <5>2
      <4>4. QED
        BY <2>3, <4>1, <4>2, <4>3 DEF OwnerAmong
    <3>3. CASE ~Fits(old, Score(item, new), new.track)
      <4>1. best = old
        BY <2>2, <3>3 DEF NextBest
      <4>2. \A q \in after : ~Fits(best, Score(item, q), q.track)
        BY <2>3, <2>5, <3>3, <4>1
      <4>3. QED
        BY <2>3, <2>5, <4>1, <4>2 DEF OwnerAmong
    <3>4. QED
      BY <3>2, <3>3
  <2>6. QED
    BY <2>2, <2>4, <2>5 DEF OwnerAmong, best, after
<1>6. n \in G
  <2> HIDE DEF G
  <2>1. QED
    BY <1>2, <1>4, <1>5, NaturalsAll
<1>7. First(n) = Range(crowd)
  BY <1>2 DEF Range
<1>8. OwnerAmong(h[n], item, First(n))
  BY <1>2, <1>6
<1>9. QED
  BY <1>1, <1>7, <1>8

(* Two people of a frame are not told apart by their places in the sequence. *)
LEMMA OwnerIsUnique ==
  ASSUME NEW item \in Predictions, NEW persons \in SUBSET People, NEW one, NEW other,
         OwnerAmong(one, item, persons), OwnerAmong(other, item, persons)
  PROVE  one = other
<1>1. \A p \in persons : Score(item, p) \in Nat /\ p.track \in Nat
  BY ScoresAreNatural DEF People
<1>2. ASSUME NEW p \in persons, one = [track |-> p.track, score |-> Score(item, p)],
             \A r \in persons : ~Fits(one, Score(item, r), r.track),
             NEW q \in persons, other = [track |-> q.track, score |-> Score(item, q)],
             \A r \in persons : ~Fits(other, Score(item, r), r.track)
      PROVE  one = other
  <2>1. ~Fits(one, Score(item, q), q.track) /\ ~Fits(other, Score(item, p), p.track)
    BY <1>2
  <2>2. one.score = Score(item, p) /\ one.track = p.track /\ other.score = Score(item, q) /\ other.track = q.track
    BY <1>2
  <2>3. Score(item, p) = Score(item, q) /\ p.track = q.track
    BY <1>1, <2>1, <2>2 DEF Fits
  <2>4. QED
    BY <1>2, <2>3
<1>3. QED
  BY <1>1, <1>2 DEF OwnerAmong

(* Where a detection belongs does not depend on the order of the people. *)
LEMMA PlaceIsUnordered ==
  ASSUME NEW item \in Predictions, NEW crowd \in Seq(People), NEW other \in Seq(People),
         Range(crowd) = Range(other)
  PROVE  Place(item, crowd) = Place(item, other)
<1>1. Range(crowd) \in SUBSET People
  BY DEF Range
<1>2. Best(item, crowd) = Best(item, other)
  BY <1>1, BestIsOwner, OwnerIsUnique
<1>3. Enclosing(item, crowd) = Enclosing(item, other)
  BY DEF Enclosing
<1>4. QED
  BY <1>2, <1>3 DEF Place

--------------------------------------------------------------------------------
(* What the people of a frame hold. *)

Holders(crowd) == {p.track : p \in Range(crowd)}
EmptyHands(crowd) == [t \in Holders(crowd) |-> [l \in Lists |-> [c \in 0..7 |-> <<>>]]]
NextHeld(held, item, place) ==
  IF ~IsItem(item) \/ place.track < 0 THEN held
  ELSE [held EXCEPT ![place.track][place.list][item.class] = Kept(@, item)]

(* h gives what is held after each detection. *)
AssociatedBy(h, crowd, items) ==
  /\ Associated(crowd, items) = h[Len(items)] /\ h[0] = EmptyHands(crowd)
  /\ \A k \in 1..Len(items) : h[k] = NextHeld(h[k - 1], items[k], Place(items[k], crowd))

(* To give a detection to a list keeps what is held well formed. *)
LEMMA NextHeldIsHeld ==
  ASSUME NEW T, NEW held \in [T -> [Lists -> [0..7 -> Seq(Predictions)]]],
         NEW item \in Predictions, NEW place
  PROVE  NextHeld(held, item, place) \in [T -> [Lists -> [0..7 -> Seq(Predictions)]]]
<1> DEFINE H == [0..7 -> Seq(Predictions)]
           t == place.track
           l == place.list
           c == item.class
<1>1. c \in 0..7
  BY DEF Predictions
<1>2. \A before \in Seq(Predictions) : Kept(before, item) \in Seq(Predictions)
  BY DEF Kept
<1>3. CASE ~IsItem(item) \/ t < 0 \/ t \notin T \/ l \notin Lists
  BY <1>3 DEF NextHeld
<1>4. CASE ~(~IsItem(item) \/ t < 0 \/ t \notin T \/ l \notin Lists)
  <2>1. held[t] \in [Lists -> H] /\ held[t][l] \in H /\ held[t][l][c] \in Seq(Predictions)
    BY <1>1, <1>4
  <2> DEFINE inner == [held[t][l] EXCEPT ![c] = Kept(held[t][l][c], item)]
             outer == [held[t] EXCEPT ![l] = inner]
  <2>2. inner \in H
    BY <1>2, <2>1
  <2>3. NextHeld(held, item, place) = [held EXCEPT ![t] = outer]
    BY <1>4 DEF NextHeld
  <2> HIDE DEF H, inner
  <2>4. outer \in [Lists -> H]
    BY <2>1, <2>2
  <2> HIDE DEF outer
  <2>5. [held EXCEPT ![t] = outer] \in [T -> [Lists -> H]]
    BY <2>4 DEF H
  <2>6. QED
    BY <2>3, <2>5 DEF H
<1>5. QED
  BY <1>3, <1>4

(* The association, detection by detection. *)
LEMMA AssociatedUnfolds ==
  ASSUME NEW crowd \in Seq(People), NEW items \in Seq(Predictions)
  PROVE  \E h : AssociatedBy(h, crowd, items)
<1> DEFINE n == Len(items)
           base == EmptyHands(crowd)
           V == [Holders(crowd) -> [Lists -> [0..7 -> Seq(Predictions)]]]
           Next1(held, item) == NextHeld(held, item, Place(item, crowd))
           op == [i \in 1..n |-> [held \in V |-> Next1(held, items[i])]]
           Value(g, t) == IF t = {} THEN base ELSE Next1(g[t \ {Max(t)}], items[Max(t)])
           iter == CHOOSE iter : iter = [t \in SUBSET (1..n) |-> Value(iter, t)]
<1>1. n \in Nat /\ DOMAIN items = 1..n /\ \A i \in 1..n : items[i] \in Predictions
  OBVIOUS
<1> HIDE DEF n
<1>2. op \in [1..n -> [V -> V]] /\ base \in V
  <2>1. \A i \in 1..n, held \in V : Next1(held, items[i]) \in V
    BY <1>1, NextHeldIsHeld
  <2>2. base \in V
    BY DEF EmptyHands
  <2> HIDE DEF V, Next1
  <2>3. QED
    BY <2>1, <2>2
<1>3. \E g \in [SUBSET (1..n) -> V] : PlacesFold(g, n, base, op)
  <2> HIDE DEF V, op, base
  <2>1. QED
    BY <1>1, <1>2, PlacesFoldExists
<1>4. PICK g \in [SUBSET (1..n) -> V] :
         \A t \in SUBSET (1..n) : g[t] = IF t = {} THEN base ELSE op[Max(t)][g[t \ {Max(t)}]]
  BY <1>3 DEF PlacesFold
<1>5. \A t \in SUBSET (1..n) : g[t] = Value(g, t)
  <2> SUFFICES ASSUME NEW t \in SUBSET (1..n), t # {} PROVE g[t] = Next1(g[t \ {Max(t)}], items[Max(t)])
    BY <1>4
  <2> HIDE DEF V, Next1
  <2>1. t \ {Max(t)} \in SUBSET (1..n) /\ Max(t) \in 1..n
    BY <1>1, MaxIsChosen
  <2>2. g[t \ {Max(t)}] \in V
    BY <2>1
  <2>3. g[t] = op[Max(t)][g[t \ {Max(t)}]]
    BY <1>4
  <2>4. QED
    BY <2>1, <2>2, <2>3
<1>6. g = [t \in SUBSET (1..n) |-> Value(g, t)]
  <2> HIDE DEF V, base, Next1
  <2>1. QED
    BY <1>5
<1>7. iter = [t \in SUBSET (1..n) |-> Value(iter, t)]
  <2> HIDE DEF Value
  <2>1. QED
    BY <1>6
<1>8. Associated(crowd, items) = iter[1..n]
  BY <1>1 DEF Associated, FoldLeft, MapThenFoldSet, NextHeld, EmptyHands, Holders
<1> HIDE DEF iter, base
<1> DEFINE h == [k \in 0..n |-> iter[1..k]]
<1>9. h[0] = base
  <2>1. 1..0 = {} /\ 0 \in 0..n
    BY <1>1
  <2>2. iter[{}] = base
    BY <1>7
  <2>3. QED
    BY <2>1, <2>2
<1>10. ASSUME NEW k \in 1..n PROVE h[k] = Next1(h[k - 1], items[k])
  <2> HIDE DEF Next1
  <2>1. k \in Nat \ {0} /\ k <= n
    BY <1>1
  <2>2. Max(1..k) = k
    BY <2>1, MaxOfFirst
  <2>3. 1..k \in SUBSET (1..n) /\ k \in 1..k
    BY <1>1, <2>1
  <2>4. (1..k) \ {k} = 1..(k - 1)
    BY <2>1
  <2>5. iter[1..k] = Value(iter, 1..k)
    BY <1>7, <2>3
  <2>6. iter[1..k] = Next1(iter[1..(k - 1)], items[k])
    BY <2>2, <2>3, <2>4, <2>5
  <2>7. k \in 0..n /\ k - 1 \in 0..n
    BY <1>1
  <2>8. QED
    BY <2>6, <2>7
<1>11. Associated(crowd, items) = h[n]
  BY <1>1, <1>8
<1>12. AssociatedBy(h, crowd, items)
  <2> HIDE DEF h
  <2>1. QED
    BY <1>9, <1>10, <1>11 DEF n, base, AssociatedBy
<1>13. QED
  BY <1>12

(* The association is the same for people who come in another order. *)
LEMMA AssociatedIsUnordered ==
  ASSUME NEW crowd \in Seq(People), NEW other \in Seq(People), Range(crowd) = Range(other),
         NEW items \in Seq(Predictions)
  PROVE  Associated(crowd, items) = Associated(other, items)
<1> DEFINE n == Len(items)
<1>1. PICK h : AssociatedBy(h, crowd, items)
  BY AssociatedUnfolds
<1>2. PICK g : AssociatedBy(g, other, items)
  BY AssociatedUnfolds
<1>3. n \in Nat /\ \A i \in 1..n : items[i] \in Predictions
  OBVIOUS
<1>4. \A i \in 1..n : Place(items[i], crowd) = Place(items[i], other)
  BY <1>3, PlaceIsUnordered
<1>5. EmptyHands(crowd) = EmptyHands(other)
  BY DEF EmptyHands, Holders
<1> DEFINE G == {k \in Nat : k <= n => h[k] = g[k]}
<1>6. 0 \in G
  BY <1>1, <1>2, <1>5 DEF AssociatedBy
<1>7. ASSUME NEW k \in Nat, k \in G PROVE k + 1 \in G
  <2> SUFFICES ASSUME k + 1 <= n PROVE h[k + 1] = g[k + 1]
    OBVIOUS
  <2>1. k + 1 \in 1..n /\ (k + 1) - 1 = k /\ k <= n
    BY <1>3
  <2>2. h[k] = g[k]
    BY <1>7, <2>1
  <2>3. /\ h[k + 1] = NextHeld(h[k], items[k + 1], Place(items[k + 1], crowd))
        /\ g[k + 1] = NextHeld(g[k], items[k + 1], Place(items[k + 1], other))
    BY <1>1, <1>2, <2>1 DEF AssociatedBy
  <2>4. QED
    BY <1>4, <2>1, <2>2, <2>3
<1>8. n \in G
  <2> HIDE DEF G, n
  <2>1. QED
    BY <1>3, <1>6, <1>7, NaturalsAll
<1>9. h[n] = g[n]
  BY <1>3, <1>8
<1>10. QED
  BY <1>1, <1>2, <1>9 DEF AssociatedBy

(* A detection of a class that belongs to a person's list. *)
Belongs(d, t, l, c, crowd) == d.class = c /\ IsItem(d) /\ Place(d, crowd) = [track |-> t, list |-> l]

(* Of the first k detections that belong to a list one of the surest is in it. *)
SurestOf(list, t, l, c, crowd, items, k) ==
  \/ list = <<>> /\ \A i \in 1..k : ~Belongs(items[i], t, l, c, crowd)
  \/ \E i \in 1..k :
       /\ list = <<items[i]>> /\ Belongs(items[i], t, l, c, crowd)
       /\ \A j \in 1..k : Belongs(items[j], t, l, c, crowd) => items[j].confidence <= items[i].confidence

(* A place is a track and a list. *)
LEMMA PlaceIsOne ==
  ASSUME NEW item, NEW crowd
  PROVE  LET place == Place(item, crowd)
         IN  place = [track |-> place.track, list |-> place.list] /\ place.list \in Lists
<1> DEFINE place == Place(item, crowd)
<1>1. \/ place = [track |-> Best(item, crowd).track, list |-> "worn"]
      \/ place = [track |-> (CHOOSE p \in Enclosing(item, crowd) : TRUE).track, list |-> "elsewhere"]
      \/ place = [track |-> -1, list |-> "elsewhere"]
  BY DEF Place
<1> HIDE DEF place
<1>2. place = [track |-> place.track, list |-> place.list] /\ place.list \in Lists
  BY <1>1 DEF Lists
<1>3. QED
  BY <1>2 DEF place

(* A confidence is a natural number of hundredths. *)
LEMMA ConfidencesAreNatural ==
  \A p \in Predictions : p.confidence \in Nat
<1>1. \A p \in Predictions : p.confidence \in 0..100
  BY DEF Predictions
<1>2. QED
  BY <1>1

(* The next detection replaces what a list holds only if it is surer. *)
LEMMA SurestIsKept ==
  ASSUME NEW crowd, NEW items \in Seq(Predictions), NEW k \in Nat, k + 1 \in 1..Len(items),
         NEW t \in Nat, NEW l \in Lists, NEW c \in 0..7,
         NEW old, SurestOf(old, t, l, c, crowd, items, k)
  PROVE  SurestOf(IF Belongs(items[k + 1], t, l, c, crowd) THEN Kept(old, items[k + 1]) ELSE old,
                  t, l, c, crowd, items, k + 1)
<1> DEFINE item == items[k + 1]
           Mine(i) == Belongs(items[i], t, l, c, crowd)
<1>1. /\ \A i \in 1..(k + 1) : i \in 1..k \/ i = k + 1
      /\ \A i \in 1..k : i \in 1..(k + 1)
      /\ k + 1 \in 1..(k + 1) /\ Len(items) \in Nat
  OBVIOUS
<1>2. \A i \in 1..(k + 1) : items[i].confidence \in Nat
  <2>1. \A i \in 1..(k + 1) : items[i] \in Predictions
    BY <1>1
  <2>2. QED
    BY <2>1, ConfidencesAreNatural
<1> HIDE DEF Mine
<1>3. CASE ~Mine(k + 1)
  <2>1. SurestOf(old, t, l, c, crowd, items, k + 1)
    BY <1>1, <1>3 DEF SurestOf, Mine
  <2>2. QED
    BY <1>3, <2>1 DEF Mine
<1>4. CASE Mine(k + 1)
  <2> SUFFICES SurestOf(Kept(old, item), t, l, c, crowd, items, k + 1)
    BY <1>4 DEF Mine
  <2>1. CASE old = <<>> /\ \A i \in 1..k : ~Mine(i)
    <3>1. Kept(old, item) = <<item>>
      BY <2>1 DEF Kept
    <3>2. \A j \in 1..(k + 1) : Mine(j) => items[j].confidence <= item.confidence
      BY <1>1, <1>2, <2>1
    <3>3. QED
      BY <1>1, <1>4, <3>1, <3>2 DEF SurestOf, Mine
  <2>2. ASSUME NEW i \in 1..k, old = <<items[i]>>, Mine(i),
               \A j \in 1..k : Mine(j) => items[j].confidence <= items[i].confidence
        PROVE  SurestOf(Kept(old, item), t, l, c, crowd, items, k + 1)
    <3>1. old # <<>> /\ old[1] = items[i] /\ i \in 1..(k + 1)
      BY <1>1, <2>2
    <3>2. CASE items[i].confidence = 0 \/ item.confidence > items[i].confidence
      <4>1. Kept(old, item) = <<item>>
        BY <3>1, <3>2 DEF Kept
      <4>2. \A j \in 1..(k + 1) : Mine(j) => items[j].confidence <= item.confidence
        <5>1. items[i].confidence <= item.confidence
          BY <1>1, <1>2, <3>1, <3>2
        <5>2. QED
          BY <1>1, <1>2, <2>2, <3>1, <5>1
      <4>3. QED
        BY <1>1, <1>4, <4>1, <4>2 DEF SurestOf, Mine
    <3>3. CASE ~(items[i].confidence = 0 \/ item.confidence > items[i].confidence)
      <4>1. Kept(old, item) = old
        BY <3>1, <3>3 DEF Kept
      <4>2. \A j \in 1..(k + 1) : Mine(j) => items[j].confidence <= items[i].confidence
        BY <1>1, <1>2, <2>2, <3>1, <3>3
      <4>3. QED
        BY <2>2, <3>1, <4>1, <4>2 DEF SurestOf, Mine
    <3>4. QED
      BY <3>2, <3>3
  <2>3. QED
    BY <2>1, <2>2 DEF SurestOf, Mine
<1>5. QED
  BY <1>3, <1>4

(* Each person holds, of each class, one of the surest detections that belong there. *)
LEMMA AssociatedHoldsTheSurest ==
  ASSUME NEW crowd \in Seq(People), NEW items \in Seq(Predictions)
  PROVE  /\ DOMAIN Associated(crowd, items) = Holders(crowd)
         /\ \A t \in Holders(crowd) : \A l \in Lists : \A c \in 0..7 :
              SurestOf(Associated(crowd, items)[t][l][c], t, l, c, crowd, items, Len(items))
<1> DEFINE n == Len(items)
           T == Holders(crowd)
           V == [T -> [Lists -> [0..7 -> Seq(Predictions)]]]
           Fine(held, k) == /\ held \in V
                            /\ \A t \in T : \A l \in Lists : \A c \in 0..7 :
                                 SurestOf(held[t][l][c], t, l, c, crowd, items, k)
<1>1. PICK h : AssociatedBy(h, crowd, items)
  BY AssociatedUnfolds
<1>2. n \in Nat /\ \A i \in 1..n : items[i] \in Predictions
  OBVIOUS
<1>3. T \subseteq Nat
  <2>1. \A p \in Range(crowd) : p \in People
    BY DEF Range
  <2>2. QED
    BY <2>1 DEF Holders, People
<1> DEFINE G == {k \in Nat : k <= n => Fine(h[k], k)}
<1>4. 0 \in G
  <2>1. h[0] = EmptyHands(crowd)
    BY <1>1 DEF AssociatedBy
  <2>2. h[0] \in V /\ \A t \in T : \A l \in Lists : \A c \in 0..7 : h[0][t][l][c] = <<>>
    BY <2>1 DEF EmptyHands
  <2>3. QED
    BY <2>2 DEF SurestOf
<1>5. ASSUME NEW k \in Nat, k \in G PROVE k + 1 \in G
  <2> SUFFICES ASSUME k + 1 <= n PROVE Fine(h[k + 1], k + 1)
    OBVIOUS
  <2> DEFINE item == items[k + 1]
             place == Place(item, crowd)
             old == h[k]
             new == h[k + 1]
  <2>1. k + 1 \in 1..n /\ (k + 1) - 1 = k /\ k <= n /\ item \in Predictions
    BY <1>2
  <2>2. Fine(old, k)
    BY <1>5, <2>1
  <2>3. new = NextHeld(old, item, place)
    BY <1>1, <2>1 DEF AssociatedBy
  <2>4. new \in V
    <3> HIDE DEF T, item, place, old, new
    <3>1. QED
      BY <2>1, <2>2, <2>3, NextHeldIsHeld
  <2>5. ASSUME NEW t \in T, NEW l \in Lists, NEW c \in 0..7
        PROVE  new[t][l][c] = IF Belongs(item, t, l, c, crowd) THEN Kept(old[t][l][c], item) ELSE old[t][l][c]
    <3>1. place = [track |-> place.track, list |-> place.list]
      BY PlaceIsOne
    <3>2. Belongs(item, t, l, c, crowd) <=> IsItem(item) /\ item.class = c /\ place.track = t /\ place.list = l
      BY <3>1 DEF Belongs
    <3> HIDE DEF item, place, old, new, T
    <3>3. old \in V /\ old[t] \in [Lists -> [0..7 -> Seq(Predictions)]] /\ old[t][l] \in [0..7 -> Seq(Predictions)]
      BY <2>2
    <3>4. CASE ~IsItem(item) \/ place.track < 0
      <4>1. new = old /\ ~Belongs(item, t, l, c, crowd)
        BY <1>3, <2>3, <3>2, <3>4 DEF NextHeld
      <4>2. QED
        BY <4>1
    <3>5. CASE ~(~IsItem(item) \/ place.track < 0)
      <4>1. new = [old EXCEPT ![place.track][place.list][item.class] = Kept(@, item)]
        BY <2>3, <3>5 DEF NextHeld
      <4>2. CASE place.track = t /\ place.list = l /\ item.class = c
        <5>1. new[t][l][c] = Kept(old[t][l][c], item)
          BY <3>3, <4>1, <4>2
        <5>2. QED
          BY <3>2, <3>5, <4>2, <5>1
      <4>3. CASE ~(place.track = t /\ place.list = l /\ item.class = c)
        <5>1. new[t][l][c] = old[t][l][c]
          BY <3>3, <4>1, <4>3
        <5>2. QED
          BY <3>2, <4>3, <5>1
      <4>4. QED
        BY <4>2, <4>3
    <3>6. QED
      BY <3>4, <3>5
  <2>6. ASSUME NEW t \in T, NEW l \in Lists, NEW c \in 0..7
        PROVE  SurestOf(new[t][l][c], t, l, c, crowd, items, k + 1)
    <3>1. SurestOf(old[t][l][c], t, l, c, crowd, items, k) /\ t \in Nat
      BY <1>3, <2>2
    <3>2. SurestOf(IF Belongs(item, t, l, c, crowd) THEN Kept(old[t][l][c], item) ELSE old[t][l][c],
                   t, l, c, crowd, items, k + 1)
      <4> DEFINE mine == old[t][l][c]
      <4>1. SurestOf(mine, t, l, c, crowd, items, k) /\ t \in Nat
        BY <3>1
      <4> HIDE DEF mine, T
      <4>2. SurestOf(IF Belongs(item, t, l, c, crowd) THEN Kept(mine, item) ELSE mine,
                     t, l, c, crowd, items, k + 1)
        BY <2>1, <4>1, SurestIsKept
      <4>3. QED
        BY <4>2 DEF mine
    <3>3. QED
      BY <2>5, <3>2
  <2> HIDE DEF new
  <2>7. QED
    BY <2>4, <2>6 DEF new
<1>6. n \in G
  <2> HIDE DEF G, n
  <2>1. QED
    BY <1>2, <1>4, <1>5, NaturalsAll
<1>7. Fine(h[n], n) /\ Associated(crowd, items) = h[n]
  BY <1>1, <1>2, <1>6 DEF AssociatedBy
<1>8. QED
  BY <1>7

--------------------------------------------------------------------------------
(* The tracks, the people and what they hold. *)

PeopleInv ==
  pc \in {"associate", "done"} =>
    /\ tracks \in TrackSets
    /\ StableMatching(ids, Overlapping(tracks, Rows), Len(Rows))
    /\ people \in Seq(People)
    /\ \A i, j \in DOMAIN people : people[i].track = people[j].track => i = j

HoldingsInv == pc = "done" => associations = Associated(people, detections)

(* What is matched are detections or poses. *)
LEMMA RowsArePredictions ==
  ASSUME detections \in Seq(Predictions), poses \in Seq(Predictions)
  PROVE  Rows \in Seq(Predictions)
<1>1. Only(detections, Persons) \in Seq(Predictions)
  BY OnlyKeeps
<1>2. QED
  BY <1>1 DEF Rows

(* A person in the frame is a row with a track, and no two have the same. *)
LEMMA TrackedArePeople ==
  ASSUME NEW rows \in Seq(Predictions), NEW taken \in [1..Len(rows) -> Int],
         \A i, j \in 1..Len(rows) : taken[i] = taken[j] /\ taken[i] >= 0 => i = j
  PROVE  /\ Tracked(rows, taken) \in Seq(People)
         /\ \A i, j \in DOMAIN Tracked(rows, taken) :
              Tracked(rows, taken)[i].track = Tracked(rows, taken)[j].track => i = j
<1> DEFINE n == Len(rows)
           X == [track : Int, row : Predictions]
           all == [i \in 1..n |-> [track |-> taken[i], row |-> rows[i]]]
           set == {p \in Range(all) : p.track >= 0 /\ Public(p.row)}
           out == Only(all, set)
<1>1. n \in Nat /\ \A i \in 1..n : rows[i] \in Predictions /\ taken[i] \in Int
  OBVIOUS
<1>2. Tracked(rows, taken) = out
  BY DEF Tracked
<1> HIDE DEF n
<1>3. all \in Seq(X) /\ DOMAIN all = 1..n /\ \A i \in 1..n : all[i].track = taken[i]
  <2>1. all \in [1..n -> X]
    BY <1>1
  <2>2. QED
    BY <1>1, <2>1
<1>4. \A p \in set : p.track >= 0
  OBVIOUS
<1> HIDE DEF all, set
<1>5. /\ out \in Seq(X) /\ Range(out) = Range(all) \cap set
      /\ \A i, j \in DOMAIN out :
           i < j => \E a, b \in DOMAIN all : a < b /\ out[i] = all[a] /\ out[j] = all[b]
  <2> HIDE DEF X
  <2>1. all \in Seq(X)
    BY <1>3
  <2>2. QED
    BY <2>1, OnlyKeeps
<1> HIDE DEF out
<1>6. Len(out) \in Nat /\ DOMAIN out = 1..Len(out) /\ \A i \in DOMAIN out : out[i] \in X /\ out[i].track >= 0
  <2>1. Len(out) \in Nat /\ DOMAIN out = 1..Len(out) /\ \A i \in DOMAIN out : out[i] \in X
    <3> HIDE DEF X
    <3>1. out \in Seq(X)
      BY <1>5
    <3>2. QED
      BY <3>1
  <2>2. \A i \in DOMAIN out : out[i] \in set
    BY <1>5 DEF Range
  <2>3. QED
    BY <1>4, <2>1, <2>2
<1>7. out \in Seq(People)
  <2>1. \A i \in DOMAIN out : out[i] \in People
    BY <1>6 DEF People
  <2>2. out = [i \in 1..Len(out) |-> out[i]]
    BY <1>5, <1>6
  <2>3. out \in [1..Len(out) -> People]
    BY <1>6, <2>1, <2>2
  <2>4. QED
    BY <1>6, <2>3
<1>8. ASSUME NEW i \in DOMAIN out, NEW j \in DOMAIN out, i < j, out[i].track = out[j].track PROVE FALSE
  <2>1. PICK a \in 1..n, b \in 1..n : a < b /\ out[i] = all[a] /\ out[j] = all[b]
    BY <1>3, <1>5, <1>8
  <2>2. taken[a] = taken[b] /\ taken[a] >= 0
    BY <1>3, <1>6, <1>8, <2>1
  <2>3. a = b
    BY <2>2 DEF n
  <2>4. QED
    BY <1>1, <2>1, <2>3
<1>9. \A i, j \in DOMAIN out : out[i].track = out[j].track => i = j
  BY <1>6, <1>8
<1>10. QED
  BY <1>2, <1>7, <1>9

FrameInv == DecodingInv /\ PeopleInv /\ HoldingsInv

(* The matching of a frame makes its people. *)
LEMMA TrackKeepsThePeople ==
  ASSUME DecodingInv, Track
  PROVE  PeopleInv'
<1>1. PICK found \in TrackSets : /\ tracks' = found /\ ids' = Matched(found, Rows)
                                 /\ people' = Tracked(Rows, Matched(found, Rows))
  BY DEF Track
<1>2. UNCHANGED <<mode, detections, poses>> /\ pc = "track"
  BY DEF Track
<1>3. Rows' = Rows
  BY <1>2 DEF Rows, Persons, IsPerson
<1>4. Rows \in Seq(Predictions)
  BY <1>2, RowsArePredictions DEF DecodingInv, DecodedInv
<1>5. FoundTracks(found)
  BY FrameAssumption DEF FoundTracks
<1>6. StableMatching(Matched(found, Rows), Overlapping(found, Rows), Len(Rows))
  BY <1>4, <1>5, MatchedIsStable
<1>7. /\ people' \in Seq(People)
      /\ \A i, j \in DOMAIN people' : people'[i].track = people'[j].track => i = j
  <2> DEFINE rows == Rows
             taken == Matched(found, Rows)
  <2>1. /\ rows \in Seq(Predictions) /\ taken \in [1..Len(rows) -> Int] /\ people' = Tracked(rows, taken)
        /\ \A i, j \in 1..Len(rows) : taken[i] = taken[j] /\ taken[i] >= 0 => i = j
    BY <1>1, <1>4, <1>6 DEF StableMatching
  <2> HIDE DEF rows, taken
  <2>2. QED
    BY <2>1, TrackedArePeople
<1>8. StableMatching(ids', Overlapping(tracks', Rows'), Len(Rows'))
  BY <1>1, <1>3, <1>6
<1>9. QED
  BY <1>1, <1>7, <1>8 DEF PeopleInv

(* Every step keeps what is known of the people and of what they hold. *)
THEOREM FrameCorrect == FrameSpec => []FrameInv
<1>1. FrameInit => PeopleInv /\ HoldingsInv
  BY DEF FrameInit, PeopleInv, HoldingsInv
<1>2. DecodingInv /\ PeopleInv /\ HoldingsInv /\ [FrameNext]_frameVars => PeopleInv' /\ HoldingsInv'
  <2> SUFFICES ASSUME DecodingInv, PeopleInv, HoldingsInv, [FrameNext]_frameVars
               PROVE  PeopleInv' /\ HoldingsInv'
    OBVIOUS
  <2>1. ASSUME NEW p \in tensor, Read(p) PROVE PeopleInv' /\ HoldingsInv'
    BY <2>1 DEF Read, PeopleInv, HoldingsInv
  <2>2. CASE Decode
    BY <2>2 DEF Decode, PeopleInv, HoldingsInv
  <2>3. CASE Track
    <3>1. HoldingsInv'
      BY <2>3 DEF Track, HoldingsInv
    <3>2. QED
      BY <2>3, <3>1, TrackKeepsThePeople
  <2>4. CASE Associate \/ UNCHANGED frameVars
    <3>1. /\ UNCHANGED <<mode, detections, poses, tracks, ids, people>>
          /\ \/ pc' = pc /\ UNCHANGED associations
             \/ pc = "associate" /\ pc' = "done" /\ associations' = Associated(people, detections)
      BY <2>4 DEF Associate, frameVars
    <3>2. Rows' = Rows
      BY <3>1 DEF Rows, Persons, IsPerson
    <3>3. PeopleInv'
      BY <3>1, <3>2 DEF PeopleInv
    <3>4. HoldingsInv'
      BY <3>1 DEF HoldingsInv
    <3>5. QED
      BY <3>3, <3>4
  <2>5. QED
    BY <2>1, <2>2, <2>3, <2>4 DEF FrameNext
<1>3. QED
  BY <1>1, <1>2, DecodingCorrect, PTL DEF FrameSpec, FrameInv

(* A track has one row at most, and no track and row that overlap would both be
   better off with each other (the greedy matching of ByteTracker::update). *)
THEOREM MatchingStaysStable == FrameSpec => []MatchingIsStable
<1>1. FrameInv => MatchingIsStable
  <2> SUFFICES ASSUME FrameInv, pc \in {"associate", "done"}
               PROVE  /\ \A i, j \in DOMAIN ids : ids[i] = ids[j] /\ ids[i] >= 0 => i = j
                      /\ \A p \in Overlapping(tracks, Rows) :
                           \/ ids[p.row] = p.track.id
                           \/ \E q \in Overlapping(tracks, Rows) :
                                /\ ids[q.row] = q.track.id
                                /\ (q.row = p.row \/ q.track = p.track)
                                /\ ~More(p.iou, q.iou)
    BY DEF MatchingIsStable
  <2>1. StableMatching(ids, Overlapping(tracks, Rows), Len(Rows))
    BY DEF FrameInv, PeopleInv
  <2>2. DOMAIN ids = 1..Len(Rows)
    BY <2>1 DEF StableMatching
  <2>3. QED
    BY <2>1, <2>2 DEF StableMatching
<1>2. QED
  BY <1>1, FrameCorrect, PTL

(* In whatever order people stand in the frame they hold the same; a detection is
   held by one of them at most, in one list, and is one of the surest of those that
   belong there (associatePpe). *)
THEOREM OneOwnerForEachItem == FrameSpec => []ItemsHaveOneOwner
<1>1. FrameInv => ItemsHaveOneOwner
  <2> SUFFICES ASSUME FrameInv, pc = "done" PROVE ItemsHaveOneOwner
    BY DEF ItemsHaveOneOwner
  <2>1. /\ people \in Seq(People) /\ detections \in Seq(Predictions)
        /\ associations = Associated(people, detections)
    BY DEF FrameInv, DecodingInv, DecodedInv, PeopleInv, HoldingsInv
  <2>2. ASSUME NEW order \in Bijection(DOMAIN people, DOMAIN people)
        PROVE  Associated([i \in DOMAIN people |-> people[order[i]]], detections) = associations
    <3> DEFINE other == [i \in DOMAIN people |-> people[order[i]]]
               n == Len(people)
    <3>1. n \in Nat /\ DOMAIN people = 1..n
      BY <2>1
    <3>2. /\ order \in [1..n -> 1..n] /\ \A j \in 1..n : \E i \in 1..n : order[i] = j
      BY <3>1 DEF Bijection, Injection, Surjection
    <3> HIDE DEF n
    <3>3. \A i \in 1..n : people[i] \in People
      BY <2>1, <3>1
    <3>4. other \in Seq(People)
      BY <3>1, <3>2, <3>3
    <3>5. Range(other) = Range(people)
      <4>1. DOMAIN other = 1..n /\ \A i \in 1..n : other[i] = people[order[i]]
        BY <3>1
      <4> HIDE DEF other
      <4>2. \A i \in 1..n : order[i] \in 1..n /\ \E j \in 1..n : order[j] = i
        BY <3>2
      <4>3. Range(other) = {people[order[i]] : i \in 1..n} /\ Range(people) = {people[i] : i \in 1..n}
        BY <3>1, <4>1 DEF Range
      <4>4. QED
        BY <4>2, <4>3
    <3> HIDE DEF other
    <3>6. Associated(people, detections) = Associated(other, detections)
      BY <2>1, <3>4, <3>5, AssociatedIsUnordered
    <3>7. QED
      BY <2>1, <3>6 DEF other
  <2>3. /\ DOMAIN associations = Holders(people)
        /\ \A t \in Holders(people) : \A l \in Lists : \A c \in 0..7 :
             SurestOf(associations[t][l][c], t, l, c, people, detections, Len(detections))
    BY <2>1, AssociatedHoldsTheSurest
  <2>4. ASSUME NEW t \in DOMAIN associations, NEW l \in Lists, NEW c \in 0..7,
               NEW d \in Range(associations[t][l][c])
        PROVE  /\ Belongs(d, t, l, c, people)
               /\ \A e \in Range(detections) : Belongs(e, t, l, c, people) => e.confidence <= d.confidence
    <3>1. SurestOf(associations[t][l][c], t, l, c, people, detections, Len(detections))
      BY <2>3
    <3>2. associations[t][l][c] # <<>>
      BY <2>4 DEF Range
    <3>3. PICK i \in 1..Len(detections) :
            /\ associations[t][l][c] = <<detections[i]>> /\ Belongs(detections[i], t, l, c, people)
            /\ \A j \in 1..Len(detections) :
                 Belongs(detections[j], t, l, c, people) => detections[j].confidence <= detections[i].confidence
      BY <3>1, <3>2 DEF SurestOf
    <3>4. d = detections[i]
      BY <2>4, <3>3 DEF Range
    <3>5. \A e \in Range(detections) : \E j \in 1..Len(detections) : e = detections[j]
      BY <2>1 DEF Range
    <3>6. QED
      BY <3>3, <3>4, <3>5
  <2>5. ASSUME NEW t \in DOMAIN associations, NEW l \in Lists, NEW c \in 0..7,
               NEW d \in Range(associations[t][l][c])
        PROVE  /\ d.class = c /\ IsItem(d)
               /\ \A u \in DOMAIN associations : \A k \in Lists :
                    d \in Range(associations[u][k][c]) => u = t /\ k = l
               /\ \A e \in Range(detections) :
                    e.class = c /\ Place(e, people) = [track |-> t, list |-> l] => e.confidence <= d.confidence
    <3>1. d.class = c /\ IsItem(d) /\ Place(d, people) = [track |-> t, list |-> l]
      BY <2>4 DEF Belongs
    <3>2. ASSUME NEW u \in DOMAIN associations, NEW k \in Lists, d \in Range(associations[u][k][c])
          PROVE  u = t /\ k = l
      <4>1. Place(d, people) = [track |-> u, list |-> k]
        BY <2>4, <3>2 DEF Belongs
      <4>2. [track |-> u, list |-> k].track = u /\ [track |-> u, list |-> k].list = k
        OBVIOUS
      <4>3. [track |-> t, list |-> l].track = t /\ [track |-> t, list |-> l].list = l
        OBVIOUS
      <4>4. QED
        BY <3>1, <4>1, <4>2, <4>3
    <3>3. ASSUME NEW e \in Range(detections), e.class = c, Place(e, people) = [track |-> t, list |-> l]
          PROVE  e.confidence <= d.confidence
      <4>1. e \in Predictions /\ d.class = c /\ IsItem(d)
        BY <2>1, <3>1 DEF Range
      <4>2. IsItem(e)
        BY <3>3, <4>1 DEF IsItem
      <4>3. QED
        BY <2>4, <3>3, <4>2 DEF Belongs
    <3>4. QED
      BY <3>1, <3>2, <3>3
  <2>6. \A order \in Bijection(DOMAIN people, DOMAIN people) :
          Associated([i \in DOMAIN people |-> people[order[i]]], detections) = associations
    BY <2>2
  <2>7. \A t \in DOMAIN associations : \A l \in Lists : \A c \in 0..7 :
          \A d \in Range(associations[t][l][c]) :
            /\ d.class = c /\ IsItem(d)
            /\ \A u \in DOMAIN associations : \A k \in Lists :
                 d \in Range(associations[u][k][c]) => u = t /\ k = l
            /\ \A e \in Range(detections) :
                 e.class = c /\ Place(e, people) = [track |-> t, list |-> l] => e.confidence <= d.confidence
    BY <2>5
  <2>8. QED
    BY <2>6, <2>7 DEF ItemsHaveOneOwner
<1>2. QED
  BY <1>1, FrameCorrect, PTL

==============================================================================
