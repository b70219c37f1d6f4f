------------------------------ MODULE MonitorProofs ------------------------------
(* Theorems about the monitor's loop, for any number of sources, frames and
   events, any batch size and any capacity of the evidence queue. *)
EXTENDS Monitor, TLAPS

--------------------------------------------------------------------------------
(* Sequences as sets. *)

(* What a sequence holds after an append. *)
LEMMA AppendSet ==
  ASSUME NEW S, NEW q \in Seq(S), NEW e \in S
  PROVE  SeqToSet(Append(q, e)) = SeqToSet(q) \cup {e}
<1>1. /\ DOMAIN q = 1..Len(q) /\ Len(q) \in Nat
      /\ DOMAIN Append(q, e) = 1..(Len(q) + 1)
      /\ \A i \in 1..Len(q) : Append(q, e)[i] = q[i]
      /\ Append(q, e)[Len(q) + 1] = e
  OBVIOUS
<1>2. \A i : i \in 1..(Len(q) + 1) <=> i \in 1..Len(q) \/ i = Len(q) + 1
  BY <1>1
<1> QED
  BY <1>1, <1>2 DEF SeqToSet

(* What the concatenation of two sequences holds. *)
LEMMA ConcatSet ==
  ASSUME NEW S, NEW q \in Seq(S), NEW r \in Seq(S)
  PROVE  SeqToSet(q \o r) = SeqToSet(q) \cup SeqToSet(r)
<1>1. /\ DOMAIN q = 1..Len(q) /\ Len(q) \in Nat
      /\ DOMAIN r = 1..Len(r) /\ Len(r) \in Nat
      /\ DOMAIN (q \o r) = 1..(Len(q) + Len(r))
      /\ \A i \in 1..Len(q) : (q \o r)[i] = q[i]
      /\ \A i \in 1..Len(r) : (q \o r)[Len(q) + i] = r[i]
  OBVIOUS
<1>2. \A i \in 1..(Len(q) + Len(r)) :
         i \in 1..Len(q) \/ \E j \in 1..Len(r) : i = Len(q) + j
  <2> SUFFICES ASSUME NEW i \in 1..(Len(q) + Len(r)), i \notin 1..Len(q)
               PROVE  \E j \in 1..Len(r) : i = Len(q) + j
    OBVIOUS
  <2>1. i - Len(q) \in 1..Len(r) /\ i = Len(q) + (i - Len(q))
    BY <1>1
  <2> QED
    BY <2>1
<1>3. \A i \in 1..Len(q) : i \in 1..(Len(q) + Len(r))
  BY <1>1
<1>4. \A i \in 1..Len(r) : Len(q) + i \in 1..(Len(q) + Len(r))
  BY <1>1
<1>5. SeqToSet(q \o r) \subseteq SeqToSet(q) \cup SeqToSet(r)
  <2> SUFFICES ASSUME NEW i \in 1..(Len(q) + Len(r))
               PROVE  (q \o r)[i] \in SeqToSet(q) \cup SeqToSet(r)
    BY <1>1 DEF SeqToSet
  <2>1. CASE i \in 1..Len(q)
    BY <1>1, <2>1 DEF SeqToSet
  <2>2. CASE i \notin 1..Len(q)
    <3>1. PICK j \in 1..Len(r) : i = Len(q) + j
      BY <1>2, <2>2
    <3>2. (q \o r)[i] = r[j]
      BY <1>1, <3>1
    <3> QED
      BY <1>1, <3>2 DEF SeqToSet
  <2> QED
    BY <2>1, <2>2
<1>6. SeqToSet(q) \subseteq SeqToSet(q \o r)
  BY <1>1, <1>3 DEF SeqToSet
<1>7. SeqToSet(r) \subseteq SeqToSet(q \o r)
  BY <1>1, <1>4 DEF SeqToSet
<1> QED
  BY <1>5, <1>6, <1>7

(* What a sequence holds is its head and what its tail holds. *)
LEMMA HeadSet ==
  ASSUME NEW S, NEW q \in Seq(S), q # <<>>
  PROVE  /\ SeqToSet(q) = {q[1]} \cup SeqToSet(Tail(q))
         /\ q[1] \in S /\ Tail(q) \in Seq(S)
<1>1. /\ DOMAIN q = 1..Len(q) /\ Len(q) \in Nat \ {0}
      /\ DOMAIN Tail(q) = 1..(Len(q) - 1)
      /\ \A i \in 1..(Len(q) - 1) : Tail(q)[i] = q[i + 1]
      /\ q[1] \in S /\ Tail(q) \in Seq(S)
  OBVIOUS
<1>2. \A i \in 1..Len(q) : i = 1 \/ \E j \in 1..(Len(q) - 1) : i = j + 1
  <2> SUFFICES ASSUME NEW i \in 1..Len(q), i # 1
               PROVE  \E j \in 1..(Len(q) - 1) : i = j + 1
    OBVIOUS
  <2>1. i - 1 \in 1..(Len(q) - 1) /\ i = (i - 1) + 1
    BY <1>1
  <2> QED
    BY <2>1
<1>3. \A j \in 1..(Len(q) - 1) : j + 1 \in 1..Len(q)
  BY <1>1
<1>4. 1 \in 1..Len(q)
  BY <1>1
<1>5. SeqToSet(q) \subseteq {q[1]} \cup SeqToSet(Tail(q))
  <2> SUFFICES ASSUME NEW i \in 1..Len(q), i # 1
               PROVE  q[i] \in SeqToSet(Tail(q))
    BY <1>1 DEF SeqToSet
  <2>1. PICK j \in 1..(Len(q) - 1) : i = j + 1
    BY <1>2
  <2>2. q[i] = Tail(q)[j]
    BY <1>1, <2>1
  <2> QED
    BY <1>1, <2>2 DEF SeqToSet
<1>6. {q[1]} \cup SeqToSet(Tail(q)) \subseteq SeqToSet(q)
  BY <1>1, <1>3, <1>4 DEF SeqToSet
<1> QED
  BY <1>1, <1>5, <1>6

--------------------------------------------------------------------------------
(* The events that wait to be emitted: those of all results. *)

Pending(r) == UNION {SeqToSet(q) : q \in SeqToSet(r)}

(* No result, no event. *)
LEMMA PendingEmpty == Pending(<<>>) = {}
  BY DEF Pending, SeqToSet

(* A new result adds its events. *)
LEMMA PendingAppend ==
  ASSUME NEW S, NEW r \in Seq(Seq(S)), NEW q \in Seq(S)
  PROVE  Pending(Append(r, q)) = Pending(r) \cup SeqToSet(q)
<1>1. SeqToSet(Append(r, q)) = SeqToSet(r) \cup {q}
  BY AppendSet
<1> QED
  BY <1>1 DEF Pending

(* The events of the first result and those of the others. *)
LEMMA PendingHead ==
  ASSUME NEW S, NEW r \in Seq(Seq(S)), r # <<>>
  PROVE  Pending(r) = SeqToSet(r[1]) \cup Pending(Tail(r))
<1>1. SeqToSet(r) = {r[1]} \cup SeqToSet(Tail(r))
  BY HeadSet
<1> QED
  BY <1>1 DEF Pending

(* Emitting the first event of the first result. *)
LEMMA PendingEmitted ==
  ASSUME NEW S, NEW r \in Seq(Seq(S)), r # <<>>, r[1] # <<>>
  PROVE  /\ Pending(r) = Pending(<<Tail(r[1])>> \o Tail(r)) \cup {r[1][1]}
         /\ <<Tail(r[1])>> \o Tail(r) \in Seq(Seq(S))
         /\ r[1][1] \in S
<1>1. r[1] \in Seq(S) /\ Tail(r) \in Seq(Seq(S))
  BY HeadSet
<1>2. SeqToSet(r[1]) = {r[1][1]} \cup SeqToSet(Tail(r[1])) /\ r[1][1] \in S /\ Tail(r[1]) \in Seq(S)
  BY <1>1, HeadSet
<1>3. SeqToSet(<<Tail(r[1])>> \o Tail(r)) = SeqToSet(<<Tail(r[1])>>) \cup SeqToSet(Tail(r))
  <2>1. <<Tail(r[1])>> \in Seq(Seq(S))
    BY <1>2
  <2> QED
    BY <1>1, <2>1, ConcatSet
<1>4. SeqToSet(<<Tail(r[1])>>) = {Tail(r[1])}
  <2> DEFINE one == <<Tail(r[1])>>
  <2>1. DOMAIN one = {1} /\ one[1] = Tail(r[1])
    OBVIOUS
  <2> HIDE DEF one
  <2>2. SeqToSet(one) = {one[1]}
    BY <2>1 DEF SeqToSet
  <2> QED
    BY <2>1, <2>2 DEF one
<1>5. Pending(<<Tail(r[1])>> \o Tail(r)) = SeqToSet(Tail(r[1])) \cup Pending(Tail(r))
  BY <1>3, <1>4 DEF Pending
<1>6. <<Tail(r[1])>> \o Tail(r) \in Seq(Seq(S))
  BY <1>1, <1>2
<1> QED
  BY <1>2, <1>5, <1>6, PendingHead
--------------------------------------------------------------------------------
(* The invariant. *)

FrameRefs == [source : Cameras, frame : Nat]
EventRefs == [source : Cameras, frame : Nat, index : Nat]

CapturesOK ==
  /\ published \in [Cameras -> Nat] /\ seen \in [Cameras -> Nat]
  /\ finished \in [Cameras -> BOOLEAN]
ControlOK ==
  /\ pc \in {"loop", "ended", "frame", "process", "analyze", "emit", "bottom", "leave", "unwind", "exited"}
  /\ turn \in Cameras
  /\ queued \in BOOLEAN /\ anyRunning \in BOOLEAN /\ stop \in BOOLEAN
WorkOK ==
  /\ batch \in Seq(FrameRefs) /\ results \in Seq(Seq(EventRefs)) /\ upto \in Nat
  /\ made \in Seq(EventRefs)
AnalyticsOK == analytics \in [Cameras -> [last : Nat, broken : BOOLEAN]]
ChannelOK ==
  /\ log \in Seq(EventRefs) /\ settled \in 0..Len(log) /\ persisted \in Nat
  /\ healthy \in BOOLEAN /\ open \in BOOLEAN /\ drained \in BOOLEAN

TypesOK == CapturesOK /\ ControlOK /\ WorkOK /\ AnalyticsOK /\ ChannelOK

(* The exit code is that of what happened. *)
CodeInv ==
  /\ pc \notin {"unwind", "exited"} => code = Running
  /\ pc = "unwind" => code \in {1, 2}
  /\ pc = "exited" => code \in {0, 1, 2}

(* A channel that is healthy has persisted what it settled; it is closed when
   the loop was left, and drained when the program has exited. *)
ChannelInv ==
  /\ healthy => persisted = settled
  /\ drained => ~open /\ settled = Len(log)
  /\ ~open => pc \in {"leave", "unwind", "exited"} /\ \A s \in Cameras : finished[s]
  /\ pc = "exited" => drained

(* The frames of a batch are of different sources, and newer than what the
   analytics of their source have seen, until their turn has come. *)
BatchInv ==
  /\ \A s \in Cameras : analytics[s].last <= seen[s] /\ seen[s] <= published[s]
  /\ pc \notin {"unwind", "exited"} => \A s \in Cameras : ~analytics[s].broken
  /\ pc = "analyze" => Len(results) < upto /\ upto <= Len(batch)
  /\ pc = "process" => Len(results) <= Len(batch)
  /\ pc \in {"ended", "frame", "process", "analyze"} =>
       /\ \A i, j \in 1..Len(batch) : i # j => batch[i].source # batch[j].source
       /\ \A i \in 1..Len(batch) :
            /\ batch[i].frame <= seen[batch[i].source]
            /\ Len(results) < i => analytics[batch[i].source].last < batch[i].frame
  /\ pc \in {"ended", "frame"} => \A i \in 1..Len(batch) : batch[i].source < turn

(* The captures that this iteration has looked at. *)
LookedAt ==
  CASE pc \in {"ended", "frame"} -> {s \in Cameras : s < turn}
    [] pc \in {"process", "analyze", "emit", "bottom"} -> Cameras
    [] OTHER -> {}

(* An iteration that has found no capture running has their last frames. *)
LastInv ==
  /\ ~anyRunning => \A s \in LookedAt : finished[s] /\ seen[s] = published[s]
  /\ pc = "frame" /\ ~anyRunning => finished[turn]
  /\ (pc = "leave" \/ (pc = "exited" /\ code = 0)) /\ ~stop =>
       \A s \in Cameras : finished[s] /\ seen[s] = published[s]

(* Every event is with the queue or the writer, or waits for its turn, unless an
   error has stopped the monitor or the queue. *)
AccountInv ==
  /\ pc \in {"loop", "ended", "frame", "bottom", "leave"} => results = <<>>
  /\ pc = "exited" /\ code = 0 => results = <<>> /\ (queued => healthy)
  /\ pc # "unwind" /\ (pc = "exited" => code = 0) =>
       /\ queued /\ healthy => SeqToSet(made) = SeqToSet(log) \cup Pending(results)
       /\ ~queued => SeqToSet(made) = written \cup failed \cup Pending(results)

MonitorInv == TypesOK /\ CodeInv /\ ChannelInv /\ BatchInv /\ LastInv /\ AccountInv

--------------------------------------------------------------------------------
(* Lemmas about the steps. *)

(* What the end of a source reads is followed by its frame. *)
LEMMA AfterEnded == After("ended") => pc' = "frame" /\ turn' = turn
  BY DEF After, Reads

(* The frame of a source is followed by the next source, or by the inference. *)
LEMMA AfterFrame ==
  ASSUME After("frame")
  PROVE  \/ turn < Sources /\ pc' = "ended" /\ turn' = turn + 1
         \/ ~(turn < Sources) /\ pc' = "process" /\ turn' = turn
<1>1. Reads[1] = "ended" /\ Reads[2] = "frame"
  BY DEF Reads
<1> QED
  BY <1>1 DEF After

(* A frame's events. *)
LEMMA EventsOfFrame ==
  ASSUME NEW s \in Cameras, NEW f \in Nat, NEW n \in 0..MaxEvents
  PROVE  [i \in 1..n |-> [source |-> s, frame |-> f, index |-> i - 1]] \in Seq(EventRefs)
<1>1. n \in Nat
  BY MonitorAssumption
<1>2. \A i \in 1..n : [source |-> s, frame |-> f, index |-> i - 1] \in EventRefs
  BY <1>1 DEF EventRefs
<1> QED
  BY <1>1, <1>2

(* The monitor begins with nothing seen, made or queued. *)
LEMMA InitHolds == Init => MonitorInv
<1> SUFFICES ASSUME Init PROVE MonitorInv
  OBVIOUS
<1>1. 1 \in Cameras
  BY MonitorAssumption DEF Cameras
<1>2. TypesOK
  <2>1. CapturesOK /\ AnalyticsOK
    BY DEF Init, CapturesOK, AnalyticsOK
  <2>2. ControlOK
    BY <1>1 DEF Init, ControlOK
  <2>3. WorkOK
    BY DEF Init, WorkOK
  <2>4. ChannelOK
    <3>1. log = <<>> /\ settled = 0 /\ Len(<<>>) = 0
      BY DEF Init, Channel!Init
    <3>2. log \in Seq(EventRefs) /\ settled \in 0..Len(log)
      BY <3>1
    <3>3. persisted = 0 /\ healthy = TRUE /\ open = TRUE /\ drained = FALSE
      BY DEF Init, Channel!Init
    <3> QED
      BY <3>2, <3>3 DEF ChannelOK
  <2> QED
    BY <2>1, <2>2, <2>3, <2>4 DEF TypesOK
<1>3. CodeInv /\ ChannelInv /\ LastInv
  BY DEF Init, Channel!Init, CodeInv, ChannelInv, LastInv, LookedAt
<1>4. BatchInv
  BY DEF Init, BatchInv
<1>5. AccountInv
  <2>1. /\ made = <<>> /\ log = <<>> /\ results = <<>> /\ written = {} /\ failed = {}
        /\ pc = "loop"
    BY DEF Init, Channel!Init
  <2>2. SeqToSet(<<>>) = {}
    BY DEF SeqToSet
  <2> QED
    BY <2>1, <2>2, PendingEmpty DEF AccountInv
<1> QED
  BY <1>2, <1>3, <1>4, <1>5 DEF MonitorInv

(* The frame that is analyzed next is one of the batch, and newer than the last
   one of its source. *)
LEMMA NextFrameIsNew ==
  ASSUME TypesOK, BatchInv, pc = "analyze"
  PROVE  /\ NextFrame \in FrameRefs
         /\ Len(results) + 1 \in 1..Len(batch)
         /\ Len(results) < upto /\ upto <= Len(batch)
         /\ NextFrame.source \in Cameras /\ NextFrame.frame \in Nat
         /\ analytics[NextFrame.source].last < NextFrame.frame
         /\ NextFrame.frame <= seen[NextFrame.source]
         /\ analytics[NextFrame.source].last \in Nat
         /\ ~analytics[NextFrame.source].broken
<1>1. Len(results) \in Nat /\ upto \in Nat /\ Len(batch) \in Nat
  BY DEF TypesOK, WorkOK
<1>2. Len(results) < upto /\ upto <= Len(batch)
  BY DEF BatchInv
<1>3. Len(results) + 1 \in 1..Len(batch) /\ Len(results) < Len(results) + 1
  BY <1>1, <1>2
<1>4. batch \in Seq(FrameRefs)
  BY DEF TypesOK, WorkOK
<1>5. NextFrame \in FrameRefs
  BY <1>3, <1>4 DEF NextFrame
<1>6. NextFrame.source \in Cameras /\ NextFrame.frame \in Nat
  BY <1>5 DEF FrameRefs
<1>7. /\ analytics[NextFrame.source].last < NextFrame.frame
      /\ NextFrame.frame <= seen[NextFrame.source]
  BY <1>3 DEF BatchInv, NextFrame
<1>8. /\ analytics[NextFrame.source].last \in Nat
      /\ ~analytics[NextFrame.source].broken
  BY <1>6 DEF TypesOK, AnalyticsOK, BatchInv
<1> QED
  BY <1>2, <1>3, <1>5, <1>6, <1>7, <1>8

(* The two ways in which the analytics can take a frame. *)
Breaks ==
  /\ analytics' = [analytics EXCEPT ![NextFrame.source].broken = TRUE]
  /\ pc' = "unwind" /\ code' = 1
  /\ UNCHANGED <<results, made>>
Succeeds(events) ==
  /\ analytics' = [analytics EXCEPT ![NextFrame.source].last = NextFrame.frame]
  /\ pc' = IF Len(results) + 1 = upto THEN "process" ELSE "analyze"
  /\ results' = Append(results, events) /\ made' = made \o events
  /\ UNCHANGED code

(* A frame of the batch is analyzed, or its analytics throw. *)
LEMMA AnalyzeCases ==
  ASSUME TypesOK, BatchInv, Analyze
  PROVE  /\ pc = "analyze"
         /\ Breaks \/ \E events \in Seq(EventRefs) : Succeeds(events)
         /\ UNCHANGED <<captureVars, queued, loopVars, seen, batch, upto, written, failed, channelVars>>
<1> DEFINE s == NextFrame.source
           f == NextFrame.frame
<1>1. pc = "analyze"
  BY DEF Analyze
<1>2. s \in Cameras /\ f \in Nat /\ ~(f <= analytics[s].last)
  BY <1>1, NextFrameIsNew
<1>3. \/ Breaks
      \/ \E n \in 0..MaxEvents :
           Succeeds([i \in 1..n |-> [source |-> s, frame |-> f, index |-> i - 1]])
  BY <1>2 DEF Analyze, Raise, Breaks, Succeeds
<1>4. \A n \in 0..MaxEvents :
         [i \in 1..n |-> [source |-> s, frame |-> f, index |-> i - 1]] \in Seq(EventRefs)
  BY <1>2, EventsOfFrame
<1>5. UNCHANGED <<captureVars, queued, loopVars, seen, batch, upto, written, failed, channelVars>>
  BY DEF Analyze
<1> QED
  BY <1>1, <1>3, <1>4, <1>5

(* The steps of the monitor, of the channel and of the captures. *)
LEMMA Steps ==
  [Next]_vars =>
    \/ LoopStep \/ Settle \/ RequestStop
    \/ \E s \in Cameras : Publish(s)
    \/ \E s \in Cameras : Finish(s)
    \/ UNCHANGED vars
  BY DEF Next

(* The captures and what was received of them. *)
LEMMA CapturesHold ==
  ASSUME CapturesOK, ControlOK, [Next]_vars
  PROVE  CapturesOK'
<1>1. CASE ReadFrame
  BY <1>1 DEF ReadFrame, CapturesOK, ControlOK, captureVars
<1>2. CASE StopAll
  BY <1>2 DEF StopAll, CapturesOK, workVars
<1>3. CASE \E s \in Cameras : Publish(s)
  BY <1>3 DEF Publish, CapturesOK, workVars
<1>4. CASE \E s \in Cameras : Finish(s)
  BY <1>4 DEF Finish, CapturesOK, workVars
<1>5. CASE \/ Begin \/ ReadEnded \/ Infer \/ Analyze \/ NextResult \/ Enqueue \/
               Reject \/ Write \/ Bottom \/ Leave \/ Settle \/ RequestStop
           \/ UNCHANGED vars
  BY <1>5
  DEF Begin, ReadEnded, Infer, Analyze, NextResult, Enqueue, Reject, Write, Bottom,
      Leave, Settle, RequestStop, captureVars, loopVars, workVars, channelVars, vars,
      CapturesOK
<1> QED
  BY <1>1, <1>2, <1>3, <1>4, <1>5, Steps DEF LoopStep

(* The loop's own state. *)
LEMMA ControlHolds ==
  ASSUME TypesOK, BatchInv, [Next]_vars
  PROVE  ControlOK'
<1>1. CASE Begin
  <2>1. 1 \in Cameras
    BY MonitorAssumption DEF Cameras
  <2> QED
    BY <1>1, <2>1 DEF Begin, TypesOK, ControlOK
<1>2. CASE ReadEnded
  BY <1>2, AfterEnded DEF ReadEnded, TypesOK, ControlOK, CapturesOK, captureVars, workVars
<1>3. CASE ReadFrame
  BY <1>3, AfterFrame, MonitorAssumption DEF ReadFrame, TypesOK, ControlOK, Cameras
<1>4. CASE Analyze
  BY <1>4, AnalyzeCases DEF Breaks, Succeeds, loopVars, TypesOK, ControlOK
<1>5. CASE \/ Infer \/ NextResult \/ Enqueue \/ Reject \/ Write \/ Bottom \/ StopAll \/
               Leave \/ Settle \/ RequestStop
           \/ \E s \in Cameras : Publish(s)
           \/ \E s \in Cameras : Finish(s)
           \/ UNCHANGED vars
  BY <1>5
  DEF Infer, NextResult, Enqueue, Reject, Write, Bottom, StopAll, Leave, Settle,
      RequestStop, Publish, Finish, captureVars, loopVars, workVars, channelVars, vars,
      Raise, TypesOK, ControlOK
<1> QED
  BY <1>1, <1>2, <1>3, <1>4, <1>5, Steps DEF LoopStep

(* The frames of the batch and the events made of them. *)
LEMMA WorkHolds ==
  ASSUME TypesOK, BatchInv, [Next]_vars
  PROVE  WorkOK'
<1>1. CASE Begin
  <2>1. made' = made
    BY <1>1 DEF Begin
  <2>2. \/ UNCHANGED <<batch, results, upto>>
        \/ batch' = <<>> /\ results' = <<>> /\ upto' = 0
    BY <1>1 DEF Begin
  <2>3. <<>> \in Seq(FrameRefs) /\ <<>> \in Seq(Seq(EventRefs))
    OBVIOUS
  <2>4. CASE UNCHANGED <<batch, results, upto>>
    BY <2>1, <2>4 DEF TypesOK, WorkOK
  <2>5. CASE batch' = <<>> /\ results' = <<>> /\ upto' = 0
    BY <2>1, <2>3, <2>5 DEF TypesOK, WorkOK
  <2> QED
    BY <2>2, <2>4, <2>5
<1>2. CASE ReadFrame
  <2>1. [source |-> turn, frame |-> published[turn]] \in FrameRefs
    BY DEF FrameRefs, TypesOK, CapturesOK, ControlOK
  <2>2. batch' \in Seq(FrameRefs)
    <3>1. batch \in Seq(FrameRefs)
      BY DEF TypesOK, WorkOK
    <3>2. batch' = batch \/ batch' = Append(batch, [source |-> turn, frame |-> published[turn]])
      BY <1>2 DEF ReadFrame
    <3> QED
      BY <2>1, <3>1, <3>2
  <2>3. UNCHANGED <<results, upto, made>>
    BY <1>2 DEF ReadFrame
  <2> QED
    BY <2>2, <2>3 DEF TypesOK, WorkOK
<1>3. CASE Infer
  <2>1. UNCHANGED <<batch, results, made>>
    BY <1>3 DEF Infer
  <2>2. Len(results) \in Nat /\ Len(batch) \in Nat
    BY DEF TypesOK, WorkOK
  <2>3. upto' = upto \/ upto' \in {Len(results) + MaxBatch, Len(batch)}
    BY <1>3 DEF Infer
  <2> QED
    BY <2>1, <2>2, <2>3, MonitorAssumption DEF TypesOK, WorkOK
<1>4. CASE Analyze
  <2>1. batch \in Seq(FrameRefs) /\ upto \in Nat /\ results \in Seq(Seq(EventRefs))
        /\ made \in Seq(EventRefs)
    BY DEF TypesOK, WorkOK
  <2>2. UNCHANGED <<batch, upto>>
    BY <1>4, AnalyzeCases
  <2>3. \/ UNCHANGED <<results, made>>
        \/ \E events \in Seq(EventRefs) : results' = Append(results, events) /\ made' = made \o events
    BY <1>4, AnalyzeCases DEF Breaks, Succeeds
  <2>4. results' \in Seq(Seq(EventRefs)) /\ made' \in Seq(EventRefs)
    <3>1. CASE UNCHANGED <<results, made>>
      BY <2>1, <3>1
    <3>2. ASSUME NEW events \in Seq(EventRefs), results' = Append(results, events),
                 made' = made \o events
          PROVE  results' \in Seq(Seq(EventRefs)) /\ made' \in Seq(EventRefs)
      BY <2>1, <3>2
    <3> QED
      BY <2>3, <3>1, <3>2
  <2> QED
    BY <2>1, <2>2, <2>4 DEF WorkOK
<1>5. CASE NextResult
  BY <1>5, HeadSet DEF NextResult, TypesOK, WorkOK
<1>6. CASE Enqueue
  BY <1>6, PendingEmitted DEF Enqueue, Emitting, Emitted, TypesOK, WorkOK
<1>7. CASE Reject
  BY <1>7, HeadSet DEF Reject, Emitting, TypesOK, WorkOK
<1>8. CASE Write
  BY <1>8, PendingEmitted DEF Write, Emitting, Emitted, TypesOK, WorkOK
<1>9. CASE \/ ReadEnded \/ Bottom \/ StopAll \/ Leave \/ Settle \/ RequestStop
           \/ \E s \in Cameras : Publish(s)
           \/ \E s \in Cameras : Finish(s)
           \/ UNCHANGED vars
  BY <1>9
  DEF ReadEnded, Bottom, StopAll, Leave, Settle, RequestStop, Publish, Finish,
      captureVars, loopVars, workVars, channelVars, vars, TypesOK, WorkOK
<1> QED
  BY <1>1, <1>2, <1>3, <1>4, <1>5, <1>6, <1>7, <1>8, <1>9, Steps DEF LoopStep

(* The analytics of each source. *)
LEMMA AnalyticsHold ==
  ASSUME TypesOK, BatchInv, [Next]_vars
  PROVE  AnalyticsOK'
<1>1. CASE Analyze
  BY <1>1, AnalyzeCases, NextFrameIsNew DEF Breaks, Succeeds, TypesOK, AnalyticsOK
<1>2. CASE \/ Begin \/ ReadEnded \/ ReadFrame \/ Infer \/ NextResult \/ Enqueue \/
               Reject \/ Write \/ Bottom \/ StopAll \/ Leave \/ Settle \/ RequestStop
           \/ \E s \in Cameras : Publish(s)
           \/ \E s \in Cameras : Finish(s)
           \/ UNCHANGED vars
  BY <1>2
  DEF Begin, ReadEnded, ReadFrame, Infer, NextResult, Enqueue, Reject, Write, Bottom,
      StopAll, Leave, Settle, RequestStop, Publish, Finish, captureVars, loopVars,
      workVars, channelVars, vars, TypesOK, AnalyticsOK
<1> QED
  BY <1>1, <1>2, Steps DEF LoopStep

(* The evidence channel. *)
LEMMA ChannelHolds ==
  ASSUME TypesOK, [Next]_vars
  PROVE  ChannelOK'
<1>1. CASE Enqueue
  <2>1. Event \in EventRefs
    BY <1>1, PendingEmitted DEF Enqueue, Emitting, Event, TypesOK, WorkOK
  <2> QED
    BY <1>1, <2>1 DEF Enqueue, Channel!Accept, TypesOK, ChannelOK
<1>2. CASE StopAll
  BY <1>2 DEF StopAll, Channel!Close, TypesOK, ChannelOK
<1>3. CASE Settle
  <2>1. log' = log
    BY <1>3 DEF Settle, Channel!Persist, Channel!Break, Channel!Discard, Channel!Drain
  <2>2. settled' = settled \/ (settled < Len(log) /\ settled' = settled + 1)
    BY <1>3 DEF Settle, Channel!Persist, Channel!Break, Channel!Discard, Channel!Drain
  <2>3. Len(log) \in Nat /\ settled \in 0..Len(log)
    BY DEF TypesOK, ChannelOK
  <2>4. settled' \in 0..Len(log)
    BY <2>2, <2>3
  <2>5. persisted' \in Nat
    BY <1>3 DEF Settle, Channel!Persist, Channel!Break, Channel!Discard, Channel!Drain, TypesOK, ChannelOK
  <2>6. healthy' \in BOOLEAN /\ open' \in BOOLEAN /\ drained' \in BOOLEAN
    BY <1>3 DEF Settle, Channel!Persist, Channel!Break, Channel!Discard, Channel!Drain, TypesOK, ChannelOK
  <2> QED
    BY <2>1, <2>3, <2>4, <2>5, <2>6 DEF TypesOK, ChannelOK
<1>4. CASE \/ Begin \/ ReadEnded \/ ReadFrame \/ Infer \/ Analyze \/ NextResult \/
               Reject \/ Write \/ Bottom \/ Leave \/ RequestStop
           \/ \E s \in Cameras : Publish(s)
           \/ \E s \in Cameras : Finish(s)
           \/ UNCHANGED vars
  BY <1>4
  DEF Begin, ReadEnded, ReadFrame, Infer, Analyze, NextResult, Reject, Write, Bottom,
      Leave, RequestStop, Publish, Finish, captureVars, loopVars, workVars, channelVars,
      vars, TypesOK, ChannelOK
<1> QED
  BY <1>1, <1>2, <1>3, <1>4, Steps DEF LoopStep

(* The exit code is set when an exception unwinds the monitor, and when it exits. *)
LEMMA CodeHolds ==
  ASSUME TypesOK, BatchInv, CodeInv, [Next]_vars
  PROVE  CodeInv'
<1>1. CASE ReadEnded
  BY <1>1, AfterEnded DEF ReadEnded, CodeInv
<1>2. CASE ReadFrame
  BY <1>2, AfterFrame DEF ReadFrame, CodeInv
<1>3. CASE Infer
  BY <1>3 DEF Infer, Raise, CodeInv
<1>4. CASE Analyze
  BY <1>4, AnalyzeCases DEF Breaks, Succeeds, CodeInv
<1>5. CASE Leave
  BY <1>5 DEF Leave, ExitCode, CodeInv
<1>6. CASE \/ Begin \/ NextResult \/ Enqueue \/ Reject \/ Write \/ Bottom \/ StopAll \/
               Settle \/ RequestStop
           \/ \E s \in Cameras : Publish(s)
           \/ \E s \in Cameras : Finish(s)
           \/ UNCHANGED vars
  BY <1>6
  DEF Begin, NextResult, Enqueue, Reject, Write, Bottom, StopAll, Settle, RequestStop,
      Publish, Finish, captureVars, loopVars, workVars, channelVars, vars, CodeInv
<1> QED
  BY <1>1, <1>2, <1>3, <1>4, <1>5, <1>6, Steps DEF LoopStep

(* The channel is closed by a loop that was left, and drained before the exit. *)
LEMMA ChannelInvHolds ==
  ASSUME TypesOK, BatchInv, ChannelInv, [Next]_vars
  PROVE  ChannelInv'
<1>1. CASE ReadEnded
  BY <1>1, AfterEnded DEF ReadEnded, ChannelInv, captureVars, channelVars
<1>2. CASE ReadFrame
  BY <1>2, AfterFrame DEF ReadFrame, ChannelInv, captureVars, channelVars
<1>3. CASE Infer
  BY <1>3 DEF Infer, Raise, ChannelInv, captureVars, channelVars
<1>4. CASE Analyze
  BY <1>4, AnalyzeCases DEF Breaks, Succeeds, ChannelInv, captureVars, channelVars
<1>5. CASE Enqueue
  BY <1>5 DEF Enqueue, Emitting, Channel!Accept, ChannelInv, captureVars
<1>6. CASE StopAll
  BY <1>6 DEF StopAll, Channel!Close, ChannelInv
<1>7. CASE Leave
  BY <1>7 DEF Leave, ChannelInv, captureVars, channelVars
<1>8. CASE Settle
  <2>1. /\ UNCHANGED <<log, open, captureVars, pc>>
        /\ healthy' => healthy
    BY <1>8 DEF Settle, Channel!Persist, Channel!Break, Channel!Discard, Channel!Drain
  <2>2. healthy' => persisted' = settled'
    BY <1>8 DEF Settle, Channel!Persist, Channel!Break, Channel!Discard, Channel!Drain, ChannelInv
  <2>3. drained' => ~open' /\ settled' = Len(log')
    <3>1. CASE settled < Len(log) /\ UNCHANGED <<log, drained>>
      BY <3>1 DEF ChannelInv, TypesOK, ChannelOK
    <3>2. CASE ~open /\ settled = Len(log) /\ UNCHANGED <<log, settled, open>>
      BY <3>2
    <3> QED
      BY <1>8, <3>1, <3>2 DEF Settle, Channel!Persist, Channel!Break, Channel!Discard, Channel!Drain
  <2>4. drained => drained'
    BY <1>8 DEF Settle, Channel!Persist, Channel!Break, Channel!Discard, Channel!Drain
  <2> QED
    BY <2>1, <2>2, <2>3, <2>4 DEF ChannelInv, captureVars
<1>9. CASE \E s \in Cameras : Finish(s)
  BY <1>9 DEF Finish, ChannelInv, TypesOK, CapturesOK, channelVars
<1>10. CASE \/ Begin \/ NextResult \/ Reject \/ Write \/ Bottom \/ RequestStop
            \/ \E s \in Cameras : Publish(s)
            \/ UNCHANGED vars
  BY <1>10
  DEF Begin, NextResult, Reject, Write, Bottom, RequestStop, Publish, captureVars,
      loopVars, workVars, channelVars, vars, ChannelInv
<1> QED
  BY <1>1, <1>2, <1>3, <1>4, <1>5, <1>6, <1>7, <1>8, <1>9, <1>10, Steps DEF LoopStep

(* A frame that is received is newer than what the analytics of its source have
   seen, and the only one of its source in the batch. *)
LEMMA ReadFrameHolds ==
  ASSUME TypesOK, BatchInv, AccountInv, ReadFrame
  PROVE  BatchInv'
<1>1. /\ pc = "frame" /\ UNCHANGED <<analytics, published, results>>
  BY DEF ReadFrame, captureVars
<1>2. results = <<>> /\ Len(results) = 0
  BY <1>1 DEF AccountInv
<1>3. /\ turn \in Cameras /\ turn \in Nat
      /\ \A s \in Cameras : seen[s] \in Nat /\ published[s] \in Nat
      /\ batch \in Seq(FrameRefs) /\ Len(batch) \in Nat
      /\ seen \in [Cameras -> Nat]
  <2>1. turn \in Cameras /\ batch \in Seq(FrameRefs)
    BY DEF TypesOK, ControlOK, WorkOK
  <2>2. turn \in Nat
    BY <2>1, MonitorAssumption DEF Cameras
  <2>3. \A s \in Cameras : seen[s] \in Nat /\ published[s] \in Nat
    BY DEF TypesOK, CapturesOK
  <2> QED
    BY <2>1, <2>2, <2>3 DEF TypesOK, CapturesOK
<1>4. /\ \A s \in Cameras : analytics[s].last <= seen[s] /\ seen[s] <= published[s]
      /\ \A s \in Cameras : ~analytics[s].broken /\ analytics[s].last \in Nat
      /\ \A i, j \in 1..Len(batch) : i # j => batch[i].source # batch[j].source
      /\ \A i \in 1..Len(batch) :
           /\ batch[i].source < turn /\ batch[i].source \in Cameras /\ batch[i].source \in Nat
           /\ batch[i].frame <= seen[batch[i].source]
           /\ analytics[batch[i].source].last < batch[i].frame
  <2>1. \A i \in 1..Len(batch) : batch[i] \in FrameRefs
    BY <1>3
  <2> QED
    BY <1>1, <1>2, <2>1 DEF BatchInv, FrameRefs, Cameras, TypesOK, AnalyticsOK
<1>5. /\ pc' \in {"ended", "process"}
      /\ pc' = "ended" => turn' = turn + 1
  BY AfterFrame DEF ReadFrame
<1>6. \A s \in Cameras : analytics[s].last <= seen'[s] /\ seen[s] <= seen'[s] /\ seen'[s] <= published[s]
  BY <1>3, <1>4 DEF ReadFrame
<1>7. CASE batch' = batch
  <2>1. \A i \in 1..Len(batch) : batch[i].frame <= seen'[batch[i].source]
    <3>1. \A i \in 1..Len(batch) : batch[i].frame \in Nat
      <4>1. \A i \in 1..Len(batch) : batch[i] \in FrameRefs
        BY <1>3
      <4> QED
        BY <4>1 DEF FrameRefs
    <3>2. \A s \in Cameras : seen'[s] \in Nat
      BY <1>3 DEF ReadFrame
    <3> QED
      BY <1>3, <1>4, <1>6, <3>1, <3>2
  <2>2. pc' = "ended" => \A i \in 1..Len(batch) : batch[i].source < turn'
    BY <1>3, <1>4, <1>5
  <2> QED
    BY <1>1, <1>2, <1>3, <1>4, <1>5, <1>6, <1>7, <2>1, <2>2 DEF BatchInv
<1>8. CASE batch' # batch
  <2> DEFINE new == [source |-> turn, frame |-> published[turn]]
  <2>1. /\ batch' = Append(batch, new) /\ published[turn] # seen[turn]
        /\ seen' = [seen EXCEPT ![turn] = published[turn]]
    BY <1>8 DEF ReadFrame
  <2>2. new \in FrameRefs /\ new.source = turn /\ new.frame = published[turn]
    BY <1>3 DEF FrameRefs
  <2> HIDE DEF new
  <2>3. /\ Len(batch') = Len(batch) + 1
        /\ \A i \in 1..Len(batch) : batch'[i] = batch[i]
        /\ batch'[Len(batch) + 1] = new
    BY <1>3, <2>1, <2>2
  <2>4. \A i \in 1..Len(batch') : i \in 1..Len(batch) \/ i = Len(batch) + 1
    BY <1>3, <2>3
  <2>5. seen'[turn] = published[turn] /\ \A s \in Cameras : s # turn => seen'[s] = seen[s]
    BY <1>3, <2>1
  <2>6. analytics[turn].last < published[turn]
    BY <1>3, <1>4, <2>1
  <2>7. \A i \in 1..Len(batch') :
           /\ batch'[i].frame <= seen'[batch'[i].source]
           /\ analytics[batch'[i].source].last < batch'[i].frame
    <3> SUFFICES ASSUME NEW i \in 1..Len(batch')
                 PROVE  /\ batch'[i].frame <= seen'[batch'[i].source]
                        /\ analytics[batch'[i].source].last < batch'[i].frame
      OBVIOUS
    <3>1. CASE i \in 1..Len(batch)
      <4>1. batch[i].source # turn
        BY <1>3, <1>4, <3>1
      <4> QED
        BY <1>4, <2>3, <2>5, <3>1, <4>1
    <3>2. CASE i = Len(batch) + 1
      BY <1>3, <2>2, <2>3, <2>5, <2>6, <3>2
    <3> QED
      BY <2>4, <3>1, <3>2
  <2>8. \A i, j \in 1..Len(batch') : i # j => batch'[i].source # batch'[j].source
    <3>1. \A i \in 1..Len(batch) : batch[i].source # turn
      BY <1>3, <1>4
    <3> QED
      BY <1>4, <2>2, <2>3, <2>4, <3>1
  <2>9. pc' = "ended" => \A i \in 1..Len(batch') : batch'[i].source < turn'
    <3>1. \A i \in 1..Len(batch) : batch[i].source < turn + 1
      BY <1>3, <1>4
    <3>2. turn < turn + 1
      BY <1>3
    <3> QED
      BY <1>5, <2>2, <2>3, <2>4, <3>1, <3>2
  <2>10. \A s \in Cameras : /\ analytics'[s].last <= seen'[s] /\ seen'[s] <= published'[s]
                            /\ ~analytics'[s].broken
    BY <1>1, <1>4, <1>6
  <2>11. Len(results') <= Len(batch')
    BY <1>1, <1>2, <1>3, <2>3
  <2>12. \A i \in 1..Len(batch') :
            /\ batch'[i].frame <= seen'[batch'[i].source]
            /\ analytics'[batch'[i].source].last < batch'[i].frame
    BY <1>1, <2>7
  <2> QED
    BY <1>5, <2>8, <2>9, <2>10, <2>11, <2>12 DEF BatchInv
<1> QED
  BY <1>7, <1>8

(* The analytics of a source move on to the frame they have taken; the frames
   that follow in the batch are of other sources. *)
LEMMA AnalyzeHolds ==
  ASSUME TypesOK, BatchInv, Analyze
  PROVE  BatchInv'
<1> DEFINE s == NextFrame.source
           f == NextFrame.frame
           n == Len(results)
<1>1. /\ pc = "analyze"
      /\ Breaks \/ \E events \in Seq(EventRefs) : Succeeds(events)
      /\ UNCHANGED <<captureVars, seen, batch, upto>>
  BY AnalyzeCases
<1>2. /\ s \in Cameras /\ f \in Nat /\ f <= seen[s] /\ analytics[s].last < f
      /\ n + 1 \in 1..Len(batch) /\ n < upto /\ upto <= Len(batch)
      /\ s = batch[n + 1].source /\ f = batch[n + 1].frame
  BY <1>1, NextFrameIsNew DEF NextFrame
<1>3. n \in Nat /\ upto \in Nat /\ Len(batch) \in Nat /\ AnalyticsOK
  BY DEF TypesOK, WorkOK
<1>4. CASE Breaks
  <2>1. \A c \in Cameras : analytics'[c].last = analytics[c].last
    BY <1>3, <1>4 DEF Breaks, AnalyticsOK
  <2> QED
    BY <1>1, <1>4, <2>1 DEF BatchInv, Breaks, captureVars
<1>5. ASSUME NEW events \in Seq(EventRefs), Succeeds(events)
      PROVE  BatchInv'
  <2>1. /\ analytics'[s].last = f
        /\ \A c \in Cameras : c # s => analytics'[c].last = analytics[c].last
        /\ \A c \in Cameras : analytics'[c].broken = analytics[c].broken
    BY <1>2, <1>3, <1>5 DEF Succeeds, AnalyticsOK
  <2>2. Len(results') = n + 1
    <3>1. results \in Seq(Seq(EventRefs)) /\ results' = Append(results, events)
      BY <1>5 DEF Succeeds, TypesOK, WorkOK
    <3> QED
      BY <3>1
  <2>3. pc' \in {"process", "analyze"} /\ (pc' = "analyze" => n + 1 # upto)
    BY <1>5 DEF Succeeds
  <2>4. /\ pc' = "analyze" => Len(results') < upto' /\ upto' <= Len(batch')
        /\ pc' = "process" => Len(results') <= Len(batch')
    BY <1>1, <1>2, <1>3, <2>2, <2>3
  <2>5. \A i \in 1..Len(batch) : n + 1 < i =>
           batch[i].source # s /\ analytics[batch[i].source].last < batch[i].frame
    BY <1>1, <1>2, <1>3 DEF BatchInv
  <2>6. \A i \in 1..Len(batch) : batch[i].source \in Cameras
    <3>1. \A i \in 1..Len(batch) : batch[i] \in FrameRefs
      BY DEF TypesOK, WorkOK
    <3> QED
      BY <3>1 DEF FrameRefs
  <2>7. \A i \in 1..Len(batch) : Len(results') < i => analytics'[batch[i].source].last < batch[i].frame
    BY <2>1, <2>2, <2>5, <2>6
  <2>8. \A c \in Cameras : analytics'[c].last <= seen[c]
    BY <1>2, <2>1 DEF BatchInv
  <2> QED
    BY <1>1, <2>1, <2>3, <2>4, <2>7, <2>8 DEF BatchInv, captureVars
<1> QED
  BY <1>1, <1>4, <1>5

(* Every iteration takes one newer frame of each source at most, and the analytics take each frame of the batch once. *)
LEMMA BatchHolds ==
  ASSUME TypesOK, BatchInv, AccountInv, [Next]_vars
  PROVE  BatchInv'
<1>1. CASE Begin
  <2>1. UNCHANGED <<analytics, seen, published>>
    BY <1>1 DEF Begin, captureVars
  <2>2. \/ pc' = "leave"
        \/ pc' = "ended" /\ batch' = <<>>
    BY <1>1 DEF Begin
  <2>3. pc = "loop"
    BY <1>1 DEF Begin
  <2>4. 1..Len(<<>>) = {}
    OBVIOUS
  <2> QED
    BY <2>1, <2>2, <2>3, <2>4 DEF BatchInv
<1>2. CASE ReadEnded
  <2>1. /\ UNCHANGED <<analytics, seen, published, batch, results, turn>>
        /\ pc = "ended" /\ pc' = "frame"
    BY <1>2, AfterEnded DEF ReadEnded, captureVars, workVars
  <2> QED
    BY <2>1 DEF BatchInv
<1>3. CASE ReadFrame
  BY <1>3, ReadFrameHolds
<1>4. CASE Infer
  <2>1. UNCHANGED <<analytics, seen, published, batch, results>> /\ pc = "process"
    BY <1>4 DEF Infer, captureVars
  <2>2. \/ pc' \in {"emit", "unwind"}
        \/ /\ pc' = "analyze" /\ Len(results) # Len(batch)
           /\ upto' = IF Len(results) + MaxBatch < Len(batch) THEN Len(results) + MaxBatch ELSE Len(batch)
    BY <1>4 DEF Infer, Raise
  <2>3. Len(results) \in Nat /\ Len(batch) \in Nat
    BY DEF TypesOK, WorkOK
  <2>4. Len(results) <= Len(batch)
    BY <2>1 DEF BatchInv
  <2>5. pc' = "analyze" => Len(results') < upto' /\ upto' <= Len(batch')
    BY <2>1, <2>2, <2>3, <2>4, MonitorAssumption
  <2> QED
    BY <2>1, <2>2, <2>5 DEF BatchInv
<1>5. CASE Analyze
  BY <1>5, AnalyzeHolds
<1>6. CASE \E s \in Cameras : Publish(s)
  <2>1. UNCHANGED <<analytics, seen, batch, results, turn, upto, pc>>
    BY <1>6 DEF Publish, workVars, loopVars
  <2>2. \A s \in Cameras : published[s] <= published'[s]
    BY <1>6 DEF Publish, TypesOK, CapturesOK
  <2>3. published' \in [Cameras -> Nat]
    BY <1>6 DEF Publish, TypesOK, CapturesOK
  <2>4. \A s \in Cameras : seen[s] <= published'[s]
    BY <2>2, <2>3 DEF BatchInv, TypesOK, CapturesOK
  <2> QED
    BY <2>1, <2>4 DEF BatchInv
<1>7. CASE \/ NextResult \/ Enqueue \/ Reject \/ Write \/ Bottom \/ StopAll \/ Leave \/
               Settle \/ RequestStop
           \/ \E s \in Cameras : Finish(s)
           \/ UNCHANGED vars
  <2>1. /\ UNCHANGED <<analytics, seen, published, batch>>
        /\ \/ UNCHANGED <<pc, turn, results, upto>>
           \/ pc = "emit" /\ pc' \in {"emit", "bottom"}
           \/ pc = "bottom" /\ pc' \in {"loop", "leave"}
           \/ pc' = "exited"
    BY <1>7
    DEF NextResult, Enqueue, Reject, Write, Bottom, StopAll, Leave, Settle, RequestStop,
        Finish, captureVars, loopVars, workVars, channelVars, vars, Emitting
  <2> QED
    BY <2>1 DEF BatchInv
<1> QED
  BY <1>1, <1>2, <1>3, <1>4, <1>5, <1>6, <1>7, Steps DEF LoopStep

(* What an iteration that found no capture running knows stays true: a capture that has ended publishes no more. *)
LEMMA LastHolds ==
  ASSUME TypesOK, BatchInv, CodeInv, ChannelInv, LastInv, [Next]_vars
  PROVE  LastInv'
<1>1. CASE Begin
  <2>1. UNCHANGED <<finished, seen, published, stop, code>> /\ pc = "loop"
    BY <1>1 DEF Begin, captureVars
  <2>2. \/ pc' = "leave" /\ stop /\ UNCHANGED <<turn, anyRunning>>
        \/ pc' = "ended" /\ turn' = 1
    BY <1>1 DEF Begin
  <2>3. pc' = "ended" => LookedAt' = {}
    <3>1. \A s \in Cameras : ~(s < 1)
      BY MonitorAssumption DEF Cameras
    <3> QED
      BY <2>2, <3>1 DEF LookedAt
  <2>4. pc' = "leave" => LookedAt' = {}
    BY DEF LookedAt
  <2> QED
    BY <2>1, <2>2, <2>3, <2>4 DEF LastInv
<1>2. CASE ReadEnded
  <2>1. /\ UNCHANGED <<finished, seen, published, stop, turn>>
        /\ pc = "ended" /\ pc' = "frame"
        /\ anyRunning' = (anyRunning \/ ~finished[turn])
    BY <1>2, AfterEnded DEF ReadEnded, captureVars, workVars
  <2>2. LookedAt' = LookedAt
    BY <2>1 DEF LookedAt
  <2>3. ~anyRunning' => ~anyRunning /\ finished[turn]
    BY <2>1
  <2> QED
    BY <2>1, <2>2, <2>3 DEF LastInv
<1>3. CASE ReadFrame
  <2>1. /\ UNCHANGED <<finished, published, stop, anyRunning>>
        /\ pc = "frame" /\ pc' \in {"ended", "process"}
    BY <1>3, AfterFrame DEF ReadFrame, captureVars
  <2>2. turn \in Cameras /\ seen \in [Cameras -> Nat]
    BY DEF TypesOK, ControlOK, CapturesOK
  <2>3. seen'[turn] = published[turn] /\ \A s \in Cameras : s # turn => seen'[s] = seen[s]
    BY <1>3, <2>2 DEF ReadFrame
  <2>4. LookedAt' \subseteq LookedAt \cup {turn}
    <3>1. LookedAt = {s \in Cameras : s < turn}
      BY <2>1 DEF LookedAt
    <3>2. turn \in 1..Sources /\ Sources \in Nat
      BY <2>2, MonitorAssumption DEF Cameras
    <3>3. CASE turn < Sources /\ pc' = "ended" /\ turn' = turn + 1
      <4>1. \A s \in Cameras : s < turn + 1 => s < turn \/ s = turn
        BY <3>2 DEF Cameras
      <4>2. LookedAt' = {s \in Cameras : s < turn'}
        BY <3>3 DEF LookedAt
      <4> QED
        BY <3>1, <3>3, <4>1, <4>2
    <3>4. CASE ~(turn < Sources) /\ pc' = "process"
      <4>1. \A s \in Cameras : s < turn \/ s = turn
        BY <3>2, <3>4 DEF Cameras
      <4>2. LookedAt' = Cameras
        BY <3>4 DEF LookedAt
      <4> QED
        BY <3>1, <4>1, <4>2
    <3> QED
      BY <1>3, <3>3, <3>4, AfterFrame DEF ReadFrame
  <2>5. LookedAt \subseteq Cameras
    BY DEF LookedAt
  <2>6. ~anyRunning => finished[turn] /\ \A s \in LookedAt : finished[s] /\ seen[s] = published[s]
    BY <2>1 DEF LastInv
  <2> QED
    BY <2>1, <2>2, <2>3, <2>4, <2>5, <2>6 DEF LastInv
<1>4. CASE Infer
  <2>1. /\ UNCHANGED <<finished, seen, published, stop, turn, anyRunning>>
        /\ pc = "process" /\ pc' \in {"analyze", "emit", "unwind"}
    BY <1>4 DEF Infer, Raise, captureVars, loopVars
  <2>2. LookedAt' \subseteq LookedAt
    BY <2>1 DEF LookedAt
  <2> QED
    BY <2>1, <2>2 DEF LastInv
<1>5. CASE Analyze
  <2>1. /\ UNCHANGED <<finished, seen, published, stop, turn, anyRunning>>
        /\ pc = "analyze" /\ pc' \in {"process", "analyze", "unwind"}
    BY <1>5, AnalyzeCases DEF Breaks, Succeeds, captureVars, loopVars
  <2>2. LookedAt' \subseteq LookedAt
    BY <2>1 DEF LookedAt
  <2> QED
    BY <2>1, <2>2 DEF LastInv
<1>6. CASE Reject
  <2>1. UNCHANGED <<finished, seen, published, turn, anyRunning, pc, code>> /\ stop' = TRUE
    BY <1>6 DEF Reject, captureVars
  <2>2. LookedAt' = LookedAt
    BY <2>1 DEF LookedAt
  <2> QED
    BY <2>1, <2>2 DEF LastInv
<1>7. CASE Bottom
  <2>1. /\ UNCHANGED <<finished, seen, published, stop, anyRunning>> /\ pc = "bottom"
        /\ pc' = IF anyRunning THEN "loop" ELSE "leave"
    BY <1>7 DEF Bottom, captureVars, workVars, loopVars
  <2>2. LookedAt = Cameras /\ LookedAt' = {}
    BY <2>1 DEF LookedAt
  <2> QED
    BY <2>1, <2>2 DEF LastInv
<1>8. CASE StopAll
  <2>1. /\ UNCHANGED <<seen, published, stop, anyRunning, turn, pc, code>>
        /\ pc \in {"leave", "unwind"} /\ \A s \in Cameras : finished'[s]
    BY <1>8 DEF StopAll, workVars, loopVars
  <2>2. LookedAt' = {}
    BY <2>1 DEF LookedAt
  <2> QED
    BY <2>1, <2>2 DEF LastInv
<1>9. CASE Leave
  <2>1. /\ UNCHANGED <<finished, seen, published, stop, anyRunning>>
        /\ pc \in {"leave", "unwind"} /\ pc' = "exited"
        /\ pc = "unwind" => code' = code
    BY <1>9 DEF Leave, captureVars, workVars, loopVars
  <2>2. LookedAt' = {}
    BY <2>1 DEF LookedAt
  <2>3. pc = "unwind" => code' # 0
    BY <2>1 DEF CodeInv
  <2> QED
    BY <2>1, <2>2, <2>3 DEF LastInv
<1>10. CASE RequestStop
  <2>1. /\ UNCHANGED <<finished, seen, published, anyRunning, turn, pc, code>>
        /\ stop' = TRUE
    BY <1>10 DEF RequestStop, captureVars, workVars
  <2>2. LookedAt' = LookedAt
    BY <2>1 DEF LookedAt
  <2> QED
    BY <2>1, <2>2 DEF LastInv
<1>11. CASE \E s \in Cameras : Publish(s)
  <2>1. PICK c \in Cameras : Publish(c)
    BY <1>11
  <2>2. /\ UNCHANGED <<finished, seen, anyRunning, turn, pc, code, stop>> /\ ~finished[c]
        /\ \A s \in Cameras : s # c => published'[s] = published[s]
    BY <2>1 DEF Publish, workVars, loopVars, TypesOK, CapturesOK
  <2>3. LookedAt' = LookedAt /\ LookedAt \subseteq Cameras
    BY <2>2 DEF LookedAt
  <2> QED
    BY <2>2, <2>3 DEF LastInv
<1>12. CASE \E s \in Cameras : Finish(s)
  <2>1. PICK c \in Cameras : Finish(c)
    BY <1>12
  <2>2. /\ UNCHANGED <<published, seen, anyRunning, turn, pc, code, stop>>
        /\ \A s \in Cameras : finished[s] => finished'[s]
    BY <2>1 DEF Finish, workVars, loopVars, TypesOK, CapturesOK
  <2>3. LookedAt' = LookedAt /\ LookedAt \subseteq Cameras /\ turn \in Cameras
    BY <2>2 DEF LookedAt, TypesOK, ControlOK
  <2> QED
    BY <2>2, <2>3 DEF LastInv
<1>13. CASE \/ NextResult \/ Enqueue \/ Write \/ Settle
            \/ UNCHANGED vars
  <2>1. /\ UNCHANGED <<finished, seen, published, stop, turn, anyRunning, code>>
        /\ \/ UNCHANGED pc
           \/ pc = "emit" /\ pc' \in {"emit", "bottom"}
    BY <1>13
    DEF NextResult, Enqueue, Write, Settle, captureVars, loopVars, workVars,
        channelVars, vars, Emitting
  <2> QED
    BY <2>1 DEF LastInv, LookedAt
<1> QED
  BY <1>1, <1>2, <1>3, <1>4, <1>5, <1>6, <1>7, <1>8, <1>9, <1>10, <1>11, <1>12, <1>13, Steps DEF LoopStep

(* A step that changes neither the events nor where they are. *)
LEMMA AccountKept ==
  ASSUME AccountInv, UNCHANGED <<results, made, written, failed, queued, log>>,
         healthy' => healthy,
         pc' # "exited", pc \in {"unwind", "exited"} => pc' = pc,
         pc' \in {"loop", "ended", "frame", "bottom", "leave"} => results = <<>>
  PROVE  AccountInv'
  BY DEF AccountInv

(* An event moves from the results to the channel, to the written or to the failed ones; only an unhealthy channel loses some. *)
LEMMA AccountHolds ==
  ASSUME TypesOK, BatchInv, CodeInv, ChannelInv, AccountInv, [Next]_vars
  PROVE  AccountInv'
<1>1. CASE Begin
  <2>1. UNCHANGED <<made, written, failed, queued, log, healthy>>
    BY <1>1 DEF Begin, channelVars
  <2>2. pc = "loop" /\ pc' \in {"leave", "ended"} /\ results = <<>> /\ results' = <<>>
    BY <1>1 DEF Begin, AccountInv
  <2> QED
    BY <2>1, <2>2, AccountKept
<1>2. CASE ReadEnded
  <2>1. UNCHANGED <<results, made, written, failed, queued, log, healthy>> /\ pc = "ended" /\ pc' = "frame"
    BY <1>2, AfterEnded DEF ReadEnded, workVars, channelVars
  <2> QED
    BY <2>1, AccountKept DEF AccountInv
<1>3. CASE ReadFrame
  <2>1. /\ UNCHANGED <<results, made, written, failed, queued, log, healthy>>
        /\ pc = "frame" /\ pc' \in {"ended", "process"}
    BY <1>3, AfterFrame DEF ReadFrame, channelVars
  <2> QED
    BY <2>1, AccountKept DEF AccountInv
<1>4. CASE Infer
  <2>1. /\ UNCHANGED <<results, made, written, failed, queued, log, healthy>>
        /\ pc = "process" /\ pc' \in {"analyze", "emit", "unwind"}
    BY <1>4 DEF Infer, Raise, channelVars
  <2> QED
    BY <2>1, AccountKept
<1>5. CASE Analyze
  <2>1. /\ pc = "analyze" /\ UNCHANGED <<queued, written, failed, log, healthy>>
        /\ Breaks \/ \E events \in Seq(EventRefs) : Succeeds(events)
    BY <1>5, AnalyzeCases DEF channelVars
  <2>2. CASE Breaks
    BY <2>2 DEF Breaks, AccountInv
  <2>3. ASSUME NEW events \in Seq(EventRefs), Succeeds(events)
        PROVE  AccountInv'
    <3>1. /\ results \in Seq(Seq(EventRefs)) /\ made \in Seq(EventRefs)
      BY DEF TypesOK, WorkOK
    <3>2. /\ results' = Append(results, events) /\ made' = made \o events
          /\ pc' \in {"process", "analyze"}
      BY <2>3 DEF Succeeds
    <3>3. Pending(results') = Pending(results) \cup SeqToSet(events)
      BY <3>1, <3>2, PendingAppend
    <3>4. SeqToSet(made') = SeqToSet(made) \cup SeqToSet(events)
      BY <3>1, <3>2, ConcatSet
    <3>5. /\ queued /\ healthy => SeqToSet(made) = SeqToSet(log) \cup Pending(results)
          /\ ~queued => SeqToSet(made) = written \cup failed \cup Pending(results)
      BY <2>1 DEF AccountInv
    <3>6. /\ queued /\ healthy => SeqToSet(made') = SeqToSet(log) \cup Pending(results')
          /\ ~queued => SeqToSet(made') = written \cup failed \cup Pending(results')
      BY <3>3, <3>4, <3>5
    <3> QED
      BY <2>1, <3>2, <3>6 DEF AccountInv
  <2> QED
    BY <2>1, <2>2, <2>3
<1>6. CASE NextResult
  <2>1. UNCHANGED <<made, written, failed, queued, log, healthy>> /\ pc = "emit"
    BY <1>6 DEF NextResult, channelVars
  <2>2. CASE results = <<>> /\ pc' = "bottom" /\ results' = results
    BY <2>1, <2>2, AccountKept
  <2>3. CASE results # <<>> /\ results[1] = <<>> /\ results' = Tail(results) /\ pc' = pc
    <3>1. Pending(results) = SeqToSet(<<>>) \cup Pending(results')
      BY <2>3, PendingHead DEF TypesOK, WorkOK
    <3>2. SeqToSet(<<>>) = {}
      BY DEF SeqToSet
    <3> QED
      BY <2>1, <2>3, <3>1, <3>2 DEF AccountInv
  <2> QED
    BY <1>6, <2>2, <2>3 DEF NextResult
<1>7. CASE Enqueue
  <2>1. /\ UNCHANGED <<made, written, failed, queued, pc, healthy>> /\ pc = "emit" /\ queued
        /\ results # <<>> /\ results[1] # <<>> /\ log' = Append(log, results[1][1])
        /\ results' = <<Tail(results[1])>> \o Tail(results)
    BY <1>7 DEF Enqueue, Emitting, Emitted, Event, Channel!Accept
  <2>2. results \in Seq(Seq(EventRefs)) /\ log \in Seq(EventRefs)
    BY DEF TypesOK, WorkOK, ChannelOK
  <2>3. Pending(results) = Pending(results') \cup {results[1][1]} /\ results[1][1] \in EventRefs
    BY <2>1, <2>2, PendingEmitted
  <2>4. SeqToSet(log') = SeqToSet(log) \cup {results[1][1]}
    BY <2>1, <2>2, <2>3, AppendSet
  <2>5. healthy => SeqToSet(made) = SeqToSet(log) \cup Pending(results)
    BY <2>1 DEF AccountInv
  <2>6. healthy => SeqToSet(made) = SeqToSet(log') \cup Pending(results')
    BY <2>3, <2>4, <2>5
  <2> QED
    BY <2>1, <2>6 DEF AccountInv
<1>8. CASE Reject
  <2>1. queued' /\ ~healthy' /\ pc = "emit" /\ pc' = pc
    BY <1>8 DEF Reject, Emitting, channelVars
  <2> QED
    BY <2>1 DEF AccountInv
<1>9. CASE Write
  <2>1. /\ UNCHANGED <<made, queued, pc, healthy, log>> /\ pc = "emit" /\ ~queued
        /\ results # <<>> /\ results[1] # <<>>
        /\ results' = <<Tail(results[1])>> \o Tail(results)
        /\ written' \cup failed' = written \cup failed \cup {results[1][1]}
    BY <1>9 DEF Write, Emitting, Emitted, Event, channelVars
  <2>2. Pending(results) = Pending(results') \cup {results[1][1]}
    BY <2>1, PendingEmitted DEF TypesOK, WorkOK
  <2>3. SeqToSet(made) = written \cup failed \cup Pending(results)
    BY <2>1 DEF AccountInv
  <2>4. SeqToSet(made) = written' \cup failed' \cup Pending(results')
    BY <2>1, <2>2, <2>3
  <2> QED
    BY <2>1, <2>4 DEF AccountInv
<1>10. CASE Bottom
  <2>1. /\ UNCHANGED <<results, made, written, failed, queued, log, healthy>>
        /\ pc = "bottom" /\ pc' \in {"loop", "leave"}
    BY <1>10 DEF Bottom, workVars, channelVars
  <2> QED
    BY <2>1, AccountKept DEF AccountInv
<1>11. CASE Leave
  <2>1. /\ UNCHANGED <<results, made, written, failed, queued, log, healthy>> /\ pc' = "exited"
        /\ pc \in {"leave", "unwind"}
        /\ code' = IF pc = "leave" THEN ExitCode ELSE code
    BY <1>11 DEF Leave, workVars, channelVars
  <2>2. CASE pc = "leave"
    <3>1. code' = 0 => (queued => healthy)
      BY <2>1, <2>2 DEF ExitCode
    <3> QED
      BY <2>1, <2>2, <3>1 DEF AccountInv
  <2>3. CASE pc = "unwind"
    <3>1. code' # 0
      BY <2>1, <2>3 DEF CodeInv
    <3> QED
      BY <2>1, <3>1 DEF AccountInv
  <2> QED
    BY <2>1, <2>2, <2>3
<1>12. CASE Settle
  <2>1. /\ UNCHANGED <<results, made, written, failed, queued, log, pc, code>>
        /\ healthy' => healthy
    BY <1>12 DEF Settle, workVars, Channel!Persist, Channel!Break, Channel!Discard, Channel!Drain
  <2>2. CASE pc = "exited"
    <3>1. drained /\ settled = Len(log)
      BY <2>2 DEF ChannelInv
    <3>2. ~(settled < Len(log))
      BY <3>1 DEF TypesOK, ChannelOK
    <3>3. healthy' = healthy
      BY <1>12, <3>1, <3>2 DEF Settle, Channel!Persist, Channel!Break, Channel!Discard, Channel!Drain
    <3> QED
      BY <2>1, <3>3 DEF AccountInv
  <2>3. CASE pc # "exited"
    BY <2>1, <2>3, AccountKept DEF AccountInv
  <2> QED
    BY <2>2, <2>3
<1>13. CASE \/ StopAll \/ RequestStop
            \/ \E s \in Cameras : Publish(s)
            \/ \E s \in Cameras : Finish(s)
            \/ UNCHANGED vars
  <2>1. UNCHANGED <<results, made, written, failed, queued, log, healthy, pc, code>>
    BY <1>13
    DEF StopAll, Channel!Close, RequestStop, Publish, Finish, captureVars, loopVars, workVars,
        channelVars, vars, Emitting
  <2> QED
    BY <2>1 DEF AccountInv
<1> QED
  BY <1>1, <1>2, <1>3, <1>4, <1>5, <1>6, <1>7, <1>8, <1>9, <1>10, <1>11, <1>12, <1>13, Steps DEF LoopStep

(* Every step keeps the types. *)
LEMMA TypesHold == TypesOK /\ BatchInv /\ [Next]_vars => TypesOK'
  BY CapturesHold, ControlHolds, WorkHolds, AnalyticsHold, ChannelHolds DEF TypesOK

(* The invariant is inductive. *)
LEMMA NextHolds == MonitorInv /\ [Next]_vars => MonitorInv'
  BY TypesHold, CodeHolds, ChannelInvHolds, BatchHolds, LastHolds, AccountHolds DEF MonitorInv

--------------------------------------------------------------------------------
(* Theorems. *)

(* The inductive invariant: types, exit code, channel, batch, last frames and
   the account of the events. *)
THEOREM MonitorCorrect == Spec => []MonitorInv
  BY InitHolds, NextHolds, PTL DEF Spec

(* The loop, the captures and the analytics keep their types, and no count runs
   ahead of the one it follows. *)
THEOREM MonitorTypeCorrect == Spec => []TypeOK
<1>1. MonitorInv => TypeOK
  <2> SUFFICES ASSUME MonitorInv PROVE TypeOK
    OBVIOUS
  <2>1. \A s \in Cameras : seen[s] \in 0..published[s] /\ analytics[s].last \in 0..seen[s]
    <3>1. \A s \in Cameras : published[s] \in Nat /\ seen[s] \in Nat /\ analytics[s].last \in Nat
      BY DEF MonitorInv, TypesOK, CapturesOK, AnalyticsOK
    <3> QED
      BY <3>1 DEF MonitorInv, BatchInv
  <2>2. pc \in {"loop", "ended", "frame", "process", "analyze", "emit", "bottom", "leave", "unwind", "exited"}
        /\ turn \in Cameras
    BY DEF MonitorInv, TypesOK, ControlOK
  <2>3. code \in {0, 1, 2, Running}
    BY DEF MonitorInv, CodeInv
  <2> QED
    BY <2>1, <2>2, <2>3 DEF TypeOK
<1> QED
  BY <1>1, MonitorCorrect, PTL

(* The analytics see every frame in order, at most once, and never after an
   exception has left them in the middle of one. *)
THEOREM AnalyticsStaySound == Spec => []AnalyticsIsSound
<1>1. MonitorInv => AnalyticsIsSound
  BY NextFrameIsNew DEF MonitorInv, AnalyticsIsSound
<1> QED
  BY <1>1, MonitorCorrect, PTL

(* A monitor that exits with 0 has lost no event. *)
THEOREM NoEventIsLost == Spec => []NothingIsLost
<1>1. MonitorInv => NothingIsLost
  <2> SUFFICES ASSUME MonitorInv, code = 0 PROVE NothingIsLost
    BY DEF NothingIsLost
  <2>1. pc = "exited"
    BY DEF MonitorInv, CodeInv, Running, TypesOK, ControlOK
  <2>2. results = <<>> /\ (queued => healthy) /\ drained /\ settled = Len(log)
    BY <2>1 DEF MonitorInv, AccountInv, ChannelInv
  <2>3. queued => persisted = Len(log)
    BY <2>2 DEF MonitorInv, ChannelInv
  <2> QED
    BY <2>1, <2>2, <2>3, PendingEmpty DEF MonitorInv, AccountInv, NothingIsLost
<1> QED
  BY <1>1, MonitorCorrect, PTL

(* A monitor that ends because its captures did has received the last frame of
   each. *)
THEOREM NoLastFrameIsMissed == Spec => []LastFrameIsSeen
<1>1. MonitorInv => LastFrameIsSeen
  <2> SUFFICES ASSUME MonitorInv, code = 0, ~stop PROVE LastFrameIsSeen
    BY DEF LastFrameIsSeen
  <2>1. pc = "exited"
    BY DEF MonitorInv, CodeInv, Running, TypesOK, ControlOK
  <2> QED
    BY <2>1 DEF MonitorInv, LastInv, LastFrameIsSeen
<1> QED
  BY <1>1, MonitorCorrect, PTL
================================================================================
