---------------------------- MODULE FrameAnalytics ----------------------------
(* What one frame's tensors become: detections and poses
   (inference/yolo_decode.cpp), tracked people (analytics/byte_tracker.cpp and
   AnalyticsPipeline::process) and the equipment each of them wears
   (associatePpe in analytics/ppe_analytics.cpp).

   The predictions are read one at a time, in any order.  The tracks come from
   the BYTETrack library: any of TrackSets.  A pose's keypoints are what they
   show: "partial" of a body, a "body", or also the "face"; "broken" ones hold
   a value that is not finite. *)
EXTENDS Geometry, FiniteSets, Sequences, SequencesExt, Folds

CONSTANTS
  Tensors,        \* sets of predictions: what the models may answer for a frame
  TrackSets,      \* sets of [id, box]: what BYTETrack may answer
  Transform,      \* the letterbox of the frame
  MaxCandidates, MaxDetections,        \* DecodeLimits
  NmsIou, PoseConfidence, TrackingConfidence,   \* in hundredths
  Thresholds,     \* of each PPE class
  Enabled         \* PPE classes that are enabled; Person always is

Models == {"ppe", "pose"}
Person == 1

(* DetectionBetter: by confidence, class and coordinates. *)
Rank(p) == <<-p.confidence, p.class, p.box.x1, p.box.y1, p.box.x2, p.box.y2>>
Better(p, q) ==
  \E i \in 1..6 : /\ Rank(p)[i] < Rank(q)[i]
                  /\ \A j \in 1..(i - 1) : Rank(p)[j] = Rank(q)[j]

Boxes == [x1 : Int, y1 : Int, x2 : Int, y2 : Int]
Predictions ==
  [model : Models, class : 0..7, confidence : 0..100, box : Boxes,
   keypoints : {"none", "broken", "partial", "body", "face"}]

(* Two predictions of a tensor differ for DetectionBetter, two tracks in their ids. *)
ASSUME FrameAssumption ==
  /\ MaxDetections \in Nat \ {0} /\ MaxCandidates \in Nat /\ MaxDetections <= MaxCandidates
  /\ NmsIou \in 0..100 /\ PoseConfidence \in 0..100 /\ TrackingConfidence \in 0..100
  /\ Thresholds \in [0..7 -> 0..100] /\ Person \in Enabled
  /\ \A t \in Tensors :
       /\ IsFiniteSet(t) /\ t \subseteq Predictions
       /\ \A p, q \in t : p = q \/ Better(p, q) \/ Better(q, p)
  /\ \A found \in TrackSets :
       /\ IsFiniteSet(found) /\ found \subseteq [id : Nat, box : Boxes]
       /\ \A t, u \in found : t = u \/ t.id # u.id
  /\ \A side \in {"width", "height", "resizedWidth", "resizedHeight"} : Transform[side] \in Nat \ {0}
  /\ Transform.left \in Int /\ Transform.top \in Int

VARIABLES
  mode,          \* "ppe_only" or "ppe_fall"
  format,        \* of each model's output: "raw" or "end_to_end"
  tensor, read,  \* the predictions, and those that were read
  candidates,    \* BoundedCandidates, or the vector of an end-to-end decode
  detections, poses,
  tracks, ids,   \* what BYTETrack answered, and the track of each pose
  people,        \* the tracked people
  associations,  \* [track -> [worn, elsewhere]]: detections per class
  pc

frameVars == <<mode, format, tensor, read, candidates, detections, poses, tracks, ids, people,
          associations, pc>>

FrameInit ==
  /\ mode \in {"ppe_only", "ppe_fall"} /\ format \in {"raw", "end_to_end"}
  /\ tensor \in Tensors /\ read = {} /\ candidates = [m \in Models |-> {}]
  /\ detections = <<>> /\ poses = <<>> /\ tracks = {} /\ ids = <<>> /\ people = <<>>
  /\ associations = <<>> /\ pc = "decode"

--------------------------------------------------------------------------------
(* decodeDetections and decodePoses. *)
Acceptable(p) ==
  /\ Area(p.box) > 0 /\ p.keypoints # "broken"
  /\ IF p.model = "ppe" THEN p.confidence >= Thresholds[p.class] /\ p.class \in Enabled
     ELSE p.confidence >= TrackingConfidence

(* A bug: a full heap lets go of its worst for any newcomer. *)
AddAnyway(heap, p) ==
  IF Cardinality(heap) < MaxCandidates THEN heap \union {p}
  ELSE {q \in heap : \E r \in heap : Better(q, r)} \union {p}

(* The top of the priority queue, and what nms comes to last. *)
Worst(heap) == CHOOSE q \in heap : \A r \in heap : ~Better(q, r)

(* BoundedCandidates::add: a full heap exchanges its worst for a better one. *)
Add(heap, p) ==
  IF Cardinality(heap) < MaxCandidates THEN heap \union {p}
  ELSE IF Better(p, Worst(heap)) THEN (heap \ {Worst(heap)}) \union {p} ELSE heap

(* An end-to-end detection output is not bounded while it is read. *)
Collected(p) ==
  IF p.model = "ppe" /\ format = "end_to_end" THEN candidates["ppe"] \union {p}
  ELSE Add(candidates[p.model], p)

Read(p) ==
  /\ pc = "decode" /\ p \in tensor \ read
  /\ read' = read \union {p}
  /\ candidates' = IF Acceptable(p) THEN [candidates EXCEPT ![p.model] = Collected(p)]
                   ELSE candidates
  /\ UNCHANGED <<mode, format, tensor, detections, poses, tracks, ids, people, associations, pc>>

Suppresses(kept, p) ==
  \E q \in Range(kept) : q.class = p.class /\ More(Iou(q.box, p.box), <<NmsIou, 100>>)

(* No place is left or, in a raw output, a better one covers it. *)
Refuses(kept, p) == Len(kept) = MaxDetections \/ (format = "raw" /\ Suppresses(kept, p))

(* The best first: nms, or the sorted output cut. *)
Nms(heap) ==
  MapThenFoldSet(LAMBDA p, kept : IF Refuses(kept, p) THEN kept ELSE Append(kept, p),
                 <<>>, LAMBDA p : p, Worst, heap)

(* The elements of a sequence that are in a set, in their order. *)
Only(seq, set) ==
  FoldLeft(LAMBDA kept, x : IF x \in set THEN Append(kept, x) ELSE kept, <<>>, seq)

(* Boxes return to the frame after the output was cut; empty ones disappear. *)
InFrame(p) == [p EXCEPT !.box = Restored(Transform, @)]
Selected(heap) ==
  LET kept == Nms(heap)
      inFrame == [i \in 1..Len(kept) |-> InFrame(kept[i])]
  IN Only(inFrame, {p \in Range(inFrame) : Area(p.box) > 0})

Decode ==
  /\ pc = "decode" /\ read = tensor
  /\ detections' = Selected(candidates["ppe"]) /\ poses' = Selected(candidates["pose"])
  /\ pc' = "track"
  /\ UNCHANGED <<mode, format, tensor, read, candidates, tracks, ids, people, associations>>

--------------------------------------------------------------------------------
(* AnalyticsPipeline::process and ByteTracker::update. *)
IsPerson(p) == p.class = Person
Persons == {d \in Range(detections) : IsPerson(d)}
Rows == IF mode = "ppe_fall" THEN poses ELSE Only(detections, Persons)

Pairs(found, rows) ==
  {[track |-> t, row |-> i, iou |-> Iou(t.box, rows[i].box)] : t \in found, i \in 1..Len(rows)}
Overlapping(found, rows) == {p \in Pairs(found, rows) : p.iou[1] > 0}
Closer(p, q) ==
  \/ More(p.iou, q.iou)
  \/ /\ ~More(q.iou, p.iou)
     /\ \/ p.track.id < q.track.id
        \/ p.track.id = q.track.id /\ p.row < q.row

(* A bug: a track that has a row may take another. *)
FreeRow(taken, p) == taken[p.row] < 0

(* Neither the track nor the row has been used. *)
Free(taken, p) == taken[p.row] < 0 /\ \A i \in DOMAIN taken : taken[i] # p.track.id

Loosest(pairs) == CHOOSE p \in pairs : \A q \in pairs : ~Closer(p, q)

(* The tracks take their rows greedily, the best overlap first. *)
Matched(found, rows) ==
  MapThenFoldSet(LAMBDA p, taken : IF Free(taken, p) THEN [taken EXCEPT ![p.row] = p.track.id] ELSE taken,
                 [i \in 1..Len(rows) |-> -1], LAMBDA p : p, Loosest, Overlapping(found, rows))

(* isValidPosePerson: a weak pose needs a person that the PPE model sees too. *)
Supported(pose) ==
  \E d \in Persons :
    \/ ~More(<<Least(60, Greatest(20, NmsIou)), 200>>, Iou(pose.box, d.box))
    \/ CenterInside(d.box, pose.box)
IsValidPerson(pose) ==
  /\ pose.keypoints \in {"body", "face"}
  /\ pose.confidence >= Least(85, PoseConfidence + 25) \/ Supported(pose)

Public(row) ==
  \/ mode = "ppe_only"
  \/ row.confidence >= PoseConfidence /\ IsValidPerson(row)

Tracked(rows, taken) ==
  LET all == [i \in 1..Len(rows) |-> [track |-> taken[i], row |-> rows[i]]]
  IN Only(all, {p \in Range(all) : p.track >= 0 /\ Public(p.row)})

Track ==
  /\ pc = "track"
  /\ \E found \in TrackSets :
       /\ tracks' = found
       /\ ids' = Matched(found, Rows)
       /\ people' = Tracked(Rows, Matched(found, Rows))
  /\ pc' = "associate"
  /\ UNCHANGED <<mode, format, tensor, read, candidates, detections, poses, associations>>

--------------------------------------------------------------------------------
(* associatePpe.  Regions and scores are in hundredths of the coordinates. *)
Hundredfold(b) == [x1 |-> 100 * b.x1, y1 |-> 100 * b.y1, x2 |-> 100 * b.x2, y2 |-> 100 * b.y2]

(* How far the region reaches beyond the sides, and from where to where it
   reaches in the height of the person. *)
RegionOf(class) ==
  CASE class = 0 -> [side |-> 20, from |-> 18, to |-> 78]     \* HandsArms
    [] class = 2 -> [side |-> 10, from |-> 62, to |-> 112]    \* LowerLegFeet
    [] class = 3 -> [side |-> -2, from |-> 15, to |-> 72]     \* Torso
    [] OTHER     -> [side |-> 10, from |-> -15, to |-> 38]    \* HeadFace

Region(box, class) ==
  LET r == RegionOf(class)
      width == Greatest(1, box.x2 - box.x1)
      height == Greatest(1, box.y2 - box.y1)
  IN [x1 |-> 100 * box.x1 - r.side * width, x2 |-> 100 * box.x2 + r.side * width,
      y1 |-> 100 * box.y1 + r.from * height, y2 |-> 100 * box.y1 + r.to * height]

(* Twice the score, over the Weight of the item: one half for the center. *)
Weight(item) == Greatest(10000, Area(Hundredfold(item.box)))
Score(item, person) ==
  LET region == Region(person.row.box, item.class)
  IN 2 * Common(Hundredfold(item.box), region)
       + IF CenterInside(Hundredfold(item.box), region) THEN Weight(item) ELSE 0

NoOwner == [track |-> -1, score |-> 0]

(* A bug: of equal scores the last one wins. *)
FitsAsWell(best, score, track) == score >= best.score /\ score > 0

Fits(best, score, track) ==
  \/ score > best.score
  \/ score = best.score /\ track < best.track

Best(item, crowd) ==
  FoldLeft(LAMBDA best, person :
             IF Fits(best, Score(item, person), person.track)
             THEN [track |-> person.track, score |-> Score(item, person)] ELSE best,
           NoOwner, crowd)

Enclosing(item, crowd) == {p \in Range(crowd) : CenterInside(item.box, p.row.box)}

(* Where a detection belongs: a person and the list, or nowhere. *)
Place(item, crowd) ==
  LET best == Best(item, crowd)
      around == Enclosing(item, crowd)
  IN CASE best.track >= 0 /\ 100 * best.score >= 70 * Weight(item) ->
            [track |-> best.track, list |-> "worn"]
       [] Cardinality(around) = 1 ->
            [track |-> (CHOOSE p \in around : TRUE).track, list |-> "elsewhere"]
       [] OTHER -> [track |-> -1, list |-> "elsewhere"]

IsItem(p) == p.class # Person /\ p.class \in Enabled
Lists == {"worn", "elsewhere"}

(* Of the detections of a class that belong to a person's list, the first with
   the highest confidence stays; "confidence 0" counts as an empty place. *)
Kept(before, item) ==
  IF before = <<>> \/ before[1].confidence = 0 \/ item.confidence > before[1].confidence
  THEN <<item>> ELSE before

Associated(crowd, items) ==
  FoldLeft(LAMBDA held, item :
             LET place == Place(item, crowd)
             IN IF ~IsItem(item) \/ place.track < 0 THEN held
                ELSE [held EXCEPT ![place.track][place.list][item.class] = Kept(@, item)],
           [t \in {p.track : p \in Range(crowd)} |-> [l \in Lists |-> [c \in 0..7 |-> <<>>]]],
           items)

Associate ==
  /\ pc = "associate"
  /\ associations' = Associated(people, detections)
  /\ pc' = "done"
  /\ UNCHANGED <<mode, format, tensor, read, candidates, detections, poses, tracks, ids, people>>

FrameNext == (\E p \in tensor : Read(p)) \/ Decode \/ Track \/ Associate
FrameSpec == FrameInit /\ [][FrameNext]_frameVars

--------------------------------------------------------------------------------
(* The reference: which predictions should be kept, said without an order. *)
BestOf(n, set) == {p \in set : Cardinality({q \in set : Better(q, p)}) < n}
Clash(p, q) == q.class = p.class /\ More(Iou(q.box, p.box), <<NmsIou, 100>>)
Settled(set, kept) ==
  \A p \in set : p \in kept <=> ~\E q \in kept : Better(q, p) /\ Clash(p, q)
Survivors(set) ==
  IF format = "end_to_end" THEN set ELSE CHOOSE kept \in SUBSET set : Settled(set, kept)
Good(m, set) == {p \in set : p.model = m /\ Acceptable(p)}
Wanted(m) ==
  LET good == Good(m, tensor)
      free == Survivors(IF format = "end_to_end" THEN good ELSE BestOf(MaxCandidates, good))
  IN {p \in {InFrame(q) : q \in BestOf(MaxDetections, free)} : Area(p.box) > 0}

(* In whatever order the model lists its predictions, the bounded heap and the
   suppression keep the same ones: each class has no two that overlap too much,
   and what was dropped is covered by a better one that was kept, or by a limit
   (decodeDetections, decodePoses). *)
DetectionsAreTheBest ==
  pc # "decode" => Range(detections) = Wanted("ppe") /\ Range(poses) = Wanted("pose")

(* The greedy matching gives a track to one row at most and is stable: no track
   and row that overlap would both be better off with each other than with what
   they have (ByteTracker::update). *)
MatchingIsStable ==
  pc \in {"associate", "done"} =>
    /\ \A i, j \in DOMAIN ids : ids[i] = ids[j] /\ ids[i] >= 0 => i = j
    /\ \A p \in Overlapping(tracks, Rows) :
         \/ ids[p.row] = p.track.id
         \/ \E q \in Overlapping(tracks, Rows) :
              /\ ids[q.row] = q.track.id
              /\ (q.row = p.row \/ q.track = p.track)
              /\ ~More(p.iou, q.iou)

(* The order in which people stand in the frame decides nothing, a detection is
   held by one person at most and once, and what a person holds is the surest of
   the detections that belong there (associatePpe). *)
ItemsHaveOneOwner ==
  pc = "done" =>
    /\ \A order \in Bijection(DOMAIN people, DOMAIN people) :
         Associated([i \in DOMAIN people |-> people[order[i]]], detections) = associations
    /\ \A t \in DOMAIN associations : \A l \in Lists : \A c \in 0..7 :
         \A d \in Range(associations[t][l][c]) :
           /\ d.class = c /\ IsItem(d)
           /\ \A u \in DOMAIN associations : \A k \in Lists :
                d \in Range(associations[u][k][c]) => u = t /\ k = l
           /\ \A e \in Range(detections) :
                e.class = c /\ Place(e, people) = [track |-> t, list |-> l]
                  => e.confidence <= d.confidence
================================================================================
