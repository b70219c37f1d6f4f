--------------------------- MODULE MCFrameAnalytics ---------------------------
(* Up to five predictions out of a pool: two people who stand beside each
   other, a second sight of one of them, a box in the padding, helmets on a
   head, between the two, at the feet and far away, gloves that are disabled,
   and three poses.  A frame of 40 x 20 in a model of 20 x 20. *)
EXTENDS FrameAnalytics, FiniteSetsExt

Rect(x1, y1, x2, y2) == [x1 |-> x1, y1 |-> y1, x2 |-> x2, y2 |-> y2]
Seen(class, confidence, box) ==
  [model |-> "ppe", class |-> class, confidence |-> confidence, box |-> box, keypoints |-> "none"]
Pose(confidence, box, keypoints) ==
  [model |-> "pose", class |-> 0, confidence |-> confidence, box |-> box, keypoints |-> keypoints]

Pool == {
  Seen(1, 90, Rect(2, 6, 6, 14)), Seen(1, 70, Rect(5, 6, 9, 14)),
  Seen(1, 80, Rect(3, 6, 7, 14)), Seen(1, 95, Rect(10, 16, 14, 19)),
  Seen(6, 60, Rect(3, 6, 5, 8)), Seen(6, 80, Rect(5, 6, 6, 8)),
  Seen(6, 75, Rect(3, 12, 5, 13)), Seen(0, 90, Rect(3, 8, 4, 9)),
  Pose(90, Rect(2, 6, 6, 14), "body"), Pose(50, Rect(5, 6, 9, 14), "face"),
  Pose(20, Rect(3, 6, 7, 14), "partial")}

MCTensors == UNION {kSubset(n, Pool) : n \in 0..5}
MCTransform == Letterbox(40, 20, 20, 20)
MCThresholds == [c \in 0..7 |-> IF c = 6 THEN 60 ELSE 50]
MCEnabled == 1..7

Found(id, x1, x2) == [id |-> id, box |-> Rect(x1, 2, x2, 18)]
MCTrackSets == {
  {}, {Found(1, 4, 12), Found(2, 10, 18)}, {Found(2, 5, 13), Found(1, 9, 17)},
  {Found(1, 7, 15), Found(3, 8, 16)}}
================================================================================
