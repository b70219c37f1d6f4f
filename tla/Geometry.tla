------------------------------- MODULE Geometry -------------------------------
(* Boxes and the letterbox (foundation/types.cpp, analytics/letterbox.cpp).
   Coordinates are whole numbers of a unit small enough for the divisions that
   occur; a ratio is compared in hundredths, by multiplication. *)
EXTENDS Integers

Least(a, b) == IF a < b THEN a ELSE b
Greatest(a, b) == IF a > b THEN a ELSE b
Between(low, value, high) == low <= value /\ value <= high

Area(b) == Greatest(0, b.x2 - b.x1) * Greatest(0, b.y2 - b.y1)

Common(a, b) ==
  Greatest(0, Least(a.x2, b.x2) - Greatest(a.x1, b.x1))
    * Greatest(0, Least(a.y2, b.y2) - Greatest(a.y1, b.y1))
Union(a, b) == Area(a) + Area(b) - Common(a, b)

(* Intersection over union, as <<numerator, denominator>>. *)
Iou(a, b) == IF Union(a, b) > 0 THEN <<Common(a, b), Union(a, b)>> ELSE <<0, 1>>
More(r, s) == r[1] * s[2] > s[1] * r[2]

(* Twice the coordinates: the center of a box may lie between two. *)
CenterInside(a, b) ==
  /\ Between(2 * b.x1, a.x1 + a.x2, 2 * b.x2)
  /\ Between(2 * b.y1, a.y1 + a.y2, 2 * b.y2)

--------------------------------------------------------------------------------
Rounded(a, b) == (2 * a + b) \div (2 * b)

(* The frame is scaled by the smaller ratio and centered; of an odd rest the
   smaller half comes first (the - 0.1 before round). *)
Letterbox(width, height, modelWidth, modelHeight) ==
  LET byWidth == modelWidth * height <= modelHeight * width
      scaled(length) == Greatest(1, IF byWidth THEN Rounded(length * modelWidth, width)
                                    ELSE Rounded(length * modelHeight, height))
  IN [width |-> width, height |-> height,
      resizedWidth |-> scaled(width), resizedHeight |-> scaled(height),
      left |-> (modelWidth - scaled(width)) \div 2,
      top |-> (modelHeight - scaled(height)) \div 2]

Clamped(value, maximum) == Greatest(0, Least(value, maximum))
RestoredX(t, x) == Clamped(((x - t.left) * t.width) \div t.resizedWidth, t.width)
RestoredY(t, y) == Clamped(((y - t.top) * t.height) \div t.resizedHeight, t.height)
Restored(t, b) ==
  [x1 |-> RestoredX(t, b.x1), y1 |-> RestoredY(t, b.y1),
   x2 |-> RestoredX(t, b.x2), y2 |-> RestoredY(t, b.y2)]
================================================================================
