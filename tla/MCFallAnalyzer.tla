---------------------------- MODULE MCFallAnalyzer ----------------------------
(* Small instances of FallAnalyzer. *)
EXTENDS FallAnalyzer

Pose(horizontal, nearFloor, falling, vertical) ==
    [horizontal |-> horizontal, nearFloor |-> nearFloor, falling |-> falling,
     vertical |-> vertical]

\* Lying on the floor, falling, lying higher up, standing, crouching.
MCPoses ==
    {Pose(TRUE, TRUE, FALSE, FALSE), Pose(TRUE, FALSE, TRUE, FALSE),
     Pose(TRUE, FALSE, FALSE, FALSE), Pose(FALSE, FALSE, FALSE, TRUE),
     Pose(FALSE, TRUE, FALSE, FALSE)}
=============================================================================
