------------------------- MODULE MCLatestFrameCapture -------------------------
(* Small instances of LatestFrameCapture. *)
EXTENDS LatestFrameCapture

\* An image, a file with and without timeouts, a camera with and without
\* hardware decoding.
MCSources ==
    {[kind |-> "image", cpu |-> TRUE, timeouts |-> TRUE],
     [kind |-> "file", cpu |-> FALSE, timeouts |-> TRUE],
     [kind |-> "file", cpu |-> TRUE, timeouts |-> FALSE],
     [kind |-> "rtsp", cpu |-> FALSE, timeouts |-> TRUE],
     [kind |-> "rtsp", cpu |-> TRUE, timeouts |-> TRUE]}
=============================================================================
