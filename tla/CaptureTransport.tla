--------------------------- MODULE CaptureTransport ---------------------------
(***************************************************************************)
(* The RTSP transport of several LatestFrameCapture readers, from          *)
(* native/src/runtime/capture.cpp: a stage with an explicit transport     *)
(* sets OPENCV_FFMPEG_CAPTURE_OPTIONS once, when its thread begins, and    *)
(* OpenCV reads that variable of the process in every open, the first one  *)
(* and those of the reconnections.  The monitor starts the readers in the  *)
(* order of its configuration and does not wait for their opens.           *)
(***************************************************************************)
EXTENDS Naturals

CONSTANTS
    Count,         \* the cameras are 1..Count
    Configurations \* the transport of each camera, as configured

Transports == {"default", "tcp", "udp"}

Cameras == 1..Count

ASSUME TransportAssumption ==
    /\ Count \in Nat
    /\ Configurations \subseteq [Cameras -> Transports]

VARIABLES
    transport, \* rtsp_transport_ of each camera: constant
    options,   \* the variable of the process; "default" when nobody set it
    stage,     \* where each camera's reader is
    opened     \* the options its last open used, "none" before the first

transportVars == <<transport, options, stage, opened>>

Stages == {"none", "begin", "opening", "reading", "backoff", "returned"}

TransportInit ==
    /\ transport \in Configurations
    /\ options = "default"
    /\ stage = [c \in Cameras |-> "none"]
    /\ opened = [c \in Cameras |-> "none"]

Move(c, to) == stage' = [stage EXCEPT ![c] = to]

\* The monitor starts the captures in order.
StartReader(c) ==
    /\ stage[c] = "none"
    /\ \A d \in 1..(c - 1) : stage[d] # "none"
    /\ Move(c, "begin")
    /\ UNCHANGED <<transport, options, opened>>

\* setenv, or _putenv_s.
SetTransport(c) ==
    /\ stage[c] = "begin" /\ transport[c] # "default"
    /\ options' = transport[c]
    /\ Move(c, "opening")
    /\ UNCHANGED <<transport, opened>>

\* (Fault: a default transport clears the variable.)
ClearTransport(c) ==
    /\ stage[c] = "begin" /\ transport[c] = "default"
    /\ options' = "default"
    /\ Move(c, "opening")
    /\ UNCHANGED <<transport, opened>>

KeepTransport(c) ==
    /\ stage[c] = "begin" /\ transport[c] = "default"
    /\ Move(c, "opening")
    /\ UNCHANGED <<transport, options, opened>>

\* capture.open with the options of the moment; it succeeds or fails.
Open(c) ==
    /\ stage[c] = "opening"
    /\ opened' = [opened EXCEPT ![c] = options]
    /\ Move(c, "reading") \/ Move(c, "backoff")
    /\ UNCHANGED <<transport, options>>

LoseCamera(c) ==
    /\ stage[c] = "reading"
    /\ Move(c, "backoff")
    /\ UNCHANGED <<transport, options, opened>>

Reconnect(c) ==
    /\ stage[c] = "backoff"
    /\ Move(c, "opening")
    /\ UNCHANGED <<transport, options, opened>>

\* The capture is stopped.
End(c) ==
    /\ stage[c] \in {"begin", "opening", "reading", "backoff"}
    /\ Move(c, "returned")
    /\ UNCHANGED <<transport, options, opened>>

Finished ==
    /\ \A c \in Cameras : stage[c] = "returned"
    /\ UNCHANGED transportVars

TransportNext ==
    \/ \E c \in Cameras :
          \/ StartReader(c) \/ SetTransport(c) \/ KeepTransport(c) \/ Open(c)
          \/ LoseCamera(c) \/ Reconnect(c) \/ End(c)
    \/ Finished

TransportSpec == TransportInit /\ [][TransportNext]_transportVars

-----------------------------------------------------------------------------
(* Safety. *)

Explicit == {c \in Cameras : transport[c] # "default"}

\* When the cameras that ask for a transport ask for the same one, each of
\* them has it, at its first open and at every reconnection.
UniformTransport ==
    (\A c, d \in Explicit : transport[c] = transport[d]) =>
        \A c \in Explicit : opened[c] \in {"none", transport[c]}
=============================================================================
