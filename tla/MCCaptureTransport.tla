-------------------------- MODULE MCCaptureTransport --------------------------
(* Small instances of CaptureTransport. *)
EXTENDS CaptureTransport

\* Every configuration of three cameras.
MCConfigurations == [1..3 -> {"default", "tcp", "udp"}]
=============================================================================
