------------------------------- MODULE MCMonitor -------------------------------
(* Two sources whose frames make one micro-batch, and a queue that can be full. *)
EXTENDS Monitor
================================================================================
