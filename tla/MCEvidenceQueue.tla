--------------------------- MODULE MCEvidenceQueue ---------------------------
(* Small instances of EvidenceQueue. *)
EXTENDS EvidenceQueue
=============================================================================
