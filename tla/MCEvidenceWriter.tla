--------------------------- MODULE MCEvidenceWriter ---------------------------
(* Small instances of EvidenceWriter. *)
EXTENDS EvidenceWriter
=============================================================================
