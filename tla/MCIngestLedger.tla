--------------------------- MODULE MCIngestLedger ---------------------------
(* Small instances of IngestLedger for TLC: an asset report and a batch. *)
EXTENDS IngestLedger

MCKeys == {"report", "batch"}
MCReports == {"report"}
=============================================================================
