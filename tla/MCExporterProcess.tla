------------------------- MODULE MCExporterProcess -------------------------
(* A process with short intervals, for TLC. *)
EXTENDS ExporterProcess
=============================================================================
