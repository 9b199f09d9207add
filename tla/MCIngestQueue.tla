---------------------------- MODULE MCIngestQueue ----------------------------
(* IngestQueue on a small instance. *)
EXTENDS IngestQueue

=============================================================================
