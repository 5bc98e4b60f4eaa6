--------------------------- MODULE MCIngestWorker ---------------------------
(* Instances of IngestWorker for TLC.  Generations are not interchangeable: *)
(* plans are sorted by generation ID.                                       *)
EXTENDS IngestWorker

=============================================================================
