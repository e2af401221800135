-------------------------- MODULE MCIngestScheduler --------------------------
(* Small instances of IngestScheduler: calendars of a few days, two ticking  *)
(* processes or three.                                                       *)
EXTENDS IngestScheduler
=============================================================================
