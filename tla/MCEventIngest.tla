---------------------------- MODULE MCEventIngest ----------------------------
(* Model checking EventIngest: see Ingest.cfg.                          *)
EXTENDS EventIngest, TLC
=============================================================================
