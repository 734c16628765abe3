--------------------------- MODULE IndexerProcess ---------------------------
(***************************************************************************)
(* The process that ingestion and the dispatcher of webhooks run in: when  *)
(* it dies, both lose what they had in memory.                             *)
(***************************************************************************)
EXTENDS Integers

CONSTANT MaxCrashes  \* bound on the number of crashes

ASSUME ProcessAssumption == MaxCrashes \in Nat

VARIABLE crashes     \* number of crashes so far

ProcessDies ==
  /\ crashes < MaxCrashes
  /\ crashes' = crashes + 1
=============================================================================
