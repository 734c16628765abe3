---------------------------- MODULE MCEventIndexer ----------------------------
(* Model checking EventIndexer: every subscription accepts every event.      *)
EXTENDS EventIndexer, TLC

MCEvents == {i \in Items : i[1] # Horizon}
MCMatching == Deliveries
=============================================================================
