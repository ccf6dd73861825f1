-------------------------- MODULE MCThresholdMonitor --------------------------
(* Finite instances of ThresholdMonitor. *)
EXTENDS ThresholdMonitor

CONSTANTS k1, k2
=============================================================================
