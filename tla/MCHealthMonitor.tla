--------------------------- MODULE MCHealthMonitor ---------------------------
(* HealthMonitor on the small instance the configuration gives.              *)
EXTENDS HealthMonitor

CONSTANTS w1, w2
=============================================================================
