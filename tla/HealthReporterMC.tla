--------------------------- MODULE HealthReporterMC ---------------------------
(* Instances of HealthReporter for TLC. *)
EXTENDS HealthReporter, TLC

CONSTANTS x1, g1, c1, dead1

GroupOfOne   == (x1 :> g1)
ClusterOfOne == (g1 :> c1)

\* A cluster that may not answer, or two of them, before the one that does.
OneDead == <<dead1, c1>>

\* Broken, recovered, still at it.
Seen == {[health |-> "Degraded", phase |-> "Succeeded", synced |-> TRUE],
         [health |-> "Healthy", phase |-> "Succeeded", synced |-> TRUE]}
=============================================================================
