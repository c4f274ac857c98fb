---------------------------- MODULE MCTelemetry ----------------------------
(* Instances of Telemetry for TLC: a store and another node to probe. *)
EXTENDS Telemetry

CONSTANTS v, s, n

MCTargets == {s, n}
MCStores == {s}
=============================================================================
