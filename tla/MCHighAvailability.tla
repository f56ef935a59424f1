-------------------------- MODULE MCHighAvailability --------------------------
(* Instances of HighAvailability for TLC. *)
EXTENDS HighAvailability

CONSTANTS s0, s1, s2

TwoReplicas   == <<s0, s1>>
ThreeReplicas == <<s0, s1, s2>>
==============================================================================
