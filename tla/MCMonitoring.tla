---------------------------- MODULE MCMonitoring ----------------------------
(* An instance of Monitoring for TLC. *)
EXTENDS Monitoring, TLC

Permutable == Permutations(Events) \cup Permutations(Actors)
=============================================================================
