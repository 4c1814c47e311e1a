---------------------------- MODULE MCBusRuntime ----------------------------
(* Instances of BusRuntime for TLC. *)
EXTENDS BusRuntime, TLC

Symmetry == Permutations(Requests) \cup Permutations(Buses)
=============================================================================
