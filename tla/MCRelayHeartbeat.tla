-------------------------- MODULE MCRelayHeartbeat --------------------------
(* Room for two items, three ids to touch, one or two callers to tell.       *)
EXTENDS RelayHeartbeat, TLC

\* Callers and beads are told apart by nothing but their names, and the
\* properties are invariants and action properties.
Symmetry == Permutations(Caller) \cup Permutations(Bead)
=============================================================================
