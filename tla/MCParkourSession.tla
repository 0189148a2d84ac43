--------------------------- MODULE MCParkourSession ---------------------------
(* Instances of ParkourSession for TLC. *)
EXTENDS ParkourSession, TLC

Symmetric == Permutations(Plate)

=============================================================================
