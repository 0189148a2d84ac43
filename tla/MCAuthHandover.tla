---------------------------- MODULE MCAuthHandover ----------------------------
(* Instances of AuthHandover for TLC. *)
EXTENDS AuthHandover, TLC

Symmetric == Permutations(Handler) \cup Permutations(Player)

=============================================================================
