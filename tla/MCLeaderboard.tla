---------------------------- MODULE MCLeaderboard ----------------------------
(* Instances of Leaderboard for TLC. *)
EXTENDS Leaderboard, TLC

Symmetric == Permutations(Runner)

=============================================================================
