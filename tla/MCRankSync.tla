----------------------------- MODULE MCRankSync -----------------------------
(***************************************************************************)
(* Small instance of RankSync: an account that is not linked, one with     *)
(* only an unmapped role, and a moderator's.                               *)
(***************************************************************************)
EXTENDS RankSync

MCAccount == {NotFound, {0}, {2, 3}}

=============================================================================
