-------------------------- MODULE MCRespawnBreaker --------------------------
(***************************************************************************)
(* The breaker with three respawns in a window of four ticks, two ticks to *)
(* a grain.                                                                *)
(***************************************************************************)
EXTENDS RespawnBreaker, TLC

Symmetry == Permutations(Client)
=============================================================================
