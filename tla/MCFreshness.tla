----------------------------- MODULE MCFreshness -----------------------------
(***************************************************************************)
(* One card that moves between two chains, and the tile rows of one zone.  *)
(***************************************************************************)
EXTENDS Freshness, TLC

Perms == Permutations(Root)
=============================================================================
