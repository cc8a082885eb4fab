----------------------------- MODULE MCZoneSubs -----------------------------
(***************************************************************************)
(* Two neighbouring zones of one region and anchors that can stand near,   *)
(* where they activate one zone and warm the other, or far, where only the *)
(* other one is in reach.                                                  *)
(***************************************************************************)
EXTENDS ZoneSubs, TLC

CONSTANTS z1, z2, r1, near, far

MCRegionOf == z1 :> r1 @@ z2 :> r1

MCCoverage == near :> (z1 :> 4 @@ z2 :> 2) @@ far :> (z1 :> 0 @@ z2 :> 3)
=============================================================================
