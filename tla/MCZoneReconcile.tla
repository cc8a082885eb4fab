-------------------------- MODULE MCZoneReconcile --------------------------
(***************************************************************************)
(* Zones of one region.                                                    *)
(***************************************************************************)
EXTENDS ZoneReconcile

CONSTANTS z1, z2, r1

MCRegionOf == [z \in Zone |-> r1]
=============================================================================
