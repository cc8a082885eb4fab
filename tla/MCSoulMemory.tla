---------------------------- MODULE MCSoulMemory ----------------------------
(***************************************************************************)
(* Three zones in a row: a soul stands at either end, seeing the middle    *)
(* from afar, or in the middle with everything in reach.                   *)
(***************************************************************************)
EXTENDS SoulMemory

CONSTANTS z1, z2, z3, west, east

MCCoverage ==
    [p \in Position |->
        IF p = west THEN [z \in Zone |-> IF z = z1 THEN Active ELSE IF z = z2 THEN 1 ELSE 0]
        ELSE [z \in Zone |-> IF z = z3 THEN Hot ELSE 0]]
=============================================================================
