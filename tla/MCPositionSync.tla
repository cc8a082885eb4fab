--------------------------- MODULE MCPositionSync ---------------------------
(***************************************************************************)
(* Two places, each in a zone of its own, and server versions of the       *)
(* past, of the present before a local one, and of the future after it.    *)
(***************************************************************************)
EXTENDS PositionSync

CONSTANTS p1, p2, z1, z2

MCZoneOf == [p \in Pos |-> IF p = p1 THEN z1 ELSE z2]

MCServerStamps == {Stamp(0, 2), Stamp(1, 0), Stamp(2, 2)}

MCFewStamps == {Stamp(1, 0), Stamp(1, 2)}
=============================================================================
