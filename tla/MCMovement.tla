----------------------------- MODULE MCMovement -----------------------------
(***************************************************************************)
(* The model checked for Movement: a patch of the grid around the origin.  *)
(***************************************************************************)
EXTENDS Movement

MCStart == <<0, 0>>
MCTargets == {<<3, -1>>, <<0, 2>>}
\* Two kinds of terrain; integer division makes their mean matter.
MCCost == [c \in (-4 .. 4) \X (-4 .. 4) |-> IF c[1] = 1 THEN 3 ELSE 1]
\* The second cell of the longer walk, and the first cell of the shorter one.
Second2 == {<<2, 0>>}
First1 == {<<0, 1>>}
=============================================================================
