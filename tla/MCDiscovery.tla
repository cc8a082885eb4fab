---------------------------- MODULE MCDiscovery ----------------------------
(***************************************************************************)
(* The models checked for Discovery.                                       *)
(*                                                                         *)
(* MCVersions: a player_soul of ours out of view and one in view, stamped  *)
(* after its soul, which moves and has a chest in its inventory with a box *)
(* in it; a stranger's player_soul out of view, with a soul in view that   *)
(* has a bundle.  Which cards have the ids of the two players is up to the *)
(* configuration.                                                          *)
(***************************************************************************)
EXTENDS Discovery, TLC

CONSTANTS P1, P2, S1, S2, Chest, Box, P3, S3, Bundle, A, B, Far

MCCard == {P1, P2, S1, S2, Chest, Box, P3, S3, Bundle}
MCOwner == (P1 :> Me) @@ (P2 :> Me) @@ (S1 :> P1) @@ (S2 :> P2) @@ (Chest :> S1)
           @@ (Box :> Chest) @@ (P3 :> Other) @@ (S3 :> P3) @@ (Bundle :> S3)
MCPlayerSoul == {P1, P2, P3}
MCContainer == {P1, Chest, Box, Bundle}
V(c, t, place) == [card |-> c, t |-> t, place |-> place]
MCVersions ==
  {V(P1, 1, A), V(P2, 0, Far), V(S1, 0, A), V(S1, 2, B), V(Chest, 0, Inside),
   V(Box, 2, Inside), V(P3, 0, Far), V(S3, 0, A), V(Bundle, 0, B)}
\* The chest stands in the world, where it may be seen before its owner.
OutVersions ==
  {V(P1, 0, A), V(S1, 0, A), V(P2, 0, A), V(S2, 0, A), V(Chest, 0, B)}
OutOwner == [MCOwner EXCEPT ![Chest] = S2]
\* The chest is carried out into the world.
CarriedVersions ==
  {V(P1, 0, A), V(S1, 0, A), V(Chest, 0, Inside), V(Chest, 1, B)}
=============================================================================
