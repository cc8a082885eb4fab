------------------------------- MODULE HexGrid -------------------------------
(***************************************************************************)
(* The axial hex grid of the world and the greedy walker over it           *)
(* (hex_distance, hex_neighbors and hex_path of src/core/src/client.rs).   *)
(* A cell is a pair <<q, r>>.                                              *)
(***************************************************************************)
EXTENDS Integers, Sequences

CONSTANT MaxPathSteps   \* MAX_PATH_STEPS

ASSUME HexAssumption == MaxPathSteps \in Nat

Cell == Int \X Int

AbsInt(x) == IF x < 0 THEN -x ELSE x

HexDistance(a, b) ==
  (AbsInt(a[1] - b[1]) + AbsInt((a[1] - b[1]) + (a[2] - b[2])) + AbsInt(a[2] - b[2])) \div 2

(* The six neighbours, in the order the walker tries them.                 *)
HexNeighbors(c) ==
  << <<c[1] + 1, c[2]>>, <<c[1] - 1, c[2]>>, <<c[1], c[2] + 1>>,
     <<c[1], c[2] - 1>>, <<c[1] + 1, c[2] - 1>>, <<c[1] - 1, c[2] + 1>> >>

(* The distances the neighbours of c are at.                               *)
Reach(c, target) == {HexDistance(HexNeighbors(c)[i], target) : i \in 1 .. 6}

\* Mutant: max_by_key.
StepAway(c, target) ==
  LET worst == CHOOSE d \in Reach(c, target) : \A e \in Reach(c, target) : e <= d
  IN  HexNeighbors(c)[CHOOSE i \in 1 .. 6 : HexDistance(HexNeighbors(c)[i], target) = worst]
(* min_by_key: the first neighbour that is nearest to the target.          *)
StepToward(c, target) ==
  LET best == CHOOSE d \in Reach(c, target) : \A e \in Reach(c, target) : d <= e
      nearest(i) == HexDistance(HexNeighbors(c)[i], target) = best
  IN  HexNeighbors(c)[CHOOSE i \in 1 .. 6 : nearest(i) /\ \A j \in 1 .. i - 1 : ~nearest(j)]

(* hex_path: the path after at most k steps of the loop, which ends at the *)
(* target, at a cell no neighbour improves on, or at the cap.              *)
HexPath(start, target) ==
  LET path[k \in 0 .. MaxPathSteps] ==
        IF k = 0 THEN << >>
        ELSE LET sofar == path[k - 1]
                 cur == IF sofar = << >> THEN start ELSE sofar[Len(sofar)]
                 best == StepToward(cur, target)
             IN  IF cur = target \/ HexDistance(best, target) >= HexDistance(cur, target)
                 THEN sofar ELSE Append(sofar, best)
  IN  path[MaxPathSteps]
=============================================================================
