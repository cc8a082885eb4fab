---------------------------- MODULE MCActionQueue ----------------------------
(***************************************************************************)
(* Two matches, the better one debounced and the other one instant.        *)
(***************************************************************************)
EXTENDS ActionQueue, TLC

CONSTANTS slow, slower, quick

MCPriority == [m \in Match |-> IF m = slow THEN 2 ELSE IF m = slower THEN 3 ELSE 1]
=============================================================================
