---------------------------- MODULE MCActionHistory ---------------------------
(***************************************************************************)
(* Two debounced matches, one better than the other.                       *)
(***************************************************************************)
EXTENDS ActionHistory, TLC

CONSTANTS slow, slower, quick

MCPriority == [m \in Match |-> IF m = slow THEN 2 ELSE IF m = slower THEN 3 ELSE 1]
=============================================================================
