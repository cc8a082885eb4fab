------------------------------ MODULE MCOutbox ------------------------------
(***************************************************************************)
(* The model checked for Outbox and OutboxPacing: two calls, up to three   *)
(* cids, one clock unit per back-off base.                                 *)
(***************************************************************************)
EXTENDS OutboxPacing, TLC

\* Calls and cids are interchangeable.
Perms == Permutations(Hash) \cup Permutations(Cid)
=============================================================================
