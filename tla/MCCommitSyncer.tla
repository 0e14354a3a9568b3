--------------------------- MODULE MCCommitSyncer ---------------------------
(***************************************************************************)
(* Batches of two commits, two of them ahead of execution, at most two     *)
(* fetches at a time: enough for a range that is cut short while a later   *)
(* one is already there.                                                   *)
(***************************************************************************)
EXTENDS CommitSyncer
=============================================================================
