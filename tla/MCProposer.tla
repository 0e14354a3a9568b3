----------------------------- MODULE MCProposer -----------------------------
(***************************************************************************)
(* Proposer with two contents, so that a round proposed twice shows.       *)
(***************************************************************************)
EXTENDS Proposer

CONSTANTS c1, c2
=============================================================================
