---------------------------- MODULE MCCommitLoop ----------------------------
(***************************************************************************)
(* CommitLoop for TLC.  Which leaders commit depends on the schedule, so   *)
(* that a change at the wrong commit shows in the log.                     *)
(***************************************************************************)
EXTENDS CommitLoop, Folds, TLC

CONSTANTS n1, n2

\* The leader of round r is skipped when r and the rounds of the commits the
\* schedule was made from add up to 2 modulo 3.
MCDecides(t, r) ==
    MapThenFoldSet(LAMBDA a, b : a + b, r, LAMBDA i : t[i].round, LAMBDA S : CHOOSE x \in S : TRUE,
                   DOMAIN t) % 3 /= 2

Symmetry == Permutations(Node)

=============================================================================
