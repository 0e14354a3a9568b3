-------------------------- MODULE MCCommitFinalizer --------------------------
(***************************************************************************)
(* Four authorities of equal stake, A faulty, seen from B.  The transaction*)
(* is in A's block of round 1, the first leader; an authority votes on it  *)
(* in its first block above it.  D's block of round 4 is the first leader  *)
(* a wave above.                                                           *)
(***************************************************************************)
EXTENDS CommitFinalizer

CONSTANTS
    A, B, C, D,
    Rejecters,          \* the sets of authorities that may reject the transaction
    RestartRejecters    \* those of them that are combined with a restart

MCAuthority == {A, B, C, D}
MCHonest == {B, C, D}
MCStake == [a \in MCAuthority |-> 1]
MCQuorum == {S \in SUBSET MCAuthority : Cardinality(S) >= 3}
MCDigest == {0}
MCTransactionIndex == {1}

blk(r, a) == [round |-> r, author |-> a, digest |-> 0]
Row(r, S) == {blk(r, a) : a \in S}

\* Equal to f; TLC tabulates it instead of evaluating it at every application.
Table(f) == f @@ <<>>

\* A goes silent after round 3.
Signers(r) == IF r <= 3 THEN MCAuthority ELSE MCHonest

\* p2, p3: the parents of the blocks of rounds 2 and 3; p4: those of D's block of
\* round 4.  Only the anchor candidate D4 may include A's block of round 3.
AncestorsOf(p2, p3, p4) ==
    [b \in UNION {Row(r, Signers(r)) : r \in 0..MaxRound} |->
        CASE b.round = 0 -> {}
          [] b.round = 1 -> Row(0, MCAuthority)
          [] b.round = 2 -> Row(1, p2[b.author])
          [] b.round = 3 -> Row(2, p3[b.author])
          [] b.round = 4 /\ b.author = D -> Row(3, p4)
          [] OTHER -> Row(b.round - 1, MCHonest)]

HistoryOf(anc) ==
    LET Deepen(h) == Table([b \in DOMAIN anc |-> h[b] \cup UNION {h[a] : a \in h[b]}])
    IN  Deepen(Deepen(Deepen(anc)))

T == [block |-> blk(1, A), index |-> 1]

\* Each authority of R rejects T, in its first block above it.
RejectsOf(anc, history, R) ==
    [b \in DOMAIN anc |->
        IF /\ b.author \in R
           /\ T.block \in history[b]
           /\ \A a \in anc[b] : a.author = b.author => a # T.block /\ T.block \notin history[a]
        THEN {T} ELSE {}]

DagOf(shape, R, synced, max_restarts) ==
    LET anc == Table(AncestorsOf(shape.p2, shape.p3, shape.p4))
        history == HistoryOf(anc)
        d == [blocks |-> DOMAIN anc, ancestors |-> anc, history |-> history,
              rejects |-> Table(RejectsOf(anc, history, R))]
    IN  d @@ [commits |-> CommitsOf(d), synced |-> synced, max_restarts |-> max_restarts]

All == [a \in MCAuthority |-> MCAuthority]
Without(x, S) == [a \in MCAuthority |-> IF a \in S THEN MCAuthority \ {x} ELSE MCAuthority]

\* All see A's block in round 2, or all but D; of the blocks of round 3 all, all
\* but D's, or only A's certify it.
Shapes ==
    <<[p2 |-> All, p3 |-> All, p4 |-> MCHonest],
      [p2 |-> Without(A, {D}), p3 |-> All, p4 |-> MCHonest],
      [p2 |-> Without(A, {D}), p3 |-> Without(A, {D}), p4 |-> MCHonest],
      [p2 |-> Without(A, {D}), p3 |-> Without(A, MCHonest), p4 |-> {A, B, D}]>>

\* Without restarts every commit may be synced; with a restart the commit of the
\* transaction is decided by the authority itself.
MCDags ==
    {DagOf(Shapes[i], R, 1..4, 0) : i \in DOMAIN Shapes, R \in Rejecters}
        \cup {DagOf(Shapes[i], R, 2..4, 1) : i \in DOMAIN Shapes, R \in RestartRejecters}

MCLeader ==
    [r \in Rounds |-> CASE r % 4 = 1 -> A [] r % 4 = 2 -> B [] r % 4 = 3 -> C [] r % 4 = 0 -> D]
=============================================================================
