------------------------- MODULE MCUniversalCommitter -------------------------
(***************************************************************************)
(* Four authorities of equal stake, A faulty.  A signs two blocks for the  *)
(* leader slot of round 1 and the others see one of them or neither; the   *)
(* round-3 blocks and the anchor candidate of round 4 choose their parents.*)
(* Only the anchor candidate may include A's round-3 block: in the other   *)
(* DAGs that block reaches a view early, late or never.                    *)
(***************************************************************************)
EXTENDS UniversalCommitter, FiniteSets, TLC

CONSTANTS A, B, C, D, v1

MCAuthority == {A, B, C, D}
MCStake == [a \in MCAuthority |-> 1]

Comm == INSTANCE Committee WITH Authority <- MCAuthority, Stake <- MCStake

QuorumSets == {S \in SUBSET MCAuthority : Cardinality(S) >= 3}
MCHonest == {B, C, D}
MCValidator == {v1}
MCDigest == {0, 1}

MCQuorum == QuorumSets
ASSUME MCCommittee == MCQuorum = Comm!Quorums /\ Comm!ByzantineIsMinority(MCHonest)

blk(r, a) == [round |-> r, author |-> a, digest |-> 0]
A1x == [round |-> 1, author |-> A, digest |-> 1]

\* Equal to f; TLC tabulates it instead of evaluating it at every application.
Table(f) == f @@ <<>>

Row(r, S) == {blk(r, a) : a \in S}

\* A goes silent after round 3.
Signers(r) == IF r <= 3 THEN MCAuthority ELSE MCHonest

\* The authorities whose blocks of round r all blocks above it include.
Included(r) == IF r <= 2 THEN MCAuthority ELSE MCHonest

\* votes[a]: the block of A that a's round-2 block includes, if any.
\* p3[a]: parents of a's round-3 block; p4: parents of D's round-4 block.
AncestorsOf(votes, p3, p4) ==
    [b \in UNION {Row(r, Signers(r)) : r \in 0..MaxRound} \cup {A1x} |->
        CASE b.round = 0 -> {}
          [] b.round = 1 -> Row(0, MCAuthority)
          [] b.round = 2 /\ b.author = A -> Row(1, MCAuthority)
          [] b.round = 2 /\ b.author # A -> Row(1, {B, C, D}) \cup votes[b.author]
          [] b.round = 3 -> Row(2, p3[b.author])
          [] b.round = 4 /\ b.author = D -> Row(3, p4)
          [] OTHER -> Row(b.round - 1, Included(b.round - 1))]

\* Ancestors, ancestors of ancestors, and so on; each step doubles the depth.
HistoryOf(anc) ==
    LET Deepen(h) == Table([b \in DOMAIN anc |-> h[b] \cup UNION {h[a] : a \in h[b]}])
    IN  Deepen(Deepen(Deepen(anc)))

DagOf(votes, p3, p4) ==
    LET anc == Table(AncestorsOf(votes, p3, p4))
    IN  [blocks |-> DOMAIN anc, ancestors |-> anc, history |-> HistoryOf(anc)]

\* Votes(x, y, z): what the round-2 blocks of B, C and D include of A's blocks.
Votes(x, y, z) == [a \in MCHonest |-> CASE a = B -> x [] a = C -> y [] a = D -> z]

\* Two of the honest authorities vote for A1 and A's own vote makes a quorum, but
\* only A's round-3 block has it among its parents: D's round-4 block sees that
\* certificate or not.
CertifiedOnce ==
    [votes : {Votes({blk(1, A)}, {blk(1, A)}, {}), Votes({blk(1, A)}, {blk(1, A)}, {A1x})},
     p3 : {[a \in MCAuthority |-> IF a = A THEN MCAuthority ELSE MCHonest]},
     p4 : {{A, B, D}, {B, C, D}}]

\* A3, B3 and C3 are certificates of A1 and D3 is not: a view without A's round-3
\* block decides the slot through the anchor, and with it directly.
CertifiedLate ==
    [votes : {Votes({blk(1, A)}, {blk(1, A)}, {})},
     p3 : {[a \in MCAuthority |-> IF a = D THEN MCHonest ELSE MCAuthority]},
     p4 : {{B, C, D}}]

\* All round-3 blocks see all votes: certified by all, split, or blamed.
FullyConnected ==
    [votes : {Votes({blk(1, A)}, {blk(1, A)}, {A1x}), Votes({blk(1, A)}, {A1x}, {A1x}),
              Votes({}, {}, {})},
     p3 : {[a \in MCAuthority |-> MCAuthority]},
     p4 : {{B, C, D}}]

AllDags == Table([i \in CertifiedOnce \cup CertifiedLate \cup FullyConnected |-> DagOf(i.votes, i.p3, i.p4)])

\* TLC evaluates the body of a definition that replaces a constant at every use.
MCDags == AllDags

\* Authorities lead in turn; a later schedule shifts them by one.
MCSchedule == {0}
MCLeader ==
    [s \in Schedule |->
        [r \in Rounds |-> CASE (r + s) % 4 = 1 -> A
                            [] (r + s) % 4 = 2 -> B
                            [] (r + s) % 4 = 3 -> C
                            [] (r + s) % 4 = 0 -> D]]
=============================================================================
