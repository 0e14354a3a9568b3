---------------------------- MODULE MCCommitStore ----------------------------
(***************************************************************************)
(* Authorities 1 to 3 sign a block in every round, each on all of the      *)
(* round below; authority 4 is slow: it signs in round 1 and next in round *)
(* 4, and nobody includes its first block in time.                         *)
(***************************************************************************)
EXTENDS CommitStore, TLC

LastRound == 5

\* A block is <<round, author>>.
Row(r) == {r} \X (1..3)

Blocks == {0} \X (1..4) \cup UNION {Row(r) : r \in 1..LastRound} \cup {<<1, 4>>, <<4, 4>>}

MCBlock == Blocks

MCRound == [b \in Blocks |-> b[1]]

AncestorTable ==
    [b \in Blocks |-> CASE b[1] = 0 -> {}
                        [] b[1] = 1 -> {0} \X (1..4)
                        [] b = <<4, 4>> -> Row(3) \cup {<<1, 4>>}
                        [] b[1] = LastRound -> Row(4) \cup {<<4, 4>>}
                        [] OTHER -> Row(b[1] - 1)] @@ <<>>

MCAncestors == AncestorTable

HistoryTable ==
    LET Deepen(h) == [b \in Blocks |-> h[b] \cup UNION {h[a] : a \in h[b]}] @@ <<>>
    IN  Deepen(Deepen(Deepen(AncestorTable)))

MCHistory == HistoryTable

MCLeaders == <<<<1, 1>>, <<3, 3>>, <<5, 2>>>>

\* Three commits: the gc rounds after them are 0, 1 and 3.
SubDagTable ==
    LET Gc(i) == GcRoundAfter(i)
        history(i) == HistoryTable[Leaders[i]] \cup {Leaders[i]}
        s1 == {b \in history(1) : b[1] > 0}
        s2 == {b \in history(2) : b[1] > Gc(1)} \ s1
        s3 == {b \in history(3) : b[1] > Gc(2)} \ (s1 \cup s2)
    IN  <<s1, s2, s3>>

MCSubDags == SubDagTable
=============================================================================
