--------------------------- MODULE MCThresholdClock ---------------------------
EXTENDS ThresholdClock, FiniteSets

\* Four authorities of one vote each: any three are a quorum.
MCAuthority == 1..4

MCStake == [a \in MCAuthority |-> 1]

Comm == INSTANCE Committee WITH Authority <- MCAuthority, Stake <- MCStake

QuorumSets == Comm!Quorums
MCQuorum == QuorumSets

\* A network with a single validator.
SingleAuthority == {1}
Single == INSTANCE Committee WITH Authority <- SingleAuthority, Stake <- [a \in SingleAuthority |-> 1]
SingleQuorumSets == Single!Quorums
SingleQuorum == SingleQuorumSets
=============================================================================
