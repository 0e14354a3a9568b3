---------------------------- MODULE BaseCommitter ----------------------------
(***************************************************************************)
(* The commit rule for one leader slot: base_committer.rs, over a block    *)
(* DAG whose blocks passed block_verifier.rs.                              *)
(*                                                                         *)
(* A DAG d is the set of all blocks the authorities ever sign, with the    *)
(* ancestors each one names and its causal history.  An authority decides  *)
(* from the part V of d it has accepted (its DagState).                    *)
(***************************************************************************)
EXTENDS Integers

CONSTANTS
    Authority,   \* the authority indexes
    Honest,      \* the authorities that sign at most one block per round
    Quorum,      \* the sets of authorities whose stake reaches 2f+1
    Digest,      \* tells apart the blocks of one author and round
    MaxRound,    \* bound on the rounds of the DAGs
    Skip,        \* LeaderStatus::Skip
    Undecided    \* LeaderStatus::Undecided

ASSUME CommitteeFacts ==
    /\ Honest \subseteq Authority
    /\ Quorum \subseteq SUBSET Authority
    /\ \A Q \in Quorum : \A S \in SUBSET Authority : Q \subseteq S => S \in Quorum
    /\ \A Q1, Q2 \in Quorum : Q1 \cap Q2 \cap Honest # {}

Rounds == 1..MaxRound

Block == [round : 0..MaxRound, author : Authority, digest : Digest]

ASSUME StatusFacts ==
    /\ MaxRound \in Nat
    /\ Skip \notin Block /\ Undecided \notin Block /\ Skip # Undecided

Authors(S) == {b.author : b \in S}

AtRound(S, r) == {b \in S : b.round = r}

\* The checks SignedBlockVerifier::verify_block makes on the ancestors.
IsVerified(d, b) ==
    /\ \A a \in d.ancestors[b] : a.round < b.round
    /\ \A a, c \in d.ancestors[b] : a.author = c.author => a = c
    /\ b.author \in Authors(d.ancestors[b])
    /\ Authors(AtRound(d.ancestors[b], b.round - 1)) \in Quorum

\* A DAG that authorities can build: honest ones sign one block per round.
IsDag(d) ==
    /\ d.blocks \subseteq Block
    /\ d.ancestors \in [d.blocks -> SUBSET d.blocks]
    /\ d.history \in [d.blocks -> SUBSET d.blocks]
    /\ \A b \in d.blocks : IF b.round = 0 THEN d.ancestors[b] = {} ELSE IsVerified(d, b)
    /\ \A b, c \in d.blocks :
            b.author \in Honest /\ b.author = c.author /\ b.round = c.round => b = c
    /\ \A b \in d.blocks : \A a \in d.history[b] : a.round < b.round
    /\ \A b \in d.blocks :
            d.history[b] = d.ancestors[b] \cup UNION {d.history[a] : a \in d.ancestors[b]}

-----------------------------------------------------------------------------
(* Waves.  With pipelining there is one committer per round offset.        *)

\* DEFAULT_WAVE_LENGTH
WaveLength == 3

Offsets == 0..(WaveLength - 1)

\* The subtraction saturates.
wave_number(offset, round) ==
    (IF round > offset THEN round - offset ELSE 0) \div WaveLength

leader_round(offset, wave) == wave * WaveLength + offset

decision_round(offset, wave) == wave * WaveLength + WaveLength - 1 + offset

\* elect_leader: the committer has a leader in this round.
elects(offset, round) == leader_round(offset, wave_number(offset, round)) = round

DecisionRound(offset, round) == decision_round(offset, wave_number(offset, round))

-----------------------------------------------------------------------------
(* Votes, certificates and blames                                          *)

\* get_uncommitted_blocks_at_slot
BlocksAtSlot(V, slot) == {b \in V : b.round = slot.round /\ b.author = slot.authority}

\* find_supported_block and is_vote.  A potential vote is an ancestor of a
\* decision-round block, at most one round above the leader, so the search sees
\* the leader's slot among the vote's own ancestors or not at all; the ancestors
\* have distinct authors, so the first match is the only one.
is_vote(d, b, leader) == leader \in d.ancestors[b]

\* Mutant of is_certificate: the aggregator's answer is not looked at.
is_certificate_AnyVote(d, V, c, leader) ==
    \E b \in d.ancestors[c] \cap V : is_vote(d, b, leader)

\* An ancestor that is not in the DAG is below the gc round and does not count.
is_certificate(d, V, c, leader) ==
    Authors({b \in d.ancestors[c] \cap V : is_vote(d, b, leader)}) \in Quorum

\* A blame has no ancestor at all by the leader's author, whatever its round.
enough_leader_blame(d, V, voting_round, authority) ==
    Authors({b \in AtRound(V, voting_round) :
                authority \notin Authors(d.ancestors[b])}) \in Quorum

\* The early exit on the total stake of the decision round never turns down a
\* leader that has a quorum of certificates, so it is not part of the rule.
enough_leader_support(d, V, decision, leader) ==
    Authors({c \in AtRound(V, decision) : is_certificate(d, V, c, leader)}) \in Quorum

-----------------------------------------------------------------------------
(* Decisions: Skip, Undecided, or the leader block to commit               *)

\* The leader blocks with enough support; more than one is a panic.
leaders_with_enough_support(d, V, offset, slot) ==
    {b \in BlocksAtSlot(V, slot) :
        enough_leader_support(d, V, DecisionRound(offset, slot.round), b)}

try_direct_decide(d, V, offset, slot) ==
    LET candidates == leaders_with_enough_support(d, V, offset, slot)
    IN  IF enough_leader_blame(d, V, slot.round + 1, slot.authority) THEN Skip
        ELSE IF candidates # {} THEN CHOOSE b \in candidates : TRUE
        ELSE Undecided

ancestors_at_round(d, anchor, r) == AtRound(d.history[anchor], r)

\* The leader blocks certified in the anchor's history; more than one panics.
certified_leader_blocks(d, V, offset, slot, anchor) ==
    {b \in BlocksAtSlot(V, slot) :
        \E c \in ancestors_at_round(d, anchor, DecisionRound(offset, slot.round)) :
            is_certificate(d, V, c, b)}

decide_leader_from_anchor(d, V, offset, slot, anchor) ==
    LET certified == certified_leader_blocks(d, V, offset, slot, anchor)
    IN  IF certified # {} THEN CHOOSE b \in certified : TRUE ELSE Skip

\* Mutant of IsAnchorRound: a leader of the decision round may be the anchor.
IsAnchorRound_OffByOne(leaders, r, x) ==
    /\ r + WaveLength - 1 <= x
    /\ leaders[x] # Skip
    /\ \A y \in Rounds : r + WaveLength - 1 <= y /\ y < x => leaders[y] = Skip

\* The first leader at least a wave above round r that is not skipped.  In
\* `leaders` a round the pass has not decided on is Undecided.
IsAnchorRound(leaders, r, x) ==
    /\ r + WaveLength <= x
    /\ leaders[x] # Skip
    /\ \A y \in Rounds : r + WaveLength <= y /\ y < x => leaders[y] = Skip

try_indirect_decide(d, V, offset, slot, leaders) ==
    IF \E x \in Rounds : IsAnchorRound(leaders, slot.round, x) /\ leaders[x] # Undecided
    THEN LET x == CHOOSE x \in Rounds : IsAnchorRound(leaders, slot.round, x)
         IN  decide_leader_from_anchor(d, V, offset, slot, leaders[x])
    ELSE Undecided

\* The direct rule, then the indirect one, as UniversalCommitter applies them.
DecideSlot(d, V, offset, slot, leaders) ==
    LET direct == try_direct_decide(d, V, offset, slot)
    IN  IF direct # Undecided THEN direct
        ELSE try_indirect_decide(d, V, offset, slot, leaders)
=============================================================================
