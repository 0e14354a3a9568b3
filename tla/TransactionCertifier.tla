------------------------ MODULE TransactionCertifier ------------------------
(***************************************************************************)
(* transaction_certifier.rs: one authority's count of the votes on the     *)
(* transactions of the blocks it has received.                             *)
(*                                                                         *)
(* A block votes to reject the transactions it names; every other          *)
(* transaction below it, it accepts.  The certifier counts reject votes    *)
(* from every block it hears of, and accept votes only from the parents of *)
(* the authority's own blocks.  A transaction is a pair of a block and an  *)
(* index.                                                                  *)
(***************************************************************************)
EXTENDS BaseCommitter, Sequences

CONSTANTS
    Stake,              \* Stake[a]: the voting power of authority a
    own_index,          \* the authority whose certifier this is
    TransactionIndex,   \* the transactions of a block
    Dags                \* a family of DAGs

Comm == INSTANCE Committee

ASSUME StakeFacts == Quorum = Comm!Quorums /\ own_index \in Honest

Transaction(d) == [block : d.blocks, index : TransactionIndex]

\* The one ancestor by the block's own author.
OwnAncestors(d, b) == {a \in d.ancestors[b] : a.author = b.author}

\* What d.blocks vote.  A proposer votes once on a block, in its first block above
\* it: try_new_block votes on what link_causal_history newly returns.
IsVotedDag(d) ==
    /\ IsDag(d)
    /\ d.rejects \in [d.blocks -> SUBSET Transaction(d)]
    /\ \A b \in d.blocks : \A t \in d.rejects[b] :
        /\ t.block \in d.history[b]
        /\ b.author \in Honest => \A a \in OwnAncestors(d, b) :
                                        t.block # a /\ t.block \notin d.history[a]

ASSUME VotedDagFacts == \A d \in Dags : IsVotedDag(d)

VARIABLES
    dag,                  \* the DAG the authorities build
    voted,                \* the blocks whose VoteInfo has its block
    reject_txn_votes,     \* the reject votes counted: [author, transaction]
    accept_block_votes,   \* the accept votes counted: [author, block]
    is_certified,         \* the blocks output as certified
    executed,             \* the transactions output as accepted (history)
    certifier_gc_round    \* CertifierState::gc_round

certifierVars == <<voted, reject_txn_votes, accept_block_votes, is_certified, certifier_gc_round>>

CertifierInit ==
    /\ dag \in Dags
    /\ voted = {}
    /\ reject_txn_votes = {}
    /\ accept_block_votes = {}
    /\ is_certified = {}
    /\ executed = {}
    /\ certifier_gc_round = 0

-----------------------------------------------------------------------------
(* Counting                                                                *)

RejectVoters(rejects, t) == {v.author : v \in {v \in rejects : v.transaction = t}}

AcceptVoters(accepts, b) == {v.author : v \in {v \in accepts : v.block = b}}

\* The transactions of b that have a reject vote.
WithRejects(rejects, b) ==
    {t \in {v.transaction : v \in rejects} : t.block = b}

\* get_reject_votes finds an entry, which a vote on the block creates too.
HasVoteInfo(b) == b \in voted \/ WithRejects(reject_txn_votes, b) # {}

\* The block is certified: a quorum accepts it, and each of its transactions has
\* a quorum against it, or a quorum for it even if every reject vote cancels an
\* accept vote.  The subtraction saturates at zero, below the quorum.
take_certified_output(known, accepts, rejects, b) ==
    /\ b \in known
    /\ Comm!reached_quorum(AcceptVoters(accepts, b))
    /\ \A t \in WithRejects(rejects, b) :
        \/ Comm!reached_quorum(RejectVoters(rejects, t))
        \/ Comm!StakeOf(AcceptVoters(accepts, b)) - Comm!StakeOf(RejectVoters(rejects, t))
                >= Comm!quorum_threshold

\* Newly certified blocks among `blocks`, and what is sent to be executed.
Certify(known, accepts, rejects, blocks) ==
    LET new == {b \in blocks \ is_certified : take_certified_output(known, accepts, rejects, b)}
    IN  /\ is_certified' = is_certified \cup new
        /\ executed' = executed \cup
                {t \in [block : new, index : TransactionIndex] :
                    ~ Comm!reached_quorum(RejectVoters(rejects, t))}

\* The reject votes that blocks cast on blocks above round g.
VotesOf(blocks, g) ==
    UNION {{[author |-> b.author, transaction |-> t] : t \in {t \in dag.rejects[b] : t.block.round > g}} :
              b \in blocks}

\* Blocks are received, from whatever source and before core accepts them.  A
\* known block, or one at or below the gc round, changes nothing.
add_voted_blocks(blocks) ==
    LET new == {b \in blocks \ voted : b.round > certifier_gc_round}
        votes == VotesOf(new, certifier_gc_round)
    IN  /\ new # {}
        /\ voted' = voted \cup new
        /\ reject_txn_votes' = reject_txn_votes \cup votes
        /\ Certify(voted', accept_block_votes, reject_txn_votes',
                   {v.transaction.block : v \in votes})
        /\ UNCHANGED <<dag, accept_block_votes, certifier_gc_round>>

\* The accept votes a proposed block brings: its parents of the round before vote
\* for their parents of the round before.
VotesBelow(p) ==
    UNION {{[author |-> v.author, block |-> b] :
                b \in {b \in AtRound(dag.ancestors[v], v.round - 1) : HasVoteInfo(b)}} :
              v \in AtRound(dag.ancestors[p] \cap voted, p.round - 1)}

\* The own block p was broadcast; ProposedBlockHandler hands it to the certifier.
\* The code checks after each vote whether the block is certified: the votes only
\* grow, so the check after the last one is the one that counts.
add_proposed_block(p) ==
    LET votes == VotesBelow(p)
    IN  /\ p.author = own_index
        /\ p.round > certifier_gc_round + 2
        /\ accept_block_votes' = accept_block_votes \cup votes
        /\ Certify(voted, accept_block_votes', reject_txn_votes, {v.block : v \in votes})
        /\ UNCHANGED <<dag, voted, reject_txn_votes, certifier_gc_round>>

\* The entries of blocks at or below the gc round are dropped.
update_gc_round(g) ==
    /\ certifier_gc_round' = g
    /\ voted' = {b \in voted : b.round > g}
    /\ reject_txn_votes' = {v \in reject_txn_votes : v.transaction.block.round > g}
    /\ accept_block_votes' = {v \in accept_block_votes : v.block.round > g}
    /\ is_certified' = {b \in is_certified : b.round > g}
    /\ UNCHANGED <<dag, executed>>

\* recover: the certifier is built again from the stored blocks above the gc
\* round of the last commit that was processed.  No accept votes are recovered.
recover(blocks, g) ==
    /\ certifier_gc_round' = g
    /\ voted' = {b \in blocks : b.round > g}
    /\ reject_txn_votes' = VotesOf(voted', g)
    /\ accept_block_votes' = {}
    /\ is_certified' = {}
    /\ UNCHANGED <<dag, executed>>
=============================================================================
