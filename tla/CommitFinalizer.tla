--------------------------- MODULE CommitFinalizer ---------------------------
(***************************************************************************)
(* commit_finalizer.rs, with the certifier it reads and the commits core   *)
(* feeds it: when a committed transaction is finalized, and when rejected. *)
(*                                                                         *)
(* The model is one authority.  Its committed leaders are the ones every   *)
(* authority commits (UniversalCommitter); it decides a leader from its    *)
(* own DAG (local) or receives the commit through commit sync.  Blocks     *)
(* reach the certifier before and while the finalizer works: it runs in a  *)
(* task of its own and takes the certifier's lock for each question.       *)
(*                                                                         *)
(* The channel to the finalizer is left out.  A commit that waits in it is *)
(* one that core takes later: what is decided stays decided.               *)
(***************************************************************************)
EXTENDS TransactionCertifier, SequencesExt

CONSTANTS
    Leader,        \* Leader[r]: elect_leader(r)
    GcDepth,       \* gc_depth of the protocol configuration
    MaxAhead,      \* bound on blocks received and not yet accepted
    MaxReceived    \* bound on the rounds of blocks that arrive one by one

ASSUME FinalizerFacts ==
    /\ Leader \in [Rounds -> Authority]
    /\ GcDepth \in Nat /\ MaxAhead \in Nat /\ MaxReceived \in Nat

calculate_gc_round(round) == IF round > GcDepth THEN round - GcDepth ELSE 0

-----------------------------------------------------------------------------
(* The commits of a DAG                                                    *)

\* The statuses one pass of try_decide gives the leaders, from the view V.
LeaderStatuses(d, V) ==
    LET top == MaxRound - WaveLength + 1
        below[n \in 0..top] ==
            IF n = 0 THEN [r \in Rounds |-> Undecided]
            ELSE LET r == top - n + 1
                 IN  [below[n - 1] EXCEPT ![r] =
                        DecideSlot(d, V, r % WaveLength, [round |-> r, authority |-> Leader[r]], below[n - 1])]
    IN  below[top]

\* The leaders committed from the view: those before the first undecided slot.
CommittedLeaders(d, V) ==
    LET statuses == LeaderStatuses(d, V)
        decided == {r \in Rounds : \A x \in 1..r : statuses[x] # Undecided}
    IN  SetToSortSeq({statuses[r] : r \in decided} \ {Skip}, LAMBDA b, c : b.round < c.round)

\* linearize_sub_dag: what the i-th leader adds, above the gc round of the last.
SubDag(d, leaders, i) ==
    LET Below(l) == d.history[l] \cup {l}
        g == IF i = 1 THEN 0 ELSE calculate_gc_round(leaders[i - 1].round)
    IN  {b \in Below(leaders[i]) : b.round > g} \ UNION {Below(leaders[j]) : j \in 1..(i - 1)}

CommitsOf(d) ==
    LET leaders == CommittedLeaders(d, d.blocks)
    IN  [i \in 1..Len(leaders) |-> [leader |-> leaders[i], blocks |-> SubDag(d, leaders, i)]]

\* d.commits is what every authority commits in the end; d.synced are the indexes
\* of the commits that may come through commit sync, and d.max_restarts bounds the
\* restarts.
ASSUME CommitFacts ==
    \A d \in Dags :
        d.commits = CommitsOf(d) /\ d.synced \subseteq Nat /\ d.max_restarts \in Nat

-----------------------------------------------------------------------------
VARIABLES
    accepted,          \* the blocks in DagState
    last_commit,       \* the index of the last commit handed to the finalizer
    pending_commits,   \* CommitFinalizer::pending_commits
    linked,            \* CommitFinalizer::blocks, as block -> its reject votes
    phase,             \* where process_commit is
    finalized,         \* the index of the last commit popped as finalized
    sent,              \* the index of the last commit sent to execution
    rejected,          \* what the commits finalized and not yet sent reject
    outcomes,          \* the [transaction, rejected] sent to execution (history)
    stored,            \* the blocks and the number of commits in the store
    handled,           \* the last commit the consumer has processed
    restarts           \* how many restarts there were

finalizerVars == <<pending_commits, linked, phase, finalized, sent, rejected, outcomes>>

coreVars == <<accepted, last_commit, stored, handled, restarts>>

vars == <<dag, certifierVars, executed, finalizerVars, coreVars>>

commits == dag.commits

\* The gc round that the i-th commit sets.
GcRoundOf(i) == IF i = 0 THEN 0 ELSE calculate_gc_round(commits[i].leader.round)

\* DagState::gc_round.  After a restart the last commit is the last stored one,
\* while the finalizer gets the commits after the last handled one again.
gc_round == GcRoundOf(Max({last_commit, stored.commits}))

Init ==
    /\ CertifierInit
    /\ accepted = AtRound(dag.blocks, 0)
    /\ last_commit = 0
    /\ pending_commits = <<>>
    /\ linked = <<>>
    /\ phase = "recv"
    /\ finalized = 0
    /\ sent = 0
    /\ rejected = {}
    /\ outcomes = {}
    /\ stored = [blocks |-> accepted, commits |-> 0]
    /\ handled = 0
    /\ restarts = 0

-----------------------------------------------------------------------------
(* process_commit                                                          *)

LeaderRound(c) == commits[c.index].leader.round

TransactionsIn(i) == [block : commits[i].blocks, index : TransactionIndex]

\* CommitState::new
CommitState(i, local) ==
    [index |-> i, local |-> local, pending_blocks |-> TRUE,
     pending_transactions |-> {}, rejected_transactions |-> {}]

\* Mutant of CanFinalizeDirectly: a synced commit is taken for a local one.
CanFinalizeDirectly_Always(c, last) == TRUE

\* Mutant of CanFinalizeDirectly: a last commit a wave above is not enough.
CanFinalizeDirectly_Above(c, last) ==
    c.local \/ LeaderRound(c) + WaveLength < LeaderRound(last)

\* The leader certificate is in the local DAG: the commit is local, or the last
\* commit is a wave above it.
CanFinalizeDirectly(c, last) ==
    c.local \/ LeaderRound(c) + WaveLength <= LeaderRound(last)

\* try_direct_finalize_commit: no reject vote finalizes, a quorum rejects, and
\* what is in between is pending.
DirectlyFinalized(c) ==
    LET voted_on == {t \in TransactionsIn(c.index) : RejectVoters(reject_txn_votes, t) # {}}
        against == {t \in voted_on : Comm!reached_quorum(RejectVoters(reject_txn_votes, t))}
    IN  [c EXCEPT !.pending_blocks = FALSE,
                  !.pending_transactions = voted_on \ against,
                  !.rejected_transactions = against]

\* The loop stops at the first commit that must wait.
TryDirectly(p) ==
    [i \in 1..Len(p) |->
        IF p[i].pending_blocks
           /\ \A j \in 1..i : p[j].pending_blocks => CanFinalizeDirectly(p[j], Last(p))
        THEN DirectlyFinalized(p[i]) ELSE p[i]]

IsFinalized(c) == ~ c.pending_blocks /\ c.pending_transactions = {}

\* pop_finalized_commits: the longest prefix of finalized commits.
Popped(p) == {i \in 1..Len(p) : \A j \in 1..i : IsFinalized(p[j])}

\* The reject votes of the commit's blocks, as link_blocks_in_last_commit and
\* inherit_reject_votes_in_last_commit leave them: a block's own ones and those
\* of its author's blocks below it, as far as they are linked.
WithRejectVotes(table, blocks) ==
    LET known == DOMAIN table \cup blocks
        Inherited[n \in 0..MaxRound] ==
            [b \in {b \in known : b.round <= n} |->
                IF b \notin blocks THEN table[b]
                ELSE dag.rejects[b] \cup
                        UNION {Inherited[n - 1][a] : a \in OwnAncestors(dag, b) \cap known}]
    IN  Inherited[MaxRound]

\* `table` without the blocks of the commits that p pops.
Unlinked(table, p) ==
    Restrict(table, DOMAIN table \ UNION {commits[p[i].index].blocks : i \in Popped(p)})

\* What a pop of p leaves of pending_commits, and what it adds to the output.
PopFinalized(p) ==
    LET n == Cardinality(Popped(p))
    IN  /\ pending_commits' = SubSeq(p, n + 1, Len(p))
        /\ finalized' = finalized + n
        /\ rejected' = rejected \cup UNION {p[i].rejected_transactions : i \in Popped(p)}

\* The next commit arrives: direct finalization, pop, and the links of its blocks
\* if a commit is left.
process_commit(local) ==
    LET p == TryDirectly(Append(pending_commits, CommitState(last_commit + 1, local)))
        left == Popped(p) # 1..Len(p)
    IN  /\ phase = "recv"
        /\ last_commit < Len(commits)
        /\ PopFinalized(p)
        /\ linked' = IF left
                     THEN WithRejectVotes(Unlinked(linked, p), commits[last_commit + 1].blocks)
                     ELSE Unlinked(linked, p)
        /\ phase' = IF left THEN "indirect" ELSE "end"
        /\ last_commit' = last_commit + 1
        /\ UNCHANGED <<dag, certifierVars, executed, sent, outcomes>>

\* The blocks the breadth-first search from b's children visits.
Visited(b) ==
    LET Upto[n \in 0..MaxRound] ==
            IF n = 0 THEN {}
            ELSE Upto[n - 1] \cup
                    {c \in AtRound(DOMAIN linked, n) : dag.ancestors[c] \cap (Upto[n - 1] \cup {b}) # {}}
    IN  Upto[MaxRound]

\* try_indirect_finalize_pending_transactions_in_block: a quorum of the authors
\* of committed blocks above has a block that does not reject the transaction.
AcceptedAbove(t) ==
    Comm!reached_quorum(Authors({c \in Visited(t.block) : t \notin linked[c]}))

\* Mutant of NotAccepted: the rejection comes before the check.
NotAccepted_Unchecked(pending) == pending

\* try_indirect_finalize_pending_transactions_in_first_commit leaves these.
NotAccepted(pending) == {t \in pending : ~ AcceptedAbove(t)}

\* INDIRECT_REJECT_DEPTH
IndirectRejectDepth == 3

\* try_indirect_finalize_first_commit: a quorum of reject votes by now, a quorum
\* of accept votes in the committed blocks, or a last commit high enough above.
IndirectlyFinalized(c) ==
    LET pending == c.pending_transactions
        against == {t \in pending : Comm!reached_quorum(RejectVoters(reject_txn_votes, t))}
        left == NotAccepted(pending \ against)
        late == LeaderRound(c) + IndirectRejectDepth <= LeaderRound(Last(pending_commits))
    IN  [c EXCEPT !.pending_transactions = IF late THEN {} ELSE left,
                  !.rejected_transactions = @ \cup against \cup (IF late THEN left ELSE {})]

\* One turn of the loop over the earliest commit.
TryIndirectly ==
    LET p == <<IndirectlyFinalized(Head(pending_commits))>> \o Tail(pending_commits)
    IN  /\ phase = "indirect"
        /\ Len(pending_commits) > 1
        /\ ~ Head(pending_commits).pending_blocks
        /\ PopFinalized(p)
        /\ linked' = Unlinked(linked, p)
        /\ phase' = IF Popped(p) = {} THEN "end" ELSE "indirect"
        /\ UNCHANGED <<dag, certifierVars, executed, sent, outcomes, coreVars>>

\* The loop has nothing to do (any more).
LoopEnds ==
    /\ phase = "indirect"
    /\ Len(pending_commits) > 1 => Head(pending_commits).pending_blocks
    /\ phase' = "end"
    /\ UNCHANGED <<dag, certifierVars, executed, pending_commits, linked, finalized, sent,
                   rejected, outcomes, coreVars>>

\* DagState::flush: all blocks and commits in memory are stored.  What only a
\* restart past the bound would read is not tracked.
Flushed(blocks) ==
    IF restarts < dag.max_restarts
    THEN [blocks |-> blocks, commits |-> Max({last_commit, stored.commits})]
    ELSE stored

\* The gc round of the certifier trails the one of DagState.
FinalizedGcRound == GcRoundOf(finalized)

\* The certifier forgets what is below the finalized commits; then everything is
\* flushed and the commits are sent.
SendFinalized ==
    /\ phase = "end"
    /\ finalized > sent
    /\ update_gc_round(FinalizedGcRound)
    /\ stored' = Flushed(accepted)
    /\ outcomes' = outcomes \cup
            UNION {{[transaction |-> t, rejected |-> t \in rejected] : t \in TransactionsIn(i)} :
                      i \in (sent + 1)..finalized}
    /\ sent' = finalized
    /\ rejected' = {}
    /\ phase' = "recv"
    /\ UNCHANGED <<pending_commits, linked, finalized, accepted, last_commit, handled, restarts>>

SendNothing ==
    /\ phase = "end"
    /\ finalized = sent
    /\ phase' = "recv"
    /\ UNCHANGED <<dag, certifierVars, executed, pending_commits, linked, finalized, sent,
                   rejected, outcomes, coreVars>>

-----------------------------------------------------------------------------
(* Core and the network                                                    *)

IsCompleteAbove(b, V, g) == \A a \in dag.ancestors[b] : a.round > g => a \in V

\* A block arrives from a peer.
ReceiveBlock(b) ==
    /\ b.author # own_index
    /\ b.round <= MaxReceived
    /\ Cardinality(voted \ accepted) < MaxAhead
    /\ add_voted_blocks({b})
    /\ UNCHANGED <<finalizerVars, coreVars>>

\* try_new_block: the own block is accepted, its votes are counted, and all is
\* flushed before it is broadcast.
Propose(b) ==
    /\ b.author = own_index
    /\ b.round <= MaxReceived
    /\ dag.ancestors[b] \subseteq accepted
    /\ add_voted_blocks({b})
    /\ accepted' = accepted \cup {b}
    /\ stored' = Flushed(accepted')
    /\ UNCHANGED <<finalizerVars, last_commit, handled, restarts>>

\* The blocks of the next commit arrive through commit sync; fetch_once hands them
\* to the certifier one by one, in the order of their rounds.
FetchCommit(b) ==
    /\ last_commit + 1 \in dag.synced \cap 1..Len(commits)
    /\ b \in commits[last_commit + 1].blocks
    /\ \A c \in commits[last_commit + 1].blocks \ voted : b.round <= c.round
    /\ add_voted_blocks({b})
    /\ UNCHANGED <<finalizerVars, coreVars>>

ProposedBlock(p) ==
    /\ p \in accepted
    /\ add_proposed_block(p)
    /\ UNCHANGED <<finalizerVars, coreVars>>

AcceptBlock(b) ==
    /\ b \in voted \ accepted
    /\ b.round > gc_round
    /\ IsCompleteAbove(b, accepted, gc_round)
    /\ accepted' = accepted \cup {b}
    /\ UNCHANGED <<dag, certifierVars, executed, finalizerVars, last_commit, stored, handled, restarts>>

LastLeaderRound == IF last_commit = 0 THEN 0 ELSE commits[last_commit].leader.round

\* The next leader to commit is decided from the accepted blocks; try_decide
\* looks at the leaders two rounds or more below the highest block.
IsDecidedLocally(l) ==
    /\ \E b \in accepted : b.round >= l.round + WaveLength - 1
    /\ LET statuses == LeaderStatuses(dag, accepted)
       IN  /\ statuses[l.round] = l
           /\ \A r \in (LastLeaderRound + 1)..(l.round - 1) : statuses[r] = Skip

\* Core decides the next leader.
LocalCommit ==
    /\ last_commit \in stored.commits..(Len(commits) - 1)
    /\ IsDecidedLocally(commits[last_commit + 1].leader)
    /\ process_commit(TRUE)
    /\ UNCHANGED <<accepted, stored, handled, restarts>>

\* Core takes the next commit from commit sync, with its blocks.
CertifiedCommit ==
    /\ last_commit \in stored.commits..(Len(commits) - 1)
    /\ last_commit + 1 \in dag.synced
    /\ commits[last_commit + 1].blocks \subseteq voted
    /\ accepted' = accepted \cup commits[last_commit + 1].blocks
    /\ process_commit(FALSE)
    /\ UNCHANGED <<stored, handled, restarts>>

\* Mutant of RecoveryGcRound: taken from the last stored commit.
RecoveryGcRound_Stored(h) == GcRoundOf(stored.commits)

\* Where the recovery of the certifier starts.
RecoveryGcRound(h) == GcRoundOf(h)

\* A restart, when the consumer has processed the commits up to h.
Restart(h) ==
    /\ restarts < dag.max_restarts
    /\ restarts' = restarts + 1
    /\ handled' = h
    /\ last_commit' = h
    /\ accepted' = stored.blocks
    /\ recover(stored.blocks, RecoveryGcRound(h))
    /\ pending_commits' = <<>>
    /\ linked' = <<>>
    /\ phase' = "recv"
    /\ finalized' = h
    /\ sent' = h
    /\ rejected' = {}
    /\ UNCHANGED <<outcomes, stored>>

\* recover_and_send_commits: stored commits that were not handled are sent again,
\* as local ones.
ResendCommit ==
    /\ last_commit < stored.commits
    /\ process_commit(TRUE)
    /\ UNCHANGED <<accepted, stored, handled, restarts>>

Next ==
    \/ \E b \in dag.blocks : ReceiveBlock(b)
    \/ \E b \in dag.blocks : Propose(b)
    \/ \E b \in dag.blocks : FetchCommit(b)
    \/ \E p \in dag.blocks : ProposedBlock(p)
    \/ \E b \in dag.blocks : AcceptBlock(b)
    \/ LocalCommit
    \/ CertifiedCommit
    \/ TryIndirectly
    \/ LoopEnds
    \/ SendFinalized
    \/ SendNothing
    \/ \E h \in handled..sent : Restart(h)
    \/ ResendCommit

Spec == Init /\ [][Next]_vars

-----------------------------------------------------------------------------
(* Properties                                                              *)

\* Type correctness: what is pending follows what is finalized, up to the last
\* commit, and only linked blocks carry reject votes.
TypeOK ==
    /\ voted \cup accepted \cup stored.blocks \cup is_certified \subseteq dag.blocks
    /\ reject_txn_votes \subseteq [author : Authority, transaction : Transaction(dag)]
    /\ accept_block_votes \subseteq [author : Authority, block : dag.blocks]
    /\ executed \cup rejected \subseteq Transaction(dag)
    /\ certifier_gc_round \in 0..MaxRound
    /\ phase \in {"recv", "indirect", "end"}
    /\ last_commit \in 0..Len(commits) /\ stored.commits \in 0..Len(commits)
    /\ sent \in handled..finalized /\ handled \in 0..stored.commits
    /\ Len(pending_commits) = last_commit - finalized
    /\ \A i \in 1..Len(pending_commits) : pending_commits[i].index = finalized + i
    /\ DOMAIN linked \subseteq UNION {commits[c.index].blocks : c \in Range(pending_commits)}
    /\ outcomes \subseteq [transaction : Transaction(dag), rejected : BOOLEAN]
    /\ restarts \in 0..dag.max_restarts

\* The commit that has the transaction's block.
CommitWith(t) == CHOOSE i \in 1..Len(commits) : t.block \in commits[i].blocks

\* The commits at least INDIRECT_REJECT_DEPTH rounds above the i-th.
Deciding(i) ==
    {k \in i..Len(commits) : commits[i].leader.round + 3 <= commits[k].leader.round}

\* The transaction's fate as a function of the agreed commits alone: it is
\* rejected unless, up to the first commit three rounds above its own, a quorum of
\* authors has a block above it that does not reject it.
RejectedByLog(t) ==
    LET i == CommitWith(t)
        blocks == UNION {commits[j].blocks : j \in i..Min(Deciding(i))}
        votes == WithRejectVotes(<<>>, blocks)
    IN  ~ Comm!reached_quorum(Authors({b \in blocks : t.block \in dag.history[b] /\ t \notin votes[b]}))

\* What is sent to execution depends on the agreed commits alone.  Which reject
\* votes had reached the authority, in which order, whether it decided the leader
\* itself or got the commit through commit sync, when the finalizer ran, and
\* restarts between commits the authority decided make no difference: all
\* authorities execute the same transactions.
VerdictsAgree ==
    \A o \in outcomes : Deciding(CommitWith(o.transaction)) # {} =>
        o.rejected = RejectedByLog(o.transaction)

\* The authorities with a block that certifies the transaction: a quorum of its
\* parents has the transaction's block as a parent and does not reject it.
CertifiersOf(t) ==
    Authors({p \in AtRound(dag.blocks, t.block.round + 2) :
        Comm!reached_quorum(Authors({v \in AtRound(dag.ancestors[p], p.round - 1) :
            t.block \in dag.ancestors[v] /\ t \notin dag.rejects[v]}))})

\* The invariant in TransactionCertifier's doc comment: a transaction goes to the
\* fast path only if the authority's own block is a certificate for it, although
\* the certifier counts votes for blocks and cancels them one for one with votes
\* against the transaction, whoever cast them; and one that a quorum of
\* authorities can execute that way is never rejected after the commit.
FastPathIsFinal ==
    /\ \A t \in executed : own_index \in CertifiersOf(t)
    /\ \A o \in outcomes : o.rejected => CertifiersOf(o.transaction) \notin Quorum

\* The panics of the finalizer and of the certifier are unreachable: what is
\* pending and linked is what the log says is not finalized (TypeOK), there is
\* vote info for every accepted block that may still be committed or is an own
\* block handed over, for every block of a commit that was not finalized, and
\* reject votes on the pending transactions.
VotesAreThere ==
    /\ TypeOK
    /\ \A c \in Range(pending_commits) :
        /\ \A b \in commits[c.index].blocks : HasVoteInfo(b)
        /\ \A t \in c.pending_transactions : RejectVoters(reject_txn_votes, t) # {}
    /\ \A b \in accepted : b.round > certifier_gc_round => b \in voted

\* No commit is held back: when the finalizer waits for the next commit, the ones
\* it holds are less than a wave below the last.
NothingIsHeldBack ==
    phase = "recv" => \A c \in Range(pending_commits) :
        LeaderRound(c) + WaveLength > LeaderRound(Last(pending_commits))
=============================================================================
