----------------------------- MODULE CommitStore -----------------------------
(***************************************************************************)
(* What one authority commits, buffers, stores and hands to execution:     *)
(* Core::try_commit once the leaders are known, linearizer.rs,             *)
(* commit_observer.rs, the commit half of dag_state.rs, and the thread of  *)
(* commit_finalizer.rs that flushes and delivers.                          *)
(*                                                                         *)
(* The leaders are the sequence all authorities agree on.  An authority    *)
(* learns of the next ones by its own commit rule, or through certified    *)
(* commits synced from its peers.  The core thread and the finalizer share *)
(* DagState behind a lock, which the linearizer holds for one sub-dag at a *)
(* time.  The process may stop between any two steps and start again from  *)
(* what was flushed.                                                       *)
(***************************************************************************)
EXTENDS Integers, Sequences

CONSTANTS
    Block,       \* the blocks of the network
    Round,       \* Round[b]: the round of block b
    Ancestors,   \* Ancestors[b]: the ancestors block b names
    History,     \* History[b]: its ancestors, their ancestors, and so on
    Leaders,     \* the committed leader blocks, in order
    SubDags,     \* SubDags[i]: the blocks of certified commit i
    GcDepth,     \* protocol_config.gc_depth()
    MaxBatch     \* bound on the commits one iteration of try_commit sequences

Genesis == {b \in Block : Round[b] = 0}

\* DagState::calculate_gc_round for the leader of commit i; 0 before any commit.
GcRoundAfter(i) ==
    IF i > 0 /\ Round[Leaders[i]] > GcDepth THEN Round[Leaders[i]] - GcDepth ELSE 0

ASSUME DagAssumption ==
    /\ Round \in [Block -> Nat]
    /\ Ancestors \in [Block -> SUBSET Block]
    /\ History \in [Block -> SUBSET Block]
    /\ \A b \in Block : \A a \in History[b] : Round[a] < Round[b]
    /\ \A b \in Block : History[b] = Ancestors[b] \cup UNION {History[a] : a \in Ancestors[b]}

\* A certified commit holds what is left of its leader's history above the gc
\* round of the commit before it.
ASSUME CommitsAssumption ==
    /\ Leaders \in Seq(Block \ Genesis)
    /\ \A i, j \in DOMAIN Leaders : i < j => Round[Leaders[i]] < Round[Leaders[j]]
    /\ DOMAIN SubDags = DOMAIN Leaders
    /\ \A i \in DOMAIN Leaders :
        SubDags[i] = {b \in History[Leaders[i]] \cup {Leaders[i]} :
                        /\ Round[b] > GcRoundAfter(i - 1)
                        /\ \A j \in 1..(i - 1) : b \notin SubDags[j]}
    /\ GcDepth \in Nat
    /\ MaxBatch \in Nat

VARIABLES
    dag,         \* the blocks in DagState
    committed,   \* blocks whose `committed` flag is set
    commits,     \* the blocks of each commit made so far
    call,        \* where the core thread is
    input,       \* certified blocks it has still to accept
    target,      \* index of the last commit the call sequences
    buffer,      \* linearize_sub_dag: blocks still to visit
    sub_dag,     \* linearize_sub_dag: blocks collected so far
    sent,        \* index of the last commit sent to the finalizer
    finalized,   \* index of the last commit flushed for delivery
    delivered,   \* index of the last commit sent to execution
    storage      \* what flush wrote: blocks and commits

coreVars == <<call, input, target>>
linearizerVars == <<buffer, sub_dag>>
finalizerVars == <<sent, finalized, delivered>>
vars == <<dag, committed, commits, call, input, target, buffer, sub_dag,
          sent, finalized, delivered, storage>>

gc_round == GcRoundAfter(Len(commits))

Init ==
    /\ dag = Genesis
    /\ committed = {}
    /\ commits = <<>>
    /\ call = "idle"
    /\ input = {}
    /\ target = 0
    /\ buffer = {}
    /\ sub_dag = {}
    /\ sent = 0
    /\ finalized = 0
    /\ delivered = 0
    /\ storage = [blocks |-> Genesis, commits |-> <<>>]

-----------------------------------------------------------------------------
(* The core thread                                                         *)

\* Mutant of accept_block: the round above the gc round is not insisted on.
accept_block_OffByOne(b) ==
    /\ call = "idle"
    /\ b \notin dag
    /\ Round[b] > gc_round
    /\ \A a \in Ancestors[b] : Round[a] > gc_round + 1 => a \in dag
    /\ dag' = dag \cup {b}
    /\ UNCHANGED <<committed, commits, coreVars, linearizerVars, finalizerVars, storage>>

\* Core::add_blocks, for a block the block manager finds complete.
accept_block(b) ==
    /\ call = "idle"
    /\ b \notin dag
    /\ Round[b] > gc_round
    /\ \A a \in Ancestors[b] : Round[a] > gc_round => a \in dag
    /\ dag' = dag \cup {b}
    /\ UNCHANGED <<committed, commits, coreVars, linearizerVars, finalizerVars, storage>>

\* The commit rule decided the leaders up to commit n.
try_decide(n) ==
    /\ call = "idle"
    /\ \A i \in (Len(commits) + 1)..n : Leaders[i] \in dag
    /\ call' = "commit"
    /\ target' = n
    /\ UNCHANGED <<dag, committed, commits, input, linearizerVars, finalizerVars, storage>>

\* add_certified_commits and try_select_certified_leaders: of the synced commits
\* that are not committed yet, one iteration takes those up to n.
add_certified_commits(n) ==
    /\ call = "idle"
    /\ call' = "accept"
    /\ input' = (UNION {SubDags[i] : i \in (Len(commits) + 1)..n}) \ dag
    /\ target' = n
    /\ UNCHANGED <<dag, committed, commits, linearizerVars, finalizerVars, storage>>

\* try_accept_committed_blocks: in round order, without a look at the ancestors.
AcceptCommittedBlock(b) ==
    /\ call = "accept"
    /\ b \in input
    /\ \A c \in input : Round[b] <= Round[c]
    /\ dag' = dag \cup {b}
    /\ input' = input \ {b}
    /\ UNCHANGED <<committed, commits, call, target, linearizerVars, finalizerVars, storage>>

\* Mutant of HandleCertified: committing starts before the blocks are accepted.
HandleCertified_Early ==
    /\ call = "accept"
    /\ call' = "commit"
    /\ input' = {}
    /\ UNCHANGED <<dag, committed, commits, target, linearizerVars, finalizerVars, storage>>

HandleCertified ==
    /\ call = "accept" /\ input = {}
    /\ call' = "commit"
    /\ UNCHANGED <<dag, committed, commits, input, target, linearizerVars, finalizerVars,
                   storage>>

\* linearize_sub_dag takes the lock and marks the leader ...
linearize_sub_dag ==
    /\ call = "commit" /\ Len(commits) < target
    /\ LET leader == Leaders[Len(commits) + 1]
       IN  /\ buffer' = {leader}
           /\ sub_dag' = {leader}
           /\ committed' = committed \cup {leader}
    /\ call' = "linearize"
    /\ UNCHANGED <<dag, commits, input, target, finalizerVars, storage>>

\* ... and goes down the ancestors that are not committed.
UncommittedAncestors(x) == {a \in Ancestors[x] : Round[a] > gc_round /\ a \notin committed}

VisitBlock(x) ==
    /\ call = "linearize"
    /\ x \in buffer
    /\ buffer' = (buffer \ {x}) \cup UncommittedAncestors(x)
    /\ sub_dag' = sub_dag \cup UncommittedAncestors(x)
    /\ committed' = committed \cup UncommittedAncestors(x)
    /\ UNCHANGED <<dag, commits, coreVars, finalizerVars, storage>>

\* The lock was given back; add_commit buffers the commit and moves the gc round.
add_commit ==
    /\ call = "linearize" /\ buffer = {}
    /\ commits' = Append(commits, sub_dag)
    /\ call' = "commit"
    /\ sub_dag' = {}
    /\ UNCHANGED <<dag, committed, input, target, buffer, finalizerVars, storage>>

\* CommitObserver::handle_commit sends its commits when all of them are made.
SendCommits ==
    /\ call = "commit" /\ Len(commits) = target
    /\ sent' = target
    /\ call' = "idle"
    /\ UNCHANGED <<dag, committed, commits, input, target, linearizerVars, finalized,
                   delivered, storage>>

-----------------------------------------------------------------------------
(* Storage, the finalizer thread and restarts                              *)

\* One write of everything that is buffered, under the lock.
flush ==
    /\ buffer = {}
    /\ storage' = [blocks |-> storage.blocks \cup dag, commits |-> commits]

\* Core::try_new_block flushes before it broadcasts its block.
FlushOnPropose ==
    /\ call = "idle"
    /\ flush
    /\ UNCHANGED <<dag, committed, commits, coreVars, linearizerVars, finalizerVars>>

\* Mutant of Finalize: commits are delivered without being flushed.
Finalize_NoFlush(n) ==
    /\ finalized < n /\ n <= sent
    /\ finalized = delivered
    /\ finalized' = n
    /\ UNCHANGED <<dag, committed, commits, coreVars, linearizerVars, sent, delivered, storage>>

\* CommitFinalizer::run: the commits up to n are finalized and flushed, whatever
\* the core thread is doing ...
Finalize(n) ==
    /\ finalized < n /\ n <= sent
    /\ finalized = delivered
    /\ flush
    /\ finalized' = n
    /\ UNCHANGED <<dag, committed, commits, coreVars, linearizerVars, sent, delivered>>

\* ... and then sent to execution.
Deliver ==
    /\ delivered < finalized
    /\ delivered' = finalized
    /\ UNCHANGED <<dag, committed, commits, coreVars, linearizerVars, sent, finalized, storage>>

\* The state of a process that starts with the commits cs and the flags fs.
StartFrom(cs, fs, processed) ==
    /\ processed <= delivered
    /\ dag' = storage.blocks
    /\ commits' = cs
    /\ committed' = fs
    /\ call' = "idle"
    /\ input' = {}
    /\ target' = 0
    /\ buffer' = {}
    /\ sub_dag' = {}
    /\ sent' = Len(cs)
    /\ finalized' = processed
    /\ delivered' = processed
    /\ UNCHANGED storage

\* Mutant of Restart: the blocks of stored commits are not marked as committed.
Restart_NoFlags(processed) == StartFrom(storage.commits, {}, processed)

\* Mutant of Restart: DagState goes on from the last commit execution remembers.
Restart_AtProcessed(processed) ==
    StartFrom(SubSeq(storage.commits, 1, processed),
              UNION {storage.commits[i] : i \in 1..processed}, processed)

\* DagState::new and recover_and_send_commits: everything comes from storage, and
\* execution, which remembers the commits up to `processed`, is sent the others.
Restart(processed) ==
    LET n == Len(storage.commits)
    IN  StartFrom(storage.commits,
                  {b \in UNION {storage.commits[i] : i \in 1..n} : Round[b] > GcRoundAfter(n)},
                  processed)

-----------------------------------------------------------------------------

\* The indexes one iteration of try_commit may commit up to.
NextCommits == {n \in DOMAIN Leaders : Len(commits) < n /\ n <= Len(commits) + MaxBatch}

CoreThread ==
    \/ \E b \in Block : accept_block(b) \/ AcceptCommittedBlock(b) \/ VisitBlock(b)
    \/ \E n \in NextCommits : try_decide(n) \/ add_certified_commits(n)
    \/ HandleCertified
    \/ linearize_sub_dag
    \/ add_commit
    \/ SendCommits
    \/ FlushOnPropose

Finalizer ==
    \/ \E n \in DOMAIN Leaders : Finalize(n)
    \/ Deliver

Next ==
    \/ CoreThread
    \/ Finalizer
    \/ \E processed \in 0..Len(Leaders) : Restart(processed)

Spec == Init /\ [][Next]_vars

-----------------------------------------------------------------------------
(* Properties                                                              *)

\* Type correctness.
TypeOK ==
    /\ dag \in SUBSET Block
    /\ committed \in SUBSET Block
    /\ commits \in Seq(SUBSET Block) /\ Len(commits) <= Len(Leaders)
    /\ call \in {"idle", "accept", "commit", "linearize"}
    /\ input \in SUBSET Block
    /\ target \in 0..Len(Leaders)
    /\ buffer \in SUBSET Block
    /\ sub_dag \in SUBSET Block
    /\ sent \in 0..Len(Leaders)
    /\ finalized \in 0..Len(Leaders)
    /\ delivered \in 0..Len(Leaders)
    /\ storage.blocks \in SUBSET Block
    /\ storage.commits \in Seq(SUBSET Block) /\ Len(storage.commits) <= Len(Leaders)

\* "Certified commit has different reference than the committed sub dag" is never
\* reported: the blocks the linearizer collects for a leader, from whatever part
\* of the DAG is there and after whatever restarts, are those of the commit the
\* other authorities certified.
SubDagAgreement == \A i \in 1..Len(commits) : commits[i] = SubDags[i]

\* The linearizer's panics are unreachable: the leader to commit is in the DAG
\* and not committed, and so is every ancestor it looks at above the gc round.
LinearizerNeverPanics ==
    /\ call = "commit" /\ Len(commits) < target =>
            Leaders[Len(commits) + 1] \in dag \ committed
    /\ \A x \in buffer : \A a \in Ancestors[x] : Round[a] > gc_round => a \in dag

\* "Commits and committed blocks must be persisted to storage before sending them
\* to Sui": what execution has seen is in storage, with all its blocks, so that
\* recovery finds last_commit_index >= last_processed_commit_index and can load
\* every sub-dag it sends again.
DeliveredIsStored ==
    /\ delivered <= finalized /\ finalized <= Len(storage.commits)
    /\ \A i \in 1..Len(storage.commits) : storage.commits[i] \subseteq storage.blocks

\* What was stored is never contradicted: the stored commits stay a prefix of the
\* stored commits, through flushes of either thread and restarts.
StorageOnlyGrows ==
    [][/\ Len(storage.commits) <= Len(storage'.commits)
       /\ \A i \in 1..Len(storage.commits) : storage'.commits[i] = storage.commits[i]]_vars

\* dag_state.rs requires that a buffered block have its ancestors and the commit
\* that sets the gc round buffered too.  What a flush in the middle of a batch of
\* certified commits leaves behind falls short of it and does no lasting harm: a
\* stored block lacks an ancestor only below a gc round, that of the last stored
\* commit or that of the commit before the block's own, which the linearizer
\* never looks below.
StorageIsCompleteForCommits ==
    \A b \in storage.blocks : \A a \in Ancestors[b] \ storage.blocks :
        \/ Round[a] <= GcRoundAfter(Len(storage.commits))
        \/ \E i \in DOMAIN SubDags : b \in SubDags[i] /\ Round[a] <= GcRoundAfter(i - 1)
=============================================================================
