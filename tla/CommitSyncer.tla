---------------------------- MODULE CommitSyncer ----------------------------
(***************************************************************************)
(* How an authority that fell behind fetches certified commits:            *)
(* commit_syncer.rs, with the check Core::filter_new_commits makes on what *)
(* it is sent.                                                             *)
(*                                                                         *)
(* The scheduling loop is one task.  It cuts the commits it lacks into     *)
(* ranges, lets tasks of its own fetch several ranges at a time, and gives *)
(* what they bring to the core thread in order, waiting for each range.    *)
(* Meanwhile the core thread makes commits from the blocks it receives,    *)
(* execution handles commits, and votes on later commits arrive.  A failed *)
(* or timed out request only makes fetch_loop ask the next peer, so it is  *)
(* not a step here.                                                        *)
(***************************************************************************)
EXTENDS Integers, FiniteSets

CONSTANTS
    BatchSize,       \* parameters.commit_sync_batch_size
    BatchesAhead,    \* parameters.commit_sync_batches_ahead
    ParallelFetches, \* parameters.commit_sync_parallel_fetches, or 2/3 of the committee
    LagMultiplier,   \* COMMIT_LAG_MULTIPLIER
    MaxCommit        \* bound on the commit indexes of the network

ASSUME ParametersAssumption ==
    /\ BatchSize \in Nat \ {0}
    /\ BatchesAhead \in Nat \ {0}
    /\ ParallelFetches \in Nat
    /\ LagMultiplier \in Nat \ {0}
    /\ MaxCommit \in Nat

VARIABLES
    local,              \* DagState's last commit index
    quorum,             \* CommitVoteMonitor::quorum_commit_index
    handled,            \* the highest commit execution has handled
    pending_fetches,    \* ranges to fetch
    inflight_fetches,   \* ranges being fetched
    fetched_ranges,     \* ranges fetched and not yet sent to Core
    highest_scheduled_index,
    synced_commit_index,
    sending,            \* the range given to Core, if any
    core                \* what has become of it

syncVars == <<pending_fetches, inflight_fetches, fetched_ranges, highest_scheduled_index,
              synced_commit_index, sending, core>>
vars == <<local, quorum, handled, syncVars>>

Index == 0..MaxCommit

\* Both ends are inclusive.
CommitRange == [start : Index \ {0}, end : Index]

Commits(r) == r.start..r.end

Max2(i, j) == IF i >= j THEN i ELSE j
Min2(i, j) == IF i <= j THEN i ELSE j

unhandled_commits_threshold == BatchSize * BatchesAhead

Init ==
    /\ local \in Index
    /\ quorum = 0
    /\ handled \in 0..local
    /\ pending_fetches = {}
    /\ inflight_fetches = {}
    /\ fetched_ranges = {}
    /\ highest_scheduled_index = 0
    /\ synced_commit_index = local
    /\ sending = {}
    /\ core = "idle"

-----------------------------------------------------------------------------
(* The rest of the node                                                    *)

\* A block with votes for later commits arrives.
ObserveVotes(i) ==
    /\ quorum < i
    /\ quorum' = i
    /\ UNCHANGED <<local, handled, syncVars>>

\* The core thread makes the next commit from the blocks it has.
CommitLocally ==
    /\ local < MaxCommit
    /\ local' = local + 1
    /\ UNCHANGED <<quorum, handled, syncVars>>

\* Mutant of is_commit_lagging: blocks are turned away as soon as commits are missing.
is_commit_lagging_AtOnce == local < quorum

\* Blocks from peers are turned away while the node lags this far behind.
is_commit_lagging == local + BatchSize * LagMultiplier < quorum

HandleCommit ==
    /\ handled < local
    /\ handled' = handled + 1
    /\ UNCHANGED <<local, quorum, syncVars>>

\* Core::add_certified_commits: the commits it already has are dropped and the
\* others are committed.
add_certified_commits ==
    /\ core = "queued"
    /\ \E r \in sending : local' = Max2(local, r.end)
    /\ core' = "added"
    /\ UNCHANGED <<quorum, handled, pending_fetches, inflight_fetches, fetched_ranges,
                   highest_scheduled_index, synced_commit_index, sending>>

-----------------------------------------------------------------------------
(* The scheduling loop                                                     *)

\* n: how many fetched ranges wait for an earlier one.
target_parallel_fetches(n) ==
    Max2(1, Min2(ParallelFetches, IF n <= BatchesAhead THEN BatchesAhead - n ELSE 0))

\* The first pending ranges are started, as many as there are free slots.
try_start_fetches(pending, inflight, fetched) ==
    LET free == target_parallel_fetches(Cardinality(fetched)) - Cardinality(inflight)
    IN  \E S \in SUBSET pending :
            /\ Cardinality(S) = Max2(0, Min2(free, Cardinality(pending)))
            /\ \A r \in S, q \in pending \ S : r.start < q.start
            /\ pending_fetches' = pending \ S
            /\ inflight_fetches' = inflight \cup S

\* Mutant of NewRanges: a range may end past what execution can take.
NewRanges_NotPaused(after) ==
    {[start |-> after + k * BatchSize + 1, end |-> after + (k + 1) * BatchSize] :
        k \in {k \in Index : after + (k + 1) * BatchSize <= quorum}}

\* Whole batches only, up to the quorum's commit and as far as execution keeps up.
NewRanges(after) ==
    {[start |-> after + k * BatchSize + 1, end |-> after + (k + 1) * BatchSize] :
        k \in {k \in Index :
                /\ after + (k + 1) * BatchSize <= quorum
                /\ after + (k + 1) * BatchSize <= handled + unhandled_commits_threshold}}

\* The interval ticks.
try_schedule_once ==
    LET synced == Max2(synced_commit_index, local)
        new == NewRanges(Max2(synced, highest_scheduled_index))
    IN  /\ core = "idle"
        /\ synced_commit_index' = synced
        /\ highest_scheduled_index' =
                IF new = {} THEN highest_scheduled_index
                ELSE CHOOSE e \in {r.end : r \in new} : \A r \in new : r.end <= e
        /\ try_start_fetches(pending_fetches \cup new, inflight_fetches, fetched_ranges)
        /\ UNCHANGED <<local, quorum, handled, fetched_ranges, sending, core>>

\* Fetched ranges the loop pops first and does not send: Core has all of them.
AlreadySynced(fetched, synced) ==
    {r \in fetched : /\ r.end <= synced
                     /\ \A q \in fetched : q.start < r.start => q.end <= synced}

\* Mutant of NextToSend: a gap before the first range is not noticed.
NextToSend_Gap(fetched, synced) == {r \in fetched : \A q \in fetched : r.start <= q.start}

\* The first fetched range, if no commit is missing before it.
NextToSend(fetched, synced) ==
    {r \in fetched : /\ r.start <= synced + 1
                     /\ \A q \in fetched : r.start <= q.start}

\* The loop of handle_fetch_result, up to the next wait for Core or to its end.
ProcessFetched(fetched, synced, pending, inflight) ==
    LET rest == fetched \ AlreadySynced(fetched, synced)
        next == NextToSend(rest, synced)
    IN  /\ synced_commit_index' = synced
        /\ sending' = next
        /\ fetched_ranges' = rest \ next
        /\ \/ /\ next /= {}
              /\ core' = "queued"
              /\ pending_fetches' = pending
              /\ inflight_fetches' = inflight
           \/ /\ next = {}
              /\ core' = "idle"
              /\ try_start_fetches(pending, inflight, rest)

\* Mutant of Remainder: what a peer did not return is not asked for again.
Remainder_Dropped(r, e) == {}

\* What is left to fetch of range r when a peer returned its commits up to e.
Remainder(r, e) == IF e < r.end THEN {[start |-> e + 1, end |-> r.end]} ELSE {}

\* A fetch of r ended with the verified commits from r.start to e.
handle_fetch_result(r, e) ==
    LET synced == Max2(synced_commit_index, local)
        new == IF synced < e THEN {[start |-> r.start, end |-> e]} ELSE {}
    IN  /\ core = "idle"
        /\ r \in inflight_fetches /\ e \in Commits(r)
        /\ ProcessFetched(fetched_ranges \cup new, synced, pending_fetches \cup Remainder(r, e),
                          inflight_fetches \ {r})
        /\ UNCHANGED <<local, quorum, handled, highest_scheduled_index>>

\* Mutant of CommitsAdded: one range is sent per result.
CommitsAdded_Once ==
    /\ core = "added"
    /\ \E r \in sending : synced_commit_index' = Max2(synced_commit_index, r.end)
    /\ sending' = {}
    /\ core' = "idle"
    /\ try_start_fetches(pending_fetches, inflight_fetches, fetched_ranges)
    /\ UNCHANGED <<local, quorum, handled, highest_scheduled_index, fetched_ranges>>

\* Core answered: handle_fetch_result goes on.
CommitsAdded ==
    /\ core = "added"
    /\ \E r \in sending :
        ProcessFetched(fetched_ranges, Max2(synced_commit_index, r.end), pending_fetches,
                       inflight_fetches)
    /\ UNCHANGED <<local, quorum, handled, highest_scheduled_index>>

\* The process starts again: Core from the commits that were flushed, which are
\* at least those execution has, and the syncer from nothing.
Restart(stored, processed) ==
    /\ handled <= stored /\ stored <= local
    /\ processed <= handled
    /\ local' = stored
    /\ handled' = processed
    /\ quorum' = 0
    /\ pending_fetches' = {}
    /\ inflight_fetches' = {}
    /\ fetched_ranges' = {}
    /\ highest_scheduled_index' = 0
    /\ synced_commit_index' = stored
    /\ sending' = {}
    /\ core' = "idle"

-----------------------------------------------------------------------------

Node ==
    \/ \E i \in Index : ObserveVotes(i)
    \/ CommitLocally
    \/ HandleCommit
    \/ add_certified_commits

ScheduleLoop ==
    \/ try_schedule_once
    \/ \E r \in inflight_fetches : \E e \in Commits(r) : handle_fetch_result(r, e)
    \/ CommitsAdded

SomeRestart == \E stored, processed \in Index : Restart(stored, processed)

Next == Node \/ ScheduleLoop \/ SomeRestart

Spec == Init /\ [][Next]_vars

\* A fetch of the range that starts at i ends.
FetchEnds(i) ==
    \E r \in inflight_fetches : r.start = i /\ \E e \in Commits(r) : handle_fetch_result(r, e)

\* The interval and completed fetches are never starved by each other, every
\* fetch ends because some peer answers, the core thread and execution work
\* through what they are given.
Fairness ==
    /\ SF_vars(try_schedule_once)
    /\ \A i \in Index \ {0} : SF_vars(FetchEnds(i))
    /\ WF_vars(CommitsAdded)
    /\ WF_vars(add_certified_commits)
    /\ WF_vars(HandleCommit)

FairSpec == Spec /\ Fairness

-----------------------------------------------------------------------------
(* Properties                                                              *)

\* Type correctness.
TypeOK ==
    /\ local \in Index
    /\ quorum \in Index
    /\ handled \in 0..local
    /\ pending_fetches \subseteq CommitRange
    /\ inflight_fetches \subseteq CommitRange
    /\ fetched_ranges \subseteq CommitRange
    /\ highest_scheduled_index \in Index
    /\ synced_commit_index \in 0..local
    /\ sending \subseteq CommitRange
    /\ core \in {"idle", "queued", "added"}

\* filter_new_commits never finds a gap, so add_certified_commits's
\* expect("Certified commits validation failed") is unreachable: whichever fetch
\* ends first, and however far the node commits on its own in the meantime, the
\* first commit Core does not have is the next one in line.
NoGapReachesCore == core = "queued" => \E r \in sending : r.start <= local + 1

Scheduled == pending_fetches \cup inflight_fetches \cup fetched_ranges \cup sending

\* Nothing that was scheduled is lost: each commit between the synced and
\* the highest scheduled index is pending, being fetched, fetched or with Core.
\* try_schedule_once never goes back below highest_scheduled_index, so a commit
\* lost here would never be fetched.
NothingIsForgotten ==
    \A i \in (synced_commit_index + 1)..highest_scheduled_index :
        \E r \in Scheduled : i \in Commits(r)

\* No commit is fetched twice: the ranges in the syncer's four collections never
\* overlap, and no range is in two of them.
RangesAreDisjoint ==
    /\ \A r, q \in Scheduled : Commits(r) \cap Commits(q) /= {} => r = q
    /\ pending_fetches \cap inflight_fetches = {}
    /\ (pending_fetches \cup inflight_fetches) \cap (fetched_ranges \cup sending) = {}

\* The syncer's four collections split what it has yet to hand over: no commit
\* is forgotten and none is fetched twice, whichever fetches end in part, fail
\* or end out of order, whatever the node commits itself, and after a restart.
RangesPartition == NothingIsForgotten /\ RangesAreDisjoint

\* "Pause scheduling new fetches when handling of commits is lagging": all the
\* syncer holds is within the threshold of what execution has handled, and it
\* runs no more fetches than it is allowed to.
SyncerIsBounded ==
    /\ TypeOK
    /\ highest_scheduled_index <= handled + unhandled_commits_threshold
    /\ \A r \in Scheduled : r.end <= handled + unhandled_commits_threshold
    /\ Cardinality(inflight_fetches) <= Max2(1, ParallelFetches)

\* A fetched range is only looked at when a fetch ends, so none may be left
\* behind with no fetch to wake it: while the loop rests, fetched ranges imply a
\* running fetch of an earlier one.
NoStrandedRange ==
    core = "idle" /\ fetched_ranges /= {} => inflight_fetches /= {}

\* Blocks lead to commits as long as the node lacks some and accepts blocks.
BlocksArrive == WF_vars(CommitLocally /\ local < quorum /\ ~ is_commit_lagging)

\* Commit sync alone catches up to within a batch of the quorum: once a quorum
\* committed a whole batch from commit i on, the node gets commit i, however
\* fetches are cut short and reordered, or it restarts and loses its votes.
\* With block sync it always reaches the quorum's commit, there is no dead zone
\* between the two: far behind, the node turns blocks away and fetches ranges;
\* less than a batch behind, it fetches no ranges and accepts blocks.
CatchesUp ==
    /\ \A i \in Index : quorum >= i + BatchSize - 1 ~> local >= i \/ quorum = 0
    /\ BlocksArrive => \A i \in Index : quorum >= i ~> local >= i \/ quorum = 0
=============================================================================
