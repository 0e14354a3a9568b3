----------------------------- MODULE CommitLoop -----------------------------
(***************************************************************************)
(* The loop of Core::try_commit and the leader schedule it runs under:     *)
(* core.rs, leader_schedule.rs, the scoring sub-dag of leader_scoring.rs   *)
(* and what dag_state.rs stores and recovers of them.                      *)
(*                                                                         *)
(* The schedule changes after every NumCommitsPerSchedule commits, by      *)
(* scores taken from those commits.  Each authority has to change it       *)
(* between the same two commits, whether it decided them itself, many at a *)
(* time, or received them as certified commits, and wherever it crashed in *)
(* between.  That the authorities agree on each leader as long as they use *)
(* one schedule is what UniversalCommitter shows; here it is the constant  *)
(* Decides.                                                                *)
(***************************************************************************)
EXTENDS Integers, Sequences

CONSTANTS
    Node,                    \* the authorities that follow the protocol
    NumCommitsPerSchedule,   \* LeaderSchedule::num_commits_per_schedule
    MaxRound,                \* bound on the rounds that are decided
    Decides(_, _)            \* Decides(t, r): with the swap table made from the
                             \* commits t, the leader of round r commits

Round == 1..MaxRound

ASSUME ScheduleAssumption ==
    /\ NumCommitsPerSchedule \in Nat \ {0}
    /\ MaxRound \in Nat

VARIABLES
    log,                   \* the commits in DagState, each with its leader's round
    leader_swap_table,     \* the commits the current schedule was made from
    scoring_subdag,        \* the commits since
    last_decided_leader,   \* the round of the last decided slot
    horizon,               \* the DAG decides all slots up to this round
    call,                  \* where try_commit is
    certified_commits,     \* certified commits it has still to sequence
    sequenced_leaders,     \* the leaders of this iteration still to be linearized
    committed_sub_dags,    \* the commits of this iteration
    stored                 \* what the last flush wrote

coreVars == <<leader_swap_table, scoring_subdag, last_decided_leader, horizon, call,
              certified_commits, sequenced_leaders, committed_sub_dags>>
vars == <<log, coreVars, stored>>

\* A commit has an index and a leader; there is one leader slot in a round.
Commit == [index : Nat, round : Nat]

LastRoundOf(s) == IF s = <<>> THEN 0 ELSE s[Len(s)].round
LastIndexOf(s) == IF s = <<>> THEN 0 ELSE s[Len(s)].index

Init ==
    /\ log = [n \in Node |-> <<>>]
    /\ leader_swap_table = [n \in Node |-> <<>>]
    /\ scoring_subdag = [n \in Node |-> <<>>]
    /\ last_decided_leader = [n \in Node |-> 0]
    /\ horizon = [n \in Node |-> 0]
    /\ call = [n \in Node |-> "idle"]
    /\ certified_commits = [n \in Node |-> <<>>]
    /\ sequenced_leaders = [n \in Node |-> {}]
    /\ committed_sub_dags = [n \in Node |-> <<>>]
    /\ stored = [n \in Node |-> [commits |-> <<>>, info |-> <<>>]]

-----------------------------------------------------------------------------
(* Calls of try_commit                                                     *)

\* Core::add_blocks: the DAG now decides the slots up to round h.
add_blocks(n, h) ==
    /\ call[n] = "idle"
    /\ horizon[n] < h
    /\ horizon' = [horizon EXCEPT ![n] = h]
    /\ call' = [call EXCEPT ![n] = "loop"]
    /\ UNCHANGED <<log, leader_swap_table, scoring_subdag, last_decided_leader,
                   certified_commits, sequenced_leaders, committed_sub_dags, stored>>

\* Mutant: the first new commit is missed.
add_certified_commits_Gap(n, peer, i) ==
    /\ call[n] = "idle"
    /\ Len(log[n]) + 1 < i /\ i <= Len(log[peer])
    /\ certified_commits' =
            [certified_commits EXCEPT ![n] = SubSeq(log[peer], Len(log[n]) + 2, i)]
    /\ call' = [call EXCEPT ![n] = "loop"]
    /\ UNCHANGED <<log, leader_swap_table, scoring_subdag, last_decided_leader, horizon,
                   sequenced_leaders, committed_sub_dags, stored>>

\* Core::add_certified_commits: the next commits of a peer's, up to index i.
add_certified_commits(n, peer, i) ==
    /\ call[n] = "idle"
    /\ Len(log[n]) < i /\ i <= Len(log[peer])
    /\ certified_commits' =
            [certified_commits EXCEPT ![n] = SubSeq(log[peer], Len(log[n]) + 1, i)]
    /\ call' = [call EXCEPT ![n] = "loop"]
    /\ UNCHANGED <<log, leader_swap_table, scoring_subdag, last_decided_leader, horizon,
                   sequenced_leaders, committed_sub_dags, stored>>

-----------------------------------------------------------------------------
(* One iteration of the loop                                               *)

commits_until_leader_schedule_update(n) == NumCommitsPerSchedule - Len(scoring_subdag[n])

\* update_leader_schedule_v2.  Under the new schedule the DAG may decide more
\* slots or fewer.
update_leader_schedule(n) ==
    /\ call[n] = "loop"
    /\ commits_until_leader_schedule_update(n) = 0
    /\ leader_swap_table' = [leader_swap_table EXCEPT ![n] = scoring_subdag[n]]
    /\ scoring_subdag' = [scoring_subdag EXCEPT ![n] = <<>>]
    /\ \E h \in 0..MaxRound : horizon' = [horizon EXCEPT ![n] = h]
    /\ UNCHANGED <<log, last_decided_leader, call, certified_commits, sequenced_leaders,
                   committed_sub_dags, stored>>

\* try_select_certified_leaders takes what fits under the current schedule.
SelectCertified(n) ==
    LET limit == commits_until_leader_schedule_update(n)
        commits == certified_commits[n]
        k == IF Len(commits) >= limit THEN limit ELSE Len(commits)
    IN  /\ call[n] = "loop" /\ limit > 0
        /\ commits /= <<>>
        /\ sequenced_leaders' =
                [sequenced_leaders EXCEPT ![n] = {commits[i].round : i \in 1..k}]
        /\ certified_commits' =
                [certified_commits EXCEPT ![n] = SubSeq(commits, k + 1, Len(commits))]
        /\ last_decided_leader' = [last_decided_leader EXCEPT ![n] = commits[k].round]
        /\ call' = [call EXCEPT ![n] = "commit"]
        /\ UNCHANGED <<log, leader_swap_table, scoring_subdag, horizon,
                       committed_sub_dags, stored>>

\* The last decided slot that is kept: skipped slots count towards the limit.
LastKept(n) ==
    LET limit == last_decided_leader[n] + commits_until_leader_schedule_update(n)
    IN  IF horizon[n] >= limit THEN limit ELSE horizon[n]

\* try_decide, when no certified commit is left.  The loop ends when nothing
\* is decided and when all that is decided are skips.
DecideLeaders(n) ==
    LET last == LastKept(n)
        leaders == {r \in (last_decided_leader[n] + 1)..last :
                        Decides(leader_swap_table[n], r)}
    IN  /\ call[n] = "loop" /\ commits_until_leader_schedule_update(n) > 0
        /\ certified_commits[n] = <<>>
        /\ last_decided_leader' =
                [last_decided_leader EXCEPT ![n] = IF last > @ THEN last ELSE @]
        /\ sequenced_leaders' = [sequenced_leaders EXCEPT ![n] = leaders]
        /\ call' = [call EXCEPT ![n] = IF leaders = {} THEN "idle" ELSE "commit"]
        /\ UNCHANGED <<log, leader_swap_table, scoring_subdag, horizon, certified_commits,
                       committed_sub_dags, stored>>

\* Linearizer::handle_commit makes the next commit from the next leader.
CommitLeader(n) ==
    /\ call[n] = "commit"
    /\ \E r \in sequenced_leaders[n] :
            LET c == [index |-> Len(log[n]) + 1, round |-> r]
            IN  /\ \A q \in sequenced_leaders[n] : r <= q
                /\ log' = [log EXCEPT ![n] = Append(@, c)]
                /\ committed_sub_dags' = [committed_sub_dags EXCEPT ![n] = Append(@, c)]
                /\ sequenced_leaders' = [sequenced_leaders EXCEPT ![n] = @ \ {r}]
    /\ UNCHANGED <<leader_swap_table, scoring_subdag, last_decided_leader, horizon, call,
                   certified_commits, stored>>

\* The end of CommitObserver::handle_commit: all of them are scored at once.
add_scoring_subdags(n) ==
    /\ call[n] = "commit"
    /\ sequenced_leaders[n] = {}
    /\ scoring_subdag' = [scoring_subdag EXCEPT ![n] = @ \o committed_sub_dags[n]]
    /\ committed_sub_dags' = [committed_sub_dags EXCEPT ![n] = <<>>]
    /\ call' = [call EXCEPT ![n] = "loop"]
    /\ UNCHANGED <<log, leader_swap_table, last_decided_leader, horizon,
                   certified_commits, sequenced_leaders, stored>>

-----------------------------------------------------------------------------
(* Storage                                                                 *)

\* DagState::flush, by Core after it proposes and by CommitFinalizer, which
\* runs at any point of the loop: all buffered commits and commit infos.
flush(n) ==
    /\ stored' = [stored EXCEPT ![n] = [commits |-> log[n], info |-> leader_swap_table[n]]]
    /\ UNCHANGED <<log, coreVars>>

\* Mutants: the last commit of the last schedule is scored again; the schedule
\* is not recovered; the commits after the last commit info are not recovered.
UnscoredCommits_Again(s) ==
    LET last == LastIndexOf(s.info)
    IN  SubSeq(s.commits, IF last = 0 THEN 1 ELSE last, Len(s.commits))

RecoveredTable_Default(s) == <<>>

\* DagState::new: the stored commits after the last commit info.
UnscoredCommits(s) == SubSeq(s.commits, LastIndexOf(s.info) + 1, Len(s.commits))

\* LeaderSchedule::from_store: the schedule of the last commit info.
RecoveredTable(s) == s.info

\* DagState::new: the last stored commit is the last commit.
RecoveredLog(s) == s.commits

\* A crash and a restart from what is stored; Core::recover ends in a call of
\* try_commit.  Blocks that were not stored are lost.
Restart(n) ==
    /\ log' = [log EXCEPT ![n] = RecoveredLog(stored[n])]
    /\ leader_swap_table' = [leader_swap_table EXCEPT ![n] = RecoveredTable(stored[n])]
    /\ scoring_subdag' = [scoring_subdag EXCEPT ![n] = UnscoredCommits(stored[n])]
    /\ last_decided_leader' =
            [last_decided_leader EXCEPT ![n] = LastRoundOf(RecoveredLog(stored[n]))]
    /\ \E h \in 0..horizon[n] : horizon' = [horizon EXCEPT ![n] = h]
    /\ call' = [call EXCEPT ![n] = "loop"]
    /\ certified_commits' = [certified_commits EXCEPT ![n] = <<>>]
    /\ sequenced_leaders' = [sequenced_leaders EXCEPT ![n] = {}]
    /\ committed_sub_dags' = [committed_sub_dags EXCEPT ![n] = <<>>]
    /\ UNCHANGED stored

-----------------------------------------------------------------------------
Step(n) ==
    \/ \E h \in Round : add_blocks(n, h)
    \/ \E peer \in Node : \E i \in 1..Len(log[peer]) : add_certified_commits(n, peer, i)
    \/ update_leader_schedule(n)
    \/ SelectCertified(n)
    \/ DecideLeaders(n)
    \/ CommitLeader(n)
    \/ add_scoring_subdags(n)
    \/ flush(n)
    \/ Restart(n)

Next == \E n \in Node : Step(n)

Spec == Init /\ [][Next]_vars

-----------------------------------------------------------------------------
(* Properties                                                              *)

TypeOK ==
    /\ log \in [Node -> Seq(Commit)]
    /\ leader_swap_table \in [Node -> Seq(Commit)]
    /\ scoring_subdag \in [Node -> Seq(Commit)]
    /\ last_decided_leader \in [Node -> 0..MaxRound]
    /\ horizon \in [Node -> 0..MaxRound]
    /\ call \in [Node -> {"idle", "loop", "commit"}]
    /\ certified_commits \in [Node -> Seq(Commit)]
    /\ sequenced_leaders \in [Node -> SUBSET Round]
    /\ committed_sub_dags \in [Node -> Seq(Commit)]
    /\ stored \in [Node -> [commits : Seq(Commit), info : Seq(Commit)]]

\* The commits that make the schedule for commit i: the last full group of
\* NumCommitsPerSchedule commits before it.
ScheduleFor(l, i) ==
    LET last == (i - 1) - ((i - 1) % NumCommitsPerSchedule)
    IN  IF last = 0 THEN <<>> ELSE SubSeq(l, last - NumCommitsPerSchedule + 1, last)

\* Every authority's log is the one the leader schedule prescribes: each
\* commit is of the first leader after the previous one that commits under the
\* schedule of its group.  No leader is decided with a schedule that was due
\* to change or changed too early, none is passed over when decided leaders
\* are discarded at the end of a schedule, none is committed twice, whether
\* the commits are decided locally, come from commit sync, or are redone
\* after a restart.
LogFollowsSchedule ==
    \A n \in Node : \A i \in 1..Len(log[n]) :
        LET c == log[n][i]
            t == ScheduleFor(log[n], i)
            previous == IF i = 1 THEN 0 ELSE log[n][i - 1].round
        IN  /\ c.index = i
            /\ c.round > previous
            /\ Decides(t, c.round)
            /\ \A r \in (previous + 1)..(c.round - 1) : ~ Decides(t, r)

\* What round r adds to a log l that all earlier rounds made.
WithRound(l, r) ==
    LET c == [index |-> Len(l) + 1, round |-> r]
    IN  IF Decides(ScheduleFor(l, c.index), r) THEN Append(l, c) ELSE l

\* The log a single authority would make that goes through the rounds one at a
\* time, knows all of the DAG and never crashes.
SequentialLog[r \in 0..MaxRound] ==
    IF r = 0 THEN <<>> ELSE WithRound(SequentialLog[r - 1], r)

AgreedLog == SequentialLog[MaxRound]

\* The commit loops of all authorities implement one replicated log, the
\* sequential one: commits are learned in order one at a time, and what a
\* crash at any point of the loop undoes is exactly what was not yet flushed.
Abstract == INSTANCE ReplicatedLog WITH
    agreed <- AgreedLog,
    replica <- log,
    durable <- [n \in Node |-> stored[n].commits]

ImplementsReplicatedLog == Abstract!Spec

\* No two authorities have different commits at an index: the sanity check
\* try_commit makes of certified commits can not fail.
Agreement ==
    \A n, m \in Node : \A i \in 1..Len(log[n]) :
        i <= Len(log[m]) => log[n][i] = log[m][i]

\* The assertions on the way hold: commits_until_leader_schedule_update never
\* counts more commits than a schedule has, and update_leader_swap_table gets
\* the range of commits that follows the current table's and has its size.
\* They are at risk when commits and commit infos are stored at different
\* times and scoring is recovered from them.
ScheduleAssertions ==
    \A n \in Node :
        LET t == leader_swap_table[n]
            s == scoring_subdag[n]
        IN  /\ Len(s) <= NumCommitsPerSchedule
            /\ s /= <<>> => s[1].index = LastIndexOf(t) + 1
            /\ s /= <<>> => LastIndexOf(s) = LastIndexOf(t) + Len(s)
            /\ t /= <<>> => Len(t) = NumCommitsPerSchedule

\* What is stored is never undone: a flush after a restart at any point of the
\* loop extends the stored commits and never goes back to an older schedule.
StorageOnlyGrows ==
    [][\A n \in Node :
          /\ Len(stored[n].commits) <= Len(stored'[n].commits)
          /\ SubSeq(stored'[n].commits, 1, Len(stored[n].commits)) = stored[n].commits
          /\ LastIndexOf(stored[n].info) <= LastIndexOf(stored'[n].info)]_vars
=============================================================================
