-------------------------- MODULE UniversalCommitter --------------------------
(***************************************************************************)
(* universal_committer.rs: passes of the commit rule over a growing DAG.   *)
(*                                                                         *)
(* A pass decides the leader slots above last_decided from the highest     *)
(* round down; only the core thread changes the DAG, so a view does not    *)
(* change during a pass.  Between passes the environment may do to a view  *)
(* what DagState does: accept a block whose causal history above the gc    *)
(* round is there, collect garbage, or lose unflushed blocks in a restart. *)
(* A pass may be called with any last_decided at or above the gc round and *)
(* with any leader schedule: Core calls it after commits of its own, after *)
(* certified commits of peers, after schedule updates and after restarts.  *)
(***************************************************************************)
EXTENDS BaseCommitter

CONSTANTS
    Validator,   \* the authorities whose committers are modelled
    Schedule,    \* indexes of the leader schedules of the epoch
    Leader,      \* Leader[s][r]: elect_leader(r) under schedule s
    Dags,        \* a family of DAGs, as a function
    MaxGcRound,  \* bound on the gc round
    NoPass       \* no call of try_decide is running

ASSUME ScheduleFacts == Leader \in [Schedule -> [Rounds -> Authority]]

ASSUME DagFacts == \A i \in DOMAIN Dags : IsDag(Dags[i])

Status == Block \cup {Skip, Undecided}

\* The arguments and the local state of a call of try_decide.
Pass == [schedule : Schedule,        \* the leader schedule in force
         last_decided : Nat,         \* the round of the argument
         round : Nat,                \* the round the loop looks at next
         leaders : [Rounds -> Status]]

ASSUME PassFacts == MaxGcRound \in Nat /\ NoPass \notin Pass

VARIABLES
    epoch,      \* which DAG of the family the authorities build
    view,       \* view[v]: the blocks in v's DagState
    gc_round,   \* gc_round[v]
    pass,       \* pass[v]: v's running call of try_decide, or NoPass
    outcomes    \* outcomes[s][r]: every decision anyone ever took (history)

vars == <<epoch, view, gc_round, pass, outcomes>>

\* Every block that authorities ever sign in this behaviour.
dag == Dags[epoch]

\* The ancestors of b above round g are in V.
IsCompleteAbove(b, V, g) == \A a \in dag.ancestors[b] : a.round > g => a \in V

highest_accepted_round(v, r) ==
    /\ \E b \in view[v] : b.round = r
    /\ \A b \in view[v] : b.round <= r

Init ==
    /\ epoch \in DOMAIN Dags
    /\ view = [v \in Validator |-> AtRound(dag.blocks, 0)]
    /\ gc_round = [v \in Validator |-> 0]
    /\ pass = [v \in Validator |-> NoPass]
    /\ outcomes = [s \in Schedule |-> [r \in Rounds |-> {}]]

-----------------------------------------------------------------------------
(* What the rest of Core does to the DAG between two passes                *)

AcceptBlock(v, b) ==
    /\ pass[v] = NoPass
    /\ b \notin view[v]
    /\ b.round > gc_round[v]
    /\ IsCompleteAbove(b, view[v], gc_round[v])
    /\ view' = [view EXCEPT ![v] = @ \cup {b}]
    /\ UNCHANGED <<epoch, gc_round, pass, outcomes>>

\* A restart forgets blocks that were not flushed, descendants first.
LoseBlock(v, b) ==
    /\ pass[v] = NoPass
    /\ b \in view[v] /\ b.round > 0
    /\ \A c \in view[v] : b \notin dag.ancestors[c]
    /\ view' = [view EXCEPT ![v] = @ \ {b}]
    /\ UNCHANGED <<epoch, gc_round, pass, outcomes>>

\* A commit raises the gc round; a restart may take it back, to a round above
\* which the flushed blocks are complete.
MoveGcRound(v, g) ==
    /\ pass[v] = NoPass
    /\ g # gc_round[v]
    /\ \A b \in view[v] : IsCompleteAbove(b, view[v], g)
    /\ gc_round' = [gc_round EXCEPT ![v] = g]
    /\ UNCHANGED <<epoch, view, pass, outcomes>>

-----------------------------------------------------------------------------
(* try_decide                                                              *)

\* The loop runs from highest_accepted_round - 2 down to last + 1.  A call for
\* which that range is empty decides nothing and is left out.
try_decide(v, s, last) ==
    /\ pass[v] = NoPass
    /\ last >= gc_round[v]
    /\ \E highest \in Rounds :
        /\ highest_accepted_round(v, highest)
        /\ highest - 2 > last
        /\ pass' = [pass EXCEPT ![v] = [schedule |-> s,
                                        last_decided |-> last,
                                        round |-> highest - 2,
                                        leaders |-> [r \in Rounds |-> Undecided]]]
    /\ UNCHANGED <<epoch, view, gc_round, outcomes>>

SlotOf(p) == [round |-> p.round, authority |-> Leader[p.schedule][p.round]]

\* One round of the loop: the one committer of the pipeline that has a leader in
\* this round decides its slot.
DecideRound(v) ==
    /\ pass[v] # NoPass
    /\ pass[v].round > pass[v].last_decided
    /\ \E offset \in Offsets :
        /\ elects(offset, pass[v].round)
        /\ LET p == pass[v]
               status == DecideSlot(dag, view[v], offset, SlotOf(p), p.leaders)
           IN  /\ pass' = [pass EXCEPT ![v].leaders[p.round] = status,
                                       ![v].round = p.round - 1]
               /\ outcomes' = [outcomes EXCEPT ![p.schedule][p.round] =
                                    @ \cup ({status} \ {Undecided})]
    /\ UNCHANGED <<epoch, view, gc_round>>

Return(v) ==
    /\ pass[v] # NoPass
    /\ pass[v].round = pass[v].last_decided
    /\ pass' = [pass EXCEPT ![v] = NoPass]
    /\ UNCHANGED <<epoch, view, gc_round, outcomes>>

Next ==
    \E v \in Validator :
        \/ \E b \in dag.blocks : AcceptBlock(v, b)
        \/ \E b \in dag.blocks : LoseBlock(v, b)
        \/ \E g \in 0..MaxGcRound : MoveGcRound(v, g)
        \/ \E s \in Schedule : \E last \in Rounds \cup {0} : try_decide(v, s, last)
        \/ DecideRound(v)
        \/ Return(v)

Spec == Init /\ [][Next]_vars

-----------------------------------------------------------------------------
(* Properties                                                              *)

\* Type correctness of the committer's state.
TypeOK ==
    /\ epoch \in DOMAIN Dags
    /\ view \in [Validator -> SUBSET dag.blocks]
    /\ gc_round \in [Validator -> 0..MaxGcRound]
    /\ pass \in [Validator -> Pass \cup {NoPass}]
    /\ \A v \in Validator : pass[v] # NoPass =>
            pass[v].round \in pass[v].last_decided..MaxRound
    /\ outcomes \in [Schedule -> [Rounds -> SUBSET (Block \cup {Skip})]]

\* Two decisions on the same slot under the same schedule are equal, whoever
\* takes them, from whatever part of the DAG, before or after a restart, directly
\* or through an anchor.  With it try_decide is idempotent, as its comment says,
\* and two authorities never commit different leader sequences.
Agreement ==
    \A s \in Schedule, r \in Rounds : \A x, y \in outcomes[s][r] : x = y

\* The panics of base_committer.rs and ancestors_at_round are unreachable in the
\* round a pass looks at next: at most one leader block has enough support, at
\* most one is certified from an anchor, every ancestor of a potential
\* certificate is stored or garbage collected, and the history of an anchor is
\* stored down to the decision round.
CommitRuleNeverPanics ==
    \A v \in Validator : pass[v] # NoPass =>
        LET p == pass[v]
        IN  \A offset \in Offsets :
            p.round > p.last_decided /\ elects(offset, p.round) =>
                /\ \A b, c \in leaders_with_enough_support(dag, view[v], offset, SlotOf(p)) : b = c
                /\ \A c \in AtRound(view[v], DecisionRound(offset, p.round)) :
                        \A a \in dag.ancestors[c] : a \in view[v] \/ a.round <= gc_round[v]
                /\ \A x \in Rounds : IsAnchorRound(p.leaders, p.round, x) /\ p.leaders[x] # Undecided =>
                        /\ \A b, c \in certified_leader_blocks(dag, view[v], offset, SlotOf(p),
                                                               p.leaders[x]) : b = c
                        /\ \A a \in dag.history[p.leaders[x]] :
                                a.round >= DecisionRound(offset, p.round) => a \in view[v]
=============================================================================
