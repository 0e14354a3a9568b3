---------------------------- MODULE ThresholdClock ----------------------------
(***************************************************************************)
(* threshold_clock.rs, and how DagState feeds it: with every block it      *)
(* accepts, and again after a restart, from round 1, with the blocks it    *)
(* reads back from storage authority by authority (dag_state.rs).          *)
(*                                                                         *)
(* A block is its slot: what else it holds does not matter to the clock,   *)
(* and a second block of a slot counts like the first one again.           *)
(***************************************************************************)
EXTENDS Integers

CONSTANTS
    Authority,      \* the authority indexes
    Quorum,         \* the sets of authorities whose stake reaches 2f+1
    CachedRounds,   \* dag_state_cached_rounds
    MaxRound        \* bound on the rounds of blocks

ASSUME ClockAssumption ==
    /\ Authority \subseteq Nat
    /\ Quorum \subseteq SUBSET Authority
    /\ \A Q \in Quorum : \A S \in SUBSET Authority : Q \subseteq S => S \in Quorum
    /\ {} \notin Quorum
    /\ CachedRounds \in Nat
    /\ MaxRound \in Nat

Block == [round : 1..MaxRound, author : Authority]

VARIABLES
    round,        \* ThresholdClock::round
    votes,        \* authorities counted by the aggregator for that round
    added,        \* the blocks the clock has seen since the process started
    gc_round,     \* DagState::gc_round()
    recovering,   \* the blocks DagState::new has still to add
    storage       \* the flushed blocks and the gc round of the flushed commits

vars == <<round, votes, added, gc_round, recovering, storage>>

AuthorsAt(S, r) == {b.author : b \in {c \in S : c.round = r}}

Init ==
    /\ round = 1
    /\ votes = {}
    /\ added = {}
    /\ gc_round = 0
    /\ recovering = {}
    /\ storage = [blocks |-> {}, gc_round |-> 0]

\* Mutant of add_block: the votes of the old round are not cleared by a jump.
add_block_NotCleared(b) ==
    /\ \/ /\ b.round < round
          /\ UNCHANGED <<round, votes>>
       \/ /\ b.round > round
          /\ round' = b.round
          /\ votes' = votes \cup {b.author}
       \/ /\ b.round = round
          /\ votes \cup {b.author} \in Quorum
          /\ round' = b.round + 1
          /\ votes' = {}
       \/ /\ b.round = round
          /\ votes \cup {b.author} \notin Quorum
          /\ votes' = votes \cup {b.author}
          /\ UNCHANGED round
    /\ added' = added \cup {b}

\* Mutant of add_block: any block of the clock's round advances it.
add_block_NoThreshold(b) ==
    /\ \/ /\ b.round < round
          /\ UNCHANGED <<round, votes>>
       \/ /\ b.round > round
          /\ round' = b.round
          /\ votes' = {b.author}
       \/ /\ b.round = round
          /\ round' = b.round + 1
          /\ votes' = {}
    /\ added' = added \cup {b}

\* In the Greater branch the aggregator's answer is not looked at.
add_block(b) ==
    /\ \/ /\ b.round < round
          /\ UNCHANGED <<round, votes>>
       \/ /\ b.round > round
          /\ round' = b.round
          /\ votes' = {b.author}
       \/ /\ b.round = round
          /\ votes \cup {b.author} \in Quorum
          /\ round' = b.round + 1
          /\ votes' = {}
       \/ /\ b.round = round
          /\ votes \cup {b.author} \notin Quorum
          /\ votes' = votes \cup {b.author}
          /\ UNCHANGED round
    /\ added' = added \cup {b}

\* A block above the gc round is accepted when its parents, a quorum of the round
\* below, are there, or are not above the gc round themselves.
AcceptBlock(b) ==
    /\ recovering = {}
    /\ b.round > gc_round
    /\ \/ b.round = gc_round + 1
       \/ AuthorsAt(added, b.round - 1) \in Quorum
    /\ add_block(b)
    /\ UNCHANGED <<gc_round, recovering, storage>>

\* A commit moves the gc round, which stays at least two rounds behind the DAG.
MoveGcRound(g) ==
    /\ recovering = {}
    /\ gc_round < g
    /\ \E b \in added : g + 2 <= b.round
    /\ gc_round' = g
    /\ UNCHANGED <<round, votes, added, recovering, storage>>

\* flush writes the accepted blocks and the commits in one batch.
flush ==
    /\ recovering = {}
    /\ storage' = [blocks |-> storage.blocks \cup added, gc_round |-> gc_round]
    /\ storage' # storage
    /\ UNCHANGED <<round, votes, added, gc_round, recovering>>

\* The last CachedRounds rounds of an authority are read back even when they
\* are below the gc round.
IsEvicted(b) ==
    /\ b.round <= storage.gc_round
    /\ \E c \in storage.blocks : c.author = b.author /\ b.round + CachedRounds <= c.round

\* A process that stops loses what was not flushed and starts from storage.
Restart ==
    /\ recovering' = {b \in storage.blocks : ~IsEvicted(b)}
    /\ gc_round' = storage.gc_round
    /\ round' = 1
    /\ votes' = {}
    /\ added' = {}
    /\ UNCHANGED storage

\* Authority by authority, each one's blocks in the order of their rounds.
RecoverBlock(b) ==
    /\ b \in recovering
    /\ \A c \in recovering : \/ b.author < c.author
                             \/ b.author = c.author /\ b.round <= c.round
    /\ add_block(b)
    /\ recovering' = recovering \ {b}
    /\ UNCHANGED <<gc_round, storage>>

Next ==
    \/ \E b \in Block : AcceptBlock(b)
    \/ \E g \in 1..MaxRound : MoveGcRound(g)
    \/ flush
    \/ Restart
    \/ \E b \in Block : RecoverBlock(b)

Spec == Init /\ [][Next]_vars

-----------------------------------------------------------------------------
(* Properties                                                              *)

\* Type correctness of the clock and of DagState's part.
TypeOK ==
    /\ round \in 1..(MaxRound + 1)
    /\ votes \in SUBSET Authority
    /\ added \in SUBSET Block
    /\ gc_round \in 0..MaxRound
    /\ recovering \in SUBSET Block
    /\ storage \in [blocks : SUBSET Block, gc_round : 0..MaxRound]

\* The round the clock should show for a set of blocks, in whatever order they
\* came: one above the highest round with blocks if that round has a quorum.
IsClockRound(S, r) ==
    \/ r = 1 /\ S = {}
    \/ \E b \in S :
        /\ \A c \in S : c.round <= b.round
        /\ r = IF AuthorsAt(S, b.round) \in Quorum THEN b.round + 1 ELSE b.round

\* "advance the round accordingly": the clock is a function of the blocks it saw,
\* not of their order.  A restart, which replays the blocks in another order,
\* therefore ends at the round the process was in when it stored them.
ClockIsExact == recovering = {} => IsClockRound(added, round)

\* "If we processed block for round r, we also have stored 2f+1 blocks from r-1":
\* outside recovery a block proposed at the clock's round has a quorum of parents.
QuorumBehindClock ==
    recovering = {} /\ round > 1 => AuthorsAt(added, round - 1) \in Quorum

\* No authority is a quorum of its own.
NoSingleQuorum == \A a \in Authority : {a} \notin Quorum
=============================================================================
