--------------------------- MODULE AmnesiaRecovery ---------------------------
(***************************************************************************)
(* An authority that lost its storage asks its peers for its own last      *)
(* block before it proposes again: start_fetch_own_last_block_task in      *)
(* synchronizer.rs, the gate of Core::should_propose, and the condition    *)
(* under which authority_node.rs turns this on.                            *)
(*                                                                         *)
(* When a proposal is made, and that it is stored before it is broadcast,  *)
(* is the subject of Proposer.                                             *)
(***************************************************************************)
EXTENDS Committee

CONSTANTS
    me,           \* this authority
    Faulty,       \* peers that may answer with any older block of ours
    Content,      \* what else than its round a block may differ in
    MaxRound,     \* bound on the rounds
    MaxCrashes    \* bound on the number of crashes

Peers == Authority \ {me}
NotSynced == -1

\* What is assumed of the constants: more authorities never have less stake.
RecoveryAssumption ==
    /\ Faulty \subseteq Peers
    /\ MaxRound \in Nat \ {0} /\ Content /= {}
    /\ \A S, T \in SUBSET Authority :
            S \subseteq T /\ reached_validity(S) => reached_validity(T)

VARIABLES
    clock,                       \* the threshold clock round
    accepted,                    \* DagState has a block: highest_accepted_round > 0
    last_proposed,               \* our last block in DagState
    stored,                      \* both, as of the last flush
    last_known_proposed_round,   \* None is NotSynced
    asking,                      \* the task is running
    replied, highest_round,      \* the answers of this attempt
    known,                       \* known[p]: the round of our last block that p has
    proposed,                    \* the blocks we ever broadcast
    crashes,
    unknown,                     \* history: rounds too few peers knew when we lost our storage
    interrupted                  \* history: a crash came before we proposed anew, and what
                                 \* the task had found was not asked for again

recoveryVars ==
    <<clock, accepted, last_proposed, stored, last_known_proposed_round, asking, replied,
      highest_round, known, proposed, crashes, unknown, interrupted>>

Round == 0..MaxRound
Block == [round : Round, content : Content]
Genesis == [round |-> 0, content |-> CHOOSE c \in Content : TRUE]
EmptyStorage == [block |-> Genesis, accepted |-> FALSE]

\* AuthorityNode::start: with an empty store, and in a process that has not
\* run this authority before, the last own block is synced.
sync_last_known_own_block(s) == ~ s.accepted

Boot(s) ==
    /\ last_proposed' = s.block
    /\ accepted' = s.accepted
    /\ asking' = sync_last_known_own_block(s)
    /\ last_known_proposed_round' = IF sync_last_known_own_block(s) THEN NotSynced ELSE 0
    /\ replied' = {} /\ highest_round' = 0

RecoveryInit ==
    /\ clock = 1
    /\ accepted = FALSE /\ last_proposed = Genesis /\ stored = EmptyStorage
    /\ last_known_proposed_round = NotSynced /\ asking = TRUE
    /\ replied = {} /\ highest_round = 0
    /\ known = [p \in Peers |-> 0]
    /\ proposed = {} /\ crashes = 0 /\ unknown = {} /\ interrupted = FALSE

-----------------------------------------------------------------------------
(* The task                                                                *)

\* A peer answers with the last of our blocks it has accepted.
Reply(p, round) ==
    /\ asking
    /\ p \notin replied
    /\ p \notin Faulty => round = known[p]
    /\ round \in {0} \cup {b.round : b \in proposed}
    /\ replied' = replied \cup {p}
    /\ highest_round' = IF round > highest_round THEN round ELSE highest_round
    /\ UNCHANGED <<clock, accepted, last_proposed, stored, last_known_proposed_round, asking,
                   known, proposed, crashes, unknown, interrupted>>

\* All peers have answered, or time is up.
AnswersGathered ==
    /\ asking
    /\ IF reached_validity(replied)
       THEN /\ last_known_proposed_round' = highest_round
            /\ asking' = FALSE
            /\ UNCHANGED <<replied, highest_round>>
       ELSE /\ replied' = {} /\ highest_round' = 0
            /\ UNCHANGED <<last_known_proposed_round, asking>>
    /\ UNCHANGED <<clock, accepted, last_proposed, stored, known, proposed, crashes, unknown,
                   interrupted>>

-----------------------------------------------------------------------------
(* Core                                                                    *)

\* Blocks of others are accepted.
add_blocks(c) ==
    /\ c >= clock
    /\ clock' = c
    /\ accepted' = TRUE
    /\ UNCHANGED <<last_proposed, stored, last_known_proposed_round, asking, replied,
                   highest_round, known, proposed, crashes, unknown, interrupted>>

\* So is a block of our own that a peer still has.
AcceptOwnBlock(b) ==
    /\ b.round > last_proposed.round
    /\ b.round < clock
    /\ \E p \in Peers : known[p] >= b.round
    /\ last_proposed' = b
    /\ accepted' = TRUE
    /\ UNCHANGED <<clock, stored, last_known_proposed_round, asking, replied, highest_round,
                   known, proposed, crashes, unknown, interrupted>>

should_propose ==
    /\ last_known_proposed_round /= NotSynced
    /\ clock > last_known_proposed_round

\* try_new_block with its flush, and the broadcast.
Propose ==
    /\ should_propose
    /\ clock > last_proposed.round
    /\ \E c \in Content :
            LET b == [round |-> clock, content |-> c]
            IN  /\ last_proposed' = b
                /\ stored' = [block |-> b, accepted |-> TRUE]
                /\ proposed' = proposed \cup {b}
    /\ accepted' = TRUE
    /\ UNCHANGED <<clock, last_known_proposed_round, asking, replied, highest_round, known,
                   crashes, unknown, interrupted>>

\* The flush of CommitFinalizer.
flush ==
    /\ stored' = [block |-> last_proposed, accepted |-> accepted]
    /\ UNCHANGED <<clock, accepted, last_proposed, last_known_proposed_round, asking, replied,
                   highest_round, known, proposed, crashes, unknown, interrupted>>

-----------------------------------------------------------------------------
(* The environment                                                         *)

\* A peer accepts one of our blocks, and with it the ones before.
Deliver(p, b) ==
    /\ b.round > known[p]
    /\ known' = [known EXCEPT ![p] = b.round]
    /\ UNCHANGED <<clock, accepted, last_proposed, stored, last_known_proposed_round, asking,
                   replied, highest_round, proposed, crashes, unknown, interrupted>>

\* The peers whose answer might not tell us of our block of a round.
Silent(round) == {p \in Peers : known[p] < round} \cup Faulty

\* The process crashes and starts again, with its storage or without.
Crash(lost) ==
    LET s == IF lost THEN EmptyStorage ELSE stored
    IN  /\ crashes < MaxCrashes
        /\ crashes' = crashes + 1
        /\ stored' = s
        /\ Boot(s)
        /\ \E c \in 1..clock :
                /\ c >= s.block.round
                /\ s.accepted \/ c = 1
                /\ clock' = c
        /\ unknown' = IF ~ lost THEN unknown
                      ELSE unknown \cup {r \in {b.round : b \in proposed} :
                                            reached_validity(Silent(r))}
        /\ interrupted' =
                \/ interrupted
                \/ ~ asking' /\ \E b \in proposed : b.round > s.block.round
        /\ UNCHANGED <<known, proposed>>

RecoveryNext ==
    \/ \E p \in Peers, r \in Round : Reply(p, r)
    \/ AnswersGathered
    \/ \E c \in 1..MaxRound : add_blocks(c)
    \/ \E b \in proposed : AcceptOwnBlock(b)
    \/ Propose
    \/ flush
    \/ \E p \in Peers, b \in proposed : Deliver(p, b)
    \/ \E lost \in BOOLEAN : Crash(lost)

RecoverySpec == RecoveryInit /\ [][RecoveryNext]_recoveryVars

-----------------------------------------------------------------------------
(* Properties                                                              *)

RecoveryTypeOK ==
    /\ clock \in 1..MaxRound
    /\ {accepted, asking, interrupted} \subseteq BOOLEAN
    /\ last_proposed \in Block
    /\ stored \in [block : Block, accepted : BOOLEAN]
    /\ last_known_proposed_round \in Round \cup {NotSynced}
    /\ replied \subseteq Peers /\ highest_round \in Round
    /\ known \in [Peers -> Round]
    /\ proposed \subseteq Block /\ unknown \subseteq Round

\* The rounds for which we broadcast two blocks.
Equivocated == {b.round : b \in {x \in proposed : \E y \in proposed :
                                    x.round = y.round /\ x /= y}}

\* A block of ours that enough peers have, so that f + 1 answers must include
\* one that tells of it, is never followed by another of its round: neither by
\* a crash nor by the loss of the storage, if the node then runs until it has
\* proposed again.
KnownRoundsAreNotReused == interrupted \/ Equivocated \subseteq unknown
=============================================================================
