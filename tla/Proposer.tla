------------------------------ MODULE Proposer ------------------------------
(***************************************************************************)
(* How an authority comes to propose its blocks: the proposal path of      *)
(* core.rs, the gates core_thread.rs opens and closes, the timers of       *)
(* leader_timeout.rs, and crashes in between.                              *)
(*                                                                         *)
(* The core thread runs one call at a time; the leader timeout is a task   *)
(* of its own, and waits for the core thread to answer each of its calls.  *)
(* Other authorities' blocks only matter by the threshold clock round and  *)
(* whether they hold the last round's leader.                              *)
(***************************************************************************)
EXTENDS Integers

CONSTANTS
    Content,       \* what else than its round a block may differ in
    MaxRound,      \* bound on the threshold clock round
    MaxCrashes     \* bound on the number of crashes

ASSUME BoundsAssumption ==
    /\ Content /= {}
    /\ MaxRound \in Nat \ {0}
    /\ MaxCrashes \in Nat

VARIABLES
    clock,                  \* the threshold clock round
    leaders_exist,          \* the leaders of round clock - 1 are in the DAG
    min_delay_passed,       \* min_round_delay has passed since the last proposal
    last_proposed,          \* our last block in DagState
    stored,                 \* our last block in storage
    proposed,               \* the blocks we ever broadcast
    step,                   \* where the core thread is in a proposal
    subscriber_exists,
    propagation_delayed,    \* propagation_delay is over the threshold
    last_signaled_round,
    new_round,              \* the value of the new_round watch channel
    leader_round,           \* the round the timers run for
    timer,                  \* 0: running, 1: min_round_delay, 2: leader_timeout is over
    min_timed_out, max_timed_out,
    command,                \* the leader timeout's call of new_block
    crashes

coreVars == <<clock, leaders_exist, min_delay_passed, last_proposed, step>>
gateVars == <<subscriber_exists, propagation_delayed>>
timerVars == <<leader_round, timer, min_timed_out, max_timed_out>>
vars == <<coreVars, stored, proposed, gateVars, last_signaled_round, new_round, timerVars,
          command, crashes>>

Block == [round : 0..MaxRound, content : Content]
Genesis == [round |-> 0, content |-> CHOOSE c \in Content : TRUE]

NoCommand == [state |-> "none", round |-> 0, force |-> FALSE]

Init ==
    /\ clock = 1 /\ leaders_exist = TRUE /\ min_delay_passed = TRUE
    /\ last_proposed = Genesis /\ stored = Genesis /\ proposed = {}
    /\ step = "recover"
    /\ subscriber_exists \in BOOLEAN
    /\ propagation_delayed = FALSE
    /\ last_signaled_round = 0 /\ new_round = 0
    /\ leader_round = 0 /\ timer = 0
    /\ min_timed_out = FALSE /\ max_timed_out = FALSE
    /\ command = NoCommand
    /\ crashes = 0

-----------------------------------------------------------------------------
(* Core::try_propose.  The core thread is at "normal" or "force" when it   *)
(* has been called, "created" when the block is in memory, "stored" when   *)
(* it is flushed.                                                          *)

should_propose == subscriber_exists /\ ~ propagation_delayed

\* try_new_block takes the round of the threshold clock.
HigherRound == clock > last_proposed.round

\* Without force, the last round's leaders must exist and the minimum delay
\* must have passed; smart ancestor selection may still decline.
CanPropose(force) ==
    /\ should_propose
    /\ HigherRound
    /\ force \/ (leaders_exist /\ min_delay_passed)

\* A call that ends answers the leader timeout, if it was its call.
Answered == IF command.state = "running" THEN NoCommand ELSE command

\* try_signal_new_round, at the end of every call that may have proposed.
try_signal_new_round(round) ==
    /\ new_round' = IF round > last_signaled_round THEN round ELSE new_round
    /\ last_signaled_round' =
            IF round > last_signaled_round THEN round ELSE last_signaled_round

try_new_block ==
    /\ \/ step = "normal" /\ CanPropose(FALSE)
       \/ step = "force" /\ CanPropose(TRUE)
    /\ \E c \in Content : last_proposed' = [round |-> clock, content |-> c]
    /\ min_delay_passed' = FALSE
    /\ step' = "created"
    /\ UNCHANGED <<clock, leaders_exist, stored, proposed, gateVars, last_signaled_round,
                   new_round, timerVars, command, crashes>>

\* No block is proposed, because it can not be or for lack of good ancestors.
ProposeNothing ==
    /\ step \in {"normal", "force"}
    /\ step = "force" => ~ CanPropose(TRUE)
    /\ step' = "idle"
    /\ command' = Answered
    /\ try_signal_new_round(clock)
    /\ UNCHANGED <<clock, leaders_exist, min_delay_passed, last_proposed, stored, proposed,
                   gateVars, timerVars, crashes>>

\* Mutant of flush: the block is broadcast before it is stored.
flush_Later ==
    /\ step = "created"
    /\ step' = "stored"
    /\ UNCHANGED <<clock, leaders_exist, min_delay_passed, last_proposed, stored, proposed,
                   gateVars, last_signaled_round, new_round, timerVars, command, crashes>>

\* DagState::flush: the block and its ancestors are stored.
flush ==
    /\ step = "created"
    /\ stored' = last_proposed
    /\ step' = "stored"
    /\ UNCHANGED <<clock, leaders_exist, min_delay_passed, last_proposed, proposed, gateVars,
                   last_signaled_round, new_round, timerVars, command, crashes>>

\* CoreSignals::new_block.  The block may have completed its round's quorum.
Broadcast ==
    /\ step = "stored"
    /\ proposed' = proposed \cup {last_proposed}
    /\ \E c \in {clock, clock + 1} \cap 1..MaxRound :
            /\ clock' = c
            /\ leaders_exist' \in IF c = clock THEN {leaders_exist} ELSE BOOLEAN
            /\ try_signal_new_round(c)
    /\ step' = "idle"
    /\ command' = Answered
    /\ UNCHANGED <<min_delay_passed, last_proposed, stored, gateVars, timerVars, crashes>>

-----------------------------------------------------------------------------
(* Calls of the core thread                                                *)

\* add_blocks and add_certified_commits: the clock may advance, and a leader
\* of its last round may turn up.
add_blocks(c) ==
    /\ step = "idle"
    /\ c >= clock
    /\ clock' = c
    /\ leaders_exist' \in IF c = clock THEN {TRUE} ELSE BOOLEAN
    /\ step' = "normal"
    /\ UNCHANGED <<min_delay_passed, last_proposed, stored, proposed, gateVars,
                   last_signaled_round, new_round, timerVars, command, crashes>>

\* new_block for the leader timeout: only if we have no block of the round.
new_block ==
    /\ step = "idle"
    /\ command.state = "sent"
    /\ IF last_proposed.round < command.round
       THEN /\ step' = IF command.force THEN "force" ELSE "normal"
            /\ command' = [command EXCEPT !.state = "running"]
       ELSE /\ step' = step
            /\ command' = NoCommand
    /\ UNCHANGED <<clock, leaders_exist, min_delay_passed, last_proposed, stored, proposed,
                   gateVars, last_signaled_round, new_round, timerVars, crashes>>

\* Mutant of SetGates: proposing is left to the next block or timeout.
SetGates_Only(exists, delayed) ==
    /\ step = "idle"
    /\ subscriber_exists' = exists
    /\ propagation_delayed' = delayed
    /\ UNCHANGED <<coreVars, stored, proposed, last_signaled_round, new_round, timerVars,
                   command, crashes>>

\* A gate changes; if that lets us propose, new_block(Round::MAX, true).
SetGates(exists, delayed) ==
    /\ step = "idle"
    /\ subscriber_exists' = exists
    /\ propagation_delayed' = delayed
    /\ step' = IF ~ should_propose /\ should_propose' THEN "force" ELSE "idle"
    /\ UNCHANGED <<clock, leaders_exist, min_delay_passed, last_proposed, stored, proposed,
                   last_signaled_round, new_round, timerVars, command, crashes>>

set_subscriber_exists == SetGates(~ subscriber_exists, propagation_delayed)
set_propagation_delay == SetGates(subscriber_exists, ~ propagation_delayed)

\* Core::recover: propose, or else broadcast the last block again.
recover ==
    /\ step = "recover"
    /\ IF CanPropose(TRUE)
       THEN /\ step' = "force"
            /\ UNCHANGED <<proposed, new_round, last_signaled_round>>
       ELSE /\ step' = "idle"
            /\ proposed' = proposed \cup ({last_proposed} \ {Genesis})
            /\ try_signal_new_round(clock)
    /\ UNCHANGED <<clock, leaders_exist, min_delay_passed, last_proposed, stored, gateVars,
                   timerVars, command, crashes>>

-----------------------------------------------------------------------------
(* LeaderTimeoutTask::run.  A branch is only polled when no call is out.   *)
(* The task starts after Core::recover, with the round it signaled; until  *)
(* a round is signaled its calls, for round 0, do nothing.                 *)

MinTimeout ==
    /\ command = NoCommand
    /\ leader_round > 0
    /\ timer >= 1 /\ ~ min_timed_out
    /\ command' = [state |-> "sent", round |-> leader_round, force |-> FALSE]
    /\ min_timed_out' = TRUE
    /\ UNCHANGED <<coreVars, stored, proposed, gateVars, last_signaled_round, new_round,
                   leader_round, timer, max_timed_out, crashes>>

MaxTimeout ==
    /\ command = NoCommand
    /\ leader_round > 0
    /\ timer = 2 /\ ~ max_timed_out
    /\ command' = [state |-> "sent", round |-> leader_round, force |-> TRUE]
    /\ max_timed_out' = TRUE
    /\ UNCHANGED <<coreVars, stored, proposed, gateVars, last_signaled_round, new_round,
                   leader_round, timer, min_timed_out, crashes>>

\* The watch channel keeps the last value only.
NewRound ==
    /\ command = NoCommand
    /\ step /= "recover"
    /\ new_round /= leader_round
    /\ leader_round' = new_round
    /\ timer' = 0
    /\ min_timed_out' = FALSE /\ max_timed_out' = FALSE
    /\ UNCHANGED <<coreVars, stored, proposed, gateVars, last_signaled_round, new_round,
                   command, crashes>>

\* Time passes.
Tick ==
    /\ leader_round > 0
    /\ timer < 2
    /\ timer' = timer + 1
    /\ UNCHANGED <<coreVars, stored, proposed, gateVars, last_signaled_round, new_round,
                   leader_round, min_timed_out, max_timed_out, command, crashes>>

MinDelayPasses ==
    /\ ~ min_delay_passed
    /\ min_delay_passed' = TRUE
    /\ UNCHANGED <<clock, leaders_exist, last_proposed, step, stored, proposed, gateVars,
                   last_signaled_round, new_round, timerVars, command, crashes>>

-----------------------------------------------------------------------------
\* A crash, and Core::new from storage.  The clock is recovered from the stored
\* blocks, which include the ancestors of our last one.
Crash ==
    /\ crashes < MaxCrashes
    /\ crashes' = crashes + 1
    /\ last_proposed' = stored
    /\ \E c \in 1..clock : c >= stored.round /\ clock' = c
    /\ leaders_exist' \in BOOLEAN
    /\ last_signaled_round' = stored.round
    /\ new_round' = 0 /\ leader_round' = 0 /\ timer' = 0
    /\ min_timed_out' = FALSE /\ max_timed_out' = FALSE
    /\ command' = NoCommand
    /\ step' = "recover"
    /\ subscriber_exists' \in BOOLEAN /\ propagation_delayed' = FALSE
    /\ UNCHANGED <<min_delay_passed, stored, proposed>>

CoreStep == try_new_block \/ ProposeNothing \/ flush \/ Broadcast \/ new_block \/ recover

Next ==
    \/ try_new_block \/ ProposeNothing \/ flush \/ Broadcast
    \/ \E c \in 1..MaxRound : add_blocks(c)
    \/ new_block \/ set_subscriber_exists \/ set_propagation_delay \/ recover
    \/ MinTimeout \/ MaxTimeout \/ NewRound \/ Tick \/ MinDelayPasses
    \/ Crash

Spec == Init /\ [][Next]_vars

\* The core thread finishes its calls and takes the next one from its channel,
\* timers run out and the leader timeout is polled.  Blocks need not arrive, and
\* gates need not open.
Fairness ==
    /\ WF_vars(CoreStep)
    /\ SF_vars(new_block)
    /\ WF_vars(MinTimeout) /\ SF_vars(MaxTimeout) /\ SF_vars(NewRound)
    /\ WF_vars(Tick)

FairSpec == Spec /\ Fairness

-----------------------------------------------------------------------------
(* Properties                                                              *)

TypeOK ==
    /\ clock \in 1..MaxRound
    /\ {leaders_exist, min_delay_passed, subscriber_exists, propagation_delayed,
        min_timed_out, max_timed_out} \subseteq BOOLEAN
    /\ last_proposed \in Block /\ stored \in Block /\ proposed \subseteq Block
    /\ step \in {"recover", "idle", "normal", "force", "created", "stored"}
    /\ {last_signaled_round, new_round, leader_round} \subseteq 0..MaxRound
    /\ timer \in 0..2
    /\ command \in [state : {"none", "sent", "running"}, round : 0..MaxRound, force : BOOLEAN]
    /\ crashes \in 0..MaxCrashes

\* We never broadcast two blocks of one round, wherever the node crashes: what
\* try_new_block's flush before the broadcast is for.
NoEquivocation ==
    \A a, b \in proposed : a.round = b.round => a = b

\* Our blocks form a chain: a block we propose is newer than all we have ever
\* broadcast, so that its ancestors can include the last of them.
ProposesUpwards ==
    [][step' = "created" /\ step /= "created"
          => \A b \in proposed : b.round < last_proposed'.round]_vars

\* An authority that can propose does not wait for ever: when the timers have
\* run out while a gate was closed, or a call of the leader timeout came too
\* early or was overtaken by a new round, something else makes it propose.
EventuallyProposes == []<> ~ (should_propose /\ HigherRound)
=============================================================================
