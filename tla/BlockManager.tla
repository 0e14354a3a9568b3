---------------------------- MODULE BlockManager ----------------------------
(***************************************************************************)
(* The block manager of one authority: consensus/core/src/block_manager.rs *)
(* together with the part of DagState it reads and writes (the accepted    *)
(* blocks and the garbage collection round).                               *)
(*                                                                         *)
(* A block that arrives before its ancestors is suspended; when the last   *)
(* missing ancestor is accepted, or falls below the garbage collection     *)
(* round, the block is accepted and its own children are tried.  All calls *)
(* are made by the core thread, one at a time, so a call runs from "idle"  *)
(* to "idle"; its loops are broken into one step per iteration so that the *)
(* assertions inside them are statements about reachable states.           *)
(*                                                                         *)
(* The iteration order of the B-tree sets is abstracted: the children of a *)
(* block and the entries of the work stack are taken in any order, keys of *)
(* one round are garbage collected in any order.                           *)
(***************************************************************************)
EXTENDS Integers, FiniteSets

CONSTANTS
    Block,        \* the block references that exist in the network
    Round,        \* Round[b]: the round of block b
    Ancestors,    \* Ancestors[b]: the ancestors block b names
    GcDepth,      \* protocol_config.gc_depth()
    MaxBatch      \* bound on the blocks handed over by one call

ASSUME BlockAssumption ==
    /\ Round \in [Block -> Nat]
    /\ Ancestors \in [Block -> SUBSET Block]
    /\ \A b \in Block : \A a \in Ancestors[b] : Round[a] < Round[b]
    /\ GcDepth \in Nat
    /\ MaxBatch \in Nat

Genesis == {b \in Block : Round[b] = 0}

VARIABLES
    dag,                 \* blocks DagState has accepted
    last_commit_round,   \* leader round of DagState's last commit
    suspended_blocks,    \* keys of suspended_blocks
    waits_for,           \* SuspendedBlock::missing_ancestors, {} when not suspended
    missing_keys,        \* keys of missing_ancestors
    missing_ancestors,   \* the children waiting for a key, {} when not a key
    missing_blocks,      \* blocks to fetch
    call,                \* the call being executed by the core thread
    input,               \* blocks the call has still to look at
    commit_round,        \* leader round the running try_commit is about to commit
    to_process,          \* to_process_blocks of try_unsuspend_children_blocks
    to_accept,           \* blocks_to_accept: unsuspended, not yet in the dag
    returned             \* accepted_blocks of the call so far

dagVars == <<dag, last_commit_round>>
mapVars == <<suspended_blocks, waits_for, missing_keys, missing_ancestors>>
callVars == <<call, input, commit_round, returned>>
vars == <<dag, last_commit_round, suspended_blocks, waits_for, missing_keys,
          missing_ancestors, missing_blocks, call, input, commit_round,
          to_process, to_accept, returned>>

\* DagState::calculate_gc_round: saturating subtraction of the depth.
GcRoundOf(r) == IF r > GcDepth THEN r - GcDepth ELSE 0

gc_round == GcRoundOf(last_commit_round)

Init ==
    /\ dag = Genesis
    /\ last_commit_round = 0
    /\ suspended_blocks = {}
    /\ waits_for = [b \in Block |-> {}]
    /\ missing_keys = {}
    /\ missing_ancestors = [b \in Block |-> {}]
    /\ missing_blocks = {}
    /\ call = "idle"
    /\ input = {}
    /\ commit_round = 0
    /\ to_process = {}
    /\ to_accept = {}
    /\ returned = {}

-----------------------------------------------------------------------------
(* Calls made by Core                                                      *)

\* The inner loop is done and the next block of the call can be looked at.
AtLoopHead == to_process = {} /\ to_accept = {}

\* The call works through its blocks in round order.
IsNextInput(b) == b \in input /\ \A c \in input : Round[b] <= Round[c]

try_accept_blocks(batch) ==
    /\ call = "idle"
    /\ call' = "blocks"
    /\ input' = batch
    /\ UNCHANGED <<dagVars, mapVars, missing_blocks, commit_round, to_process, to_accept,
                   returned>>

\* Mutant of RequiredAncestors: the round above the gc round is not insisted on.
RequiredAncestors_OffByOne(b) == {a \in Ancestors[b] : Round[a] = 0 \/ Round[a] > gc_round + 1}

\* The ancestors the manager insists on: those above the gc round, and genesis.
RequiredAncestors(b) == {a \in Ancestors[b] : Round[a] = 0 \/ Round[a] > gc_round}

MissingAncestorsOf(b) == RequiredAncestors(b) \ dag

\* TryAcceptResult::Processed and ::Skipped leave everything as it is.
IgnoreOneBlock(b) ==
    /\ call = "blocks" /\ AtLoopHead /\ IsNextInput(b)
    /\ \/ b \in suspended_blocks \cup dag
       \/ Round[b] <= gc_round
    /\ input' = input \ {b}
    /\ UNCHANGED <<dagVars, mapVars, missing_blocks, call, commit_round, to_process,
                   to_accept, returned>>

\* TryAcceptResult::Suspended
SuspendOneBlock(b) ==
    /\ call = "blocks" /\ AtLoopHead /\ IsNextInput(b)
    /\ b \notin suspended_blocks \cup dag
    /\ Round[b] > gc_round
    /\ MissingAncestorsOf(b) # {}
    /\ suspended_blocks' = suspended_blocks \cup {b}
    /\ waits_for' = [waits_for EXCEPT ![b] = MissingAncestorsOf(b)]
    /\ missing_keys' = missing_keys \cup MissingAncestorsOf(b)
    /\ missing_ancestors' = [a \in Block |->
            IF a \in MissingAncestorsOf(b) THEN missing_ancestors[a] \cup {b}
                                           ELSE missing_ancestors[a]]
    /\ missing_blocks' = (missing_blocks \cup (MissingAncestorsOf(b) \ suspended_blocks)) \ {b}
    /\ input' = input \ {b}
    /\ UNCHANGED <<dagVars, call, commit_round, to_process, to_accept, returned>>

\* TryAcceptResult::Accepted, and the start of try_unsuspend_children_blocks.
AcceptOneBlock(b) ==
    /\ call = "blocks" /\ AtLoopHead /\ IsNextInput(b)
    /\ b \notin suspended_blocks \cup dag
    /\ Round[b] > gc_round
    /\ MissingAncestorsOf(b) = {}
    /\ missing_blocks' = missing_blocks \ {b}
    /\ input' = input \ {b}
    /\ to_process' = {b}
    /\ to_accept' = {b}
    /\ UNCHANGED <<dagVars, mapVars, call, commit_round, returned>>

\* Core::try_commit, certified commits: the blocks of the synced commits that
\* are about to be sequenced are accepted first, then their leaders committed.
\* A commit holds every uncommitted block of its leader's history above the gc
\* round of the commit before it, so the blocks are complete above the gc round
\* the call ends with.
try_accept_committed_blocks(batch, leader) ==
    /\ call = "idle"
    /\ leader \in batch
    /\ Round[leader] > last_commit_round
    /\ \A b \in batch : gc_round < Round[b] /\ Round[b] <= Round[leader]
    /\ \A b \in batch : \A a \in Ancestors[b] :
            a \in dag \cup batch \/ Round[a] <= GcRoundOf(Round[leader])
    /\ call' = "committed"
    /\ input' = batch
    /\ commit_round' = Round[leader]
    /\ UNCHANGED <<dagVars, mapVars, missing_blocks, to_process, to_accept, returned>>

\* try_accept_one_committed_block, TryAcceptResult::Processed
IgnoreOneCommittedBlock(b) ==
    /\ call = "committed" /\ AtLoopHead /\ IsNextInput(b)
    /\ b \in dag
    /\ input' = input \ {b}
    /\ UNCHANGED <<dagVars, mapVars, missing_blocks, call, commit_round, to_process,
                   to_accept, returned>>

\* Mutant of try_accept_one_committed_block: the block is still recorded as a
\* child of the ancestors it was waiting for.
try_accept_one_committed_block_StillChild(b) ==
    /\ call = "committed" /\ AtLoopHead /\ IsNextInput(b)
    /\ b \notin dag
    /\ missing_blocks' = missing_blocks \ {b}
    /\ suspended_blocks' = suspended_blocks \ {b}
    /\ waits_for' = [waits_for EXCEPT ![b] = {}]
    /\ dag' = dag \cup {b}
    /\ returned' = returned \cup {b}
    /\ input' = input \ {b}
    /\ to_process' = {b}
    /\ UNCHANGED <<last_commit_round, missing_keys, missing_ancestors, call, commit_round,
                   to_accept>>

\* A suspended block that turns out committed is forgotten by the blocks it
\* was waiting for.
try_accept_one_committed_block(b) ==
    /\ call = "committed" /\ AtLoopHead /\ IsNextInput(b)
    /\ b \notin dag
    /\ missing_blocks' = missing_blocks \ {b}
    /\ suspended_blocks' = suspended_blocks \ {b}
    /\ waits_for' = [waits_for EXCEPT ![b] = {}]
    /\ missing_ancestors' = [a \in Block |->
            IF a \in waits_for[b] THEN missing_ancestors[a] \ {b} ELSE missing_ancestors[a]]
    /\ dag' = dag \cup {b}
    /\ returned' = returned \cup {b}
    /\ input' = input \ {b}
    /\ to_process' = {b}
    /\ UNCHANGED <<last_commit_round, missing_keys, call, commit_round, to_accept>>

-----------------------------------------------------------------------------
(* try_unsuspend_children_blocks and the acceptance that follows it        *)

\* Mutant of UnsuspendChildren: the children of a freed child are not tried.
UnsuspendChildren_OneLevel(x) ==
    LET children == missing_ancestors[x]
        freed == {c \in children : waits_for[c] \ {x} = {}}
    IN  /\ x \in to_process
        /\ missing_keys' = missing_keys \ {x}
        /\ missing_ancestors' = [missing_ancestors EXCEPT ![x] = {}]
        /\ waits_for' = [c \in Block |->
                IF c \in children THEN waits_for[c] \ {x} ELSE waits_for[c]]
        /\ suspended_blocks' = suspended_blocks \ freed
        /\ to_process' = to_process \ {x}
        /\ to_accept' = to_accept \cup freed
        /\ UNCHANGED <<dagVars, missing_blocks, callVars>>

\* One iteration of the work loop: try_unsuspend_block for every child of x.
UnsuspendChildren(x) ==
    LET children == missing_ancestors[x]
        freed == {c \in children : waits_for[c] \ {x} = {}}
    IN  /\ x \in to_process
        /\ missing_keys' = missing_keys \ {x}
        /\ missing_ancestors' = [missing_ancestors EXCEPT ![x] = {}]
        /\ waits_for' = [c \in Block |->
                IF c \in children THEN waits_for[c] \ {x} ELSE waits_for[c]]
        /\ suspended_blocks' = suspended_blocks \ freed
        /\ to_process' = (to_process \ {x}) \cup freed
        /\ to_accept' = to_accept \cup freed
        /\ UNCHANGED <<dagVars, missing_blocks, callVars>>

\* dag_state.accept_blocks(blocks_to_accept)
AcceptUnsuspended ==
    /\ to_process = {} /\ to_accept # {}
    /\ dag' = dag \cup to_accept
    /\ returned' = returned \cup to_accept
    /\ to_accept' = {}
    /\ UNCHANGED <<last_commit_round, mapVars, missing_blocks, call, input,
                   commit_round, to_process>>

\* The call has looked at all its blocks.
ReturnAccepted ==
    /\ call = "blocks" /\ AtLoopHead /\ input = {}
    /\ call' = "idle"
    /\ returned' = {}
    /\ UNCHANGED <<dagVars, mapVars, missing_blocks, input, commit_round, to_process,
                   to_accept>>

-----------------------------------------------------------------------------
(* Commits and garbage collection                                          *)

\* handle_commit for the synced leaders moves the gc round.
CommitCertified ==
    /\ call = "committed" /\ AtLoopHead /\ input = {}
    /\ last_commit_round' = commit_round
    /\ commit_round' = 0
    /\ call' = "gc"
    /\ returned' = {}
    /\ UNCHANGED <<dag, mapVars, missing_blocks, input, to_process, to_accept>>

\* handle_commit for leaders the local commit rule decided: any accepted block
\* of a higher round may be the last of them.
CommitLocal(leader) ==
    /\ call = "idle"
    /\ leader \in dag
    /\ Round[leader] > last_commit_round
    /\ last_commit_round' = Round[leader]
    /\ call' = "gc"
    /\ UNCHANGED <<dag, mapVars, missing_blocks, input, commit_round, to_process,
                   to_accept, returned>>

\* missing_ancestors.first_key_value()
IsFirstKey(x) == x \in missing_keys /\ \A y \in missing_keys : Round[x] <= Round[y]

\* try_unsuspend_blocks_for_latest_gc_round, one turn of its loop: the key is
\* given up as if it had been accepted.
GarbageCollect(x) ==
    /\ call = "gc" /\ AtLoopHead
    /\ IsFirstKey(x)
    /\ Round[x] <= gc_round
    /\ missing_blocks' = missing_blocks \ {x}
    /\ to_process' = {x}
    /\ UNCHANGED <<dagVars, mapVars, callVars, to_accept>>

\* Mutant of GarbageCollected: the loop ends one round early.
GarbageCollected_OffByOne ==
    /\ call = "gc" /\ AtLoopHead
    /\ \A x \in missing_keys : Round[x] >= gc_round
    /\ call' = "idle"
    /\ returned' = {}
    /\ UNCHANGED <<dagVars, mapVars, missing_blocks, input, commit_round, to_process,
                   to_accept>>

\* The loop ends when the first key, and so every key, lies above the gc round.
GarbageCollected ==
    /\ call = "gc" /\ AtLoopHead
    /\ \A x \in missing_keys : Round[x] > gc_round
    /\ call' = "idle"
    /\ returned' = {}
    /\ UNCHANGED <<dagVars, mapVars, missing_blocks, input, commit_round, to_process,
                   to_accept>>

-----------------------------------------------------------------------------

\* Core::check_block_refs: references reported by peers.
try_find_blocks(refs) ==
    LET missing == {r \in refs : Round[r] > gc_round /\ r \notin dag \cup suspended_blocks}
    IN  /\ call = "idle"
        /\ missing_blocks' = missing_blocks \cup missing
        /\ missing_keys' = missing_keys \cup (missing \ missing_blocks)
        /\ UNCHANGED <<dagVars, suspended_blocks, waits_for, missing_ancestors, callVars,
                       to_process, to_accept>>

Batches == {s \in SUBSET (Block \ Genesis) : s # {} /\ Cardinality(s) <= MaxBatch}

Step ==
    \/ \E b \in Block :
        \/ IgnoreOneBlock(b) \/ SuspendOneBlock(b) \/ AcceptOneBlock(b)
        \/ IgnoreOneCommittedBlock(b) \/ try_accept_one_committed_block(b)
        \/ UnsuspendChildren(b)
        \/ GarbageCollect(b)
    \/ AcceptUnsuspended
    \/ ReturnAccepted
    \/ CommitCertified
    \/ GarbageCollected

Call ==
    \/ \E batch \in Batches :
        \/ try_accept_blocks(batch)
        \/ try_find_blocks(batch)
        \/ \E leader \in batch : try_accept_committed_blocks(batch, leader)
    \/ \E leader \in Block : CommitLocal(leader)

Next == Step \/ Call

Spec == Init /\ [][Next]_vars

\* The core thread finishes what it started, and the synchronizer keeps asking
\* for every block of missing_blocks until it is handed over.
Fairness ==
    /\ WF_vars(Step)
    /\ \A b \in Block \ Genesis : SF_vars(b \in missing_blocks /\ try_accept_blocks({b}))

FairSpec == Spec /\ Fairness

-----------------------------------------------------------------------------
(* Properties                                                              *)

\* Type correctness; the gc round in particular never drops below zero.
TypeOK ==
    /\ dag \in SUBSET Block
    /\ last_commit_round \in Nat /\ gc_round \in Nat
    /\ suspended_blocks \in SUBSET Block
    /\ waits_for \in [Block -> SUBSET Block]
    /\ missing_keys \in SUBSET Block
    /\ missing_ancestors \in [Block -> SUBSET Block]
    /\ missing_blocks \in SUBSET Block
    /\ call \in {"idle", "blocks", "committed", "gc"}
    /\ input \in SUBSET Block
    /\ commit_round \in Nat
    /\ to_process \in SUBSET Block
    /\ to_accept \in SUBSET Block
    /\ returned \in SUBSET Block

\* None of the three assertions of the unsuspension loops can fail: every
\* child recorded under a processed block is still in suspended_blocks
\* (`expect("Block should be in suspended map")`), still lists that block as
\* missing (`assert!(block.missing_ancestors.remove(..))`), and the first key at
\* or below the gc round is never itself suspended ("as we are causally
\* GC'ing").  Committed blocks arriving while suspended are what endangers it.
AssertionsHold ==
    /\ \A x \in to_process : \A c \in missing_ancestors[x] :
            c \in suspended_blocks /\ x \in waits_for[c]
    /\ \A x \in Block :
            call = "gc" /\ AtLoopHead /\ IsFirstKey(x) /\ Round[x] <= gc_round
                => x \notin suspended_blocks

\* Between calls every accepted block has all its ancestors above the gc round
\* accepted too, whether it came in order, was unsuspended, was garbage
\* collected free or was accepted unchecked from a certified commit.  The
\* commit rule and the linearizer rely on it when they `expect` every ancestor.
CausallyComplete ==
    call = "idle" =>
        \A b \in dag : \A a \in Ancestors[b] : a \in dag \/ Round[a] <= gc_round

\* Between calls a suspended block waits for exactly the ancestors that are
\* above the gc round and not accepted, and there is at least one: no block
\* stays suspended once nothing it needs is missing, and none is released early.
SuspendedExactly ==
    call = "idle" =>
        \A b \in suspended_blocks :
            /\ b \notin dag
            /\ waits_for[b] = {a \in Ancestors[b] : a \notin dag /\ Round[a] > gc_round}
            /\ waits_for[b] # {}

\* Between calls missing_blocks holds the keys of missing_ancestors that are
\* not suspended, as the comment on the field says, and nothing accepted or
\* garbage collected: what the synchronizer fetches is what is really needed.
MissingExactly ==
    call = "idle" =>
        /\ missing_blocks = missing_keys \ suspended_blocks
        /\ \A a \in missing_keys : a \notin dag /\ Round[a] > gc_round
        /\ \A b \in suspended_blocks : waits_for[b] \subseteq missing_keys

\* Both at once: between calls suspended_blocks, missing_ancestors and
\* missing_blocks say exactly what waits for what and what is to be fetched.
MapsAreExact == SuspendedExactly /\ MissingExactly

\* A suspended block does not stay suspended for ever when missing blocks keep
\* being fetched: it is accepted, or released by garbage collection.
SuspendedIsReleased ==
    \A b \in Block : b \in suspended_blocks ~> b \notin suspended_blocks
=============================================================================
