------------------------- MODULE BlockManagerProofs -------------------------
(***************************************************************************)
(* The block manager keeps its books: for every block DAG, gc depth and    *)
(* batch size, its assertions cannot fail, accepted blocks are causally    *)
(* complete, suspended blocks wait for exactly what is missing and the     *)
(* fetch set is exact.                                                     *)
(***************************************************************************)
EXTENDS BlockManager, TLAPS

\* The two maps are each other's inverse, and the blocks in flight (to_process,
\* to_accept) are in neither the dag nor the maps they have left.
MapsAgree ==
    /\ \A a, b \in Block : b \in missing_ancestors[a] <=> a \in waits_for[b]
    /\ \A b \in Block : waits_for[b] # {} <=> b \in suspended_blocks
    /\ \A a \in Block : missing_ancestors[a] # {} => a \in missing_keys

\* Who may be in flight: outside the unsuspension loop nobody.
InFlight ==
    /\ suspended_blocks \cap (dag \cup to_accept \cup to_process) = {}
    /\ to_process \subseteq dag \cup to_accept \cup {x \in Block : Round[x] <= gc_round}
    /\ missing_keys \cap (dag \cup to_accept) \subseteq to_process
    /\ missing_blocks = missing_keys \ (suspended_blocks \cup to_process)
    /\ call = "idle" => AtLoopHead /\ input = {}
    /\ call = "gc" => input = {}

\* The gc round the running call will end with.
TargetGcRound == IF call = "committed" THEN GcRoundOf(commit_round) ELSE gc_round

\* A suspended block has its other ancestors accepted, about to be, or too old.
SuspendedHistory ==
    /\ \A b \in Block : waits_for[b] \subseteq Ancestors[b]
    /\ \A b \in suspended_blocks : \A a \in Ancestors[b] :
            a \in waits_for[b] \/ a \in dag \cup to_accept \/ Round[a] <= gc_round

\* An accepted block has its ancestors accepted, about to be, or too old.
DagHistory ==
    \A b \in dag \cup to_accept : \A a \in Ancestors[b] :
        \/ a \in dag \cup to_accept
        \/ call = "committed" /\ a \in input
        \/ Round[a] <= TargetGcRound

\* So have the committed blocks that are still to be accepted.
InputHistory ==
    call = "committed" => \A b \in input : \A a \in Ancestors[b] :
        a \in dag \cup to_accept \cup input \/ Round[a] <= TargetGcRound

\* Keys at or below the gc round exist only while garbage collection runs.
KeysAboveGc ==
    /\ Genesis \subseteq dag
    /\ call # "gc" => \A a \in missing_keys : Round[a] > gc_round
    /\ call = "committed" => commit_round > last_commit_round

IInv ==
    /\ TypeOK
    /\ MapsAgree
    /\ InFlight
    /\ SuspendedHistory
    /\ DagHistory
    /\ InputHistory
    /\ KeysAboveGc

-----------------------------------------------------------------------------

\* The gc round is a natural number and grows with the commit round.
LEMMA GcRoundGrows ==
    /\ \A r \in Nat : GcRoundOf(r) \in Nat
    /\ \A r, s \in Nat : r <= s => GcRoundOf(r) <= GcRoundOf(s)
BY BlockAssumption DEF GcRoundOf

\* The gc round does not overtake the one the running call ends with.
LEMMA TargetIsAhead ==
    ASSUME TypeOK, KeysAboveGc
    PROVE  gc_round <= TargetGcRound /\ gc_round \in Nat /\ TargetGcRound \in Nat
BY GcRoundGrows DEF TypeOK, KeysAboveGc, TargetGcRound, gc_round

\* A suspended block waits for a key of a lower round, so the first key of
\* missing_ancestors is not suspended: garbage collection goes bottom-up.
LEMMA FirstKeyNotSuspended ==
    ASSUME TypeOK, MapsAgree, SuspendedHistory, NEW x \in Block, IsFirstKey(x)
    PROVE  x \notin suspended_blocks
<1> SUFFICES ASSUME x \in suspended_blocks PROVE FALSE
    OBVIOUS
<1>1. PICK a \in Block : a \in waits_for[x]
    BY DEF TypeOK, MapsAgree
<1>2. a \in missing_keys
    BY <1>1 DEF TypeOK, MapsAgree
<1>3. Round[a] < Round[x]
    BY <1>1, BlockAssumption DEF SuspendedHistory
<1> QED
    BY <1>2, <1>3, BlockAssumption DEF IsFirstKey

\* What MissingAncestorsOf collects, and what it leaves out.
LEMMA MissingAncestorsFacts ==
    ASSUME TypeOK, KeysAboveGc, NEW b \in Block
    PROVE  /\ MissingAncestorsOf(b) \in SUBSET Ancestors[b]
           /\ MissingAncestorsOf(b) \in SUBSET Block
           /\ MissingAncestorsOf(b) \cap dag = {}
           /\ \A a \in MissingAncestorsOf(b) : Round[a] > gc_round /\ a # b
           /\ \A a \in Ancestors[b] :
                a \in MissingAncestorsOf(b) \/ a \in dag \/ Round[a] <= gc_round
<1> gc_round \in Nat
    BY GcRoundGrows DEF TypeOK, gc_round
<1> QED
    BY BlockAssumption DEF MissingAncestorsOf, RequiredAncestors, KeysAboveGc, Genesis, TypeOK

\* Initially nothing is suspended, missing or in flight.
LEMMA InitIInv == Init => IInv
<1> SUFFICES ASSUME Init PROVE IInv
    OBVIOUS
<1> USE BlockAssumption DEF Init, Genesis
<1>1. TypeOK
    BY BlockAssumption DEF TypeOK, gc_round, GcRoundOf
<1>2. MapsAgree
    BY DEF MapsAgree
<1>3. InFlight
    BY DEF InFlight, AtLoopHead
<1>4. SuspendedHistory /\ DagHistory /\ InputHistory
    BY DEF SuspendedHistory, DagHistory, InputHistory
<1>5. KeysAboveGc
    BY DEF KeysAboveGc
<1> QED
    BY <1>1, <1>2, <1>3, <1>4, <1>5 DEF IInv

\* Ignoring a processed or skipped block changes the input only.
LEMMA IgnoreIInv ==
    ASSUME IInv, NEW b \in Block, IgnoreOneBlock(b)
    PROVE  IInv'
<1> USE BlockAssumption, GcRoundGrows DEF IInv, IgnoreOneBlock, AtLoopHead, dagVars, mapVars, callVars
<1>1. TypeOK'
    BY BlockAssumption DEF TypeOK, gc_round, GcRoundOf
<1>2. MapsAgree'
    BY DEF TypeOK, MapsAgree
<1>3. InFlight'
    BY DEF TypeOK, MapsAgree, InFlight, AtLoopHead, gc_round
<1>4. SuspendedHistory'
    BY DEF TypeOK, MapsAgree, InFlight, SuspendedHistory, gc_round
<1>5. DagHistory'
    BY DEF TypeOK, InFlight, SuspendedHistory, DagHistory, InputHistory, TargetGcRound, gc_round
<1>6. InputHistory'
    BY DEF TypeOK, InFlight, InputHistory, TargetGcRound, gc_round
<1>7. KeysAboveGc'
    BY DEF TypeOK, MapsAgree, InFlight, KeysAboveGc, gc_round
<1> QED
    BY <1>1, <1>2, <1>3, <1>4, <1>5, <1>6, <1>7

\* Suspending a block enters it in both maps.
LEMMA SuspendIInv ==
    ASSUME IInv, NEW b \in Block, SuspendOneBlock(b)
    PROVE  IInv'
<1> USE BlockAssumption, MissingAncestorsFacts DEF IInv, SuspendOneBlock, AtLoopHead, dagVars, mapVars, callVars
<1>1. TypeOK'
    BY BlockAssumption DEF TypeOK, gc_round, GcRoundOf
<1>2. MapsAgree'
    BY DEF TypeOK, MapsAgree
<1>3. InFlight'
    BY DEF TypeOK, MapsAgree, InFlight, AtLoopHead, gc_round
<1>4. SuspendedHistory'
    BY DEF TypeOK, MapsAgree, InFlight, SuspendedHistory, gc_round
<1>5. DagHistory'
    BY DEF TypeOK, InFlight, SuspendedHistory, DagHistory, InputHistory, TargetGcRound, gc_round
<1>6. InputHistory'
    BY DEF TypeOK, InFlight, InputHistory, TargetGcRound, gc_round
<1>7. KeysAboveGc'
    BY DEF TypeOK, MapsAgree, InFlight, KeysAboveGc, gc_round
<1> QED
    BY <1>1, <1>2, <1>3, <1>4, <1>5, <1>6, <1>7

\* An accepted block has every ancestor it needs.
LEMMA AcceptIInv ==
    ASSUME IInv, NEW b \in Block, AcceptOneBlock(b)
    PROVE  IInv'
<1> USE BlockAssumption, MissingAncestorsFacts DEF IInv, AcceptOneBlock, AtLoopHead, dagVars, mapVars, callVars
<1>1. TypeOK'
    BY BlockAssumption DEF TypeOK, gc_round, GcRoundOf
<1>2. MapsAgree'
    BY DEF TypeOK, MapsAgree
<1>3. InFlight'
    BY DEF TypeOK, MapsAgree, InFlight, AtLoopHead, gc_round
<1>4. SuspendedHistory'
    BY DEF TypeOK, MapsAgree, InFlight, SuspendedHistory, gc_round
<1>5. DagHistory'
    BY DEF TypeOK, InFlight, SuspendedHistory, DagHistory, InputHistory, TargetGcRound, gc_round
<1>6. InputHistory'
    BY DEF TypeOK, InFlight, InputHistory, TargetGcRound, gc_round
<1>7. KeysAboveGc'
    BY DEF TypeOK, MapsAgree, InFlight, KeysAboveGc, gc_round
<1> QED
    BY <1>1, <1>2, <1>3, <1>4, <1>5, <1>6, <1>7

\* A committed block already in the dag is passed over.
LEMMA IgnoreCommittedIInv ==
    ASSUME IInv, NEW b \in Block, IgnoreOneCommittedBlock(b)
    PROVE  IInv'
<1> USE BlockAssumption, GcRoundGrows DEF IInv, IgnoreOneCommittedBlock, AtLoopHead, dagVars, mapVars, callVars
<1>1. TypeOK'
    BY BlockAssumption DEF TypeOK, gc_round, GcRoundOf
<1>2. MapsAgree'
    BY DEF TypeOK, MapsAgree
<1>3. InFlight'
    BY DEF TypeOK, MapsAgree, InFlight, AtLoopHead, gc_round
<1>4. SuspendedHistory'
    BY DEF TypeOK, MapsAgree, InFlight, SuspendedHistory, gc_round
<1>5. DagHistory'
    BY DEF TypeOK, InFlight, SuspendedHistory, DagHistory, InputHistory, TargetGcRound, gc_round
<1>6. InputHistory'
    BY DEF TypeOK, InFlight, InputHistory, TargetGcRound, gc_round
<1>7. KeysAboveGc'
    BY DEF TypeOK, MapsAgree, InFlight, KeysAboveGc, gc_round
<1> QED
    BY <1>1, <1>2, <1>3, <1>4, <1>5, <1>6, <1>7

\* A committed block leaves the maps as it enters the dag.
LEMMA AcceptCommittedIInv ==
    ASSUME IInv, NEW b \in Block, try_accept_one_committed_block(b)
    PROVE  IInv'
<1> USE BlockAssumption, GcRoundGrows DEF IInv, try_accept_one_committed_block, AtLoopHead, dagVars, mapVars, callVars
<1>1. TypeOK'
    BY BlockAssumption DEF TypeOK, gc_round, GcRoundOf
<1>2. MapsAgree'
    BY DEF TypeOK, MapsAgree
<1>3. InFlight'
    BY DEF TypeOK, MapsAgree, InFlight, AtLoopHead, gc_round
<1>4. SuspendedHistory'
    BY DEF TypeOK, MapsAgree, InFlight, SuspendedHistory, gc_round
<1>5. DagHistory'
    <2> SUFFICES ASSUME NEW c \in dag' \cup to_accept', NEW a \in Ancestors[c]
                 PROVE  \/ a \in dag' \cup to_accept'
                        \/ a \in input'
                        \/ Round[a] <= TargetGcRound
        BY DEF DagHistory, TargetGcRound, gc_round
    <2>1. CASE c = b
        <3>1. a # b
            BY <2>1
        <3>2. a \in dag \cup to_accept \cup input \/ Round[a] <= TargetGcRound
            BY <2>1 DEF InputHistory, IsNextInput
        <3> QED
            BY <3>1, <3>2
    <2>2. CASE c \in dag \cup to_accept
        BY <2>2 DEF TypeOK, DagHistory
    <2> QED
        BY <2>1, <2>2
<1>6. InputHistory'
    BY DEF TypeOK, InFlight, InputHistory, TargetGcRound, gc_round
<1>7. KeysAboveGc'
    BY DEF TypeOK, MapsAgree, InFlight, KeysAboveGc, gc_round
<1> QED
    BY <1>1, <1>2, <1>3, <1>4, <1>5, <1>6, <1>7

\* One turn of the unsuspension loop.
LEMMA UnsuspendIInv ==
    ASSUME IInv, NEW b \in Block, UnsuspendChildren(b)
    PROVE  IInv'
<1> USE BlockAssumption, GcRoundGrows DEF IInv, UnsuspendChildren, AtLoopHead, dagVars, mapVars, callVars
<1>1. TypeOK'
    BY BlockAssumption DEF TypeOK, gc_round, GcRoundOf
<1>2. MapsAgree'
    BY DEF TypeOK, MapsAgree
<1>3. InFlight'
    BY DEF TypeOK, MapsAgree, InFlight, AtLoopHead, gc_round
<1>4. SuspendedHistory'
    BY DEF TypeOK, MapsAgree, InFlight, SuspendedHistory, gc_round
<1>5. DagHistory'
    <2> SUFFICES ASSUME NEW c \in dag' \cup to_accept', NEW a \in Ancestors[c]
                 PROVE  \/ a \in dag' \cup to_accept'
                        \/ call = "committed" /\ a \in input'
                        \/ Round[a] <= TargetGcRound
        BY DEF DagHistory, TargetGcRound, gc_round
    <2>1. CASE c \in dag \cup to_accept
        BY <2>1 DEF TypeOK, DagHistory
    <2>2. CASE c \notin dag \cup to_accept
        <3>1. c \in suspended_blocks /\ waits_for[c] \subseteq {b}
            BY <2>2 DEF TypeOK, MapsAgree
        <3>2. a \in {b} \cup dag \cup to_accept \/ Round[a] <= gc_round
            BY <3>1 DEF TypeOK, SuspendedHistory
        <3>3. b \in dag \cup to_accept \/ Round[b] <= gc_round
            BY DEF TypeOK, InFlight
        <3>4. gc_round <= TargetGcRound /\ gc_round \in Nat /\ TargetGcRound \in Nat
            BY TargetIsAhead
        <3>5. a \in Block /\ Round[a] \in Nat
            BY Zenon, <3>1 DEF TypeOK
        <3> QED
            BY <3>2, <3>3, <3>4, <3>5
    <2> QED
        BY <2>1, <2>2
<1>6. InputHistory'
    BY DEF TypeOK, InFlight, InputHistory, TargetGcRound, gc_round
<1>7. KeysAboveGc'
    BY DEF TypeOK, MapsAgree, InFlight, KeysAboveGc, gc_round
<1> QED
    BY <1>1, <1>2, <1>3, <1>4, <1>5, <1>6, <1>7

\* One turn of the garbage collection loop: the first key is not suspended.
LEMMA GarbageCollectIInv ==
    ASSUME IInv, NEW b \in Block, GarbageCollect(b)
    PROVE  IInv'
<1> USE BlockAssumption, GcRoundGrows DEF IInv, GarbageCollect, AtLoopHead, dagVars, mapVars, callVars
<1>1. TypeOK'
    BY BlockAssumption DEF TypeOK, gc_round, GcRoundOf
<1>2. MapsAgree'
    BY DEF TypeOK, MapsAgree
<1>3. InFlight'
    <2>1. b \notin suspended_blocks
        BY FirstKeyNotSuspended
    <2> QED
        BY <2>1 DEF TypeOK, InFlight, IsFirstKey, gc_round
<1>4. SuspendedHistory'
    BY DEF TypeOK, MapsAgree, InFlight, SuspendedHistory, gc_round
<1>5. DagHistory'
    BY DEF TypeOK, InFlight, SuspendedHistory, DagHistory, InputHistory, TargetGcRound, gc_round
<1>6. InputHistory'
    BY DEF TypeOK, InFlight, InputHistory, TargetGcRound, gc_round
<1>7. KeysAboveGc'
    BY DEF TypeOK, MapsAgree, InFlight, KeysAboveGc, gc_round
<1> QED
    BY <1>1, <1>2, <1>3, <1>4, <1>5, <1>6, <1>7

\* The unsuspended blocks enter the dag.
LEMMA AcceptUnsuspendedIInv ==
    ASSUME IInv, AcceptUnsuspended
    PROVE  IInv'
<1> USE BlockAssumption, GcRoundGrows DEF IInv, AcceptUnsuspended, AtLoopHead, dagVars, mapVars, callVars
<1>1. TypeOK'
    BY BlockAssumption DEF TypeOK, gc_round, GcRoundOf
<1>2. MapsAgree'
    BY DEF TypeOK, MapsAgree
<1>3. InFlight'
    BY DEF TypeOK, MapsAgree, InFlight, AtLoopHead, gc_round
<1>4. SuspendedHistory'
    BY DEF TypeOK, MapsAgree, InFlight, SuspendedHistory, gc_round
<1>5. DagHistory'
    BY DEF TypeOK, InFlight, SuspendedHistory, DagHistory, InputHistory, TargetGcRound, gc_round
<1>6. InputHistory'
    BY DEF TypeOK, InFlight, InputHistory, TargetGcRound, gc_round
<1>7. KeysAboveGc'
    BY DEF TypeOK, MapsAgree, InFlight, KeysAboveGc, gc_round
<1> QED
    BY <1>1, <1>2, <1>3, <1>4, <1>5, <1>6, <1>7

\* The end of try_accept_blocks.
LEMMA ReturnIInv ==
    ASSUME IInv, ReturnAccepted
    PROVE  IInv'
<1> USE BlockAssumption, GcRoundGrows DEF IInv, ReturnAccepted, AtLoopHead, dagVars, mapVars, callVars
<1>1. TypeOK'
    BY BlockAssumption DEF TypeOK, gc_round, GcRoundOf
<1>2. MapsAgree'
    BY DEF TypeOK, MapsAgree
<1>3. InFlight'
    BY DEF TypeOK, MapsAgree, InFlight, AtLoopHead, gc_round
<1>4. SuspendedHistory'
    BY DEF TypeOK, MapsAgree, InFlight, SuspendedHistory, gc_round
<1>5. DagHistory'
    BY DEF TypeOK, InFlight, SuspendedHistory, DagHistory, InputHistory, TargetGcRound, gc_round
<1>6. InputHistory'
    BY DEF TypeOK, InFlight, InputHistory, TargetGcRound, gc_round
<1>7. KeysAboveGc'
    BY DEF TypeOK, MapsAgree, InFlight, KeysAboveGc, gc_round
<1> QED
    BY <1>1, <1>2, <1>3, <1>4, <1>5, <1>6, <1>7

\* The gc round moves to the one the certified commits were closed under.
LEMMA CommitCertifiedIInv ==
    ASSUME IInv, CommitCertified
    PROVE  IInv'
<1> USE BlockAssumption, GcRoundGrows DEF IInv, CommitCertified, AtLoopHead, dagVars, mapVars, callVars
<1>1. TypeOK'
    BY BlockAssumption DEF TypeOK, gc_round, GcRoundOf
<1>2. MapsAgree'
    BY DEF TypeOK, MapsAgree
<1>3. InFlight'
    BY DEF TypeOK, MapsAgree, InFlight, AtLoopHead, gc_round
<1>4. SuspendedHistory'
    <2>1. gc_round <= gc_round' /\ gc_round \in Nat /\ gc_round' \in Nat
        BY TargetIsAhead DEF TargetGcRound, gc_round
    <2> QED
        BY <2>1 DEF TypeOK, SuspendedHistory
<1>5. DagHistory'
    BY DEF TypeOK, InFlight, SuspendedHistory, DagHistory, InputHistory, TargetGcRound, gc_round
<1>6. InputHistory'
    BY DEF TypeOK, InFlight, InputHistory, TargetGcRound, gc_round
<1>7. KeysAboveGc'
    BY DEF TypeOK, MapsAgree, InFlight, KeysAboveGc, gc_round
<1> QED
    BY <1>1, <1>2, <1>3, <1>4, <1>5, <1>6, <1>7

\* The end of garbage collection.
LEMMA GarbageCollectedIInv ==
    ASSUME IInv, GarbageCollected
    PROVE  IInv'
<1> USE BlockAssumption, GcRoundGrows DEF IInv, GarbageCollected, AtLoopHead, dagVars, mapVars, callVars
<1>1. TypeOK'
    BY BlockAssumption DEF TypeOK, gc_round, GcRoundOf
<1>2. MapsAgree'
    BY DEF TypeOK, MapsAgree
<1>3. InFlight'
    BY DEF TypeOK, MapsAgree, InFlight, AtLoopHead, gc_round
<1>4. SuspendedHistory'
    BY DEF TypeOK, MapsAgree, InFlight, SuspendedHistory, gc_round
<1>5. DagHistory'
    BY DEF TypeOK, InFlight, SuspendedHistory, DagHistory, InputHistory, TargetGcRound, gc_round
<1>6. InputHistory'
    BY DEF TypeOK, InFlight, InputHistory, TargetGcRound, gc_round
<1>7. KeysAboveGc'
    BY DEF TypeOK, MapsAgree, InFlight, KeysAboveGc, gc_round
<1> QED
    BY <1>1, <1>2, <1>3, <1>4, <1>5, <1>6, <1>7

\* The calls Core makes start from an idle manager.
LEMMA CallIInv ==
    ASSUME IInv, Call
    PROVE  IInv'
<1> USE BlockAssumption, GcRoundGrows DEF IInv, AtLoopHead, dagVars, mapVars, callVars
<1> Batches \subseteq SUBSET Block
    BY DEF Batches
<1>1. ASSUME NEW batch \in Batches, try_accept_blocks(batch)
      PROVE  IInv'
    BY <1>1 DEF try_accept_blocks, TypeOK, MapsAgree, InFlight, SuspendedHistory, DagHistory,
        InputHistory, KeysAboveGc, TargetGcRound, gc_round
<1>2. ASSUME NEW batch \in Batches, try_find_blocks(batch)
      PROVE  IInv'
    <2> USE <1>2 DEF try_find_blocks
    <2>1. TypeOK' /\ MapsAgree' /\ KeysAboveGc'
        BY DEF TypeOK, MapsAgree, KeysAboveGc, gc_round
    <2>2. InFlight'
        BY DEF TypeOK, InFlight, gc_round
    <2>3. SuspendedHistory' /\ DagHistory' /\ InputHistory'
        BY DEF SuspendedHistory, DagHistory, InputHistory, TargetGcRound, gc_round
    <2> QED
        BY <2>1, <2>2, <2>3
<1>3. ASSUME NEW batch \in Batches, NEW leader \in batch,
             try_accept_committed_blocks(batch, leader)
      PROVE  IInv'
    <2> USE <1>3 DEF try_accept_committed_blocks
    <2>1. TypeOK' /\ MapsAgree' /\ InFlight' /\ KeysAboveGc'
        BY DEF TypeOK, MapsAgree, InFlight, KeysAboveGc, gc_round
    <2>2. SuspendedHistory'
        BY DEF SuspendedHistory, gc_round
    <2>3. TargetGcRound' = GcRoundOf(Round[leader]) /\ TargetGcRound' \in Nat
        BY DEF TargetGcRound
    <2>4. InputHistory'
        BY <2>3 DEF InputHistory
    <2>5. TargetGcRound = gc_round /\ gc_round <= TargetGcRound'
        BY <2>3 DEF TargetGcRound, gc_round, TypeOK
    <2>6. DagHistory'
        BY <2>3, <2>5, TargetIsAhead DEF DagHistory, TypeOK
    <2> QED
        BY <2>1, <2>2, <2>4, <2>6
<1>4. ASSUME NEW leader \in Block, CommitLocal(leader)
      PROVE  IInv'
    <2> USE <1>4 DEF CommitLocal
    <2>1. TypeOK' /\ MapsAgree' /\ InFlight' /\ KeysAboveGc'
        BY BlockAssumption DEF TypeOK, MapsAgree, InFlight, KeysAboveGc, gc_round, GcRoundOf
    <2>2. gc_round <= gc_round' /\ gc_round \in Nat /\ gc_round' \in Nat
        BY DEF TypeOK, gc_round
    <2>3. TargetGcRound = gc_round /\ TargetGcRound' = gc_round'
        BY DEF TargetGcRound, gc_round
    <2>4. SuspendedHistory' /\ DagHistory' /\ InputHistory'
        BY <2>2, <2>3 DEF TypeOK, SuspendedHistory, DagHistory, InputHistory
    <2> QED
        BY <2>1, <2>4
<1> QED
    BY <1>1, <1>2, <1>3, <1>4 DEF Call

\* IInv is inductive.
LEMMA NextIInv == IInv /\ [Next]_vars => IInv'
<1> SUFFICES ASSUME IInv, [Next]_vars PROVE IInv'
    OBVIOUS
<1>1. CASE Step
    BY <1>1, IgnoreIInv, SuspendIInv, AcceptIInv, IgnoreCommittedIInv, AcceptCommittedIInv,
       UnsuspendIInv, GarbageCollectIInv, AcceptUnsuspendedIInv, ReturnIInv,
       CommitCertifiedIInv, GarbageCollectedIInv DEF Step
<1>2. CASE Call
    BY <1>2, CallIInv
<1>3. CASE UNCHANGED vars
    BY <1>3 DEF vars, IInv, TypeOK, MapsAgree, InFlight, SuspendedHistory, DagHistory,
       InputHistory, KeysAboveGc, AtLoopHead, TargetGcRound, gc_round
<1> QED
    BY <1>1, <1>2, <1>3 DEF Next

\* What the inductive invariant says between calls.
LEMMA IInvImplies ==
    ASSUME IInv
    PROVE  AssertionsHold /\ CausallyComplete /\ SuspendedExactly /\ MissingExactly
<1> USE DEF IInv
<1>1. AssertionsHold
    BY FirstKeyNotSuspended DEF AssertionsHold, TypeOK, MapsAgree
<1>2. CausallyComplete
    BY DEF CausallyComplete, DagHistory, InFlight, AtLoopHead, TargetGcRound
<1>3. SuspendedExactly
    <2> SUFFICES ASSUME call = "idle", NEW b \in suspended_blocks
                 PROVE  /\ b \notin dag
                        /\ waits_for[b] = {a \in Ancestors[b] : a \notin dag /\ Round[a] > gc_round}
                        /\ waits_for[b] # {}
        BY DEF SuspendedExactly
    <2>1. b \in Block /\ gc_round \in Nat
        BY GcRoundGrows DEF TypeOK, gc_round
    <2>2. to_process = {} /\ to_accept = {}
        BY DEF InFlight, AtLoopHead
    <2>3. ASSUME NEW a \in waits_for[b]
          PROVE  a \in Ancestors[b] /\ a \notin dag /\ Round[a] > gc_round
        <3>1. a \in Ancestors[b] /\ a \in Block
            BY <2>1, BlockAssumption DEF SuspendedHistory
        <3>2. a \in missing_keys
            BY <2>1, <3>1 DEF MapsAgree
        <3> QED
            BY <2>2, <3>1, <3>2 DEF InFlight, KeysAboveGc
    <2>4. ASSUME NEW a \in Ancestors[b], a \notin dag, Round[a] > gc_round
          PROVE  a \in waits_for[b]
        BY <2>1, <2>2, <2>4, BlockAssumption DEF SuspendedHistory
    <2> QED
        BY <2>1, <2>3, <2>4 DEF InFlight, MapsAgree
<1>4. MissingExactly
    BY DEF MissingExactly, TypeOK, MapsAgree, InFlight, AtLoopHead, KeysAboveGc
<1> QED
    BY <1>1, <1>2, <1>3, <1>4

\* The inductive invariant holds in every reachable state.
THEOREM BlockManagerInvariant == Spec => []IInv
BY InitIInv, NextIInv, PTL DEF Spec

\* The state of the block manager always has its type.
THEOREM BlockManagerTyped == Spec => []TypeOK
<1>1. IInv => TypeOK
    BY DEF IInv
<1> QED
    BY <1>1, BlockManagerInvariant, PTL

\* The assertions of try_unsuspend_block and of the garbage collection loop
\* never fail, for any DAG and any order of calls.
THEOREM BlockManagerAssertions == Spec => []AssertionsHold
BY IInvImplies, BlockManagerInvariant, PTL

\* Accepted blocks are causally complete above the gc round between calls.
THEOREM AcceptedIsCausallyComplete == Spec => []CausallyComplete
BY IInvImplies, BlockManagerInvariant, PTL

\* Suspended blocks wait for exactly what is missing, and what is fetched is the
\* keys of missing_ancestors that are not suspended.
THEOREM BookkeepingIsExact == Spec => []MapsAreExact
<1>1. IInv => MapsAreExact
    BY IInvImplies DEF MapsAreExact
<1> QED
    BY <1>1, BlockManagerInvariant, PTL
=============================================================================
