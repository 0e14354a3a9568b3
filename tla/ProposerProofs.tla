--------------------------- MODULE ProposerProofs ---------------------------
(***************************************************************************)
(* Proofs about Proposer, for any number of rounds, crashes and contents:  *)
(* an authority never broadcasts two blocks of a round, and proposes       *)
(* upwards.                                                                *)
(***************************************************************************)
EXTENDS Proposer, TLAPS

\* The core of the argument: what was ever broadcast is not newer than what is
\* stored, and the block in memory is the stored one except between
\* try_new_block and its flush, when it is newer.
Stored ==
    /\ clock \in Nat
    /\ last_proposed.round \in Nat
    /\ stored.round \in Nat
    /\ stored.round <= clock
    /\ last_proposed.round <= clock
    /\ step /= "created" => last_proposed = stored
    /\ step = "created" => stored.round < last_proposed.round
    /\ \A b \in proposed :
          /\ b.round \in Nat
          /\ b.round <= stored.round
          /\ b.round = stored.round => b = stored

StoredInv == Stored /\ NoEquivocation

\* The initial state has nothing but the genesis block.
LEMMA InitStored == Init => StoredInv
  BY BoundsAssumption DEF Init, StoredInv, Stored, NoEquivocation, Genesis

\* Steps that touch neither blocks nor the clock preserve the invariant as long
\* as the core thread does not move to or from "created".
LEMMA OtherSteps ==
  ASSUME StoredInv,
         UNCHANGED <<clock, last_proposed, stored, proposed>>,
         (step' /= "created" /\ step /= "created") \/ step' = step
  PROVE  StoredInv'
  BY DEF StoredInv, Stored, NoEquivocation

\* Every step preserves it.
LEMMA NextStored == StoredInv /\ [Next]_vars => StoredInv'
<1> SUFFICES ASSUME StoredInv, [Next]_vars PROVE StoredInv'
  OBVIOUS
<1> USE DEF gateVars, timerVars, coreVars
<1>1. CASE try_new_block
  <2>1. PICK c \in Content : last_proposed' = [round |-> clock, content |-> c]
    BY <1>1 DEF try_new_block
  <2>2. /\ clock > last_proposed.round
        /\ step /= "created" /\ step' = "created"
        /\ UNCHANGED <<clock, stored, proposed>>
    BY <1>1 DEF try_new_block, CanPropose, HigherRound
  <2> QED BY <2>1, <2>2 DEF StoredInv, Stored, NoEquivocation
<1>2. CASE ProposeNothing
  BY <1>2, OtherSteps DEF ProposeNothing
<1>3. CASE flush
  BY <1>3 DEF flush, StoredInv, Stored, NoEquivocation
<1>4. CASE Broadcast
  <2>1. /\ proposed' = proposed \cup {last_proposed}
        /\ step = "stored" /\ step' = "idle"
        /\ UNCHANGED <<last_proposed, stored>>
    BY <1>4 DEF Broadcast
  <2>2. clock' \in Nat /\ clock' >= clock
    <3>1. PICK c \in {clock, clock + 1} \cap 1..MaxRound : clock' = c
      BY <1>4 DEF Broadcast
    <3> QED BY <3>1 DEF StoredInv, Stored
  <2> QED BY <2>1, <2>2 DEF StoredInv, Stored, NoEquivocation
<1>5. ASSUME NEW c \in 1..MaxRound, add_blocks(c) PROVE StoredInv'
  BY <1>5, BoundsAssumption DEF add_blocks, StoredInv, Stored, NoEquivocation
<1>6. CASE new_block
  BY <1>6, OtherSteps DEF new_block
<1>7. CASE set_subscriber_exists
  BY <1>7, OtherSteps DEF set_subscriber_exists, SetGates
<1>8. CASE set_propagation_delay
  BY <1>8, OtherSteps DEF set_propagation_delay, SetGates
<1>9. CASE recover
  <2>1. /\ step = "recover" /\ step' \in {"force", "idle"}
        /\ UNCHANGED <<clock, last_proposed, stored>>
        /\ proposed' \in {proposed, proposed \cup ({last_proposed} \ {Genesis})}
    BY Zenon, <1>9 DEF recover
  <2> QED BY <2>1 DEF StoredInv, Stored, NoEquivocation
<1>10. CASE MinTimeout \/ MaxTimeout \/ NewRound \/ Tick
  BY <1>10, OtherSteps DEF MinTimeout, MaxTimeout, NewRound, Tick
<1>11. CASE MinDelayPasses
  BY <1>11, OtherSteps DEF MinDelayPasses
<1>12. CASE Crash
  <2>1. PICK c \in 1..clock : c >= stored.round /\ clock' = c
    BY <1>12 DEF Crash
  <2>2. /\ last_proposed' = stored /\ step' = "recover"
        /\ UNCHANGED <<stored, proposed>>
    BY <1>12 DEF Crash
  <2> QED BY <2>1, <2>2 DEF StoredInv, Stored, NoEquivocation
<1>13. CASE UNCHANGED vars
  BY <1>13, OtherSteps DEF vars
<1> QED
  BY <1>1, <1>2, <1>3, <1>4, <1>5, <1>6, <1>7, <1>8, <1>9, <1>10, <1>11, <1>12, <1>13
     DEF Next

\* StoredInv is an invariant.
LEMMA StoredInvariance == Spec => []StoredInv
  BY InitStored, NextStored, PTL DEF Spec

\* An authority never broadcasts two different blocks of a round, wherever it
\* crashes in try_propose and however often.
THEOREM NeverEquivocates == Spec => []NoEquivocation
<1>1. StoredInv => NoEquivocation
  BY DEF StoredInv
<1> QED BY <1>1, StoredInvariance, PTL

\* A block that try_new_block makes is newer than all that were broadcast.
THEOREM AlwaysProposesUpwards == Spec => ProposesUpwards
<1>1. StoredInv /\ [Next]_vars =>
        [step' = "created" /\ step /= "created"
            => \A b \in proposed : b.round < last_proposed'.round]_vars
  <2> SUFFICES ASSUME StoredInv, Next, step' = "created", step /= "created"
               PROVE  \A b \in proposed : b.round < last_proposed'.round
    OBVIOUS
  <2>1. try_new_block
    BY Zenon DEF Next, try_new_block, ProposeNothing, flush, Broadcast, add_blocks, new_block,
           set_subscriber_exists, set_propagation_delay, SetGates, recover, MinTimeout,
           MaxTimeout, NewRound, Tick, MinDelayPasses, Crash, coreVars
  <2>2. last_proposed'.round = clock /\ clock > last_proposed.round
    BY <2>1 DEF try_new_block, CanPropose, HigherRound
  <2> QED BY <2>2 DEF StoredInv, Stored
<1> QED BY <1>1, StoredInvariance, PTL DEF Spec, ProposesUpwards
=============================================================================
