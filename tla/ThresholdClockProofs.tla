------------------------- MODULE ThresholdClockProofs -------------------------
(***************************************************************************)
(* The clock is a function of the blocks it saw, and always has a quorum   *)
(* behind it, for every committee in which no authority is a quorum of its *)
(* own.                                                                    *)
(***************************************************************************)
EXTENDS ThresholdClock, TLAPS

\* What the aggregator holds: the authors of the clock's round, short of a quorum,
\* nothing above that round, and a reason for the clock to be where it is.
ClockInv ==
    /\ votes = AuthorsAt(added, round)
    /\ votes \notin Quorum
    /\ \A b \in added : b.round <= round
    /\ \/ round = 1
       \/ \E b \in added : b.round = round
       \/ AuthorsAt(added, round - 1) \in Quorum

IInv == TypeOK /\ ClockInv

\* The Block records have the fields the clock compares.
LEMMA BlockFields ==
    ASSUME NEW b \in Block
    PROVE  b.round \in 1..MaxRound /\ b.author \in Authority
BY DEF Block

\* A block of another round does not change who signed in round r.
LEMMA AuthorsElsewhere ==
    ASSUME NEW S, NEW b, NEW r, b.round # r
    PROVE  AuthorsAt(S \cup {b}, r) = AuthorsAt(S, r)
BY DEF AuthorsAt

\* A block of round r adds its author to that round.
LEMMA AuthorsHere ==
    ASSUME NEW S, NEW b
    PROVE  AuthorsAt(S \cup {b}, b.round) = AuthorsAt(S, b.round) \cup {b.author}
BY DEF AuthorsAt

\* One more block never takes a quorum from a round.
LEMMA QuorumKept ==
    ASSUME NEW S \in SUBSET Block, NEW b \in Block, NEW r,
           AuthorsAt(S, r) \in Quorum
    PROVE  AuthorsAt(S \cup {b}, r) \in Quorum
<1>1. AuthorsAt(S, r) \subseteq AuthorsAt(S \cup {b}, r)
  BY DEF AuthorsAt
<1>2. AuthorsAt(S \cup {b}, r) \subseteq Authority
  BY BlockFields DEF AuthorsAt
<1> QED
  BY Zenon, <1>1, <1>2, ClockAssumption

\* add_block keeps the invariant whatever block comes next.
LEMMA AddBlockPreserves ==
    ASSUME NoSingleQuorum, IInv, NEW b \in Block, add_block(b)
    PROVE  /\ ClockInv'
           /\ round' \in 1..(MaxRound + 1)
           /\ votes' \in SUBSET Authority
           /\ added' \in SUBSET Block
<1>0. /\ b.round \in 1..MaxRound /\ b.author \in Authority
      /\ round \in 1..(MaxRound + 1) /\ MaxRound \in Nat
      /\ added \in SUBSET Block /\ votes \in SUBSET Authority
      /\ added' = added \cup {b}
      /\ \A c \in added : c.round \in 1..MaxRound
  BY BlockFields, ClockAssumption DEF IInv, TypeOK, add_block
<1>1. CASE b.round < round
  <2>1. round' = round /\ votes' = votes
    BY <1>0, <1>1 DEF add_block
  <2>2. AuthorsAt(added', round') = AuthorsAt(added, round)
    BY <1>0, <1>1, <2>1, AuthorsElsewhere
  <2>3. \A c \in added' : c.round <= round'
    BY <1>0, <1>1, <2>1 DEF IInv, ClockInv
  <2>4. \/ round' = 1
        \/ \E c \in added' : c.round = round'
        \/ AuthorsAt(added', round' - 1) \in Quorum
    BY <1>0, <2>1, QuorumKept DEF IInv, ClockInv
  <2> QED
    BY <1>0, <2>1, <2>2, <2>3, <2>4 DEF IInv, ClockInv
<1>2. CASE b.round > round
  <2>1. round' = b.round /\ votes' = {b.author}
    BY <1>0, <1>2 DEF add_block
  <2>2. AuthorsAt(added, b.round) = {}
    BY <1>0, <1>2 DEF IInv, ClockInv, AuthorsAt
  <2>3. AuthorsAt(added', round') = {b.author}
    <3>1. AuthorsAt(added \cup {b}, b.round) = AuthorsAt(added, b.round) \cup {b.author}
      BY Zenon, AuthorsHere
    <3>2. AuthorsAt(added', round') = AuthorsAt(added \cup {b}, b.round)
      BY <1>0, <2>1
    <3> QED
      BY <2>2, <3>1, <3>2
  <2>4. {b.author} \notin Quorum
    BY <1>0 DEF NoSingleQuorum
  <2>5. \A c \in added' : c.round <= round'
    BY <1>0, <1>2, <2>1 DEF IInv, ClockInv
  <2>6. \E c \in added' : c.round = round'
    BY <1>0, <2>1
  <2>7. ClockInv'
    BY <2>1, <2>3, <2>4, <2>5, <2>6 DEF ClockInv
  <2> QED
    BY <1>0, <2>1, <2>7
<1>3. CASE b.round = round /\ votes \cup {b.author} \in Quorum
  <2>1. round' = b.round + 1 /\ votes' = {}
    BY <1>0, <1>3 DEF add_block
  <2>2. \A c \in added' : c.round <= b.round
    BY <1>0, <1>3 DEF IInv, ClockInv
  <2>3. AuthorsAt(added', round') = {}
    BY <1>0, <2>1, <2>2 DEF AuthorsAt
  <2>4. AuthorsAt(added', b.round) \in Quorum
    BY Zenon, <1>0, <1>3, AuthorsHere DEF IInv, ClockInv
  <2>5. AuthorsAt(added', round' - 1) \in Quorum
    <3>1. round' - 1 = b.round
      BY <1>0, <2>1
    <3> QED
      BY <2>4, <3>1
  <2>6. \A c \in added' : c.round <= round'
    BY <1>0, <2>1, <2>2
  <2>7. ClockInv'
    BY <2>1, <2>3, <2>5, <2>6, ClockAssumption DEF ClockInv
  <2> QED
    BY <1>0, <2>1, <2>7
<1>4. CASE b.round = round /\ votes \cup {b.author} \notin Quorum
  <2>1. round' = round /\ votes' = votes \cup {b.author}
    BY <1>0, <1>4 DEF add_block
  <2>2. AuthorsAt(added', round') = votes'
    BY Zenon, <1>0, <1>4, <2>1, AuthorsHere DEF IInv, ClockInv
  <2>3. \A c \in added' : c.round <= round'
    BY <1>0, <1>4, <2>1 DEF IInv, ClockInv
  <2>4. \E c \in added' : c.round = round'
    BY <1>0, <1>4, <2>1
  <2> QED
    BY Zenon, <1>0, <1>4, <2>1, <2>2, <2>3, <2>4 DEF ClockInv
<1> QED
  BY <1>0, <1>1, <1>2, <1>3, <1>4

\* The initial clock, with nothing seen, satisfies the invariant.
LEMMA InitEstablishes == Init => IInv
BY ClockAssumption DEF Init, IInv, TypeOK, ClockInv, AuthorsAt

\* Every step keeps the invariant; a restart starts the clock from nothing again.
LEMMA NextPreserves ==
    ASSUME NoSingleQuorum, IInv, [Next]_vars
    PROVE  IInv'
<1>1. ASSUME NEW b \in Block, AcceptBlock(b)
      PROVE  IInv'
  BY <1>1, AddBlockPreserves DEF AcceptBlock, IInv, TypeOK
<1>2. ASSUME NEW g \in 1..MaxRound, MoveGcRound(g)
      PROVE  IInv'
  BY <1>2 DEF MoveGcRound, IInv, TypeOK, ClockInv
<1>3. CASE flush
  BY <1>3 DEF flush, IInv, TypeOK, ClockInv
<1>4. CASE Restart
  BY <1>4, ClockAssumption DEF Restart, IInv, TypeOK, ClockInv, AuthorsAt
<1>5. ASSUME NEW b \in Block, RecoverBlock(b)
      PROVE  IInv'
  BY <1>5, AddBlockPreserves DEF RecoverBlock, IInv, TypeOK
<1>6. CASE UNCHANGED vars
  BY <1>6 DEF vars, IInv, TypeOK, ClockInv
<1> QED
  BY <1>1, <1>2, <1>3, <1>4, <1>5, <1>6 DEF Next

\* The invariant determines the clock's round from the blocks it saw.
LEMMA InvariantIsExact ==
    ASSUME IInv
    PROVE  IsClockRound(added, round)
<1>0. /\ round \in 1..(MaxRound + 1) /\ MaxRound \in Nat
      /\ \A c \in added : c.round \in 1..MaxRound
  BY BlockFields, ClockAssumption DEF IInv, TypeOK
<1>1. CASE added = {}
  <2>1. AuthorsAt(added, round - 1) = {}
    BY <1>1 DEF AuthorsAt
  <2>2. round = 1
    BY <1>1, <2>1, ClockAssumption DEF IInv, ClockInv
  <2> QED
    BY <1>1, <2>2 DEF IsClockRound
<1>2. CASE \E b \in added : b.round = round
  <2>1. PICK b \in added : b.round = round
    BY <1>2
  <2>2. AuthorsAt(added, b.round) \notin Quorum
    BY <2>1 DEF IInv, ClockInv
  <2> QED
    BY <2>1, <2>2 DEF IInv, ClockInv, IsClockRound
<1>3. CASE added # {} /\ ~ (\E b \in added : b.round = round)
  <2>1. \A c \in added : c.round <= round - 1
    BY <1>0, <1>3 DEF IInv, ClockInv
  <2>2. round # 1
    BY <1>0, <1>3, <2>1
  <2>3. AuthorsAt(added, round - 1) \in Quorum
    BY <1>3, <2>2 DEF IInv, ClockInv
  <2>4. AuthorsAt(added, round - 1) # {}
    BY <2>3, ClockAssumption
  <2>5. PICK b \in added : b.round = round - 1
    BY <2>4 DEF AuthorsAt
  <2>6. round = b.round + 1
    BY <1>0, <2>5
  <2> QED
    BY <2>1, <2>3, <2>5, <2>6 DEF IsClockRound
<1> QED
  BY <1>1, <1>2, <1>3

\* The inductive invariant holds in every reachable state.
THEOREM ClockInvariant ==
    ASSUME NoSingleQuorum
    PROVE  Spec => []IInv
<1>1. Init => IInv
  BY InitEstablishes
<1>2. IInv /\ [Next]_vars => IInv'
  BY NextPreserves
<1> QED
  BY <1>1, <1>2, PTL DEF Spec

\* ThresholdClock and DagState's part keep their types.
THEOREM ClockTyped ==
    ASSUME NoSingleQuorum
    PROVE  Spec => []TypeOK
<1>1. IInv => TypeOK
  BY DEF IInv
<1> QED
  BY <1>1, ClockInvariant, PTL

\* add_block shows the round its blocks determine, in whatever order a run or a
\* restart feeds them.
THEOREM ClockIsAFunctionOfBlocks ==
    ASSUME NoSingleQuorum
    PROVE  Spec => []ClockIsExact
<1>1. IInv => ClockIsExact
  BY InvariantIsExact DEF ClockIsExact
<1> QED
  BY <1>1, ClockInvariant, PTL

-----------------------------------------------------------------------------
(* The quorum behind the clock                                             *)

\* Blocks more than a round above g have a quorum of parents, and the DAG reaches
\* that far if g is the gc round of a commit.
IsDag(S, g) ==
    /\ \A b \in S : b.round > g + 1 => AuthorsAt(S, b.round - 1) \in Quorum
    /\ g > 0 => \E b \in S : g + 2 <= b.round

\* Storage holds a DAG, and so does DagState, counting what recovery has still to
\* add; nothing that is stored is lost above the gc round.
DagInv ==
    /\ IsDag(storage.blocks, storage.gc_round)
    /\ IsDag(added \cup recovering, gc_round)
    /\ storage.gc_round <= gc_round
    /\ \A b \in storage.blocks : b.round > gc_round => b \in added \cup recovering

\* A larger set keeps the quorums of a smaller one.
LEMMA QuorumGrows ==
    ASSUME NEW S \in SUBSET Block, NEW T \in SUBSET Block, NEW r,
           \A b \in S : b.round = r => b \in T,
           AuthorsAt(S, r) \in Quorum
    PROVE  AuthorsAt(T, r) \in Quorum
<1>1. AuthorsAt(S, r) \subseteq AuthorsAt(T, r)
  BY DEF AuthorsAt
<1>2. AuthorsAt(T, r) \subseteq Authority
  BY BlockFields DEF AuthorsAt
<1> QED
  BY <1>1, <1>2, ClockAssumption

\* A part of a DAG that has all its blocks above g is a DAG above g.
LEMMA PartOfDag ==
    ASSUME NEW S \in SUBSET Block, NEW T \in SUBSET Block, NEW g \in Nat,
           IsDag(S, g), \A b \in S \cup T : b.round > g => (b \in S <=> b \in T)
    PROVE  IsDag(T, g)
<1>0. \A b \in S \cup T : b.round \in Nat
  BY BlockFields
<1>1. ASSUME NEW b \in T, b.round > g + 1
      PROVE  AuthorsAt(T, b.round - 1) \in Quorum
  <2>1. b \in S /\ b.round - 1 > g /\ AuthorsAt(S, b.round - 1) \in Quorum
    BY <1>0, <1>1 DEF IsDag
  <2>2. \A c \in S : c.round = b.round - 1 => c \in T
    BY <2>1
  <2> QED
    BY <2>1, <2>2, QuorumGrows
<1>2. ASSUME g > 0 PROVE \E b \in T : g + 2 <= b.round
  BY <1>0, <1>2 DEF IsDag
<1> QED
  BY <1>1, <1>2 DEF IsDag

\* Every step keeps the DAGs: flush merges two that agree above the gc round, and
\* recovery evicts nothing above it.
LEMMA NextPreservesDag ==
    ASSUME TypeOK, DagInv, [Next]_vars
    PROVE  DagInv'
<1>0. /\ added \in SUBSET Block /\ recovering \in SUBSET Block /\ storage.blocks \in SUBSET Block
      /\ gc_round \in Nat /\ storage.gc_round \in Nat /\ MaxRound \in Nat
  BY ClockAssumption DEF TypeOK
<1>1. ASSUME NEW b \in Block, AcceptBlock(b)
      PROVE  DagInv'
  <2>1. /\ recovering = {} /\ recovering' = {} /\ added' = added \cup {b}
        /\ UNCHANGED <<gc_round, storage>>
        /\ b.round = gc_round + 1 \/ AuthorsAt(added, b.round - 1) \in Quorum
    BY <1>1 DEF AcceptBlock, add_block
  <2>2. ASSUME NEW c \in added', c.round > gc_round + 1
        PROVE  AuthorsAt(added', c.round - 1) \in Quorum
    <3>1. AuthorsAt(added, c.round - 1) \in Quorum
      <4>1. CASE c = b
        BY <1>0, <2>1, <2>2, <4>1, BlockFields
      <4>2. CASE c \in added
        <5>1. added \cup recovering = added
          BY <2>1
        <5> QED
          BY Zenon, <2>2, <4>2, <5>1 DEF DagInv, IsDag
      <4> QED
        BY <2>1, <4>1, <4>2
    <3> QED
      BY <1>0, <2>1, <3>1, QuorumKept
  <2>3. added' \cup recovering' = added' /\ added \cup recovering = added
    BY <2>1
  <2>4. IsDag(added' \cup recovering', gc_round')
    BY Zenon, <2>1, <2>2, <2>3 DEF DagInv, IsDag
  <2> QED
    BY <2>1, <2>4 DEF DagInv
<1>2. ASSUME NEW g \in 1..MaxRound, MoveGcRound(g)
      PROVE  DagInv'
  <2>1. /\ gc_round' = g /\ gc_round < g
        /\ \E b \in added : g + 2 <= b.round
        /\ UNCHANGED <<added, recovering, storage>>
    BY <1>2 DEF MoveGcRound
  <2>2. \A b \in added \cup recovering \cup storage.blocks : b.round \in Nat
    BY <1>0, BlockFields
  <2>3. IsDag(added \cup recovering, g)
    <3>1. \A b \in added \cup recovering : b.round > g + 1 => b.round > gc_round + 1
      BY <1>0, <2>1, <2>2
    <3>2. \A b \in added \cup recovering :
            b.round > g + 1 => AuthorsAt(added \cup recovering, b.round - 1) \in Quorum
      BY <3>1 DEF DagInv, IsDag
    <3> QED
      BY <2>1, <3>2 DEF IsDag
  <2> QED
    BY <1>0, <2>1, <2>2, <2>3 DEF DagInv
<1>3. CASE flush
  <2>1. /\ storage' = [blocks |-> storage.blocks \cup added, gc_round |-> gc_round]
        /\ recovering = {} /\ UNCHANGED <<added, recovering, gc_round>>
    BY <1>3 DEF flush
  <2>2. storage'.blocks = storage.blocks \cup added /\ storage'.gc_round = gc_round
    BY <2>1
  <2>3. \A b \in added \cup (storage.blocks \cup added) :
          b.round > gc_round => (b \in added <=> b \in storage.blocks \cup added)
    BY <2>1 DEF DagInv
  <2>4. IsDag(added, gc_round)
    <3>1. added \cup recovering = added
      BY <2>1
    <3> QED
      BY <3>1 DEF DagInv
  <2>5. IsDag(storage.blocks \cup added, gc_round)
    BY <1>0, <2>3, <2>4, PartOfDag
  <2> QED
    BY <1>0, <2>1, <2>2, <2>5 DEF DagInv
<1>4. CASE Restart
  <2>1. /\ recovering' = {b \in storage.blocks : ~IsEvicted(b)}
        /\ added' = {} /\ gc_round' = storage.gc_round /\ storage' = storage
    BY <1>4 DEF Restart
  <2>2. \A b \in storage.blocks : b.round > storage.gc_round => b \in recovering'
    <3>1. \A b \in storage.blocks : b.round \in Nat
      BY <1>0, BlockFields
    <3> QED
      BY <1>0, <2>1, <3>1 DEF IsEvicted
  <2>3. recovering' \in SUBSET Block /\ recovering' \subseteq storage.blocks
    BY <1>0, <2>1
  <2>4. IsDag(recovering', storage.gc_round)
    BY <1>0, <2>2, <2>3, PartOfDag DEF DagInv
  <2>5. added' \cup recovering' = recovering'
    BY <2>1
  <2> QED
    BY <1>0, <2>1, <2>2, <2>4, <2>5 DEF DagInv
<1>5. ASSUME NEW b \in Block, RecoverBlock(b)
      PROVE  DagInv'
  <2>1. added' \cup recovering' = added \cup recovering
    BY <1>5 DEF RecoverBlock, add_block
  <2> QED
    BY Zenon, <1>5, <2>1 DEF DagInv, RecoverBlock
<1>6. CASE UNCHANGED vars
  BY <1>6 DEF vars, DagInv
<1> QED
  BY <1>1, <1>2, <1>3, <1>4, <1>5, <1>6 DEF Next

\* Outside recovery, a block proposed at the clock's round has a quorum of parents,
\* also when blocks above a gap were accepted, the gc round moved, and storage was
\* read back only in part.
THEOREM ClockHasQuorumBehind ==
    ASSUME NoSingleQuorum
    PROVE  Spec => []QuorumBehindClock
<1>1. Init => DagInv
  BY DEF Init, DagInv, IsDag
<1>2. IInv /\ DagInv /\ [Next]_vars => DagInv'
  BY NextPreservesDag DEF IInv
<1>3. ASSUME IInv, DagInv PROVE QuorumBehindClock
  <2>1. SUFFICES ASSUME recovering = {}, round > 1, NEW b \in added, b.round = round
                 PROVE  AuthorsAt(added, round - 1) \in Quorum
    BY <1>3 DEF IInv, ClockInv, TypeOK, QuorumBehindClock
  <2>2. gc_round \in Nat /\ round \in Nat /\ \A c \in added : c.round \in Nat /\ c.round <= round
    BY <1>3, BlockFields, ClockAssumption DEF IInv, TypeOK, ClockInv
  <2>3. IsDag(added, gc_round)
    <3>1. added \cup recovering = added
      BY <2>1
    <3> QED
      BY <1>3, <3>1 DEF DagInv
  <2>4. round > gc_round + 1
    BY <2>1, <2>2, <2>3 DEF IsDag
  <2> QED
    BY <2>1, <2>3, <2>4 DEF IsDag
<1> QED
  BY <1>1, <1>2, <1>3, ClockInvariant, PTL DEF Spec
=============================================================================
