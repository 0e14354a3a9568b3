-------------------------- MODULE CommitStoreProofs --------------------------
(***************************************************************************)
(* Proofs about CommitStore, for every DAG, every agreed sequence of       *)
(* leaders, every gc depth and every batch size: whatever part of the DAG  *)
(* is there, whichever thread flushes when, and wherever the process       *)
(* stops, the linearizer collects the sub-dags everyone else collects, and *)
(* storage always suffices to go on from.                                  *)
(***************************************************************************)
EXTENDS CommitStore, WellFoundedInduction, TLAPS

-----------------------------------------------------------------------------
(* The inductive invariant                                                 *)

\* A block that lacks an ancestor lacks it below a gc round: that of commit n, or
\* that of the commit before the block's own.
Complete(blocks, n) ==
    \A b \in blocks : \A a \in Ancestors[b] \ blocks :
        \/ Round[a] <= GcRoundAfter(n)
        \/ \E i \in DOMAIN SubDags : b \in SubDags[i] /\ Round[a] <= GcRoundAfter(i - 1)

\* The commits that were made are the agreed ones, and their blocks are there.
CommitsInv ==
    /\ \A i \in 1..Len(commits) : commits[i] = SubDags[i] /\ SubDags[i] \subseteq dag
    /\ Complete(dag, Len(commits))

\* So are the stored ones; storage is behind memory.
StorageInv ==
    /\ storage.blocks \subseteq dag
    /\ Len(storage.commits) <= Len(commits)
    /\ \A i \in 1..Len(storage.commits) :
          storage.commits[i] = SubDags[i] /\ SubDags[i] \subseteq storage.blocks
    /\ Complete(storage.blocks, Len(storage.commits))

InCommits(b) == \E i \in 1..Len(commits) : b \in SubDags[i]

\* Above the gc round the `committed` flags are exact.
FlagsInv ==
    \A b \in Block : Round[b] > gc_round => (b \in committed <=> b \in sub_dag \/ InCommits(b))

\* Where the core thread is in its call.
CallInv ==
    /\ call # "accept" => input = {}
    /\ call # "linearize" => buffer = {} /\ sub_dag = {}
    /\ call # "idle" => Len(commits) <= target
    /\ call \in {"accept", "linearize"} => Len(commits) < target
    /\ call = "accept" =>
          /\ \A i \in (Len(commits) + 1)..target : SubDags[i] \subseteq dag \cup input
          /\ \A b \in input : \E i \in (Len(commits) + 1)..target : b \in SubDags[i]
    /\ call \in {"commit", "linearize"} =>
          \A i \in (Len(commits) + 1)..target : Leaders[i] \in dag

\* The search of linearize_sub_dag: what it collected belongs to the sub-dag, and
\* only blocks in the buffer have ancestors it has not seen.
SearchInv ==
    call = "linearize" =>
        /\ buffer \subseteq sub_dag
        /\ sub_dag \subseteq dag
        /\ sub_dag \subseteq SubDags[Len(commits) + 1]
        /\ Leaders[Len(commits) + 1] \in sub_dag
        /\ \A x \in sub_dag \ buffer : \A a \in Ancestors[x] :
              Round[a] > gc_round => a \in committed

\* Delivery is behind finalization, which is behind storage.
DeliveryInv ==
    /\ sent <= Len(commits)
    /\ delivered <= finalized /\ finalized <= Len(storage.commits)

IInv == /\ TypeOK /\ CommitsInv /\ StorageInv /\ FlagsInv /\ CallInv /\ SearchInv /\ DeliveryInv

-----------------------------------------------------------------------------
(* The DAG and the agreed sub-dags                                         *)

\* A set of natural numbers has a least element.
LEMMA LeastNumber ==
    ASSUME NEW T \in SUBSET Nat, T # {}
    PROVE  \E x \in T : \A y \in T : x <= y
<1> DEFINE R == OpToRel(<, Nat)
<1>1. \E x \in T : \A y \in T : ~ (<<y, x>> \in R)
    <2>1. IsWellFoundedOn(R, Nat)
        BY Zenon, NatLessThanWellFounded
    <2> HIDE DEF R
    <2> QED BY Zenon, <2>1, WFMin
<1>2. \A x, y \in Nat : <<y, x>> \in R <=> y < x
    BY DEF OpToRel
<1>3. PICK x \in T : \A y \in T : ~ (<<y, x>> \in R)
    BY Zenon, <1>1
<1> HIDE DEF R
<1>4. ASSUME NEW y \in T PROVE x <= y
    <2>1. x \in Nat /\ y \in Nat
        OBVIOUS
    <2>2. ~ (y < x)
        BY Zenon, <1>2, <1>3, <2>1
    <2> QED BY <2>1, <2>2
<1> QED BY <1>4

\* History is transitive: the least block for which it would not be has an
\* ancestor for which it is not either.
LEMMA HistoryTransitive ==
    ASSUME NEW b \in Block, NEW x \in History[b], NEW y \in History[x]
    PROVE  y \in History[b]
<1> DEFINE Bad == {c \in Block : \E u \in History[c] : \E v \in History[u] : v \notin History[c]}
<1>1. SUFFICES Bad = {}
    OBVIOUS
<1>2. SUFFICES ASSUME Bad # {} PROVE FALSE
    OBVIOUS
<1> DEFINE Rounds == {Round[c] : c \in Bad}
<1>3. Rounds \in SUBSET Nat /\ Rounds # {}
    BY <1>2, DagAssumption
<1>4. PICK c \in Bad : \A d \in Bad : Round[c] <= Round[d]
    <2>1. \E r \in Rounds : \A q \in Rounds : r <= q
        <3> HIDE DEF Rounds
        <3> QED BY <1>3, LeastNumber
    <2> QED BY <2>1
<1>5. PICK u \in History[c] : \E v \in History[u] : v \notin History[c]
    BY <1>4
<1>6. c \in Block /\ u \in Block /\ History[c] = Ancestors[c] \cup UNION {History[a] : a \in Ancestors[c]}
    BY <1>4, <1>5, DagAssumption
<1>7. PICK a \in Ancestors[c] : u \in History[a]
    BY <1>5, <1>6
<1>8. a \in Block /\ Round[a] < Round[c] /\ Round[a] \in Nat /\ Round[c] \in Nat
    BY <1>6, <1>7, DagAssumption
<1>9. a \notin Bad
    BY <1>4, <1>8
<1> QED
    BY <1>5, <1>6, <1>7, <1>8, <1>9

\* The domains of the two sequences and the rounds they are about.
LEMMA LeaderFacts ==
    ASSUME NEW i \in DOMAIN Leaders
    PROVE  /\ i \in Nat /\ i >= 1 /\ i <= Len(Leaders)
           /\ Leaders[i] \in Block
           /\ Round[Leaders[i]] \in Nat /\ Round[Leaders[i]] > 0
<1>1. Leaders[i] \in Block \ Genesis /\ i \in 1..Len(Leaders) /\ Len(Leaders) \in Nat
    BY CommitsAssumption
<1> QED
    BY <1>1, DagAssumption DEF Genesis

\* The gc round only grows, and stays below the leader it comes from.
LEMMA GcRounds ==
    ASSUME NEW n \in 0..Len(Leaders)
    PROVE  /\ GcRoundAfter(n) \in Nat
           /\ n > 0 => GcRoundAfter(n) <= Round[Leaders[n]]
           /\ \A m \in 0..n : GcRoundAfter(m) <= GcRoundAfter(n)
           /\ n < Len(Leaders) => GcRoundAfter(n) < Round[Leaders[n + 1]]
<1>0. Len(Leaders) \in Nat /\ DOMAIN Leaders = 1..Len(Leaders) /\ GcDepth \in Nat
    BY CommitsAssumption
<1>1. \A m \in 0..n : m > 0 => m \in DOMAIN Leaders /\ Round[Leaders[m]] \in Nat
    BY <1>0, LeaderFacts
<1>2. GcRoundAfter(n) \in Nat /\ (n > 0 => GcRoundAfter(n) <= Round[Leaders[n]])
    BY <1>0, <1>1 DEF GcRoundAfter
<1>3. ASSUME NEW m \in 0..n PROVE GcRoundAfter(m) <= GcRoundAfter(n)
    <2>1. CASE m = 0 \/ m = n
        BY <1>0, <1>1, <1>2, <2>1 DEF GcRoundAfter
    <2>2. CASE m > 0 /\ m < n
        <3>1. m \in DOMAIN Leaders /\ n \in DOMAIN Leaders
            BY <1>0, <2>2
        <3>2. Round[Leaders[m]] < Round[Leaders[n]]
            BY <2>2, <3>1, CommitsAssumption
        <3> QED
            BY <1>0, <1>1, <2>2, <3>2 DEF GcRoundAfter
    <2> QED
        BY <1>0, <2>1, <2>2
<1>4. ASSUME n < Len(Leaders) PROVE GcRoundAfter(n) < Round[Leaders[n + 1]]
    <2>1. n + 1 \in DOMAIN Leaders /\ Round[Leaders[n + 1]] \in Nat /\ Round[Leaders[n + 1]] > 0
        BY <1>0, <1>4, LeaderFacts
    <2>2. CASE n = 0
        BY <2>1, <2>2 DEF GcRoundAfter
    <2>3. CASE n > 0
        <3>1. Round[Leaders[n]] < Round[Leaders[n + 1]]
            BY <1>0, <2>1, <2>3, CommitsAssumption
        <3> QED
            BY <1>1, <1>2, <2>1, <2>3, <3>1
    <2> QED
        BY <1>0, <2>2, <2>3
<1> QED
    BY <1>2, <1>3, <1>4

\* The blocks of an agreed sub-dag.
LEMMA SubDagBlocks ==
    ASSUME NEW i \in DOMAIN Leaders
    PROVE  /\ SubDags[i] \subseteq Block
           /\ \A b \in SubDags[i] :
                 /\ b = Leaders[i] \/ b \in History[Leaders[i]]
                 /\ Round[b] \in Nat
                 /\ Round[b] > GcRoundAfter(i - 1)
                 /\ Round[b] <= Round[Leaders[i]]
<1>1. Leaders[i] \in Block /\ Round[Leaders[i]] \in Nat
    BY LeaderFacts
<1>2. SubDags[i] = {b \in History[Leaders[i]] \cup {Leaders[i]} :
                        /\ Round[b] > GcRoundAfter(i - 1)
                        /\ \A j \in 1..(i - 1) : b \notin SubDags[j]}
    BY CommitsAssumption
<1>3. ASSUME NEW b \in SubDags[i]
      PROVE  /\ b \in Block /\ Round[b] \in Nat
             /\ b = Leaders[i] \/ b \in History[Leaders[i]]
             /\ Round[b] > GcRoundAfter(i - 1)
             /\ Round[b] <= Round[Leaders[i]]
    BY <1>1, <1>2, DagAssumption
<1> QED
    BY <1>3

\* No block is in two of them.
LEMMA SubDagsDisjoint ==
    ASSUME NEW i \in DOMAIN Leaders, NEW j \in DOMAIN Leaders, NEW b \in SubDags[i],
           b \in SubDags[j]
    PROVE  i = j
<1>1. i \in Nat /\ j \in Nat /\ i >= 1 /\ j >= 1
    BY LeaderFacts
<1>2. i < j => FALSE
    BY <1>1, CommitsAssumption
<1>3. j < i => FALSE
    BY <1>1, CommitsAssumption
<1> QED
    BY <1>1, <1>2, <1>3

\* A leader is in its own sub-dag and in none before it.
LEMMA LeaderInSubDag ==
    ASSUME NEW i \in DOMAIN Leaders
    PROVE  /\ Leaders[i] \in SubDags[i]
           /\ \A j \in 1..(i - 1) : Leaders[i] \notin SubDags[j]
           /\ Round[Leaders[i]] > GcRoundAfter(i - 1)
<1>1. i \in Nat /\ i >= 1 /\ i <= Len(Leaders) /\ Len(Leaders) \in Nat /\ DOMAIN Leaders = 1..Len(Leaders)
    BY CommitsAssumption, LeaderFacts
<1>2. i - 1 \in 0..Len(Leaders) /\ i - 1 < Len(Leaders) /\ (i - 1) + 1 = i
    BY <1>1
<1>3. GcRoundAfter(i - 1) < Round[Leaders[i]]
    BY <1>2, GcRounds
<1>4. ASSUME NEW j \in 1..(i - 1) PROVE Leaders[i] \notin SubDags[j]
    <2>1. j \in DOMAIN Leaders /\ Round[Leaders[j]] < Round[Leaders[i]]
        BY <1>1, CommitsAssumption
    <2>2. Round[Leaders[j]] \in Nat /\ Round[Leaders[i]] \in Nat
        BY <2>1, LeaderFacts
    <2> QED
        BY <2>1, <2>2, SubDagBlocks
<1>5. GcRoundAfter(i - 1) \in Nat /\ Round[Leaders[i]] \in Nat
    BY <1>2, GcRounds, LeaderFacts
<1> QED
    BY <1>3, <1>4, <1>5, CommitsAssumption

\* What is in the history of a block of sub-dag i, above the gc round before it,
\* is in a sub-dag up to i.
LEMMA HistoryCovered ==
    ASSUME NEW i \in DOMAIN Leaders, NEW x \in SubDags[i], NEW a \in History[x],
           Round[a] > GcRoundAfter(i - 1)
    PROVE  \E j \in 1..i : a \in SubDags[j]
<1>1. Leaders[i] \in Block /\ i \in Nat /\ i >= 1
    BY LeaderFacts
<1>2. a \in History[Leaders[i]]
    BY <1>1, SubDagBlocks, HistoryTransitive
<1> QED
    BY <1>1, <1>2, CommitsAssumption

-----------------------------------------------------------------------------
(* The invariant is inductive: the core thread                             *)

\* Later gc rounds ask for less.
LEMMA CompleteLater ==
    ASSUME NEW S \in SUBSET Block, NEW n \in 0..Len(Leaders), NEW m \in 0..n, Complete(S, m)
    PROVE  Complete(S, n)
<1>1. GcRoundAfter(m) <= GcRoundAfter(n) /\ GcRoundAfter(m) \in Nat /\ GcRoundAfter(n) \in Nat
    <2>1. m \in 0..Len(Leaders)
        BY CommitsAssumption
    <2> QED BY <2>1, GcRounds
<1>2. \A b \in S : \A a \in Ancestors[b] : Round[a] \in Nat
    BY DagAssumption
<1> QED
    BY <1>1, <1>2 DEF Complete

\* The numbers and domains in a typed state.
LEMMA StateFacts ==
    ASSUME TypeOK
    PROVE  /\ Len(Leaders) \in Nat
           /\ DOMAIN Leaders = 1..Len(Leaders) /\ DOMAIN SubDags = 1..Len(Leaders)
           /\ Len(commits) \in 0..Len(Leaders) /\ Len(storage.commits) \in 0..Len(Leaders)
           /\ gc_round \in Nat
<1>1. /\ Len(Leaders) \in Nat
      /\ DOMAIN Leaders = 1..Len(Leaders) /\ DOMAIN SubDags = 1..Len(Leaders)
      /\ Len(commits) \in 0..Len(Leaders) /\ Len(storage.commits) \in 0..Len(Leaders)
    BY CommitsAssumption DEF TypeOK
<1> QED
    BY <1>1, GcRounds DEF gc_round

\* The invariant holds at the first start.
LEMMA InitIInv == Init => IInv
<1> SUFFICES ASSUME Init PROVE IInv
    OBVIOUS
<1> USE DEF Init
<1>0. Len(Leaders) \in Nat
    BY CommitsAssumption
<1>1. TypeOK
    BY <1>0 DEF TypeOK, Genesis
<1>2. Complete(Genesis, 0)
    <2>1. ASSUME NEW b \in Genesis, NEW a \in Ancestors[b] PROVE FALSE
        <3>1. b \in Block /\ Round[b] = 0
            BY DEF Genesis
        <3>2. a \in History[b] /\ a \in Block
            BY <3>1, DagAssumption
        <3>3. Round[a] \in Nat /\ Round[a] < Round[b]
            BY <3>1, <3>2, DagAssumption
        <3> QED
            BY <3>1, <3>3
    <2> QED
        BY <2>1 DEF Complete
<1>3. CommitsInv /\ StorageInv
    BY <1>2 DEF CommitsInv, StorageInv
<1>4. FlagsInv /\ CallInv /\ SearchInv /\ DeliveryInv
    BY DEF FlagsInv, CallInv, SearchInv, DeliveryInv, InCommits
<1> QED
    BY <1>1, <1>3, <1>4 DEF IInv

\* accept_block checks the ancestors above the gc round.
LEMMA AcceptBlockIInv ==
    ASSUME IInv, NEW b \in Block, accept_block(b)
    PROVE  IInv'
<1> USE DEF accept_block, coreVars, linearizerVars, finalizerVars
<1>0. TypeOK /\ CommitsInv /\ StorageInv /\ FlagsInv /\ CallInv /\ SearchInv /\ DeliveryInv
    BY DEF IInv
<1>1. TypeOK'
    BY <1>0 DEF TypeOK
<1>2. Complete(dag', Len(commits))
    <2>1. ASSUME NEW c \in dag', NEW a \in Ancestors[c] \ dag'
          PROVE  \/ Round[a] <= GcRoundAfter(Len(commits))
                 \/ \E i \in DOMAIN SubDags : c \in SubDags[i] /\ Round[a] <= GcRoundAfter(i - 1)
        <3>1. CASE c \in dag
            BY <1>0, <3>1 DEF CommitsInv, Complete
        <3>2. CASE c = b
            <4>1. Round[a] \in Nat /\ gc_round \in Nat
                BY <1>0, <3>2, StateFacts, DagAssumption
            <4> QED
                BY <3>2, <4>1 DEF gc_round
        <3> QED
            BY <3>1, <3>2
    <2> QED
        BY <2>1 DEF Complete
<1>3. CommitsInv'
    BY <1>0, <1>2 DEF CommitsInv
<1>4. StorageInv'
    BY <1>0 DEF StorageInv
<1>5. FlagsInv' /\ SearchInv' /\ DeliveryInv'
    BY <1>0 DEF FlagsInv, SearchInv, DeliveryInv, InCommits, gc_round
<1>6. CallInv'
    BY <1>0 DEF CallInv
<1> QED
    BY <1>1, <1>3, <1>4, <1>5, <1>6 DEF IInv

\* A certified block is accepted after the blocks below it, so it lacks none of
\* its commit's history.
LEMMA AcceptCommittedIInv ==
    ASSUME IInv, NEW b \in Block, AcceptCommittedBlock(b)
    PROVE  IInv'
<1> USE DEF AcceptCommittedBlock, linearizerVars, finalizerVars
<1>0. TypeOK /\ CommitsInv /\ StorageInv /\ FlagsInv /\ CallInv /\ SearchInv /\ DeliveryInv
    BY DEF IInv
<1>1. TypeOK'
    BY <1>0 DEF TypeOK
<1>2. Complete(dag', Len(commits))
    <2>0. PICK i \in (Len(commits) + 1)..target : b \in SubDags[i]
        BY <1>0 DEF CallInv
    <2>1. i \in DOMAIN Leaders /\ i \in DOMAIN SubDags /\ i \in Nat /\ target \in Nat /\ Len(commits) \in Nat
        BY <1>0, StateFacts DEF TypeOK
    <2>2. ASSUME NEW a \in Ancestors[b] \ dag', Round[a] > GcRoundAfter(i - 1)
          PROVE  FALSE
        <3>1. a \in History[b] /\ a \in Block /\ Round[a] \in Nat /\ Round[b] \in Nat /\ Round[a] < Round[b]
            BY DagAssumption
        <3>2. PICK j \in 1..i : a \in SubDags[j]
            BY <2>0, <2>1, <2>2, <3>1, HistoryCovered
        <3>3. CASE j <= Len(commits)
            BY <1>0, <2>1, <2>2, <3>2, <3>3 DEF CommitsInv
        <3>4. CASE j > Len(commits)
            <4>1. a \in dag \cup input
                BY <1>0, <2>1, <3>2, <3>4 DEF CallInv
            <4> QED
                BY <2>2, <3>1, <4>1
        <3> QED
            BY <2>1, <3>2, <3>3, <3>4
    <2>3. ASSUME NEW c \in dag', NEW a \in Ancestors[c] \ dag'
          PROVE  \/ Round[a] <= GcRoundAfter(Len(commits))
                 \/ \E k \in DOMAIN SubDags : c \in SubDags[k] /\ Round[a] <= GcRoundAfter(k - 1)
        <3>1. CASE c \in dag
            BY <1>0, <3>1 DEF CommitsInv, Complete
        <3>2. CASE c = b
            <4>1. Round[a] \in Nat /\ GcRoundAfter(i - 1) \in Nat
                <5>1. i - 1 \in 0..Len(Leaders)
                    BY <1>0, <2>1, StateFacts
                <5> QED
                    BY <3>2, <5>1, GcRounds, DagAssumption
            <4> QED
                BY <2>0, <2>1, <2>2, <3>2, <4>1
        <3> QED
            BY <3>1, <3>2
    <2> QED
        BY <2>3 DEF Complete
<1>3. CommitsInv'
    BY <1>0, <1>2 DEF CommitsInv
<1>4. StorageInv'
    BY <1>0 DEF StorageInv
<1>5. FlagsInv' /\ SearchInv' /\ DeliveryInv'
    BY <1>0 DEF FlagsInv, SearchInv, DeliveryInv, InCommits, gc_round
<1>6. CallInv'
    BY <1>0 DEF CallInv
<1> QED
    BY <1>1, <1>3, <1>4, <1>5, <1>6 DEF IInv

\* A call to commit begins: its leaders, or all its blocks, are known.
LEMMA BeginIInv ==
    ASSUME IInv,
           (\E n \in NextCommits : try_decide(n) \/ add_certified_commits(n)) \/ HandleCertified
    PROVE  IInv'
<1> USE DEF coreVars, linearizerVars, finalizerVars
<1>0. TypeOK /\ CommitsInv /\ StorageInv /\ FlagsInv /\ CallInv /\ SearchInv /\ DeliveryInv
    BY DEF IInv
<1>00. /\ Len(Leaders) \in Nat /\ DOMAIN Leaders = 1..Len(Leaders)
       /\ Len(commits) \in 0..Len(Leaders)
    BY <1>0, StateFacts
<1>1. ASSUME NEW n \in NextCommits, try_decide(n)
      PROVE  IInv'
    <2>0. n \in 1..Len(Leaders) /\ Len(commits) < n
        BY <1>00 DEF NextCommits
    <2>1. TypeOK'
        BY <1>0, <1>00, <1>1, <2>0 DEF TypeOK, try_decide
    <2>2. CommitsInv' /\ StorageInv' /\ DeliveryInv' /\ FlagsInv'
        BY <1>0, <1>1 DEF CommitsInv, StorageInv, DeliveryInv, FlagsInv, InCommits, gc_round, try_decide
    <2>3. CallInv' /\ SearchInv'
        BY <1>0, <1>00, <1>1, <2>0 DEF CallInv, SearchInv, try_decide
    <2> QED
        BY <2>1, <2>2, <2>3 DEF IInv
<1>2. ASSUME NEW n \in NextCommits, add_certified_commits(n)
      PROVE  IInv'
    <2>0. n \in 1..Len(Leaders) /\ Len(commits) < n
        BY <1>00 DEF NextCommits
    <2>00. input' \subseteq Block
        <3>1. \A i \in (Len(commits) + 1)..n : SubDags[i] \subseteq Block
            BY <1>00, <2>0, SubDagBlocks
        <3> QED
            BY <1>2, <3>1 DEF add_certified_commits
    <2>1. TypeOK'
        BY <1>0, <1>00, <1>2, <2>0, <2>00 DEF TypeOK, add_certified_commits
    <2>2. CommitsInv' /\ StorageInv' /\ DeliveryInv' /\ FlagsInv'
        BY <1>0, <1>2 DEF CommitsInv, StorageInv, DeliveryInv, FlagsInv, InCommits, gc_round,
                          add_certified_commits
    <2>3. /\ \A i \in (Len(commits) + 1)..n : SubDags[i] \subseteq dag \cup input'
          /\ \A b \in input' : \E i \in (Len(commits) + 1)..n : b \in SubDags[i]
        BY <1>2 DEF add_certified_commits
    <2>4. call' = "accept" /\ target' = n /\ commits' = commits /\ dag' = dag
          /\ buffer' = {} /\ sub_dag' = {}
        BY <1>0, <1>2 DEF CallInv, add_certified_commits
    <2>5. CallInv' /\ SearchInv'
        BY <1>00, <2>0, <2>3, <2>4 DEF CallInv, SearchInv
    <2> QED
        BY <2>1, <2>2, <2>5 DEF IInv
<1>3. ASSUME HandleCertified
      PROVE  IInv'
    <2>1. TypeOK'
        BY <1>0, <1>3 DEF TypeOK, HandleCertified
    <2>2. CommitsInv' /\ StorageInv' /\ DeliveryInv' /\ FlagsInv'
        BY <1>0, <1>3 DEF CommitsInv, StorageInv, DeliveryInv, FlagsInv, InCommits, gc_round,
                          HandleCertified
    <2>3. \A i \in (Len(commits) + 1)..target : Leaders[i] \in dag
        <3>1. \A i \in (Len(commits) + 1)..target : i \in DOMAIN Leaders
            BY <1>0, <1>00 DEF TypeOK
        <3> QED
            BY <1>0, <1>3, <3>1, LeaderInSubDag DEF CallInv, HandleCertified
    <2>4. CallInv' /\ SearchInv'
        BY <1>0, <1>3, <2>3 DEF CallInv, SearchInv, HandleCertified
    <2> QED
        BY <2>1, <2>2, <2>4 DEF IInv
<1> QED
    BY <1>1, <1>2, <1>3

\* The next leader is there and not committed.
LEMMA NextLeader ==
    ASSUME IInv, call = "commit", Len(commits) < target
    PROVE  /\ Len(commits) + 1 \in DOMAIN Leaders
           /\ Leaders[Len(commits) + 1] \in dag \ committed
           /\ Round[Leaders[Len(commits) + 1]] > gc_round
           /\ ~ InCommits(Leaders[Len(commits) + 1])
<1> DEFINE n == Len(commits) + 1
<1>0. TypeOK /\ FlagsInv /\ CallInv
    BY DEF IInv
<1>1. n \in DOMAIN Leaders /\ n \in Nat /\ n - 1 = Len(commits)
    BY <1>0, StateFacts DEF TypeOK
<1>2. Leaders[n] \in dag
    BY <1>0, <1>1 DEF CallInv, TypeOK
<1>3. Leaders[n] \in Block /\ Round[Leaders[n]] > gc_round /\ ~ InCommits(Leaders[n])
    BY <1>1, LeaderInSubDag, LeaderFacts DEF gc_round, InCommits
<1>4. Leaders[n] \notin committed
    BY <1>0, <1>3 DEF FlagsInv, CallInv
<1> QED
    BY <1>1, <1>2, <1>3, <1>4

\* The search starts at the leader.
LEMMA LinearizeIInv ==
    ASSUME IInv, linearize_sub_dag
    PROVE  IInv'
<1> DEFINE leader == Leaders[Len(commits) + 1]
<1> USE DEF linearize_sub_dag, finalizerVars
<1>0. TypeOK /\ CommitsInv /\ StorageInv /\ FlagsInv /\ CallInv /\ SearchInv /\ DeliveryInv
    BY DEF IInv
<1>1. Len(commits) + 1 \in DOMAIN Leaders /\ leader \in dag /\ leader \in Block /\ sub_dag = {} /\ buffer = {}
    BY <1>0, NextLeader DEF CallInv, TypeOK
<1>2. TypeOK'
    BY <1>0, <1>1 DEF TypeOK
<1>3. CommitsInv' /\ StorageInv' /\ DeliveryInv'
    BY <1>0 DEF CommitsInv, StorageInv, DeliveryInv
<1>4. FlagsInv'
    BY <1>0, <1>1 DEF FlagsInv, InCommits, gc_round
<1>5. CallInv'
    BY <1>0 DEF CallInv
<1>6. SearchInv'
    <2>1. leader \in SubDags[Len(commits) + 1]
        BY <1>1, LeaderInSubDag
    <2> QED
        BY <1>1, <2>1 DEF SearchInv
<1> QED
    BY <1>2, <1>3, <1>4, <1>5, <1>6 DEF IInv

\* An ancestor the search looks at is there, as Core needs it to be.
LEMMA AncestorIsThere ==
    ASSUME IInv, call = "linearize", NEW x \in sub_dag, NEW a \in Ancestors[x], Round[a] > gc_round
    PROVE  a \in dag
<1> DEFINE n == Len(commits) + 1
<1>0. TypeOK /\ CommitsInv /\ CallInv /\ SearchInv
    BY DEF IInv
<1>1. n \in DOMAIN Leaders /\ n \in Nat /\ n - 1 = Len(commits)
    BY <1>0, StateFacts DEF TypeOK, CallInv
<1>2. x \in dag /\ x \in SubDags[n] /\ x \in Block /\ a \in Block /\ Round[a] \in Nat
    BY <1>0, DagAssumption DEF SearchInv, TypeOK
<1>3. SUFFICES ASSUME a \notin dag PROVE FALSE
    OBVIOUS
<1>4. gc_round \in Nat
    BY <1>0, StateFacts
<1>5. ~ (Round[a] <= GcRoundAfter(Len(commits)))
    BY <1>2, <1>4 DEF gc_round
<1>6. PICK i \in DOMAIN SubDags : x \in SubDags[i] /\ Round[a] <= GcRoundAfter(i - 1)
    BY <1>0, <1>2, <1>3, <1>5 DEF CommitsInv, Complete
<1>7. i = n
    BY <1>0, <1>1, <1>2, <1>6, SubDagsDisjoint, StateFacts
<1> QED
    BY <1>1, <1>5, <1>6, <1>7

\* A step of the search stays in the sub-dag and leaves nothing unseen behind.
LEMMA VisitIInv ==
    ASSUME IInv, NEW x \in Block, VisitBlock(x)
    PROVE  IInv'
<1> DEFINE n == Len(commits) + 1
           new == UncommittedAncestors(x)
<1> USE DEF VisitBlock, coreVars, finalizerVars
<1>0. TypeOK /\ CommitsInv /\ StorageInv /\ FlagsInv /\ CallInv /\ SearchInv /\ DeliveryInv
    BY DEF IInv
<1>1. n \in DOMAIN Leaders /\ n \in Nat /\ n - 1 = Len(commits) /\ Len(commits) \in Nat
    BY <1>0, StateFacts DEF TypeOK, CallInv
<1>2. x \in sub_dag /\ x \in SubDags[n]
    BY <1>0 DEF SearchInv
<1>3. ASSUME NEW a \in new
      PROVE  a \in Block /\ a \in dag /\ a \in SubDags[n] /\ Round[a] > gc_round
    <2>1. a \in Ancestors[x] /\ Round[a] > gc_round /\ a \notin committed
        BY DEF UncommittedAncestors
    <2>2. a \in Block /\ a \in History[x]
        BY <2>1, DagAssumption
    <2>3. a \in dag
        BY <1>2, <2>1, AncestorIsThere
    <2>4. PICK j \in 1..n : a \in SubDags[j]
        BY <1>1, <1>2, <2>1, <2>2, HistoryCovered DEF gc_round
    <2>5. ~ InCommits(a)
        BY <1>0, <2>1, <2>2 DEF FlagsInv
    <2>6. j = n
        BY <1>1, <2>4, <2>5 DEF InCommits
    <2> QED
        BY <2>1, <2>2, <2>3, <2>4, <2>6
<1>4. TypeOK'
    BY <1>0, <1>3 DEF TypeOK
<1>5. CommitsInv' /\ StorageInv' /\ DeliveryInv'
    BY <1>0 DEF CommitsInv, StorageInv, DeliveryInv
<1>6. FlagsInv'
    BY <1>0 DEF FlagsInv, InCommits, gc_round
<1>7. CallInv'
    BY <1>0 DEF CallInv
<1>8. SearchInv'
    <2>1. ASSUME NEW y \in sub_dag' \ buffer', NEW a \in Ancestors[y], Round[a] > gc_round
          PROVE  a \in committed'
        <3>1. y \in sub_dag /\ (y = x \/ y \notin buffer)
            OBVIOUS
        <3>2. CASE y = x
            BY <2>1, <3>2 DEF UncommittedAncestors
        <3>3. CASE y \notin buffer
            BY <1>0, <2>1, <3>1, <3>3 DEF SearchInv
        <3> QED
            BY <3>1, <3>2, <3>3
    <2>2. gc_round' = gc_round
        BY DEF gc_round
    <2>3. /\ buffer' \subseteq sub_dag' /\ sub_dag' \subseteq dag' /\ sub_dag' \subseteq SubDags[n]
          /\ Leaders[n] \in sub_dag'
        BY <1>0, <1>3 DEF SearchInv
    <2> QED
        BY <2>1, <2>2, <2>3 DEF SearchInv
<1> QED
    BY <1>4, <1>5, <1>6, <1>7, <1>8 DEF IInv

\* A search that is over has found the whole sub-dag: a block of least round that
\* hides a missing one below it would have an ancestor that hides it too.
LEMMA SearchIsComplete ==
    ASSUME IInv, call = "linearize", buffer = {}
    PROVE  sub_dag = SubDags[Len(commits) + 1]
<1> DEFINE n == Len(commits) + 1
           Lost(z) == {y \in History[z] : y \in SubDags[n] /\ y \notin sub_dag}
           Bad == {z \in sub_dag : Lost(z) # {}}
           Rounds == {Round[z] : z \in Bad}
<1>0. TypeOK /\ CommitsInv /\ FlagsInv /\ CallInv /\ SearchInv
    BY DEF IInv
<1>1. n \in DOMAIN Leaders /\ n \in Nat /\ n - 1 = Len(commits) /\ Len(commits) \in Nat
      /\ DOMAIN Leaders = 1..Len(Leaders) /\ Len(Leaders) \in Nat
    BY <1>0, StateFacts DEF TypeOK, CallInv
<1>2. sub_dag \subseteq Block /\ sub_dag \subseteq SubDags[n] /\ Leaders[n] \in sub_dag
    BY <1>0 DEF TypeOK, SearchInv
<1>3. ASSUME Bad # {} PROVE FALSE
    <2>1. Rounds \in SUBSET Nat /\ Rounds # {}
        BY <1>2, <1>3, DagAssumption
    <2>2. PICK z \in Bad : \A w \in Bad : Round[z] <= Round[w]
        <3>1. \E r \in Rounds : \A q \in Rounds : r <= q
            <4> HIDE DEF Rounds
            <4> QED BY <2>1, LeastNumber
        <3> QED BY <3>1
    <2>3. PICK y \in History[z] : y \in SubDags[n] /\ y \notin sub_dag
        BY <2>2
    <2>4. z \in sub_dag /\ z \in Block
        BY <1>2, <2>2
    <2>5. y \in Block /\ Round[y] \in Nat /\ gc_round \in Nat /\ Round[y] > gc_round /\ ~ InCommits(y)
        <3>1. y \in Block /\ Round[y] \in Nat /\ Round[y] > gc_round
            BY <1>1, <2>3, SubDagBlocks DEF gc_round
        <3>2. ~ InCommits(y)
            BY <1>1, <2>3, SubDagsDisjoint DEF InCommits
        <3> QED
            BY <1>0, <3>1, <3>2, StateFacts
    <2>6. y \notin Ancestors[z]
        BY <1>0, <2>3, <2>4, <2>5 DEF SearchInv, FlagsInv
    <2>7. PICK a \in Ancestors[z] : y \in History[a]
        BY <2>3, <2>4, <2>6, DagAssumption
    <2>8. a \in Block /\ Round[a] \in Nat /\ Round[y] < Round[a] /\ Round[a] < Round[z] /\ Round[z] \in Nat
        BY <2>4, <2>7, DagAssumption
    <2>9. a \in sub_dag \/ InCommits(a)
        <3>1. Round[a] > gc_round
            BY <2>5, <2>8
        <3> QED
            BY <1>0, <2>4, <2>7, <2>8, <3>1 DEF SearchInv, FlagsInv
    <2>10. a \notin sub_dag
        BY <2>2, <2>3, <2>7, <2>8
    <2>11. PICK i \in 1..Len(commits) : a \in SubDags[i]
        BY <2>9, <2>10 DEF InCommits
    <2>12. i \in DOMAIN Leaders /\ i \in Nat /\ i - 1 \in 0..Len(commits) /\ Len(commits) \in 0..Len(Leaders)
        BY <1>1
    <2>13. GcRoundAfter(i - 1) <= gc_round /\ GcRoundAfter(i - 1) \in Nat
        <3>1. i - 1 \in 0..Len(Leaders)
            BY <1>1, <2>12
        <3> QED
            BY <2>12, <3>1, GcRounds DEF gc_round
    <2>14. PICK j \in 1..i : y \in SubDags[j]
        BY <2>5, <2>7, <2>11, <2>12, <2>13, HistoryCovered
    <2>15. j \in 1..Len(commits)
        BY <1>1, <2>12
    <2> QED
        BY <2>5, <2>14, <2>15 DEF InCommits
<1>4. ASSUME NEW y \in SubDags[n] PROVE y \in sub_dag
    <2>1. y = Leaders[n] \/ y \in History[Leaders[n]]
        BY <1>1, SubDagBlocks
    <2> QED
        BY <1>2, <1>3, <2>1
<1> QED
    BY Zenon, <1>2, <1>4

\* The commit that is made is the agreed one.
LEMMA AddCommitIInv ==
    ASSUME IInv, add_commit
    PROVE  IInv'
<1> DEFINE n == Len(commits) + 1
<1> USE DEF add_commit, finalizerVars
<1>0. TypeOK /\ CommitsInv /\ StorageInv /\ FlagsInv /\ CallInv /\ SearchInv /\ DeliveryInv
    BY DEF IInv
<1>1. sub_dag = SubDags[n] /\ sub_dag \subseteq dag /\ sub_dag \subseteq Block
    BY <1>0, SearchIsComplete DEF SearchInv, TypeOK
<1>2. n \in 1..Len(Leaders) /\ n \in 0..Len(Leaders) /\ Len(commits) \in 0..n /\ Len(Leaders) \in Nat
      /\ Len(commits) \in Nat /\ n <= target
    BY <1>0, StateFacts DEF CallInv, TypeOK
<1>3. /\ commits' \in Seq(SUBSET Block) /\ Len(commits') = n /\ commits'[n] = sub_dag
      /\ \A i \in 1..Len(commits) : commits'[i] = commits[i]
    BY <1>0, <1>1 DEF TypeOK
<1>4. TypeOK'
    BY <1>0, <1>2, <1>3 DEF TypeOK
<1>5. CommitsInv'
    <2>1. \A i \in 1..n : i \in 1..Len(commits) \/ i = n
        BY <1>2
    <2>2. \A i \in 1..n : commits'[i] = SubDags[i] /\ SubDags[i] \subseteq dag
        BY <1>0, <1>1, <1>3, <2>1 DEF CommitsInv
    <2>3. Complete(dag, n)
        BY <1>0, <1>2, CompleteLater DEF CommitsInv, TypeOK
    <2> QED
        BY <1>3, <2>2, <2>3 DEF CommitsInv
<1>6. StorageInv' /\ DeliveryInv'
    BY <1>0, <1>2, <1>3 DEF StorageInv, DeliveryInv, TypeOK
<1>7. FlagsInv'
    <2>1. gc_round <= gc_round' /\ gc_round \in Nat /\ gc_round' \in Nat
        BY <1>2, <1>3, GcRounds DEF gc_round
    <2>2. ASSUME NEW b \in Block, Round[b] > gc_round'
          PROVE  b \in committed' <=> b \in sub_dag' \/ InCommits(b)'
        <3>1. Round[b] > gc_round
            BY <2>1, <2>2, DagAssumption
        <3>2. b \in committed <=> b \in SubDags[n] \/ \E i \in 1..Len(commits) : b \in SubDags[i]
            BY <1>0, <1>1, <3>1 DEF FlagsInv, InCommits
        <3>3. InCommits(b)' <=> \E i \in 1..n : b \in SubDags[i]
            BY <1>3 DEF InCommits
        <3> QED
            BY <1>2, <3>2, <3>3
    <2> QED
        BY <2>2 DEF FlagsInv
<1>8. CallInv' /\ SearchInv'
    <2>1. input = {} /\ \A i \in (Len(commits) + 1)..target : Leaders[i] \in dag
        BY <1>0 DEF CallInv
    <2>2. target \in Nat
        BY <1>0, StateFacts DEF TypeOK
    <2>3. \A i \in (n + 1)..target : i \in (Len(commits) + 1)..target
        BY <1>2, <2>2
    <2>4. /\ call' = "commit" /\ buffer' = {} /\ sub_dag' = {} /\ input' = {}
          /\ dag' = dag /\ target' = target
        BY <2>1
    <2> QED
        BY <1>2, <1>3, <2>1, <2>3, <2>4 DEF CallInv, SearchInv
<1> QED
    BY <1>4, <1>5, <1>6, <1>7, <1>8 DEF IInv

-----------------------------------------------------------------------------
(* The invariant is inductive: storage, delivery and restarts              *)

\* Sending and delivering change no block and no commit.
LEMMA SendIInv ==
    ASSUME IInv, SendCommits \/ Deliver
    PROVE  IInv'
<1> USE DEF SendCommits, Deliver, coreVars, linearizerVars
<1>0. TypeOK /\ CommitsInv /\ StorageInv /\ FlagsInv /\ CallInv /\ SearchInv /\ DeliveryInv
    BY DEF IInv
<1>1. TypeOK'
    BY <1>0 DEF TypeOK
<1>2. CommitsInv' /\ StorageInv'
    BY <1>0 DEF CommitsInv, StorageInv
<1>3. FlagsInv' /\ SearchInv'
    BY <1>0 DEF FlagsInv, SearchInv, InCommits, gc_round, CallInv
<1>4. CallInv'
    <2>1. CASE SendCommits
        <3>1. /\ call = "commit" /\ call' = "idle"
              /\ UNCHANGED <<commits, input, target, buffer, sub_dag>>
            BY <2>1
        <3> QED
            BY <1>0, <3>1 DEF CallInv
    <2>2. CASE Deliver
        <3>1. UNCHANGED <<dag, commits, call, input, target, buffer, sub_dag>>
            BY <2>2
        <3> QED
            BY Zenon, <1>0, <3>1 DEF CallInv
    <2> QED
        BY <2>1, <2>2
<1>5. DeliveryInv'
    BY <1>0 DEF DeliveryInv, TypeOK
<1> QED
    BY <1>1, <1>2, <1>3, <1>4, <1>5 DEF IInv

\* A flush by either thread stores a DAG and commits that fit together.
LEMMA FlushIInv ==
    ASSUME IInv, FlushOnPropose \/ \E n \in DOMAIN Leaders : Finalize(n)
    PROVE  IInv'
<1> USE DEF coreVars, linearizerVars, finalizerVars
<1>0. TypeOK /\ CommitsInv /\ StorageInv /\ FlagsInv /\ CallInv /\ SearchInv /\ DeliveryInv
    BY DEF IInv
<1>1. /\ storage' = [blocks |-> storage.blocks \cup dag, commits |-> commits]
      /\ UNCHANGED <<dag, committed, commits, coreVars, linearizerVars, sent, delivered>>
    BY DEF FlushOnPropose, Finalize, flush
<1>2. storage'.blocks = dag /\ storage'.commits = commits
    BY <1>0, <1>1 DEF StorageInv
<1>3. finalized' \in 0..Len(Leaders) /\ delivered <= finalized' /\ finalized' <= Len(commits)
    <2>1. CASE FlushOnPropose
        BY <1>0, <2>1 DEF FlushOnPropose, TypeOK, DeliveryInv, StorageInv
    <2>2. CASE \E n \in DOMAIN Leaders : Finalize(n)
        <3>1. PICK n \in DOMAIN Leaders : Finalize(n)
            BY <2>2
        <3>2. n \in 0..Len(Leaders)
            BY <1>0, StateFacts
        <3> QED
            BY <1>0, <3>1, <3>2 DEF Finalize, TypeOK, DeliveryInv
    <2> QED
        BY <2>1, <2>2
<1>4. TypeOK'
    BY <1>0, <1>1, <1>2, <1>3 DEF TypeOK
<1>5. CommitsInv' /\ StorageInv'
    <2>1. CommitsInv'
        BY <1>0, <1>1 DEF CommitsInv
    <2>2. Complete(storage'.blocks, Len(storage'.commits))
        BY <1>0, <1>2 DEF CommitsInv
    <2>3. /\ storage'.blocks \subseteq dag'
          /\ Len(storage'.commits) <= Len(commits')
          /\ \A i \in 1..Len(storage'.commits) :
                storage'.commits[i] = SubDags[i] /\ SubDags[i] \subseteq storage'.blocks
        BY <1>0, <1>1, <1>2 DEF CommitsInv, TypeOK
    <2> QED
        BY <2>1, <2>2, <2>3 DEF StorageInv
<1>6. FlagsInv' /\ SearchInv'
    BY <1>0, <1>1 DEF FlagsInv, SearchInv, InCommits, gc_round
<1>7. CallInv'
    BY <1>0, <1>1 DEF CallInv
<1>8. DeliveryInv'
    BY <1>0, <1>1, <1>2, <1>3 DEF DeliveryInv
<1> QED
    BY <1>4, <1>5, <1>6, <1>7, <1>8 DEF IInv

\* What is stored is a state to go on from.
LEMMA RestartIInv ==
    ASSUME IInv, NEW processed \in 0..Len(Leaders), Restart(processed)
    PROVE  IInv'
<1> USE DEF Restart, StartFrom
<1>0. TypeOK /\ StorageInv /\ DeliveryInv
    BY DEF IInv
<1>1. Len(Leaders) \in Nat /\ Len(storage.commits) \in 0..Len(Leaders)
    BY <1>0, StateFacts
<1>2. committed' = {b \in UNION {storage.commits[i] : i \in 1..Len(storage.commits)} :
                       Round[b] > GcRoundAfter(Len(storage.commits))}
    OBVIOUS
<1>3. \A i \in 1..Len(storage.commits) : storage.commits[i] \subseteq Block
    BY <1>0 DEF TypeOK
<1>4. TypeOK'
    <2>1. committed' \subseteq Block
        BY <1>2, <1>3
    <2> QED
        BY <1>0, <1>1, <2>1 DEF TypeOK
<1>5. CommitsInv' /\ StorageInv'
    BY <1>0 DEF CommitsInv, StorageInv, TypeOK
<1>6. FlagsInv'
    <2>1. ASSUME NEW b \in Block, Round[b] > gc_round'
          PROVE  b \in committed' <=> InCommits(b)'
        <3>1. b \in committed' <=> \E i \in 1..Len(storage.commits) : b \in storage.commits[i]
            BY <1>2, <2>1 DEF gc_round
        <3> QED
            BY <1>0, <3>1 DEF StorageInv, InCommits
    <2> QED
        BY <2>1 DEF FlagsInv
<1>7. CallInv' /\ SearchInv'
    BY DEF CallInv, SearchInv
<1>8. DeliveryInv'
    BY <1>0, <1>1 DEF DeliveryInv, TypeOK
<1> QED
    BY <1>4, <1>5, <1>6, <1>7, <1>8 DEF IInv

\* Every step preserves the invariant.
LEMMA NextIInv == IInv /\ [Next]_vars => IInv'
<1> SUFFICES ASSUME IInv, [Next]_vars PROVE IInv'
    OBVIOUS
<1>1. CASE CoreThread
    BY <1>1, AcceptBlockIInv, AcceptCommittedIInv, VisitIInv, BeginIInv, LinearizeIInv,
       AddCommitIInv, SendIInv, FlushIInv DEF CoreThread
<1>2. CASE Finalizer
    BY <1>2, FlushIInv, SendIInv DEF Finalizer
<1>3. CASE \E processed \in 0..Len(Leaders) : Restart(processed)
    BY <1>3, RestartIInv
<1>4. CASE UNCHANGED vars
    BY <1>4 DEF vars, IInv, TypeOK, CommitsInv, StorageInv, FlagsInv, CallInv, SearchInv,
                DeliveryInv, InCommits, gc_round
<1> QED
    BY <1>1, <1>2, <1>3, <1>4 DEF Next

\* The inductive invariant holds in every reachable state.
THEOREM CommitStoreInvariant == Spec => []IInv
BY InitIInv, NextIInv, PTL DEF Spec

-----------------------------------------------------------------------------
(* What follows                                                            *)

\* The state of the commit store always has its type.
THEOREM CommitStoreTyped == Spec => []TypeOK
<1>1. IInv => TypeOK
    BY DEF IInv
<1> QED
    BY <1>1, CommitStoreInvariant, PTL

\* For every DAG, gc depth, batch size and history of flushes and restarts the
\* linearizer makes the commits the other authorities certified.
THEOREM SubDagsAgree == Spec => []SubDagAgreement
<1>1. IInv => SubDagAgreement
    BY DEF IInv, CommitsInv, SubDagAgreement
<1> QED
    BY <1>1, CommitStoreInvariant, PTL

\* The linearizer never meets a leader that is missing or committed, nor a missing
\* ancestor above the gc round.
THEOREM NoLinearizerPanic == Spec => []LinearizerNeverPanics
<1>1. ASSUME IInv PROVE LinearizerNeverPanics
    <2>1. ASSUME NEW x \in buffer, NEW a \in Ancestors[x], Round[a] > gc_round
          PROVE  a \in dag
        <3>1. call = "linearize" /\ x \in sub_dag
            BY <1>1 DEF IInv, CallInv, SearchInv
        <3> QED
            BY <1>1, <2>1, <3>1, AncestorIsThere
    <2>2. call = "commit" /\ Len(commits) < target =>
            Leaders[Len(commits) + 1] \in dag \ committed
        BY <1>1, NextLeader
    <2> QED
        BY <2>1, <2>2 DEF LinearizerNeverPanics
<1> QED
    BY <1>1, CommitStoreInvariant, PTL

\* What execution has seen can be loaded from storage after any crash.
THEOREM DeliveredStaysStored == Spec => []DeliveredIsStored
<1>1. IInv => DeliveredIsStored
    BY DEF IInv, StorageInv, DeliveryInv, DeliveredIsStored
<1> QED
    BY <1>1, CommitStoreInvariant, PTL

\* What a flush leaves behind, also in the middle of a batch of certified commits,
\* lacks nothing the linearizer will look for.
THEOREM StorageSuffices == Spec => []StorageIsCompleteForCommits
<1>1. IInv => StorageIsCompleteForCommits
    BY DEF IInv, StorageInv, Complete, StorageIsCompleteForCommits
<1> QED
    BY <1>1, CommitStoreInvariant, PTL

\* No flush of either thread and no restart takes back a stored commit.
THEOREM StoredCommitsStay == Spec => StorageOnlyGrows
<1> DEFINE Grows ==
        /\ Len(storage.commits) <= Len(storage'.commits)
        /\ \A i \in 1..Len(storage.commits) : storage'.commits[i] = storage.commits[i]
<1>1. ASSUME IInv, IInv', [Next]_vars PROVE [Grows]_vars
    <2>1. TypeOK /\ StorageInv /\ CommitsInv
        BY <1>1 DEF IInv
    <2>2. Len(storage.commits) \in Nat /\ Len(commits) \in Nat
        BY <2>1, StateFacts
    <2>3. CASE UNCHANGED storage
        BY <2>2, <2>3
    <2>4. CASE storage' = [blocks |-> storage.blocks \cup dag, commits |-> commits]
        BY <2>1, <2>2, <2>4 DEF StorageInv, CommitsInv
    <2>5. UNCHANGED storage \/ storage' = [blocks |-> storage.blocks \cup dag, commits |-> commits]
        BY <1>1 DEF Next, CoreThread, Finalizer, vars, accept_block, AcceptCommittedBlock, VisitBlock,
            try_decide, add_certified_commits, HandleCertified, linearize_sub_dag, add_commit,
            SendCommits, FlushOnPropose, Finalize, flush, Deliver, Restart, StartFrom
    <2> QED
        BY <2>3, <2>4, <2>5
<1>2. Spec => [][Grows]_vars
    BY <1>1, CommitStoreInvariant, PTL DEF Spec
<1> QED
    BY <1>2 DEF StorageOnlyGrows
=============================================================================
