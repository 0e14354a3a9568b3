------------------------- MODULE CommitSyncerProofs -------------------------
(***************************************************************************)
(* Proofs about CommitSyncer, for every batch size, every number of        *)
(* batches ahead and of parallel fetches, and every order in which fetches *)
(* end: the ranges split what is left to hand over, Core is never given a  *)
(* gap, and no fetched range is left without a fetch to wake it.           *)
(***************************************************************************)
EXTENDS CommitSyncer, FiniteSetTheorems, TLAPS

\* What the three collections P, I and F hold when commits up to `synced` are
\* done: ranges that do not overlap, and every later commit that is scheduled.
Sound(P, I, F, synced) ==
    /\ P \cup I \cup F \subseteq CommitRange
    /\ \A r \in P \cup I \cup F : r.start <= r.end /\ r.end <= highest_scheduled_index
    /\ \A r, q \in P \cup I \cup F : r = q \/ r.end < q.start \/ q.end < r.start
    /\ P \cap I = {} /\ (P \cup I) \cap F = {}
    /\ \A i \in (synced + 1)..highest_scheduled_index :
          \E r \in P \cup I \cup F : r.start <= i /\ i <= r.end

\* What Core was given follows what is synced, and is committed when Core says so.
SendingInv ==
    /\ core = "idle" => sending = {}
    /\ core # "idle" => sending # {} /\ \A r \in sending : r.start <= synced_commit_index + 1
    /\ core = "added" => \A r \in sending : r.end <= local
    /\ \A r, q \in sending : r = q

IInv ==
    /\ TypeOK
    /\ Sound(pending_fetches, inflight_fetches, fetched_ranges \cup sending, synced_commit_index)
    /\ highest_scheduled_index <= handled + unhandled_commits_threshold
    /\ Cardinality(inflight_fetches) <= Max2(1, ParallelFetches)
    /\ NoStrandedRange
    /\ SendingInv

-----------------------------------------------------------------------------
(* Ranges                                                                  *)

\* The parameters as numbers.
LEMMA Parameters ==
    /\ BatchSize \in Nat /\ BatchSize > 0 /\ BatchesAhead \in Nat /\ BatchesAhead > 0
    /\ ParallelFetches \in Nat /\ MaxCommit \in Nat
    /\ unhandled_commits_threshold \in Nat
<1>1. BatchSize * BatchesAhead \in Nat
    BY ParametersAssumption
<1> QED
    BY <1>1, ParametersAssumption DEF unhandled_commits_threshold

\* The ends of a range are numbers.
LEMMA RangeFields ==
    ASSUME NEW r \in CommitRange
    PROVE  r.start \in Nat /\ r.start > 0 /\ r.end \in Nat /\ r.end <= MaxCommit
BY ParametersAssumption DEF CommitRange, Index

\* There are finitely many ranges up to MaxCommit.
LEMMA FiniteRanges == IsFiniteSet(CommitRange)
<1> DEFINE S == (Index \ {0}) \X Index
           f == [p \in S |-> [start |-> p[1], end |-> p[2]]]
<1>1. IsFiniteSet(Index) /\ IsFiniteSet(Index \ {0})
    <2>1. IsFiniteSet(0..MaxCommit)
        BY FS_Interval, Parameters
    <2>2. IsFiniteSet(0..MaxCommit \ {0})
        BY Zenon, <2>1, FS_Difference
    <2> QED
        BY <2>1, <2>2 DEF Index
<1>2. IsFiniteSet(S)
    BY <1>1, FS_Product
<1>3. f \in [S -> CommitRange]
    BY DEF CommitRange
<1>4. ASSUME NEW r \in CommitRange PROVE \E p \in S : f[p] = r
    <2>1. r.start \in Index \ {0} /\ r.end \in Index /\ r = [start |-> r.start, end |-> r.end]
        BY DEF CommitRange
    <2>2. <<r.start, r.end>> \in S /\ f[<<r.start, r.end>>] = r
        BY <2>1
    <2> QED
        BY <2>2
<1>5. f \in Surjection(S, CommitRange)
    BY <1>3, <1>4 DEF Surjection
<1> HIDE DEF S, f
<1> QED
    BY <1>2, <1>5, FS_Surjection

\* A set of natural numbers has a least element.
LEMMA LeastNumber ==
    ASSUME NEW T \in SUBSET Nat, T # {}
    PROVE  \E x \in T : \A y \in T : x <= y
<1> DEFINE R == OpToRel(<, Nat)
<1>1. \E x \in T : \A y \in T : ~ (<<y, x>> \in R)
    <2>1. IsWellFoundedOn(R, Nat)
        BY Zenon, NatLessThanWellFounded
    <2> HIDE DEF R
    <2> QED BY Zenon, <2>1, WFMin
<1>2. \A x, y \in Nat : <<y, x>> \in R <=> y < x
    BY DEF OpToRel
<1>3. PICK x \in T : \A y \in T : ~ (<<y, x>> \in R)
    BY Zenon, <1>1
<1> HIDE DEF R
<1>4. ASSUME NEW y \in T PROVE x <= y
    <2>1. x \in Nat /\ y \in Nat
        OBVIOUS
    <2>2. ~ (y < x)
        BY Zenon, <1>2, <1>3, <2>1
    <2> QED BY <2>1, <2>2
<1> QED BY <1>4

\* Whole batches: multiples of the batch size that are apart, and the one that
\* has a given number.
LEMMA Batches ==
    ASSUME NEW k \in Nat, NEW m \in Nat
    PROVE  /\ k * BatchSize \in Nat /\ (k + 1) * BatchSize = k * BatchSize + BatchSize
           /\ k < m => (k + 1) * BatchSize <= m * BatchSize
           /\ k * BatchSize < m * BatchSize => k < m
<1>0. BatchSize \in Nat /\ BatchSize > 0
    BY Parameters
<1>1. \A i, j \in Nat : i * j \in Nat
    OBVIOUS
<1>2. k * BatchSize \in Nat /\ m * BatchSize \in Nat /\ (k + 1) * BatchSize = k * BatchSize + BatchSize
    BY <1>0, <1>1
<1>3. ASSUME k < m PROVE (k + 1) * BatchSize <= m * BatchSize
    <2>1. PICK d \in Nat : m = k + 1 + d
        <3>1. m - (k + 1) \in Nat /\ m = k + 1 + (m - (k + 1))
            BY <1>3
        <3> QED BY <3>1
    <2>2. m * BatchSize = (k + 1) * BatchSize + d * BatchSize /\ d * BatchSize \in Nat
        BY <1>0, <1>1, <2>1
    <2> QED
        BY <1>0, <1>2, <2>2
<1>4. ASSUME m <= k PROVE m * BatchSize <= k * BatchSize
    <2>1. PICK d \in Nat : k = m + d
        <3>1. k - m \in Nat /\ k = m + (k - m)
            BY <1>4
        <3> QED BY <3>1
    <2>2. k * BatchSize = m * BatchSize + d * BatchSize /\ d * BatchSize \in Nat
        BY <1>0, <1>1, <2>1
    <2> QED
        BY <1>0, <1>2, <2>2
<1> QED
    BY <1>2, <1>3, <1>4

\* The ranges try_schedule_once cuts: within the limits, apart from each other, and
\* without a gap up to the end of any of them.
LEMMA NewRangesFacts ==
    ASSUME NEW after \in Nat, quorum \in Index, handled \in Nat
    PROVE  LET new == NewRanges(after)
           IN  /\ new \subseteq CommitRange
               /\ \A r \in new : /\ after < r.start /\ r.start <= r.end
                                 /\ r.end <= handled + unhandled_commits_threshold
               /\ \A r, q \in new : r = q \/ r.end < q.start \/ q.end < r.start
               /\ \A r \in new : \A i \in (after + 1)..r.end :
                     \E q \in new : q.start <= i /\ i <= q.end
<1> DEFINE new == NewRanges(after)
           K == {k \in Index : /\ after + (k + 1) * BatchSize <= quorum
                               /\ after + (k + 1) * BatchSize <= handled + unhandled_commits_threshold}
           R(k) == [start |-> after + k * BatchSize + 1, end |-> after + (k + 1) * BatchSize]
<1>0. /\ BatchSize \in Nat /\ BatchSize > 0 /\ MaxCommit \in Nat /\ quorum \in Nat /\ quorum <= MaxCommit
      /\ unhandled_commits_threshold \in Nat /\ K \subseteq Nat
    BY Parameters DEF Index
<1>1. new = {R(k) : k \in K}
    BY DEF NewRanges
<1>2. ASSUME NEW k \in K
      PROVE  /\ R(k).start = after + k * BatchSize + 1 /\ R(k).end = after + k * BatchSize + BatchSize
             /\ R(k).end <= quorum /\ R(k).end <= handled + unhandled_commits_threshold
             /\ k * BatchSize \in Nat
    BY <1>0, Batches
<1> HIDE DEF K
<1>3. ASSUME NEW r \in new
      PROVE  /\ r \in CommitRange /\ after < r.start /\ r.start <= r.end
             /\ r.end <= handled + unhandled_commits_threshold
    <2>1. PICK k \in K : r = R(k)
        BY <1>1
    <2>2. /\ r.start \in Nat /\ r.end \in Nat /\ after < r.start /\ r.start <= r.end
          /\ r.end <= quorum /\ r.end <= handled + unhandled_commits_threshold
        BY <1>0, <1>2, <2>1
    <2>3. r.start \in Index \ {0} /\ r.end \in Index /\ r = [start |-> r.start, end |-> r.end]
        BY <1>0, <2>1, <2>2 DEF Index
    <2> QED
        BY <2>2, <2>3 DEF CommitRange
<1>4. ASSUME NEW r \in new, NEW q \in new
      PROVE  r = q \/ r.end < q.start \/ q.end < r.start
    <2>1. PICK k \in K : r = R(k)
        BY <1>1
    <2>2. PICK m \in K : q = R(m)
        BY <1>1
    <2>3. CASE k = m
        BY <2>1, <2>2, <2>3
    <2>4. CASE k < m
        <3>1. k * BatchSize + BatchSize <= m * BatchSize
            BY <1>0, <2>4, Batches
        <3> QED
            BY <1>0, <1>2, <2>1, <2>2, <3>1
    <2>5. CASE m < k
        <3>1. m * BatchSize + BatchSize <= k * BatchSize
            BY <1>0, <2>5, Batches
        <3> QED
            BY <1>0, <1>2, <2>1, <2>2, <3>1
    <2> QED
        BY <1>0, <2>3, <2>4, <2>5
<1>5. ASSUME NEW r \in new, NEW i \in (after + 1)..r.end
      PROVE  \E q \in new : q.start <= i /\ i <= q.end
    <2>1. PICK m \in K : r = R(m)
        BY <1>1
    <2> DEFINE d == i - after - 1
               k == d \div BatchSize
    <2>2. d \in Nat /\ i = after + d + 1
        BY <1>3
    <2>3. k \in Nat /\ k * BatchSize <= d /\ d < k * BatchSize + BatchSize
        <3> HIDE DEF d
        <3>1. k \in Int /\ d = BatchSize * k + (d % BatchSize) /\ (d % BatchSize) \in 0..(BatchSize - 1)
            BY <1>0, <2>2
        <3>2. k \in Nat
            BY <1>0, <2>2
        <3> HIDE DEF k
        <3>3. BatchSize * k = k * BatchSize
            BY <1>0, <3>2
        <3> QED
            BY <1>0, <2>2, <3>1, <3>2, <3>3
    <2> HIDE DEF k, d
    <2>4. k <= m
        <3>1. d < (m + 1) * BatchSize
            BY <1>0, <1>2, <2>1, <2>2, Batches
        <3>2. k * BatchSize < (m + 1) * BatchSize
            BY <1>0, <2>2, <2>3, <3>1, Batches
        <3>3. k < m + 1
            BY <1>0, <2>3, <3>2, Batches
        <3> QED
            BY <1>0, <2>3, <3>3
    <2>5. k \in K
        <3>1. (k + 1) * BatchSize <= (m + 1) * BatchSize /\ (m + 1) * BatchSize \in Nat /\ (k + 1) * BatchSize \in Nat
            BY <1>0, <2>3, <2>4, Batches
        <3>2. /\ m \in Index /\ after + (m + 1) * BatchSize <= quorum
              /\ after + (m + 1) * BatchSize <= handled + unhandled_commits_threshold
            BY DEF K
        <3>3. k \in Index
            BY <1>0, <2>3, <2>4, <3>2 DEF Index
        <3> QED
            BY <1>0, <3>1, <3>2, <3>3 DEF K
    <2>6. R(k) \in new /\ R(k).start <= i /\ i <= R(k).end
        BY <1>0, <1>1, <1>2, <2>2, <2>3, <2>5
    <2> QED
        BY <2>6
<1> QED
    BY <1>3, <1>4, <1>5

-----------------------------------------------------------------------------
(* The scheduling loop                                                     *)

\* try_start_fetches only moves ranges from pending to in flight, not too many,
\* and at least one if nothing else is in flight.
LEMMA StartFetches ==
    ASSUME NEW P \in SUBSET CommitRange, NEW I \in SUBSET CommitRange,
           NEW F \in SUBSET CommitRange,
           P \cap I = {}, Cardinality(I) <= Max2(1, ParallelFetches),
           try_start_fetches(P, I, F)
    PROVE  /\ pending_fetches' \cup inflight_fetches' = P \cup I
           /\ pending_fetches' \cap inflight_fetches' = {}
           /\ I \subseteq inflight_fetches'
           /\ Cardinality(inflight_fetches') <= Max2(1, ParallelFetches)
           /\ P \cup I # {} => inflight_fetches' # {}
<1> DEFINE target == target_parallel_fetches(Cardinality(F))
           free == target - Cardinality(I)
<1>1. PICK S \in SUBSET P :
          /\ Cardinality(S) = Max2(0, Min2(free, Cardinality(P)))
          /\ pending_fetches' = P \ S
          /\ inflight_fetches' = I \cup S
    BY DEF try_start_fetches
<1>2. /\ IsFiniteSet(P) /\ IsFiniteSet(I) /\ IsFiniteSet(F) /\ IsFiniteSet(S)
      /\ Cardinality(P) \in Nat /\ Cardinality(I) \in Nat /\ Cardinality(F) \in Nat
    <2>1. IsFiniteSet(P) /\ IsFiniteSet(I) /\ IsFiniteSet(F)
        BY FiniteRanges, FS_Subset
    <2>2. IsFiniteSet(S)
        BY <2>1, FS_Subset
    <2> QED
        BY <2>1, <2>2, FS_CardinalityType
<1>3. target \in Nat /\ target >= 1 /\ target <= Max2(1, ParallelFetches)
    BY <1>2, Parameters DEF target_parallel_fetches, Max2, Min2
<1> HIDE DEF target
<1>4. Cardinality(I \cup S) = Cardinality(I) + Cardinality(S)
    <2>1. I \cap S = {}
        OBVIOUS
    <2>2. Cardinality(I \cup S) = Cardinality(I) + Cardinality(S) - Cardinality(I \cap S)
        BY <1>2, FS_Union
    <2>3. Cardinality(I \cap S) = 0
        BY <2>1, FS_EmptySet
    <2>4. Cardinality(S) \in Nat
        BY <1>2, FS_CardinalityType
    <2> QED
        BY <1>2, <2>2, <2>3, <2>4
<1>5. Cardinality(I \cup S) <= Max2(1, ParallelFetches)
    BY <1>1, <1>2, <1>3, <1>4, Parameters DEF Max2, Min2
<1>6. ASSUME P # {}, I = {} PROVE S # {}
    <2>1. Cardinality(I) = 0 /\ Cardinality(P) # 0
        BY <1>2, <1>6, FS_EmptySet
    <2>2. Cardinality(S) >= 1
        BY <1>1, <1>2, <1>3, <2>1 DEF Max2, Min2
    <2> QED
        BY <2>2, FS_EmptySet
<1> QED
    BY <1>1, <1>5, <1>6

\* Sound only looks at the three sets together, and at which are apart.
LEMMA SoundMoved ==
    ASSUME NEW P, NEW I, NEW F, NEW synced, Sound(P, I, F, synced),
           NEW Q, NEW J, Q \cup J = P \cup I, Q \cap J = {}
    PROVE  Sound(Q, J, F, synced)
<1>1. Q \cup J \cup F = P \cup I \cup F
    OBVIOUS
<1> QED
    BY <1>1 DEF Sound

\* handle_fetch_result up to the next wait: what it pops is done, what it gives to
\* Core is next in line, and if it rests on a gap a fetch is on its way to fill it.
LEMMA ProcessFetchedIInv ==
    ASSUME TypeOK,
           NEW P, NEW I, NEW F, NEW synced \in 0..local, Sound(P, I, F, synced),
           highest_scheduled_index <= handled + unhandled_commits_threshold,
           Cardinality(I) <= Max2(1, ParallelFetches),
           ProcessFetched(F, synced, P, I),
           UNCHANGED <<local, quorum, handled, highest_scheduled_index>>
    PROVE  IInv'
<1> DEFINE rest == F \ AlreadySynced(F, synced)
           next == NextToSend(rest, synced)
<1>0. /\ local \in Nat /\ highest_scheduled_index \in Nat /\ synced \in Nat /\ synced <= local
      /\ P \in SUBSET CommitRange /\ I \in SUBSET CommitRange /\ F \in SUBSET CommitRange
      /\ rest \in SUBSET CommitRange /\ P \cap I = {}
    BY Parameters DEF TypeOK, Index, Sound
<1>1. synced_commit_index' = synced /\ sending' = next /\ fetched_ranges' = rest \ next
    BY DEF ProcessFetched
<1>2. \A r \in AlreadySynced(F, synced) : r.end <= synced
    BY DEF AlreadySynced
<1>3. \A r \in next : r \in rest /\ r.start <= synced + 1 /\ \A q \in rest : r.start <= q.start
    BY DEF NextToSend
<1>4. fetched_ranges' \cup sending' = rest
    BY <1>1, <1>3
<1>5. \A r \in P \cup I \cup F : r.start \in Nat /\ r.end \in Nat
    BY <1>0, RangeFields
<1>6. Sound(P, I, rest, synced)
    <2>1. \A i \in (synced + 1)..highest_scheduled_index :
              \E r \in P \cup I \cup rest : r.start <= i /\ i <= r.end
        <3>1. ASSUME NEW i \in (synced + 1)..highest_scheduled_index
              PROVE  \E r \in P \cup I \cup rest : r.start <= i /\ i <= r.end
            <4>1. PICK r \in P \cup I \cup F : r.start <= i /\ i <= r.end
                BY DEF Sound
            <4>2. r \notin AlreadySynced(F, synced)
                BY <1>0, <1>2, <1>5, <4>1
            <4> QED
                BY <4>1, <4>2
        <3> QED
            BY <3>1
    <2> QED
        BY <2>1 DEF Sound
<1>7. \A r, q \in sending' : r = q
    <2>1. ASSUME NEW r \in next, NEW q \in next PROVE r = q
        <3>0. r \in rest /\ q \in rest /\ r.start <= q.start /\ q.start <= r.start
            BY <1>3
        <3>1. r \in F /\ q \in F /\ r.start = q.start
            BY <1>5, <3>0
        <3>2. r.start <= r.end /\ q.start <= q.end
            BY <3>1 DEF Sound
        <3> QED
            BY <1>5, <3>1, <3>2 DEF Sound
    <2> QED
        BY <1>1, <2>1
<1>8. CASE next # {}
    <2>1. core' = "queued" /\ pending_fetches' = P /\ inflight_fetches' = I
        BY <1>8 DEF ProcessFetched
    <2>2. TypeOK'
        BY Zenon, <1>0, <1>1, <1>3, <2>1 DEF TypeOK
    <2>3. Sound(pending_fetches, inflight_fetches, fetched_ranges \cup sending, synced_commit_index)'
        BY ZenonT(60), <1>1, <1>4, <1>6, <2>1 DEF Sound
    <2>4. SendingInv' /\ NoStrandedRange'
        BY <1>1, <1>3, <1>7, <1>8, <2>1 DEF SendingInv, NoStrandedRange
    <2> QED
        BY <2>1, <2>2, <2>3, <2>4 DEF IInv, unhandled_commits_threshold
<1>9. CASE next = {}
    <2>1. core' = "idle" /\ try_start_fetches(P, I, rest)
        BY <1>9 DEF ProcessFetched
    <2>2. /\ pending_fetches' \cup inflight_fetches' = P \cup I
          /\ pending_fetches' \cap inflight_fetches' = {}
          /\ Cardinality(inflight_fetches') <= Max2(1, ParallelFetches)
          /\ P \cup I # {} => inflight_fetches' # {}
        BY <1>0, <2>1, StartFetches
    <2>3. fetched_ranges' = rest /\ sending' = {}
        BY <1>1, <1>9
    <2>4. TypeOK'
        <3>1. pending_fetches' \in SUBSET CommitRange /\ inflight_fetches' \in SUBSET CommitRange
            BY <1>0, <2>2
        <3> QED
            BY <1>0, <1>1, <2>1, <2>3, <3>1 DEF TypeOK
    <2>5. Sound(pending_fetches, inflight_fetches, fetched_ranges \cup sending, synced_commit_index)'
        <3>1. Sound(pending_fetches', inflight_fetches', rest, synced)
            BY <1>6, <2>2, SoundMoved
        <3> QED
            BY ZenonT(60), <1>1, <1>4, <3>1 DEF Sound
    <2>6. ASSUME rest # {} PROVE P \cup I # {}
        <3>1. \E f \in rest : \A q \in rest : f.start <= q.start
            <4> DEFINE T == {q.start : q \in rest}
            <4>1. T \in SUBSET Nat /\ T # {}
                BY <1>5, <2>6
            <4>2. \E x \in T : \A y \in T : x <= y
                <5> HIDE DEF T
                <5> QED BY <4>1, LeastNumber
            <4> QED
                BY <4>2
        <3>2. PICK f \in rest : \A q \in rest : f.start <= q.start
            BY <3>1
        <3>3. f.start > synced + 1
            BY <1>0, <1>5, <1>9, <3>2 DEF NextToSend
        <3>4. synced + 1 \in (synced + 1)..highest_scheduled_index
            <4>1. f.start <= f.end /\ f.end <= highest_scheduled_index
                BY <1>6 DEF Sound
            <4> QED
                BY <1>0, <1>5, <3>3, <4>1
        <3>5. PICK r \in P \cup I \cup rest : r.start <= synced + 1 /\ synced + 1 <= r.end
            BY <1>6, <3>4 DEF Sound
        <3>6. r \notin rest
            BY <1>0, <1>5, <3>2, <3>3, <3>5
        <3> QED
            BY <3>5, <3>6
    <2>7. NoStrandedRange' /\ SendingInv'
        BY <2>1, <2>2, <2>3, <2>6 DEF NoStrandedRange, SendingInv
    <2> QED
        BY <2>2, <2>4, <2>5, <2>7 DEF IInv, unhandled_commits_threshold
<1> QED
    BY <1>8, <1>9

\* The interval's tick: the new ranges come after all earlier ones and leave no gap.
LEMMA ScheduleIInv == IInv /\ try_schedule_once => IInv'
<1> SUFFICES ASSUME IInv, try_schedule_once PROVE IInv'
    OBVIOUS
<1> DEFINE synced == Max2(synced_commit_index, local)
           after == Max2(synced, highest_scheduled_index)
           new == NewRanges(after)
           old == pending_fetches \cup inflight_fetches \cup fetched_ranges
           P == pending_fetches \cup new
           top == highest_scheduled_index'
<1>1. /\ TypeOK /\ core = "idle" /\ sending = {}
      /\ Sound(pending_fetches, inflight_fetches, fetched_ranges, synced_commit_index)
      /\ highest_scheduled_index <= handled + unhandled_commits_threshold
      /\ Cardinality(inflight_fetches) <= Max2(1, ParallelFetches)
      /\ NoStrandedRange
    <2>1. core = "idle" /\ sending = {}
        BY DEF IInv, SendingInv, try_schedule_once
    <2>2. fetched_ranges \cup sending = fetched_ranges
        BY <2>1
    <2> QED
        BY <2>1, <2>2 DEF IInv
<1>2. /\ local \in Nat /\ local <= MaxCommit /\ handled \in Nat /\ synced_commit_index \in Nat
      /\ synced_commit_index <= local /\ highest_scheduled_index \in Nat /\ MaxCommit \in Nat
      /\ highest_scheduled_index <= MaxCommit /\ unhandled_commits_threshold \in Nat
    BY <1>1, Parameters DEF TypeOK, Index
<1>3. /\ synced = local /\ after \in Nat /\ synced <= after /\ highest_scheduled_index <= after
      /\ (after = synced \/ after = highest_scheduled_index)
    BY <1>2 DEF Max2
<1>4. /\ new \subseteq CommitRange
      /\ \A r \in new : /\ after < r.start /\ r.start <= r.end
                        /\ r.end <= handled + unhandled_commits_threshold
      /\ \A r, q \in new : r = q \/ r.end < q.start \/ q.end < r.start
      /\ \A r \in new : \A i \in (after + 1)..r.end : \E q \in new : q.start <= i /\ i <= q.end
    <2>1. quorum \in Index
        BY <1>1 DEF TypeOK
    <2> HIDE DEF after
    <2> QED
        BY <1>2, <1>3, <2>1, NewRangesFacts
<1>5. /\ synced_commit_index' = synced
      /\ top = IF new = {} THEN highest_scheduled_index
               ELSE CHOOSE e \in {r.end : r \in new} : \A r \in new : r.end <= e
      /\ try_start_fetches(P, inflight_fetches, fetched_ranges)
      /\ UNCHANGED <<local, quorum, handled, fetched_ranges, sending, core>>
    BY DEF try_schedule_once
<1> HIDE DEF new, after, synced
<1>6. \A r \in old \cup new : r.start \in Nat /\ r.end \in Nat /\ r.end <= MaxCommit
    BY <1>1, <1>4, RangeFields DEF TypeOK
<1>7. /\ new = {} => top = highest_scheduled_index
      /\ new # {} => (\E r \in new : top = r.end) /\ \A r \in new : r.end <= top
    <2>1. ASSUME new # {}
          PROVE  \E e \in {r.end : r \in new} : \A r \in new : r.end <= e
        <3> DEFINE T == {MaxCommit - r.end : r \in new}
        <3>1. T \in SUBSET Nat /\ T # {}
            BY <1>2, <1>6, <2>1
        <3>2. PICK x \in T : \A y \in T : x <= y
            <4> HIDE DEF T
            <4> QED BY <3>1, LeastNumber
        <3>3. PICK r \in new : x = MaxCommit - r.end
            OBVIOUS
        <3>4. ASSUME NEW q \in new PROVE q.end <= r.end
            <4>1. MaxCommit - r.end <= MaxCommit - q.end
                BY <3>2, <3>3
            <4> QED
                BY <1>2, <1>6, <4>1
        <3> QED
            BY <3>4
    <2>2. ASSUME new # {}
          PROVE  top \in {r.end : r \in new} /\ \A r \in new : r.end <= top
        <3> DEFINE E == {r.end : r \in new}
                   Top(e) == \A r \in new : r.end <= e
        <3>1. top = CHOOSE e \in E : Top(e)
            BY <1>5, <2>2
        <3>2. \E e \in E : Top(e)
            BY <2>1, <2>2
        <3>3. top \in E /\ Top(top)
            <4> HIDE DEF E, Top
            <4> QED BY <3>1, <3>2
        <3> QED
            BY <3>3
    <2> QED
        BY Zenon, <1>5, <2>2
<1>8. /\ top \in Nat /\ top <= MaxCommit /\ highest_scheduled_index <= top
      /\ top <= handled + unhandled_commits_threshold
    <2>1. CASE new = {}
        BY <1>1, <1>2, <1>7, <2>1
    <2>2. CASE new # {}
        <3>1. PICK r \in new : top = r.end
            BY <1>7, <2>2
        <3> QED
            BY <1>2, <1>3, <1>4, <1>6, <3>1
    <2> QED
        BY <2>1, <2>2
<1>9. \A r \in old : r.start <= r.end /\ r.end <= highest_scheduled_index
    BY <1>1 DEF Sound
<1>10. \A r \in old, q \in new : r.end < q.start
    BY <1>2, <1>3, <1>4, <1>6, <1>9
<1>11. old \cap new = {}
    <2>1. ASSUME NEW r \in old, r \in new PROVE FALSE
        BY <1>6, <1>9, <1>10, <2>1
    <2> QED
        BY <2>1
<1>12. \A r \in old \cup new : r.start <= r.end /\ r.end <= top
    <2>1. ASSUME NEW r \in old PROVE r.start <= r.end /\ r.end <= top
        BY <1>2, <1>6, <1>8, <1>9
    <2>2. ASSUME NEW r \in new PROVE r.start <= r.end /\ r.end <= top
        BY <1>4, <1>7
    <2> QED
        BY <2>1, <2>2
<1>13. \A r, q \in old \cup new : r = q \/ r.end < q.start \/ q.end < r.start
    <2>1. \A r, q \in old : r = q \/ r.end < q.start \/ q.end < r.start
        BY <1>1 DEF Sound
    <2> HIDE DEF old
    <2> QED
        BY <1>4, <1>10, <2>1
<1>14. ASSUME NEW i \in (synced + 1)..top
       PROVE  \E r \in old \cup new : r.start <= i /\ i <= r.end
    <2>1. i \in Nat /\ synced < i /\ i <= top
        BY <1>2, <1>3, <1>8
    <2>2. CASE i <= after
        <3>1. i \in (synced_commit_index + 1)..highest_scheduled_index
            BY <1>2, <1>3, <2>1, <2>2
        <3> QED
            BY <1>1, <3>1 DEF Sound
    <2>3. CASE after < i
        <3>1. new # {}
            BY <1>2, <1>3, <1>7, <2>1, <2>3
        <3>2. PICK r \in new : top = r.end
            BY <1>7, <3>1
        <3>3. i \in (after + 1)..r.end
            BY <1>3, <1>8, <2>1, <2>3, <3>2
        <3> QED
            BY <1>4, <3>3
    <2> QED
        BY <1>3, <2>1, <2>2, <2>3
<1>15. /\ P \in SUBSET CommitRange /\ inflight_fetches \in SUBSET CommitRange
       /\ fetched_ranges \in SUBSET CommitRange /\ P \cap inflight_fetches = {}
    BY <1>1, <1>4, <1>11 DEF TypeOK, Sound
<1>16. /\ pending_fetches' \cup inflight_fetches' = P \cup inflight_fetches
       /\ pending_fetches' \cap inflight_fetches' = {}
       /\ inflight_fetches \subseteq inflight_fetches'
       /\ Cardinality(inflight_fetches') <= Max2(1, ParallelFetches)
    <2> HIDE DEF P
    <2> QED
        BY <1>1, <1>5, <1>15, StartFetches
<1>17. TypeOK'
    <2>1. pending_fetches' \subseteq CommitRange /\ inflight_fetches' \subseteq CommitRange
        BY <1>15, <1>16
    <2>2. synced_commit_index' \in 0..local' /\ highest_scheduled_index' \in Index
        BY <1>2, <1>3, <1>5, <1>8 DEF Index
    <2> QED
        BY <1>1, <1>5, <2>1, <2>2 DEF TypeOK
<1>18. Sound(pending_fetches, inflight_fetches, fetched_ranges \cup sending, synced_commit_index)'
    <2>1. fetched_ranges' = fetched_ranges /\ sending' = {}
        BY <1>1, <1>5
    <2>2. pending_fetches' \cup inflight_fetches' \cup fetched_ranges = old \cup new
        BY <1>16
    <2>3. old \cup new \subseteq CommitRange
        BY <1>4, <1>15
    <2>4. (pending_fetches' \cup inflight_fetches') \cap fetched_ranges = {}
        BY <1>1, <1>11, <1>16 DEF Sound
    <2>5. pending_fetches' \cup inflight_fetches' \cup (fetched_ranges' \cup sending') = old \cup new
        BY <2>1, <2>2
    <2>6. (pending_fetches' \cup inflight_fetches') \cap (fetched_ranges' \cup sending') = {}
        BY <2>1, <2>4
    <2> HIDE DEF old
    <2> QED
        BY ZenonT(60), <1>5, <1>12, <1>13, <1>14, <1>16, <2>3, <2>5, <2>6 DEF Sound
<1>19. NoStrandedRange' /\ SendingInv'
    BY <1>1, <1>5, <1>16 DEF NoStrandedRange, SendingInv
<1> QED
    BY <1>5, <1>8, <1>16, <1>17, <1>18, <1>19 DEF IInv, unhandled_commits_threshold

\* A fetch ends: what it brought and what it did not bring make up its range.
LEMMA FetchResultIInv ==
    ASSUME IInv, NEW r \in inflight_fetches, NEW e \in Commits(r), handle_fetch_result(r, e)
    PROVE  IInv'
<1> DEFINE synced == Max2(synced_commit_index, local)
           new == IF synced < e THEN {[start |-> r.start, end |-> e]} ELSE {}
           left == Remainder(r, e)
           P == pending_fetches \cup left
           I == inflight_fetches \ {r}
           F == fetched_ranges \cup new
           old == pending_fetches \cup inflight_fetches \cup fetched_ranges
           others == pending_fetches \cup I \cup fetched_ranges
<1>1. /\ TypeOK /\ core = "idle" /\ sending = {}
      /\ Sound(pending_fetches, inflight_fetches, fetched_ranges, synced_commit_index)
      /\ highest_scheduled_index <= handled + unhandled_commits_threshold
      /\ Cardinality(inflight_fetches) <= Max2(1, ParallelFetches)
    <2>1. core = "idle" /\ sending = {}
        BY DEF IInv, SendingInv, handle_fetch_result
    <2>2. fetched_ranges \cup sending = fetched_ranges
        BY <2>1
    <2> QED
        BY <2>1, <2>2 DEF IInv
<1>2. /\ local \in Nat /\ synced_commit_index \in Nat /\ synced_commit_index <= local
      /\ highest_scheduled_index \in Nat /\ MaxCommit \in Nat
    BY <1>1, Parameters DEF TypeOK, Index
<1>3. synced = local
    BY <1>2 DEF Max2
<1>4. ProcessFetched(F, synced, P, I) /\ UNCHANGED <<local, quorum, handled, highest_scheduled_index>>
    BY DEF handle_fetch_result
<1>5. /\ r \in CommitRange /\ r.start \in Nat /\ r.start > 0 /\ r.end \in Nat /\ r.end <= MaxCommit
      /\ e \in Nat /\ r.start <= e /\ e <= r.end /\ r.end <= highest_scheduled_index
    <2>1. r \in CommitRange
        BY <1>1 DEF TypeOK
    <2>2. r.start \in Nat /\ r.start > 0 /\ r.end \in Nat /\ r.end <= MaxCommit
        BY <2>1, RangeFields
    <2>3. e \in r.start..r.end
        BY DEF Commits
    <2>4. r.end <= highest_scheduled_index
        BY <1>1 DEF Sound
    <2> QED
        BY <2>1, <2>2, <2>3, <2>4
<1>6. ASSUME NEW p \in new
      PROVE  p \in CommitRange /\ p.start = r.start /\ p.end = e /\ synced < e
    <2>1. p = [start |-> r.start, end |-> e] /\ synced < e
        OBVIOUS
    <2> QED
        BY <1>2, <1>5, <2>1 DEF CommitRange, Index
<1>7. ASSUME NEW p \in left
      PROVE  p \in CommitRange /\ p.start = e + 1 /\ p.end = r.end /\ e < r.end
    <2>1. p = [start |-> e + 1, end |-> r.end] /\ e < r.end
        BY DEF Remainder
    <2> QED
        BY <1>2, <1>5, <2>1 DEF CommitRange, Index
<1>8. /\ synced < e => \E p \in new : p.start = r.start /\ p.end = e
      /\ e < r.end => \E p \in left : p.start = e + 1 /\ p.end = r.end
    BY Zenon DEF Remainder
<1>9. \A p, q \in new : p = q
    OBVIOUS
<1>10. \A p, q \in left : p = q
    BY DEF Remainder
<1> HIDE DEF new, left, synced
<1>11. /\ others \cup {r} = old /\ r \notin others /\ others \subseteq CommitRange
       /\ \A q \in others : /\ q.start \in Nat /\ q.end \in Nat
                            /\ q.start <= q.end /\ q.end <= highest_scheduled_index
                            /\ (q.end < r.start \/ r.end < q.start)
    <2>1. others \cup {r} = old /\ r \notin others
        BY <1>1 DEF Sound
    <2>2. others \subseteq CommitRange
        BY <1>1 DEF Sound
    <2>3. ASSUME NEW q \in others
          PROVE  /\ q.start \in Nat /\ q.end \in Nat
                 /\ q.start <= q.end /\ q.end <= highest_scheduled_index
                 /\ (q.end < r.start \/ r.end < q.start)
        <3>1. q \in old /\ r \in old /\ q # r
            BY <2>1
        <3>2. q.start \in Nat /\ q.end \in Nat
            BY <2>2, RangeFields
        <3> QED
            BY <1>1, <3>1, <3>2 DEF Sound
    <2> QED
        BY <2>1, <2>2, <2>3
<1>12. ASSUME NEW p \in new \cup left
       PROVE  /\ p \in CommitRange /\ p.start \in Nat /\ p.end \in Nat
              /\ r.start <= p.start /\ p.start <= p.end /\ p.end <= r.end
              /\ p \notin others
              /\ \A q \in others : q.end < p.start \/ p.end < q.start
    <2>1. /\ p \in CommitRange /\ p.start \in Nat /\ p.end \in Nat
          /\ r.start <= p.start /\ p.start <= p.end /\ p.end <= r.end
        <3>1. CASE p \in new
            BY <1>5, <1>6, <3>1
        <3>2. CASE p \in left
            BY <1>5, <1>7, <3>2
        <3> QED
            BY <3>1, <3>2
    <2>2. \A q \in others : q.end < p.start \/ p.end < q.start
        BY <1>5, <1>11, <2>1
    <2>3. p \notin others
        BY <2>1, <2>2
    <2> QED
        BY <2>1, <2>2, <2>3
<1>13. ASSUME NEW p \in new, NEW q \in left PROVE p.end < q.start /\ p # q
    BY <1>5, <1>6, <1>7
<1>14. P \cup I \cup F = others \cup (new \cup left)
    OBVIOUS
<1>15. P \cap I = {} /\ (P \cup I) \cap F = {}
    <2>1. /\ pending_fetches \cap inflight_fetches = {}
          /\ (pending_fetches \cup inflight_fetches) \cap fetched_ranges = {}
        BY <1>1 DEF Sound
    <2>2. (new \cup left) \cap others = {} /\ new \cap left = {}
        <3> HIDE DEF others
        <3> QED BY <1>12, <1>13
    <2> QED
        BY <2>1, <2>2
<1>16. Sound(P, I, F, synced)
    <2>1. P \cup I \cup F \subseteq CommitRange
        <3> HIDE DEF others
        <3> QED BY <1>11, <1>12, <1>14
    <2>2. ASSUME NEW p \in others \cup (new \cup left)
          PROVE  p.start <= p.end /\ p.end <= highest_scheduled_index
        <3> HIDE DEF others
        <3>1. CASE p \in others
            BY <1>11, <3>1
        <3>2. CASE p \in new \cup left
            BY <1>2, <1>5, <1>12, <3>2
        <3> QED BY <3>1, <3>2
    <2>3. ASSUME NEW p \in others \cup (new \cup left), NEW q \in others \cup (new \cup left)
          PROVE  p = q \/ p.end < q.start \/ q.end < p.start
        <3>1. CASE p \in others /\ q \in others
            <4>1. p \in old /\ q \in old
                BY <3>1
            <4> QED
                BY <1>1, <4>1 DEF Sound
        <3> HIDE DEF others
        <3>2. CASE p \in others /\ q \in new \cup left
            BY <1>12, <3>2
        <3>3. CASE p \in new \cup left /\ q \in others
            BY <1>12, <3>3
        <3>4. CASE p \in new \cup left /\ q \in new \cup left
            BY <1>9, <1>10, <1>13, <3>4
        <3> QED
            BY <3>1, <3>2, <3>3, <3>4
    <2>4. ASSUME NEW i \in (synced + 1)..highest_scheduled_index
          PROVE  \E q \in others \cup (new \cup left) : q.start <= i /\ i <= q.end
        <3>1. i \in Nat /\ synced < i /\ i \in (synced_commit_index + 1)..highest_scheduled_index
            BY <1>2, <1>3
        <3>2. PICK q \in old : q.start <= i /\ i <= q.end
            BY <1>1, <3>1 DEF Sound
        <3> HIDE DEF others, old
        <3>3. CASE q # r
            BY <1>11, <3>2, <3>3
        <3>4. CASE q = r /\ i <= e
            BY <1>2, <1>3, <1>5, <1>8, <3>1, <3>2, <3>4
        <3>5. CASE q = r /\ e < i
            BY <1>5, <1>8, <3>1, <3>2, <3>5
        <3> QED
            BY <1>5, <3>1, <3>3, <3>4, <3>5
    <2> HIDE DEF P, I, F, others
    <2> QED
        BY <1>14, <1>15, <2>1, <2>2, <2>3, <2>4 DEF Sound
<1>17. Cardinality(I) <= Max2(1, ParallelFetches)
    <2>1. IsFiniteSet(inflight_fetches)
        BY <1>1, FiniteRanges, FS_Subset DEF TypeOK
    <2>2. I \subseteq inflight_fetches
        OBVIOUS
    <2>3. IsFiniteSet(I) /\ Cardinality(I) <= Cardinality(inflight_fetches)
        BY <2>1, <2>2, FS_Subset
    <2>4. Cardinality(I) \in Nat /\ Cardinality(inflight_fetches) \in Nat
        BY <2>1, <2>3, FS_CardinalityType
    <2> QED
        BY <1>1, <2>3, <2>4, Parameters DEF Max2
<1>18. synced \in 0..local
    BY <1>2, <1>3
<1> HIDE DEF P, I, F
<1> QED
    BY <1>1, <1>4, <1>16, <1>17, <1>18, ProcessFetchedIInv

\* Core answered: the range it added is done, and the loop goes on.
LEMMA CommitsAddedIInv == IInv /\ CommitsAdded => IInv'
<1> SUFFICES ASSUME IInv, CommitsAdded PROVE IInv'
    OBVIOUS
<1>1. PICK r \in sending :
          ProcessFetched(fetched_ranges, Max2(synced_commit_index, r.end), pending_fetches,
                         inflight_fetches)
    BY DEF CommitsAdded
<1> DEFINE synced == Max2(synced_commit_index, r.end)
<1>2. core = "added" /\ UNCHANGED <<local, quorum, handled, highest_scheduled_index>>
    BY DEF CommitsAdded
<1>3. /\ TypeOK
      /\ Sound(pending_fetches, inflight_fetches, fetched_ranges \cup sending, synced_commit_index)
      /\ sending = {r} /\ r.end <= local
    BY <1>2 DEF IInv, SendingInv
<1>4. /\ local \in Nat /\ synced_commit_index \in Nat /\ synced_commit_index <= local
      /\ highest_scheduled_index \in Nat /\ r.end \in Nat /\ r.end <= local
    BY <1>3, Parameters, RangeFields DEF TypeOK, Index
<1>5. synced \in 0..local /\ synced_commit_index <= synced /\ r.end <= synced
    BY <1>4 DEF Max2
<1> HIDE DEF synced
<1>6. Sound(pending_fetches, inflight_fetches, fetched_ranges, synced)
    <2>1. ASSUME NEW i \in (synced + 1)..highest_scheduled_index
          PROVE  \E q \in pending_fetches \cup inflight_fetches \cup fetched_ranges :
                     q.start <= i /\ i <= q.end
        <3>1. i \in Nat /\ r.end < i /\ i \in (synced_commit_index + 1)..highest_scheduled_index
            BY <1>4, <1>5
        <3>2. PICK q \in pending_fetches \cup inflight_fetches \cup (fetched_ranges \cup sending) :
                  q.start <= i /\ i <= q.end
            BY <1>3, <3>1 DEF Sound
        <3>3. q # r
            BY <1>4, <3>1, <3>2
        <3> QED
            BY <1>3, <3>2, <3>3
    <2> QED
        BY <1>3, <2>1 DEF Sound
<1>7. /\ highest_scheduled_index <= handled + unhandled_commits_threshold
      /\ Cardinality(inflight_fetches) <= Max2(1, ParallelFetches)
    BY DEF IInv
<1>8. ProcessFetched(fetched_ranges, synced, pending_fetches, inflight_fetches)
    BY <1>1 DEF synced
<1> QED
    BY <1>2, <1>3, <1>5, <1>6, <1>7, <1>8, ProcessFetchedIInv

-----------------------------------------------------------------------------
(* The rest of the node                                                    *)

\* Votes arrive, the core thread commits on its own, execution goes on: what the
\* syncer knows may be late but stays true.
LEMMA NodeIInv == IInv /\ Node => IInv'
<1> SUFFICES ASSUME IInv, Node PROVE IInv'
    OBVIOUS
<1>0. /\ TypeOK /\ MaxCommit \in Nat /\ unhandled_commits_threshold \in Nat
      /\ local \in Nat /\ local <= MaxCommit /\ handled \in Nat /\ handled <= local
      /\ synced_commit_index \in Nat /\ synced_commit_index <= local
      /\ highest_scheduled_index \in Nat
      /\ highest_scheduled_index <= handled + unhandled_commits_threshold
    BY Parameters DEF IInv, TypeOK, Index
<1>1. ASSUME NEW i \in Index, ObserveVotes(i) PROVE IInv'
    <2>1. TypeOK'
        BY <1>0, <1>1 DEF ObserveVotes, TypeOK, syncVars
    <2> QED
        BY <1>1, <2>1 DEF IInv, ObserveVotes, syncVars, Sound, SendingInv, NoStrandedRange,
                          unhandled_commits_threshold
<1>2. CASE CommitLocally
    <2>1. local' = local + 1 /\ local < MaxCommit /\ UNCHANGED <<quorum, handled, syncVars>>
        BY <1>2 DEF CommitLocally
    <2>2. TypeOK'
        BY <1>0, <2>1 DEF syncVars, TypeOK, Index
    <2>3. SendingInv'
        <3>1. ASSUME core = "added", NEW r \in sending PROVE r.end <= local + 1
            <4>1. r.end <= local /\ r.end \in Nat
                BY <1>0, <3>1, RangeFields DEF IInv, SendingInv, TypeOK
            <4> QED
                BY <1>0, <4>1
        <3> QED
            BY <2>1, <3>1 DEF IInv, SendingInv, syncVars
    <2> QED
        BY <2>1, <2>2, <2>3 DEF IInv, syncVars, Sound, NoStrandedRange, unhandled_commits_threshold
<1>3. CASE HandleCommit
    <2>1. handled' = handled + 1 /\ handled < local /\ UNCHANGED <<local, quorum, syncVars>>
        BY <1>3 DEF HandleCommit
    <2>2. TypeOK'
        BY <1>0, <2>1 DEF syncVars, TypeOK, Index
    <2>3. highest_scheduled_index' <= handled' + unhandled_commits_threshold
        BY <1>0, <2>1 DEF syncVars
    <2> QED
        BY <2>1, <2>2, <2>3 DEF IInv, syncVars, Sound, SendingInv, NoStrandedRange,
                                unhandled_commits_threshold
<1>4. CASE add_certified_commits
    <2>1. PICK r \in sending : local' = Max2(local, r.end)
        BY <1>4 DEF add_certified_commits
    <2>2. /\ core = "queued" /\ core' = "added"
          /\ UNCHANGED <<quorum, handled, pending_fetches, inflight_fetches, fetched_ranges,
                         highest_scheduled_index, synced_commit_index, sending>>
        BY <1>4 DEF add_certified_commits
    <2>3. /\ sending = {r} /\ r.end \in Nat /\ r.end <= MaxCommit
          /\ r.start <= synced_commit_index + 1
        BY <1>0, <2>2, RangeFields DEF IInv, SendingInv, TypeOK
    <2>4. local' \in Nat /\ local' <= MaxCommit /\ local <= local' /\ r.end <= local'
        BY <1>0, <2>1, <2>3 DEF Max2
    <2>5. TypeOK'
        <3>1. local' \in Index /\ handled' \in 0..local' /\ synced_commit_index' \in 0..local'
            BY <1>0, <2>2, <2>4 DEF Index
        <3> QED
            BY <1>0, <2>2, <3>1 DEF TypeOK
    <2>6. SendingInv' /\ NoStrandedRange'
        BY <2>2, <2>3, <2>4 DEF SendingInv, NoStrandedRange
    <2> QED
        BY <2>2, <2>5, <2>6 DEF IInv, Sound, unhandled_commits_threshold
<1> QED
    BY <1>1, <1>2, <1>3, <1>4 DEF Node

\* A syncer that starts has nothing scheduled.
LEMMA FreshIInv ==
    ASSUME TypeOK, pending_fetches = {}, inflight_fetches = {}, fetched_ranges = {}, sending = {},
           highest_scheduled_index = 0, core = "idle"
    PROVE  IInv
<1>1. synced_commit_index \in Nat /\ handled \in Nat /\ unhandled_commits_threshold \in Nat
    BY Parameters DEF TypeOK, Index
<1>2. (synced_commit_index + 1)..highest_scheduled_index = {}
    BY <1>1
<1>3. Cardinality(inflight_fetches) <= Max2(1, ParallelFetches)
    BY FS_EmptySet, Parameters DEF Max2
<1>4. Sound(pending_fetches, inflight_fetches, fetched_ranges \cup sending, synced_commit_index)
    BY <1>2 DEF Sound
<1> QED
    BY <1>1, <1>3, <1>4 DEF IInv, SendingInv, NoStrandedRange

-----------------------------------------------------------------------------
(* The invariant and what follows from it                                  *)

\* The invariant holds in every reachable state of the syncer, restarts included.
THEOREM SyncerInvariant == Spec => []IInv
<1>1. Init => IInv
    <2> SUFFICES ASSUME Init PROVE IInv
        OBVIOUS
    <2>1. TypeOK
        BY Parameters DEF Init, TypeOK, Index
    <2> QED
        BY <2>1, FreshIInv DEF Init
<1>2. IInv /\ [Next]_vars => IInv'
    <2> SUFFICES ASSUME IInv, [Next]_vars PROVE IInv'
        OBVIOUS
    <2>1. CASE Node
        BY <2>1, NodeIInv
    <2>2. CASE try_schedule_once
        BY <2>2, ScheduleIInv
    <2>3. ASSUME NEW r \in inflight_fetches, NEW e \in Commits(r), handle_fetch_result(r, e)
          PROVE  IInv'
        BY <2>3, FetchResultIInv
    <2>4. CASE CommitsAdded
        BY <2>4, CommitsAddedIInv
    <2>5. ASSUME NEW stored \in Index, NEW processed \in Index, Restart(stored, processed)
          PROVE  IInv'
        <3>1. /\ local' = stored /\ handled' = processed /\ quorum' = 0 /\ pending_fetches' = {}
              /\ inflight_fetches' = {} /\ fetched_ranges' = {} /\ highest_scheduled_index' = 0
              /\ synced_commit_index' = stored /\ sending' = {} /\ core' = "idle"
              /\ processed <= handled /\ handled <= stored
            BY <2>5 DEF Restart
        <3>2. handled \in Nat /\ MaxCommit \in Nat
            <4>1. local \in Nat /\ MaxCommit \in Nat /\ handled \in 0..local
                BY Parameters DEF IInv, TypeOK, Index
            <4> QED
                BY <4>1
        <3>3. processed \in 0..stored /\ stored \in 0..stored /\ 0 \in Index
            BY <3>1, <3>2 DEF Index
        <3>4. TypeOK'
            BY <3>1, <3>3 DEF TypeOK
        <3>5. synced_commit_index' \in Nat /\ handled' \in Nat /\ unhandled_commits_threshold \in Nat
            BY <3>1, Parameters DEF Index
        <3>6. (synced_commit_index' + 1)..highest_scheduled_index' = {}
            BY <3>1, <3>5
        <3>7. Cardinality(inflight_fetches') <= Max2(1, ParallelFetches)
            BY <3>1, FS_EmptySet, Parameters DEF Max2
        <3>8. Sound(pending_fetches, inflight_fetches, fetched_ranges \cup sending, synced_commit_index)'
            BY <3>1, <3>6 DEF Sound
        <3>9. highest_scheduled_index' <= handled' + unhandled_commits_threshold
            BY <3>1, <3>5
        <3> QED
            BY <3>1, <3>4, <3>7, <3>8, <3>9
               DEF IInv, SendingInv, NoStrandedRange, unhandled_commits_threshold
    <2>6. CASE UNCHANGED vars
        <3>1. UNCHANGED <<local, quorum, handled, pending_fetches, inflight_fetches, fetched_ranges,
                          highest_scheduled_index, synced_commit_index, sending, core>>
            BY <2>6 DEF vars, syncVars
        <3> QED
            BY <3>1 DEF IInv, TypeOK, Sound, SendingInv, NoStrandedRange, unhandled_commits_threshold
    <2> QED
        BY <2>1, <2>2, <2>3, <2>4, <2>5, <2>6 DEF Next, ScheduleLoop, SomeRestart
<1> QED
    BY <1>1, <1>2, PTL DEF Spec

\* filter_new_commits never finds a gap: the expect in add_certified_commits is
\* unreachable, whichever fetch ends first.
THEOREM CoreIsNeverGivenAGap == Spec => []NoGapReachesCore
<1>1. IInv => NoGapReachesCore
    <2> SUFFICES ASSUME IInv, core = "queued"
                 PROVE  \E r \in sending : r.start <= local + 1
        BY DEF NoGapReachesCore
    <2>1. PICK r \in sending : r.start <= synced_commit_index + 1
        BY DEF IInv, SendingInv
    <2>2. r.start \in Nat /\ local \in Nat /\ synced_commit_index \in Nat /\ synced_commit_index <= local
        BY RangeFields, Parameters DEF IInv, TypeOK, Index
    <2> QED
        BY <2>1, <2>2
<1> QED
    BY <1>1, SyncerInvariant, PTL

\* The syncer's collections split what is left to hand over: no commit is forgotten
\* and none is fetched twice.
THEOREM RangesStayPartitioned == Spec => []RangesPartition
<1>1. IInv => RangesPartition
    <2> SUFFICES ASSUME IInv PROVE RangesPartition
        OBVIOUS
    <2> DEFINE all == pending_fetches \cup inflight_fetches \cup (fetched_ranges \cup sending)
    <2>1. Scheduled = all
        BY DEF Scheduled
    <2>2. \A r \in all : r.start \in Nat /\ r.end \in Nat
        BY RangeFields DEF IInv, Sound
    <2>3. NothingIsForgotten
        <3>1. ASSUME NEW i \in (synced_commit_index + 1)..highest_scheduled_index
              PROVE  \E r \in Scheduled : i \in Commits(r)
            <4>1. PICK r \in all : r.start <= i /\ i <= r.end
                BY DEF IInv, Sound
            <4>2. i \in Nat
                BY Parameters DEF IInv, TypeOK, Index
            <4> QED
                BY <2>1, <2>2, <4>1, <4>2 DEF Commits
        <3> QED
            BY <3>1 DEF NothingIsForgotten
    <2>4. ASSUME NEW r \in all, NEW q \in all, Commits(r) \cap Commits(q) # {} PROVE r = q
        <3>1. PICK i : i \in Commits(r) /\ i \in Commits(q)
            BY <2>4
        <3>2. i \in Nat /\ r.start <= i /\ i <= r.end /\ q.start <= i /\ i <= q.end
            BY <2>2, <3>1 DEF Commits
        <3>3. r = q \/ r.end < q.start \/ q.end < r.start
            BY DEF IInv, Sound
        <3> QED
            BY <2>2, <3>2, <3>3
    <2>5. RangesAreDisjoint
        <3>1. /\ pending_fetches \cap inflight_fetches = {}
              /\ (pending_fetches \cup inflight_fetches) \cap (fetched_ranges \cup sending) = {}
            BY DEF IInv, Sound
        <3> QED
            BY <2>1, <2>4, <3>1 DEF RangesAreDisjoint
    <2> QED
        BY <2>3, <2>5 DEF RangesPartition
<1> QED
    BY <1>1, SyncerInvariant, PTL

\* All the syncer holds is within the threshold of what execution has handled, and
\* it never runs more fetches than it is allowed to.
THEOREM SyncerStaysBounded == Spec => []SyncerIsBounded
<1>1. IInv => SyncerIsBounded
    <2> SUFFICES ASSUME IInv PROVE SyncerIsBounded
        OBVIOUS
    <2>1. ASSUME NEW r \in Scheduled PROVE r.end <= handled + unhandled_commits_threshold
        <3>1. r \in CommitRange /\ r.end <= highest_scheduled_index
            BY DEF Scheduled, IInv, Sound
        <3>2. /\ r.end \in Nat /\ highest_scheduled_index \in Nat /\ handled \in Nat
              /\ unhandled_commits_threshold \in Nat
              /\ highest_scheduled_index <= handled + unhandled_commits_threshold
            BY <3>1, RangeFields, Parameters DEF IInv, TypeOK, Index
        <3> QED
            BY <3>1, <3>2
    <2> QED
        BY <2>1 DEF SyncerIsBounded, IInv
<1> QED
    BY <1>1, SyncerInvariant, PTL

\* While the loop rests, a fetched range implies a running fetch that will wake it.
THEOREM NoRangeIsStranded == Spec => []NoStrandedRange
<1>1. IInv => NoStrandedRange
    BY DEF IInv
<1> QED
    BY <1>1, SyncerInvariant, PTL
=============================================================================
