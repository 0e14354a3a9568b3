-------------------------- MODULE CommitLoopProofs --------------------------
(***************************************************************************)
(* Proofs about CommitLoop, for any authorities, any number of commits per *)
(* schedule, any rounds and any outcome of the slots: all authorities make *)
(* the log that going through the rounds one at a time would make, and     *)
(* implement ReplicatedLog.                                                *)
(***************************************************************************)
EXTENDS CommitLoop, SequenceTheorems, WellFoundedInduction, TLAPS

N == NumCommitsPerSchedule

-----------------------------------------------------------------------------
(* Numbers                                                                 *)

\* A set of natural numbers has a least element.
LEMMA LeastNumber ==
  ASSUME NEW T \in SUBSET Nat, T /= {}
  PROVE  \E x \in T : \A y \in T : x <= y
<1> DEFINE R == OpToRel(<, Nat)
<1>1. \E x \in T : \A y \in T : ~ (<<y, x>> \in R)
  <2>1. IsWellFoundedOn(R, Nat)
    BY Zenon, NatLessThanWellFounded
  <2> HIDE DEF R
  <2> QED BY Zenon, <2>1, WFMin
<1>2. \A x, y \in Nat : <<y, x>> \in R <=> y < x
  BY DEF OpToRel
<1>3. PICK x \in T : \A y \in T : ~ (<<y, x>> \in R)
  BY Zenon, <1>1
<1> HIDE DEF R
<1>4. ASSUME NEW y \in T PROVE x <= y
  <2>1. x \in Nat /\ y \in Nat
    OBVIOUS
  <2>2. ~ (y < x)
    BY Zenon, <1>2, <1>3, <2>1
  <2> QED BY <2>1, <2>2
<1> QED BY <1>4

\* Induction, for a set of numbers.
LEMMA InductionOverSet ==
  ASSUME NEW S, 0 \in S, \A n \in Nat : n \in S => n + 1 \in S
  PROVE  Nat \subseteq S
<1> SUFFICES ASSUME Nat \ S /= {} PROVE FALSE
  OBVIOUS
<1>1. PICK x \in Nat \ S : \A y \in Nat \ S : x <= y
  BY Zenon, LeastNumber
<1>2. x /= 0
  BY <1>1
<1>3. x - 1 \in Nat /\ x - 1 \in S
  BY <1>1, <1>2
<1> QED BY <1>1, <1>3

\* The commits K + 1 to K + N of a schedule.
LEMMA InOneGroup ==
  ASSUME NEW K \in Nat, K % N = 0, NEW j \in Nat, K <= j, j < K + N
  PROVE  j - (j % N) = K
<1> DEFINE a == K \div N
           b == j \div N
<1>0. N \in Nat \ {0}
  BY ScheduleAssumption DEF N
<1>1. a \in Int /\ K = N * a
  BY <1>0
<1>2. b \in Int /\ j = N * b + (j % N) /\ (j % N) \in 0..(N - 1)
  BY <1>0
<1> HIDE DEF a, b
<1>3. N * (a - b) = (j % N) - (j - K) /\ (j % N) - (j - K) > - N /\ (j % N) - (j - K) < N
  BY <1>0, <1>1, <1>2
<1>4. a - b = 0
  <2>1. a - b >= 1 => N * (a - b) >= N
    BY <1>0, <1>1, <1>2
  <2>2. a - b <= -1 => N * (a - b) <= - N
    BY <1>0, <1>1, <1>2
  <2> QED BY <1>0, <1>1, <1>2, <1>3, <2>1, <2>2
<1> QED BY <1>0, <1>1, <1>2, <1>3, <1>4

-----------------------------------------------------------------------------
(* The agreed log                                                          *)

\* The round of the i-th commit of l, 0 before the first.
RoundAt(l, i) == IF i = 0 THEN 0 ELSE l[i].round

\* The i-th commit of l is the first after the previous one that its schedule
\* decides to commit, and of a round up to m.
IsCommitAt(l, i, m) ==
    /\ l[i].index = i
    /\ l[i].round \in 1..m
    /\ \A j \in 0..(i - 1) : l[i].round >= RoundAt(l, j) + (i - j)
    /\ Decides(ScheduleFor(l, i), l[i].round)
    /\ \A r \in (RoundAt(l, i - 1) + 1)..(l[i].round - 1) : ~ Decides(ScheduleFor(l, i), r)

\* What characterises the log made by the rounds up to m.
IsLogUpTo(l, m) ==
    /\ l \in Seq(Commit)
    /\ \A i \in 1..Len(l) : IsCommitAt(l, i, m)
    /\ \A r \in (RoundAt(l, Len(l)) + 1)..m : ~ Decides(ScheduleFor(l, Len(l) + 1), r)

\* The last commit of the schedule's group before commit i.
LEMMA GroupBefore ==
  ASSUME NEW i \in Nat
  PROVE  LET last == i - (i % N)
         IN  last \in Nat /\ last <= i /\ (last = 0 \/ last >= N)
<1> DEFINE q == i \div N
           e == i % N
<1>0. N \in Nat \ {0}
  BY ScheduleAssumption DEF N
<1>1. q \in Nat /\ e \in 0..(N - 1) /\ i = N * q + e
  BY <1>0
<1> HIDE DEF q, e
<1>2. i - e = N * q
  BY <1>0, <1>1
<1>3. q = 0 \/ (q >= 1 /\ N * q >= N)
  BY <1>0, <1>1
<1>4. N * q \in Nat
  BY <1>0, <1>1
<1>5. i - e \in Nat /\ i - e <= i /\ (i - e = 0 \/ i - e >= N)
  <2>1. CASE q = 0
    BY <1>0, <1>1, <1>2, <2>1
  <2>2. CASE q >= 1
    BY <1>0, <1>1, <1>2, <1>3, <1>4, <2>2
  <2> QED BY <1>1, <2>1, <2>2
<1> QED BY <1>5 DEF e

\* The schedule for commit i depends on earlier commits only.
LEMMA ScheduleOfPrefix ==
  ASSUME NEW l \in Seq(Commit), NEW k \in Seq(Commit), NEW i \in Nat \ {0},
         i <= Len(l) + 1, i <= Len(k) + 1, \A j \in 1..(i - 1) : l[j] = k[j]
  PROVE  ScheduleFor(l, i) = ScheduleFor(k, i)
<1> DEFINE last == (i - 1) - ((i - 1) % N)
<1>0. N \in Nat \ {0}
  BY ScheduleAssumption DEF N
<1>1. last \in Nat /\ last <= i - 1 /\ (last = 0 \/ last >= N)
  <2>1. i - 1 \in Nat
    OBVIOUS
  <2> QED BY Zenon, <2>1, GroupBefore
<1>2. /\ ScheduleFor(l, i) = IF last = 0 THEN <<>> ELSE SubSeq(l, last - N + 1, last)
      /\ ScheduleFor(k, i) = IF last = 0 THEN <<>> ELSE SubSeq(k, last - N + 1, last)
  BY DEF ScheduleFor, N
<1> HIDE DEF last
<1>3. ASSUME last /= 0 PROVE SubSeq(l, last - N + 1, last) = SubSeq(k, last - N + 1, last)
  <2> DEFINE first == last - N + 1
             s == SubSeq(l, first, last)
             t == SubSeq(k, first, last)
  <2>1. first \in Int /\ last \in Int /\ first <= last /\ first >= 1
    BY <1>0, <1>1, <1>3
  <2> HIDE DEF first
  <2>2. \A j \in first..last : j \in 1..Len(l) /\ j \in 1..Len(k) /\ j \in 1..(i - 1)
    BY <1>1, <2>1
  <2>3. \A j \in first..last : l[j] \in Commit /\ k[j] \in Commit
    BY <2>2
  <2>4. /\ s \in Seq(Commit) /\ Len(s) = last - first + 1
        /\ \A j \in 1..(last - first + 1) : s[j] = l[first + j - 1]
    BY <2>1, <2>3, SubSeqProperties
  <2>5. /\ t \in Seq(Commit) /\ Len(t) = last - first + 1
        /\ \A j \in 1..(last - first + 1) : t[j] = k[first + j - 1]
    BY <2>1, <2>3, SubSeqProperties
  <2> HIDE DEF s, t
  <2>6. ASSUME NEW j \in 1..(last - first + 1) PROVE s[j] = t[j]
    <3>1. first + j - 1 \in first..last
      BY <2>1
    <3> QED BY <2>2, <2>4, <2>5, <3>1
  <2>7. s = t
    BY <2>4, <2>5, <2>6, SeqEqual
  <2> QED BY Zenon, <2>7 DEF s, t, first
<1>4. CASE last = 0
  BY <1>2, <1>4
<1>5. CASE last /= 0
  BY Zenon, <1>2, <1>3, <1>5
<1> QED BY <1>4, <1>5

\* WithRound extends a log by a round.
LEMMA WithRoundIsLog ==
  ASSUME NEW m \in Nat, NEW l, IsLogUpTo(l, m)
  PROVE  IsLogUpTo(WithRound(l, m + 1), m + 1)
<1> DEFINE t == ScheduleFor(l, Len(l) + 1)
           c == [index |-> Len(l) + 1, round |-> m + 1]
<1>0. l \in Seq(Commit) /\ Len(l) \in Nat
  BY DEF IsLogUpTo
<1>00. c \in Commit
  BY <1>0 DEF Commit
<1>000. ASSUME NEW j \in 0..Len(l)
        PROVE  /\ RoundAt(l, j) \in 0..m
               /\ RoundAt(l, Len(l)) >= RoundAt(l, j) + (Len(l) - j)
  <2>1. RoundAt(l, j) \in 0..m
    BY <1>0 DEF IsLogUpTo, IsCommitAt, RoundAt
  <2>2. CASE j = Len(l)
    BY <1>0, <2>1, <2>2
  <2>3. CASE j < Len(l)
    <3>1. IsCommitAt(l, Len(l), m) /\ j \in 0..(Len(l) - 1)
      BY <1>0, <2>3 DEF IsLogUpTo
    <3> QED BY <1>0, <2>1, <2>3, <3>1 DEF IsCommitAt, RoundAt
  <2> QED BY <1>0, <2>1, <2>2, <2>3
<1>1. CASE ~ Decides(t, m + 1)
  <2>1. WithRound(l, m + 1) = l
    BY <1>1 DEF WithRound
  <2>2. RoundAt(l, Len(l)) \in 0..m
    BY <1>0, <1>000
  <2>3. \A r \in (RoundAt(l, Len(l)) + 1)..(m + 1) : ~ Decides(t, r)
    BY <1>1, <2>2 DEF IsLogUpTo
  <2>4. \A i \in 1..Len(l) : IsCommitAt(l, i, m + 1)
    <3> SUFFICES ASSUME NEW i \in 1..Len(l) PROVE IsCommitAt(l, i, m + 1)
      OBVIOUS
    <3>1. IsCommitAt(l, i, m)
      BY DEF IsLogUpTo
    <3>2. \A r \in 1..m : r \in 1..(m + 1)
      OBVIOUS
    <3> QED BY <3>1, <3>2 DEF IsCommitAt
  <2> QED BY <1>0, <2>1, <2>3, <2>4 DEF IsLogUpTo
<1>2. CASE Decides(t, m + 1)
  <2> DEFINE k == Append(l, c)
  <2>1. WithRound(l, m + 1) = k
    BY <1>2 DEF WithRound
  <2>2. /\ k \in Seq(Commit) /\ Len(k) = Len(l) + 1
        /\ \A i \in 1..Len(l) : k[i] = l[i]
        /\ k[Len(l) + 1] = c
    BY <1>0, <1>00, AppendProperties
  <2> HIDE DEF k
  <2>3. ASSUME NEW i \in 1..(Len(l) + 1) PROVE ScheduleFor(k, i) = ScheduleFor(l, i)
    <3>1. i \in Nat \ {0} /\ i <= Len(l) + 1 /\ i <= Len(k) + 1
      BY <1>0, <2>2
    <3>2. \A j \in 1..(i - 1) : j \in 1..Len(l)
      BY <1>0
    <3>3. \A j \in 1..(i - 1) : k[j] = l[j]
      BY Zenon, <2>2, <3>2
    <3> QED BY <1>0, <2>2, <3>1, <3>3, ScheduleOfPrefix
  <2>4. ASSUME NEW j \in 0..Len(l) PROVE RoundAt(k, j) = RoundAt(l, j)
    BY <1>0, <2>2 DEF RoundAt
  <2>5. ASSUME NEW i \in 1..Len(l) PROVE IsCommitAt(k, i, m + 1)
    <3>1. IsCommitAt(l, i, m) /\ k[i] = l[i] /\ ScheduleFor(k, i) = ScheduleFor(l, i)
      BY <1>0, <2>2, <2>3 DEF IsLogUpTo
    <3>2. \A j \in 0..(i - 1) : RoundAt(k, j) = RoundAt(l, j)
      BY <1>0, <2>4
    <3> QED BY <1>0, <3>1, <3>2 DEF IsCommitAt
  <2>6. IsCommitAt(k, Len(l) + 1, m + 1)
    <3> DEFINE i == Len(l) + 1
    <3>1. k[i].index = i /\ k[i].round = m + 1 /\ ScheduleFor(k, i) = t /\ i \in Nat
      BY <1>0, <2>2, <2>3
    <3>2. \A j \in 0..(i - 1) : m + 1 >= RoundAt(k, j) + (i - j)
      BY <1>0, <2>4, <1>000
    <3>3. RoundAt(k, i - 1) = RoundAt(l, Len(l))
      BY <1>0, <2>4
    <3>4. \A r \in (RoundAt(k, i - 1) + 1)..(m + 1 - 1) : ~ Decides(t, r)
      BY <3>3 DEF IsLogUpTo
    <3> QED BY <1>2, <3>1, <3>2, <3>4 DEF IsCommitAt
  <2>8. RoundAt(k, Len(k)) = m + 1
    BY <1>0, <2>2 DEF RoundAt
  <2>9. IsLogUpTo(k, m + 1)
    <3>1. \A i \in 1..Len(k) : IsCommitAt(k, i, m + 1)
      BY <1>0, <2>2, <2>5, <2>6
    <3>2. (RoundAt(k, Len(k)) + 1)..(m + 1) = {}
      BY <2>8
    <3> QED BY <2>2, <3>1, <3>2 DEF IsLogUpTo
  <2> QED BY <2>1, <2>9
<1> QED BY <1>1, <1>2

\* The rounds up to n make a log: SequentialLog is well defined.
LEMMA LogsExist ==
  ASSUME NEW n \in Nat
  PROVE  \E f : f = [r \in 0..n |-> IF r = 0 THEN <<>> ELSE WithRound(f[r - 1], r)]
<1> DEFINE S == {k \in Nat : \E f : f = [r \in 0..k |-> IF r = 0 THEN <<>>
                                                      ELSE WithRound(f[r - 1], r)]}
<1>1. 0 \in S
  <2> DEFINE f == [r \in 0..0 |-> <<>>]
  <2>1. f = [r \in 0..0 |-> IF r = 0 THEN <<>> ELSE WithRound(f[r - 1], r)]
    OBVIOUS
  <2> HIDE DEF f
  <2> QED BY <2>1
<1>2. ASSUME NEW k \in Nat, k \in S PROVE k + 1 \in S
  <2>1. PICK f : f = [r \in 0..k |-> IF r = 0 THEN <<>> ELSE WithRound(f[r - 1], r)]
    BY <1>2
  <2> DEFINE g == [r \in 0..(k + 1) |-> IF r <= k THEN f[r] ELSE WithRound(f[k], k + 1)]
  <2>2. ASSUME NEW r \in 0..(k + 1)
        PROVE  g[r] = IF r = 0 THEN <<>> ELSE WithRound(g[r - 1], r)
    <3>1. CASE r <= k
      <4>1. g[r] = f[r] /\ r \in 0..k
        BY <3>1
      <4>2. r /= 0 => g[r - 1] = f[r - 1]
        BY <3>1
      <4>3. f[r] = IF r = 0 THEN <<>> ELSE WithRound(f[r - 1], r)
        BY <2>1, <4>1
      <4> HIDE DEF g
      <4> QED BY <4>1, <4>2, <4>3
    <3>2. CASE r = k + 1
      <4>1. g[r] = WithRound(f[k], k + 1) /\ g[r - 1] = f[k] /\ r /= 0
        BY <3>2
      <4> HIDE DEF g
      <4> QED BY <3>2, <4>1
    <3> QED BY <3>1, <3>2
  <2>3. DOMAIN g = 0..(k + 1) /\ g = [r \in 0..(k + 1) |-> g[r]]
    OBVIOUS
  <2> HIDE DEF g
  <2>4. g = [r \in 0..(k + 1) |-> IF r = 0 THEN <<>> ELSE WithRound(g[r - 1], r)]
    BY Zenon, <2>2, <2>3
  <2> QED BY <2>4
<1> HIDE DEF S
<1>3. Nat \subseteq S
  BY <1>1, <1>2, InductionOverSet
<1> QED BY <1>3 DEF S

\* SequentialLog is what its definition says.
LEMMA SequentialLogIs ==
  SequentialLog = [r \in 0..MaxRound |-> IF r = 0 THEN <<>> ELSE WithRound(SequentialLog[r - 1], r)]
<1>1. \E f : f = [r \in 0..MaxRound |-> IF r = 0 THEN <<>> ELSE WithRound(f[r - 1], r)]
  BY Zenon, LogsExist, ScheduleAssumption
<1> QED BY Zenon, <1>1 DEF SequentialLog

\* The agreed log is what all rounds make.
LEMMA AgreedLogIsLog == IsLogUpTo(AgreedLog, MaxRound)
<1> DEFINE S == {r \in Nat : r <= MaxRound => IsLogUpTo(SequentialLog[r], r)}
<1>0. MaxRound \in Nat
  BY ScheduleAssumption
<1>1. 0 \in S
  <2>1. SequentialLog[0] = <<>>
    BY <1>0, SequentialLogIs
  <2>2. IsLogUpTo(<<>>, 0)
    BY DEF IsLogUpTo, RoundAt
  <2> QED BY <2>1, <2>2
<1>2. ASSUME NEW r \in Nat, r \in S PROVE r + 1 \in S
  <2> SUFFICES ASSUME r + 1 <= MaxRound PROVE IsLogUpTo(SequentialLog[r + 1], r + 1)
    OBVIOUS
  <2>1. SequentialLog[r + 1] = WithRound(SequentialLog[r], r + 1)
    <3>1. r + 1 \in 0..MaxRound /\ r + 1 /= 0 /\ (r + 1) - 1 = r
      BY <1>0
    <3> QED BY Zenon, <3>1, SequentialLogIs
  <2>2. IsLogUpTo(SequentialLog[r], r)
    BY <1>0, <1>2
  <2> QED BY <2>1, <2>2, WithRoundIsLog
<1> HIDE DEF S
<1>3. Nat \subseteq S
  BY <1>1, <1>2, InductionOverSet
<1> QED BY <1>0, <1>3 DEF S, AgreedLog

-----------------------------------------------------------------------------
(* Parts of the agreed log                                                 *)

Total == Len(AgreedLog)

\* The commits after a, up to b.
Slice(a, b) == SubSeq(AgreedLog, a + 1, b)

\* The round of commit i.
RoundOf(i) == RoundAt(AgreedLog, i)

\* The agreed log is a sequence of commits.
LEMMA AgreedLogType == AgreedLog \in Seq(Commit) /\ Total \in Nat /\ MaxRound \in Nat
  BY AgreedLogIsLog, ScheduleAssumption DEF IsLogUpTo, Total

\* Each commit of the agreed log is the one its schedule prescribes.
LEMMA AgreedIsCommitAt ==
  ASSUME NEW i \in 1..Total
  PROVE  IsCommitAt(AgreedLog, i, MaxRound)
  BY AgreedLogIsLog DEF IsLogUpTo, Total

\* The commits of the agreed log, by their index.
LEMMA AgreedCommit ==
  ASSUME NEW i \in 1..Total
  PROVE  /\ AgreedLog[i] \in Commit
         /\ AgreedLog[i].index = i /\ AgreedLog[i].round = RoundOf(i)
         /\ RoundOf(i) \in 1..MaxRound
<1>1. AgreedLog[i] \in Commit /\ RoundOf(i) = AgreedLog[i].round
  BY AgreedLogType DEF Total, RoundOf, RoundAt
<1> QED BY <1>1, AgreedIsCommitAt DEF IsCommitAt

\* The same, as records.
LEMMA AgreedRecord ==
  ASSUME NEW i \in 1..Total
  PROVE  AgreedLog[i] = [index |-> i, round |-> RoundOf(i)]
  BY AgreedCommit DEF Commit

\* Its rounds.
LEMMA RoundBounds ==
  ASSUME NEW i \in 0..Total
  PROVE  RoundOf(i) \in 0..MaxRound /\ RoundOf(0) = 0 /\ RoundOf(i) \in Nat
<1>1. RoundOf(0) = 0
  BY DEF RoundOf, RoundAt
<1>2. CASE i = 0
  BY <1>1, <1>2, AgreedLogType
<1>3. CASE i \in 1..Total
  BY <1>1, <1>3, AgreedCommit, AgreedLogType
<1> QED BY <1>2, <1>3, AgreedLogType

\* A round has one commit at most.
LEMMA RoundsGrow ==
  ASSUME NEW i \in 0..Total, NEW j \in 0..Total, i < j
  PROVE  RoundOf(j) >= RoundOf(i) + (j - i)
<1>1. j \in 1..Total /\ i \in 0..(j - 1)
  BY AgreedLogType
<1> QED BY <1>1, AgreedIsCommitAt, AgreedCommit DEF IsCommitAt, RoundOf

\* The commits after a, up to b.
LEMMA SliceIs ==
  ASSUME NEW a \in Nat, NEW b \in Nat, a <= b, b <= Total
  PROVE  /\ Slice(a, b) \in Seq(Commit)
         /\ Len(Slice(a, b)) = b - a
         /\ \A i \in 1..(b - a) : Slice(a, b)[i] = AgreedLog[a + i]
         /\ Slice(a, b) = <<>> <=> a = b
<1>1. /\ a + 1 \in Int /\ b \in Int
      /\ \A i \in (a + 1)..b : AgreedLog[i] \in Commit
  BY AgreedCommit, AgreedLogType
<1>2. /\ Slice(a, b) \in Seq(Commit)
      /\ Len(Slice(a, b)) = IF a + 1 <= b THEN b - (a + 1) + 1 ELSE 0
      /\ \A i \in 1..(b - (a + 1) + 1) : Slice(a, b)[i] = AgreedLog[(a + 1) + i - 1]
  BY <1>1, SubSeqProperties DEF Slice
<1>3. Len(Slice(a, b)) = b - a
  BY <1>2
<1>4. Slice(a, b) = <<>> <=> Len(Slice(a, b)) = 0
  BY <1>2, EmptySeq
<1>5. ASSUME NEW i \in 1..(b - a) PROVE Slice(a, b)[i] = AgreedLog[a + i]
  <2>1. i \in 1..(b - (a + 1) + 1) /\ (a + 1) + i - 1 = a + i
    OBVIOUS
  <2> QED BY <1>2, <2>1
<1> QED BY <1>2, <1>3, <1>4, <1>5

\* A part of a part.
LEMMA SliceOfSlice ==
  ASSUME NEW a \in Nat, NEW b \in Nat, a <= b, b <= Total,
         NEW x \in Nat, NEW y \in Nat, x <= y, y <= b - a
  PROVE  SubSeq(Slice(a, b), x + 1, y) = Slice(a + x, a + y)
<1> DEFINE s == Slice(a, b)
           t == SubSeq(s, x + 1, y)
           u == Slice(a + x, a + y)
<1>1. /\ s \in Seq(Commit) /\ Len(s) = b - a
      /\ \A i \in 1..(b - a) : s[i] = AgreedLog[a + i]
  BY Zenon, SliceIs
<1>2. a + x \in Nat /\ a + y \in Nat /\ a + x <= a + y /\ a + y <= Total
  BY AgreedLogType
<1>3. /\ u \in Seq(Commit) /\ Len(u) = (a + y) - (a + x)
      /\ \A i \in 1..((a + y) - (a + x)) : u[i] = AgreedLog[a + x + i]
  BY Zenon, <1>2, SliceIs
<1> HIDE DEF s, u
<1>4. \A i \in (x + 1)..y : s[i] \in Commit
  BY <1>1
<1>5. /\ t \in Seq(Commit)
      /\ Len(t) = IF x + 1 <= y THEN y - (x + 1) + 1 ELSE 0
      /\ \A i \in 1..(y - (x + 1) + 1) : t[i] = s[(x + 1) + i - 1]
  <2>1. x + 1 \in Int /\ y \in Int
    OBVIOUS
  <2> QED BY <1>4, <2>1, SubSeqProperties
<1> HIDE DEF t
<1>6. Len(t) = Len(u)
  BY <1>3, <1>5
<1>7. ASSUME NEW i \in 1..Len(t) PROVE t[i] = u[i]
  <2>1. i \in 1..(y - x) /\ i \in Nat
    BY <1>5
  <2>2. t[i] = s[x + i]
    <3>1. (x + 1) + i - 1 = x + i /\ i \in 1..(y - (x + 1) + 1)
      BY <2>1
    <3> QED BY <1>5, <3>1
  <2>3. s[x + i] = AgreedLog[a + (x + i)]
    BY <1>1, <2>1
  <2>4. u[i] = AgreedLog[a + x + i]
    BY <1>3, <2>1
  <2> QED BY <2>1, <2>2, <2>3, <2>4
<1>8. t = u
  BY <1>3, <1>5, <1>6, <1>7, SeqEqual
<1> QED BY <1>8 DEF t, u, s

Cut(s, x, y) == SubSeq(s, x + 1, y)

\* The same, for a part that starts after x.
LEMMA CutOfSlice ==
  ASSUME NEW a \in Nat, NEW b \in Nat, a <= b, b <= Total,
         NEW x \in Nat, NEW y \in Nat, x <= y, y <= b - a
  PROVE  Cut(Slice(a, b), x, y) = Slice(a + x, a + y)
<1>1. SubSeq(Slice(a, b), x + 1, y) = Slice(a + x, a + y)
  BY ZenonT(30), SliceOfSlice
<1> QED BY Zenon, <1>1 DEF Cut

\* Adjacent parts make one.
LEMMA SliceJoin ==
  ASSUME NEW a \in Nat, NEW b \in Nat, NEW c \in Nat, a <= b, b <= c, c <= Total
  PROVE  Slice(a, b) \o Slice(b, c) = Slice(a, c)
<1>1. /\ a + 1 \in 1..(Len(AgreedLog) + 1)
      /\ b \in (a + 1 - 1)..Len(AgreedLog)
      /\ c \in b..Len(AgreedLog)
      /\ AgreedLog \in Seq(Commit)
  BY AgreedLogType DEF Total
<1> QED BY <1>1, ConcatAdjacentSubSeq DEF Slice

\* The next commit makes a part longer.
LEMMA SliceAppend ==
  ASSUME NEW a \in Nat, NEW b \in Nat, a <= b, b < Total
  PROVE  Append(Slice(a, b), AgreedLog[b + 1]) = Slice(a, b + 1)
<1> DEFINE e == AgreedLog[b + 1]
           s == Slice(a, b)
           t == Append(s, e)
           u == Slice(a, b + 1)
<1>1. /\ s \in Seq(Commit) /\ Len(s) = b - a
      /\ \A i \in 1..(b - a) : s[i] = AgreedLog[a + i]
  BY SliceIs, AgreedLogType
<1>2. /\ u \in Seq(Commit) /\ Len(u) = (b + 1) - a
      /\ \A i \in 1..((b + 1) - a) : u[i] = AgreedLog[a + i]
  <2>1. b + 1 \in Nat /\ a <= b + 1 /\ b + 1 <= Total
    BY AgreedLogType
  <2> QED BY Zenon, <2>1, SliceIs
<1>3. e \in Commit
  <2>1. b + 1 \in 1..Total
    BY AgreedLogType
  <2> QED BY <2>1, AgreedCommit
<1> HIDE DEF s, u, e
<1>4. /\ t \in Seq(Commit) /\ Len(t) = Len(s) + 1
      /\ \A i \in 1..Len(s) : t[i] = s[i]
      /\ t[Len(s) + 1] = e
  BY <1>1, <1>3, AppendProperties
<1> HIDE DEF t
<1>5. ASSUME NEW i \in 1..Len(t) PROVE t[i] = u[i]
  <2>1. CASE i <= b - a
    <3>1. i \in 1..Len(s) /\ i \in 1..(b - a) /\ i \in 1..((b + 1) - a)
      BY <1>1, <2>1
    <3> HIDE DEF s, u
    <3>2. t[i] = s[i]
      BY <1>4, <3>1
    <3>3. s[i] = AgreedLog[a + i] /\ u[i] = AgreedLog[a + i]
      BY <1>1, <1>2, <3>1
    <3> QED BY <3>2, <3>3
  <2>2. CASE i = b - a + 1
    <3>1. t[i] = e
      BY <1>1, <1>4, <2>2
    <3>2. u[i] = AgreedLog[a + i] /\ a + i = b + 1
      BY <1>2, <2>2
    <3> QED BY <3>1, <3>2 DEF e
  <2> QED BY <1>1, <1>4, <2>1, <2>2
<1>6. t = u
  <2>1. Len(t) = Len(u)
    BY <1>1, <1>2, <1>4
  <2> QED BY <1>2, <1>4, <1>5, <2>1, SeqEqual
<1> QED BY <1>6 DEF t, u, s, e

\* The last commit of a part.
LEMMA SliceLast ==
  ASSUME NEW a \in Nat, NEW b \in Nat, a <= b, b <= Total
  PROVE  /\ a < b => LastIndexOf(Slice(a, b)) = b
         /\ LastRoundOf(Slice(0, b)) = RoundOf(b)
<1>1. ASSUME NEW x \in Nat, x < b
      PROVE  /\ Slice(x, b) /= <<>>
             /\ Slice(x, b)[Len(Slice(x, b))] = AgreedLog[b]
  <2>1. Len(Slice(x, b)) = b - x /\ b - x \in 1..(b - x) /\ x + (b - x) = b
    BY <1>1, SliceIs
  <2>2. Slice(x, b)[b - x] = AgreedLog[x + (b - x)]
    BY <1>1, <2>1, SliceIs
  <2>3. Slice(x, b) /= <<>>
    BY <1>1, SliceIs
  <2> QED BY <2>1, <2>2, <2>3
<1>2. a < b => LastIndexOf(Slice(a, b)) = b
  <2> SUFFICES ASSUME a < b PROVE LastIndexOf(Slice(a, b)) = b
    OBVIOUS
  <2>1. AgreedLog[b].index = b
    BY AgreedCommit, AgreedLogType
  <2> QED BY <1>1, <2>1 DEF LastIndexOf
<1>3. LastRoundOf(Slice(0, b)) = RoundOf(b)
  <2>1. CASE b = 0
    <3>1. Slice(0, b) = <<>>
      BY <2>1, SliceIs
    <3> QED BY <2>1, <3>1, RoundBounds, AgreedLogType DEF LastRoundOf
  <2>2. CASE b > 0
    <3>1. AgreedLog[b].round = RoundOf(b)
      BY <2>2, AgreedCommit, AgreedLogType
    <3> QED BY <1>1, <2>2, <3>1 DEF LastRoundOf
  <2> QED BY <2>1, <2>2
<1> QED BY <1>2, <1>3

-----------------------------------------------------------------------------
(* Schedules                                                               *)

\* t is the swap table made from the group of commits that ends with K.
IsTable(t, K) ==
    /\ K \in Nat /\ K % N = 0 /\ K <= Total
    /\ K = 0 \/ K >= N
    /\ t = IF K = 0 THEN <<>> ELSE Slice(K - N, K)

\* A schedule has at least one commit.
LEMMA NType == N \in Nat /\ N > 0
  BY ScheduleAssumption DEF N

\* What a schedule is made from is empty, or as many commits as a schedule has.
LEMMA TableFacts ==
  ASSUME NEW t, NEW K, IsTable(t, K)
  PROVE  /\ t \in Seq(Commit)
         /\ LastIndexOf(t) = K
         /\ t /= <<>> => Len(t) = N
<1>0. K \in Nat /\ K <= Total
  BY DEF IsTable
<1>1. CASE K = 0
  BY <1>1 DEF IsTable, LastIndexOf
<1>2. CASE K /= 0
  <2> DEFINE a == K - N
  <2>1. t = Slice(a, K) /\ a \in Nat /\ a < K /\ a <= K /\ K - a = N
    BY <1>0, <1>2, NType DEF IsTable
  <2> HIDE DEF a
  <2>2. Slice(a, K) \in Seq(Commit) /\ Len(Slice(a, K)) = K - a
    BY Zenon, <1>0, <2>1, SliceIs
  <2>3. LastIndexOf(Slice(a, K)) = K
    BY <1>0, <2>1, SliceLast
  <2> QED BY <2>1, <2>2, <2>3
<1> QED BY <1>1, <1>2

\* The next schedule is made from the next commits.
LEMMA NextTable ==
  ASSUME NEW t, NEW K, IsTable(t, K), K + N <= Total
  PROVE  IsTable(Slice(K, K + N), K + N)
<1>0. K \in Nat /\ K % N = 0
  BY DEF IsTable
<1>1. (K + N) % N = 0
  <2> DEFINE a == K \div N
  <2>1. a \in Nat /\ K = N * a
    BY <1>0, NType
  <2> HIDE DEF a
  <2>2. K + N = N * (a + 1)
    BY <2>1, NType
  <2>3. (N * (a + 1)) % N = 0
    BY <2>1, NType
  <2> QED BY <2>2, <2>3
<1>2. K + N \in Nat /\ K + N /= 0 /\ K + N >= N /\ (K + N) - N = K
  BY <1>0, NType
<1> QED BY <1>1, <1>2 DEF IsTable

\* It is the schedule for the commits of the next group.
LEMMA ScheduleIs ==
  ASSUME NEW t, NEW K, IsTable(t, K), NEW i \in Nat, K < i, i <= K + N
  PROVE  ScheduleFor(AgreedLog, i) = t
<1>0. K \in Nat /\ K % N = 0
  BY DEF IsTable
<1>1. (i - 1) - ((i - 1) % N) = K
  <2>1. i - 1 \in Nat /\ K <= i - 1 /\ i - 1 < K + N
    BY <1>0, NType
  <2> QED BY <1>0, <2>1, InOneGroup
<1>2. ScheduleFor(AgreedLog, i) = IF K = 0 THEN <<>> ELSE SubSeq(AgreedLog, K - N + 1, K)
  BY <1>1 DEF ScheduleFor, N
<1> QED BY <1>2 DEF IsTable, Slice

\* What the table decides of the rounds after D, if at most as many of them are
\* kept as commits are left for the schedule: exactly the next commits.  The
\* commits up to m are in rounds up to D, the others in later ones.
LEMMA DecidedLeaders ==
  ASSUME NEW t, NEW K, IsTable(t, K),
         NEW m \in Nat, m <= Total, K <= m, m < K + N,
         NEW D \in Nat, RoundOf(m) <= D, m < Total => D < RoundOf(m + 1),
         NEW last \in Nat, last <= D + (K + N - m), last <= MaxRound
  PROVE  \E k \in Nat :
            /\ m + k <= Total /\ m + k <= K + N
            /\ {r \in (D + 1)..last : Decides(t, r)} = {RoundOf(i) : i \in (m + 1)..(m + k)}
            /\ LET d == IF last > D THEN last ELSE D
               IN  RoundOf(m + k) <= d /\ (m + k < Total => d < RoundOf(m + k + 1))
<1> DEFINE T == {j \in Nat : m + j >= Total \/ RoundOf(m + j + 1) > last}
<1>0. Total \in Nat /\ K \in Nat /\ N \in Nat /\ MaxRound \in Nat
  BY AgreedLogType, NType DEF IsTable
<1>1. PICK k \in T : \A j \in T : k <= j
  <2>1. Total - m \in T
    BY <1>0
  <2> QED BY Zenon, <2>1, LeastNumber
<1>2. k \in Nat /\ m + k <= Total
  <2>1. Total - m \in T
    BY <1>0
  <2> QED BY <1>0, <1>1, <2>1
<1>3. ASSUME NEW j \in Nat, j >= 1, m + j <= Total
      PROVE  RoundOf(m + j) \in Nat /\ RoundOf(m + j) >= D + j
  <2>1. m + 1 \in 0..Total /\ m + j \in 0..Total /\ m < Total
    BY <1>0, <1>3
  <2>2. RoundOf(m + 1) \in Nat /\ RoundOf(m + j) \in Nat
    BY <2>1, RoundBounds
  <2>3. CASE j = 1
    BY <2>1, <2>2, <2>3
  <2>4. CASE j > 1
    <3>1. RoundOf(m + j) >= RoundOf(m + 1) + ((m + j) - (m + 1))
      BY <1>0, <2>1, <2>4, RoundsGrow
    <3> QED BY <2>1, <2>2, <3>1
  <2> QED BY <1>3, <2>3, <2>4
<1>4. ASSUME NEW j \in 1..k
      PROVE  m + j <= Total /\ RoundOf(m + j) <= last
  <2>1. j - 1 \in Nat /\ j - 1 < k /\ m + (j - 1) + 1 = m + j
    BY <1>2
  <2>2. j - 1 \notin T
    BY <1>1, <1>2, <2>1
  <2>3. m + (j - 1) < Total /\ ~ (RoundOf(m + (j - 1) + 1) > last)
    BY <1>0, <2>1, <2>2
  <2>4. RoundOf(m + j) \in Nat
    BY <1>0, <1>3, <2>1, <2>3
  <2> QED BY <1>0, <2>1, <2>3, <2>4
<1>5. m + k <= K + N
  <2>1. CASE k = 0
    BY <1>0, <2>1
  <2>2. CASE k > 0
    <3>1. k \in 1..k
      BY <1>2, <2>2
    <3>2. RoundOf(m + k) <= last /\ RoundOf(m + k) >= D + k /\ RoundOf(m + k) \in Nat
      BY <1>2, <1>3, <1>4, <2>2, <3>1
    <3> QED BY <1>0, <1>2, <3>2
  <2> QED BY <1>2, <2>1, <2>2
<1>6. ASSUME NEW i \in (m + 1)..(m + k)
      PROVE  RoundOf(i) \in (D + 1)..last /\ Decides(t, RoundOf(i))
  <2> DEFINE j == i - m
  <2>1. j \in 1..k /\ m + j = i /\ j \in Nat /\ j >= 1
    BY <1>2
  <2> HIDE DEF j
  <2>2. i <= Total /\ RoundOf(i) <= last
    BY <1>4, <2>1
  <2>3. RoundOf(i) \in Nat /\ RoundOf(i) >= D + j
    BY <1>3, <2>1, <2>2
  <2>4. ScheduleFor(AgreedLog, i) = t
    <3>1. i \in Nat /\ K < i /\ i <= K + N
      BY <1>0, <1>2, <1>5
    <3> QED BY <3>1, ScheduleIs
  <2>5. i \in 1..Total
    BY <1>0, <2>2
  <2>6. Decides(t, RoundOf(i))
    BY <2>4, <2>5, AgreedIsCommitAt, AgreedCommit DEF IsCommitAt
  <2> QED BY <2>1, <2>2, <2>3, <2>6
<1>7. ASSUME NEW r \in (D + 1)..last, Decides(t, r)
      PROVE  \E i \in (m + 1)..(m + k) : RoundOf(i) = r
  <2> DEFINE U == {j \in Nat : m + j >= Total \/ RoundOf(m + j + 1) >= r}
  <2>1. Total - m \in U
    BY <1>0
  <2>2. PICK j \in U : \A x \in U : j <= x
    BY Zenon, <2>1, LeastNumber
  <2>3. j \in Nat /\ m + j <= Total
    BY <1>0, <2>1, <2>2
  <2>4. RoundOf(m + j) \in Nat /\ RoundOf(m + j) < r
    <3>0. RoundOf(m + j) \in Nat
      BY <1>0, <2>3, RoundBounds
    <3>1. CASE j = 0
      BY <3>0, <3>1
    <3>2. CASE j > 0
      <4>1. j - 1 \in Nat /\ m + (j - 1) + 1 = m + j
        BY <2>3, <3>2
      <4>2. j - 1 \notin U
        BY <2>2, <2>3, <4>1
      <4>3. ~ (RoundOf(m + (j - 1) + 1) >= r)
        BY <4>1, <4>2
      <4> QED BY <3>0, <4>1, <4>3
    <3> QED BY <2>3, <3>1, <3>2
  <2>5. m + j + 1 <= K + N
    <3>1. CASE j = 0
      BY <1>0, <3>1
    <3>2. CASE j > 0
      <4>1. RoundOf(m + j) >= D + j
        BY <1>3, <2>3, <3>2
      <4> QED BY <1>0, <2>3, <2>4, <4>1
    <3> QED BY <2>3, <3>1, <3>2
  <2> DEFINE i == m + j + 1
  <2>6. ScheduleFor(AgreedLog, i) = t
    <3>1. i \in Nat /\ K < i /\ i <= K + N
      BY <1>0, <2>3, <2>5
    <3> QED BY <3>1, ScheduleIs
  <2>7. m + j < Total
    <3> SUFFICES ASSUME m + j = Total PROVE FALSE
      BY <1>0, <2>3
    <3>1. r \in (RoundAt(AgreedLog, Len(AgreedLog)) + 1)..MaxRound
      BY <1>0, <2>4 DEF RoundOf, Total
    <3>2. ~ Decides(ScheduleFor(AgreedLog, Len(AgreedLog) + 1), r)
      BY <3>1, AgreedLogIsLog DEF IsLogUpTo
    <3> QED BY <1>7, <2>6, <3>2 DEF Total
  <2>8. i \in 1..Total /\ RoundOf(i) \in Nat /\ RoundOf(i) >= r
    BY <1>0, <2>2, <2>3, <2>7, RoundBounds
  <2>9. RoundOf(i) = r
    <3> SUFFICES ASSUME RoundOf(i) > r PROVE FALSE
      BY <2>8
    <3>1. r \in (RoundAt(AgreedLog, i - 1) + 1)..(AgreedLog[i].round - 1)
      <4>1. RoundAt(AgreedLog, i - 1) = RoundOf(m + j)
        BY <1>0, <2>3 DEF RoundOf
      <4>2. AgreedLog[i].round = RoundOf(i)
        BY <2>8, AgreedCommit
      <4> QED BY <2>4, <2>8, <4>1, <4>2
    <3>2. ~ Decides(ScheduleFor(AgreedLog, i), r)
      BY <2>8, <3>1, AgreedIsCommitAt DEF IsCommitAt
    <3> QED BY <1>7, <2>6, <3>2
  <2>10. j < k
    <3> SUFFICES ASSUME k <= j PROVE FALSE
      BY <1>2, <2>3
    <3>1. m + k < Total
      BY <1>0, <1>2, <2>3, <2>7
    <3>2. RoundOf(m + k + 1) > last
      BY <1>0, <1>1, <3>1
    <3>3. m + k + 1 \in 0..Total /\ i \in 0..Total
      BY <1>0, <1>2, <2>8, <3>1
    <3>4. RoundOf(m + k + 1) <= RoundOf(i) /\ RoundOf(m + k + 1) \in Nat
      <4>1. RoundOf(m + k + 1) \in Nat
        BY <3>3, RoundBounds
      <4>2. CASE k = j
        BY <2>8, <4>1, <4>2
      <4>3. CASE k < j
        <5>1. m + k + 1 < i
          BY <1>0, <1>2, <2>3, <4>3
        <5>2. RoundOf(i) >= RoundOf(m + k + 1) + (i - (m + k + 1))
          BY <3>3, <5>1, RoundsGrow
        <5> QED BY <1>2, <2>3, <2>8, <4>1, <5>1, <5>2
      <4> QED BY <1>2, <2>3, <4>2, <4>3
    <3> QED BY <2>9, <3>2, <3>4
  <2> QED BY <1>2, <2>3, <2>9, <2>10
<1>8. {r \in (D + 1)..last : Decides(t, r)} = {RoundOf(i) : i \in (m + 1)..(m + k)}
  BY <1>6, <1>7
<1>9. LET d == IF last > D THEN last ELSE D
      IN  RoundOf(m + k) <= d /\ (m + k < Total => d < RoundOf(m + k + 1))
  <2>1. RoundOf(m + k) <= last \/ RoundOf(m + k) <= D
    <3>1. CASE k = 0
      BY <3>1
    <3>2. CASE k > 0
      BY <1>2, <1>4, <3>2
    <3> QED BY <1>2, <3>1, <3>2
  <2>2. RoundOf(m + k) \in Nat
    BY <1>0, <1>2, RoundBounds
  <2>3. ASSUME m + k < Total
        PROVE  RoundOf(m + k + 1) > last /\ RoundOf(m + k + 1) > D
    <3>1. RoundOf(m + k + 1) > last
      BY <1>0, <1>1, <1>2, <2>3
    <3>2. k + 1 \in Nat /\ k + 1 >= 1 /\ m + (k + 1) <= Total /\ m + (k + 1) = m + k + 1
      BY <1>0, <1>2, <2>3
    <3>3. RoundOf(m + k + 1) >= D + (k + 1) /\ RoundOf(m + k + 1) \in Nat
      BY <1>3, <3>2
    <3> QED BY <1>2, <3>1, <3>3
  <2> QED BY <2>1, <2>2, <2>3
<1> QED BY <1>2, <1>5, <1>8, <1>9

\* The q commits after the first m are what the slots D + 1 to last decide.
AreNext(t, K, m, D, last, q) ==
    /\ m + q <= Total /\ m + q <= K + N
    /\ {r \in (D + 1)..last : Decides(t, r)} = {RoundOf(i) : i \in (m + 1)..(m + q)}
    /\ LET d == IF last > D THEN last ELSE D
       IN  RoundOf(m + q) <= d /\ (m + q < Total => d < RoundOf(m + q + 1))

\* The same as DecidedLeaders, in these terms.
LEMMA DecidedAreNext ==
  ASSUME NEW t, NEW K, IsTable(t, K),
         NEW m \in Nat, m <= Total, K <= m, m < K + N,
         NEW D \in Nat, RoundOf(m) <= D, m < Total => D < RoundOf(m + 1),
         NEW last \in Nat, last <= D + (K + N - m), last <= MaxRound
  PROVE  \E q \in Nat : AreNext(t, K, m, D, last, q)
  BY DecidedLeaders DEF AreNext

-----------------------------------------------------------------------------
(* The inductive invariant                                                 *)

\* Where an authority is in the agreed log: its schedule is made from the group
\* that ends with K, S commits since are scored, C more are made, k leaders
\* and x certified commits wait.  All rounds up to last_decided_leader belong
\* to these, and no more commits are on the way than the schedule has left.
LoopAt(n, K, S, C, k, x) ==
    /\ IsTable(leader_swap_table[n], K)
    /\ S + C + k <= N
    /\ K + S + C + k + x <= Total
    /\ log[n] = Slice(0, K + S + C)
    /\ scoring_subdag[n] = Slice(K, K + S)
    /\ committed_sub_dags[n] = Slice(K + S, K + S + C)
    /\ sequenced_leaders[n] = {RoundOf(i) : i \in (K + S + C + 1)..(K + S + C + k)}
    /\ certified_commits[n] = Slice(K + S + C + k, K + S + C + k + x)
    /\ RoundOf(K + S + C + k) <= last_decided_leader[n]
    /\ K + S + C + k < Total => last_decided_leader[n] < RoundOf(K + S + C + k + 1)
    /\ call[n] /= "commit" => k = 0 /\ C = 0

\* What an authority has stored: the first j commits, and the schedule of J.
StoredAt(n, J, j) ==
    /\ IsTable(stored[n].info, J)
    /\ J <= j /\ j <= J + N /\ j <= Total
    /\ stored[n].commits = Slice(0, j)

\* Both, and what is stored is part of what there is.
Follows(n) ==
    \E K, S, C, k, x, J, j \in Nat :
        LoopAt(n, K, S, C, k, x) /\ StoredAt(n, J, j) /\ J <= K /\ j <= K + S + C

IInv == TypeOK /\ \A n \in Node : Follows(n)

\* At the start there are no commits.
LEMMA InitInv == Init => IInv
<1> SUFFICES ASSUME Init PROVE IInv
  OBVIOUS
<1>0. MaxRound \in Nat /\ Total \in Nat /\ <<>> \in Seq(Commit) /\ N \in Nat
  BY ScheduleAssumption, AgreedLogType, NType
<1>1. TypeOK
  BY <1>0 DEF Init, TypeOK
<1>2. ASSUME NEW n \in Node PROVE Follows(n)
  <2>1. Slice(0, 0) = <<>>
    BY <1>0, SliceIs
  <2>2. IsTable(<<>>, 0)
    BY <1>0, NType DEF IsTable
  <2>3. RoundOf(0) = 0 /\ (0 < Total => 0 < RoundOf(1))
    BY <1>0, RoundBounds, AgreedCommit
  <2>4. LoopAt(n, 0, 0, 0, 0, 0)
    BY <1>0, <2>1, <2>2, <2>3 DEF LoopAt, Init
  <2>5. StoredAt(n, 0, 0)
    BY <1>0, <2>1, <2>2 DEF StoredAt, Init
  <2>6. 0 <= 0 /\ 0 <= 0 + 0 + 0 /\ 0 \in Nat
    OBVIOUS
  <2> QED BY <2>4, <2>5, <2>6 DEF Follows
<1> QED BY <1>1, <1>2 DEF IInv

\* A step of one authority does not disturb the others.
LEMMA OthersFollow ==
  ASSUME NEW m \in Node, Follows(m),
         log'[m] = log[m], leader_swap_table'[m] = leader_swap_table[m],
         scoring_subdag'[m] = scoring_subdag[m],
         last_decided_leader'[m] = last_decided_leader[m], call'[m] = call[m],
         certified_commits'[m] = certified_commits[m],
         sequenced_leaders'[m] = sequenced_leaders[m],
         committed_sub_dags'[m] = committed_sub_dags[m], stored'[m] = stored[m]
  PROVE  Follows(m)'
<1>1. PICK K \in Nat, S \in Nat, C \in Nat, k \in Nat, x \in Nat, J \in Nat, j \in Nat :
        LoopAt(m, K, S, C, k, x) /\ StoredAt(m, J, j) /\ J <= K /\ j <= K + S + C
  BY Zenon DEF Follows
<1>2. LoopAt(m, K, S, C, k, x)'
  BY <1>1 DEF LoopAt
<1>3. StoredAt(m, J, j)'
  BY <1>1 DEF StoredAt
<1> QED BY Zenon, <1>1, <1>2, <1>3 DEF Follows

-----------------------------------------------------------------------------
(* The steps                                                               *)

\* More blocks change where the loop may go, not where it is.
LEMMA AddBlocksFollows ==
  ASSUME TypeOK, NEW n \in Node, Follows(n), NEW h \in Round, add_blocks(n, h)
  PROVE  Follows(n)' /\ TypeOK'
<1>1. PICK K \in Nat, S \in Nat, C \in Nat, k \in Nat, x \in Nat, J \in Nat, j \in Nat :
        LoopAt(n, K, S, C, k, x) /\ StoredAt(n, J, j) /\ J <= K /\ j <= K + S + C
  BY Zenon DEF Follows
<1>2. LoopAt(n, K, S, C, k, x)'
  BY Zenon, <1>1 DEF LoopAt, add_blocks, TypeOK
<1>3. StoredAt(n, J, j)'
  BY <1>1 DEF StoredAt, add_blocks
<1>4. TypeOK'
  <2>1. h \in 0..MaxRound
    BY ScheduleAssumption DEF Round
  <2> QED BY <2>1 DEF TypeOK, add_blocks
<1> QED BY Zenon, <1>1, <1>2, <1>3, <1>4 DEF Follows

\* A peer's log is a part of the agreed log, too.
LEMMA AddCertifiedFollows ==
  ASSUME TypeOK, NEW n \in Node, Follows(n), NEW peer \in Node, Follows(peer),
         NEW i \in 1..Len(log[peer]), add_certified_commits(n, peer, i)
  PROVE  Follows(n)' /\ TypeOK'
<1>1. PICK K \in Nat, S \in Nat, C \in Nat, k \in Nat, x \in Nat, J \in Nat, j \in Nat :
        LoopAt(n, K, S, C, k, x) /\ StoredAt(n, J, j) /\ J <= K /\ j <= K + S + C
  BY Zenon DEF Follows
<1>2. PICK p \in Nat : p <= Total /\ log[peer] = Slice(0, p)
  <2>1. PICK A \in Nat, B \in Nat, E \in Nat, a \in Nat, b \in Nat :
          LoopAt(peer, A, B, E, a, b)
    BY Zenon DEF Follows
  <2>2. A + B + E \in Nat /\ A + B + E <= Total
    BY <2>1, AgreedLogType DEF LoopAt
  <2> QED BY <2>1, <2>2 DEF LoopAt
<1>3. call[n] = "idle" /\ k = 0 /\ C = 0
  BY <1>1 DEF add_certified_commits, LoopAt
<1> DEFINE l == K + S
<1>4. l \in Nat /\ l <= Total /\ K + S + C = l /\ K + S + C + k = l
  BY <1>1, <1>3, AgreedLogType DEF LoopAt
<1>5. Len(log[n]) = l /\ Len(log[peer]) = p
  <2>1. log[n] = Slice(0, l) /\ 0 <= l /\ 0 <= p /\ l - 0 = l /\ p - 0 = p
    BY <1>1, <1>2, <1>4 DEF LoopAt
  <2> HIDE DEF l
  <2>2. Len(Slice(0, l)) = l - 0
    BY <1>4, <2>1, SliceIs
  <2>3. Len(Slice(0, p)) = p - 0
    BY <1>2, <2>1, SliceIs
  <2> QED BY <1>2, <2>1, <2>2, <2>3
<1>6. l < i /\ i <= p /\ i \in Nat
  BY <1>5 DEF add_certified_commits
<1>7. certified_commits'[n] = Slice(l, i)
  <2>0. 0 <= p /\ i <= p - 0 /\ l <= i /\ 0 + l = l /\ 0 + i = i
    BY <1>2, <1>4, <1>6
  <2> HIDE DEF l
  <2>1. Cut(Slice(0, p), l, i) = Slice(0 + l, 0 + i)
    BY <1>2, <1>4, <1>6, <2>0, CutOfSlice
  <2>2. certified_commits'[n] = Cut(Slice(0, p), l, i)
    BY Zenon, <1>2, <1>5 DEF add_certified_commits, TypeOK, Cut
  <2> QED BY <2>0, <2>1, <2>2
<1>8. Slice(l, i) \in Seq(Commit) /\ i - l \in Nat /\ l + (i - l) = i /\ i <= Total
  BY <1>2, <1>4, <1>6, SliceIs, AgreedLogType
<1> HIDE DEF l
<1>9. LoopAt(n, K, S, C, k, i - l)'
  BY Zenon, <1>1, <1>3, <1>4, <1>7, <1>8 DEF LoopAt, add_certified_commits, TypeOK
<1>10. StoredAt(n, J, j)'
  BY <1>1 DEF StoredAt, add_certified_commits
<1>11. TypeOK'
  BY Zenon, <1>7, <1>8 DEF TypeOK, add_certified_commits
<1> QED BY Zenon, <1>1, <1>8, <1>9, <1>10, <1>11 DEF Follows

\* The schedule changes when it has all of its commits.
LEMMA UpdateScheduleFollows ==
  ASSUME TypeOK, NEW n \in Node, Follows(n), update_leader_schedule(n)
  PROVE  Follows(n)' /\ TypeOK'
<1>1. PICK K \in Nat, S \in Nat, C \in Nat, k \in Nat, x \in Nat, J \in Nat, j \in Nat :
        LoopAt(n, K, S, C, k, x) /\ StoredAt(n, J, j) /\ J <= K /\ j <= K + S + C
  BY Zenon DEF Follows
<1>2. k = 0 /\ C = 0 /\ K + S \in Nat /\ K + S <= Total /\ K <= K + S
  BY <1>1, AgreedLogType DEF update_leader_schedule, LoopAt
<1>3. scoring_subdag[n] = Slice(K, K + S) /\ Len(scoring_subdag[n]) = N
  <2>1. scoring_subdag[n] = Slice(K, K + S)
    BY <1>1 DEF LoopAt
  <2>2. scoring_subdag[n] \in Seq(Commit)
    BY DEF TypeOK
  <2>3. Len(scoring_subdag[n]) \in Nat
    BY <2>2
  <2>4. N - Len(scoring_subdag[n]) = 0
    BY DEF update_leader_schedule, commits_until_leader_schedule_update, N
  <2> QED BY <2>1, <2>3, <2>4, NType
<1>4. S = N
  <2>1. Len(Slice(K, K + S)) = (K + S) - K
    BY <1>2, SliceIs
  <2> QED BY <1>3, <2>1
<1>5. IsTable(scoring_subdag[n], K + S)
  BY <1>1, <1>2, <1>3, <1>4, NextTable DEF LoopAt
<1>6. Slice(K + S, (K + S) + 0) = <<>>
  BY <1>2, SliceIs, AgreedLogType
<1>7. LoopAt(n, K + S, 0, 0, 0, x)'
  <2>1. /\ leader_swap_table'[n] = scoring_subdag[n] /\ scoring_subdag'[n] = <<>>
        /\ UNCHANGED <<log, last_decided_leader, call, certified_commits, sequenced_leaders,
                       committed_sub_dags>>
    BY Zenon DEF update_leader_schedule, TypeOK
  <2>2. PICK l \in Nat : l = K + S
    BY <1>2
  <2>3. /\ K + S + C = l /\ K + S + C + k = l
        /\ l + 0 = l /\ 0 + 0 + 0 <= N
    BY <1>2, <2>2, NType
  <2>4. /\ l + x <= Total
        /\ log[n] = Slice(0, l)
        /\ committed_sub_dags[n] = Slice(l, l)
        /\ sequenced_leaders[n] = {RoundOf(i) : i \in (l + 1)..l}
        /\ certified_commits[n] = Slice(l, l + x)
        /\ RoundOf(l) <= last_decided_leader[n]
        /\ l < Total => last_decided_leader[n] < RoundOf(l + 1)
    BY Zenon, <1>1, <2>2, <2>3 DEF LoopAt
  <2>5. IsTable(leader_swap_table'[n], l) /\ scoring_subdag'[n] = Slice(l, l + 0)
    BY Zenon, <1>5, <1>6, <2>1, <2>2
  <2>6. LoopAt(n, l, 0, 0, 0, x)'
    BY Zenon, <2>1, <2>3, <2>4, <2>5 DEF LoopAt
  <2> QED BY Zenon, <2>2, <2>6
<1>8. StoredAt(n, J, j)'
  BY <1>1 DEF StoredAt, update_leader_schedule
<1>9. J <= K + S /\ j <= (K + S) + 0 + 0 /\ 0 \in Nat
  BY <1>1, <1>2
<1>10. TypeOK'
  <2>1. PICK h \in 0..MaxRound : horizon' = [horizon EXCEPT ![n] = h]
    BY Zenon DEF update_leader_schedule
  <2>2. <<>> \in Seq(Commit)
    OBVIOUS
  <2> QED BY Zenon, <2>1, <2>2 DEF TypeOK, update_leader_schedule
<1> QED BY Zenon, <1>1, <1>2, <1>7, <1>8, <1>9, <1>10 DEF Follows

\* The certified commits that are taken are the next of the agreed log.
LEMMA SelectCertifiedFollows ==
  ASSUME TypeOK, NEW n \in Node, Follows(n), SelectCertified(n)
  PROVE  Follows(n)' /\ TypeOK'
<1>1. PICK K \in Nat, S \in Nat, C \in Nat, k \in Nat, x \in Nat, J \in Nat, j \in Nat :
        LoopAt(n, K, S, C, k, x) /\ StoredAt(n, J, j) /\ J <= K /\ j <= K + S + C
  BY Zenon DEF Follows
<1> DEFINE l == K + S
           commits == certified_commits[n]
           limit == commits_until_leader_schedule_update(n)
           fits == IF Len(commits) >= limit THEN limit ELSE Len(commits)
<1>2. /\ k = 0 /\ C = 0 /\ l \in Nat /\ l <= Total /\ l + x <= Total /\ l + x \in Nat
      /\ K <= l /\ Total \in Nat
  <2>1. k = 0 /\ C = 0 /\ K + S + C + k + x <= Total
    BY <1>1 DEF SelectCertified, LoopAt
  <2>2. Total \in Nat
    BY AgreedLogType
  <2>3. l \in Nat /\ l + x <= Total /\ l + x \in Nat
    BY <2>1, <2>2
  <2> QED BY <2>1, <2>2, <2>3
<1>3. commits = Slice(l, l + x)
  <2>1. certified_commits[n] = Slice(K + S + C + k, K + S + C + k + x)
    BY Zenon, <1>1 DEF LoopAt
  <2>2. K + S + C + k = l
    BY <1>2
  <2> QED BY Zenon, <2>1, <2>2
<1>4. limit = N - S
  <2>1. scoring_subdag[n] = Slice(K, l)
    BY <1>1 DEF LoopAt
  <2>2. l - K = S
    BY <1>2
  <2> HIDE DEF l
  <2>3. Len(Slice(K, l)) = l - K
    BY <1>2, SliceIs
  <2> QED BY <2>1, <2>2, <2>3 DEF commits_until_leader_schedule_update, N
<1>5. /\ Len(commits) = x /\ x /= 0
      /\ \A i \in 1..x : commits[i] = AgreedLog[l + i]
  <2>1. l <= l + x /\ (l + x) - l = x
    BY <1>2
  <2>2. Slice(l, l + x) /= <<>>
    BY <1>3 DEF SelectCertified
  <2> HIDE DEF l, commits
  <2> DEFINE b == l + x
  <2>3. b \in Nat /\ b <= Total /\ l <= b /\ b - l = x /\ Slice(l, b) /= <<>>
    BY <1>2, <2>1, <2>2
  <2>4. commits = Slice(l, b)
    BY <1>3
  <2> HIDE DEF b
  <2>5. Len(Slice(l, b)) = b - l
    BY <1>2, <2>3, SliceIs
  <2>6. \A i \in 1..(b - l) : Slice(l, b)[i] = AgreedLog[l + i]
    BY <1>2, <2>3, SliceIs
  <2>7. l /= b
    BY <1>2, <2>3, SliceIs
  <2> QED BY <1>2, <2>3, <2>4, <2>5, <2>6, <2>7
<1>6. PICK q \in Nat : q = fits /\ 0 < q /\ q <= x /\ S + q <= N
  <2>1. limit > 0
    BY DEF SelectCertified
  <2> HIDE DEF l, commits, limit
  <2>2. limit \in Nat
    BY <1>4, <2>1, NType
  <2>3. CASE x >= limit
    BY <1>4, <1>5, <2>1, <2>2, <2>3, NType
  <2>4. CASE ~ (x >= limit)
    <3>1. fits = x
      BY <1>5, <2>4
    <3> HIDE DEF fits
    <3> QED BY <1>4, <1>5, <2>2, <2>4, <3>1, NType
  <2> QED BY <2>3, <2>4
<1>7. /\ sequenced_leaders'[n] = {commits[i].round : i \in 1..q}
      /\ certified_commits'[n] = SubSeq(commits, q + 1, Len(commits))
      /\ last_decided_leader'[n] = commits[q].round
      /\ call'[n] = "commit"
  BY Zenon, <1>6 DEF SelectCertified, TypeOK
<1> HIDE DEF l, commits, limit, fits
<1>8. \A i \in 1..x : l + i \in 1..Total /\ commits[i].round = RoundOf(l + i)
  <2> SUFFICES ASSUME NEW i \in 1..x
               PROVE  l + i \in 1..Total /\ commits[i].round = RoundOf(l + i)
    OBVIOUS
  <2>1. l + i \in 1..Total
    BY <1>2
  <2> QED BY <1>5, <2>1, AgreedCommit
<1>9. sequenced_leaders'[n] = {RoundOf(i) : i \in (l + 1)..(l + q)}
  <2>1. {commits[i].round : i \in 1..q} = {RoundOf(l + i) : i \in 1..q}
    BY <1>6, <1>8
  <2>2. {RoundOf(l + i) : i \in 1..q} = {RoundOf(i) : i \in (l + 1)..(l + q)}
    <3>1. \A i \in 1..q : l + i \in (l + 1)..(l + q)
      BY <1>2, <1>6
    <3>2. \A i \in (l + 1)..(l + q) : i - l \in 1..q /\ l + (i - l) = i
      BY <1>2, <1>6
    <3> QED BY <3>1, <3>2
  <2> QED BY Zenon, <1>7, <2>1, <2>2
<1>10. certified_commits'[n] = Slice(l + q, l + x)
  <2>1. l <= l + x /\ x <= (l + x) - l
    BY <1>2
  <2>2. Cut(Slice(l, l + x), q, x) = Slice(l + q, l + x)
    BY <1>2, <1>6, <2>1, CutOfSlice
  <2> QED BY <1>3, <1>5, <1>7, <2>2 DEF Cut
<1>11. last_decided_leader'[n] = RoundOf(l + q) /\ RoundOf(l + q) \in 1..MaxRound
  <2>1. q \in 1..x
    BY <1>6
  <2> QED BY <1>7, <1>8, <2>1, AgreedCommit
<1>12. l + q < Total => RoundOf(l + q) < RoundOf(l + q + 1)
  <2> SUFFICES ASSUME l + q < Total PROVE RoundOf(l + q) < RoundOf(l + q + 1)
    OBVIOUS
  <2>1. l + q \in 0..Total /\ l + q + 1 \in 0..Total /\ l + q < l + q + 1
    BY <1>2, <1>6
  <2>2. RoundOf(l + q + 1) >= RoundOf(l + q) + ((l + q + 1) - (l + q))
    BY <2>1, RoundsGrow
  <2>3. RoundOf(l + q) \in Nat /\ RoundOf(l + q + 1) \in Nat
    BY <2>1, RoundBounds
  <2>4. (l + q + 1) - (l + q) = 1
    BY <1>2, <1>6
  <2> QED BY <2>2, <2>3, <2>4
<1> DEFINE y == x - q
<1>13. /\ y \in Nat /\ K + S + C = l /\ K + S + C + q = l + q
       /\ K + S + C + 1 = l + 1 /\ K + S + C + q + 1 = l + q + 1
       /\ K + S + C + q + y = l + x /\ S + C + q <= N
  BY <1>2, <1>6 DEF l
<1> HIDE DEF y
<1>14. LoopAt(n, K, S, C, q, y)'
  <2>1. RoundOf(l + q) <= last_decided_leader'[n]
    BY <1>11
  <2>2. /\ IsTable(leader_swap_table'[n], K)
        /\ log'[n] = Slice(0, K + S + C)
        /\ scoring_subdag'[n] = Slice(K, K + S)
        /\ committed_sub_dags'[n] = Slice(K + S, K + S + C)
    BY Zenon, <1>1 DEF SelectCertified, LoopAt
  <2>3. sequenced_leaders'[n] = {RoundOf(i) : i \in (K + S + C + 1)..(K + S + C + q)}
    BY <1>9, <1>13
  <2>4. certified_commits'[n] = Slice(K + S + C + q, K + S + C + q + y)
    BY <1>10, <1>13
  <2>5. /\ RoundOf(K + S + C + q) <= last_decided_leader'[n]
        /\ K + S + C + q < Total => last_decided_leader'[n] < RoundOf(K + S + C + q + 1)
    BY <1>11, <1>12, <1>13, <2>1
  <2>6. K + S + C + q + y <= Total
    BY <1>2, <1>13
  <2> QED BY Zenon, <1>7, <1>13, <2>2, <2>3, <2>4, <2>5, <2>6 DEF LoopAt
<1>15. StoredAt(n, J, j)'
  BY <1>1 DEF StoredAt, SelectCertified
<1>16. TypeOK'
  <2>0. l + q \in Nat /\ l + q <= l + x
    BY <1>2, <1>6
  <2>1. Slice(l + q, l + x) \in Seq(Commit)
    BY <1>2, <2>0, SliceIs
  <2>2. {RoundOf(i) : i \in (l + 1)..(l + q)} \in SUBSET Round
    <3>1. \A i \in (l + 1)..(l + q) : i \in 1..Total
      BY <1>2, <1>6
    <3> QED BY <3>1, AgreedCommit DEF Round
  <2>3. RoundOf(l + q) \in 0..MaxRound
    BY <1>11, AgreedLogType
  <2> QED BY Zenon, <1>9, <1>10, <1>11, <2>1, <2>2, <2>3 DEF TypeOK, SelectCertified
<1> QED BY Zenon, <1>1, <1>6, <1>13, <1>14, <1>15, <1>16 DEF Follows

\* So are the leaders that are decided.
LEMMA DecideLeadersFollows ==
  ASSUME TypeOK, NEW n \in Node, Follows(n), DecideLeaders(n)
  PROVE  Follows(n)' /\ TypeOK'
<1>1. PICK K \in Nat, S \in Nat, C \in Nat, k \in Nat, x \in Nat, J \in Nat, j \in Nat :
        LoopAt(n, K, S, C, k, x) /\ StoredAt(n, J, j) /\ J <= K /\ j <= K + S + C
  BY Zenon DEF Follows
<1> DEFINE l == K + S
           limit == commits_until_leader_schedule_update(n)
           leaders == {r \in (last_decided_leader[n] + 1)..LastKept(n) :
                          Decides(leader_swap_table[n], r)}
           decided == IF LastKept(n) > last_decided_leader[n]
                        THEN LastKept(n) ELSE last_decided_leader[n]
<1>2. /\ k = 0 /\ C = 0 /\ l \in Nat /\ l <= Total /\ l + x <= Total /\ l + x \in Nat
      /\ K <= l /\ l - K = S /\ Total \in Nat /\ N \in Nat
  <2>1. k = 0 /\ C = 0 /\ K + S + C + k + x <= Total
    BY <1>1 DEF DecideLeaders, LoopAt
  <2>2. Total \in Nat /\ N \in Nat
    BY AgreedLogType, NType
  <2>3. l \in Nat /\ l + x <= Total /\ l + x \in Nat
    BY <2>1, <2>2
  <2>4. l <= Total /\ K <= l /\ l - K = S
    BY <2>1, <2>2
  <2> QED BY <2>1, <2>2, <2>3, <2>4
<1>3. limit = N - S
  <2>1. scoring_subdag[n] = Slice(K, l)
    BY <1>1 DEF LoopAt
  <2> HIDE DEF l
  <2>2. Len(Slice(K, l)) = l - K
    BY <1>2, SliceIs
  <2> QED BY <1>2, <2>1, <2>2 DEF commits_until_leader_schedule_update, N
<1>4. S < N
  <2>1. limit > 0
    BY DEF DecideLeaders
  <2> HIDE DEF limit
  <2> QED BY <1>2, <1>3, <2>1
<1>5. PICK D \in 0..MaxRound : D = last_decided_leader[n]
  BY DEF TypeOK
<1>6. PICK t : t = leader_swap_table[n]
  OBVIOUS
<1>7. PICK last \in 0..MaxRound : last = LastKept(n) /\ last <= D + (N - S)
  <2>1. horizon[n] \in 0..MaxRound /\ D + limit \in Nat
    BY <1>2, <1>3, <1>4, <1>5 DEF TypeOK
  <2>2. LastKept(n) = IF horizon[n] >= D + limit THEN D + limit ELSE horizon[n]
    BY <1>5 DEF LastKept
  <2> HIDE DEF limit
  <2>3. LastKept(n) \in 0..MaxRound /\ LastKept(n) <= D + limit
    BY <2>1, <2>2, AgreedLogType
  <2> QED BY <1>3, <2>3
<1>8. PICK q \in Nat : AreNext(t, K, l, D, last, q)
  <2>1. IsTable(t, K) /\ RoundOf(l) <= D /\ (l < Total => D < RoundOf(l + 1))
    <3>1. K + S + C + k = l
      BY <1>2
    <3> HIDE DEF l
    <3> QED BY Zenon, <1>1, <1>5, <1>6, <3>1 DEF LoopAt
  <2>2. l < K + N /\ D \in Nat /\ last \in Nat /\ last <= MaxRound /\ N - S = K + N - l
    BY <1>2, <1>4, <1>5, <1>7, AgreedLogType
  <2>3. last <= D + (K + N - l)
    BY <1>7, <2>2
  <2> HIDE DEF l
  <2> QED BY <1>2, <2>1, <2>2, <2>3, DecidedAreNext
<1> DEFINE next == IF last > D THEN last ELSE D
<1>9. next \in 0..MaxRound
  BY <1>5, <1>7
<1>10. /\ sequenced_leaders'[n] = {RoundOf(i) : i \in (l + 1)..(l + q)}
       /\ last_decided_leader'[n] = next
       /\ call'[n] = IF sequenced_leaders'[n] = {} THEN "idle" ELSE "commit"
  BY Zenon, <1>5, <1>6, <1>7, <1>8 DEF DecideLeaders, TypeOK, AreNext
<1>11. RoundOf(l + q) <= next /\ (l + q < Total => next < RoundOf(l + q + 1))
  BY <1>8 DEF AreNext
<1> HIDE DEF next, l, limit
<1>12. call'[n] /= "commit" => q = 0
  <2> SUFFICES ASSUME sequenced_leaders'[n] = {} PROVE q = 0
    BY <1>10
  <2>1. q /= 0 => l + 1 \in (l + 1)..(l + q)
    BY <1>2
  <2> QED BY <1>10, <2>1
<1>13. x = 0
  <2>1. Slice(l, l + x) = <<>>
    <3>1. certified_commits[n] = Slice(K + S + C + k, K + S + C + k + x)
      BY Zenon, <1>1 DEF LoopAt
    <3>2. certified_commits[n] = <<>>
      BY Zenon DEF DecideLeaders
    <3>3. K + S + C + k = l
      BY <1>2 DEF l
    <3> QED BY Zenon, <3>1, <3>2, <3>3
  <2>2. l <= l + x
    BY <1>2
  <2>3. l = l + x
    BY <1>2, <2>1, <2>2, SliceIs
  <2> QED BY <1>2, <2>3
<1>14. Slice(l + q, l + q) = <<>>
  BY <1>2, <1>8, SliceIs DEF AreNext
<1>15. /\ K + S + C = l /\ K + S + C + q = l + q
       /\ K + S + C + 1 = l + 1 /\ K + S + C + q + 1 = l + q + 1
       /\ K + S + C + q + x = l + q /\ S + C + q <= N
  BY <1>2, <1>8, <1>13 DEF l, AreNext
<1>16. LoopAt(n, K, S, C, q, x)'
  <2>1. /\ IsTable(leader_swap_table'[n], K)
        /\ log'[n] = Slice(0, K + S + C)
        /\ scoring_subdag'[n] = Slice(K, K + S)
        /\ committed_sub_dags'[n] = Slice(K + S, K + S + C)
    BY Zenon, <1>1 DEF DecideLeaders, LoopAt
  <2>2. certified_commits'[n] = <<>>
    BY DEF DecideLeaders
  <2>3. sequenced_leaders'[n] = {RoundOf(i) : i \in (K + S + C + 1)..(K + S + C + q)}
    BY <1>10, <1>15
  <2>4. certified_commits'[n] = Slice(K + S + C + q, K + S + C + q + x)
    BY <1>14, <1>15, <2>2
  <2>5. /\ RoundOf(K + S + C + q) <= last_decided_leader'[n]
        /\ K + S + C + q < Total => last_decided_leader'[n] < RoundOf(K + S + C + q + 1)
    BY <1>10, <1>11, <1>15
  <2>6. K + S + C + q + x <= Total
    BY <1>8, <1>15 DEF AreNext
  <2> QED BY <1>2, <1>12, <1>15, <2>1, <2>3, <2>4, <2>5, <2>6 DEF LoopAt
<1>17. StoredAt(n, J, j)'
  BY <1>1 DEF StoredAt, DecideLeaders
<1>18. TypeOK'
  <2>1. leaders \in SUBSET Round
    <3>1. leaders = {r \in (D + 1)..last : Decides(t, r)}
      BY <1>5, <1>6, <1>7
    <3>2. \A r \in (D + 1)..last : r \in Round
      BY AgreedLogType DEF Round
    <3> HIDE DEF leaders
    <3> QED BY <3>1, <3>2
  <2>2. /\ last_decided_leader' = [last_decided_leader EXCEPT ![n] = next]
        /\ sequenced_leaders' = [sequenced_leaders EXCEPT ![n] = leaders]
    BY Zenon, <1>5, <1>7 DEF DecideLeaders, next
  <2>3. \E w \in {"idle", "loop", "commit"} : call' = [call EXCEPT ![n] = w]
    BY Zenon DEF DecideLeaders
  <2>4. UNCHANGED <<log, leader_swap_table, scoring_subdag, horizon, certified_commits,
                    committed_sub_dags, stored>>
    BY DEF DecideLeaders
  <2> HIDE DEF leaders
  <2>5. call' \in [Node -> {"idle", "loop", "commit"}]
    BY <2>3 DEF TypeOK
  <2>6. last_decided_leader' \in [Node -> 0..MaxRound]
    BY <1>9, <2>2 DEF TypeOK
  <2>7. sequenced_leaders' \in [Node -> SUBSET Round]
    BY Zenon, <2>1, <2>2 DEF TypeOK
  <2> QED BY <2>4, <2>5, <2>6, <2>7 DEF TypeOK
<1> QED BY Zenon, <1>1, <1>8, <1>16, <1>17, <1>18 DEF Follows

\* The least of them is the next commit.
LEMMA CommitLeaderFollows ==
  ASSUME TypeOK, NEW n \in Node, Follows(n), CommitLeader(n)
  PROVE  Follows(n)' /\ TypeOK'
<1>1. PICK K \in Nat, S \in Nat, C \in Nat, k \in Nat, x \in Nat, J \in Nat, j \in Nat :
        LoopAt(n, K, S, C, k, x) /\ StoredAt(n, J, j) /\ J <= K /\ j <= K + S + C
  BY Zenon DEF Follows
<1> DEFINE l == K + S + C
           c(r) == [index |-> Len(log[n]) + 1, round |-> r]
<1>2. PICK r \in sequenced_leaders[n] :
        /\ \A q \in sequenced_leaders[n] : r <= q
        /\ log' = [log EXCEPT ![n] = Append(@, c(r))]
        /\ committed_sub_dags' = [committed_sub_dags EXCEPT ![n] = Append(@, c(r))]
        /\ sequenced_leaders' = [sequenced_leaders EXCEPT ![n] = @ \ {r}]
  BY Zenon DEF CommitLeader
<1>3. /\ l \in Nat /\ l <= Total /\ l + k + x <= Total /\ Total \in Nat /\ N \in Nat
      /\ K + S \in Nat /\ K + S <= l /\ l + k \in Nat /\ l + k <= Total
  <2>1. K + S + C + k + x <= Total
    BY <1>1 DEF LoopAt
  <2>2. Total \in Nat /\ N \in Nat
    BY AgreedLogType, NType
  <2>3. l \in Nat /\ l + k \in Nat /\ l + k + x <= Total
    BY <2>1, <2>2
  <2>4. l <= Total /\ l + k <= Total /\ K + S \in Nat /\ K + S <= l
    BY <2>1, <2>2
  <2> QED BY <2>2, <2>3, <2>4
<1>4. sequenced_leaders[n] = {RoundOf(i) : i \in (l + 1)..(l + k)}
  BY <1>1 DEF LoopAt
<1>5. log[n] = Slice(0, l) /\ committed_sub_dags[n] = Slice(K + S, l)
  BY <1>1 DEF LoopAt
<1> HIDE DEF l
<1>6. \A i \in (l + 1)..(l + k) : i \in 1..Total /\ i \in 0..Total /\ RoundOf(i) \in 1..MaxRound
  <2>1. \A i \in (l + 1)..(l + k) : i \in 1..Total /\ i \in 0..Total
    BY <1>3
  <2> QED BY <2>1, AgreedCommit
<1>7. \A i \in (l + 1)..(l + k) : i /= l + 1 => RoundOf(l + 1) < RoundOf(i)
  <2> SUFFICES ASSUME NEW i \in (l + 1)..(l + k), i /= l + 1
               PROVE  RoundOf(l + 1) < RoundOf(i)
    OBVIOUS
  <2>1. l + 1 < i /\ l + 1 \in (l + 1)..(l + k) /\ i - (l + 1) > 0 /\ i - (l + 1) \in Nat
    BY <1>3
  <2>2. l + 1 \in 0..Total /\ i \in 0..Total
    BY <1>6, <2>1
  <2>3. RoundOf(i) >= RoundOf(l + 1) + (i - (l + 1))
    BY <2>1, <2>2, RoundsGrow
  <2>4. RoundOf(l + 1) \in Nat /\ RoundOf(i) \in Nat
    BY <2>2, RoundBounds
  <2> QED BY <2>1, <2>3, <2>4
<1>8. r = RoundOf(l + 1) /\ l + 1 \in (l + 1)..(l + k) /\ k > 0
  <2>1. PICK i \in (l + 1)..(l + k) : r = RoundOf(i)
    BY <1>2, <1>4
  <2>2. l + 1 \in (l + 1)..(l + k) /\ k > 0
    BY <1>3
  <2>3. r <= RoundOf(l + 1)
    BY <1>2, <1>4, <2>2
  <2>4. i = l + 1
    BY <1>6, <1>7, <2>1, <2>2, <2>3
  <2> QED BY <2>1, <2>2, <2>4
<1>9. Len(log[n]) = l
  <2>1. 0 <= l /\ l - 0 = l
    BY <1>3
  <2> QED BY Zenon, <1>3, <1>5, <2>1, SliceIs
<1>10. c(r) = AgreedLog[l + 1] /\ c(r) \in Commit /\ l < Total
  <2>1. l + 1 \in 1..Total
    BY <1>6, <1>8
  <2>2. AgreedLog[l + 1] = [index |-> l + 1, round |-> RoundOf(l + 1)]
    BY <2>1, AgreedRecord
  <2>3. AgreedLog[l + 1] \in Commit
    BY <2>1, AgreedCommit
  <2>4. l < Total
    BY <1>3, <2>1
  <2> QED BY <1>8, <1>9, <2>2, <2>3, <2>4
<1> HIDE DEF c
<1>11. log'[n] = Slice(0, l + 1)
  <2>0. 0 <= l
    BY <1>3
  <2>1. Append(Slice(0, l), AgreedLog[l + 1]) = Slice(0, l + 1)
    BY Zenon, <1>3, <1>10, <2>0, SliceAppend
  <2> QED BY <1>2, <1>5, <1>10, <2>1 DEF TypeOK
<1>12. committed_sub_dags'[n] = Slice(K + S, l + 1)
  <2>1. Append(Slice(K + S, l), AgreedLog[l + 1]) = Slice(K + S, l + 1)
    BY Zenon, <1>3, <1>10, SliceAppend
  <2> QED BY <1>2, <1>5, <1>10, <2>1 DEF TypeOK
<1>13. sequenced_leaders'[n] = {RoundOf(i) : i \in (l + 1 + 1)..(l + k)}
  <2>1. sequenced_leaders'[n] = {RoundOf(i) : i \in (l + 1)..(l + k)} \ {RoundOf(l + 1)}
    BY <1>2, <1>4, <1>8 DEF TypeOK
  <2>2. ASSUME NEW i \in (l + 1)..(l + k), RoundOf(i) /= RoundOf(l + 1)
        PROVE  i \in (l + 1 + 1)..(l + k)
    <3>1. i /= l + 1
      BY <2>2
    <3> QED BY <1>3, <3>1
  <2>3. ASSUME NEW i \in (l + 1 + 1)..(l + k)
        PROVE  i \in (l + 1)..(l + k) /\ RoundOf(i) /= RoundOf(l + 1)
    <3>1. i \in (l + 1)..(l + k) /\ i /= l + 1
      BY <1>3
    <3>2. RoundOf(l + 1) < RoundOf(i) /\ RoundOf(l + 1) \in Int /\ RoundOf(i) \in Int
      BY <1>6, <1>7, <1>8, <3>1
    <3> QED BY <3>1, <3>2
  <2> QED BY <2>1, <2>2, <2>3
<1> DEFINE q == k - 1
           E == C + 1
<1>14. /\ q \in Nat /\ E \in Nat /\ K + S + E = l + 1 /\ K + S + E + 1 = l + 1 + 1
       /\ K + S + E + q = l + k /\ K + S + C + k = l + k /\ S + E + q = S + C + k
  BY <1>3, <1>8 DEF l
<1> HIDE DEF q, E
<1>15. LoopAt(n, K, S, E, q, x)'
  <2>1. /\ IsTable(leader_swap_table'[n], K)
        /\ scoring_subdag'[n] = Slice(K, K + S)
        /\ certified_commits'[n] = Slice(l + k, l + k + x)
        /\ RoundOf(l + k) <= last_decided_leader'[n]
        /\ l + k < Total => last_decided_leader'[n] < RoundOf(l + k + 1)
        /\ S + C + k <= N
        /\ call'[n] = "commit"
    BY <1>1 DEF CommitLeader, LoopAt, l
  <2>2. sequenced_leaders'[n] = {RoundOf(i) : i \in (K + S + E + 1)..(K + S + E + q)}
    BY <1>13, <1>14
  <2>3. certified_commits'[n] = Slice(K + S + E + q, K + S + E + q + x)
    BY <1>14, <2>1
  <2>4. log'[n] = Slice(0, K + S + E) /\ committed_sub_dags'[n] = Slice(K + S, K + S + E)
    BY <1>11, <1>12, <1>14
  <2>5. /\ RoundOf(K + S + E + q) <= last_decided_leader'[n]
        /\ K + S + E + q < Total => last_decided_leader'[n] < RoundOf(K + S + E + q + 1)
    BY <1>14, <2>1
  <2>6. K + S + E + q + x <= Total /\ S + E + q <= N
    BY <1>3, <1>14, <2>1
  <2> QED BY <2>1, <2>2, <2>3, <2>4, <2>5, <2>6 DEF LoopAt
<1>16. StoredAt(n, J, j)'
  BY <1>1 DEF StoredAt, CommitLeader
<1>17. TypeOK'
  <2>1. log' \in [Node -> Seq(Commit)] /\ committed_sub_dags' \in [Node -> Seq(Commit)]
    BY <1>2, <1>10 DEF TypeOK
  <2>2. sequenced_leaders' \in [Node -> SUBSET Round]
    BY Zenon, <1>2 DEF TypeOK
  <2> QED BY Zenon, <2>1, <2>2 DEF TypeOK, CommitLeader
<1>18. j <= K + S + E
  BY <1>1, <1>3, <1>14 DEF l
<1> QED BY Zenon, <1>1, <1>14, <1>15, <1>16, <1>17, <1>18 DEF Follows

\* All commits of the iteration are scored.
LEMMA AddScoringFollows ==
  ASSUME TypeOK, NEW n \in Node, Follows(n), add_scoring_subdags(n)
  PROVE  Follows(n)' /\ TypeOK'
<1>1. PICK K \in Nat, S \in Nat, C \in Nat, k \in Nat, x \in Nat, J \in Nat, j \in Nat :
        LoopAt(n, K, S, C, k, x) /\ StoredAt(n, J, j) /\ J <= K /\ j <= K + S + C
  BY Zenon DEF Follows
<1> DEFINE l == K + S + C
<1>2. /\ l \in Nat /\ l <= Total /\ Total \in Nat /\ K + S \in Nat /\ K + S <= l
      /\ K <= K + S /\ l + k <= Total
  <2>1. K + S + C + k + x <= Total
    BY <1>1 DEF LoopAt
  <2> QED BY <2>1, AgreedLogType
<1>3. k = 0
  <2>1. sequenced_leaders[n] = {RoundOf(i) : i \in (l + 1)..(l + k)}
    BY <1>1 DEF LoopAt
  <2> HIDE DEF l
  <2>2. k /= 0 => l + 1 \in (l + 1)..(l + k)
    BY <1>2
  <2> QED BY Zenon, <2>1, <2>2 DEF add_scoring_subdags
<1> DEFINE E == S + C
<1>4. E \in Nat /\ K + E = l /\ K + E + 0 = l /\ K + E + 0 + 0 = l /\ l + k = l
  BY <1>2, <1>3
<1>5. scoring_subdag'[n] = Slice(K, l)
  <2>1. scoring_subdag[n] = Slice(K, K + S) /\ committed_sub_dags[n] = Slice(K + S, l)
    BY <1>1 DEF LoopAt
  <2> HIDE DEF l
  <2>2. Slice(K, K + S) \o Slice(K + S, l) = Slice(K, l)
    BY Zenon, <1>2, SliceJoin
  <2> QED BY <2>1, <2>2 DEF add_scoring_subdags, TypeOK
<1>6. committed_sub_dags'[n] = <<>> /\ Slice(l, l) = <<>>
  <2>1. committed_sub_dags'[n] = <<>>
    BY DEF add_scoring_subdags, TypeOK
  <2> HIDE DEF l
  <2> QED BY <1>2, <2>1, SliceIs
<1>7. /\ IsTable(leader_swap_table'[n], K)
      /\ log'[n] = Slice(0, l)
      /\ sequenced_leaders'[n] = {RoundOf(i) : i \in (l + 1)..(l + 0)}
      /\ certified_commits'[n] = Slice(l, l + x)
      /\ RoundOf(l) <= last_decided_leader'[n]
      /\ l < Total => last_decided_leader'[n] < RoundOf(l + 1)
      /\ l + x <= Total /\ E <= N
  <2>1. UNCHANGED <<log, leader_swap_table, last_decided_leader, certified_commits,
                    sequenced_leaders>>
    BY Zenon DEF add_scoring_subdags
  <2>2. K + S + C = l /\ K + S + C + k = l /\ l + 0 = l /\ l + k = l /\ S + C + k = E
    BY <1>3, <1>4
  <2> HIDE DEF l, E
  <2> QED BY Zenon, <1>1, <2>1, <2>2 DEF LoopAt
<1> HIDE DEF l, E
<1>8. LoopAt(n, K, E, 0, 0, x)'
  <2>1. E + 0 + 0 = E /\ l + 0 = l
    BY <1>2, <1>4
  <2> QED BY Zenon, <1>4, <1>5, <1>6, <1>7, <2>1 DEF LoopAt
<1>9. StoredAt(n, J, j)'
  BY Zenon, <1>1 DEF StoredAt, add_scoring_subdags
<1>10. TypeOK'
  <2>1. scoring_subdag[n] \o committed_sub_dags[n] \in Seq(Commit) /\ <<>> \in Seq(Commit)
    BY DEF TypeOK
  <2>2. scoring_subdag' \in [Node -> Seq(Commit)] /\ committed_sub_dags' \in [Node -> Seq(Commit)]
    BY <2>1 DEF TypeOK, add_scoring_subdags
  <2>3. call' \in [Node -> {"idle", "loop", "commit"}]
    BY DEF TypeOK, add_scoring_subdags
  <2> QED BY Zenon, <2>2, <2>3 DEF TypeOK, add_scoring_subdags
<1>11. j <= K + E + 0 /\ 0 \in Nat
  BY <1>1, <1>4 DEF l
<1> QED BY Zenon, <1>1, <1>4, <1>8, <1>9, <1>10, <1>11 DEF Follows

\* What is stored is all there is.
LEMMA FlushFollows ==
  ASSUME TypeOK, NEW n \in Node, Follows(n), flush(n)
  PROVE  Follows(n)' /\ TypeOK'
<1>1. PICK K \in Nat, S \in Nat, C \in Nat, k \in Nat, x \in Nat, J \in Nat, j \in Nat :
        LoopAt(n, K, S, C, k, x) /\ StoredAt(n, J, j) /\ J <= K /\ j <= K + S + C
  BY Zenon DEF Follows
<1> DEFINE l == K + S + C
<1>2. l \in Nat /\ l <= Total /\ K <= l /\ l <= K + N
  <2>1. K + S + C + k + x <= Total /\ S + C + k <= N
    BY <1>1 DEF LoopAt
  <2> QED BY <2>1, AgreedLogType, NType
<1>3. LoopAt(n, K, S, C, k, x)'
  BY Zenon, <1>1 DEF LoopAt, flush, coreVars
<1>4. stored'[n].commits = log[n] /\ stored'[n].info = leader_swap_table[n]
  BY DEF flush, TypeOK
<1>5. log[n] = Slice(0, l) /\ IsTable(leader_swap_table[n], K)
  BY <1>1 DEF LoopAt
<1>6. K <= K /\ l <= K + S + C
  BY <1>2
<1> HIDE DEF l
<1>7. StoredAt(n, K, l)'
  BY <1>2, <1>4, <1>5 DEF StoredAt
<1>8. TypeOK'
  BY Zenon DEF TypeOK, flush, coreVars
<1> QED BY Zenon, <1>1, <1>2, <1>3, <1>6, <1>7, <1>8 DEF Follows

\* After a restart the loop is where what is stored ends.
LEMMA RestartFollows ==
  ASSUME TypeOK, NEW n \in Node, Follows(n), Restart(n)
  PROVE  Follows(n)' /\ TypeOK'
<1>1. PICK J \in Nat, j \in Nat : StoredAt(n, J, j)
  BY DEF Follows
<1>2. /\ IsTable(stored[n].info, J) /\ stored[n].commits = Slice(0, j)
      /\ J <= j /\ j <= J + N /\ j <= Total
  BY <1>1 DEF StoredAt
<1>3. LastIndexOf(stored[n].info) = J /\ stored[n].info \in Seq(Commit)
  BY <1>2, TableFacts
<1>4. Total \in Nat /\ N \in Nat /\ 0 <= j /\ j - 0 = j /\ j <= j - 0 /\ 0 + j = j /\ 0 + J = J
  BY AgreedLogType, NType
<1>5. Len(Slice(0, j)) = j - 0 /\ Slice(0, j) \in Seq(Commit)
  BY <1>2, <1>4, SliceIs
<1>6. UnscoredCommits(stored[n]) = Slice(J, j) /\ Slice(J, j) \in Seq(Commit)
  <2>1. Cut(Slice(0, j), J, j) = Slice(0 + J, 0 + j)
    BY <1>2, <1>4, CutOfSlice
  <2>2. UnscoredCommits(stored[n]) = Cut(Slice(0, j), J, j)
    BY <1>2, <1>3, <1>4, <1>5 DEF UnscoredCommits, Cut
  <2>3. Slice(J, j) \in Seq(Commit)
    BY <1>2, SliceIs
  <2> QED BY <1>4, <2>1, <2>2, <2>3
<1>7. LastRoundOf(RecoveredLog(stored[n])) = RoundOf(j) /\ RoundOf(j) \in 0..MaxRound
  <2>1. LastRoundOf(Slice(0, j)) = RoundOf(j)
    BY <1>2, <1>4, SliceLast
  <2>2. j \in 0..Total
    BY <1>2, <1>4
  <2>3. RoundOf(j) \in 0..MaxRound
    BY <2>2, RoundBounds
  <2> QED BY <1>2, <2>1, <2>3 DEF RecoveredLog
<1>8. /\ log'[n] = Slice(0, j)
      /\ leader_swap_table'[n] = stored[n].info
      /\ scoring_subdag'[n] = Slice(J, j)
      /\ last_decided_leader'[n] = RoundOf(j)
      /\ call'[n] = "loop"
      /\ certified_commits'[n] = <<>>
      /\ sequenced_leaders'[n] = {}
      /\ committed_sub_dags'[n] = <<>>
      /\ stored' = stored
  BY Zenon, <1>2, <1>6, <1>7 DEF Restart, TypeOK, RecoveredLog, RecoveredTable
<1>9. j < Total => RoundOf(j) < RoundOf(j + 1)
  <2> SUFFICES ASSUME j < Total PROVE RoundOf(j) < RoundOf(j + 1)
    OBVIOUS
  <2>1. j \in 0..Total /\ j + 1 \in 0..Total /\ j < j + 1 /\ (j + 1) - j = 1
    BY <1>4
  <2>2. RoundOf(j + 1) >= RoundOf(j) + ((j + 1) - j)
    BY <2>1, RoundsGrow
  <2>3. RoundOf(j) \in Nat /\ RoundOf(j + 1) \in Nat
    BY <2>1, RoundBounds
  <2> QED BY <2>1, <2>2, <2>3
<1> DEFINE S == j - J
<1>10. /\ S \in Nat /\ J + S = j /\ J + S + 0 = j /\ J + S + 0 + 0 = j /\ S + 0 + 0 <= N
       /\ J + S + 0 + 0 + 0 = j /\ J + S + 0 + 1 = j + 1 /\ J + S + 0 + 0 + 1 = j + 1
  BY <1>2, <1>4
<1>11. Slice(j, j) = <<>> /\ {RoundOf(i) : i \in (j + 1)..j} = {}
  <2>1. Slice(j, j) = <<>>
    BY <1>2, SliceIs
  <2>2. (j + 1)..j = {}
    OBVIOUS
  <2> QED BY <2>1, <2>2
<1> HIDE DEF S
<1>12. LoopAt(n, J, S, 0, 0, 0)'
  <2>1. RoundOf(j) <= RoundOf(j)
    BY <1>7
  <2> QED BY <1>2, <1>8, <1>9, <1>10, <1>11, <2>1 DEF LoopAt
<1>13. StoredAt(n, J, j)'
  BY Zenon, <1>1, <1>8 DEF StoredAt
<1>14. TypeOK'
  <2>1. PICK h \in 0..horizon[n] : horizon' = [horizon EXCEPT ![n] = h]
    BY Zenon DEF Restart
  <2>2. h \in 0..MaxRound
    BY AgreedLogType DEF TypeOK
  <2>3. horizon' \in [Node -> 0..MaxRound]
    BY <2>1, <2>2 DEF TypeOK
  <2>4. <<>> \in Seq(Commit)
    OBVIOUS
  <2>5. log' \in [Node -> Seq(Commit)] /\ leader_swap_table' \in [Node -> Seq(Commit)]
    BY Zenon, <1>2, <1>3, <1>5 DEF TypeOK, Restart, RecoveredLog, RecoveredTable
  <2>6. scoring_subdag' \in [Node -> Seq(Commit)] /\ last_decided_leader' \in [Node -> 0..MaxRound]
    BY <1>6, <1>7 DEF TypeOK, Restart
  <2>7. /\ call' \in [Node -> {"idle", "loop", "commit"}]
        /\ certified_commits' \in [Node -> Seq(Commit)]
        /\ sequenced_leaders' \in [Node -> SUBSET Round]
        /\ committed_sub_dags' \in [Node -> Seq(Commit)]
    BY <2>4 DEF TypeOK, Restart
  <2> QED BY Zenon, <1>8, <2>3, <2>5, <2>6, <2>7 DEF TypeOK
<1>15. J <= J /\ j <= J + S + 0 /\ 0 \in Nat
  BY <1>10
<1> QED BY Zenon, <1>10, <1>12, <1>13, <1>14, <1>15 DEF Follows

\* A step of authority n, for all of them.
LEMMA StepFollows ==
  ASSUME IInv, NEW n \in Node, Step(n)
  PROVE  IInv'
<1>1. TypeOK /\ \A m \in Node : Follows(m)
  BY DEF IInv
<1>2. Follows(n)' /\ TypeOK'
  <2>1. CASE \E h \in Round : add_blocks(n, h)
    BY <1>1, <2>1, AddBlocksFollows
  <2>2. CASE \E peer \in Node : \E i \in 1..Len(log[peer]) : add_certified_commits(n, peer, i)
    BY <1>1, <2>2, AddCertifiedFollows
  <2>3. CASE update_leader_schedule(n)
    BY <1>1, <2>3, UpdateScheduleFollows
  <2>4. CASE SelectCertified(n)
    BY <1>1, <2>4, SelectCertifiedFollows
  <2>5. CASE DecideLeaders(n)
    BY <1>1, <2>5, DecideLeadersFollows
  <2>6. CASE CommitLeader(n)
    BY <1>1, <2>6, CommitLeaderFollows
  <2>7. CASE add_scoring_subdags(n)
    BY <1>1, <2>7, AddScoringFollows
  <2>8. CASE flush(n)
    BY <1>1, <2>8, FlushFollows
  <2>9. CASE Restart(n)
    BY <1>1, <2>9, RestartFollows
  <2> QED BY <2>1, <2>2, <2>3, <2>4, <2>5, <2>6, <2>7, <2>8, <2>9 DEF Step
<1>3. ASSUME NEW m \in Node, m /= n
      PROVE  /\ log'[m] = log[m] /\ leader_swap_table'[m] = leader_swap_table[m]
             /\ scoring_subdag'[m] = scoring_subdag[m]
             /\ last_decided_leader'[m] = last_decided_leader[m] /\ call'[m] = call[m]
             /\ certified_commits'[m] = certified_commits[m]
             /\ sequenced_leaders'[m] = sequenced_leaders[m]
             /\ committed_sub_dags'[m] = committed_sub_dags[m] /\ stored'[m] = stored[m]
  <2>1. CASE \E h \in Round : add_blocks(n, h)
    BY <1>1, <1>3, <2>1 DEF add_blocks, TypeOK
  <2>2. CASE \E peer \in Node : \E i \in 1..Len(log[peer]) : add_certified_commits(n, peer, i)
    BY <1>1, <1>3, <2>2 DEF add_certified_commits, TypeOK
  <2>3. CASE update_leader_schedule(n)
    BY <1>1, <1>3, <2>3 DEF update_leader_schedule, TypeOK
  <2>4. CASE SelectCertified(n)
    BY Zenon, <1>1, <1>3, <2>4 DEF SelectCertified, TypeOK
  <2>5. CASE DecideLeaders(n)
    BY <1>1, <1>3, <2>5 DEF DecideLeaders, TypeOK
  <2>6. CASE CommitLeader(n)
    BY <1>1, <1>3, <2>6 DEF CommitLeader, TypeOK
  <2>7. CASE add_scoring_subdags(n)
    BY <1>1, <1>3, <2>7 DEF add_scoring_subdags, TypeOK
  <2>8. CASE flush(n)
    BY Zenon, <1>1, <1>3, <2>8 DEF flush, coreVars, TypeOK
  <2>9. CASE Restart(n)
    BY <1>1, <1>3, <2>9 DEF Restart, TypeOK
  <2> QED BY Zenon, <2>1, <2>2, <2>3, <2>4, <2>5, <2>6, <2>7, <2>8, <2>9 DEF Step
<1>4. ASSUME NEW m \in Node PROVE Follows(m)'
  <2>1. CASE m = n
    BY <1>2, <2>1
  <2>2. CASE m /= n
    BY Zenon, <1>1, <1>3, <2>2, OthersFollow
  <2> QED BY <2>1, <2>2
<1> QED BY <1>2, <1>4 DEF IInv

\* The invariant is inductive.
LEMMA Invariance == Spec => []IInv
<1>1. IInv /\ [Next]_vars => IInv'
  <2> SUFFICES ASSUME IInv, [Next]_vars PROVE IInv'
    OBVIOUS
  <2>1. CASE Next
    BY <2>1, StepFollows DEF Next
  <2>2. CASE UNCHANGED vars
    <3>1. TypeOK'
      BY Zenon, <2>2 DEF IInv, TypeOK, vars, coreVars
    <3>2. ASSUME NEW m \in Node PROVE Follows(m)'
      BY <2>2, OthersFollow DEF IInv, vars, coreVars
    <3> QED BY <3>1, <3>2 DEF IInv
  <2> QED BY <2>1, <2>2
<1> QED BY <1>1, InitInv, PTL DEF Spec

-----------------------------------------------------------------------------
(* The theorems                                                            *)

\* The first commits of the agreed log.
IsPrefix(s) == \E l \in Nat : l <= Total /\ s = Slice(0, l)

\* What such a log is.
LEMMA PrefixIs ==
  ASSUME NEW s, IsPrefix(s)
  PROVE  /\ Len(s) \in Nat /\ Len(s) <= Total
         /\ s = Slice(0, Len(s))
         /\ s \in Seq(Commit)
         /\ \A i \in 1..Len(s) : i \in 1..Total /\ s[i] = AgreedLog[i]
<1>2. PICK l \in Nat : l <= Total /\ s = Slice(0, l)
  BY DEF IsPrefix
<1>3. 0 <= l /\ l - 0 = l /\ Total \in Nat
  BY AgreedLogType
<1>4. Len(Slice(0, l)) = l - 0 /\ Slice(0, l) \in Seq(Commit)
  BY <1>2, <1>3, SliceIs
<1>5. \A i \in 1..(l - 0) : Slice(0, l)[i] = AgreedLog[0 + i]
  BY Zenon, <1>2, <1>3, SliceIs
<1>6. \A i \in 1..l : i \in 1..Total /\ 0 + i = i
  BY <1>2, <1>3
<1> QED BY <1>2, <1>3, <1>4, <1>5, <1>6

\* The invariant says that every authority's log is one, in both states of a step.
LEMMA LogIsPrefix ==
  ASSUME NEW n \in Node
  PROVE  (Follows(n) => IsPrefix(log[n])) /\ (Follows(n)' => IsPrefix(log'[n]))
<1>1. ASSUME Follows(n) PROVE IsPrefix(log[n])
  <2>1. PICK K \in Nat, S \in Nat, C \in Nat, k \in Nat, x \in Nat : LoopAt(n, K, S, C, k, x)
    BY <1>1 DEF Follows
  <2>2. K + S + C + k + x <= Total /\ log[n] = Slice(0, K + S + C)
    BY <2>1 DEF LoopAt
  <2>3. K + S + C \in Nat /\ K + S + C <= Total
    BY <2>2, AgreedLogType
  <2> QED BY <2>2, <2>3 DEF IsPrefix
<1>2. ASSUME Follows(n)' PROVE IsPrefix(log'[n])
  <2>1. PICK K \in Nat, S \in Nat, C \in Nat, k \in Nat, x \in Nat : LoopAt(n, K, S, C, k, x)'
    BY <1>2 DEF Follows
  <2>2. K + S + C + k + x <= Total /\ log'[n] = Slice(0, K + S + C)
    BY <2>1 DEF LoopAt
  <2>3. K + S + C \in Nat /\ K + S + C <= Total
    BY <2>2, AgreedLogType
  <2> QED BY <2>2, <2>3 DEF IsPrefix
<1> QED BY <1>1, <1>2

\* The variables keep their types: no round after MaxRound is ever decided.
THEOREM TypeCorrect == Spec => []TypeOK
<1>1. IInv => TypeOK
  BY DEF IInv
<1> QED BY <1>1, Invariance, PTL

\* Authorities agree on every commit, however each of them got it and wherever
\* they crash: for any number of authorities and commits per schedule, and any
\* way in which the outcome of slots depends on the schedule.
THEOREM LogsAgree == Spec => []Agreement
<1>1. IInv => Agreement
  <2> SUFFICES ASSUME IInv, NEW n \in Node, NEW m \in Node, NEW i \in 1..Len(log[n]),
                      i <= Len(log[m])
               PROVE  log[n][i] = log[m][i]
    BY DEF Agreement
  <2>1. IsPrefix(log[n]) /\ IsPrefix(log[m])
    BY LogIsPrefix DEF IInv
  <2>2. i \in 1..Len(log[m])
    BY <2>1, PrefixIs
  <2>3. log[n][i] = AgreedLog[i] /\ log[m][i] = AgreedLog[i]
    BY <2>1, <2>2, PrefixIs
  <2> QED BY <2>3
<1> QED BY <1>1, Invariance, PTL

\* Every commit is of the first leader that commits under the schedule of its
\* group, in every authority's log.
THEOREM LogsFollowSchedule == Spec => []LogFollowsSchedule
<1>1. IInv => LogFollowsSchedule
  <2> SUFFICES ASSUME IInv, NEW n \in Node, NEW i \in 1..Len(log[n])
               PROVE  LET c == log[n][i]
                          t == ScheduleFor(log[n], i)
                          previous == IF i = 1 THEN 0 ELSE log[n][i - 1].round
                      IN  /\ c.index = i
                          /\ c.round > previous
                          /\ Decides(t, c.round)
                          /\ \A r \in (previous + 1)..(c.round - 1) : ~ Decides(t, r)
    BY DEF LogFollowsSchedule
  <2>1. IsPrefix(log[n])
    BY LogIsPrefix DEF IInv
  <2> DEFINE l == log[n]
             previous == IF i = 1 THEN 0 ELSE l[i - 1].round
  <2>2. /\ Len(l) \in Nat /\ Len(l) <= Total /\ l \in Seq(Commit)
        /\ \A k \in 1..Len(l) : k \in 1..Total /\ l[k] = AgreedLog[k]
    BY <2>1, PrefixIs
  <2>3. /\ i \in Nat \ {0} /\ i <= Len(l) + 1 /\ i <= Len(AgreedLog) + 1 /\ i \in 1..Total
        /\ i - 1 \in 0..(i - 1) /\ i - (i - 1) = 1 /\ i - 1 \in 0..Total
    BY <2>2, AgreedLogType DEF Total
  <2> HIDE DEF l
  <2>4. \A k \in 1..(i - 1) : l[k] = AgreedLog[k]
    <3>1. \A k \in 1..(i - 1) : k \in 1..Len(l)
      BY <2>2, <2>3 DEF l
    <3> QED BY <2>2, <3>1
  <2>5. ScheduleFor(l, i) = ScheduleFor(AgreedLog, i)
    BY <2>2, <2>3, <2>4, ScheduleOfPrefix, AgreedLogType
  <2>6. previous = RoundOf(i - 1)
    <3>1. CASE i = 1
      BY <3>1 DEF RoundOf, RoundAt
    <3>2. CASE i /= 1
      <4>1. i - 1 \in 1..(i - 1) /\ i - 1 /= 0
        BY <2>3, <3>2
      <4> QED BY <2>4, <3>2, <4>1 DEF RoundOf, RoundAt
    <3> QED BY <3>1, <3>2
  <2>7. l[i] = AgreedLog[i]
    BY <2>2 DEF l
  <2>8. IsCommitAt(AgreedLog, i, MaxRound)
    BY <2>3, AgreedIsCommitAt
  <2> HIDE DEF previous
  <2>9. l[i].round > previous
    <3>1. l[i].round >= previous + 1
      <4>1. AgreedLog[i].round >= RoundAt(AgreedLog, i - 1) + (i - (i - 1))
        BY Zenon, <2>3, <2>8 DEF IsCommitAt
      <4> QED BY Zenon, <2>3, <2>6, <2>7, <4>1 DEF RoundOf
    <3>2. previous \in Nat /\ l[i].round \in Nat
      BY <2>3, <2>6, <2>7, RoundBounds, AgreedCommit
    <3> QED BY <3>1, <3>2
  <2>10. /\ l[i].index = i
         /\ Decides(ScheduleFor(l, i), l[i].round)
         /\ \A r \in (previous + 1)..(l[i].round - 1) : ~ Decides(ScheduleFor(l, i), r)
    BY <2>5, <2>6, <2>7, <2>8 DEF IsCommitAt, RoundOf
  <2> QED BY <2>9, <2>10 DEF l, previous
<1> QED BY <1>1, Invariance, PTL

\* The assertions of leader_schedule.rs never fail, whatever a crash left stored.
THEOREM AssertionsHold == Spec => []ScheduleAssertions
<1>1. IInv => ScheduleAssertions
  <2> SUFFICES ASSUME IInv, NEW n \in Node
               PROVE  LET t == leader_swap_table[n]
                          s == scoring_subdag[n]
                      IN  /\ Len(s) <= NumCommitsPerSchedule
                          /\ s /= <<>> => s[1].index = LastIndexOf(t) + 1
                          /\ s /= <<>> => LastIndexOf(s) = LastIndexOf(t) + Len(s)
                          /\ t /= <<>> => Len(t) = NumCommitsPerSchedule
    BY Zenon DEF ScheduleAssertions
  <2>1. PICK K \in Nat, S \in Nat, C \in Nat, k \in Nat, x \in Nat : LoopAt(n, K, S, C, k, x)
    BY DEF IInv, Follows
  <2>2. IsTable(leader_swap_table[n], K) /\ scoring_subdag[n] = Slice(K, K + S)
    BY <2>1 DEF LoopAt
  <2>3. /\ K + S \in Nat /\ K <= K + S /\ K + S <= Total /\ S <= N /\ (K + S) - K = S
        /\ Total \in Nat
    <3>1. S + C + k <= N /\ K + S + C + k + x <= Total
      BY <2>1 DEF LoopAt
    <3> QED BY <3>1, AgreedLogType, NType
  <2>4. /\ LastIndexOf(leader_swap_table[n]) = K
        /\ leader_swap_table[n] /= <<>> => Len(leader_swap_table[n]) = N
    BY <2>2, TableFacts
  <2> DEFINE b == K + S
  <2>5. b \in Nat /\ K <= b /\ b <= Total /\ b - K = S
    BY <2>3
  <2> HIDE DEF b
  <2>6. Len(Slice(K, b)) = b - K /\ (Slice(K, b) = <<>> <=> K = b)
    BY Zenon, <2>5, SliceIs
  <2>7. K < b => LastIndexOf(Slice(K, b)) = b
    BY <2>5, SliceLast
  <2>8. K < b => Slice(K, b)[1].index = K + 1
    <3> SUFFICES ASSUME K < b PROVE Slice(K, b)[1].index = K + 1
      OBVIOUS
    <3>1. 1 \in 1..(b - K) /\ K + 1 \in 1..Total
      BY <2>3, <2>5
    <3>2. Slice(K, b)[1] = AgreedLog[K + 1]
      BY <2>5, <3>1, SliceIs
    <3> QED BY <3>1, <3>2, AgreedCommit
  <2>9. scoring_subdag[n] = Slice(K, b)
    BY <2>2 DEF b
  <2>10. /\ Len(scoring_subdag[n]) = S
         /\ scoring_subdag[n] /= <<>>
              => scoring_subdag[n][1].index = K + 1 /\ LastIndexOf(scoring_subdag[n]) = K + S
    BY <2>5, <2>6, <2>7, <2>8, <2>9 DEF b
  <2> QED BY <2>3, <2>4, <2>10 DEF N
<1> QED BY <1>1, Invariance, PTL

-----------------------------------------------------------------------------
\* What flush writes extends what it wrote before, after any restarts.
THEOREM StorageGrows == Spec => StorageOnlyGrows
<1> DEFINE Grows(n) ==
             /\ Len(stored[n].commits) <= Len(stored'[n].commits)
             /\ SubSeq(stored'[n].commits, 1, Len(stored[n].commits)) = stored[n].commits
             /\ LastIndexOf(stored[n].info) <= LastIndexOf(stored'[n].info)
<1>1. ASSUME IInv, Next, NEW m \in Node PROVE Grows(m)
  <2>1. PICK K \in Nat, S \in Nat, C \in Nat, k \in Nat, x \in Nat, J \in Nat, j \in Nat :
          LoopAt(m, K, S, C, k, x) /\ StoredAt(m, J, j) /\ J <= K /\ j <= K + S + C
    BY Zenon, <1>1 DEF IInv, Follows
  <2>2. /\ IsTable(stored[m].info, J) /\ stored[m].commits = Slice(0, j) /\ j <= Total
        /\ IsTable(leader_swap_table[m], K) /\ log[m] = Slice(0, K + S + C)
    BY <2>1 DEF StoredAt, LoopAt
  <2>3. LastIndexOf(stored[m].info) = J /\ LastIndexOf(leader_swap_table[m]) = K
    BY <2>2, TableFacts
  <2>4. \/ stored'[m] = stored[m]
        \/ stored'[m].commits = log[m] /\ stored'[m].info = leader_swap_table[m]
    <3>1. PICK n \in Node : Step(n)
      BY <1>1 DEF Next
    <3>2. CASE flush(n)
      BY <1>1, <3>2 DEF flush, IInv, TypeOK
    <3>3. CASE UNCHANGED stored
      BY <3>3
    <3>4. flush(n) \/ UNCHANGED stored
      BY Zenon, <3>1 DEF Step, add_blocks, add_certified_commits, update_leader_schedule,
                  SelectCertified, DecideLeaders, CommitLeader, add_scoring_subdags, Restart
    <3> QED BY <3>2, <3>3, <3>4
  <2>5. PICK l \in Nat, I \in Nat :
           /\ j <= l /\ l <= Total /\ stored'[m].commits = Slice(0, l)
           /\ J <= I /\ LastIndexOf(stored'[m].info) = I
    <3>1. CASE stored'[m] = stored[m]
      <4>1. j <= j /\ J <= J
        OBVIOUS
      <4> QED BY <2>2, <2>3, <3>1, <4>1
    <3>2. CASE stored'[m].commits = log[m] /\ stored'[m].info = leader_swap_table[m]
      <4>1. K + S + C + k + x <= Total
        BY Zenon, <2>1 DEF LoopAt
      <4>2. K + S + C \in Nat /\ K + S + C <= Total
        BY <4>1, AgreedLogType
      <4> QED BY <2>1, <2>2, <2>3, <3>2, <4>2
    <3> QED BY <2>4, <3>1, <3>2
  <2>6. /\ 0 <= l /\ l - 0 = l /\ 0 <= j /\ j - 0 = j /\ 0 + 0 = 0 /\ 0 + j = j
        /\ j <= l - 0 /\ 0 + 1 = 1
    BY <2>5
  <2>7. Len(Slice(0, l)) = l - 0
    BY <2>5, <2>6, SliceIs
  <2>8. Len(Slice(0, j)) = j - 0
    BY <2>2, <2>6, SliceIs
  <2>9. Cut(Slice(0, l), 0, j) = Slice(0 + 0, 0 + j)
    BY <2>5, <2>6, CutOfSlice
  <2>10. SubSeq(Slice(0, l), 1, j) = Slice(0, j)
    BY <2>6, <2>9 DEF Cut
  <2> QED BY <2>2, <2>3, <2>5, <2>6, <2>7, <2>8, <2>10
<1>2. IInv /\ [Next]_vars
        => [\A n \in Node :
              /\ Len(stored[n].commits) <= Len(stored'[n].commits)
              /\ SubSeq(stored'[n].commits, 1, Len(stored[n].commits)) = stored[n].commits
              /\ LastIndexOf(stored[n].info) <= LastIndexOf(stored'[n].info)]_vars
  BY <1>1
<1> QED BY <1>2, Invariance, PTL DEF StorageOnlyGrows, Spec

\* The commit loop implements ReplicatedLog: initial states are its initial
\* states; handle_commit learns a commit, a flush stores, a restart goes back
\* to what is stored, and all other steps of the loop are none of the log's.
THEOREM Implements == Spec => ImplementsReplicatedLog
<1> DEFINE durable == [n \in Node |-> stored[n].commits]
<1>1. Init => Abstract!Init
  BY AgreedLogType DEF Init, Abstract!Init
<1>2. ASSUME IInv, IInv', NEW n \in Node, Step(n)
      PROVE  Abstract!Next \/ UNCHANGED <<log, durable>>
  <2>0. TypeOK /\ TypeOK'
    BY <1>2 DEF IInv
  <2>1. CASE CommitLeader(n)
    <3>1. PICK c : log' = [log EXCEPT ![n] = Append(@, c)] /\ c \in Commit
      <4>1. PICK r \in sequenced_leaders[n] :
              log' = [log EXCEPT ![n] = Append(@, [index |-> Len(log[n]) + 1, round |-> r])]
        BY Zenon, <2>1 DEF CommitLeader
      <4>2. [index |-> Len(log[n]) + 1, round |-> r] \in Commit
        <5>0. sequenced_leaders[n] \in SUBSET Round /\ log[n] \in Seq(Commit)
          BY <2>0 DEF TypeOK
        <5>1. r \in Nat /\ Len(log[n]) + 1 \in Nat
          BY <5>0, AgreedLogType DEF Round
        <5> QED BY <5>1 DEF Commit
      <4> QED BY Zenon, <4>1, <4>2
    <3>2. Len(log'[n]) = Len(log[n]) + 1
      BY <2>0, <3>1 DEF TypeOK
    <3>3. IsPrefix(log'[n])
      BY <1>2, LogIsPrefix DEF IInv
    <3>4. Len(log'[n]) <= Total /\ log'[n] = Slice(0, Len(log'[n])) /\ Len(log[n]) \in Nat
      <4>1. Len(log[n]) \in Nat
        BY <2>0 DEF TypeOK
      <4>2. Len(log'[n]) <= Total /\ log'[n] = Slice(0, Len(log'[n]))
        BY <3>3, PrefixIs
      <4> QED BY <4>1, <4>2
    <3>5. log'[n] = SubSeq(AgreedLog, 1, Len(log[n]) + 1) /\ Len(log[n]) < Len(AgreedLog)
      BY <3>2, <3>4, AgreedLogType DEF Slice, Total
    <3>6. log' = [log EXCEPT ![n] = SubSeq(AgreedLog, 1, Len(@) + 1)]
      BY Zenon, <2>0, <3>1, <3>5 DEF TypeOK
    <3>7. UNCHANGED stored
      BY <2>1 DEF CommitLeader
    <3>8. Abstract!Learn(n)
      BY <3>5, <3>6, <3>7 DEF Abstract!Learn
    <3> QED BY <3>8 DEF Abstract!Next
  <2>2. CASE flush(n)
    <3>1. durable' = [durable EXCEPT ![n] = log[n]] /\ UNCHANGED log
      BY Zenon, <2>0, <2>2 DEF flush, TypeOK
    <3>2. Abstract!Store(n)
      BY <3>1 DEF Abstract!Store
    <3> QED BY <3>2 DEF Abstract!Next
  <2>3. CASE Restart(n)
    <3>1. log' = [log EXCEPT ![n] = durable[n]] /\ UNCHANGED stored
      BY Zenon, <2>0, <2>3 DEF Restart, RecoveredLog, TypeOK
    <3>2. Abstract!Crash(n)
      BY <3>1 DEF Abstract!Crash
    <3> QED BY <3>2 DEF Abstract!Next
  <2>4. CASE UNCHANGED <<log, stored>>
    BY <2>4
  <2> QED
    BY Zenon, <1>2, <2>1, <2>2, <2>3, <2>4
       DEF Step, add_blocks, add_certified_commits, update_leader_schedule,
           SelectCertified, DecideLeaders, add_scoring_subdags
<1>3. IInv /\ IInv' /\ [Next]_vars => [Abstract!Next]_<<AgreedLog, log, durable>>
  <2> SUFFICES ASSUME IInv, IInv', [Next]_vars
               PROVE  Abstract!Next \/ UNCHANGED <<log, durable>>
    OBVIOUS
  <2>1. CASE Next
    BY <1>2, <2>1 DEF Next
  <2>2. CASE UNCHANGED vars
    BY <2>2 DEF vars
  <2> QED BY <2>1, <2>2
<1> QED BY <1>1, <1>3, Invariance, PTL DEF Spec, ImplementsReplicatedLog, Abstract!Spec
=============================================================================
