--------------------------- MODULE CommitterProofs ---------------------------
(***************************************************************************)
(* Proof that every two decisions on a leader slot agree, for any          *)
(* committee with the quorum intersection of CommitteeFacts, any family of *)
(* verified DAGs, any number of authorities, schedules and rounds.         *)
(*                                                                         *)
(* A decision is justified by the whole DAG: by a quorum of blames, by a   *)
(* quorum of certificates, or by what the history of an agreed anchor      *)
(* holds.  Two justified decisions cannot differ once the decisions on     *)
(* higher slots agree, which the invariant provides.                       *)
(***************************************************************************)
EXTENDS UniversalCommitter, WellFoundedInduction, TLAPS

-----------------------------------------------------------------------------
(* Facts about DAGs                                                        *)

\* c is a certificate for l, judged by the whole DAG instead of a view.
Certifies(d, c, l) == Authors({b \in d.ancestors[c] : l \in d.ancestors[b]}) \in Quorum

\* V holds the ancestors of its blocks above round g.
ClosedAbove(d, V, g) == \A b \in V : \A a \in d.ancestors[b] : a.round > g => a \in V

\* Every nonempty set of naturals has a least element: the form of induction the
\* lemmas on histories use.
LEMMA LeastElement ==
    ASSUME NEW T, T \subseteq Nat, T # {}
    PROVE  \E x \in T : \A y \in T : x <= y
<1> DEFINE R == OpToRel(<, Nat)
<1>1. IsWellFoundedOn(R, Nat)
    BY Zenon, NatLessThanWellFounded
<1>2. \E x \in T : \A y \in T : ~ (<<y, x>> \in R)
    <2> HIDE DEF R
    <2> QED BY Zenon, <1>1, WFMin
<1>3. \A x, y \in Nat : x < y => <<x, y>> \in R
    BY DEF OpToRel
<1> HIDE DEF R
<1>4. PICK x \in T : \A y \in T : ~ (<<y, x>> \in R)
    BY <1>2
<1>5. \A y \in T : x <= y
    <2> TAKE y \in T
    <2>1. y \in Nat /\ x \in Nat
        OBVIOUS
    <2>2. ~ (y < x)
        BY Zenon, <1>3, <1>4, <2>1
    <2> QED BY <2>1, <2>2
<1> QED
    BY <1>5

\* Quorums are not empty and any two share an authority that follows the
\* protocol; a set of authorities with a quorum inside is one.
LEMMA QuorumFacts ==
    /\ \A Q \in Quorum : Q # {}
    /\ \A Q1, Q2 \in Quorum : \E h \in Honest : h \in Q1 /\ h \in Q2
    /\ \A Q \in Quorum : \A S : Q \subseteq S /\ S \subseteq Authority => S \in Quorum
BY CommitteeFacts

\* What a verified DAG gives for one of its blocks.
LEMMA BlockFacts ==
    ASSUME NEW d, IsDag(d), NEW b \in d.blocks
    PROVE  /\ b.round \in Nat /\ b.author \in Authority
           /\ d.ancestors[b] \subseteq d.blocks
           /\ d.history[b] \subseteq d.blocks
           /\ \A a \in d.ancestors[b] : a.round < b.round
           /\ \A a \in d.history[b] : a.round < b.round
           /\ \A a, c \in d.ancestors[b] : a.author = c.author => a = c
           /\ b.round # 0 => Authors(AtRound(d.ancestors[b], b.round - 1)) \in Quorum
           /\ d.history[b] = d.ancestors[b] \cup UNION {d.history[a] : a \in d.ancestors[b]}
<1>1. b \in Block /\ b.round \in Nat /\ b.author \in Authority
    BY StatusFacts DEF IsDag, Block
<1>2. d.ancestors[b] \subseteq d.blocks /\ d.history[b] \subseteq d.blocks
    BY DEF IsDag
<1>3. b.round = 0 => d.ancestors[b] = {}
    BY DEF IsDag
<1>4. b.round # 0 => IsVerified(d, b)
    BY DEF IsDag
<1>5. \A a \in d.history[b] : a.round < b.round
    BY DEF IsDag
<1>6. d.history[b] = d.ancestors[b] \cup UNION {d.history[a] : a \in d.ancestors[b]}
    BY DEF IsDag
<1> QED
    BY <1>1, <1>2, <1>3, <1>4, <1>5, <1>6 DEF IsVerified

\* Honest authorities sign one block per round.
LEMMA OneBlock ==
    ASSUME NEW d, IsDag(d), NEW b \in d.blocks, NEW c \in d.blocks,
           b.author \in Honest, b.author = c.author, b.round = c.round
    PROVE  b = c
BY DEF IsDag

\* A vote in a certificate lies one round above the leader.
LEMMA VoteRound ==
    ASSUME NEW d, IsDag(d), NEW c \in d.blocks, NEW b \in d.ancestors[c],
           NEW l \in d.ancestors[b], c.round = l.round + 2
    PROVE  /\ b \in d.blocks /\ b.round = l.round + 1
           /\ l \in d.blocks
<1>1. b \in d.blocks /\ b.round < c.round
    BY BlockFacts
<1>2. l \in d.blocks /\ l.round < b.round
    BY <1>1, BlockFacts
<1>3. b.round \in Nat /\ c.round \in Nat /\ l.round \in Nat
    BY <1>1, <1>2, BlockFacts
<1> QED
    BY <1>1, <1>2, <1>3

\* Two certified blocks of a slot are the same block: at most one candidate can
\* have enough support, and at most one can be certified from an anchor.
LEMMA CertifiedOnceOnly ==
    ASSUME NEW d, IsDag(d), NEW c \in d.blocks, NEW e \in d.blocks,
           NEW l, NEW m, l.round = m.round, l.author = m.author,
           c.round = l.round + 2, e.round = m.round + 2,
           Certifies(d, c, l), Certifies(d, e, m)
    PROVE  l = m
<1>1. PICK h \in Honest :
        /\ h \in Authors({b \in d.ancestors[c] : l \in d.ancestors[b]})
        /\ h \in Authors({b \in d.ancestors[e] : m \in d.ancestors[b]})
    BY Zenon, QuorumFacts DEF Certifies
<1>2. PICK b \in d.ancestors[c] : l \in d.ancestors[b] /\ b.author = h
    BY <1>1 DEF Authors
<1>3. PICK f \in d.ancestors[e] : m \in d.ancestors[f] /\ f.author = h
    BY <1>1 DEF Authors
<1>4. b \in d.blocks /\ b.round = l.round + 1
    BY <1>2, VoteRound
<1>5. f \in d.blocks /\ f.round = m.round + 1
    BY <1>3, VoteRound
<1>6. b = f
    BY <1>1, <1>2, <1>3, <1>4, <1>5, OneBlock
<1> QED
    BY <1>2, <1>3, <1>4, <1>6, BlockFacts

\* A slot with a quorum of blames has no certificate anywhere.
LEMMA BlamedIsNotCertified ==
    ASSUME NEW d, IsDag(d), NEW r \in Nat, NEW a, NEW c \in d.blocks, NEW l,
           Authors({b \in AtRound(d.blocks, r + 1) : a \notin Authors(d.ancestors[b])}) \in Quorum,
           l.round = r, l.author = a, c.round = r + 2
    PROVE  ~ Certifies(d, c, l)
<1> SUFFICES ASSUME Certifies(d, c, l) PROVE FALSE
    OBVIOUS
<1>1. PICK h \in Honest :
        /\ h \in Authors({b \in d.ancestors[c] : l \in d.ancestors[b]})
        /\ h \in Authors({b \in AtRound(d.blocks, r + 1) : a \notin Authors(d.ancestors[b])})
    BY Zenon, QuorumFacts DEF Certifies
<1>2. PICK b \in d.ancestors[c] : l \in d.ancestors[b] /\ b.author = h
    BY <1>1 DEF Authors
<1>3. PICK f \in AtRound(d.blocks, r + 1) : a \notin Authors(d.ancestors[f]) /\ f.author = h
    BY <1>1 DEF Authors
<1>4. b \in d.blocks /\ b.round = r + 1
    BY <1>2, VoteRound
<1>5. f \in d.blocks /\ f.round = r + 1
    BY <1>3 DEF AtRound
<1>6. b = f
    BY <1>1, <1>2, <1>3, <1>4, <1>5, OneBlock
<1> QED
    BY <1>2, <1>3, <1>6 DEF Authors

\* Every block has, in its history, blocks of a quorum of authorities at every
\* lower round: what verify_block asks of the parents, carried down.
LEMMA HistoryHasQuorums ==
    ASSUME NEW d, IsDag(d), NEW r \in Nat, NEW b \in d.blocks, r < b.round
    PROVE  Authors(AtRound(d.history[b], r)) \in Quorum
<1> DEFINE Bad(c) == r < c.round /\ Authors(AtRound(d.history[c], r)) \notin Quorum
           T == {n \in Nat : \E c \in d.blocks : c.round = n /\ Bad(c)}
<1> SUFFICES ASSUME Bad(b) PROVE FALSE
    OBVIOUS
<1>1. b.round \in T
    BY BlockFacts
<1> HIDE DEF T
<1>2. PICK n \in T : \A m \in T : n <= m
    <2>1. T \subseteq Nat
        BY DEF T
    <2> QED BY Zenon, <1>1, <2>1, LeastElement
<1>3. PICK c \in d.blocks : c.round = n /\ n \in Nat /\ Bad(c)
    BY <1>2 DEF T
<1>4. Authors(AtRound(d.ancestors[c], n - 1)) \in Quorum
    BY <1>3, BlockFacts
<1>5. d.history[c] = d.ancestors[c] \cup UNION {d.history[a] : a \in d.ancestors[c]}
    BY BlockFacts
<1>6. Authors(AtRound(d.history[c], r)) \subseteq Authority
    <2>1. \A a \in d.history[c] : a \in d.blocks
        BY BlockFacts
    <2>2. \A a \in d.history[c] : a.author \in Authority
        BY <2>1, BlockFacts
    <2> QED BY <2>2 DEF Authors, AtRound
<1>7. CASE r = n - 1
    <2>1. Authors(AtRound(d.ancestors[c], r)) \subseteq Authors(AtRound(d.history[c], r))
        BY <1>5 DEF Authors, AtRound
    <2> QED BY <1>3, <1>4, <1>6, <1>7, <2>1, QuorumFacts
<1>8. CASE r # n - 1
    <2>1. PICK a \in d.ancestors[c] : a.round = n - 1
        BY <1>4, QuorumFacts DEF Authors, AtRound
    <2>2. a \in d.blocks /\ r < a.round
        BY <1>3, <1>8, <2>1, BlockFacts
    <2>3. n - 1 \notin T
        BY <1>2, <1>3
    <2>4. Authors(AtRound(d.history[a], r)) \in Quorum
        BY <1>3, <2>1, <2>2, <2>3 DEF T
    <2>5. Authors(AtRound(d.history[a], r)) \subseteq Authors(AtRound(d.history[c], r))
        BY <1>5, <2>1 DEF Authors, AtRound
    <2> QED BY <1>3, <1>6, <2>4, <2>5, QuorumFacts
<1> QED
    BY <1>7, <1>8

\* A quorum of certificates reaches the history of every block of a later wave:
\* a direct commit is an indirect commit for whoever decides from an anchor.
LEMMA SupportReachesAnchors ==
    ASSUME NEW d, IsDag(d), NEW r \in Nat, NEW l, NEW a \in d.blocks, r + 3 <= a.round,
           Authors({c \in AtRound(d.blocks, r + 2) : Certifies(d, c, l)}) \in Quorum
    PROVE  \E c \in d.history[a] : c.round = r + 2 /\ Certifies(d, c, l)
<1>1. Authors(AtRound(d.history[a], r + 2)) \in Quorum
    <2>1. r + 2 \in Nat /\ r + 2 < a.round
        BY BlockFacts
    <2> QED BY <2>1, HistoryHasQuorums
<1>2. PICK h \in Honest :
        /\ h \in Authors(AtRound(d.history[a], r + 2))
        /\ h \in Authors({c \in AtRound(d.blocks, r + 2) : Certifies(d, c, l)})
    BY Zenon, <1>1, QuorumFacts
<1>3. PICK c \in d.history[a] : c.round = r + 2 /\ c.author = h
    BY <1>2 DEF Authors, AtRound
<1>4. PICK e \in d.blocks : e.round = r + 2 /\ e.author = h /\ Certifies(d, e, l)
    BY <1>2 DEF Authors, AtRound
<1>5. c \in d.blocks
    BY BlockFacts
<1>6. c = e
    BY <1>2, <1>3, <1>4, <1>5, OneBlock
<1> QED
    BY <1>3, <1>4, <1>6

\* A view closed under ancestors above g is closed under histories above g:
\* ancestors_at_round never misses a block.
LEMMA ClosedHistories ==
    ASSUME NEW d, IsDag(d), NEW V \in SUBSET d.blocks, NEW g \in Nat, ClosedAbove(d, V, g),
           NEW b \in V, NEW a \in d.history[b], a.round > g
    PROVE  a \in V
<1> DEFINE Bad(c) == \E x \in d.history[c] : x.round > g /\ x \notin V
           T == {n \in Nat : \E c \in V : c.round = n /\ Bad(c)}
<1> SUFFICES ASSUME Bad(b) PROVE FALSE
    OBVIOUS
<1>1. b.round \in T
    BY BlockFacts
<1> HIDE DEF T
<1>2. PICK n \in T : \A m \in T : n <= m
    <2>1. T \subseteq Nat
        BY DEF T
    <2> QED BY Zenon, <1>1, <2>1, LeastElement
<1>3. PICK c \in V : c.round = n /\ n \in Nat /\ Bad(c)
    BY <1>2 DEF T
<1>4. PICK x \in d.history[c] : x.round > g /\ x \notin V
    BY <1>3
<1>5. x \notin d.ancestors[c]
    BY <1>4 DEF ClosedAbove
<1>6. PICK y \in d.ancestors[c] : x \in d.history[y]
    BY <1>4, <1>5, BlockFacts
<1>7. y \in d.blocks /\ y.round \in Nat /\ y.round < n /\ x.round < y.round /\ x.round \in Nat
    BY <1>3, <1>4, <1>6, BlockFacts
<1>8. y \in V
    BY <1>4, <1>7, <1>6 DEF ClosedAbove
<1>9. y.round \in T
    BY <1>4, <1>6, <1>7, <1>8 DEF T
<1> QED
    BY <1>2, <1>3, <1>7, <1>9

\* In a closed view a certificate above the gc round is judged as it would be
\* with the whole DAG, and the leader it certifies is in the view.
LEMMA CertificateInView ==
    ASSUME NEW d, IsDag(d), NEW V \in SUBSET d.blocks, NEW g \in Nat, ClosedAbove(d, V, g),
           NEW c \in V, NEW l, l.round \in Nat, l.round > g, c.round = l.round + 2
    PROVE  /\ is_certificate(d, V, c, l) <=> Certifies(d, c, l)
           /\ Certifies(d, c, l) => l \in V
<1>1. \A b \in d.ancestors[c] : l \in d.ancestors[b] => b \in V /\ l \in V
    <2> SUFFICES ASSUME NEW b \in d.ancestors[c], l \in d.ancestors[b] PROVE b \in V /\ l \in V
        OBVIOUS
    <2>1. b.round = l.round + 1
        BY VoteRound
    <2>2. b \in V
        BY <2>1 DEF ClosedAbove
    <2> QED BY <2>2 DEF ClosedAbove
<1>2. {b \in d.ancestors[c] \cap V : is_vote(d, b, l)} = {b \in d.ancestors[c] : l \in d.ancestors[b]}
    BY <1>1 DEF is_vote
<1>3. Certifies(d, c, l) => \E b \in d.ancestors[c] : l \in d.ancestors[b]
    BY QuorumFacts DEF Certifies, Authors
<1> QED
    BY Zenon, <1>1, <1>2, <1>3 DEF is_certificate, Certifies

\* The decision round of a leader round closes its wave of three rounds.
LEMMA WaveFacts ==
    ASSUME NEW offset \in Offsets, NEW r \in Rounds, elects(offset, r)
    PROVE  DecisionRound(offset, r) = r + 2
<1> DEFINE w == wave_number(offset, r)
<1>1. w \in Int /\ offset \in Int /\ r \in Int
    BY StatusFacts DEF wave_number, WaveLength, Offsets, Rounds
<1>2. w * 3 + offset = r
    BY DEF elects, leader_round, WaveLength
<1>3. DecisionRound(offset, r) = w * 3 + 3 - 1 + offset
    BY DEF DecisionRound, decision_round, WaveLength
<1> HIDE DEF w
<1> QED
    BY <1>1, <1>2, <1>3

-----------------------------------------------------------------------------
(* The inductive invariant                                                 *)

IsLeaderBlock(s, r, l) == l \in dag.blocks /\ l.round = r /\ l.author = Leader[s][r]

\* The whole DAG holds a quorum of blames, or of certificates.
Blamed(s, r) ==
    Authors({b \in AtRound(dag.blocks, r + 1) :
                Leader[s][r] \notin Authors(dag.ancestors[b])}) \in Quorum

Supported(r, l) ==
    Authors({c \in AtRound(dag.blocks, r + 2) : Certifies(dag, c, l)}) \in Quorum

\* a was committed at round x, and everything between was skipped by someone.
IsAnchor(s, r, x, a) ==
    /\ x \in Rounds /\ r + 3 <= x
    /\ a \in outcomes[s][x] /\ a # Skip
    /\ \A y \in Rounds : r + 3 <= y /\ y < x => Skip \in outcomes[s][y]

CertifiedFrom(a, r, l) == \E c \in dag.history[a] : c.round = r + 2 /\ Certifies(dag, c, l)

SkipJustified(s, r) ==
    \/ Blamed(s, r)
    \/ \E x, a : /\ IsAnchor(s, r, x, a)
                 /\ \A l : IsLeaderBlock(s, r, l) => ~ CertifiedFrom(a, r, l)

CommitJustified(s, r, l) ==
    /\ IsLeaderBlock(s, r, l)
    /\ \/ Supported(r, l)
       \/ \E x, a : IsAnchor(s, r, x, a) /\ CertifiedFrom(a, r, l)

Justified(s, r, o) == IF o = Skip THEN SkipJustified(s, r) ELSE CommitJustified(s, r, o)

\* Every decision ever taken is justified by the DAG and decisions above it.
OutcomesJustified ==
    \A s \in Schedule : \A r \in Rounds : \A o \in outcomes[s][r] : Justified(s, r, o)

ViewsClosed == \A v \in Validator : ClosedAbove(dag, view[v], gc_round[v])

\* A running pass looks above the gc round, and what it decided is recorded.
PassesRecorded ==
    \A v \in Validator : pass[v] # NoPass =>
        /\ gc_round[v] <= pass[v].last_decided
        /\ \A x \in Rounds : pass[v].leaders[x] # Undecided =>
            /\ pass[v].leaders[x] \in outcomes[pass[v].schedule][x]
            /\ pass[v].leaders[x] # Skip => pass[v].leaders[x] \in view[v]

IInv == TypeOK /\ ViewsClosed /\ PassesRecorded /\ OutcomesJustified /\ Agreement

\* The DAG of a behaviour is one of the verified family.
LEMMA DagIsDag == ASSUME TypeOK PROVE IsDag(dag)
BY DagFacts DEF TypeOK, dag

\* A committed anchor is a block of the DAG at the round it was decided for.
LEMMA AnchorFacts ==
    ASSUME OutcomesJustified, NEW s \in Schedule, NEW r, NEW x, NEW a, IsAnchor(s, r, x, a)
    PROVE  x \in Rounds /\ a \in dag.blocks /\ a.round = x
BY DEF OutcomesJustified, Justified, CommitJustified, IsLeaderBlock, IsAnchor

\* Two anchors for the same slot are the same block.
LEMMA SameAnchor ==
    ASSUME Agreement, NEW s \in Schedule, NEW r,
           NEW x, NEW a, IsAnchor(s, r, x, a), NEW y, NEW b, IsAnchor(s, r, y, b)
    PROVE  a = b
<1>1. x \in Int /\ y \in Int
    BY StatusFacts DEF IsAnchor, Rounds
<1>2. CASE x < y
    BY <1>2 DEF IsAnchor, Agreement
<1>3. CASE y < x
    BY <1>3 DEF IsAnchor, Agreement
<1>4. CASE x = y
    BY <1>4 DEF IsAnchor, Agreement
<1> QED
    BY <1>1, <1>2, <1>3, <1>4

\* A justified commit has a certificate somewhere in the DAG.
LEMMA CommitHasCertificate ==
    ASSUME TypeOK, OutcomesJustified, NEW s \in Schedule, NEW r \in Rounds, NEW l,
           CommitJustified(s, r, l)
    PROVE  \E c \in dag.blocks : c.round = r + 2 /\ Certifies(dag, c, l)
<1>1. CASE Supported(r, l)
    BY <1>1, QuorumFacts DEF Supported, Authors, AtRound
<1>2. ASSUME NEW x, NEW a, IsAnchor(s, r, x, a), CertifiedFrom(a, r, l)
      PROVE  \E c \in dag.blocks : c.round = r + 2 /\ Certifies(dag, c, l)
    <2>1. a \in dag.blocks
        BY <1>2, AnchorFacts
    <2>2. dag.history[a] \subseteq dag.blocks
        BY <2>1, DagIsDag, BlockFacts
    <2> QED BY <1>2, <2>2 DEF CertifiedFrom
<1> QED
    BY <1>1, <1>2 DEF CommitJustified

\* A skip and a commit of the same slot cannot both be justified.
LEMMA SkipExcludesCommit ==
    ASSUME TypeOK, OutcomesJustified, Agreement, NEW s \in Schedule, NEW r \in Rounds, NEW l,
           SkipJustified(s, r), CommitJustified(s, r, l)
    PROVE  FALSE
<1>0. r \in Nat /\ IsDag(dag)
    BY StatusFacts, DagIsDag DEF Rounds
<1>1. IsLeaderBlock(s, r, l)
    BY DEF CommitJustified
<1>2. CASE Blamed(s, r)
    <2>1. PICK c \in dag.blocks : c.round = r + 2 /\ Certifies(dag, c, l)
        BY CommitHasCertificate
    <2>2. l.round = r /\ l.author = Leader[s][r]
        BY <1>1 DEF IsLeaderBlock
    <2> QED BY <1>0, <1>2, <2>1, <2>2, BlamedIsNotCertified DEF Blamed
<1>3. ASSUME NEW x, NEW a, IsAnchor(s, r, x, a), ~ CertifiedFrom(a, r, l)
      PROVE  FALSE
    <2>1. a \in dag.blocks /\ a.round = x /\ r + 3 <= x
        BY <1>3, AnchorFacts DEF IsAnchor
    <2>2. CASE Supported(r, l)
        BY <1>0, <1>3, <2>1, <2>2, SupportReachesAnchors DEF Supported, CertifiedFrom
    <2>3. ASSUME NEW y, NEW b, IsAnchor(s, r, y, b), CertifiedFrom(b, r, l)
          PROVE  FALSE
        BY <1>3, <2>3, SameAnchor
    <2> QED BY <2>2, <2>3 DEF CommitJustified
<1> QED
    BY <1>1, <1>2, <1>3 DEF SkipJustified

\* Two justified decisions on a slot are equal.
LEMMA JustifiedAgree ==
    ASSUME TypeOK, OutcomesJustified, Agreement, NEW s \in Schedule, NEW r \in Rounds,
           NEW o, NEW p, Justified(s, r, o), Justified(s, r, p)
    PROVE  o = p
<1>1. CASE o = Skip \/ p = Skip
    BY <1>1, SkipExcludesCommit DEF Justified
<1>2. CASE o # Skip /\ p # Skip
    <2>1. CommitJustified(s, r, o) /\ CommitJustified(s, r, p)
        BY <1>2 DEF Justified
    <2>2. PICK c \in dag.blocks : c.round = r + 2 /\ Certifies(dag, c, o)
        BY <2>1, CommitHasCertificate
    <2>3. PICK e \in dag.blocks : e.round = r + 2 /\ Certifies(dag, e, p)
        BY <2>1, CommitHasCertificate
    <2>4. o.round = r /\ p.round = r /\ o.author = p.author
        BY <2>1 DEF CommitJustified, IsLeaderBlock
    <2> QED BY <2>2, <2>3, <2>4, DagIsDag, CertifiedOnceOnly
<1> QED
    BY <1>1, <1>2

-----------------------------------------------------------------------------
(* What the decision rules return                                          *)

\* What the lemmas below need to know of a pass that looks at a slot.
LEMMA RunningPass ==
    ASSUME IInv, NEW v \in Validator, pass[v] # NoPass, pass[v].round > pass[v].last_decided
    PROVE  /\ IsDag(dag) /\ view[v] \in SUBSET dag.blocks
           /\ gc_round[v] \in Nat /\ ClosedAbove(dag, view[v], gc_round[v])
           /\ pass[v] \in Pass /\ pass[v].round \in Rounds /\ pass[v].round \in Nat
           /\ pass[v].schedule \in Schedule
           /\ pass[v].leaders \in [Rounds -> Status]
           /\ pass[v].round > gc_round[v]
<1>1. pass[v] \in Pass /\ pass[v].last_decided \in Nat /\ pass[v].round \in pass[v].last_decided..MaxRound
    BY DEF IInv, TypeOK, Pass
<1>2. gc_round[v] \in Nat
    BY PassFacts DEF IInv, TypeOK
<1>3. pass[v].round \in Rounds /\ pass[v].round \in Nat
    BY <1>1, StatusFacts DEF Rounds
<1>4. pass[v].schedule \in Schedule /\ pass[v].leaders \in [Rounds -> Status]
    BY <1>1 DEF Pass
<1>5. pass[v].round > gc_round[v]
    BY <1>1, <1>2, <1>3 DEF IInv, PassesRecorded
<1> QED
    BY <1>1, <1>2, <1>3, <1>4, <1>5, DagIsDag DEF IInv, TypeOK, ViewsClosed

\* What a view certifies the whole DAG certifies.
LEMMA ViewCertificates ==
    ASSUME NEW d, IsDag(d), NEW V \in SUBSET d.blocks, NEW c \in d.blocks, NEW l,
           is_certificate(d, V, c, l)
    PROVE  Certifies(d, c, l)
<1>1. Authors({b \in d.ancestors[c] \cap V : is_vote(d, b, l)})
        \subseteq Authors({b \in d.ancestors[c] : l \in d.ancestors[b]})
    BY DEF Authors, is_vote
<1>2. \A b \in d.ancestors[c] : b.author \in Authority
    <2>1. \A b \in d.ancestors[c] : b \in d.blocks
        BY BlockFacts
    <2> QED BY <2>1, BlockFacts
<1>3. Authors({b \in d.ancestors[c] : l \in d.ancestors[b]}) \subseteq Authority
    BY <1>2 DEF Authors
<1> QED
    BY <1>1, <1>3, QuorumFacts DEF is_certificate, Certifies

\* The authors of blocks of a DAG are authorities.
LEMMA AuthorsAreAuthorities ==
    ASSUME NEW d, IsDag(d), NEW S, S \subseteq d.blocks
    PROVE  Authors(S) \subseteq Authority
<1>1. \A b \in S : b.author \in Authority
    BY BlockFacts
<1> QED
    BY <1>1 DEF Authors

\* The direct rule returns Undecided or a justified decision.
LEMMA DirectDecision ==
    ASSUME IInv, NEW v \in Validator, pass[v] # NoPass, pass[v].round > pass[v].last_decided,
           NEW offset \in Offsets, elects(offset, pass[v].round),
           NEW o, o = try_direct_decide(dag, view[v], offset, SlotOf(pass[v])), o # Undecided
    PROVE  /\ Justified(pass[v].schedule, pass[v].round, o)
           /\ o # Skip => o \in view[v]
<1> DEFINE s == pass[v].schedule
           r == pass[v].round
           V == view[v]
           candidates == leaders_with_enough_support(dag, V, offset, SlotOf(pass[v]))
<1>1. /\ IsDag(dag) /\ V \in SUBSET dag.blocks /\ r \in Rounds /\ r \in Nat
    BY RunningPass
<1>2. SlotOf(pass[v]).round = r /\ SlotOf(pass[v]).authority = Leader[s][r]
    BY DEF SlotOf
<1>3. DecisionRound(offset, r) = r + 2
    BY <1>1, WaveFacts
<1>4. CASE enough_leader_blame(dag, V, r + 1, Leader[s][r])
    <2>1. o = Skip
        BY <1>2, <1>4 DEF try_direct_decide
    <2>2. Authors({b \in AtRound(V, r + 1) : Leader[s][r] \notin Authors(dag.ancestors[b])})
            \subseteq Authors({b \in AtRound(dag.blocks, r + 1) :
                                    Leader[s][r] \notin Authors(dag.ancestors[b])})
        BY <1>1 DEF Authors, AtRound
    <2>3. {b \in AtRound(dag.blocks, r + 1) : Leader[s][r] \notin Authors(dag.ancestors[b])}
            \subseteq dag.blocks
        BY DEF AtRound
    <2>4. Blamed(s, r)
        BY <1>1, <1>4, <2>2, <2>3, AuthorsAreAuthorities, QuorumFacts DEF Blamed, enough_leader_blame
    <2> QED BY <2>1, <2>4 DEF Justified, SkipJustified
<1>5. CASE ~ enough_leader_blame(dag, V, r + 1, Leader[s][r])
    <2>1. candidates # {} /\ o = CHOOSE b \in candidates : TRUE
        BY <1>2, <1>5 DEF try_direct_decide
    <2>2. o \in candidates
        BY <2>1
    <2>3. o \in V /\ o.round = r /\ o.author = Leader[s][r] /\ enough_leader_support(dag, V, r + 2, o)
        BY <1>2, <1>3, <2>2 DEF leaders_with_enough_support, BlocksAtSlot
    <2>4. \A c \in AtRound(V, r + 2) :
            is_certificate(dag, V, c, o) => c \in dag.blocks /\ Certifies(dag, c, o)
        BY <1>1, ViewCertificates DEF AtRound
    <2>5. Authors({c \in AtRound(V, r + 2) : is_certificate(dag, V, c, o)})
            \subseteq Authors({c \in AtRound(dag.blocks, r + 2) : Certifies(dag, c, o)})
        BY <2>4 DEF Authors, AtRound
    <2>6. {c \in AtRound(dag.blocks, r + 2) : Certifies(dag, c, o)} \subseteq dag.blocks
        BY DEF AtRound
    <2>7. Supported(r, o)
        BY <1>1, <2>3, <2>5, <2>6, AuthorsAreAuthorities, QuorumFacts
        DEF Supported, enough_leader_support
    <2>8. o # Skip
        BY <1>1, <2>3, StatusFacts DEF IsDag
    <2> QED BY <1>1, <2>3, <2>7, <2>8 DEF Justified, CommitJustified, IsLeaderBlock
<1> QED
    BY <1>4, <1>5

\* Of two anchor rounds that are not undecided neither comes first.
LEMMA OneAnchorRound ==
    ASSUME NEW leaders, NEW r \in Nat, NEW x \in Rounds, NEW y \in Rounds,
           IsAnchorRound(leaders, r, x), IsAnchorRound(leaders, r, y)
    PROVE  x = y
<1>1. x \in Int /\ y \in Int
    BY StatusFacts DEF Rounds
<1> QED
    BY <1>1 DEF IsAnchorRound, WaveLength

\* What a view certifies from an anchor is what the whole DAG certifies from it.
LEMMA CertifiedFromAnchor ==
    ASSUME IInv, NEW v \in Validator, pass[v] # NoPass, pass[v].round > pass[v].last_decided,
           NEW offset \in Offsets, elects(offset, pass[v].round),
           NEW a \in view[v], NEW l
    PROVE  l \in certified_leader_blocks(dag, view[v], offset, SlotOf(pass[v]), a)
             <=> /\ IsLeaderBlock(pass[v].schedule, pass[v].round, l)
                 /\ CertifiedFrom(a, pass[v].round, l)
<1> DEFINE s == pass[v].schedule
           r == pass[v].round
           V == view[v]
<1>1. /\ IsDag(dag) /\ V \in SUBSET dag.blocks /\ r \in Rounds /\ r \in Nat
      /\ gc_round[v] \in Nat /\ ClosedAbove(dag, V, gc_round[v]) /\ r > gc_round[v]
    BY RunningPass
<1>2. DecisionRound(offset, r) = r + 2
    BY <1>1, WaveFacts
<1>3. \A c \in dag.history[a] : c.round = r + 2 => c \in V
    BY <1>1, ClosedHistories
<1>4. ASSUME l.round = r, NEW c \in dag.history[a], c.round = r + 2
      PROVE  /\ is_certificate(dag, V, c, l) <=> Certifies(dag, c, l)
             /\ Certifies(dag, c, l) => l \in V
    <2>1. c \in V
        BY <1>3, <1>4
    <2> QED BY <1>1, <1>4, <2>1, CertificateInView
<1>5. l \in certified_leader_blocks(dag, V, offset, SlotOf(pass[v]), a)
        <=> /\ l \in V /\ l.round = r /\ l.author = Leader[s][r]
            /\ \E c \in dag.history[a] : c.round = r + 2 /\ is_certificate(dag, V, c, l)
    BY <1>2 DEF certified_leader_blocks, BlocksAtSlot, SlotOf, ancestors_at_round, AtRound
<1> QED
    BY <1>1, <1>4, <1>5 DEF IsLeaderBlock, CertifiedFrom

\* The indirect rule returns Undecided or a justified decision.
LEMMA IndirectDecision ==
    ASSUME IInv, NEW v \in Validator, pass[v] # NoPass, pass[v].round > pass[v].last_decided,
           NEW offset \in Offsets, elects(offset, pass[v].round), NEW o,
           o = try_indirect_decide(dag, view[v], offset, SlotOf(pass[v]), pass[v].leaders),
           o # Undecided
    PROVE  /\ Justified(pass[v].schedule, pass[v].round, o)
           /\ o # Skip => o \in view[v]
<1> DEFINE s == pass[v].schedule
           r == pass[v].round
           V == view[v]
           leaders == pass[v].leaders
           x == CHOOSE y \in Rounds : IsAnchorRound(leaders, r, y)
           a == leaders[x]
           certified == certified_leader_blocks(dag, V, offset, SlotOf(pass[v]), a)
<1>1. r \in Rounds /\ r \in Nat /\ s \in Schedule /\ IsDag(dag) /\ V \in SUBSET dag.blocks
    BY RunningPass
<1>2. SlotOf(pass[v]).round = r
    BY DEF SlotOf
<1>3. PICK y \in Rounds : IsAnchorRound(leaders, r, y) /\ leaders[y] # Undecided
    BY <1>2 DEF try_indirect_decide
<1>4. o = decide_leader_from_anchor(dag, V, offset, SlotOf(pass[v]), a)
    BY <1>2, <1>3 DEF try_indirect_decide
<1>5. x \in Rounds /\ IsAnchorRound(leaders, r, x)
    BY <1>3
<1> HIDE DEF x
<1>6. a # Undecided /\ a # Skip
    <2>1. x = y
        BY <1>1, <1>3, <1>5, OneAnchorRound
    <2> QED BY <1>3, <2>1 DEF IsAnchorRound
<1>7. a \in outcomes[s][x] /\ a \in V
    BY <1>5, <1>6 DEF IInv, PassesRecorded
<1>8. IsAnchor(s, r, x, a)
    <2>1. \A z \in Rounds : r + 3 <= z /\ z < x => leaders[z] = Skip
        BY <1>5 DEF IsAnchorRound, WaveLength
    <2>2. \A z \in Rounds : r + 3 <= z /\ z < x => Skip \in outcomes[s][z]
        BY <2>1, StatusFacts DEF IInv, PassesRecorded
    <2> QED BY <1>5, <1>6, <1>7, <2>2 DEF IsAnchor, IsAnchorRound, WaveLength
<1>9. \A l : l \in certified <=> IsLeaderBlock(s, r, l) /\ CertifiedFrom(a, r, l)
    BY Zenon, <1>7, CertifiedFromAnchor
<1> HIDE DEF a
<1>10. CASE certified = {}
    <2>1. o = Skip
        BY <1>4, <1>10 DEF decide_leader_from_anchor
    <2> HIDE DEF certified
    <2>2. SkipJustified(s, r)
        BY <1>8, <1>9, <1>10 DEF SkipJustified
    <2> QED BY <2>1, <2>2 DEF Justified
<1>11. CASE certified # {}
    <2>1. o \in certified
        BY <1>4, <1>11 DEF decide_leader_from_anchor
    <2>2. o \in V
        BY <2>1 DEF certified_leader_blocks, BlocksAtSlot
    <2>3. o # Skip
        BY <1>1, <2>2, StatusFacts DEF IsDag
    <2> HIDE DEF certified
    <2>4. CommitJustified(s, r, o)
        BY <1>8, <1>9, <2>1 DEF CommitJustified
    <2> QED BY <2>2, <2>3, <2>4 DEF Justified
<1> QED
    BY <1>10, <1>11

-----------------------------------------------------------------------------
(* The invariant is inductive                                              *)

\* Initially there are the genesis blocks, no pass and no decision.
LEMMA InitEstablishes == Init => IInv
<1> SUFFICES ASSUME Init PROVE IInv
    OBVIOUS
<1> USE DEF Init
<1>1. TypeOK
    BY PassFacts DEF TypeOK, AtRound
<1>2. ViewsClosed
    <2>1. IsDag(dag)
        BY <1>1, DagIsDag
    <2>2. \A b \in AtRound(dag.blocks, 0) : dag.ancestors[b] = {}
        BY <2>1 DEF IsDag, AtRound
    <2> QED BY <2>2 DEF ViewsClosed, ClosedAbove
<1>3. PassesRecorded
    BY DEF PassesRecorded
<1>4. OutcomesJustified /\ Agreement
    BY DEF OutcomesJustified, Agreement
<1> QED
    BY <1>1, <1>2, <1>3, <1>4 DEF IInv

\* A justification stays one when decisions are added.
LEMMA JustificationsKept ==
    ASSUME epoch' = epoch, NEW s \in Schedule, NEW r, NEW o, Justified(s, r, o),
           \A t \in Schedule : \A q \in Rounds : outcomes[t][q] \subseteq outcomes'[t][q]
    PROVE  Justified(s, r, o)'
<1>1. dag' = dag
    BY DEF dag
<1>2. \A x, a : IsAnchor(s, r, x, a) => IsAnchor(s, r, x, a)'
    BY DEF IsAnchor
<1>3. \A l : IsLeaderBlock(s, r, l)' <=> IsLeaderBlock(s, r, l)
    BY <1>1 DEF IsLeaderBlock
<1>4. \A a, l : CertifiedFrom(a, r, l)' <=> CertifiedFrom(a, r, l)
    BY <1>1 DEF CertifiedFrom
<1>5. Blamed(s, r)' <=> Blamed(s, r)
    BY <1>1 DEF Blamed
<1>6. \A l : Supported(r, l)' <=> Supported(r, l)
    BY <1>1 DEF Supported
<1>7. SkipJustified(s, r) => SkipJustified(s, r)'
    BY <1>2, <1>3, <1>4, <1>5 DEF SkipJustified
<1>8. \A l : CommitJustified(s, r, l) => CommitJustified(s, r, l)'
    BY <1>2, <1>3, <1>4, <1>6 DEF CommitJustified
<1> QED
    BY <1>7, <1>8 DEF Justified

\* Decisions stay justified and in agreement while none is added.
LEMMA OutcomesUnchanged ==
    ASSUME IInv, UNCHANGED <<epoch, outcomes>>
    PROVE  OutcomesJustified' /\ Agreement'
<1>1. dag' = dag
    BY DEF dag
<1>2. Agreement'
    BY DEF IInv, Agreement
<1>3. OutcomesJustified'
    BY JustificationsKept DEF IInv, OutcomesJustified
<1> QED
    BY <1>2, <1>3

\* Accepting a block keeps the view closed: its ancestors are checked first.
LEMMA AcceptBlockPreserves ==
    ASSUME IInv, NEW v \in Validator, NEW b \in dag.blocks, AcceptBlock(v, b)
    PROVE  IInv'
<1> USE DEF AcceptBlock
<1>1. dag' = dag
    BY DEF dag
<1>2. TypeOK'
    BY <1>1 DEF IInv, TypeOK
<1>3. ViewsClosed'
    BY <1>1 DEF IInv, TypeOK, ViewsClosed, ClosedAbove, IsCompleteAbove
<1>4. PassesRecorded'
    BY DEF IInv, TypeOK, PassesRecorded
<1> QED
    BY <1>2, <1>3, <1>4, OutcomesUnchanged DEF IInv

\* Losing a block nothing else builds on keeps the view closed.
LEMMA LoseBlockPreserves ==
    ASSUME IInv, NEW v \in Validator, NEW b \in dag.blocks, LoseBlock(v, b)
    PROVE  IInv'
<1> USE DEF LoseBlock
<1>1. dag' = dag
    BY DEF dag
<1>2. TypeOK'
    BY <1>1 DEF IInv, TypeOK
<1>3. ViewsClosed'
    BY <1>1 DEF IInv, TypeOK, ViewsClosed, ClosedAbove
<1>4. PassesRecorded'
    BY DEF IInv, TypeOK, PassesRecorded
<1> QED
    BY <1>2, <1>3, <1>4, OutcomesUnchanged DEF IInv

\* Moving the gc round is allowed where the view is closed above it.
LEMMA MoveGcRoundPreserves ==
    ASSUME IInv, NEW v \in Validator, NEW g \in 0..MaxGcRound, MoveGcRound(v, g)
    PROVE  IInv'
<1> USE DEF MoveGcRound
<1>1. dag' = dag
    BY DEF dag
<1>2. TypeOK'
    BY <1>1 DEF IInv, TypeOK
<1>3. ViewsClosed'
    BY <1>1 DEF IInv, TypeOK, ViewsClosed, ClosedAbove, IsCompleteAbove
<1>4. PassesRecorded'
    BY DEF IInv, TypeOK, PassesRecorded
<1> QED
    BY <1>2, <1>3, <1>4, OutcomesUnchanged DEF IInv

\* A pass starts above the gc round with nothing decided.
LEMMA TryDecidePreserves ==
    ASSUME IInv, NEW v \in Validator, NEW s \in Schedule, NEW last \in Rounds \cup {0},
           try_decide(v, s, last)
    PROVE  IInv'
<1>1. dag' = dag
    BY DEF dag, try_decide
<1>2. PICK highest \in Rounds :
        /\ highest - 2 > last
        /\ pass' = [pass EXCEPT ![v] = [schedule |-> s,
                                        last_decided |-> last,
                                        round |-> highest - 2,
                                        leaders |-> [r \in Rounds |-> Undecided]]]
    BY Zenon DEF try_decide
<1> DEFINE p == [schedule |-> s, last_decided |-> last, round |-> highest - 2,
                 leaders |-> [r \in Rounds |-> Undecided]]
<1>3. last \in Nat /\ highest - 2 \in last..MaxRound
    BY <1>2, StatusFacts DEF Rounds
<1>4. p \in Pass
    BY <1>3, StatusFacts DEF Pass, Status
<1>5. pass' = [pass EXCEPT ![v] = p]
    BY <1>2
<1>6. TypeOK'
    BY Zenon, <1>1, <1>3, <1>4, <1>5 DEF IInv, TypeOK, try_decide
<1>7. ViewsClosed'
    BY <1>1 DEF IInv, ViewsClosed, try_decide
<1>8. PassesRecorded'
    BY <1>5 DEF IInv, TypeOK, PassesRecorded, try_decide
<1> QED
    BY <1>6, <1>7, <1>8, OutcomesUnchanged DEF IInv, try_decide

\* The end of a pass forgets it.
LEMMA ReturnPreserves ==
    ASSUME IInv, NEW v \in Validator, Return(v)
    PROVE  IInv'
<1> USE DEF Return
<1>1. dag' = dag
    BY DEF dag
<1>2. TypeOK'
    BY Zenon, <1>1 DEF IInv, TypeOK
<1>3. ViewsClosed'
    BY <1>1 DEF IInv, ViewsClosed
<1>4. PassesRecorded'
    BY DEF IInv, TypeOK, PassesRecorded
<1> QED
    BY <1>2, <1>3, <1>4, OutcomesUnchanged DEF IInv

\* Deciding a round adds a justified decision, which agrees with the earlier ones.
LEMMA DecideRoundPreserves ==
    ASSUME IInv, NEW v \in Validator, DecideRound(v)
    PROVE  IInv'
<1> DEFINE p == pass[v]
           s == p.schedule
           r == p.round
<1>1. pass[v] # NoPass /\ r > p.last_decided /\ UNCHANGED <<epoch, view, gc_round>>
    BY DEF DecideRound
<1>2. dag' = dag
    BY <1>1 DEF dag
<1>3. PICK offset \in Offsets :
        /\ elects(offset, r)
        /\ pass' = [pass EXCEPT ![v].leaders[r] = DecideSlot(dag, view[v], offset, SlotOf(p), p.leaders),
                                ![v].round = r - 1]
        /\ outcomes' = [outcomes EXCEPT ![s][r] = @ \cup
                ({DecideSlot(dag, view[v], offset, SlotOf(p), p.leaders)} \ {Undecided})]
    BY Zenon DEF DecideRound
<1> DEFINE o == DecideSlot(dag, view[v], offset, SlotOf(p), p.leaders)
<1>4. /\ view[v] \in SUBSET dag.blocks /\ p \in Pass /\ r \in Rounds /\ r \in Nat
      /\ s \in Schedule /\ p.leaders \in [Rounds -> Status] /\ IsDag(dag)
    BY <1>1, RunningPass
<1>5. o # Undecided => Justified(s, r, o) /\ (o # Skip => o \in view[v])
    BY <1>1, <1>3, DirectDecision, IndirectDecision DEF DecideSlot
<1>6. o \in Status /\ (o # Undecided => o \in Block \cup {Skip})
    BY Zenon, <1>4, <1>5 DEF Status, IsDag
<1> HIDE DEF o
<1>7. /\ outcomes' = [outcomes EXCEPT ![s][r] = @ \cup ({o} \ {Undecided})]
      /\ pass' = [pass EXCEPT ![v].leaders[r] = o, ![v].round = r - 1]
    BY <1>3 DEF o
<1>8. outcomes \in [Schedule -> [Rounds -> SUBSET (Block \cup {Skip})]]
    BY DEF IInv, TypeOK
<1>9. \A t \in Schedule : \A q \in Rounds :
        outcomes'[t][q] = IF t = s /\ q = r THEN outcomes[t][q] \cup ({o} \ {Undecided})
                                            ELSE outcomes[t][q]
    BY Zenon, <1>4, <1>7, <1>8
<1>10. outcomes' \in [Schedule -> [Rounds -> SUBSET (Block \cup {Skip})]]
    BY <1>4, <1>6, <1>7, <1>8
<1>11. /\ pass'[v] = [p EXCEPT !.leaders = [p.leaders EXCEPT ![r] = o], !.round = r - 1]
       /\ \A w \in Validator : w # v => pass'[w] = pass[w]
       /\ pass' \in [Validator -> Pass \cup {NoPass}]
    <2> DEFINE q == [p EXCEPT !.leaders = [p.leaders EXCEPT ![r] = o], !.round = r - 1]
    <2>1. pass' = [pass EXCEPT ![v] = q]
        BY Zenon, <1>7
    <2>2. q \in Pass
        <3>1. p.last_decided \in Nat
            BY <1>4 DEF Pass
        <3>2. r - 1 \in Nat
            BY <1>1, <1>4, <3>1
        <3>3. [p.leaders EXCEPT ![r] = o] \in [Rounds -> Status]
            BY <1>4, <1>6
        <3> QED BY Zenon, <1>4, <3>2, <3>3 DEF Pass
    <2>3. pass \in [Validator -> Pass \cup {NoPass}]
        BY DEF IInv, TypeOK
    <2> QED BY <2>1, <2>2, <2>3
<1>12. /\ pass'[v].last_decided = p.last_decided /\ pass'[v].schedule = s
       /\ pass'[v].round = r - 1
       /\ \A x \in Rounds : pass'[v].leaders[x] = IF x = r THEN o ELSE p.leaders[x]
    BY <1>4, <1>11 DEF Pass
<1>13. TypeOK'
    <2>1. \A w \in Validator : pass'[w] # NoPass =>
            pass'[w].round \in pass'[w].last_decided..MaxRound
        <3>1. p.last_decided \in Nat /\ r \in p.last_decided..MaxRound
            BY <1>1, <1>4 DEF Pass, IInv, TypeOK
        <3>2. pass'[v].round \in pass'[v].last_decided..MaxRound
            <4>1. r > p.last_decided
                BY Zenon, <1>1
            <4>2. r - 1 \in p.last_decided..MaxRound
                BY <3>1, <4>1, StatusFacts
            <4> QED BY Zenon, <1>12, <4>2
        <3>3. \A w \in Validator : pass[w] # NoPass =>
                pass[w].round \in pass[w].last_decided..MaxRound
            BY DEF IInv, TypeOK
        <3> QED BY Zenon, <1>11, <3>2, <3>3
    <2> QED BY <1>1, <1>2, <1>10, <1>11, <2>1 DEF IInv, TypeOK
<1>14. ViewsClosed'
    BY <1>1, <1>2 DEF IInv, ViewsClosed
<1>15. PassesRecorded'
    <2> SUFFICES ASSUME NEW w \in Validator, pass'[w] # NoPass
                 PROVE  /\ gc_round[w] <= pass'[w].last_decided
                        /\ \A x \in Rounds : pass'[w].leaders[x] # Undecided =>
                            /\ pass'[w].leaders[x] \in outcomes'[pass'[w].schedule][x]
                            /\ pass'[w].leaders[x] # Skip => pass'[w].leaders[x] \in view[w]
        BY <1>1 DEF PassesRecorded
    <2>0. PassesRecorded
        BY DEF IInv
    <2>1. CASE w = v
        <3>1. /\ gc_round[v] <= p.last_decided
              /\ \A x \in Rounds : p.leaders[x] # Undecided =>
                    /\ p.leaders[x] \in outcomes[s][x]
                    /\ p.leaders[x] # Skip => p.leaders[x] \in view[v]
            BY <1>1, <2>0 DEF PassesRecorded
        <3>2. \A x \in Rounds : outcomes'[s][x] = IF x = r THEN outcomes[s][x] \cup ({o} \ {Undecided})
                                                          ELSE outcomes[s][x]
            BY Zenon, <1>4, <1>9
        <3>3. o # Undecided => (o # Skip => o \in view[v])
            BY <1>5
        <3> HIDE DEF p, r, s
        <3> QED BY Zenon, <1>12, <2>1, <3>1, <3>2, <3>3
    <2>2. CASE w # v
        <3>1. pass'[w] = pass[w] /\ pass[w] \in Pass
            BY <1>11, <2>2 DEF IInv, TypeOK
        <3>2. pass[w].schedule \in Schedule
            BY <3>1 DEF Pass
        <3>3. \A x \in Rounds : outcomes[pass[w].schedule][x] \subseteq outcomes'[pass[w].schedule][x]
            BY Zenon, <1>9, <3>2
        <3>4. pass[w] # NoPass
            BY <3>1
        <3>5. /\ gc_round[w] <= pass[w].last_decided
              /\ \A x \in Rounds : pass[w].leaders[x] # Undecided =>
                    /\ pass[w].leaders[x] \in outcomes[pass[w].schedule][x]
                    /\ pass[w].leaders[x] # Skip => pass[w].leaders[x] \in view[w]
            BY <2>0, <3>4 DEF PassesRecorded
        <3> QED BY <3>1, <3>3, <3>5
    <2> QED BY <2>1, <2>2
<1>16. \A t \in Schedule : \A q \in Rounds : \A z \in outcomes'[t][q] : Justified(t, q, z)
    <2> SUFFICES ASSUME NEW t \in Schedule, NEW q \in Rounds, NEW z \in outcomes'[t][q]
                 PROVE  Justified(t, q, z)
        OBVIOUS
    <2>1. CASE z \in outcomes[t][q]
        BY <2>1 DEF IInv, OutcomesJustified
    <2>2. CASE z \notin outcomes[t][q]
        <3>1. outcomes'[t][q] = IF t = s /\ q = r THEN outcomes[t][q] \cup ({o} \ {Undecided})
                                                  ELSE outcomes[t][q]
            BY <1>9
        <3>2. t = s /\ q = r
            BY <2>2, <3>1, Zenon
        <3>3. z = o /\ o # Undecided
            BY <2>2, <3>1, <3>2
        <3>4. Justified(s, r, o)
            BY <1>5, <3>3
        <3> HIDE DEF s, r
        <3> QED BY <3>2, <3>3, <3>4
    <2> QED BY <2>1, <2>2
<1>17. OutcomesJustified'
    <2>1. \A t \in Schedule : \A q \in Rounds : outcomes[t][q] \subseteq outcomes'[t][q]
        BY Zenon, <1>9
    <2> QED BY <1>1, <1>16, <2>1, JustificationsKept DEF OutcomesJustified
<1>18. Agreement'
    <2>1. \A t \in Schedule : \A q \in Rounds : \A y, z \in outcomes'[t][q] : y = z
        BY <1>16, JustifiedAgree DEF IInv
    <2> QED BY <2>1 DEF Agreement
<1> QED
    BY <1>13, <1>14, <1>15, <1>17, <1>18 DEF IInv

\* Every step of the committers and of their DAGs preserves the invariant.
LEMMA NextPreserves == IInv /\ [Next]_vars => IInv'
<1> SUFFICES ASSUME IInv, [Next]_vars PROVE IInv'
    OBVIOUS
<1>1. CASE UNCHANGED vars
    <2>1. dag' = dag
        BY <1>1 DEF vars, dag
    <2>2. TypeOK' /\ ViewsClosed' /\ PassesRecorded'
        BY <1>1, <2>1 DEF vars, IInv, TypeOK, ViewsClosed, PassesRecorded
    <2> QED BY <1>1, <2>2, OutcomesUnchanged DEF vars, IInv
<1>2. ASSUME NEW v \in Validator, NEW b \in dag.blocks, AcceptBlock(v, b) PROVE IInv'
    BY <1>2, AcceptBlockPreserves
<1>3. ASSUME NEW v \in Validator, NEW b \in dag.blocks, LoseBlock(v, b) PROVE IInv'
    BY <1>3, LoseBlockPreserves
<1>4. ASSUME NEW v \in Validator, NEW g \in 0..MaxGcRound, MoveGcRound(v, g) PROVE IInv'
    BY <1>4, MoveGcRoundPreserves
<1>5. ASSUME NEW v \in Validator, NEW s \in Schedule, NEW last \in Rounds \cup {0},
             try_decide(v, s, last)
      PROVE  IInv'
    BY <1>5, TryDecidePreserves
<1>6. ASSUME NEW v \in Validator, DecideRound(v) PROVE IInv'
    BY <1>6, DecideRoundPreserves
<1>7. ASSUME NEW v \in Validator, Return(v) PROVE IInv'
    BY <1>7, ReturnPreserves
<1> QED
    BY <1>1, <1>2, <1>3, <1>4, <1>5, <1>6, <1>7 DEF Next

\* The inductive invariant holds in every reachable state.
THEOREM CommitterInvariant == Spec => []IInv
BY InitEstablishes, NextPreserves, PTL DEF Spec

\* The committer's state is well typed in every reachable state.
THEOREM CommitterTyped == Spec => []TypeOK
<1>1. IInv => TypeOK
    BY DEF IInv
<1> QED
    BY <1>1, CommitterInvariant, PTL

\* No two decisions of try_decide on a slot ever differ: the commit rule is safe
\* whatever parts of the DAG the authorities have and however often they restart.
THEOREM CommitRuleAgrees == Spec => []Agreement
<1>1. IInv => Agreement
    BY DEF IInv
<1> QED
    BY <1>1, CommitterInvariant, PTL

\* The panics of base_committer.rs and of ancestors_at_round are unreachable.
THEOREM NoPanic == Spec => []CommitRuleNeverPanics
<1>1. ASSUME IInv PROVE CommitRuleNeverPanics
    <2> SUFFICES ASSUME NEW v \in Validator, pass[v] # NoPass, NEW offset \in Offsets,
                        pass[v].round > pass[v].last_decided, elects(offset, pass[v].round)
                 PROVE  LET p == pass[v]
                        IN  /\ \A b, c \in leaders_with_enough_support(dag, view[v], offset, SlotOf(p)) : b = c
                            /\ \A c \in AtRound(view[v], DecisionRound(offset, p.round)) :
                                \A a \in dag.ancestors[c] : a \in view[v] \/ a.round <= gc_round[v]
                            /\ \A x \in Rounds : IsAnchorRound(p.leaders, p.round, x) /\ p.leaders[x] # Undecided =>
                                /\ \A b, c \in certified_leader_blocks(dag, view[v], offset, SlotOf(p),
                                                                       p.leaders[x]) : b = c
                                /\ \A a \in dag.history[p.leaders[x]] :
                                        a.round >= DecisionRound(offset, p.round) => a \in view[v]
        BY Zenon, <1>1 DEF CommitRuleNeverPanics
    <2> DEFINE p == pass[v]
               r == p.round
               V == view[v]
    <2>1. /\ IsDag(dag) /\ V \in SUBSET dag.blocks /\ r \in Rounds /\ r \in Nat
          /\ gc_round[v] \in Nat /\ ClosedAbove(dag, V, gc_round[v]) /\ r > gc_round[v]
          /\ p.schedule \in Schedule
        BY Zenon, <1>1, RunningPass
    <2>2. DecisionRound(offset, r) = r + 2
        BY <2>1, WaveFacts
    <2>3. ASSUME NEW b \in leaders_with_enough_support(dag, V, offset, SlotOf(p)),
                 NEW c \in leaders_with_enough_support(dag, V, offset, SlotOf(p))
          PROVE  b = c
        <3>1. ASSUME NEW l \in leaders_with_enough_support(dag, V, offset, SlotOf(p))
              PROVE  /\ l.round = r /\ l.author = Leader[p.schedule][r]
                     /\ \E e \in dag.blocks : e.round = r + 2 /\ Certifies(dag, e, l)
            <4>1. l.round = r /\ l.author = Leader[p.schedule][r] /\ enough_leader_support(dag, V, r + 2, l)
                BY Zenon, <2>2, <3>1 DEF leaders_with_enough_support, BlocksAtSlot, SlotOf
            <4>2. \E e \in AtRound(V, r + 2) : is_certificate(dag, V, e, l)
                BY Zenon, <4>1, QuorumFacts DEF enough_leader_support, Authors
            <4> QED BY Zenon, <2>1, <4>1, <4>2, ViewCertificates DEF AtRound
        <3>2. PICK e \in dag.blocks : e.round = r + 2 /\ Certifies(dag, e, b)
            BY Zenon, <2>3, <3>1
        <3>3. PICK f \in dag.blocks : f.round = r + 2 /\ Certifies(dag, f, c)
            BY <2>3, <3>1
        <3>4. b.round = r /\ c.round = r /\ b.author = c.author
            BY <2>3, <3>1
        <3> QED BY Zenon, <2>1, <3>2, <3>3, <3>4, CertifiedOnceOnly
    <2>4. \A c \in V : \A a \in dag.ancestors[c] : a \in V \/ a.round <= gc_round[v]
        <3> SUFFICES ASSUME NEW c \in V, NEW a \in dag.ancestors[c], a \notin V
                     PROVE  a.round <= gc_round[v]
            OBVIOUS
        <3>1. a \in dag.blocks
            BY <2>1, BlockFacts
        <3>2. a.round \in Nat
            BY <2>1, <3>1, BlockFacts
        <3>3. ~ (a.round > gc_round[v])
            BY Zenon, <2>1 DEF ClosedAbove
        <3>4. gc_round[v] \in Nat
            BY Zenon, <2>1
        <3> QED BY <3>2, <3>3, <3>4
    <2>5. ASSUME NEW x \in Rounds, IsAnchorRound(p.leaders, r, x), p.leaders[x] # Undecided
          PROVE  /\ \A b, c \in certified_leader_blocks(dag, V, offset, SlotOf(p), p.leaders[x]) : b = c
                 /\ \A a \in dag.history[p.leaders[x]] : a.round >= r + 2 => a \in V
        <3>1. p.leaders[x] \in V
            BY <1>1, <2>5 DEF IInv, PassesRecorded, IsAnchorRound
        <3>2. ASSUME NEW a \in dag.history[p.leaders[x]], a.round >= r + 2 PROVE a \in V
            <4>1. a \in dag.blocks
                BY ZenonT(60), <2>1, <3>1, BlockFacts
            <4>2. a.round \in Nat
                BY ZenonT(60), <2>1, <4>1, BlockFacts
            <4>3. r \in Nat /\ gc_round[v] \in Nat /\ r > gc_round[v] /\ a.round >= r + 2
                BY Zenon, <2>1, <3>2
            <4>4. a.round > gc_round[v]
                BY <4>2, <4>3
            <4> QED BY ZenonT(60), <2>1, <3>1, <3>2, <4>4, ClosedHistories
        <3>3. ASSUME NEW b \in certified_leader_blocks(dag, V, offset, SlotOf(p), p.leaders[x]),
                     NEW c \in certified_leader_blocks(dag, V, offset, SlotOf(p), p.leaders[x])
              PROVE  b = c
            <4>1. /\ IsLeaderBlock(p.schedule, r, b) /\ CertifiedFrom(p.leaders[x], r, b)
                  /\ IsLeaderBlock(p.schedule, r, c) /\ CertifiedFrom(p.leaders[x], r, c)
                BY <1>1, <3>1, <3>3, CertifiedFromAnchor
            <4>2. dag.history[p.leaders[x]] \subseteq dag.blocks
                BY ZenonT(60), <2>1, <3>1, BlockFacts
            <4>3. PICK e \in dag.blocks : e.round = r + 2 /\ Certifies(dag, e, b)
                BY Zenon, <4>1, <4>2 DEF CertifiedFrom
            <4>4. PICK f \in dag.blocks : f.round = r + 2 /\ Certifies(dag, f, c)
                BY Zenon, <4>1, <4>2 DEF CertifiedFrom
            <4>5. b.round = r /\ c.round = r /\ b.author = c.author
                BY <4>1 DEF IsLeaderBlock
            <4> QED BY Zenon, <2>1, <4>3, <4>4, <4>5, CertifiedOnceOnly
        <3> QED BY <3>2, <3>3
    <2> QED BY Zenon, <2>2, <2>3, <2>4, <2>5 DEF AtRound
<1> QED
    BY <1>1, CommitterInvariant, PTL
=============================================================================
