------------------------- MODULE SynchronizerProofs -------------------------
(***************************************************************************)
(* Proofs about Synchronizer, for any peers, blocks and limits: the locks  *)
(* of InflightBlocksMap are exactly those of living guards, and no block   *)
(* is asked of more than MaxAuthorities peers at a time.                   *)
(*                                                                         *)
(* And about AmnesiaRecovery, the other task of synchronizer.rs: it keeps  *)
(* an authority from proposing a second block for a round its peers know   *)
(* of, for any committee and stakes, any faulty peers, any number of       *)
(* rounds and crashes.                                                     *)
(***************************************************************************)
EXTENDS Synchronizer, AmnesiaRecovery, FiniteSetTheorems, TLAPS

\* The peers that hold r by a guard of S.
Holders(S, r) == {g.peer : g \in {h \in S : r \in h.refs}}

\* No two guards of S hold a block for the same peer.
HeldOnce(S) == \A g, h \in S : g.peer = h.peer /\ g /= h => g.refs \cap h.refs = {}

\* The locks I are those of the guards S, and there are few of each.
Locks(I, S) ==
    /\ I \in [Ref -> SUBSET Peer]
    /\ S \subseteq Guard
    /\ \A r \in Ref : I[r] = Holders(S, r)
    /\ HeldOnce(S)
    /\ \A r \in Ref : IsFiniteSet(I[r]) /\ Cardinality(I[r]) <= MaxAuthorities

LockInv == Locks(inflight, guards)

IInv == TypeOK /\ LockInv

\* What the limits are.
LEMMA Limits == MaxAuthorities \in Nat /\ MaxAuthorities > 0 /\ MaxRetries \in Nat
<1>1. \A n \in {MaxAuthorities, Concurrency, MaxRetries, MaxBlocksPerSync} : n \in Nat /\ n > 0
  BY LimitsAssumption
<1> QED BY <1>1

\* The fields of a guard.
LEMMA GuardFields ==
  ASSUME NEW g \in Guard
  PROVE  g.peer \in Peer /\ g.refs \subseteq Ref /\ g.refs /= {} /\ g.retries \in Nat
  BY Limits DEF Guard

\* A guard that moves to another place holds the same locks.
LEMMA MoveKeepsLocks ==
  ASSUME NEW I, NEW S, Locks(I, S), NEW g \in S, NEW h \in Guard,
         h.peer = g.peer, h.refs = g.refs
  PROVE  Locks(I, (S \ {g}) \cup {h})
<1>1. ASSUME NEW r \in Ref PROVE Holders((S \ {g}) \cup {h}, r) = Holders(S, r)
  BY DEF Holders
<1>2. HeldOnce((S \ {g}) \cup {h})
  BY DEF HeldOnce, Locks
<1> QED
  BY Zenon, <1>1, <1>2 DEF Locks

\* When the guards of D are dropped, exactly their locks are given back: no
\* other guard holds one of them for the same peer.
LEMMA DropKeepsLocks ==
  ASSUME NEW I, NEW S, Locks(I, S), NEW D \in SUBSET S
  PROVE  Locks([r \in Ref |-> I[r] \ Holders(D, r)], S \ D)
<1> DEFINE J == [r \in Ref |-> I[r] \ Holders(D, r)]
<1>1. ASSUME NEW r \in Ref PROVE J[r] = Holders(S \ D, r)
  <2>1. J[r] = Holders(S, r) \ Holders(D, r)
    BY DEF Locks
  <2>2. ASSUME NEW p \in Holders(S \ D, r) PROVE p \notin Holders(D, r)
    <3>1. PICK g \in S \ D : r \in g.refs /\ g.peer = p
      BY DEF Holders
    <3>2. ASSUME NEW h \in D, r \in h.refs PROVE h.peer /= p
      BY <3>1, <3>2 DEF Locks, HeldOnce
    <3> QED BY <3>2 DEF Holders
  <2>3. Holders(S \ D, r) \subseteq Holders(S, r)
    BY DEF Holders
  <2>4. Holders(S, r) \subseteq Holders(S \ D, r) \cup Holders(D, r)
    BY DEF Holders
  <2> QED BY <2>1, <2>2, <2>3, <2>4
<1>2. HeldOnce(S \ D)
  BY DEF Locks, HeldOnce
<1>3. ASSUME NEW r \in Ref
      PROVE  IsFiniteSet(J[r]) /\ Cardinality(J[r]) <= MaxAuthorities
  <2>1. /\ IsFiniteSet(I[r]) /\ Cardinality(I[r]) <= MaxAuthorities
        /\ J[r] \in SUBSET I[r]
    BY DEF Locks
  <2>2. Cardinality(J[r]) <= Cardinality(I[r]) /\ IsFiniteSet(J[r])
    BY <2>1, FS_Subset
  <2>3. Cardinality(I[r]) \in Nat /\ Cardinality(J[r]) \in Nat
    BY <2>1, <2>2, FS_CardinalityType
  <2> QED
    BY <2>1, <2>2, <2>3, Limits
<1>4. S \ D \subseteq Guard /\ J \in [Ref -> SUBSET Peer]
  BY DEF Locks
<1> HIDE DEF J
<1>5. Locks(J, S \ D)
  BY <1>1, <1>2, <1>3, <1>4 DEF Locks
<1> QED
  BY <1>5 DEF J

\* The guards G are new, for locks that lock_blocks found free, and no two of
\* them are for the same block.
LEMMA NewGuardsKeepLocks ==
  ASSUME NEW I, NEW S, Locks(I, S), NEW G \in SUBSET Guard,
         \A g \in G : \A r \in g.refs :
            Cardinality(I[r]) < MaxAuthorities /\ g.peer \notin I[r],
         \A g, h \in G : g /= h => g.refs \cap h.refs = {}
  PROVE  Locks([r \in Ref |-> I[r] \cup Holders(G, r)], S \cup G)
<1> DEFINE J == [r \in Ref |-> I[r] \cup Holders(G, r)]
<1>1. ASSUME NEW r \in Ref PROVE J[r] = Holders(S \cup G, r)
  <2>1. J[r] = Holders(S, r) \cup Holders(G, r)
    BY DEF Locks
  <2>2. Holders(S \cup G, r) = Holders(S, r) \cup Holders(G, r)
    BY DEF Holders
  <2> QED BY Zenon, <2>1, <2>2
<1>2. HeldOnce(S \cup G)
  <2> SUFFICES ASSUME NEW g \in S \cup G, NEW h \in S \cup G, g.peer = h.peer, g /= h,
                      NEW r \in g.refs, r \in h.refs
               PROVE  FALSE
    BY DEF HeldOnce
  <2>0. g \in Guard /\ h \in Guard /\ r \in Ref
    BY GuardFields DEF Locks
  <2>1. CASE g \in S /\ h \in S
    BY <2>1 DEF Locks, HeldOnce
  <2>2. CASE g \in G /\ h \in G
    BY <2>2
  <2>3. CASE g \in G /\ h \in S
    <3>1. h.peer \in I[r]
      BY <2>0, <2>3 DEF Locks, Holders
    <3> QED BY <3>1, <2>3
  <2>4. CASE g \in S /\ h \in G
    <3>1. g.peer \in I[r]
      BY <2>0, <2>4 DEF Locks, Holders
    <3> QED BY <3>1, <2>4
  <2> QED BY <2>1, <2>2, <2>3, <2>4
<1>3. ASSUME NEW r \in Ref
      PROVE  IsFiniteSet(J[r]) /\ Cardinality(J[r]) <= MaxAuthorities
  <2>1. IsFiniteSet(I[r]) /\ Cardinality(I[r]) <= MaxAuthorities
    BY DEF Locks
  <2>2. CASE \A g \in G : r \notin g.refs
    <3>1. J[r] = I[r]
      BY <2>2 DEF Holders
    <3> QED BY Zenon, <3>1, <2>1
  <2>3. CASE \E g \in G : r \in g.refs
    <3>1. PICK g \in G : r \in g.refs
      BY <2>3
    <3>2. Holders(G, r) = {g.peer}
      BY <3>1 DEF Holders
    <3>3. J[r] = I[r] \cup {g.peer}
      BY <3>2
    <3>4. Cardinality(I[r]) < MaxAuthorities /\ g.peer \notin I[r]
      BY <3>1
    <3>5. Cardinality(I[r]) \in Nat
      BY <2>1, FS_CardinalityType
    <3>6. /\ IsFiniteSet(I[r] \cup {g.peer})
          /\ Cardinality(I[r] \cup {g.peer}) = Cardinality(I[r]) + 1
      BY Zenon, <2>1, <3>4, FS_AddElement
    <3> HIDE DEF J
    <3> QED BY <3>3, <3>4, <3>5, <3>6, Limits
  <2> QED BY <2>2, <2>3
<1>4. S \cup G \subseteq Guard /\ J \in [Ref -> SUBSET Peer]
  <2>1. ASSUME NEW r PROVE Holders(G, r) \subseteq Peer
    BY GuardFields DEF Holders
  <2> QED BY <2>1 DEF Locks
<1> HIDE DEF J
<1>5. Locks(J, S \cup G)
  BY <1>1, <1>2, <1>3, <1>4 DEF Locks
<1> QED
  BY <1>5 DEF J

\* unlock_blocks of a guard's blocks, in the form of DropKeepsLocks.
LEMMA UnlockIsDrop ==
  ASSUME NEW I \in [Ref -> SUBSET Peer], NEW g
  PROVE  unlock_blocks(I, g.refs, g.peer) = [r \in Ref |-> I[r] \ Holders({g}, r)]
  BY DEF unlock_blocks, Holders

\* lock_blocks and the guard it returns, for blocks that can be locked.
LEMMA LockKeepsLocks ==
  ASSUME NEW I, NEW S, Locks(I, S), NEW p \in Peer, NEW at \in {"queue", "periodic"},
         NEW refs \in SUBSET Ref,
         \A r \in refs : Cardinality(I[r]) < MaxAuthorities /\ p \notin I[r]
  PROVE  Locks(lock_blocks(I, refs, p), S \cup GuardFor(p, refs, at))
<1> DEFINE G == GuardFor(p, refs, at)
           n == [peer |-> p, refs |-> refs, at |-> at, retries |-> 1]
<1>1. CASE refs = {}
  <2>1. G = {}
    BY <1>1 DEF GuardFor
  <2>2. lock_blocks(I, refs, p) = I
    BY <1>1 DEF lock_blocks, Locks
  <2> QED BY <2>1, <2>2
<1>2. CASE refs /= {}
  <2>1. G = {n}
    BY <1>2 DEF GuardFor
  <2>2. n \in Guard
    BY <1>2, Limits DEF Guard
  <2>3. lock_blocks(I, refs, p) = [r \in Ref |-> I[r] \cup Holders(G, r)]
    <3>0. n.peer = p /\ n.refs = refs
      OBVIOUS
    <3> HIDE DEF G, n
    <3>1. \A r \in Ref : Holders(G, r) = IF r \in refs THEN {p} ELSE {}
      BY <2>1, <3>0 DEF Holders
    <3> QED BY <3>1 DEF lock_blocks
  <2>4. \A g \in G : g.refs = refs /\ g.peer = p
    BY <2>1
  <2>5. \A g, h \in G : g = h
    BY <2>1
  <2>6. G \in SUBSET Guard
    BY <2>1, <2>2
  <2> HIDE DEF G, n
  <2>7. Locks([r \in Ref |-> I[r] \cup Holders(G, r)], S \cup G)
    BY <2>4, <2>5, <2>6, NewGuardsKeepLocks
  <2>8. Locks(lock_blocks(I, refs, p), S \cup G)
    BY <2>3, <2>7
  <2> QED BY <2>8 DEF G
<1> QED BY <1>1, <1>2

-----------------------------------------------------------------------------

\* There are no locks at the start.
LEMMA InitInv == Init => IInv
<1> SUFFICES ASSUME Init PROVE IInv
  OBVIOUS
<1>1. TypeOK
  BY Zenon DEF Init, TypeOK
<1>2. ASSUME NEW r \in Ref
      PROVE  inflight[r] = {} /\ Holders(guards, r) = {}
  BY DEF Init, Holders
<1>3. IsFiniteSet({}) /\ Cardinality({}) = 0
  BY FS_EmptySet
<1>4. LockInv
  BY <1>1, <1>2, <1>3, Limits DEF LockInv, Locks, HeldOnce, Init, TypeOK
<1> QED BY <1>1, <1>4 DEF IInv

\* An explicit request takes a guard for what it locks.
LEMMA FetchBlocksInv ==
  ASSUME IInv, NEW p \in Peer, NEW refs \in SUBSET missing, FetchBlocks(p, refs)
  PROVE  IInv'
<1> DEFINE locked == Lockable(Take(refs), p)
<1>1. /\ inflight' = lock_blocks(inflight, locked, p)
      /\ guards' = guards \cup GuardFor(p, locked, "queue")
      /\ UNCHANGED <<missing, fetched, scheduler, peers_left, lagging>>
  BY DEF FetchBlocks
<1>2. /\ locked \in SUBSET Ref
      /\ \A r \in locked : Cardinality(inflight[r]) < MaxAuthorities /\ p \notin inflight[r]
  BY DEF Lockable, Take, IInv, TypeOK
<1>3. Locks(inflight, guards)
  BY DEF IInv, LockInv
<1> HIDE DEF locked
<1>4. Locks(inflight', guards')
  BY <1>1, <1>2, <1>3, LockKeepsLocks
<1> QED
  BY Zenon, <1>1, <1>4 DEF IInv, TypeOK, LockInv, Locks

\* A guard that moves to another task keeps its locks.
LEMMA MoveInv ==
  ASSUME IInv, NEW g \in guards, NEW h \in Guard, Move(g, h),
         h.peer = g.peer, h.refs = g.refs,
         UNCHANGED <<missing, fetched, scheduler, peers_left, lagging>>
  PROVE  IInv'
<1>1. Locks(inflight', guards')
  BY MoveKeepsLocks DEF Move, IInv, LockInv
<1> QED
  BY <1>1 DEF IInv, TypeOK, LockInv, Locks

\* Dropping a guard gives up its locks and no others.
LEMMA DropLocks ==
  ASSUME IInv, NEW g \in guards, Drop(g)
  PROVE  Locks(inflight', guards')
<1>1. inflight' = [r \in Ref |-> inflight[r] \ Holders({g}, r)]
  BY Zenon, UnlockIsDrop DEF Drop, IInv, TypeOK
<1>2. Locks([r \in Ref |-> inflight[r] \ Holders({g}, r)], guards \ {g})
  BY DropKeepsLocks DEF IInv, LockInv
<1> QED
  BY <1>1, <1>2 DEF Drop

\* A request starts with the guard it was made with.
LEMMA StartRequestInv ==
  ASSUME IInv, NEW g \in guards, StartRequest(g)
  PROVE  IInv'
<1>1. g \in Guard
  BY DEF IInv, TypeOK
<1>2. [g EXCEPT !.at = "live"] \in Guard
  BY <1>1 DEF Guard
<1>3. [g EXCEPT !.at = "live"].peer = g.peer /\ [g EXCEPT !.at = "live"].refs = g.refs
  BY <1>1 DEF Guard
<1> QED
  BY Zenon, <1>2, <1>3, MoveInv DEF StartRequest

\* An answer to a periodic request waits with its guard.
LEMMA PeriodicAnswerInv ==
  ASSUME IInv, NEW g \in guards, PeriodicAnswer(g)
  PROVE  IInv'
<1>1. g \in Guard
  BY DEF IInv, TypeOK
<1>2. [g EXCEPT !.at = "result"] \in Guard
  BY <1>1 DEF Guard
<1>3. [g EXCEPT !.at = "result"].peer = g.peer /\ [g EXCEPT !.at = "result"].refs = g.refs
  BY <1>1 DEF Guard
<1> QED
  BY Zenon, <1>2, <1>3, MoveInv DEF PeriodicAnswer

\* A request that fails gives up its guard or moves it to a retry.
LEMMA RequestFailsInv ==
  ASSUME IInv, NEW g \in guards, RequestFails(g)
  PROVE  IInv'
<1>1. g \in Guard /\ g.retries \in Nat
  BY GuardFields DEF IInv, TypeOK
<1>2. CASE g.retries + 1 <= MaxRetries
  <2> DEFINE h == [g EXCEPT !.retries = @ + 1]
  <2>1. h \in Guard
    BY <1>1, <1>2, Limits DEF Guard
  <2>2. h.peer = g.peer /\ h.refs = g.refs
    BY <1>1 DEF Guard
  <2>3. Move(g, h) /\ UNCHANGED <<missing, fetched, scheduler, peers_left, lagging>>
    BY <1>2 DEF RequestFails
  <2> HIDE DEF h
  <2> QED
    BY <2>1, <2>2, <2>3, MoveInv
<1>3. CASE ~ (g.retries + 1 <= MaxRetries)
  <2>1. Locks(inflight', guards')
    BY <1>3, DropLocks DEF RequestFails
  <2> QED
    BY <2>1 DEF RequestFails, IInv, TypeOK, LockInv, Locks
<1> QED BY <1>2, <1>3

\* The answer that is processed gives up its guard.
LEMMA ProcessAnswerInv ==
  ASSUME IInv, NEW g \in guards, ProcessAnswer(g)
  PROVE  IInv'
<1>1. PICK blocks \in Answers(g) : process_fetched_blocks(g, blocks)
  BY DEF ProcessAnswer
<1>2. blocks \subseteq Ref
  <2>1. g.refs \subseteq Ref
    BY GuardFields DEF IInv, TypeOK
  <2> QED BY <2>1, <1>1 DEF Answers
<1>3. Locks(inflight', guards')
  BY <1>1, DropLocks DEF process_fetched_blocks
<1> QED
  BY <1>1, <1>2, <1>3 DEF process_fetched_blocks, IInv, TypeOK, LockInv, Locks

\* swap_locks: first all of the guard's locks are given back, then the ones that
\* are free are taken for the next peer.
LEMMA PeriodicFailsInv ==
  ASSUME IInv, NEW g \in guards, PeriodicFails(g)
  PROVE  IInv'
<1>1. CASE peers_left = {}
  <2>1. Locks(inflight', guards')
    BY <1>1, DropLocks DEF PeriodicFails
  <2> QED
    BY <1>1, <2>1 DEF PeriodicFails, IInv, TypeOK, LockInv, Locks
<1>2. CASE peers_left /= {}
  <2> DEFINE unlocked == unlock_blocks(inflight, g.refs, g.peer)
             Free(p) == {r \in g.refs : /\ Cardinality(unlocked[r]) < MaxAuthorities
                                        /\ p \notin unlocked[r]}
  <2>1. PICK p \in peers_left :
          /\ peers_left' = peers_left \ {p}
          /\ inflight' = lock_blocks(unlocked, Free(p), p)
          /\ guards' = (guards \ {g}) \cup GuardFor(p, Free(p), "periodic")
    BY <1>2 DEF PeriodicFails
  <2>2. Locks(unlocked, guards \ {g})
    <3>1. unlocked = [r \in Ref |-> inflight[r] \ Holders({g}, r)]
      BY UnlockIsDrop DEF IInv, TypeOK
    <3>2. Locks([r \in Ref |-> inflight[r] \ Holders({g}, r)], guards \ {g})
      BY DropKeepsLocks DEF IInv, LockInv
    <3> QED BY <3>1, <3>2
  <2>3. p \in Peer /\ g.refs \subseteq Ref
    BY GuardFields DEF IInv, TypeOK
  <2> HIDE DEF unlocked
  <2>4. Locks(inflight', guards')
    <3>1. /\ Free(p) \in SUBSET Ref
          /\ \A r \in Free(p) : Cardinality(unlocked[r]) < MaxAuthorities
                                 /\ p \notin unlocked[r]
      BY <2>3
    <3> HIDE DEF Free
    <3> QED BY <2>1, <2>2, <2>3, <3>1, LockKeepsLocks
  <2>5. UNCHANGED <<missing, fetched, scheduler, lagging>>
    BY DEF PeriodicFails
  <2> QED
    BY Zenon, <2>1, <2>4, <2>5 DEF IInv, TypeOK, LockInv, Locks
<1> QED BY <1>1, <1>2

\* Each missing block is asked of one peer, so the new guards do not overlap.
LEMMA StartSchedulerInv ==
  ASSUME IInv, NEW peer_of \in [missing -> Peer], StartScheduler(peer_of)
  PROVE  IInv'
<1> DEFINE batch(p) == Lockable(Take({r \in missing : peer_of[r] = p}), p)
           asked == {p \in Peer : \E r \in missing : peer_of[r] = p}
           G == UNION {GuardFor(p, batch(p), "periodic") : p \in asked}
<1>1. /\ scheduler' = "fetch"
      /\ peers_left' = Peer \ asked
      /\ guards' = guards \cup G
      /\ inflight' = [r \in Ref |-> inflight[r] \cup {p \in asked : r \in batch(p)}]
      /\ UNCHANGED <<missing, fetched, lagging>>
  BY DEF StartScheduler
<1>2. ASSUME NEW p
      PROVE  /\ batch(p) \subseteq Ref
             /\ \A r \in batch(p) : /\ r \in missing /\ peer_of[r] = p
                                    /\ Cardinality(inflight[r]) < MaxAuthorities
                                    /\ p \notin inflight[r]
  BY DEF Lockable, Take, IInv, TypeOK
<1> HIDE DEF batch
<1>3. ASSUME NEW g \in G
      PROVE  /\ g.peer \in asked /\ g.refs = batch(g.peer) /\ g \in Guard
             /\ g = [peer |-> g.peer, refs |-> batch(g.peer), at |-> "periodic", retries |-> 1]
  <2>1. PICK p \in asked : g \in GuardFor(p, batch(p), "periodic")
    OBVIOUS
  <2>2. g = [peer |-> p, refs |-> batch(p), at |-> "periodic", retries |-> 1]
        /\ batch(p) /= {}
    BY <2>1 DEF GuardFor
  <2>3. g \in Guard
    BY SMTT(30), <2>2, <1>2, Limits DEF Guard
  <2> QED BY <2>2, <2>3
<1>4. ASSUME NEW r \in Ref PROVE Holders(G, r) = {p \in asked : r \in batch(p)}
  <2>1. ASSUME NEW p \in asked, r \in batch(p)
        PROVE  \E g \in G : g.peer = p /\ r \in g.refs
    <3> DEFINE n == [peer |-> p, refs |-> batch(p), at |-> "periodic", retries |-> 1]
    <3>1. n \in GuardFor(p, batch(p), "periodic")
      BY <2>1 DEF GuardFor
    <3> QED BY <3>1, <2>1
  <2> HIDE DEF G
  <2> QED BY <2>1, <1>3 DEF Holders
<1> HIDE DEF G
<1>5. \A g \in G : \A r \in g.refs :
          Cardinality(inflight[r]) < MaxAuthorities /\ g.peer \notin inflight[r]
  BY <1>2, <1>3
<1>6. \A g, h \in G : g /= h => g.refs \cap h.refs = {}
  BY <1>2, <1>3
<1>7. Locks([r \in Ref |-> inflight[r] \cup Holders(G, r)], guards \cup G)
  <2>1. G \in SUBSET Guard /\ Locks(inflight, guards)
    BY <1>3 DEF IInv, LockInv
  <2> QED BY <2>1, <1>5, <1>6, NewGuardsKeepLocks
<1>8. inflight' = [r \in Ref |-> inflight[r] \cup Holders(G, r)]
  BY <1>1, <1>4
<1>9. Locks(inflight', guards')
  BY Zenon, <1>1, <1>7, <1>8
<1> QED
  BY Zenon, <1>1, <1>9 DEF IInv, TypeOK, LockInv, Locks

\* What is left of a periodic fetch is given up when it ends.
LEMMA GatherEndsInv ==
  ASSUME IInv, GatherEnds
  PROVE  IInv'
<1> DEFINE D == {g \in guards : g.at = "periodic"}
<1>1. /\ guards' = guards \ D
      /\ inflight' = [r \in Ref |-> inflight[r] \ Holders(D, r)]
      /\ scheduler' = "process"
      /\ UNCHANGED <<missing, fetched, peers_left, lagging>>
  BY DEF GatherEnds, Holders
<1>2. Locks([r \in Ref |-> inflight[r] \ Holders(D, r)], guards \ D)
  BY Zenon, DropKeepsLocks DEF IInv, LockInv
<1>3. Locks(inflight', guards')
  BY <1>1, <1>2
<1> QED
  BY <1>1, <1>3 DEF IInv, TypeOK, LockInv, Locks

\* Every step preserves the invariant.
LEMMA NextInv == IInv /\ [Next]_vars => IInv'
<1> SUFFICES ASSUME IInv, [Next]_vars PROVE IInv'
  OBVIOUS
<1>1. ASSUME NEW p \in Peer, NEW refs \in (SUBSET missing) \ {{}}, FetchBlocks(p, refs)
      PROVE  IInv'
  BY <1>1, FetchBlocksInv
<1>2. ASSUME NEW g \in guards,
             \/ StartRequest(g) \/ RequestFails(g) \/ ProcessAnswer(g)
             \/ PeriodicAnswer(g) \/ PeriodicFails(g)
      PROVE  IInv'
  BY <1>2, StartRequestInv, RequestFailsInv, ProcessAnswerInv, PeriodicAnswerInv,
     PeriodicFailsInv
<1>3. ASSUME NEW peer_of \in [missing -> Peer], StartScheduler(peer_of) PROVE IInv'
  BY <1>3, StartSchedulerInv
<1>4. CASE GatherEnds
  BY <1>4, GatherEndsInv
<1>5. CASE SchedulerEnds
  BY <1>5 DEF SchedulerEnds, IInv, TypeOK, LockInv
<1>6. ASSUME NEW r \in Ref, NewMissing(r) PROVE IInv'
  BY <1>6 DEF NewMissing, IInv, TypeOK, LockInv
<1>7. CASE LagChanges
  BY <1>7 DEF LagChanges, IInv, TypeOK, LockInv
<1>8. CASE UNCHANGED vars
  BY <1>8 DEF vars, IInv, TypeOK, LockInv
<1> QED
  BY <1>1, <1>2, <1>3, <1>4, <1>5, <1>6, <1>7, <1>8 DEF Next

\* The invariant is inductive.
LEMMA Invariance == Spec => []IInv
  BY InitInv, NextInv, PTL DEF Spec

\* The state of the synchronizer has its types; no guard is empty.
THEOREM TypeCorrect == Spec => []TypeOK
<1>1. IInv => TypeOK
  BY DEF IInv
<1> QED BY <1>1, Invariance, PTL

\* The locks of InflightBlocksMap are exactly those of living guards, each held
\* once, whichever way requests end: the unlocking of a dropped guard always
\* finds its locks, and none stays behind.
THEOREM LocksAreThoseOfGuards == Spec => []LocksAreGuards
<1>1. IInv => LocksAreGuards
  BY DEF IInv, LockInv, Locks, LocksAreGuards, Holders, HeldOnce
<1> QED BY <1>1, Invariance, PTL

\* Explicit and periodic requests together never ask more than
\* MAX_AUTHORITIES_TO_FETCH_PER_BLOCK peers for a block at a time.
THEOREM NeverTooManyAuthorities == Spec => []FewAuthoritiesPerBlock
<1>1. IInv => FewAuthoritiesPerBlock
  BY DEF IInv, LockInv, Locks, FewAuthoritiesPerBlock
<1> QED BY <1>1, Invariance, PTL

-----------------------------------------------------------------------------
(* The fetch of the own last block                                         *)
(*                                                                         *)
(* The answers are gathered while blocks are still being delivered, so     *)
(* what a peer knows now says little about what it answered.  The          *)
(* invariant keeps, for each round at stake, a set of peers that may have  *)
(* answered without telling of it, too small to end the task.              *)

\* A proposed round that was not yet forgotten by too many.
AtStake(r) == r \notin unknown /\ \E b \in proposed : b.round = r

\* The peers that may have answered without telling of round r are in Q.
Untold(r, Q) ==
    /\ Q \subseteq Authority /\ ~ reached_validity(Q)
    /\ Silent(r) \subseteq Q /\ replied \subseteq Q

\* What keeps us from proposing for round r again.
Guarded(r) ==
    \/ last_proposed.round >= r
    \/ asking /\ (highest_round >= r \/ \E Q : Untold(r, Q))
    \/ ~ asking /\ last_known_proposed_round >= r

RecoveryInv ==
    /\ RecoveryTypeOK
    /\ asking => last_known_proposed_round = NotSynced
    /\ stored.accepted => accepted
    /\ Equivocated \subseteq unknown \/ interrupted
    /\ ~ interrupted => \A r \in Round : AtStake(r) => Guarded(r)
    /\ asking \/ ~ stored.accepted
         => \A r \in Round : AtStake(r) => ~ reached_validity(Silent(r))

-----------------------------------------------------------------------------
\* Rounds are numbers.
LEMMA RoundIsNat ==
  ASSUME RecoveryAssumption
  PROVE  MaxRound \in Nat \ {0} /\ \A r \in Round : r \in Nat /\ r /= NotSynced
  BY RecoveryAssumption DEF RecoveryAssumption, Round, NotSynced

\* What an empty storage holds.
LEMMA GenesisIsBlock ==
  ASSUME RecoveryAssumption
  PROVE  Genesis \in Block /\ Genesis.round = 0 /\ EmptyStorage.block = Genesis
<1>1. (CHOOSE c \in Content : TRUE) \in Content
  BY RecoveryAssumption DEF RecoveryAssumption
<1>2. 0 \in Round
  BY RoundIsNat DEF Round
<1> QED BY <1>1, <1>2 DEF Genesis, Block, EmptyStorage

\* Nothing is proposed at the start.
LEMMA RecoveryInitInv ==
  ASSUME RecoveryAssumption
  PROVE  RecoveryInit => RecoveryInv
<1> SUFFICES ASSUME RecoveryInit PROVE RecoveryInv
  OBVIOUS
<1>1. RecoveryTypeOK
  <2>1. 1 \in 1..MaxRound /\ 0 \in Round
    BY RoundIsNat DEF Round
  <2>2. EmptyStorage \in [block : Block, accepted : BOOLEAN]
    BY GenesisIsBlock DEF EmptyStorage
  <2> QED BY Zenon, <2>1, <2>2, GenesisIsBlock DEF RecoveryInit, RecoveryTypeOK
<1>2. Equivocated = {} /\ \A r \in Round : ~ AtStake(r)
  BY DEF RecoveryInit, Equivocated, AtStake
<1>3. ~ stored.accepted
  BY DEF RecoveryInit, EmptyStorage
<1> QED BY <1>1, <1>2, <1>3 DEF RecoveryInv, RecoveryInit

\* A smaller set has not enough stake if a larger one has not.
LEMMA SmallerSets ==
  ASSUME RecoveryAssumption, NEW S, NEW T, S \subseteq T, T \subseteq Authority, ~ reached_validity(T)
  PROVE  ~ reached_validity(S)
<1>1. S \in SUBSET Authority /\ T \in SUBSET Authority
  OBVIOUS
<1> QED BY <1>1, RecoveryAssumption DEF RecoveryAssumption

\* Silent peers are peers, and their number only shrinks.
LEMMA SilentPeers ==
  ASSUME RecoveryAssumption, NEW r
  PROVE  Silent(r) \subseteq Authority /\ Silent(r)' \subseteq Authority
  BY RecoveryAssumption DEF RecoveryAssumption, Silent, Peers

\* The task starts over whenever it starts.
LEMMA FreshTask ==
  ASSUME RecoveryAssumption, NEW r, ~ reached_validity(Silent(r))', replied' = {}
  PROVE  \E Q : Untold(r, Q)'
<1>1. PICK Q : Q = Silent(r)'
  OBVIOUS
<1>2. Untold(r, Q)'
  BY <1>1, SilentPeers DEF Untold
<1> QED BY <1>2

-----------------------------------------------------------------------------
\* A peer that does not tell of a round is one of those that might not.
LEMMA ReplyInv ==
  ASSUME RecoveryAssumption, RecoveryInv, NEW p \in Peers, NEW round \in Round, Reply(p, round)
  PROVE  RecoveryInv'
<1> USE DEF Reply
<1>1. RecoveryTypeOK'
  BY DEF RecoveryInv, RecoveryTypeOK
<1>2. Equivocated' = Equivocated /\ \A r \in Round : AtStake(r)' = AtStake(r) /\ Silent(r)' = Silent(r)
  BY DEF Equivocated, AtStake, Silent
<1>3. asking /\ asking' /\ highest_round \in Round
  BY DEF RecoveryInv, RecoveryTypeOK
<1>4. ASSUME ~ interrupted, NEW r \in Round, AtStake(r) PROVE Guarded(r)'
  <2>1. Guarded(r)
    BY <1>4 DEF RecoveryInv
  <2>2. CASE last_proposed.round >= r
    BY <2>2 DEF Guarded
  <2>3. CASE highest_round >= r \/ round >= r
    <3>1. highest_round' >= r
      BY <1>3, <2>3, RoundIsNat
    <3> QED BY <1>3, <3>1 DEF Guarded
  <2>4. CASE ~ (highest_round >= r \/ round >= r) /\ \E Q : Untold(r, Q)
    <3>1. PICK Q : Untold(r, Q)
      BY <2>4
    <3>2. p \in Silent(r)
      <4>1. CASE p \in Faulty
        BY <4>1 DEF Silent
      <4>2. CASE p \notin Faulty
        BY <2>4, <4>2, RoundIsNat DEF Silent
      <4> QED BY <4>1, <4>2
    <3>3. Untold(r, Q)'
      BY <1>2, <3>1, <3>2 DEF Untold
    <3> QED BY <1>3, <3>3 DEF Guarded
  <2> QED BY <1>3, <2>1, <2>2, <2>3, <2>4 DEF Guarded
<1> QED BY <1>1, <1>2, <1>3, <1>4 DEF RecoveryInv

\* When the task ends, a peer has told of each round at stake.
LEMMA AnswersGatheredInv ==
  ASSUME RecoveryAssumption, RecoveryInv, AnswersGathered
  PROVE  RecoveryInv'
<1>1. asking /\ UNCHANGED <<stored, accepted, last_proposed, unknown, known, proposed, interrupted,
                            clock, crashes>>
  BY DEF AnswersGathered
<1>2. Equivocated' = Equivocated /\ \A r \in Round : AtStake(r)' = AtStake(r) /\ Silent(r)' = Silent(r)
  BY <1>1 DEF Equivocated, AtStake, Silent
<1>3. CASE reached_validity(replied)
  <2>1. last_known_proposed_round' = highest_round /\ asking' = FALSE /\ UNCHANGED <<replied, highest_round>>
    BY <1>3 DEF AnswersGathered
  <2>2. RecoveryTypeOK'
    BY Zenon, <1>1, <2>1 DEF RecoveryInv, RecoveryTypeOK
  <2>3. ASSUME ~ interrupted, NEW r \in Round, AtStake(r) PROVE Guarded(r)'
    <3>1. Guarded(r)
      BY <2>3 DEF RecoveryInv
    <3>2. \A Q : ~ Untold(r, Q)
      BY <1>3, SmallerSets DEF Untold
    <3> QED BY <1>1, <2>1, <3>1, <3>2 DEF Guarded
  <2> QED BY <1>1, <1>2, <2>1, <2>2, <2>3 DEF RecoveryInv
<1>4. CASE ~ reached_validity(replied)
  <2>1. replied' = {} /\ highest_round' = 0 /\ UNCHANGED <<last_known_proposed_round, asking>>
    BY <1>4 DEF AnswersGathered
  <2>2. RecoveryTypeOK'
    BY <1>1, <2>1, RoundIsNat DEF RecoveryInv, RecoveryTypeOK, Round
  <2>3. ASSUME NEW r \in Round, AtStake(r) PROVE Guarded(r)'
    <3>1. ~ reached_validity(Silent(r))'
      BY <1>1, <1>2, <2>3 DEF RecoveryInv
    <3>2. \E Q : Untold(r, Q)'
      BY <2>1, <3>1, FreshTask
    <3> QED BY <1>1, <2>1, <3>2 DEF Guarded
  <2> QED BY <1>1, <1>2, <2>1, <2>2, <2>3 DEF RecoveryInv
<1> QED BY <1>3, <1>4

\* Steps of Core and CommitFinalizer other than a proposal.
LEMMA CoreInv ==
  ASSUME RecoveryAssumption, RecoveryInv,
         \/ \E c \in 1..MaxRound : add_blocks(c)
         \/ \E b \in proposed : AcceptOwnBlock(b)
         \/ flush
  PROVE  RecoveryInv'
<1>1. /\ UNCHANGED <<last_known_proposed_round, asking, replied, highest_round, known, proposed,
                     unknown, interrupted>>
      /\ accepted => accepted'
      /\ accepted' \in BOOLEAN /\ clock' \in 1..MaxRound
      /\ last_proposed' \in Block /\ last_proposed'.round >= last_proposed.round
      /\ stored' = stored \/ stored' = [block |-> last_proposed, accepted |-> accepted]
  <2>0. RecoveryTypeOK /\ last_proposed.round \in Nat
    BY RoundIsNat DEF RecoveryInv, RecoveryTypeOK, Block
  <2>1. CASE \E c \in 1..MaxRound : add_blocks(c)
    BY <2>0, <2>1 DEF add_blocks, RecoveryTypeOK
  <2>2. CASE \E b \in proposed : AcceptOwnBlock(b)
    <3>1. PICK b \in proposed : AcceptOwnBlock(b)
      BY <2>2
    <3>2. b \in Block /\ b.round \in Nat
      BY <2>0, RoundIsNat DEF RecoveryTypeOK, Block
    <3> QED BY <2>0, <3>1, <3>2 DEF AcceptOwnBlock, RecoveryTypeOK
  <2>3. CASE flush
    BY <2>0, <2>3 DEF flush, RecoveryTypeOK
  <2> QED BY <2>1, <2>2, <2>3
<1>2. Equivocated' = Equivocated /\ \A r \in Round : AtStake(r)' = AtStake(r) /\ Silent(r)' = Silent(r)
  BY <1>1 DEF Equivocated, AtStake, Silent
<1>3. stored'.accepted => accepted'
  BY <1>1 DEF RecoveryInv
<1>4. ~ stored'.accepted => ~ stored.accepted
  BY <1>1 DEF RecoveryInv
<1>5. RecoveryTypeOK'
  <2>1. stored' \in [block : Block, accepted : BOOLEAN]
    BY <1>1 DEF RecoveryInv, RecoveryTypeOK
  <2> QED BY <1>1, <2>1 DEF RecoveryInv, RecoveryTypeOK
<1>6. ASSUME ~ interrupted, NEW r \in Round, AtStake(r) PROVE Guarded(r)'
  <2>1. Guarded(r)
    BY <1>6 DEF RecoveryInv
  <2>2. \A Q : Untold(r, Q) => Untold(r, Q)'
    BY <1>1, <1>2 DEF Untold
  <2>3. last_proposed.round >= r => last_proposed'.round >= r
    <3>1. last_proposed.round \in Nat /\ last_proposed'.round \in Nat /\ r \in Nat
      BY <1>1, RoundIsNat DEF RecoveryInv, RecoveryTypeOK, Block
    <3> QED BY <1>1, <3>1
  <2> QED BY <1>1, <2>1, <2>2, <2>3 DEF Guarded
<1>7. asking' \/ ~ stored'.accepted => asking \/ ~ stored.accepted
  BY <1>1, <1>4
<1> QED BY <1>1, <1>2, <1>3, <1>5, <1>6, <1>7 DEF RecoveryInv

\* No round at stake is proposed for again.
LEMMA ProposeInv ==
  ASSUME RecoveryAssumption, RecoveryInv, Propose
  PROVE  RecoveryInv'
<1>0. RecoveryTypeOK /\ clock \in Nat /\ last_proposed.round \in Nat /\ clock \in Round
  BY RoundIsNat DEF RecoveryInv, RecoveryTypeOK, Block, Round
<1>1. PICK c \in Content :
        /\ last_proposed' = [round |-> clock, content |-> c]
        /\ stored' = [block |-> [round |-> clock, content |-> c], accepted |-> TRUE]
        /\ proposed' = proposed \cup {[round |-> clock, content |-> c]}
  BY Zenon DEF Propose
<1>2. /\ should_propose /\ clock > last_proposed.round /\ accepted' = TRUE
      /\ UNCHANGED <<clock, last_known_proposed_round, asking, replied, highest_round, known,
                     crashes, unknown, interrupted>>
  BY DEF Propose
<1> DEFINE b == [round |-> clock, content |-> c]
<1>3. b \in Block /\ b.round = clock /\ last_proposed' = b /\ proposed' = proposed \cup {b}
  BY <1>0, <1>1 DEF Block
<1>4. asking = FALSE
  BY <1>0, <1>2 DEF RecoveryInv, should_propose, RecoveryTypeOK
<1>5. RecoveryTypeOK'
  <2>1. stored' \in [block : Block, accepted : BOOLEAN]
    BY <1>1, <1>3
  <2> HIDE DEF b
  <2> QED BY <1>0, <1>2, <1>3, <2>1 DEF RecoveryTypeOK
<1>6. stored'.accepted
  BY <1>1
<1> HIDE DEF b
<1>7. ~ interrupted => ~ AtStake(clock)
  <2> SUFFICES ASSUME ~ interrupted, AtStake(clock) PROVE FALSE
    OBVIOUS
  <2>1. Guarded(clock)
    BY <1>0 DEF RecoveryInv
  <2>2. ~ (last_proposed.round >= clock)
    BY <1>0, <1>2
  <2>3. last_known_proposed_round \in Nat /\ clock > last_known_proposed_round
    BY <1>0, <1>2, RoundIsNat DEF should_propose, RecoveryTypeOK
  <2> QED BY <1>0, <1>4, <2>1, <2>2, <2>3 DEF Guarded
<1>8. ~ interrupted => Equivocated' \subseteq unknown
  <2> SUFFICES ASSUME ~ interrupted, NEW x \in proposed', NEW y \in proposed',
                      x.round = y.round, x /= y
               PROVE  x.round \in unknown
    BY DEF Equivocated
  <2>1. Equivocated \subseteq unknown
    BY DEF RecoveryInv
  <2>2. CASE x \in proposed /\ y \in proposed
    BY <2>1, <2>2 DEF Equivocated
  <2>3. CASE x = b
    <3>1. y \in proposed /\ y.round = clock
      BY <1>3, <2>3
    <3> QED BY <1>3, <1>7, <2>3, <3>1 DEF AtStake
  <2>4. CASE y = b
    <3>1. x \in proposed /\ x.round = clock
      BY <1>3, <2>4
    <3> QED BY <1>7, <3>1 DEF AtStake
  <2> QED BY <1>3, <2>2, <2>3, <2>4
<1>9. ASSUME ~ interrupted, NEW r \in Round, AtStake(r)' PROVE Guarded(r)'
  <2>0. r \in Nat
    BY RoundIsNat
  <2>1. CASE r = clock
    BY <1>0, <1>3, <2>1 DEF Guarded
  <2>2. CASE r /= clock
    <3>1. AtStake(r)
      BY <1>2, <1>3, <1>9, <2>2 DEF AtStake
    <3>2. Guarded(r)
      BY <1>9, <3>1 DEF RecoveryInv
    <3>3. last_proposed.round >= r => last_proposed'.round >= r
      BY <1>0, <1>2, <1>3, <2>0
    <3> QED BY <1>2, <1>4, <3>2, <3>3 DEF Guarded
  <2> QED BY <2>1, <2>2
<1> QED BY <1>2, <1>4, <1>5, <1>6, <1>8, <1>9 DEF RecoveryInv

\* The more peers know of a block, the fewer are silent about it.
LEMMA DeliverInv ==
  ASSUME RecoveryAssumption, RecoveryInv, NEW p \in Peers, NEW b \in proposed, Deliver(p, b)
  PROVE  RecoveryInv'
<1>0. RecoveryTypeOK /\ b \in Block /\ b.round \in Round
  BY DEF RecoveryInv, RecoveryTypeOK, Block
<1>1. /\ UNCHANGED <<clock, accepted, last_proposed, stored, last_known_proposed_round, asking,
                     replied, highest_round, proposed, crashes, unknown, interrupted>>
      /\ known' = [known EXCEPT ![p] = b.round] /\ b.round > known[p]
  BY DEF Deliver
<1>2. Equivocated' = Equivocated /\ \A r \in Round : AtStake(r)' = AtStake(r)
  BY Zenon, <1>1 DEF Equivocated, AtStake
<1>3. ASSUME NEW r \in Round PROVE Silent(r)' \subseteq Silent(r)
  <2>1. \A q \in Peers : known[q] \in Nat /\ (known'[q] < r => known[q] < r)
    BY <1>0, <1>1, RoundIsNat DEF RecoveryTypeOK
  <2> QED BY <2>1 DEF Silent
<1>4. RecoveryTypeOK'
  BY <1>0, <1>1 DEF RecoveryTypeOK
<1>5. ASSUME ~ interrupted, NEW r \in Round, AtStake(r) PROVE Guarded(r)'
  <2>1. Guarded(r)
    BY <1>5 DEF RecoveryInv
  <2>2. \A Q : Untold(r, Q) => Untold(r, Q)'
    BY <1>1, <1>3 DEF Untold
  <2> QED BY <1>1, <2>1, <2>2 DEF Guarded
<1>6. ASSUME asking \/ ~ stored.accepted, NEW r \in Round, AtStake(r)
      PROVE  ~ reached_validity(Silent(r))'
  <2>1. ~ reached_validity(Silent(r))
    BY <1>6 DEF RecoveryInv
  <2>2. ~ reached_validity(Silent(r)')
    BY <1>3, <2>1, SmallerSets, SilentPeers
  <2> QED BY <2>2
<1> QED BY <1>1, <1>2, <1>4, <1>5, <1>6 DEF RecoveryInv

\* After a restart either the task runs, with few enough silent peers for each
\* round at stake, or no block was lost, or the restart is an interruption.
LEMMA CrashInv ==
  ASSUME RecoveryAssumption, RecoveryInv, NEW lost \in BOOLEAN, Crash(lost)
  PROVE  RecoveryInv'
<1>0. RecoveryTypeOK
  BY DEF RecoveryInv
<1> DEFINE s == IF lost THEN EmptyStorage ELSE stored
           forgotten == {r \in {b.round : b \in proposed} : reached_validity(Silent(r))}
<1>1. /\ stored' = s /\ Boot(s)
      /\ unknown' = IF ~ lost THEN unknown ELSE unknown \cup forgotten
      /\ interrupted' = (interrupted \/ (~ asking' /\ \E b \in proposed : b.round > s.block.round))
      /\ UNCHANGED <<known, proposed>>
  BY Zenon DEF Crash
<1>2. s \in [block : Block, accepted : BOOLEAN] /\ s.block.round \in Round
  BY <1>0, GenesisIsBlock DEF RecoveryTypeOK, EmptyStorage, Block
<1>3. lost => s.accepted = FALSE
  BY DEF EmptyStorage
<1>4. /\ last_proposed' = s.block /\ accepted' = s.accepted
      /\ asking' = ~ s.accepted
      /\ last_known_proposed_round' = IF ~ s.accepted THEN NotSynced ELSE 0
      /\ replied' = {} /\ highest_round' = 0
  BY <1>1 DEF Boot, sync_last_known_own_block
<1>5. ~ lost => s = stored
  OBVIOUS
<1> HIDE DEF s
<1>6. unknown \subseteq unknown' /\ unknown' \subseteq Round
  <2>1. forgotten \subseteq Round
    BY <1>0 DEF RecoveryTypeOK, Block
  <2> HIDE DEF forgotten
  <2> QED BY <1>0, <1>1, <2>1 DEF RecoveryTypeOK
<1>7. clock' \in 1..MaxRound
  <2>1. \E c \in 1..clock : clock' = c
    BY DEF Crash
  <2> QED BY <1>0, <2>1, RoundIsNat DEF RecoveryTypeOK
<1>8. asking' \in BOOLEAN /\ interrupted' \in BOOLEAN /\ accepted' \in BOOLEAN
  BY <1>0, <1>1, <1>2, <1>4 DEF RecoveryTypeOK
<1>9. RecoveryTypeOK'
  <2>1. last_known_proposed_round' \in Round \cup {NotSynced} /\ highest_round' \in Round
    BY <1>4, RoundIsNat DEF Round
  <2>2. last_proposed' \in Block /\ stored' \in [block : Block, accepted : BOOLEAN]
    BY <1>1, <1>2, <1>4
  <2> QED BY <1>0, <1>1, <1>4, <1>6, <1>7, <1>8, <2>1, <2>2 DEF RecoveryTypeOK
<1>10. Equivocated' = Equivocated /\ \A r \in Round : Silent(r)' = Silent(r)
  BY <1>1 DEF Equivocated, Silent
<1>11. ASSUME ~ s.accepted, NEW r \in Round, AtStake(r)' PROVE ~ reached_validity(Silent(r))
  <2>1. AtStake(r)
    BY <1>1, <1>6, <1>11 DEF AtStake
  <2>2. CASE lost
    <3>1. r \in {b.round : b \in proposed} /\ r \notin forgotten
      BY <1>1, <1>11, <2>1, <2>2 DEF AtStake
    <3> QED BY <3>1
  <2>3. CASE ~ lost
    BY <1>5, <1>11, <2>1, <2>3 DEF RecoveryInv
  <2> QED BY <2>2, <2>3
<1>12. ASSUME ~ interrupted', NEW r \in Round, AtStake(r)' PROVE Guarded(r)'
  <2>1. CASE s.accepted
    <3>1. PICK b \in proposed : b.round = r
      BY <1>1, <1>12 DEF AtStake
    <3>2. ~ (b.round > s.block.round)
      BY Zenon, <1>1, <1>4, <1>12, <2>1
    <3>3. last_proposed'.round >= r
      BY <1>2, <1>4, <3>1, <3>2, RoundIsNat
    <3> QED BY <3>3 DEF Guarded
  <2>2. CASE ~ s.accepted
    <3>1. ~ reached_validity(Silent(r))'
      BY <1>10, <1>11, <1>12, <2>2
    <3>2. \E Q : Untold(r, Q)'
      BY <1>4, <3>1, FreshTask
    <3> QED BY Zenon, <1>4, <2>2, <3>2 DEF Guarded
  <2> QED BY <2>1, <2>2
<1>13. Equivocated' \subseteq unknown' \/ interrupted'
  BY Zenon, <1>1, <1>6, <1>10 DEF RecoveryInv
<1>14. asking' => last_known_proposed_round' = NotSynced
  BY Zenon, <1>4
<1>15. stored'.accepted => accepted'
  BY <1>1, <1>4
<1>16. asking' \/ ~ stored'.accepted
         => \A r \in Round : AtStake(r)' => ~ reached_validity(Silent(r))'
  BY Zenon, <1>1, <1>4, <1>10, <1>11
<1> QED BY <1>9, <1>12, <1>13, <1>14, <1>15, <1>16 DEF RecoveryInv

-----------------------------------------------------------------------------
\* The invariant is inductive.
LEMMA RecoveryInvariance ==
  ASSUME RecoveryAssumption
  PROVE  RecoverySpec => []RecoveryInv
<1>1. RecoveryInv /\ [RecoveryNext]_recoveryVars => RecoveryInv'
  <2> SUFFICES ASSUME RecoveryInv, [RecoveryNext]_recoveryVars PROVE RecoveryInv'
    OBVIOUS
  <2>1. CASE \E p \in Peers, r \in Round : Reply(p, r)
    BY <2>1, ReplyInv
  <2>2. CASE AnswersGathered
    BY <2>2, AnswersGatheredInv
  <2>3. CASE \E c \in 1..MaxRound : add_blocks(c)
    BY <2>3, CoreInv
  <2>4. CASE \E b \in proposed : AcceptOwnBlock(b)
    BY <2>4, CoreInv
  <2>5. CASE flush
    BY <2>5, CoreInv
  <2>6. CASE Propose
    BY <2>6, ProposeInv
  <2>7. CASE \E p \in Peers, b \in proposed : Deliver(p, b)
    BY <2>7, DeliverInv
  <2>8. CASE \E lost \in BOOLEAN : Crash(lost)
    BY <2>8, CrashInv
  <2>9. CASE UNCHANGED recoveryVars
    <3>1. RecoveryTypeOK' /\ Equivocated' = Equivocated
      BY <2>9 DEF recoveryVars, RecoveryInv, RecoveryTypeOK, Equivocated
    <3>2. \A r \in Round : /\ AtStake(r)' = AtStake(r) /\ Silent(r)' = Silent(r)
                           /\ \A Q : Untold(r, Q)' = Untold(r, Q)
      BY <2>9 DEF recoveryVars, AtStake, Silent, Untold
    <3>3. \A r \in Round : Guarded(r) => Guarded(r)'
      BY <2>9, <3>2 DEF recoveryVars, Guarded
    <3> QED BY <2>9, <3>1, <3>2, <3>3 DEF recoveryVars, RecoveryInv
  <2> QED BY <2>1, <2>2, <2>3, <2>4, <2>5, <2>6, <2>7, <2>8, <2>9 DEF RecoveryNext
<1> QED BY <1>1, RecoveryInitInv, PTL DEF RecoverySpec

\* The variables keep their types: the round learned from the peers is a round
\* of the epoch, or none.
THEOREM RecoveryTyped ==
  ASSUME RecoveryAssumption
  PROVE  RecoverySpec => []RecoveryTypeOK
<1>1. RecoveryInv => RecoveryTypeOK
  BY DEF RecoveryInv
<1> QED BY <1>1, RecoveryInvariance, PTL

\* A round for which enough peers have our block is not proposed for again
\* after a crash or the loss of the storage, for any committee, any stakes and
\* any answers of faulty peers.
THEOREM KnownRoundsStay ==
  ASSUME RecoveryAssumption
  PROVE  RecoverySpec => []KnownRoundsAreNotReused
<1>1. RecoveryInv => KnownRoundsAreNotReused
  BY DEF RecoveryInv, KnownRoundsAreNotReused
<1> QED BY <1>1, RecoveryInvariance, PTL
=============================================================================
