---------------------------- MODULE Synchronizer ----------------------------
(***************************************************************************)
(* synchronizer.rs: fetching missing blocks from peers, on demand and      *)
(* periodically, under per-block locks (InflightBlocksMap) that keep more  *)
(* than MaxAuthorities peers from being asked for a block at a time.       *)
(*                                                                         *)
(* A BlocksGuard holds the locks of the blocks it was made for and gives   *)
(* them back when it is dropped.  Every path a request can take has to end *)
(* in that, or its blocks can never be asked for again.                    *)
(***************************************************************************)
EXTENDS Integers, FiniteSets

CONSTANTS
    Peer,            \* the other authorities
    Good,            \* the peers that answer with what they are asked for
    Ref,             \* block references: numbers, in the order of BlockRef
    MaxAuthorities,  \* MAX_AUTHORITIES_TO_FETCH_PER_BLOCK
    Concurrency,     \* FETCH_BLOCKS_CONCURRENCY: size of a peer's channel, and of its requests
    MaxRetries,      \* MAX_RETRIES
    MaxBlocksPerSync,
    MaxCommands      \* bound on the number of explicit requests

ASSUME LimitsAssumption ==
    /\ {MaxAuthorities, Concurrency, MaxRetries, MaxBlocksPerSync} \subseteq Nat \ {0}
    /\ Ref \subseteq Nat

VARIABLES
    inflight,     \* inflight[r]: the peers that hold a lock on r
    guards,       \* the guards that are alive, with the place they are at
    missing,      \* Core's missing blocks
    fetched,      \* the blocks Core has accepted
    scheduler,    \* the periodic task: "off", "fetch" or "process"
    peers_left,   \* the peers it has not tried yet
    lagging,      \* is_commit_lagging
    commands

vars == <<inflight, guards, missing, fetched, scheduler, peers_left, lagging, commands>>

Guard == [peer : Peer, refs : (SUBSET Ref) \ {{}}, at : {"queue", "live", "periodic", "result"},
          retries : 0..(MaxRetries + 1)]

Init ==
    /\ inflight = [r \in Ref |-> {}]
    /\ guards = {}
    /\ missing = {} /\ fetched = {}
    /\ scheduler = "off" /\ peers_left = {}
    /\ lagging = FALSE
    /\ commands = 0

-----------------------------------------------------------------------------
(* InflightBlocksMap                                                       *)

\* Mutant of Lockable: one peer too many.
Lockable_OneMore(refs, p) ==
    {r \in refs : Cardinality(inflight[r]) <= MaxAuthorities /\ p \notin inflight[r]}

Lockable(refs, p) ==
    {r \in refs : Cardinality(inflight[r]) < MaxAuthorities /\ p \notin inflight[r]}

lock_blocks(locks, refs, p) ==
    [r \in Ref |-> IF r \in refs THEN locks[r] \cup {p} ELSE locks[r]]

unlock_blocks(locks, refs, p) ==
    [r \in Ref |-> IF r \in refs THEN locks[r] \ {p} ELSE locks[r]]

\* What lock_blocks returns: no guard if nothing could be locked.
GuardFor(p, refs, at) ==
    {g \in {[peer |-> p, refs |-> refs, at |-> at, retries |-> 1]} : refs /= {}}

\* A guard is dropped.
Drop(g) ==
    /\ guards' = guards \ {g}
    /\ inflight' = unlock_blocks(inflight, g.refs, g.peer)

Move(g, h) == guards' = (guards \ {g}) \cup {h} /\ UNCHANGED inflight

\* The lowest rounds first, "to ensure progress".
Take(refs) ==
    {r \in refs : Cardinality({q \in refs : q < r}) < MaxBlocksPerSync}

At(p, at) == {g \in guards : g.peer = p /\ g.at = at}

-----------------------------------------------------------------------------
(* Explicit requests: Command::FetchBlocks, fetch_blocks_from_authority    *)

\* The guard goes to the peer's channel, or is dropped if that is full.
FetchBlocks(p, refs) ==
    LET locked == Lockable(Take(refs), p)
    IN  /\ commands < MaxCommands
        /\ commands' = commands + 1
        /\ Cardinality(At(p, "queue")) < Concurrency
        /\ inflight' = lock_blocks(inflight, locked, p)
        /\ guards' = guards \cup GuardFor(p, locked, "queue")
        /\ UNCHANGED <<missing, fetched, scheduler, peers_left, lagging>>

StartRequest(g) ==
    /\ g.at = "queue"
    /\ Cardinality(At(g.peer, "live")) < Concurrency
    /\ Move(g, [g EXCEPT !.at = "live"])
    /\ UNCHANGED <<missing, fetched, scheduler, peers_left, lagging, commands>>

\* Mutant of RequestFails: it is repeated for ever.
RequestFails_Forever(g) ==
    /\ g.at = "live"
    /\ Move(g, [g EXCEPT !.retries = IF @ = 1 THEN 2 ELSE 1])
    /\ UNCHANGED <<missing, fetched, scheduler, peers_left, lagging, commands>>

\* The request fails or times out: it is repeated, at most MaxRetries times.
RequestFails(g) ==
    /\ g.at = "live"
    /\ IF g.retries + 1 <= MaxRetries
       THEN Move(g, [g EXCEPT !.retries = @ + 1])
       ELSE Drop(g)
    /\ UNCHANGED <<missing, fetched, scheduler, peers_left, lagging, commands>>

-----------------------------------------------------------------------------
(* process_fetched_blocks, for answers to both kinds of requests: blocks   *)
(* that verify go to Core, then the guard is dropped.  It is also dropped  *)
(* when the answer is empty or invalid.                                    *)

process_fetched_blocks(g, blocks) ==
    /\ g.at = "live" \/ (g.at = "result" /\ scheduler = "process")
    /\ missing' = missing \ blocks
    /\ fetched' = fetched \cup blocks
    /\ Drop(g)
    /\ UNCHANGED <<scheduler, peers_left, lagging, commands>>

-----------------------------------------------------------------------------
(* The periodic task: start_fetch_missing_blocks_task and                  *)
(* fetch_blocks_from_authorities                                           *)

\* Nothing is fetched while commit sync brings the blocks.
start_fetch_missing_blocks_task ==
    /\ scheduler = "off"
    /\ missing /= {}
    /\ ~ lagging

\* Each missing block is asked of one peer; a peer is asked for the first of
\* them, as far as they can be locked.
StartScheduler(peer_of) ==
    LET batch(p) == Lockable(Take({r \in missing : peer_of[r] = p}), p)
        asked == {p \in Peer : \E r \in missing : peer_of[r] = p}
    IN  /\ start_fetch_missing_blocks_task
        /\ scheduler' = "fetch"
        /\ peers_left' = Peer \ asked
        /\ guards' = guards \cup UNION {GuardFor(p, batch(p), "periodic") : p \in asked}
        /\ inflight' = [r \in Ref |-> inflight[r] \cup {p \in asked : r \in batch(p)}]
        /\ UNCHANGED <<missing, fetched, lagging, commands>>

PeriodicAnswer(g) ==
    /\ g.at = "periodic"
    /\ Move(g, [g EXCEPT !.at = "result"])
    /\ UNCHANGED <<missing, fetched, scheduler, peers_left, lagging, commands>>

\* swap_locks: another peer is asked, if there is one left and it can be locked.
PeriodicFails(g) ==
    /\ g.at = "periodic"
    /\ IF peers_left = {}
       THEN Drop(g) /\ UNCHANGED peers_left
       ELSE \E p \in peers_left :
                LET unlocked == unlock_blocks(inflight, g.refs, g.peer)
                    refs == {r \in g.refs : /\ Cardinality(unlocked[r]) < MaxAuthorities
                                            /\ p \notin unlocked[r]}
                IN  /\ peers_left' = peers_left \ {p}
                    /\ inflight' = lock_blocks(unlocked, refs, p)
                    /\ guards' = (guards \ {g}) \cup GuardFor(p, refs, "periodic")
    /\ UNCHANGED <<missing, fetched, scheduler, lagging, commands>>

\* Mutant of GatherEnds: the locks of the requests that are given up stay.
GatherEnds_Leak ==
    /\ scheduler = "fetch"
    /\ scheduler' = "process"
    /\ guards' = {g \in guards : g.at /= "periodic"}
    /\ UNCHANGED <<inflight, missing, fetched, peers_left, lagging, commands>>

\* All requests have been answered, or fetcher_timeout is over and the ones
\* that are not are dropped with their guards.
GatherEnds ==
    LET dropped == {g \in guards : g.at = "periodic"}
    IN  /\ scheduler = "fetch"
        /\ scheduler' = "process"
        /\ guards' = guards \ dropped
        /\ inflight' = [r \in Ref |-> inflight[r] \ {g.peer : g \in {h \in dropped : r \in h.refs}}]
        /\ UNCHANGED <<missing, fetched, peers_left, lagging, commands>>

SchedulerEnds ==
    /\ scheduler = "process"
    /\ \A g \in guards : g.at /= "result"
    /\ scheduler' = "off"
    /\ UNCHANGED <<inflight, guards, missing, fetched, peers_left, lagging, commands>>

-----------------------------------------------------------------------------
(* The environment                                                         *)

\* A block arrives some of whose ancestors are not there.
NewMissing(r) ==
    /\ r \notin missing \cup fetched
    /\ missing' = missing \cup {r}
    /\ UNCHANGED <<inflight, guards, fetched, scheduler, peers_left, lagging, commands>>

LagChanges ==
    /\ lagging' = ~ lagging
    /\ UNCHANGED <<inflight, guards, missing, fetched, scheduler, peers_left, commands>>

-----------------------------------------------------------------------------
\* What an answer can bring: a good peer has the blocks.
Answers(g) == IF g.peer \in Good THEN {g.refs} ELSE SUBSET g.refs

ProcessAnswer(g) == \E blocks \in Answers(g) : process_fetched_blocks(g, blocks)

Next ==
    \/ \E p \in Peer : \E refs \in (SUBSET missing) \ {{}} : FetchBlocks(p, refs)
    \/ \E g \in guards : \/ StartRequest(g) \/ RequestFails(g) \/ ProcessAnswer(g)
                         \/ PeriodicAnswer(g) \/ PeriodicFails(g)
    \/ \E peer_of \in [missing -> Peer] : StartScheduler(peer_of)
    \/ GatherEnds
    \/ SchedulerEnds
    \/ \E r \in Ref : NewMissing(r)
    \/ LagChanges

Spec == Init /\ [][Next]_vars

\* Requests end: they are answered, or time out.  The periodic task shuffles the
\* peers and the blocks' authors, so that each block is asked of each peer again
\* and again, and a good peer does not time out every time.
Fairness ==
    /\ \A p \in Peer :
          /\ WF_vars(\E g \in At(p, "queue") : StartRequest(g))
          /\ WF_vars(\E g \in At(p, "live") : RequestFails(g) \/ ProcessAnswer(g))
          /\ WF_vars(\E g \in At(p, "result") : ProcessAnswer(g))
    /\ WF_vars(GatherEnds)
    /\ WF_vars(SchedulerEnds)
    /\ \A r \in Ref, p \in Good :
          /\ SF_vars(\E f \in [missing -> Peer] :
                        r \in missing /\ f[r] = p /\ StartScheduler(f))
          /\ SF_vars(\E g \in At(p, "periodic") : r \in g.refs /\ PeriodicAnswer(g))

FairSpec == Spec /\ Fairness

-----------------------------------------------------------------------------
(* Properties                                                              *)

TypeOK ==
    /\ inflight \in [Ref -> SUBSET Peer]
    /\ guards \subseteq Guard
    /\ missing \subseteq Ref /\ fetched \subseteq Ref
    /\ scheduler \in {"off", "fetch", "process"}
    /\ peers_left \subseteq Peer
    /\ lagging \in BOOLEAN

\* The locks are exactly the ones living guards hold, each held once: whatever
\* way a request ends, its locks are given back, the strict unlocking of
\* unlock_blocks does not panic, and none is left behind.
LocksAreGuards ==
    /\ \A r \in Ref : inflight[r] = {g.peer : g \in {h \in guards : r \in h.refs}}
    /\ \A g, h \in guards : g.peer = h.peer /\ g /= h => g.refs \cap h.refs = {}

\* A block is never asked of more than MaxAuthorities peers at a time, by
\* explicit and periodic requests together and when locks are swapped.
FewAuthoritiesPerBlock == \A r \in Ref : Cardinality(inflight[r]) <= MaxAuthorities

\* Every missing block arrives as long as the node does not lag so far behind
\* that fetching is left to the commit syncer: neither locks held by peers that
\* do not answer, nor full channels, nor the limit of blocks per request keep a
\* block from being fetched for ever.
MissingBlocksArrive == \A r \in Ref : []<>(r \notin missing \/ lagging)
=============================================================================
