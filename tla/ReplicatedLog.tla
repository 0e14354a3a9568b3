--------------------------- MODULE ReplicatedLog ----------------------------
(***************************************************************************)
(* What the commit loop promises its authority and the others: there is    *)
(* one log, each replica holds a prefix of it and learns it one commit at  *)
(* a time.  A replica that crashes goes back to the prefix it stored, and  *)
(* learns the same commits again.                                          *)
(***************************************************************************)
EXTENDS Naturals, Sequences

CONSTANTS Node, Commit

VARIABLES
    agreed,    \* the log: fixed, though nobody knows all of it
    replica,   \* the prefix each replica has learned
    durable    \* the prefix each replica has stored

Init ==
    /\ agreed \in Seq(Commit)
    /\ replica = [n \in Node |-> <<>>]
    /\ durable = [n \in Node |-> <<>>]

Learn(n) ==
    /\ Len(replica[n]) < Len(agreed)
    /\ replica' = [replica EXCEPT ![n] = SubSeq(agreed, 1, Len(@) + 1)]
    /\ UNCHANGED <<agreed, durable>>

Store(n) ==
    /\ durable' = [durable EXCEPT ![n] = replica[n]]
    /\ UNCHANGED <<agreed, replica>>

Crash(n) ==
    /\ replica' = [replica EXCEPT ![n] = durable[n]]
    /\ UNCHANGED <<agreed, durable>>

Next == \E n \in Node : Learn(n) \/ Store(n) \/ Crash(n)

Spec == Init /\ [][Next]_<<agreed, replica, durable>>

=============================================================================
