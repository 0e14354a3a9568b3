------------------------------ MODULE Committee ------------------------------
(***************************************************************************)
(* The consensus committee, consensus/config/src/committee.rs, and the set *)
(* view of StakeAggregator<QuorumThreshold>, stake_aggregator.rs.          *)
(*                                                                         *)
(* An aggregator is the set of authorities that voted: `add` counts an     *)
(* authority once however often it votes.  Whether its stake reaches the   *)
(* threshold is a property of that set.                                    *)
(***************************************************************************)
EXTENDS Integers, FiniteSetsExt

CONSTANTS
    Authority,   \* the authority indexes
    Stake        \* Stake[a]: the voting power of authority a

StakeOf(S) == MapThenSumSet(LAMBDA a : Stake[a], S)

total_stake == StakeOf(Authority)

quorum_threshold == (2 * total_stake) \div 3 + 1

validity_threshold == (total_stake + 2) \div 3

reached_quorum(S) == StakeOf(S) >= quorum_threshold

reached_validity(S) == StakeOf(S) >= validity_threshold

\* The vote sets with which an aggregator has reached its quorum.
Quorums == {S \in SUBSET Authority : reached_quorum(S)}

\* The BFT assumption: authorities that follow the protocol hold all but less
\* than validity_threshold of the stake.
ByzantineIsMinority(Honest) == ~ reached_validity(Authority \ Honest)
=============================================================================
