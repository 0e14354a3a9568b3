---------------------------- MODULE VotingPower ----------------------------
(***************************************************************************)
(* sui-system/sources/voting_power.move, and the gas price derived from    *)
(* voting powers (validator_set.move derive_reference_gas_price).  Stakes, *)
(* powers and quotes are sequences in the order of active_validators.      *)
(***************************************************************************)
EXTENDS Integers, Sequences, FiniteSetsExt, SequencesExt

CONSTANTS TOTAL_VOTING_POWER, QUORUM_THRESHOLD, MAX_VOTING_POWER

ASSUME VotingPowerAssumption ==
    /\ TOTAL_VOTING_POWER \in Nat \ {0}
    /\ QUORUM_THRESHOLD \in 0..(TOTAL_VOTING_POWER - 1)
    /\ MAX_VOTING_POWER \in 1..TOTAL_VOTING_POWER

divide_and_round_up(a, b) == (a + b - 1) \div b

SumOf(s) == FoldLeft(LAMBDA x, y : x + y, 0, s)

derive_raw_voting_power(stake, total_stake) ==
    (stake * TOTAL_VOTING_POWER) \div total_stake

\* The lowest cap that can be met, MAX_VOTING_POWER if it can.
Threshold(n) ==
    Min({TOTAL_VOTING_POWER, Max({MAX_VOTING_POWER, divide_and_round_up(TOTAL_VOTING_POWER, n)})})

\* `insert` keeps the list in descending order of stake, the later validator
\* first among equals.
InfoList(stakes) ==
    SortSeq([i \in DOMAIN stakes |-> i],
        LAMBDA a, b : stakes[a] > stakes[b] \/ (stakes[a] = stakes[b] /\ a > b))

InitialPower(stakes, total_stake) ==
    [i \in DOMAIN stakes |->
        Min({derive_raw_voting_power(stakes[i], total_stake), Threshold(Len(stakes))})]

\* A variant that plans without the threshold.
Distribute_Uncapped(acc, k, order) ==
    LET i == order[k]
        planned == divide_and_round_up(acc.remaining_power, Len(order) - k + 1)
        actual == Min({acc.remaining_power, planned})
    IN  [power |-> [acc.power EXCEPT ![i] = @ + actual],
         remaining_power |-> acc.remaining_power - actual]

\* One round of adjust_voting_power: the k-th validator of the list, `i`, gets
\* an even share of what remains, up to the threshold.
Distribute(acc, k, order) ==
    LET i == order[k]
        planned == divide_and_round_up(acc.remaining_power, Len(order) - k + 1)
        target == Min({Threshold(Len(order)), acc.power[i] + planned})
        actual == Min({acc.remaining_power, target - acc.power[i]})
    IN  [power |-> [acc.power EXCEPT ![i] = @ + actual],
         remaining_power |-> acc.remaining_power - actual]

adjust_voting_power(stakes, total_stake) ==
    LET initial == InitialPower(stakes, total_stake)
        order == InfoList(stakes)
    IN  FoldLeftDomain(LAMBDA acc, k : Distribute(acc, k, order),
                       [power |-> initial,
                        remaining_power |-> TOTAL_VOTING_POWER - SumOf(initial)],
                       order)

set_voting_power(stakes, total_stake) == adjust_voting_power(stakes, total_stake).power

\* The assertions of adjust_voting_power and check_invariants.
check_invariants(stakes, total_stake) ==
    LET adjusted == adjust_voting_power(stakes, total_stake)
        power == adjusted.power
    IN  /\ adjusted.remaining_power = 0
        /\ SumOf(power) = TOTAL_VOTING_POWER
        /\ \A a \in DOMAIN stakes :
              /\ power[a] > 0
              /\ \A b \in DOMAIN stakes : stakes[a] > stakes[b] => power[a] >= power[b]

---------------------------------------------------------------------------

\* Quotes are popped from the highest down until more than a third of the
\* voting power has been seen; the last one popped is the price.
EnoughPower(sum) == sum >= TOTAL_VOTING_POWER - QUORUM_THRESHOLD

derive_reference_gas_price(quotes, power) ==
    LET pq == SortSeq([i \in DOMAIN quotes |-> i],
                 LAMBDA a, b : quotes[a] > quotes[b] \/ (quotes[a] = quotes[b] /\ a < b))
        Pop(acc, i) == IF EnoughPower(acc.sum) THEN acc
                       ELSE [sum |-> acc.sum + power[i], result |-> quotes[i]]
    IN  FoldLeft(Pop, [sum |-> 0, result |-> 0], pq).result
=============================================================================
