----------------------------- MODULE SuiSystem -----------------------------
(***************************************************************************)
(* sui-system/sources/sui_system_state_inner.move: the epoch change, with  *)
(* the storage fund, the stake subsidy and the gas collected, and safe     *)
(* mode, in which an epoch change whose transaction aborts leaves the      *)
(* validators as they are and keeps the gas for the next one.              *)
(***************************************************************************)
EXTENDS ValidatorSet

CONSTANTS
    Active, Candidates, Stakes,     \* genesis: a sequence, a set, a function
    GasSummary,                     \* [computation, storage, rebate, fee] per epoch
    FullEpoch,                      \* whether an epoch may have lasted its whole duration
    storage_fund_reinvest_rate,
    Subsidy,                        \* [balance, current_distribution_amount]
    stake_subsidy_start_epoch, stake_subsidy_period_length, stake_subsidy_decrease_rate,
    CatchUpCounter, FirstSafeModeEpoch,     \* 540 and 560
    RequestsAbout,                  \* bound: the addresses with requests other than
                                    \* to join and to leave
    MaxEpoch,                       \* bound: epoch changes, those in safe mode not counted
    LastEpoch,                      \* bound: epochs
    RequestEpochs                   \* bound: epochs in which requests are made

VARIABLES
    safe_mode,
    safe_mode_gas,      \* the gas of the epochs that ended in safe mode
    stake_subsidy,      \* [balance, distribution_counter, current_distribution_amount]
    storage_fund,       \* [total_object_storage_rebates, non_refundable_balance]
    reference_gas_price,
    outstanding,        \* storage deposits on live objects
    epochs              \* epoch changes that were not in safe mode

vars == <<setVars, safe_mode, safe_mode_gas, stake_subsidy, storage_fund,
          reference_gas_price, outstanding, epochs>>

NoGas == [computation |-> 0, storage |-> 0, rebate |-> 0, fee |-> 0]

Init ==
    /\ SetInit(Active, Candidates, Stakes)
    /\ safe_mode = FALSE /\ safe_mode_gas = NoGas
    /\ stake_subsidy = [balance |-> Subsidy.balance, distribution_counter |-> 0,
                        current_distribution_amount |-> Subsidy.current_distribution_amount]
    /\ storage_fund = [total_object_storage_rebates |-> 0, non_refundable_balance |-> 0]
    /\ reference_gas_price = DefaultConfig.gas_price
    /\ outstanding = 0 /\ epochs = 0

systemVars == <<safe_mode, safe_mode_gas, stake_subsidy, storage_fund,
                reference_gas_price, outstanding, epochs>>

---------------------------------------------------------------------------

Joined(a, b) == [f \in DOMAIN NoGas |-> a[f] + b[f]]

\* stake_subsidy.move advance_epoch
DrawSubsidy(s) ==
    LET to_withdraw == Min({s.current_distribution_amount, s.balance})
        counter == s.distribution_counter + 1
    IN  [balance |-> s.balance - to_withdraw,
         distribution_counter |-> counter,
         current_distribution_amount |->
            IF counter % stake_subsidy_period_length = 0
            THEN s.current_distribution_amount
                    - mul_div(s.current_distribution_amount, stake_subsidy_decrease_rate,
                              BASIS_POINT_DENOMINATOR)
            ELSE s.current_distribution_amount]

\* The draws of an epoch that lasted long enough: the current one, and once
\* the ones missed in safe mode.
Draws ==
    IF epoch < stake_subsidy_start_epoch THEN 0
    ELSE IF stake_subsidy.distribution_counter = CatchUpCounter /\ epoch > FirstSafeModeEpoch
    THEN epoch - FirstSafeModeEpoch + 1
    ELSE 1

SubsidyAfter(full_epoch) ==
    FoldLeft(LAMBDA s, n : DrawSubsidy(s), stake_subsidy,
             [n \in 1..(IF full_epoch THEN Draws ELSE 0) |-> n])

total_balance == storage_fund.total_object_storage_rebates + storage_fund.non_refundable_balance

\* The amounts advance_epoch works with, for the gas of the epoch and the draw.
Rewards(gas, full_epoch) ==
    LET all == Joined(gas, safe_mode_gas)
        subsidy == SubsidyAfter(full_epoch)
        fund_share == mul_div(total_balance, all.computation, total_balance + total_stake)
        reinvested == mul_div(fund_share, storage_fund_reinvest_rate, BASIS_POINT_DENOMINATOR)
    IN  [gas |-> all,
         subsidy |-> subsidy,
         computation |-> all.computation + (stake_subsidy.balance - subsidy.balance) - fund_share,
         storage_fund |-> fund_share - reinvested,
         reinvested |-> reinvested]

\* A variant that does not hand on what the division of rewards left over.
FundAfter_NoLeftover(r, leftover) ==
    [total_object_storage_rebates |->
        storage_fund.total_object_storage_rebates + r.gas.storage - r.gas.fee - r.gas.rebate,
     non_refundable_balance |-> storage_fund.non_refundable_balance + r.reinvested + r.gas.fee]

\* storage_fund.move advance_epoch
FundAfter(r, leftover) ==
    [total_object_storage_rebates |->
        storage_fund.total_object_storage_rebates + r.gas.storage - r.gas.fee - r.gas.rebate,
     non_refundable_balance |->
        storage_fund.non_refundable_balance + r.reinvested + leftover + r.gas.fee]

\* The fund's two splits.
FundAborts(r) ==
    storage_fund.total_object_storage_rebates + r.gas.storage < r.gas.fee + r.gas.rebate

\* What an epoch change would do: the rewards, the stakes and set that follow
\* from them, and whether the transaction aborts on the way.
Outcome(gas, full_epoch) ==
    LET r == Rewards(gas, full_epoch)
        adjusted == Adjusted(r.storage_fund)
        stakes == StakesAfter(adjusted)
        set == NextSet(stakes)
    IN  IF DistributionAborts(adjusted, r.computation, r.storage_fund)
             \/ RemainingStake(stakes) = 0 \/ CommitteeAborts(set, stakes) \/ FundAborts(r)
        THEN [aborted |-> TRUE, rewards |-> r]
        ELSE [aborted |-> FALSE, rewards |-> r, adjusted |-> adjusted,
              stakes |-> stakes, set |-> set,
              leftover |-> r.computation - TotalStaking(adjusted)
                              + r.storage_fund - TotalStorage(adjusted)]

\* What the epoch's transactions did: they paid for gas and storage, and the
\* rebates of the objects they deleted are back with their senders.
Transacted(gas) ==
    /\ gas.rebate + gas.fee <= outstanding + gas.storage
    /\ outstanding' = outstanding + gas.storage - gas.rebate - gas.fee
    /\ wallet' = wallet - gas.computation - gas.storage + gas.rebate

\* The rebate is burnt at the end of the transaction: its SUI is what the
\* senders were given.
advance_epoch(o) ==
    /\ ~ o.aborted
    /\ advance_set(o.set, o.stakes, o.adjusted)
    /\ reference_gas_price' =
          derive_reference_gas_price(
              [i \in DOMAIN o.set.active |-> config'[o.set.active[i]].gas_price],
              [i \in DOMAIN o.set.active |-> voting_power'[o.set.active[i]]])
    /\ stake_subsidy' = o.rewards.subsidy
    /\ storage_fund' = FundAfter(o.rewards, o.leftover)
    /\ safe_mode' = FALSE /\ safe_mode_gas' = NoGas
    /\ epochs' = epochs + 1

\* A variant that does not keep the gas of the epoch.
SafeModeGas_Dropped(gas) == safe_mode_gas

SafeModeGas(gas) == Joined(safe_mode_gas, gas)

\* The transaction aborted: its writes are dropped and only this is done.
advance_epoch_safe_mode(o, gas) ==
    /\ o.aborted
    /\ epoch' = epoch + 1
    /\ safe_mode' = TRUE
    /\ safe_mode_gas' = SafeModeGas(gas)
    /\ requests' = 0
    /\ UNCHANGED <<admission_start, membership, at_risk_validators, validator_report_records,
                   pool, inactive_stake, config, voting_power, total_stake, asked, left,
                   stake_subsidy, storage_fund, reference_gas_price, epochs>>

EndOfEpoch ==
    \E gas \in GasSummary, full_epoch \in FullEpoch :
        /\ Transacted(gas)
        /\ LET o == Outcome(gas, full_epoch)
           IN  advance_epoch(o) \/ advance_epoch_safe_mode(o, gas)

\* What others ask for about one address, and its holder apart from joining and
\* leaving.
RequestAbout(v) ==
    \/ request_add_validator_candidate(v)
    \/ request_remove_validator_candidate(v)
    \/ \E w \in Validator : report_validator(w, v) \/ undo_report_validator(w, v)
    \/ \E amount \in Amount :
          \/ request_add_stake(v, amount)
          \/ request_withdraw_stake(v, amount)
          \/ WithdrawPending(v, amount)
    \/ \E rate \in Rates :
          \/ request_set_gas_price(v, rate)
          \/ request_set_commission_rate(v, rate)
          \/ set_candidate_validator_gas_price(v, rate)
          \/ set_candidate_validator_commission_rate(v, rate)

Request ==
    \/ \E v \in Validator : request_add_validator(v) \/ request_remove_validator(v)
    \/ \E v \in RequestsAbout : RequestAbout(v)
    \/ \E amount \in Amount : WithdrawFromInactive(amount)

Next ==
    /\ epochs < MaxEpoch /\ epoch < LastEpoch
    /\ \/ epoch < RequestEpochs /\ Request /\ UNCHANGED systemVars
       \/ EndOfEpoch

Spec == Init /\ [][Next]_vars

\* An epoch ends sooner or later, whatever else happens in it.  EndOfEpoch can
\* always happen and nothing else changes the epoch.
FairSpec == Spec /\ WF_epoch(epochs < MaxEpoch /\ epoch < LastEpoch /\ epoch' = epoch + 1)

---------------------------------------------------------------------------

InSet == ToSet(active_validators) \cup ToSet(pending_active_validators) \cup validator_candidates

\* TypeOK: every address is in one place, removals are distinct indices of the
\* active list, and the amounts the pools and the fund hold are not negative.
TypeOK ==
    /\ IsInjective(active_validators \o pending_active_validators)
    /\ (ToSet(active_validators) \cup ToSet(pending_active_validators))
          \cap validator_candidates = {}
    /\ IsInjective(pending_removals) /\ ToSet(pending_removals) \subseteq DOMAIN active_validators
    /\ pool \in [Validator -> [stake : Nat, pending_stake : Nat, pending_withdraw : Nat]]
    /\ \A v \in Validator : pool[v].pending_withdraw <= pool[v].stake
    /\ config \in [Validator -> Config]
    /\ \A v \in Validator : voting_power[v] > 0 <=> IsActive(v)
    /\ {inactive_stake, total_stake, stake_subsidy.balance, outstanding} \subseteq Nat
    /\ storage_fund \in [total_object_storage_rebates : Nat, non_refundable_balance : Nat]

\* SetIsConsistent: although validators join, leave and come back, nobody is in
\* two of the set's collections (TypeOK), whoever is on probation, is reported or
\* has reported someone is an active validator (process_validator_departure), and
\* the committee never grows past max_validator_count, which is checked long
\* before those who wait join.
SetIsConsistent ==
    /\ TypeOK
    /\ DOMAIN at_risk_validators \cup DOMAIN Records \cup UNION Range(Records)
          \subseteq ToSet(active_validators)
    /\ Len(active_validators) <= max_validator_count

\* PowersAreFair: throughout an epoch exactly TOTAL_VOTING_POWER is handed out,
\* nobody is above the cap, everybody has at least their capped share of the
\* stake the committee was formed with, and more stake never means less power.
PowersAreFair ==
    LET committee == ToSet(active_validators)
        cap == Threshold(Len(active_validators))
    IN  /\ PowerOf(committee) = TOTAL_VOTING_POWER
        /\ \A v \in committee :
              /\ voting_power[v] <= cap
              /\ voting_power[v] >= Min({cap, derive_raw_voting_power(pool[v].stake, total_stake)})
              /\ \A w \in committee :
                    pool[v].stake > pool[w].stake => voting_power[v] >= voting_power[w]

Held(v) == pool[v].stake + pool[v].pending_stake - pool[v].pending_withdraw

InSystem ==
    MapThenSumSet(Held, InSet) + inactive_stake + stake_subsidy.balance
        + storage_fund.total_object_storage_rebates + storage_fund.non_refundable_balance
        + safe_mode_gas.computation + safe_mode_gas.storage - safe_mode_gas.rebate

\* BooksAreExact: no epoch change, in safe mode or out of it, creates or loses
\* SUI: what the system holds and what users hold add up to what there was at
\* genesis.  The refundable part of the storage fund is what is owed for live
\* objects, once the gas kept in safe mode is counted in, and the total the
\* voting powers and the fund's share are based on, kept by subtracting
\* departures and refusals, is the stake of the committee.
BooksAreExact ==
    /\ InSystem + wallet =
          Subsidy.balance
              + MapThenSumSet(LAMBDA v : Stakes[v], ToSet(Active) \cup Candidates)
    /\ storage_fund.total_object_storage_rebates
          + safe_mode_gas.storage - safe_mode_gas.rebate - safe_mode_gas.fee = outstanding
    /\ total_stake = MapThenSumSet(LAMBDA v : pool[v].stake, ToSet(active_validators))

\* AbortsOnlyForLackOfReward: an epoch change can only abort because the
\* rewards do not cover the percentage of the stake, or because nobody with any
\* stake would remain; not because of a report, a departure, slashing or the
\* storage fund.
AbortsOnlyForLackOfReward ==
    \A gas \in GasSummary, full_epoch \in FullEpoch :
        LET o == Outcome(gas, full_epoch)
        IN  /\ gas.rebate + gas.fee <= outstanding + gas.storage
            /\ o.aborted
            => \/ MapThenSumSet(UnadjustedStaking, ToSet(active_validators)) > o.rewards.computation
               \/ RemainingStake(StakesAfter(Adjusted(o.rewards.storage_fund))) = 0

Quoted(P(_)) ==
    MapThenSumSet(LAMBDA v : voting_power[v],
                  {v \in ToSet(active_validators) : P(config[v].gas_price)})

\* PriceIsOfTheCommittee: throughout an epoch the reference gas price is the
\* quorum quote of the committee in force: more than a quorum of its voting
\* power asks for that price or less and at most a quorum for less, whatever
\* quotes come in for later epochs, whoever joins, leaves or fails to, and
\* also in safe mode, where neither is renewed.
PriceIsOfTheCommittee ==
    /\ Quoted(LAMBDA price : price <= reference_gas_price) > QUORUM_THRESHOLD
    /\ Quoted(LAMBDA price : price < reference_gas_price) <= QUORUM_THRESHOLD

\* LeaversAsked: at an epoch change those who leave of their own accord are
\* exactly those who asked to, though the requests are kept as indices into a
\* list that shrinks as they are processed.
LeaversAsked ==
    [][epochs' # epochs => {v \in Validator : <<v, TRUE>> \in left'} = asked]_vars

\* SafeModeEnds: the gas kept in safe mode adds up until it pays for an epoch
\* change.
SafeModeEnds == safe_mode ~> ~ safe_mode

=============================================================================
