---------------------------- MODULE ValidatorSet ----------------------------
(***************************************************************************)
(* sui-system/sources/validator_set.move and validator.move: who is in the *)
(* committee, who joins, leaves or is sent away at an epoch change, who is *)
(* reported, and how the rewards of an epoch are divided.                  *)
(*                                                                         *)
(* A validator is its address.  Its staking pool is three amounts (module  *)
(* StakingPool has the pool itself): the stake that counts now, the stake  *)
(* that waits for the next epoch and the withdrawals that do.              *)
(***************************************************************************)
EXTENDS VotingPower, FiniteSets, Functions

CONSTANTS
    Validator,
    BASIS_POINT_DENOMINATOR,    \* 10000
    DAILY_REWARD_RATE,          \* 100: 1% of the stake per epoch
    VALIDATOR_BONUS_RATE,       \* 50: 0.5%
    PHASE_LENGTH,               \* epochs per phase of SIP-39
    reward_slashing_rate, low_stake_grace_period,
    min_validator_count, max_validator_count,
    Amount,                     \* amounts staked or withdrawn in one request
    Rates,                      \* commission rates and gas prices asked for
    MaxReports,                 \* bound: reports on record at one time
    MaxRequests,                \* bound: stake and rate requests between epoch changes
    None

ASSUME SetAssumption ==
    /\ BASIS_POINT_DENOMINATOR \in Nat \ {0}
    /\ {DAILY_REWARD_RATE, reward_slashing_rate} \subseteq 0..BASIS_POINT_DENOMINATOR
    /\ PHASE_LENGTH \in Nat \ {0} /\ low_stake_grace_period \in Nat
    /\ Amount \subseteq Nat \ {0} /\ Rates \subseteq 1..BASIS_POINT_DENOMINATOR

VARIABLES
    epoch,
    admission_start,    \* VotingPowerAdmissionStartEpochKey, None until set
    active_validators, pending_active_validators,   \* sequences of addresses
    pending_removals,   \* a sequence of indices into active_validators
    validator_candidates,
    at_risk_validators, validator_report_records,
    pool,               \* [stake, pending_stake, pending_withdraw] per validator
    inactive_stake,     \* what the pools of departed validators hold
    config,             \* gas price and commission, now and for the next epoch
    voting_power, total_stake,
    requests,           \* stake and rate requests since the last epoch change
    asked,              \* history: who asked to be removed
    left,               \* the ValidatorLeaveEvents of the last epoch change
    wallet              \* SUI held by users, relative to the start

membership == <<active_validators, pending_active_validators, pending_removals,
                validator_candidates>>
setVars == <<epoch, admission_start, membership, at_risk_validators,
             validator_report_records, pool, inactive_stake, config, voting_power,
             total_stake, requests, asked, left, wallet>>

EmptyPool == [stake |-> 0, pending_stake |-> 0, pending_withdraw |-> 0]

Config == [gas_price : Rates \cup {1}, next_epoch_gas_price : Rates \cup {1},
           commission_rate : Rates \cup {0}, next_epoch_commission_rate : Rates \cup {0}]

DefaultConfig == [gas_price |-> 1, next_epoch_gas_price |-> 1,
                  commission_rate |-> 0, next_epoch_commission_rate |-> 0]

IsActive(v) == Contains(active_validators, v)
IsPending(v) == Contains(pending_active_validators, v)
IndexOf(v) == SelectInSeq(active_validators, LAMBDA w : w = v)

PowersFor(active, stakes, total) ==
    LET power == set_voting_power([i \in DOMAIN active |-> stakes[active[i]]], total)
    IN  [v \in Validator |-> IF Contains(active, v)
                             THEN power[SelectInSeq(active, LAMBDA w : w = v)] ELSE 0]

\* `new` at genesis, with `stakes` for the validators of the sequence `active`
\* and candidates that have gathered `stakes` since.
SetInit(active, candidates, stakes) ==
    /\ epoch = 0 /\ admission_start = None
    /\ active_validators = active /\ pending_active_validators = <<>>
    /\ pending_removals = <<>> /\ validator_candidates = candidates
    /\ at_risk_validators = <<>> /\ validator_report_records = <<>>
    /\ pool = [v \in Validator |-> [EmptyPool EXCEPT !.stake = stakes[v]]]
    /\ inactive_stake = 0
    /\ config = [v \in Validator |-> DefaultConfig]
    /\ total_stake = MapThenSumSet(LAMBDA v : stakes[v], ToSet(active))
    /\ voting_power = PowersFor(active, stakes, total_stake)
    /\ requests = 0 /\ asked = {} /\ left = {} /\ wallet = 0

---------------------------------------------------------------------------
\* Membership requests.

request_add_validator_candidate(v) ==
    /\ ~ IsActive(v) /\ ~ IsPending(v) /\ v \notin validator_candidates
    /\ validator_candidates' = validator_candidates \cup {v}
    /\ pool' = [pool EXCEPT ![v] = EmptyPool]
    /\ config' = [config EXCEPT ![v] = DefaultConfig]
    /\ UNCHANGED <<epoch, admission_start, active_validators, pending_active_validators,
                   pending_removals, at_risk_validators, validator_report_records,
                   inactive_stake, voting_power, total_stake, requests, asked, left, wallet>>

request_remove_validator_candidate(v) ==
    /\ v \in validator_candidates
    /\ validator_candidates' = validator_candidates \ {v}
    /\ inactive_stake' = inactive_stake + pool[v].stake
    /\ pool' = [pool EXCEPT ![v] = EmptyPool]
    /\ UNCHANGED <<epoch, admission_start, active_validators, pending_active_validators,
                   pending_removals, at_risk_validators, validator_report_records,
                   config, voting_power, total_stake, requests, asked, left, wallet>>

next_epoch_validator_count ==
    Len(active_validators) - Len(pending_removals) + Len(pending_active_validators)

\* The thresholds of SIP-39 for joining, for staying and for being sent away.
get_voting_power_thresholds(start) ==
    LET start_epoch == IF start = None THEN epoch + 1 ELSE start
    IN  IF epoch < start_epoch + PHASE_LENGTH THEN [join |-> 12, low |-> 8, very_low |-> 4]
        ELSE IF epoch < start_epoch + 2 * PHASE_LENGTH
        THEN [join |-> 6, low |-> 4, very_low |-> 2]
        ELSE [join |-> 3, low |-> 2, very_low |-> 1]

can_join(stake) ==
    derive_raw_voting_power(stake, total_stake + stake)
        >= get_voting_power_thresholds(admission_start).join

request_add_validator(v) ==
    /\ next_epoch_validator_count < max_validator_count
    /\ v \in validator_candidates
    /\ can_join(pool[v].stake)
    /\ validator_candidates' = validator_candidates \ {v}
    /\ pending_active_validators' = Append(pending_active_validators, v)
    /\ UNCHANGED <<epoch, admission_start, active_validators, pending_removals,
                   at_risk_validators, validator_report_records, pool, inactive_stake,
                   config, voting_power, total_stake, requests, asked, left, wallet>>

CanAskToLeave(v) == IsActive(v) /\ ~ Contains(pending_removals, IndexOf(v))

request_remove_validator(v) ==
    /\ Len(active_validators) >= min_validator_count
          => next_epoch_validator_count > min_validator_count
    /\ CanAskToLeave(v)
    /\ pending_removals' = Append(pending_removals, IndexOf(v))
    /\ asked' = asked \cup {v}
    /\ UNCHANGED <<epoch, admission_start, active_validators, pending_active_validators,
                   validator_candidates, at_risk_validators, validator_report_records, pool,
                   inactive_stake, config, voting_power, total_stake, requests, left,
                   wallet>>

---------------------------------------------------------------------------
\* Staking requests.  A pending validator can be neither staked with nor
\* withdrawn from (get_candidate_or_active_validator_mut).  A candidate's pool
\* is preactive and settles at once.

request_add_stake(v, amount) ==
    /\ requests < MaxRequests
    /\ IsActive(v) \/ v \in validator_candidates
    /\ pool' = IF v \in validator_candidates
               THEN [pool EXCEPT ![v].stake = @ + amount]
               ELSE [pool EXCEPT ![v].pending_stake = @ + amount]
    /\ wallet' = wallet - amount
    /\ requests' = requests + 1
    /\ UNCHANGED <<epoch, admission_start, membership, at_risk_validators,
                   validator_report_records, inactive_stake, config, voting_power,
                   total_stake, asked, left>>

request_withdraw_stake(v, amount) ==
    /\ requests < MaxRequests
    /\ IsActive(v) \/ v \in validator_candidates
    /\ amount <= pool[v].stake - pool[v].pending_withdraw
    /\ pool' = IF v \in validator_candidates
               THEN [pool EXCEPT ![v].stake = @ - amount]
               ELSE [pool EXCEPT ![v].pending_withdraw = @ + amount]
    /\ wallet' = wallet + amount
    /\ requests' = requests + 1
    /\ UNCHANGED <<epoch, admission_start, membership, at_risk_validators,
                   validator_report_records, inactive_stake, config, voting_power,
                   total_stake, asked, left>>

WithdrawFromInactive(amount) ==
    /\ requests < MaxRequests
    /\ amount <= inactive_stake
    /\ inactive_stake' = inactive_stake - amount
    /\ wallet' = wallet + amount
    /\ requests' = requests + 1
    /\ UNCHANGED <<epoch, admission_start, membership, at_risk_validators,
                   validator_report_records, pool, config, voting_power, total_stake,
                   asked, left>>

\* Stake that has not become active yet is taken back directly.
WithdrawPending(v, amount) ==
    /\ requests < MaxRequests
    /\ IsActive(v)
    /\ amount <= pool[v].pending_stake
    /\ pool' = [pool EXCEPT ![v].pending_stake = @ - amount]
    /\ wallet' = wallet + amount
    /\ requests' = requests + 1
    /\ UNCHANGED <<epoch, admission_start, membership, at_risk_validators,
                   validator_report_records, inactive_stake, config, voting_power,
                   total_stake, asked, left>>

---------------------------------------------------------------------------
\* Reports.

Records == validator_report_records

NumReports == MapThenSumSet(LAMBDA v : Cardinality(Records[v]), DOMAIN Records)

ReportersOf(v) == IF v \in DOMAIN Records THEN Records[v] ELSE {}

WithReporters(records, v, reporters) ==
    IF reporters = {} THEN Restrict(records, DOMAIN records \ {v})
    ELSE (v :> reporters) @@ records

report_validator(reporter, reportee) ==
    /\ NumReports < MaxReports
    /\ IsActive(reporter) /\ IsActive(reportee) /\ reporter # reportee
    /\ validator_report_records' =
          WithReporters(Records, reportee, ReportersOf(reportee) \cup {reporter})
    /\ UNCHANGED <<epoch, admission_start, membership, at_risk_validators, pool,
                   inactive_stake, config, voting_power, total_stake, requests, asked,
                   left, wallet>>

undo_report_validator(reporter, reportee) ==
    /\ IsActive(reporter)
    /\ reporter \in ReportersOf(reportee)
    /\ validator_report_records' =
          WithReporters(Records, reportee, ReportersOf(reportee) \ {reporter})
    /\ UNCHANGED <<epoch, admission_start, membership, at_risk_validators, pool,
                   inactive_stake, config, voting_power, total_stake, requests, asked,
                   left, wallet>>

---------------------------------------------------------------------------
\* Gas price quotes and commission rates.

\* A variant that changes the price of the running epoch.
request_set_gas_price_AtOnce(v, price) ==
    /\ requests < MaxRequests
    /\ IsActive(v) \/ IsPending(v)
    /\ config' = [config EXCEPT ![v].next_epoch_gas_price = price, ![v].gas_price = price]
    /\ requests' = requests + 1
    /\ UNCHANGED <<epoch, admission_start, membership, at_risk_validators,
                   validator_report_records, pool, inactive_stake, voting_power,
                   total_stake, asked, left, wallet>>

request_set_gas_price(v, price) ==
    /\ requests < MaxRequests
    /\ IsActive(v) \/ IsPending(v)
    /\ config' = [config EXCEPT ![v].next_epoch_gas_price = price]
    /\ requests' = requests + 1
    /\ UNCHANGED <<epoch, admission_start, membership, at_risk_validators,
                   validator_report_records, pool, inactive_stake, voting_power,
                   total_stake, asked, left, wallet>>

request_set_commission_rate(v, rate) ==
    /\ requests < MaxRequests
    /\ IsActive(v)
    /\ config' = [config EXCEPT ![v].next_epoch_commission_rate = rate]
    /\ requests' = requests + 1
    /\ UNCHANGED <<epoch, admission_start, membership, at_risk_validators,
                   validator_report_records, pool, inactive_stake, voting_power,
                   total_stake, asked, left, wallet>>

set_candidate_validator_gas_price(v, price) ==
    /\ requests < MaxRequests
    /\ v \in validator_candidates \/ IsPending(v)
    /\ config' = [config EXCEPT ![v].next_epoch_gas_price = price, ![v].gas_price = price]
    /\ requests' = requests + 1
    /\ UNCHANGED <<epoch, admission_start, membership, at_risk_validators,
                   validator_report_records, pool, inactive_stake, voting_power,
                   total_stake, asked, left, wallet>>

\* Unlike the gas price, the rate for the next epoch stays what it was.
set_candidate_validator_commission_rate(v, rate) ==
    /\ requests < MaxRequests
    /\ v \in validator_candidates \/ IsPending(v)
    /\ config' = [config EXCEPT ![v].commission_rate = rate]
    /\ requests' = requests + 1
    /\ UNCHANGED <<epoch, admission_start, membership, at_risk_validators,
                   validator_report_records, pool, inactive_stake, voting_power,
                   total_stake, asked, left, wallet>>

adjust_stake_and_gas_price(c) ==
    [c EXCEPT !.gas_price = c.next_epoch_gas_price,
              !.commission_rate = c.next_epoch_commission_rate]

---------------------------------------------------------------------------
\* The division of an epoch's rewards.  Everything below is evaluated in the
\* state before the epoch change.

mul_div(a, b, c) == (a * b) \div c

PowerOf(S) == MapThenSumSet(LAMBDA v : voting_power[v], S)

\* compute_unadjusted_reward_distribution
UnadjustedStaking(v) == mul_div(pool[v].stake, DAILY_REWARD_RATE, BASIS_POINT_DENOMINATOR)

UnadjustedStorage(storage_fund_reward) == storage_fund_reward \div Len(active_validators)

compute_slashed_validators == {v \in DOMAIN Records : PowerOf(Records[v]) >= QUORUM_THRESHOLD}

\* compute_reward_adjustments
Slashing(reward) == mul_div(reward, reward_slashing_rate, BASIS_POINT_DENOMINATOR)

\* A variant that gives each of the others all of what was slashed.
AdjustedStaking_Whole(v, slashed) ==
    IF v \in slashed
    THEN UnadjustedStaking(v) - Slashing(UnadjustedStaking(v))
    ELSE UnadjustedStaking(v)
            + MapThenSumSet(LAMBDA w : Slashing(UnadjustedStaking(w)), slashed)

\* compute_adjusted_reward_distribution, for the set of slashed validators
AdjustedStaking(v, slashed) ==
    IF v \in slashed
    THEN UnadjustedStaking(v) - Slashing(UnadjustedStaking(v))
    ELSE UnadjustedStaking(v)
            + mul_div(MapThenSumSet(LAMBDA w : Slashing(UnadjustedStaking(w)), slashed),
                      voting_power[v],
                      TOTAL_VOTING_POWER - PowerOf(slashed))

AdjustedStorage(v, reward, slashed) ==
    LET share == UnadjustedStorage(reward)
        num_unslashed == Len(active_validators) - Cardinality(slashed)
    IN  IF v \in slashed THEN share - Slashing(share)
        ELSE share + (Cardinality(slashed) * Slashing(share)) \div num_unslashed

\* distribute_reward: commission and bonus come out of the pool's reward, the
\* bonus only if what is left covers it; the storage fund's share is on top.
StakerReward(v, reward) ==
    LET after_commission ==
            reward - mul_div(reward, config[v].commission_rate, BASIS_POINT_DENOMINATOR)
        bonus == mul_div(pool[v].stake, VALIDATOR_BONUS_RATE, BASIS_POINT_DENOMINATOR)
    IN  IF after_commission >= bonus THEN after_commission - bonus ELSE after_commission

ValidatorReward(v, reward, storage_reward) ==
    reward - StakerReward(v, reward) + storage_reward

\* Both parts of every active validator's reward.
Adjusted(storage_fund_reward) ==
    LET slashed == compute_slashed_validators
    IN  [v \in ToSet(active_validators) |->
            [staking |-> AdjustedStaking(v, slashed),
             storage |-> AdjustedStorage(v, storage_fund_reward, slashed)]] @@ <<>>

TotalStaking(adjusted) == MapThenSumSet(LAMBDA v : adjusted[v].staking, DOMAIN adjusted)

TotalStorage(adjusted) == MapThenSumSet(LAMBDA v : adjusted[v].storage, DOMAIN adjusted)

\* The assertions and subtractions up to distribute_reward that can abort.
DistributionAborts(adjusted, computation_reward, storage_fund_reward) ==
    \/ active_validators = <<>>
    \/ ~ (DOMAIN Records \cup UNION Range(Records) \subseteq ToSet(active_validators))
    \/ TotalStaking(adjusted) > computation_reward
    \/ TotalStorage(adjusted) > storage_fund_reward

---------------------------------------------------------------------------
\* advance_epoch.  `s` is the set while it is being changed, with the total stake
\* and whether an index was out of bounds.

\* The stake of an active validator once rewards and pending requests are in.
SettledStake(v, reward) ==
    pool[v].stake + StakerReward(v, reward.staking)
        + ValidatorReward(v, reward.staking, reward.storage)
        + pool[v].pending_stake - pool[v].pending_withdraw

\* A variant that leaves the reports the validator made.
clean_report_records_leaving_validator_About(records, v) ==
    Restrict(records, DOMAIN records \ {v})

clean_report_records_leaving_validator(records, v) ==
    LET about_others == Restrict(records, DOMAIN records \ {v})
        kept == {w \in DOMAIN about_others : about_others[w] # {v}}
    IN  [w \in kept |-> about_others[w] \ {v}]

process_validator_departure(s, v, is_voluntary) ==
    [s EXCEPT !.active = SelectSeq(@, LAMBDA w : w # v),
              !.at_risk = Restrict(@, DOMAIN @ \ {v}),
              !.records = clean_report_records_leaving_validator(@, v),
              !.left = @ \cup {<<v, is_voluntary>>}]

\* A variant that takes the requests in the order they came.
RemovalOrder_AsAsked == pending_removals

\* From the highest index down, so that the ones still to come stay valid.
RemovalOrder == SortSeq(pending_removals, LAMBDA i, j : i > j)

process_pending_removals(s) ==
    FoldLeft(LAMBDA acc, i :
                IF i \in DOMAIN acc.active
                THEN process_validator_departure(acc, acc.active[i], TRUE)
                ELSE [acc EXCEPT !.aborted = TRUE],
             s, RemovalOrder)

\* One validator's turn in update_validator_positions: safe, on probation
\* (until the grace period is over) or out.
UpdatePosition(s, v, stake, power, thresholds) ==
    LET period == IF v \in DOMAIN s.at_risk THEN s.at_risk[v] + 1 ELSE 1
    IN  IF power >= thresholds.low
        THEN [s EXCEPT !.at_risk = Restrict(@, DOMAIN @ \ {v})]
        ELSE IF power >= thresholds.very_low /\ period <= low_stake_grace_period
        THEN [s EXCEPT !.at_risk = (v :> period) @@ @]
        ELSE [process_validator_departure(s, v, FALSE) EXCEPT !.total = @ - stake]

\* A pending validator becomes active if it still has enough voting power and
\* goes back to the candidates otherwise.
Admit(s, v, stake, power, thresholds) ==
    IF power >= thresholds.join THEN [s EXCEPT !.active = Append(@, v)]
    ELSE [s EXCEPT !.candidates = @ \cup {v}, !.total = @ - stake]

\* Shares are of the total that counts pending validators in and nobody out.
update_validator_positions_and_calculate_total_stake(s, stakes) ==
    LET thresholds == get_voting_power_thresholds(IF admission_start = None THEN epoch
                                                  ELSE admission_start)
        initial_total_stake == MapThenSumSet(LAMBDA v : stakes[v],
                                   ToSet(s.active) \cup ToSet(pending_active_validators))
        Power(v) == derive_raw_voting_power(stakes[v], initial_total_stake)
        kept == FoldLeft(LAMBDA acc, v : UpdatePosition(acc, v, stakes[v], Power(v), thresholds),
                         [s EXCEPT !.total = initial_total_stake], Reverse(s.active))
    IN  FoldLeft(LAMBDA acc, v : Admit(acc, v, stakes[v], Power(v), thresholds),
                 kept, Reverse(pending_active_validators))

StakesAfter(adjusted) ==
    [v \in Validator |-> IF IsActive(v) THEN SettledStake(v, adjusted[v])
                         ELSE pool[v].stake] @@ <<>>

\* The whole of advance_epoch up to the new committee.
NextSet(stakes) ==
    update_validator_positions_and_calculate_total_stake(
        process_pending_removals(
            [active |-> active_validators, at_risk |-> at_risk_validators,
             records |-> Records, candidates |-> validator_candidates,
             left |-> {}, total |-> 0, aborted |-> FALSE]),
        stakes)

\* The stake the voting powers are shares of; a division by it aborts if it is 0.
RemainingStake(stakes) ==
    MapThenSumSet(LAMBDA v : stakes[v],
        {v \in ToSet(active_validators) : ~ Contains(pending_removals, IndexOf(v))}
            \cup ToSet(pending_active_validators))

\* The assertions of process_pending_removals and set_voting_power.
CommitteeAborts(s, stakes) ==
    \/ s.aborted
    \/ s.active = <<>>
    \/ ~ check_invariants([i \in DOMAIN s.active |-> stakes[s.active[i]]], s.total)

\* What advance_epoch leaves behind; `s` is the new set.
advance_set(s, stakes, adjusted) ==
    /\ epoch' = epoch + 1
    /\ admission_start' = IF admission_start = None THEN epoch ELSE admission_start
    /\ active_validators' = s.active
    /\ pending_active_validators' = <<>> /\ pending_removals' = <<>>
    /\ validator_candidates' = s.candidates
    /\ at_risk_validators' = s.at_risk /\ validator_report_records' = s.records
    /\ LET gone == {v \in Validator : \E b \in BOOLEAN : <<v, b>> \in s.left}
       IN  /\ pool' = [v \in Validator |->
                          IF v \in gone THEN EmptyPool ELSE [EmptyPool EXCEPT !.stake = stakes[v]]]
           /\ inactive_stake' = inactive_stake + MapThenSumSet(LAMBDA v : stakes[v], gone)
           /\ config' = [v \in Validator |->
                            IF v \in gone THEN DefaultConfig
                            ELSE IF IsActive(v) THEN adjust_stake_and_gas_price(config[v])
                            ELSE config[v]]
    /\ total_stake' = s.total
    /\ voting_power' = PowersFor(s.active, stakes, s.total)
    /\ left' = s.left
    /\ requests' = 0 /\ asked' = {}
=============================================================================
