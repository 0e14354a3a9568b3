---------------------------- MODULE StakingPool ----------------------------
(***************************************************************************)
(* The staking pool of one validator (sui-system/sources/staking_pool.move *)
(* and its caller validator.move): stake requests, withdrawals, fungible   *)
(* staked SUI and what an epoch change does to the pool.                   *)
(*                                                                         *)
(* Amounts are integers and divisions round down, as mul_div! does.  The   *)
(* StakedSui objects of one activation epoch may be split and joined at    *)
(* will (`split`, `join_staked_sui`), so they are one amount per epoch,    *)
(* staked[e], of which an operation takes any part.  FungibleStakedSui     *)
(* objects are likewise one amount, which is always total_supply.          *)
(***************************************************************************)
EXTENDS Integers, FiniteSets, FiniteSetsExt

CONSTANTS
    Amount,       \* amounts a stake request may bring
    Reward,       \* staker rewards an epoch change may deposit
    Bonus,        \* validator rewards an epoch change may stake for the validator
    MaxEpoch,     \* bound on the epoch number
    MaxStaked,    \* bound on the SUI held for stakers
    MaxSafeModes, \* bound on epoch changes that fail for a reason outside the pool
    None          \* the absent epoch of an Option<u64>

ASSUME PoolAssumption ==
    /\ Amount \subseteq Nat \ {0} /\ Reward \subseteq Nat /\ Bonus \subseteq Nat
    /\ MaxEpoch \in Nat /\ MaxStaked \in Nat /\ MaxSafeModes \in Nat
    /\ None \notin Nat

VARIABLES
    epoch,            \* ctx.epoch()
    pool,             \* the fields of StakingPool that hold amounts and epochs
    exchange_rates,   \* epoch |-> PoolTokenExchangeRate
    fungible,         \* FungibleStakedSuiData: total_supply and principal
    staked,           \* principal of the StakedSui objects, per activation epoch
    next_epoch_stake, \* the validator's running total
    safe_modes        \* how many epoch changes were skipped

vars == <<epoch, pool, exchange_rates, fungible, staked, next_epoch_stake, safe_modes>>

Epoch == 0..MaxEpoch

mul_div(a, b, c) == (a * b) \div c

initial_exchange_rate == [sui_amount |-> 0, pool_token_amount |-> 0]

HasNoStake(rate) == rate.sui_amount = 0 \/ rate.pool_token_amount = 0

get_sui_amount(rate, token_amount) ==
    IF HasNoStake(rate) THEN token_amount
    ELSE mul_div(rate.sui_amount, token_amount, rate.pool_token_amount)

\* A variant that rounds up.
get_token_amount_RoundsUp(rate, sui_amount) ==
    IF HasNoStake(rate) THEN sui_amount
    ELSE (rate.pool_token_amount * sui_amount + rate.sui_amount - 1) \div rate.sui_amount

get_token_amount(rate, sui_amount) ==
    IF HasNoStake(rate) THEN sui_amount
    ELSE mul_div(rate.pool_token_amount, sui_amount, rate.sui_amount)

is_preactive == pool.activation_epoch = None
is_inactive == pool.deactivation_epoch # None

\* The rate of the last recorded epoch, up to the deactivation of the pool.
\* Epochs that ended in safe mode have no entry.
pool_token_exchange_rate_at_epoch(e) ==
    LET last == IF is_inactive THEN Min({e, pool.deactivation_epoch}) ELSE e
        recorded == {r \in DOMAIN exchange_rates :
                        pool.activation_epoch <= r /\ r <= last}
    IN  IF is_preactive \/ pool.activation_epoch > e \/ recorded = {}
        THEN initial_exchange_rate
        ELSE exchange_rates[Max(recorded)]

---------------------------------------------------------------------------
(* What the functions on the pool do to its fields. *)

WithPendingStake(p, amount) == [p EXCEPT !.pending_stake = @ + amount]

WithdrawIsPaidFor(p) ==
    /\ p.pending_total_sui_withdraw <= p.sui_balance
    /\ p.pending_pool_token_withdraw <= p.pool_token_balance

\* A variant that does not empty the pending pool tokens.
process_pending_stake_withdraw_Kept(p) ==
    [p EXCEPT !.sui_balance = @ - p.pending_total_sui_withdraw,
              !.pool_token_balance = @ - p.pending_pool_token_withdraw,
              !.pending_total_sui_withdraw = 0]

\* Aborts on underflow: WithdrawIsPaidFor is its precondition.
process_pending_stake_withdraw(p) ==
    [p EXCEPT !.sui_balance = @ - p.pending_total_sui_withdraw,
              !.pool_token_balance = @ - p.pending_pool_token_withdraw,
              !.pending_total_sui_withdraw = 0,
              !.pending_pool_token_withdraw = 0]

RateOf(p) == [sui_amount |-> p.sui_balance, pool_token_amount |-> p.pool_token_balance]

process_pending_stake(p) ==
    LET balance == p.sui_balance + p.pending_stake
    IN  [p EXCEPT !.sui_balance = balance,
                  !.pool_token_balance = get_token_amount(RateOf(p), balance),
                  !.pending_stake = 0]

deposit_rewards(p, reward) ==
    [p EXCEPT !.sui_balance = @ + reward, !.rewards_pool = @ + reward]

check_balance_invariants(p) ==
    get_token_amount(RateOf(p), p.sui_balance) = p.pool_token_balance

---------------------------------------------------------------------------

\* A new validator candidate's pool, or that of a genesis validator once
\* request_add_stake_at_genesis has staked with it and it has been activated.
NewPool(genesis_stake) ==
    [activation_epoch |-> None, deactivation_epoch |-> None,
     sui_balance |-> genesis_stake, rewards_pool |-> 0,
     pool_token_balance |-> genesis_stake, pending_stake |-> 0,
     pending_total_sui_withdraw |-> 0, pending_pool_token_withdraw |-> 0]

Init ==
    /\ epoch = 0 /\ safe_modes = 0
    /\ fungible = [total_supply |-> 0, principal |-> 0]
    /\ \/ /\ pool = NewPool(0) /\ exchange_rates = <<>>
          /\ staked = [e \in Epoch |-> 0] /\ next_epoch_stake = 0
       \/ \E a \in Amount :
             /\ pool = [NewPool(a) EXCEPT !.activation_epoch = 0]
             /\ exchange_rates = [e \in {0} |-> initial_exchange_rate]
             /\ staked = [e \in Epoch |-> IF e = 0 THEN a ELSE 0]
             /\ next_epoch_stake = a

\* What stakers' objects and the pool really hold.
Custody ==
    MapThenSumSet(LAMBDA e : staked[e], Epoch) + fungible.principal + pool.rewards_pool

request_add_stake(amount) ==
    /\ ~ is_inactive
    /\ epoch < MaxEpoch /\ Custody + amount <= MaxStaked
    /\ LET p == WithPendingStake(pool, amount)
       IN  pool' = IF is_preactive THEN process_pending_stake(p) ELSE p
    /\ staked' = [staked EXCEPT ![epoch + 1] = @ + amount]
    /\ next_epoch_stake' = next_epoch_stake + amount
    /\ UNCHANGED <<epoch, exchange_rates, fungible, safe_modes>>

\* A stake that has not started yet leaves the way it came.
IsDirect(e) == e > epoch /\ ~ is_preactive

withdraw_rewards(principal, tokens) ==
    LET total == get_sui_amount(pool_token_exchange_rate_at_epoch(epoch), tokens)
    IN  Min({Max({total - principal, 0}), pool.rewards_pool})

\* A variant that records only the principal.
WithdrawActive_Principal(e, amount) ==
    LET tokens == get_token_amount(pool_token_exchange_rate_at_epoch(e), amount)
        reward == withdraw_rewards(amount, tokens)
    IN  [pool EXCEPT !.rewards_pool = @ - reward,
                     !.pending_total_sui_withdraw = @ + amount,
                     !.pending_pool_token_withdraw = @ + tokens]

WithdrawActive(e, amount) ==
    LET tokens == get_token_amount(pool_token_exchange_rate_at_epoch(e), amount)
        reward == withdraw_rewards(amount, tokens)
    IN  [pool EXCEPT !.rewards_pool = @ - reward,
                     !.pending_total_sui_withdraw = @ + amount + reward,
                     !.pending_pool_token_withdraw = @ + tokens]

SettlesNow == is_inactive \/ is_preactive

\* The pool after the withdrawal, and the rewards it paid.
Withdrawn(e, amount) ==
    IF IsDirect(e) THEN [pool EXCEPT !.pending_stake = @ - amount]
    ELSE LET p == WithdrawActive(e, amount)
         IN  IF SettlesNow THEN process_pending_stake_withdraw(p) ELSE p

PaidRewards(e, amount) == pool.rewards_pool - Withdrawn(e, amount).rewards_pool

\* No subtraction underflows in the pool or in the validator's total.
CanWithdraw(e, amount) ==
    /\ IsDirect(e) => amount <= pool.pending_stake
    /\ ~ IsDirect(e) /\ SettlesNow => WithdrawIsPaidFor(WithdrawActive(e, amount))
    /\ amount + PaidRewards(e, amount) <= next_epoch_stake

\* Withdraw `amount` of the stake activated at epoch e, with its rewards.
request_withdraw_stake(e, amount) ==
    /\ CanWithdraw(e, amount)
    /\ pool' = Withdrawn(e, amount)
    /\ next_epoch_stake' = next_epoch_stake - amount - PaidRewards(e, amount)
    /\ staked' = [staked EXCEPT ![e] = @ - amount]
    /\ UNCHANGED <<epoch, exchange_rates, fungible, safe_modes>>

convert_to_fungible_staked_sui(e, amount) ==
    /\ epoch >= e /\ ~ is_preactive /\ ~ is_inactive
    /\ LET tokens == get_token_amount(pool_token_exchange_rate_at_epoch(e), amount)
       IN  fungible' = [total_supply |-> fungible.total_supply + tokens,
                        principal |-> fungible.principal + amount]
    /\ staked' = [staked EXCEPT ![e] = @ - amount]
    /\ UNCHANGED <<epoch, pool, exchange_rates, next_epoch_stake, safe_modes>>

\* What `value` fungible tokens are worth: a share of the principal put in by
\* conversions and a share of the rewards.
calculate_fungible_staked_sui_withdraw_amount(value) ==
    LET rate == pool_token_exchange_rate_at_epoch(epoch)
        total == get_sui_amount(rate, fungible.total_supply)
        principal == Min({fungible.principal, total})
    IN  [principal |-> mul_div(value, principal, fungible.total_supply),
         rewards |-> mul_div(value, total - principal, fungible.total_supply)]

\* The assertion "just in case" of that function.
IsWithinExpectation(out, value) ==
    out.principal + out.rewards
        <= get_sui_amount(pool_token_exchange_rate_at_epoch(epoch), value)

redeem_fungible_staked_sui(value) ==
    /\ LET out == calculate_fungible_staked_sui_withdraw_amount(value)
           paid == out.principal + out.rewards
       IN  /\ IsWithinExpectation(out, value)
           /\ out.rewards <= pool.rewards_pool
           /\ fungible' = [total_supply |-> fungible.total_supply - value,
                           principal |-> fungible.principal - out.principal]
           /\ pool' = [pool EXCEPT !.rewards_pool = @ - out.rewards,
                                   !.pending_total_sui_withdraw = @ + paid,
                                   !.pending_pool_token_withdraw = @ + value]
           /\ paid <= next_epoch_stake
           /\ next_epoch_stake' = next_epoch_stake - paid
    /\ UNCHANGED <<epoch, exchange_rates, staked, safe_modes>>

---------------------------------------------------------------------------
(* Epoch changes. *)

\* distribute_reward stakes the validator's part and deposits the stakers'.
Rewarded(reward, bonus) == deposit_rewards(WithPendingStake(pool, bonus), reward)

process_pending_stakes_and_withdraws(p) ==
    process_pending_stake(process_pending_stake_withdraw(p))

\* Whether validator_set::advance_epoch would get through the pool.
SettlesAtEpochChange(p) ==
    /\ WithdrawIsPaidFor(p)
    /\ check_balance_invariants(process_pending_stakes_and_withdraws(p))
    /\ epoch + 1 \notin DOMAIN exchange_rates

\* The epoch change of an active validator's pool.  A validator that leaves
\* the committee has its pool deactivated from the new epoch on.
AdvanceActive(reward, bonus, leaves) ==
    /\ ~ is_preactive /\ ~ is_inactive
    /\ Custody + reward + bonus <= MaxStaked
    /\ LET rewarded == Rewarded(reward, bonus)
           p == process_pending_stakes_and_withdraws(rewarded)
       IN  /\ SettlesAtEpochChange(rewarded)
           /\ pool' = [p EXCEPT !.deactivation_epoch = IF leaves THEN epoch + 1 ELSE None]
           /\ exchange_rates' = [e \in DOMAIN exchange_rates \cup {epoch + 1} |->
                                    IF e = epoch + 1 THEN RateOf(p) ELSE exchange_rates[e]]
    /\ staked' = [staked EXCEPT ![epoch + 1] = @ + bonus]
    /\ next_epoch_stake' = next_epoch_stake + bonus + reward
    /\ UNCHANGED <<fungible, safe_modes>>

\* A pending validator joins: activate_staking_pool(ctx.epoch()).
AdvanceJoining ==
    /\ is_preactive /\ ~ is_inactive
    /\ pool' = [pool EXCEPT !.activation_epoch = epoch]
    /\ exchange_rates' = [e \in {epoch} |-> initial_exchange_rate]
    /\ UNCHANGED <<fungible, staked, next_epoch_stake, safe_modes>>

\* The pool of a candidate or of a former validator is left alone.
AdvanceIdle ==
    /\ is_preactive \/ is_inactive
    /\ UNCHANGED <<pool, exchange_rates, fungible, staked, next_epoch_stake, safe_modes>>

\* advance_epoch aborted, so only the epoch number moves.  The abort comes
\* from this pool or, MaxSafeModes times, from another part of the system.
SafeMode ==
    /\ \/ /\ safe_modes < MaxSafeModes
          /\ safe_modes' = safe_modes + 1
       \/ /\ ~ is_preactive /\ ~ is_inactive
          /\ \E reward \in Reward, bonus \in Bonus :
                ~ SettlesAtEpochChange(Rewarded(reward, bonus))
          /\ UNCHANGED safe_modes
    /\ UNCHANGED <<pool, exchange_rates, fungible, staked, next_epoch_stake>>

EpochChange ==
    /\ epoch < MaxEpoch
    /\ epoch' = epoch + 1
    /\ \/ \E reward \in Reward, bonus \in Bonus, leaves \in BOOLEAN :
             AdvanceActive(reward, bonus, leaves)
       \/ AdvanceJoining
       \/ AdvanceIdle
       \/ SafeMode

\* A candidate gives up (request_remove_validator_candidate).
DeactivateCandidate ==
    /\ is_preactive /\ ~ is_inactive
    /\ pool' = [pool EXCEPT !.deactivation_epoch = epoch]
    /\ UNCHANGED <<epoch, exchange_rates, fungible, staked, next_epoch_stake, safe_modes>>

Next ==
    \/ \E amount \in Amount : request_add_stake(amount)
    \/ \E e \in Epoch : \E amount \in 1..staked[e] : request_withdraw_stake(e, amount)
    \/ \E e \in Epoch : \E amount \in 1..staked[e] : convert_to_fungible_staked_sui(e, amount)
    \/ \E value \in 1..fungible.total_supply : redeem_fungible_staked_sui(value)
    \/ EpochChange
    \/ DeactivateCandidate

Spec == Init /\ [][Next]_vars

---------------------------------------------------------------------------

\* TypeOK: every amount stays a natural number, so no subtraction of the pool
\* underflows, and a rate is recorded only for epochs the pool has seen.
TypeOK ==
    /\ epoch \in Epoch /\ safe_modes \in 0..MaxSafeModes
    /\ pool \in [activation_epoch : Epoch \cup {None}, deactivation_epoch : Epoch \cup {None},
                 sui_balance : Nat, rewards_pool : Nat, pool_token_balance : Nat,
                 pending_stake : Nat, pending_total_sui_withdraw : Nat,
                 pending_pool_token_withdraw : Nat]
    /\ DOMAIN exchange_rates \subseteq 0..epoch
    /\ \A e \in DOMAIN exchange_rates :
          exchange_rates[e] \in [sui_amount : Nat, pool_token_amount : Nat]
    /\ fungible \in [total_supply : Nat, principal : Nat]
    /\ staked \in [Epoch -> Nat] /\ next_epoch_stake \in Nat

\* What the pool's books say it holds once pending requests are settled.
BookValue == pool.sui_balance + pool.pending_stake - pool.pending_total_sui_withdraw

\* BooksMatchCustody: the pool's sui_balance, corrected by what is pending, is
\* exactly the SUI in the stakers' objects, the fungible principal and the
\* rewards pool, and it is the validator's next_epoch_stake: the assertion
\* that process_pending_stakes_and_withdraws has commented out would hold.
BooksMatchCustody == TypeOK /\ BookValue = Custody /\ next_epoch_stake = BookValue

\* Stake that has been turned into pool tokens.
IsCounted(e) == e <= epoch \/ is_preactive

\* An epoch change that is skipped leaves stake pending past its activation
\* epoch: what follows is about pools that were settled at every epoch change.
IsSettled == safe_modes = 0

\* TokensCoverClaims: the pool tokens that are left cover what all holders may
\* still claim, each at the rate of its activation epoch and however the
\* objects of an epoch are joined, although every conversion rounds.
TokensCoverClaims ==
    IsSettled =>
        MapThenSumSet(LAMBDA e : get_token_amount(pool_token_exchange_rate_at_epoch(e), staked[e]),
                      {e \in Epoch : IsCounted(e)})
          + fungible.total_supply
            <= pool.pool_token_balance - pool.pending_pool_token_withdraw

\* NothingAborts: whatever was requested during the epoch, and whatever the
\* rewards, advance_epoch gets through the pool (no underflow in
\* process_pending_stake_withdraw, and check_balance_invariants holds), and
\* request_withdraw_stake never aborts for a holder.
NothingAborts ==
    IsSettled =>
        /\ ~ is_preactive /\ ~ is_inactive =>
              \A reward \in Reward, bonus \in Bonus : SettlesAtEpochChange(Rewarded(reward, bonus))
        /\ \A e \in Epoch : \A amount \in 1..staked[e] : CanWithdraw(e, amount)
=============================================================================
