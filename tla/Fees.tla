-------------------------------- MODULE Fees --------------------------------
(***************************************************************************)
(* fees.rs: the protocol fee taken from every bet, the revenue it          *)
(* accumulates per token, and the referral rewards.  All of it is held in  *)
(* the contract's own balance, together with the bettors' stakes.          *)
(***************************************************************************)
EXTENDS Ledger

CONSTANTS Users,      \* addresses that bet, create markets or refer
          BaseFees    \* fees, in basis points, the admin configures

VARIABLES base_fee,              \* ConfigKey::BaseFee
          fee_revenue,           \* FeeRevenue(token)
          total_fees_collected,  \* TotalFeesCollected, over all tokens
          referrer_balance,      \* ReferrerBalance(referrer, token)
          rewards_paid           \* history: referral rewards paid out

feeVars ==
  <<base_fee, fee_revenue, total_fees_collected, referrer_balance, rewards_paid>>

BPS_DENOMINATOR == 10000
TIER_DENOMINATOR_BPS == 10000

MarketTier == {"Basic", "Pro", "Institutional"}

ASSUME FeeAssumption == BaseFees \subseteq Int

FeeTypeOK ==
  /\ base_fee \in BaseFees
  /\ fee_revenue \in [Tokens -> Int]
  /\ total_fees_collected \in Int
  /\ referrer_balance \in [Users -> [Tokens -> Int]]
  /\ rewards_paid \in [Tokens -> Int]

(* initialize stores whatever base fee it is given. *)
FeeInit ==
  /\ base_fee \in BaseFees
  /\ fee_revenue = [t \in Tokens |-> 0]
  /\ total_fees_collected = 0
  /\ referrer_balance = [u \in Users |-> [t \in Tokens |-> 0]]
  /\ rewards_paid = [t \in Tokens |-> 0]

tier_multiplier_bps ==
  [Basic |-> TIER_DENOMINATOR_BPS, Pro |-> 7500, Institutional |-> 5000]

(* calculate_tiered_fee: one division, after both multiplications *)
CalculateTieredFee(amount, tier) ==
  TruncDiv(amount * base_fee * tier_multiplier_bps[tier],
           BPS_DENOMINATOR * TIER_DENOMINATOR_BPS)

(* collect_fee, which place_bet calls for a positive fee only *)
CollectFee(t, fee) ==
  LET collected == IF fee > 0 THEN fee ELSE 0 IN
  /\ fee_revenue' = [fee_revenue EXCEPT ![t] = @ + collected]
  /\ total_fees_collected' = total_fees_collected + collected

(* add_referral_reward: the reward is not taken out of fee_revenue. *)
ReferralReward(fee) == IF fee > 0 THEN TruncDiv(fee * 10, 100) ELSE 0

AddReferralReward(r, t, fee) ==
  referrer_balance' = [referrer_balance EXCEPT ![r][t] = @ + ReferralReward(fee)]

(* set_base_fee (admin): the amount is not validated. *)
SetBaseFee(bps) ==
  /\ base_fee' = bps
  /\ UNCHANGED <<ledgerVars, fee_revenue, total_fees_collected, referrer_balance,
                 rewards_paid>>

(* withdraw_protocol_fees (fee admin, or admin when none is set) *)
WithdrawProtocolFees(t) ==
  /\ fee_revenue[t] # 0
  /\ Pay(t, fee_revenue[t])
  /\ fee_revenue' = [fee_revenue EXCEPT ![t] = 0]
  /\ UNCHANGED <<now, base_fee, total_fees_collected, referrer_balance, rewards_paid>>

(* claim_referral_rewards *)
ClaimReferralRewards(u, t) ==
  /\ referrer_balance[u][t] # 0
  /\ Pay(t, referrer_balance[u][t])
  /\ referrer_balance' = [referrer_balance EXCEPT ![u][t] = 0]
  /\ rewards_paid' = [rewards_paid EXCEPT ![t] = @ + referrer_balance[u][t]]
  /\ UNCHANGED <<now, base_fee, fee_revenue, total_fees_collected>>
=============================================================================
