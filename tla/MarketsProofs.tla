---------------------------- MODULE MarketsProofs ----------------------------
(***************************************************************************)
(* What Markets guarantees for every number of markets, users, tokens,     *)
(* outcomes and oracles, every clock and every setting of its constants.   *)
(***************************************************************************)
EXTENDS Markets, TLAPS

(* A quotient of integers is an integer. *)
LEMMA TruncDivType ==
  ASSUME NEW a \in Int, NEW b \in Nat, b > 0
  PROVE  TruncDiv(a, b) \in Int
  BY DEF TruncDiv

(* Adding an integer at one place of a table of integers. *)
LEMMA AddAtType ==
  ASSUME NEW S, NEW f \in [S -> Int], NEW t, NEW d \in Int
  PROVE  [f EXCEPT ![t] = @ + d] \in [S -> Int]
<1>1. CASE t \in S
  <2>1. f[t] + d \in Int
    BY <1>1
  <2>2. QED
    BY <2>1
<1>2. CASE t \notin S
  BY <1>2
<1>3. QED
  BY <1>1, <1>2

(* The fee of a bet (calculate_tiered_fee) is an integer. *)
LEMMA FeeType ==
  ASSUME FeeTypeOK, NEW amount \in Int, NEW tier \in MarketTier
  PROVE  CalculateTieredFee(amount, tier) \in Int
<1>1. base_fee \in Int
  BY FeeAssumption DEF FeeAssumption, FeeTypeOK
<1>2. tier_multiplier_bps[tier] \in Int
  BY DEF tier_multiplier_bps, MarketTier, TIER_DENOMINATOR_BPS
<1>3. amount * base_fee * tier_multiplier_bps[tier] \in Int
  BY <1>1, <1>2
<1>4. BPS_DENOMINATOR * TIER_DENOMINATOR_BPS \in Nat /\ BPS_DENOMINATOR * TIER_DENOMINATOR_BPS > 0
  BY DEF BPS_DENOMINATOR, TIER_DENOMINATOR_BPS
<1>5. QED
  BY <1>3, <1>4, TruncDivType DEF CalculateTieredFee

(* Storing a well-typed record keeps the market table and the index typed. *)
LEMMA UpdateMarketType ==
  ASSUME MarketTypeOK, NEW m \in MarketIds, NEW rec \in MarketRecord,
         rec.status \in MarketStatus, UpdateMarket(m, rec)
  PROVE  /\ market' \in [MarketIds -> MarketRecord]
         /\ status_index' \subseteq MarketIds \X MarketStatus
  BY DEF UpdateMarket, MarketTypeOK

(* A new market's record is well typed. *)
LEMMA NewMarketType ==
  ASSUME NEW c \in Users, NEW r \in Requests, NEW d \in Int
  PROVE  Market(c, r, d) \in MarketRecord
<1>1. /\ r.options \in Nat /\ r.deadline \in Nat /\ r.resolution_deadline \in Nat
      /\ r.min_responses \in Nat \cup {None} /\ r.max_staleness \in Nat
  BY MarketAssumption DEF MarketAssumption, Requests
<1>2. /\ r.tier \in MarketTier /\ r.token_address \in Tokens
      /\ r.parent_id \in {0} \cup MarketIds /\ r.parent_outcome_idx \in Nat
  BY MarketAssumption DEF MarketAssumption, Requests
<1>3. QED
  BY <1>1, <1>2 DEF Market, MarketRecord, MarketStatus

(* The value of a key that does not exist is a record too. *)
LEMMA NoMarketType == NoMarket \in MarketRecord
  BY DEF NoMarket, Market, MarketRecord, MarketTier, None, MarketIds


(* The initial storage is well typed. *)
LEMMA InitType == Init => TypeOK
<1> SUFFICES ASSUME Init PROVE TypeOK
  OBVIOUS
<1>1. LedgerTypeOK
  BY LedgerAssumption DEF LedgerAssumption, Init, LedgerInit, LedgerTypeOK
<1>2. FeeTypeOK
  BY DEF Init, FeeInit, FeeTypeOK
<1>3. BreakerTypeOK
  BY LedgerAssumption, BreakerAssumption
  DEF LedgerAssumption, BreakerAssumption, Init, BreakerInit, BreakerTypeOK,
      CircuitBreakerState
<1>4. MarketTypeOK
  <2>1. market \in [MarketIds -> MarketRecord]
    BY NoMarketType DEF Init, MarketInit
  <2>2. market_count \in 0..MaxMarkets
    BY MarketAssumption DEF MarketAssumption, Init, MarketInit
  <2>3. config \in Config
    BY MarketAssumption DEF MarketAssumption, Init, MarketInit, Config
  <2>4. bet \in [MarketIds -> [Bettors -> [Outcomes ->
                  [amount : Int, fee_paid : Int, referrer : Users \cup {NoOne}]]]]
    BY DEF Init, MarketInit, NoBet
  <2>5. oracle \in [MarketIds -> [OracleIds ->
                     [result : OracleOutcomes \cup {None}, last_update : Nat \cup {None}]]]
    BY DEF Init, MarketInit
  <2>6. /\ market_dispute_window \in [MarketIds -> Nat \cup {None}]
        /\ status_index \subseteq MarketIds \X MarketStatus
        /\ reputation \in [Creators -> CreatorReputation]
        /\ {surplus, swapped} \subseteq [Tokens -> Int]
    BY DEF Init, MarketInit, CreatorReputation
  <2>7. QED
    BY <2>1, <2>2, <2>3, <2>4, <2>5, <2>6 DEF MarketTypeOK
<1>5. QED
  BY <1>1, <1>2, <1>3, <1>4 DEF TypeOK

(* A breaker written by _set_state_internal is well typed. *)
LEMMA SetStateType ==
  ASSUME LedgerTypeOK, BreakerTypeOK, NEW s \in CircuitBreakerState
  PROVE  SetStateInternal(s) \in
           [state : CircuitBreakerState, opened_at : 0..MaxTime,
            half_open_ops : 0..HALF_OPEN_MAX_OPS]
  BY BreakerAssumption DEF BreakerAssumption, LedgerTypeOK, BreakerTypeOK, SetStateInternal

(* So is one that require_closed leaves behind. *)
LEMMA RequireClosedType ==
  ASSUME LedgerTypeOK, BreakerTypeOK, RequireClosed
  PROVE  BreakerTypeOK'
<1>1. MaybeRecover \in [state : CircuitBreakerState, opened_at : 0..MaxTime,
                        half_open_ops : 0..HALF_OPEN_MAX_OPS]
  BY SetStateType DEF MaybeRecover, BreakerTypeOK, CircuitBreakerState
<1>2. QED
  BY <1>1, BreakerAssumption DEF BreakerAssumption, RequireClosed, BreakerTypeOK

(* place_bet adds integers to a record of integers. *)
LEMMA StakeOnType ==
  ASSUME NEW mk \in MarketRecord, NEW o \in Outcomes, NEW net \in Int,
         NEW first \in BOOLEAN
  PROVE  StakeOn(mk, o, net, first) \in MarketRecord
<1>1. [mk.outcome_stakes EXCEPT ![o] = @ + net] \in [Outcomes -> Int]
  BY DEF MarketRecord
<1>2. [mk.winner_counts EXCEPT ![o] = @ + (IF first THEN 1 ELSE 0)] \in [Outcomes -> Nat]
  BY DEF MarketRecord
<1>3. mk.total_staked + net \in Int
  BY DEF MarketRecord
<1>4. StakeOn(mk, o, net, first) =
        [mk EXCEPT !.total_staked = mk.total_staked + net,
                   !.outcome_stakes = [mk.outcome_stakes EXCEPT ![o] = @ + net],
                   !.winner_counts = [mk.winner_counts EXCEPT ![o] =
                                        @ + (IF first THEN 1 ELSE 0)]]
  BY DEF StakeOn, MarketRecord
<1>5. QED
  BY <1>1, <1>2, <1>3, <1>4, ZenonT(40) DEF MarketRecord

(* What a step does not touch stays typed. *)
LEMMA UnchangedType ==
  /\ LedgerTypeOK /\ UNCHANGED ledgerVars => LedgerTypeOK'
  /\ FeeTypeOK /\ UNCHANGED feeVars => FeeTypeOK'
  /\ BreakerTypeOK /\ UNCHANGED cb => BreakerTypeOK'
  /\ MarketTypeOK /\ UNCHANGED marketVars => MarketTypeOK'
  BY DEF ledgerVars, feeVars, marketVars, LedgerTypeOK, FeeTypeOK, BreakerTypeOK,
         MarketTypeOK

(* Money moves in integers. *)
LEMMA TransferType ==
  ASSUME LedgerTypeOK, NEW t, NEW amount \in Int,
         Receive(t, amount) \/ Pay(t, amount), UNCHANGED now
  PROVE  LedgerTypeOK'
  BY DEF LedgerTypeOK, Receive, Pay

(* A step that replaces the record of one market by a well-typed one, with *)
(* a status of its own, and touches nothing else of the markets.           *)
LEMMA OneMarketType ==
  ASSUME MarketTypeOK, NEW m \in MarketIds, NEW rec \in MarketRecord,
         rec.status \in MarketStatus, UpdateMarket(m, rec),
         UNCHANGED <<market_count, market_dispute_window, bet, oracle, config,
                     reputation, surplus, swapped>>
  PROVE  MarketTypeOK'
<1>1. /\ market' \in [MarketIds -> MarketRecord]
      /\ status_index' \subseteq MarketIds \X MarketStatus
  BY UpdateMarketType
<1>2. QED
  BY <1>1 DEF MarketTypeOK

(* create_market keeps the storage well typed. *)
LEMMA CreateMarketType ==
  ASSUME TypeOK, NEW c \in Creators, NEW r \in Requests, CreateMarket(c, r)
  PROVE  TypeOK'
<1> DEFINE deposit == DepositDue(reputation[c])
           kept_fee == IF config.treasury = "contract" THEN Positive(config.creation_fee) ELSE 0
           window == IF r.dispute_window = None THEN config.default_window
                                                ELSE r.dispute_window
<1> USE DEF TypeOK
<1>1. deposit \in Int /\ Positive(deposit) \in Int /\ kept_fee \in Int /\ window \in Nat
  <2>1. /\ config.creation_deposit \in Int /\ config.creation_fee \in Int
        /\ config.default_window \in Nat
    BY DEF MarketTypeOK, Config
  <2>2. \A n \in Int : Positive(n) \in Int
    BY DEF Positive
  <2>3. deposit \in Int
    BY <2>1 DEF DepositDue
  <2>4. window \in Nat
    BY <2>1, MarketAssumption DEF MarketAssumption, Requests
  <2>5. kept_fee \in Int
    BY <2>1, <2>2
  <2>6. QED
    BY <2>2, <2>3, <2>4, <2>5
<1>2. market_count + 1 \in MarketIds /\ c \in Users /\ r.token_address \in Tokens
  BY MarketAssumption DEF MarketAssumption, CreateMarket, MarketTypeOK, MarketIds, Requests
<1>3. LedgerTypeOK'
  <2>1. Receive(r.token_address, kept_fee + Positive(deposit)) /\ UNCHANGED now
    BY DEF CreateMarket
  <2>2. QED
    BY <2>1, <1>1, TransferType
<1>4. FeeTypeOK' /\ BreakerTypeOK'
  BY UnchangedType DEF CreateMarket
<1>5. market' \in [MarketIds -> MarketRecord]
  <2>1. Market(c, r, deposit) \in MarketRecord
    BY <1>1, <1>2, NewMarketType
  <2>2. market' = [market EXCEPT ![market_count + 1] = Market(c, r, deposit)]
    BY DEF CreateMarket
  <2>3. QED
    BY <2>1, <2>2 DEF MarketTypeOK
<1>6. /\ market_count' \in 0..MaxMarkets
      /\ market_dispute_window' \in [MarketIds -> Nat \cup {None}]
      /\ status_index' \subseteq MarketIds \X MarketStatus
  <2>1. /\ market_count' = market_count + 1
        /\ market_dispute_window' = [market_dispute_window EXCEPT ![market_count + 1] = window]
        /\ status_index' = status_index \cup {<<market_count + 1, "Active">>}
    BY DEF CreateMarket
  <2>2. QED
    BY <2>1, <1>1, <1>2 DEF MarketTypeOK, MarketIds, MarketStatus
<1>7. surplus' \in [Tokens -> Int]
  <2>1. surplus' = [surplus EXCEPT ![r.token_address] = @ + kept_fee]
    BY DEF CreateMarket
  <2>2. surplus \in [Tokens -> Int]
    BY DEF MarketTypeOK
  <2> HIDE DEF kept_fee, TypeOK
  <2>3. QED
    BY <2>1, <2>2, <1>1, <1>2
<1>8. UNCHANGED <<bet, oracle, config, reputation, swapped>>
  BY DEF CreateMarket
<1>9. MarketTypeOK'
  BY <1>5, <1>6, <1>7, <1>8 DEF MarketTypeOK
<1>10. QED
  BY <1>3, <1>4, <1>9

(* collect_fee adds an integer to both totals. *)
LEMMA CollectFeeType ==
  ASSUME FeeTypeOK, NEW t, NEW fee \in Int, CollectFee(t, fee)
  PROVE  fee_revenue' \in [Tokens -> Int] /\ total_fees_collected' \in Int
<1> DEFINE collected == IF fee > 0 THEN fee ELSE 0
<1>1. collected \in Int
  OBVIOUS
<1>2. /\ fee_revenue' = [fee_revenue EXCEPT ![t] = @ + collected]
      /\ total_fees_collected' = total_fees_collected + collected
  BY DEF CollectFee
<1>3. fee_revenue \in [Tokens -> Int] /\ total_fees_collected \in Int
  BY DEF FeeTypeOK
<1> HIDE DEF collected
<1>4. [fee_revenue EXCEPT ![t] = @ + collected] \in [Tokens -> Int]
  BY <1>1, <1>3, AddAtType
<1>5. QED
  BY <1>1, <1>2, <1>3, <1>4

(* place_bet keeps the storage well typed. *)
LEMMA PlaceBetType ==
  ASSUME TypeOK, NEW u \in Bettors, NEW m \in MarketIds, NEW o \in Outcomes,
         NEW amount \in Amounts, NEW referrer \in Referrers,
         PlaceBet(u, m, o, amount, referrer)
  PROVE  TypeOK'
<1> DEFINE mk == market[m]
           fee == CalculateTieredFee(amount, mk.tier)
           net == amount - fee
           first == IsNewBettor(bet[m][u][o], net)
<1> USE DEF TypeOK
<1>1. /\ mk \in MarketRecord /\ mk.tier \in MarketTier
      /\ amount \in Int /\ referrer \in Users \cup {NoOne}
  BY MarketAssumption DEF MarketAssumption, MarketTypeOK, MarketRecord
<1>2. fee \in Int /\ net \in Int
  BY <1>1, FeeType
<1>3. LedgerTypeOK'
  BY <1>1, TransferType DEF PlaceBet
<1>4. FeeTypeOK'
  <2>1. TruncDiv(fee * 10, 100) \in Int
    BY <1>2, TruncDivType
  <2>2. ReferralReward(fee) \in Int
    BY <2>1 DEF ReferralReward
  <2>3. CollectFee(mk.token_address, fee)
    BY DEF PlaceBet
  <2>4. fee_revenue' \in [Tokens -> Int] /\ total_fees_collected' \in Int
    BY <1>2, <2>3, CollectFeeType
  <2>5. referrer_balance' \in [Users -> [Tokens -> Int]]
    BY <2>2 DEF PlaceBet, AddReferralReward, FeeTypeOK
  <2>6. UNCHANGED <<base_fee, rewards_paid>>
    BY DEF PlaceBet
  <2>7. QED
    BY <2>4, <2>5, <2>6 DEF FeeTypeOK
<1>5. BreakerTypeOK'
  BY UnchangedType DEF PlaceBet
<1>6. MarketTypeOK'
  <2>1. UpdateMarket(m, StakeOn(mk, o, net, first)) /\ mk.status = "Active"
    BY DEF PlaceBet
  <2>2. StakeOn(mk, o, net, first) \in MarketRecord
    BY <1>1, <1>2, StakeOnType DEF IsNewBettor
  <2>3. StakeOn(mk, o, net, first).status \in MarketStatus
    BY <2>1, <1>1 DEF StakeOn, MarketRecord, MarketStatus
  <2>4. /\ market' \in [MarketIds -> MarketRecord]
        /\ status_index' \subseteq MarketIds \X MarketStatus
    BY <2>1, <2>2, <2>3, UpdateMarketType
  <2>5. BetAfter(bet[m][u][o], net, fee, referrer) \in
          [amount : Int, fee_paid : Int, referrer : Users \cup {NoOne}]
    BY <1>1, <1>2 DEF BetAfter, MarketTypeOK
  <2>6. bet' \in [MarketIds -> [Bettors -> [Outcomes ->
                    [amount : Int, fee_paid : Int, referrer : Users \cup {NoOne}]]]]
    BY <2>5 DEF PlaceBet, MarketTypeOK
  <2>7. UNCHANGED <<market_count, market_dispute_window, oracle, config, reputation, surplus, swapped>>
    BY DEF PlaceBet
  <2>8. QED
    BY <2>4, <2>6, <2>7 DEF MarketTypeOK
<1>7. QED
  BY <1>3, <1>4, <1>5, <1>6

(* file_dispute writes three fields of a market. *)
LEMMA DisputedType ==
  ASSUME NEW mk \in MarketRecord, NEW ts \in Nat, NEW deadline \in Nat
  PROVE  LET rec == [mk EXCEPT !.status = "Disputed", !.dispute_timestamp = ts,
                               !.resolution_deadline = deadline]
         IN  rec \in MarketRecord /\ rec.status \in MarketStatus
<1> DEFINE mk1 == [mk EXCEPT !.status = "Disputed", !.dispute_timestamp = ts]
           mk2 == [mk1 EXCEPT !.resolution_deadline = deadline]
<1>1. mk1 \in MarketRecord
  BY DEF MarketRecord, MarketStatus
<1>2. mk1.status = "Disputed"
  BY DEF MarketRecord
<1> HIDE DEF mk1
<1>3. mk2 \in MarketRecord
  BY <1>1 DEF MarketRecord
<1>4. mk2.status = "Disputed"
  BY <1>1, <1>2 DEF MarketRecord
<1>5. QED
  BY <1>3, <1>4 DEF MarketStatus, mk1

(* The steps on one market other than a bet keep the storage well typed. *)
LEMMA MarketStepType ==
  ASSUME TypeOK, NEW m \in MarketIds, MarketStep(m)
  PROVE  TypeOK'
<1> USE DEF TypeOK
<1>0. market[m] \in MarketRecord /\ now \in Nat
  BY DEF MarketTypeOK, LedgerTypeOK
<1>1. CASE \E u \in Bettors, o \in Outcomes, amount \in Amounts, r \in Referrers :
             PlaceBet(u, m, o, amount, r)
  BY <1>1, PlaceBetType
<1>2. ASSUME NEW i \in OracleIds, NEW outcome \in OracleOutcomes,
             SetOracleResult(m, i, outcome)
      PROVE  TypeOK'
  <2>2. oracle' \in [MarketIds -> [OracleIds ->
                       [result : OracleOutcomes \cup {None}, last_update : Nat \cup {None}]]]
    BY <1>2, <1>0 DEF SetOracleResult, MarketTypeOK
  <2>3. MarketTypeOK'
    BY <1>2, <2>2 DEF SetOracleResult, MarketTypeOK
  <2>4. QED
    BY <1>2, <2>3, UnchangedType DEF SetOracleResult
<1>3. CASE AttemptOracleResolution(m)
  <2> DEFINE rec == [market[m] EXCEPT !.status = "PendingResolution",
                                      !.winning_outcome = oracle[m][0].result,
                                      !.pending_resolution_timestamp = now]
  <2>1. oracle[m][0].result \in Nat \cup {None}
    <3>1. oracle[m][0].result \in OracleOutcomes \cup {None}
      BY MarketAssumption DEF MarketAssumption, MarketTypeOK
    <3>2. QED
      BY <3>1, MarketAssumption DEF MarketAssumption
  <2>2. rec \in MarketRecord /\ rec.status \in MarketStatus
    BY <1>0, <2>1, ZenonT(40) DEF MarketRecord, MarketStatus
  <2>3. UpdateMarket(m, rec) /\ OnlyMarketChanges /\ UNCHANGED cb
    BY <1>3 DEF AttemptOracleResolution
  <2>4. MarketTypeOK'
    BY <2>2, <2>3, OneMarketType DEF OnlyMarketChanges
  <2>5. QED
    BY <2>3, <2>4, UnchangedType DEF OnlyMarketChanges
<1>4. CASE FileDispute(m)
  <2> DEFINE window == GetMarketDisputeWindow(m)
             extended == market[m].resolution_deadline + window
             rec == [market[m] EXCEPT !.status = "Disputed",
                                      !.dispute_timestamp = now,
                                      !.resolution_deadline = extended]
  <2>1. window \in Nat
    BY DEF GetMarketDisputeWindow, MarketTypeOK, Config
  <2>2. rec \in MarketRecord /\ rec.status \in MarketStatus
    <3>1. extended \in Nat
      BY <1>0, <2>1 DEF MarketRecord
    <3>2. QED
      BY <1>0, <3>1, DisputedType
  <2>3. UpdateMarket(m, rec) /\ OnlyMarketChanges /\ RequireClosed
    BY <1>4 DEF FileDispute
  <2>4. MarketTypeOK'
    BY <2>2, <2>3, OneMarketType DEF OnlyMarketChanges
  <2>5. QED
    BY <2>3, <2>4, UnchangedType, RequireClosedType DEF OnlyMarketChanges
<1>5. CASE FinalizePending(m)
  <2> DEFINE rec == [market[m] EXCEPT !.status = "Resolved", !.resolved_at = now]
  <2>1. rec \in MarketRecord /\ rec.status \in MarketStatus
    BY <1>0, ZenonT(40) DEF MarketRecord, MarketStatus
  <2>2. UpdateMarket(m, rec) /\ OnlyMarketChanges /\ UNCHANGED cb
    BY <1>5 DEF FinalizePending
  <2>3. QED
    BY <2>1, <2>2, OneMarketType, UnchangedType DEF OnlyMarketChanges
<1>6. ASSUME NEW outcome \in Outcomes, ResolveMarket(m, outcome)
      PROVE  TypeOK'
  <2> DEFINE rec == [market[m] EXCEPT !.status = "Resolved",
                                      !.winning_outcome = outcome,
                                      !.resolved_at = now]
  <2>1. outcome \in Nat
    BY DEF Outcomes
  <2>2. rec \in MarketRecord /\ rec.status \in MarketStatus
    BY <1>0, <2>1 DEF MarketRecord, MarketStatus
  <2>3. UpdateMarket(m, rec) /\ OnlyMarketChanges /\ UNCHANGED cb
    BY <1>6 DEF ResolveMarket
  <2>4. QED
    BY <2>2, <2>3, OneMarketType, UnchangedType DEF OnlyMarketChanges
<1>7. CASE CancelMarketAdmin(m)
  <2> DEFINE rec == [market[m] EXCEPT !.status = "Cancelled"]
  <2>1. rec \in MarketRecord /\ rec.status \in MarketStatus
    BY <1>0 DEF MarketRecord, MarketStatus
  <2>2. UpdateMarket(m, rec) /\ OnlyMarketChanges /\ UNCHANGED cb
    BY <1>7 DEF CancelMarketAdmin
  <2>3. QED
    BY <2>1, <2>2, OneMarketType, UnchangedType DEF OnlyMarketChanges
<1>8. ASSUME NEW t \in Tokens, ReleaseCreationDeposit(m, t)
      PROVE  TypeOK'
  <2> DEFINE rec == [market[m] EXCEPT !.creation_deposit = 0]
  <2>1. rec \in MarketRecord /\ rec.status \in MarketStatus
    BY <1>0, <1>8 DEF ReleaseCreationDeposit, MarketRecord, MarketStatus
  <2>2. UpdateMarket(m, rec) /\ Pay(t, market[m].creation_deposit)
    BY <1>8 DEF ReleaseCreationDeposit
  <2>3. market[m].creation_deposit \in Int
    BY <1>0 DEF MarketRecord
  <2>4. LedgerTypeOK'
    BY <1>8, <2>2, <2>3, TransferType DEF ReleaseCreationDeposit
  <2>5. MarketTypeOK'
    <3>1. swapped \in [Tokens -> Int]
      BY DEF MarketTypeOK
    <3>2. swapped' \in [Tokens -> Int]
      BY <1>8, <2>3, <3>1 DEF ReleaseCreationDeposit, Swap
    <3>3. /\ market' \in [MarketIds -> MarketRecord]
          /\ status_index' \subseteq MarketIds \X MarketStatus
      BY <2>1, <2>2, UpdateMarketType
    <3>4. QED
      BY <1>8, <3>2, <3>3 DEF ReleaseCreationDeposit, MarketTypeOK
  <2>6. QED
    BY <1>8, <2>4, <2>5, UnchangedType DEF ReleaseCreationDeposit
<1>9. CASE PruneMarket(m)
  <2>1. market' \in [MarketIds -> MarketRecord]
    BY <1>9, NoMarketType DEF PruneMarket, MarketTypeOK
  <2>2. market_dispute_window' \in [MarketIds -> Nat \cup {None}]
    BY <1>9 DEF PruneMarket, MarketTypeOK
  <2>3. status_index' \subseteq MarketIds \X MarketStatus
    BY <1>9 DEF PruneMarket, MarketTypeOK
  <2>4. surplus' \in [Tokens -> Int]
    <3>1. /\ market[m].total_staked + Positive(market[m].creation_deposit) \in Int
          /\ surplus \in [Tokens -> Int]
      BY <1>0 DEF MarketRecord, MarketTypeOK, Positive
    <3>2. surplus' = [surplus EXCEPT ![market[m].token_address] =
                        @ + (market[m].total_staked + Positive(market[m].creation_deposit))]
      BY <1>9 DEF PruneMarket
    <3>3. [surplus EXCEPT ![market[m].token_address] =
                @ + (market[m].total_staked + Positive(market[m].creation_deposit))]
            \in [Tokens -> Int]
      BY <3>1, AddAtType
    <3>4. QED
      BY <3>2, <3>3
  <2>5. MarketTypeOK'
    BY <1>9, <2>1, <2>2, <2>3, <2>4 DEF PruneMarket, MarketTypeOK
  <2>6. QED
    BY <1>9, <2>5, UnchangedType DEF PruneMarket
<1>10. QED
  BY <1>1, <1>2, <1>3, <1>4, <1>5, <1>6, <1>7, <1>8, <1>9 DEF MarketStep

(* So do the fee entrypoints. *)
LEMMA FeeStepType ==
  ASSUME TypeOK, FeeStep
  PROVE  TypeOK'
<1> USE DEF TypeOK
<1>1. BreakerTypeOK' /\ MarketTypeOK'
  BY UnchangedType DEF FeeStep
<1>2. ASSUME NEW bps \in BaseFees, SetBaseFee(bps)
      PROVE  LedgerTypeOK' /\ FeeTypeOK'
  BY <1>2, UnchangedType DEF SetBaseFee, FeeTypeOK
<1>3. ASSUME NEW t \in Tokens, WithdrawProtocolFees(t)
      PROVE  LedgerTypeOK' /\ FeeTypeOK'
  <2>1. fee_revenue[t] \in Int
    BY DEF FeeTypeOK
  <2>2. LedgerTypeOK'
    BY <1>3, <2>1, TransferType DEF WithdrawProtocolFees
  <2>3. FeeTypeOK'
    BY <1>3 DEF WithdrawProtocolFees, FeeTypeOK
  <2>4. QED
    BY <2>2, <2>3
<1>4. ASSUME NEW u \in Users, NEW t \in Tokens, ClaimReferralRewards(u, t)
      PROVE  LedgerTypeOK' /\ FeeTypeOK'
  <2>1. referrer_balance[u][t] \in Int
    BY DEF FeeTypeOK
  <2>2. LedgerTypeOK'
    BY <1>4, <2>1, TransferType DEF ClaimReferralRewards
  <2>3. FeeTypeOK'
    BY <1>4, <2>1 DEF ClaimReferralRewards, FeeTypeOK
  <2>4. QED
    BY <2>2, <2>3
<1>5. QED
  BY <1>1, <1>2, <1>3, <1>4 DEF FeeStep

(* And the admin's settings. *)
LEMMA ConfigureType ==
  ASSUME TypeOK, Configure
  PROVE  TypeOK'
<1> USE DEF TypeOK
<1>1. config \in Config
  BY DEF MarketTypeOK
<1>2. ASSUME SetCreationTerms PROVE config' \in Config
  <2>1. /\ CreationDeposits \subseteq Int /\ CreationFees \subseteq Int
        /\ Treasuries \subseteq {"contract", "treasury"}
    BY MarketAssumption DEF MarketAssumption
  <2>2. QED
    BY <1>1, <1>2, <2>1 DEF SetCreationTerms, Config
<1>3. Windows \ {None} \subseteq Nat
  BY MarketAssumption DEF MarketAssumption
<1>4. ASSUME NEW w \in Windows \ {None}, SetDisputeWindow(w)
      PROVE  config' \in Config
  BY <1>1, <1>3, <1>4 DEF SetDisputeWindow, Config
<1>5. ASSUME NEW lo \in Windows \ {None}, NEW hi \in Windows \ {None},
             SetDisputeWindowBounds(lo, hi)
      PROVE  config' \in Config
  BY <1>1, <1>3, <1>5 DEF SetDisputeWindowBounds, Config
<1>6. config' \in Config
  BY <1>2, <1>4, <1>5 DEF Configure
<1>7. MarketTypeOK'
  BY <1>6 DEF Configure, MarketTypeOK
<1>8. QED
  BY <1>7, UnchangedType DEF Configure

(* Every storage key holds a value of its declared type, in every          *)
(* reachable state.                                                        *)
LEMMA StepType == TypeOK /\ [Next]_vars => TypeOK'
<1> SUFFICES ASSUME TypeOK, [Next]_vars PROVE TypeOK'
  OBVIOUS
<1> USE DEF TypeOK
<1>1. CASE Tick
  <2>1. LedgerTypeOK'
    BY <1>1, LedgerAssumption DEF LedgerAssumption, Tick, AdvanceClock, LedgerTypeOK
  <2>2. QED
    BY <1>1, <2>1, UnchangedType DEF Tick
<1>2. CASE \E c \in Creators, r \in Requests : CreateMarket(c, r)
  BY <1>2, CreateMarketType
<1>3. CASE \E m \in MarketIds : MarketStep(m)
  BY <1>3, MarketStepType
<1>4. CASE FeeStep
  BY <1>4, FeeStepType
<1>5. CASE BreakerStep
  <2>1. BreakerTypeOK'
    BY <1>5, SetStateType, BreakerAssumption
    DEF BreakerAssumption, BreakerStep, SetState, BreakerTypeOK
  <2>2. QED
    BY <1>5, <2>1, UnchangedType DEF BreakerStep
<1>6. CASE Configure
  BY <1>6, ConfigureType
<1>7. CASE \E u \in Creators, rep \in Reputations : SetCreatorReputation(u, rep)
  <2>1. MarketTypeOK'
    BY <1>7, MarketAssumption DEF MarketAssumption, SetCreatorReputation, MarketTypeOK
  <2>2. QED
    BY <1>7, <2>1, UnchangedType DEF SetCreatorReputation
<1>8. CASE UNCHANGED vars
  BY <1>8, UnchangedType DEF vars
<1>9. QED
  BY <1>1, <1>2, <1>3, <1>4, <1>5, <1>6, <1>7, <1>8 DEF Next

(* Every storage key always holds a value of its declared type. *)
THEOREM TypeCorrect == Spec => []TypeOK
  BY InitType, StepType, PTL DEF Spec
------------------------------------------------------------------------------
(* The contract starts with no market. *)
LEMMA InitLife == Init => LifeInv
<1> SUFFICES ASSUME Init PROVE LifeInv
  OBVIOUS
<1>1. \A m \in MarketIds : market[m] = NoMarket /\ ~Exists(m)
  BY DEF Init, MarketInit, Exists, NoMarket, Market
<1>2. NoMarket.status = "Absent"
  BY DEF NoMarket, Market
<1>3. /\ NoMarket.winning_outcome = None /\ NoMarket.pending_resolution_timestamp = None
      /\ NoMarket.dispute_timestamp = None /\ NoMarket.resolved_at = None
  BY DEF NoMarket, Market
<1>4. CountCoversMarkets /\ ParentOutcomeStands /\ ParentSettledEarly
  BY <1>1 DEF CountCoversMarkets, ParentOutcomeStands, ParentSettledEarly
<1>5. StatusIndexExact
  BY <1>1, <1>2 DEF Init, MarketInit, StatusIndexExact, MarketStatus
<1>6. TimesAgreeWithStatus
  BY <1>1, <1>2, <1>3 DEF TimesAgreeWithStatus, TimesAgree
<1>7. \A m \in MarketIds : PastTimes(market[m], now)
  BY <1>1, <1>3 DEF PastTimes, None, Init, LedgerInit
<1>8. QED
  BY <1>1, <1>4, <1>5, <1>6, <1>7 DEF LifeInv

(* Rewriting the record of a stored market keeps the invariant when the    *)
(* new record's times agree with its status, its parent stays the same     *)
(* and, if it was resolved, so does everything a child relies on.          *)
LEMMA RewriteLife ==
  ASSUME TypeOK, LifeInv, NEW m \in MarketIds, NEW rec \in MarketRecord,
         Exists(m), UpdateMarket(m, rec), rec.status \in MarketStatus,
         UNCHANGED <<now, market_count, market_dispute_window>>,
         TimesAgree(rec, market_dispute_window[m]), PastTimes(rec, now),
         rec.parent_id = market[m].parent_id,
         rec.parent_outcome_idx = market[m].parent_outcome_idx,
         market[m].status = "Resolved" =>
           /\ rec.status = "Resolved"
           /\ rec.winning_outcome = market[m].winning_outcome
           /\ rec.options = market[m].options
           /\ rec.resolved_at = market[m].resolved_at
           /\ rec.resolution_deadline = market[m].resolution_deadline
  PROVE  LifeInv'
<1>1. /\ market'[m] = rec
      /\ \A k \in MarketIds : k # m => market'[k] = market[k]
  BY DEF UpdateMarket, TypeOK, MarketTypeOK
<1>2. \A k \in MarketIds : Exists(k)' <=> Exists(k)
  BY <1>1 DEF Exists, MarketStatus
<1>3. CountCoversMarkets'
  BY <1>2 DEF LifeInv, CountCoversMarkets
<1>4. StatusIndexExact'
  <2> SUFFICES ASSUME NEW k \in MarketIds, NEW s \in MarketStatus
               PROVE  <<k, s>> \in status_index' <=> market'[k].status = s
    BY DEF StatusIndexExact
  <2>1. <<k, s>> \in status_index <=> market[k].status = s
    BY DEF LifeInv, StatusIndexExact
  <2>2. status_index' = (status_index \ {<<m, market[m].status>>}) \cup {<<m, rec.status>>}
    BY DEF UpdateMarket
  <2>3. CASE k = m
    BY <2>1, <2>2, <2>3, <1>1
  <2>4. CASE k # m
    BY <2>1, <2>2, <2>4, <1>1
  <2>5. QED
    BY <2>3, <2>4
<1>5. TimesAgreeWithStatus'
  <2> SUFFICES ASSUME NEW k \in MarketIds
               PROVE  TimesAgree(market'[k], market_dispute_window[k])
    BY DEF TimesAgreeWithStatus, TimesAgree
  <2>1. TimesAgree(market[k], market_dispute_window[k])
    BY DEF LifeInv, TimesAgreeWithStatus
  <2>2. QED
    BY <2>1, <1>1
<1>6. \A k \in MarketIds : PastTimes(market'[k], now)
  BY <1>1 DEF LifeInv
<1>7. (\A k \in MarketIds : PastTimes(market[k], now))'
  BY <1>6 DEF PastTimes
<1>8. \A k \in MarketIds : /\ market'[k].parent_id = market[k].parent_id
                           /\ market'[k].parent_outcome_idx = market[k].parent_outcome_idx
  BY <1>1
<1>9. \A p \in MarketIds : market[p].status = "Resolved" =>
        /\ market'[p].status = "Resolved"
        /\ market'[p].winning_outcome = market[p].winning_outcome
        /\ market'[p].options = market[p].options
        /\ market'[p].resolved_at = market[p].resolved_at
        /\ market'[p].resolution_deadline = market[p].resolution_deadline
  BY <1>1
<1>10. \A k \in MarketIds : market[k].parent_id \in {0} \cup MarketIds
  BY DEF TypeOK, MarketTypeOK, MarketRecord
<1>11. ParentOutcomeStands'
  <2> SUFFICES ASSUME NEW k \in MarketIds, Exists(k)', market'[k].parent_id > 0
               PROVE  /\ market'[k].parent_id < k
                      /\ (Exists(market[k].parent_id))' =>
                           (ValidParent(market[k].parent_id, market[k].parent_outcome_idx))'
    BY DEF ParentOutcomeStands
  <2> DEFINE p == market[k].parent_id
  <2>1. p = market'[k].parent_id /\ p \in MarketIds /\ Exists(k)
    BY <1>2, <1>8, <1>10
  <2>2. p < k /\ (Exists(p) => ValidParent(p, market[k].parent_outcome_idx))
    BY <2>1 DEF LifeInv, ParentOutcomeStands
  <2>3. (Exists(market[k].parent_id))' => Exists(p)
    BY <2>1, <1>2 DEF Exists
  <2>4. Exists(p) => (ValidParent(market[k].parent_id, market[k].parent_outcome_idx))'
    BY <2>1, <2>2, <1>8, <1>9 DEF ValidParent
  <2>5. QED
    BY <2>1, <2>2, <2>3, <2>4
<1>12. ParentSettledEarly'
  <2> SUFFICES ASSUME NEW k \in MarketIds, Exists(k)', market'[k].parent_id > 0,
                      (Exists(market[k].parent_id))'
               PROVE  market'[market'[k].parent_id].resolved_at <
                        market'[market'[k].parent_id].resolution_deadline
    BY DEF ParentSettledEarly
  <2> DEFINE p == market[k].parent_id
  <2>1. p = market'[k].parent_id /\ p \in MarketIds /\ Exists(k)
    BY <1>2, <1>8, <1>10
  <2>2. Exists(p)
    BY <2>1, <1>2 DEF Exists
  <2>3. market[p].status = "Resolved"
    BY <2>1, <2>2 DEF LifeInv, ParentOutcomeStands, ValidParent
  <2>4. market[p].resolved_at < market[p].resolution_deadline
    BY <2>1, <2>2 DEF LifeInv, ParentSettledEarly
  <2>5. QED
    BY <2>1, <2>3, <2>4, <1>9
<1>13. \A k \in MarketIds : Exists(k)' => market_dispute_window'[k] # None
  BY <1>2 DEF LifeInv
<1>14. QED
  BY <1>3, <1>4, <1>5, <1>7, <1>11, <1>12, <1>13 DEF LifeInv, None

(* A step that leaves the markets alone keeps the invariant: the clock     *)
(* only goes forward.                                                      *)
LEMMA SameMarketsLife ==
  ASSUME TypeOK, LifeInv,
         UNCHANGED <<market, market_count, market_dispute_window, status_index>>,
         now' \in Int, now' >= now
  PROVE  LifeInv'
<1>1. \A m \in MarketIds : PastTimes(market[m], now)'
  <2> SUFFICES ASSUME NEW m \in MarketIds PROVE PastTimes(market[m], now)'
    OBVIOUS
  <2>1. /\ market[m].pending_resolution_timestamp \in Int
        /\ market[m].dispute_timestamp \in Int
        /\ market[m].resolved_at \in Int
        /\ now \in Int
    BY DEF TypeOK, MarketTypeOK, MarketRecord, LedgerTypeOK, None
  <2>2. PastTimes(market[m], now)
    BY DEF LifeInv
  <2>3. QED
    BY <2>1, <2>2 DEF PastTimes
<1>2. /\ CountCoversMarkets' /\ StatusIndexExact' /\ TimesAgreeWithStatus'
      /\ ParentOutcomeStands' /\ ParentSettledEarly'
      /\ \A m \in MarketIds : Exists(m)' => market_dispute_window'[m] # None
  BY DEF LifeInv, CountCoversMarkets, StatusIndexExact, TimesAgreeWithStatus,
         TimesAgree, ParentOutcomeStands, ParentSettledEarly, ValidParent, Exists
<1>3. QED
  BY <1>1, <1>2 DEF LifeInv, None

(* create_market keeps the invariant: the identifier it takes was never    *)
(* used, and a parent it names was resolved before its own resolution      *)
(* deadline because the child's deadline lies in between.                  *)
LEMMA CreateLife ==
  ASSUME TypeOK, LifeInv, NEW c \in Creators, NEW r \in Requests, CreateMarket(c, r)
  PROVE  LifeInv'
<1> DEFINE id == market_count + 1
           new == Market(c, r, DepositDue(reputation[c]))
           window == IF r.dispute_window = None THEN config.default_window
                                                ELSE r.dispute_window
<1>1. /\ id \in MarketIds /\ market_count \in Nat /\ ~Exists(id) /\ window \in Nat
  <2>1. MaxMarkets \in Nat /\ market_count \in 0..MaxMarkets /\ market_count < MaxMarkets
    BY MarketAssumption DEF MarketAssumption, CreateMarket, TypeOK, MarketTypeOK
  <2>2. id \in MarketIds /\ market_count \in Nat /\ ~(id =< market_count)
    BY <2>1 DEF MarketIds
  <2>3. ~Exists(id)
    BY <2>2 DEF LifeInv, CountCoversMarkets
  <2>4. r.dispute_window \in Nat \cup {None} /\ config.default_window \in Nat
    BY MarketAssumption DEF MarketAssumption, Requests, TypeOK, MarketTypeOK, Config
  <2>5. QED
    BY <2>2, <2>3, <2>4
<1>2. /\ market' = [market EXCEPT ![id] = new]
      /\ market_dispute_window' = [market_dispute_window EXCEPT ![id] = window]
      /\ status_index' = status_index \cup {<<id, "Active">>}
      /\ market_count' = id /\ now' = now
      /\ ParentAllows(r) /\ r.deadline > now
  BY DEF CreateMarket
<1>3. /\ market'[id] = new
      /\ market_dispute_window'[id] = window
      /\ \A k \in MarketIds : k # id =>
           market'[k] = market[k] /\ market_dispute_window'[k] = market_dispute_window[k]
  BY <1>1, <1>2 DEF TypeOK, MarketTypeOK
<1>4. /\ new.status = "Active" /\ new.winning_outcome = None
      /\ new.pending_resolution_timestamp = None /\ new.dispute_timestamp = None
      /\ new.resolved_at = None /\ new.parent_id = r.parent_id
      /\ new.parent_outcome_idx = r.parent_outcome_idx
  BY DEF Market
<1> HIDE DEF new, window
<1>5. CountCoversMarkets'
  BY <1>1, <1>2, <1>3, <1>4 DEF LifeInv, CountCoversMarkets, Exists, MarketIds
<1>6. StatusIndexExact'
  <2> SUFFICES ASSUME NEW k \in MarketIds, NEW s \in MarketStatus
               PROVE  <<k, s>> \in status_index' <=> market'[k].status = s
    BY DEF StatusIndexExact
  <2>1. <<k, s>> \in status_index <=> market[k].status = s
    BY DEF LifeInv, StatusIndexExact
  <2>2. CASE k = id
    BY <2>1, <2>2, <1>1, <1>2, <1>3, <1>4 DEF Exists, MarketStatus
  <2>3. CASE k # id
    BY <2>1, <2>3, <1>2, <1>3
  <2>4. QED
    BY <2>2, <2>3
<1>7. TimesAgreeWithStatus'
  <2> SUFFICES ASSUME NEW k \in MarketIds
               PROVE  TimesAgree(market'[k], market_dispute_window'[k])
    BY DEF TimesAgreeWithStatus, TimesAgree
  <2>1. CASE k = id
    BY <2>1, <1>3, <1>4 DEF TimesAgree
  <2>2. CASE k # id
    BY <2>2, <1>3 DEF LifeInv, TimesAgreeWithStatus
  <2>3. QED
    BY <2>1, <2>2
<1>8. \A k \in MarketIds : PastTimes(market'[k], now)
  <2>1. PastTimes(new, now)
    BY <1>4 DEF PastTimes, TypeOK, LedgerTypeOK, None
  <2>2. QED
    BY <2>1, <1>3 DEF LifeInv
<1>9. (\A k \in MarketIds : PastTimes(market[k], now))'
  BY <1>8, <1>2 DEF PastTimes
<1>10. \A k \in MarketIds : Exists(k)' => market_dispute_window'[k] # None
  <2> SUFFICES ASSUME NEW k \in MarketIds, Exists(k)'
               PROVE  market_dispute_window'[k] # None
    OBVIOUS
  <2>1. CASE k = id
    BY <2>1, <1>1, <1>3 DEF None
  <2>2. CASE k # id
    <3>1. Exists(k)
      BY <2>2, <1>3 DEF Exists
    <3>2. QED
      BY <2>2, <3>1, <1>3 DEF LifeInv
  <2>3. QED
    BY <2>1, <2>2
<1>11. r.parent_id \in {0} \cup MarketIds /\ r.deadline \in Nat /\ now \in Nat
  <2>1. now \in Nat
    BY LedgerAssumption DEF LedgerAssumption, TypeOK, LedgerTypeOK
  <2>2. r.parent_id \in {0} \cup MarketIds /\ r.deadline \in Deadlines
    BY DEF Requests
  <2>3. QED
    BY <2>1, <2>2, MarketAssumption DEF MarketAssumption
<1>12. ASSUME r.parent_id > 0
       PROVE  /\ r.parent_id \in MarketIds /\ r.parent_id # id /\ r.parent_id < id
              /\ market[r.parent_id].status = "Resolved"
              /\ ValidParent(r.parent_id, r.parent_outcome_idx)
              /\ market[r.parent_id].resolved_at < market[r.parent_id].resolution_deadline
  <2>1. r.parent_id \in MarketIds
    BY <1>11, <1>12
  <2>2. /\ ValidParent(r.parent_id, r.parent_outcome_idx)
        /\ market[r.parent_id].status = "Resolved"
        /\ r.deadline =< market[r.parent_id].resolution_deadline
    BY <1>2, <1>12 DEF ParentAllows, ValidParent
  <2>3. Exists(r.parent_id)
    BY <2>2 DEF Exists
  <2>4. r.parent_id # id /\ r.parent_id < id
    BY <2>1, <2>3, <1>1 DEF LifeInv, CountCoversMarkets, MarketIds
  <2>5. market[r.parent_id].resolved_at =< now
    BY <2>1 DEF LifeInv, PastTimes
  <2>6. /\ market[r.parent_id].resolved_at \in Int
        /\ market[r.parent_id].resolution_deadline \in Int
    BY <2>1 DEF TypeOK, MarketTypeOK, MarketRecord, None
  <2>7. market[r.parent_id].resolved_at < market[r.parent_id].resolution_deadline
    BY <2>2, <2>5, <2>6, <1>2, <1>11
  <2>8. QED
    BY <2>1, <2>2, <2>4, <2>7
<1>13. \A k \in MarketIds : k # id /\ Exists(k) /\ market[k].parent_id > 0 =>
         /\ market[k].parent_id \in MarketIds /\ market[k].parent_id < k
         /\ Exists(market[k].parent_id) =>
              /\ ValidParent(market[k].parent_id, market[k].parent_outcome_idx)
              /\ market[market[k].parent_id].resolved_at <
                   market[market[k].parent_id].resolution_deadline
  BY DEF LifeInv, ParentOutcomeStands, ParentSettledEarly, TypeOK, MarketTypeOK, MarketRecord
<1>14. ASSUME NEW k \in MarketIds, Exists(k)', market'[k].parent_id > 0
       PROVE  /\ market'[k].parent_id < k
              /\ (Exists(market[k].parent_id))' =>
                   /\ (ValidParent(market[k].parent_id, market[k].parent_outcome_idx))'
                   /\ market'[market'[k].parent_id].resolved_at <
                        market'[market'[k].parent_id].resolution_deadline
  <2>1. CASE k = id
    BY <2>1, <1>3, <1>4, <1>12, <1>14 DEF ValidParent
  <2>2. CASE k # id
    <3>1. Exists(k) /\ market'[k] = market[k]
      BY <2>2, <1>3, <1>14 DEF Exists
    <3>2. market[k].parent_id \in MarketIds /\ market[k].parent_id < k
      BY <2>2, <3>1, <1>13, <1>14
    <3>3. k < id
      BY <2>2, <3>1, <1>1 DEF LifeInv, CountCoversMarkets, MarketIds
    <3>4. market'[market[k].parent_id] = market[market[k].parent_id]
      BY <3>2, <3>3, <1>1, <1>3 DEF MarketIds
    <3>5. QED
      BY <2>2, <3>1, <3>2, <3>4, <1>13, <1>14 DEF Exists, ValidParent
  <2>3. QED
    BY <2>1, <2>2
<1>15. ParentOutcomeStands' /\ ParentSettledEarly'
  BY <1>14 DEF ParentOutcomeStands, ParentSettledEarly
<1>16. QED
  BY <1>5, <1>6, <1>7, <1>9, <1>10, <1>15 DEF LifeInv, None

(* prune_market keeps the invariant: a child of the market that goes loses *)
(* a parent, which nothing in the invariant asks for.                      *)
LEMMA PruneLife ==
  ASSUME TypeOK, LifeInv, NEW m \in MarketIds, PruneMarket(m)
  PROVE  LifeInv'
<1>1. /\ market'[m] = NoMarket /\ market[m].status = "Resolved"
      /\ \A k \in MarketIds : k # m =>
           market'[k] = market[k] /\ market_dispute_window'[k] = market_dispute_window[k]
      /\ now' = now /\ market_count' = market_count
      /\ status_index' = status_index \ {<<m, "Resolved">>}
  BY DEF PruneMarket, TypeOK, MarketTypeOK, ledgerVars
<1>2. /\ NoMarket.status = "Absent" /\ NoMarket.winning_outcome = None
      /\ NoMarket.pending_resolution_timestamp = None
      /\ NoMarket.dispute_timestamp = None /\ NoMarket.resolved_at = None
  BY DEF NoMarket, Market
<1> HIDE DEF NoMarket
<1>3. \A k \in MarketIds : Exists(k)' => k # m /\ Exists(k)
  BY <1>1, <1>2 DEF Exists
<1>4. CountCoversMarkets'
  BY <1>1, <1>3 DEF LifeInv, CountCoversMarkets
<1>5. StatusIndexExact'
  <2> SUFFICES ASSUME NEW k \in MarketIds, NEW s \in MarketStatus
               PROVE  <<k, s>> \in status_index' <=> market'[k].status = s
    BY DEF StatusIndexExact
  <2>1. <<k, s>> \in status_index <=> market[k].status = s
    BY DEF LifeInv, StatusIndexExact
  <2>2. CASE k = m
    BY <2>1, <2>2, <1>1, <1>2 DEF MarketStatus
  <2>3. CASE k # m
    BY <2>1, <2>3, <1>1
  <2>4. QED
    BY <2>2, <2>3
<1>6. TimesAgreeWithStatus'
  <2> SUFFICES ASSUME NEW k \in MarketIds
               PROVE  TimesAgree(market'[k], market_dispute_window'[k])
    BY DEF TimesAgreeWithStatus, TimesAgree
  <2>1. CASE k = m
    BY <2>1, <1>1, <1>2 DEF TimesAgree
  <2>2. CASE k # m
    BY <2>2, <1>1 DEF LifeInv, TimesAgreeWithStatus
  <2>3. QED
    BY <2>1, <2>2
<1>7. (\A k \in MarketIds : PastTimes(market[k], now))'
  <2>1. PastTimes(NoMarket, now)
    BY <1>2, LedgerAssumption DEF LedgerAssumption, PastTimes, TypeOK, LedgerTypeOK, None
  <2>2. \A k \in MarketIds : PastTimes(market'[k], now)
    BY <2>1, <1>1 DEF LifeInv
  <2>3. QED
    BY <2>2, <1>1 DEF PastTimes
<1>8. \A k \in MarketIds : Exists(k)' => market_dispute_window'[k] # None
  BY <1>1, <1>3 DEF LifeInv
<1>9. ASSUME NEW k \in MarketIds, Exists(k)', market'[k].parent_id > 0
      PROVE  /\ market'[k].parent_id < k
             /\ (Exists(market[k].parent_id))' =>
                  /\ (ValidParent(market[k].parent_id, market[k].parent_outcome_idx))'
                  /\ market'[market'[k].parent_id].resolved_at <
                       market'[market'[k].parent_id].resolution_deadline
  <2>1. Exists(k) /\ market'[k] = market[k]
    BY <1>1, <1>3, <1>9
  <2>2. market[k].parent_id \in MarketIds /\ market[k].parent_id < k
    BY <2>1, <1>9 DEF LifeInv, ParentOutcomeStands, TypeOK, MarketTypeOK, MarketRecord
  <2>3. ASSUME (Exists(market[k].parent_id))'
        PROVE  /\ (ValidParent(market[k].parent_id, market[k].parent_outcome_idx))'
               /\ market'[market'[k].parent_id].resolved_at <
                    market'[market'[k].parent_id].resolution_deadline
    <3>1. market[k].parent_id # m
      BY <2>1, <2>3, <1>1, <1>2 DEF Exists
    <3>2. market'[market[k].parent_id] = market[market[k].parent_id]
      BY <2>2, <3>1, <1>1
    <3>3. Exists(market[k].parent_id)
      BY <2>1, <2>3, <3>2 DEF Exists
    <3>4. /\ ValidParent(market[k].parent_id, market[k].parent_outcome_idx)
          /\ market[market[k].parent_id].resolved_at <
               market[market[k].parent_id].resolution_deadline
      BY <2>1, <3>3, <1>9 DEF LifeInv, ParentOutcomeStands, ParentSettledEarly
    <3>5. QED
      BY <2>1, <3>2, <3>4 DEF ValidParent
  <2>4. QED
    BY <2>1, <2>2, <2>3
<1>10. ParentOutcomeStands' /\ ParentSettledEarly'
  BY <1>9 DEF ParentOutcomeStands, ParentSettledEarly
<1>11. QED
  BY <1>4, <1>5, <1>6, <1>7, <1>8, <1>10 DEF LifeInv, None
------------------------------------------------------------------------------
(* What the entrypoints that rewrite one market do to its record, without  *)
(* the fields no proof below looks at.                                     *)
Rewrites(m, rec) ==
  /\ Exists(m) /\ rec \in MarketRecord /\ rec.status \in MarketStatus
  /\ UpdateMarket(m, rec)
  /\ UNCHANGED <<now, market_count, market_dispute_window>>
  /\ rec.parent_id = market[m].parent_id
  /\ rec.parent_outcome_idx = market[m].parent_outcome_idx
  /\ rec.options = market[m].options

(* place_bet and release_creation_deposit *)
Kept(rec, mk) ==
  /\ rec.status = mk.status /\ mk.status \in {"Active", "Resolved"}
  /\ rec.winning_outcome = mk.winning_outcome
  /\ rec.pending_resolution_timestamp = mk.pending_resolution_timestamp
  /\ rec.dispute_timestamp = mk.dispute_timestamp
  /\ rec.resolved_at = mk.resolved_at
  /\ rec.resolution_deadline = mk.resolution_deadline
  /\ mk.status = "Resolved" =>
       rec.total_staked = mk.total_staked /\ rec.outcome_stakes = mk.outcome_stakes

(* attempt_oracle_resolution *)
Proposed(rec, mk) ==
  /\ mk.status = "Active" /\ now >= mk.resolution_deadline
  /\ rec.status = "PendingResolution"
  /\ rec.winning_outcome \in OracleOutcomes
  /\ rec.pending_resolution_timestamp = now
  /\ rec.dispute_timestamp = mk.dispute_timestamp
  /\ rec.resolved_at = mk.resolved_at
  /\ rec.resolution_deadline = mk.resolution_deadline

(* file_dispute *)
DisputedBy(rec, mk, window) ==
  /\ mk.status = "PendingResolution"
  /\ now < mk.pending_resolution_timestamp + window
  /\ rec.status = "Disputed"
  /\ rec.winning_outcome = mk.winning_outcome
  /\ rec.pending_resolution_timestamp = mk.pending_resolution_timestamp
  /\ rec.dispute_timestamp = now
  /\ rec.resolved_at = mk.resolved_at

(* finalize_resolution, resolve_market *)
Settled(rec, mk) ==
  /\ mk.status \in {"Active", "PendingResolution", "Disputed"}
  /\ rec.status = "Resolved"
  /\ \/ rec.winning_outcome \in Outcomes
     \/ mk.status = "PendingResolution" /\ rec.winning_outcome = mk.winning_outcome
  /\ rec.winning_outcome \in Nat
  /\ rec.pending_resolution_timestamp = mk.pending_resolution_timestamp
  /\ rec.dispute_timestamp = mk.dispute_timestamp
  /\ rec.resolved_at = now
  /\ rec.resolution_deadline = mk.resolution_deadline

(* cancel_market_admin *)
CancelledBy(rec, mk) ==
  /\ mk.status \in {"Active", "PendingResolution", "Disputed"}
  /\ rec.status = "Cancelled"
  /\ rec.winning_outcome = mk.winning_outcome
  /\ rec.pending_resolution_timestamp = mk.pending_resolution_timestamp
  /\ rec.dispute_timestamp = mk.dispute_timestamp
  /\ rec.resolved_at = mk.resolved_at
  /\ rec.resolution_deadline = mk.resolution_deadline

Form(rec, mk, window) ==
  \/ Kept(rec, mk)
  \/ Proposed(rec, mk)
  \/ DisputedBy(rec, mk, window)
  \/ Settled(rec, mk)
  \/ CancelledBy(rec, mk)

(* place_bet leaves the life of the market alone. *)
LEMMA PlaceBetForm ==
  ASSUME TypeOK, NEW u \in Bettors, NEW m \in MarketIds, NEW o \in Outcomes,
         NEW amount \in Amounts, NEW referrer \in Referrers,
         PlaceBet(u, m, o, amount, referrer)
  PROVE  \E rec \in MarketRecord : Rewrites(m, rec) /\ Kept(rec, market[m])
<1> DEFINE mk == market[m]
           net == amount - CalculateTieredFee(amount, mk.tier)
           first == IsNewBettor(bet[m][u][o], net)
           rec == StakeOn(mk, o, net, first)
<1>1. mk \in MarketRecord /\ mk.tier \in MarketTier /\ amount \in Int
  BY MarketAssumption DEF MarketAssumption, TypeOK, MarketTypeOK, MarketRecord
<1>2. net \in Int
  <2>1. CalculateTieredFee(amount, mk.tier) \in Int
    BY <1>1, FeeType DEF TypeOK
  <2>2. QED
    BY <1>1, <2>1
<1>3. UpdateMarket(m, rec) /\ mk.status = "Active"
  BY DEF PlaceBet
<1>4. UNCHANGED <<now, market_count, market_dispute_window>>
  BY DEF PlaceBet
<1>5. rec \in MarketRecord
  BY <1>1, <1>2, StakeOnType DEF IsNewBettor
<1>6. rec.status = mk.status /\ rec.winning_outcome = mk.winning_outcome
  BY <1>1 DEF StakeOn, MarketRecord
<1>7. /\ rec.pending_resolution_timestamp = mk.pending_resolution_timestamp
      /\ rec.dispute_timestamp = mk.dispute_timestamp
  BY <1>1 DEF StakeOn, MarketRecord
<1>8. /\ rec.resolved_at = mk.resolved_at
      /\ rec.resolution_deadline = mk.resolution_deadline
  BY <1>1 DEF StakeOn, MarketRecord
<1>9. /\ rec.parent_id = mk.parent_id
      /\ rec.parent_outcome_idx = mk.parent_outcome_idx
      /\ rec.options = mk.options
  BY <1>1 DEF StakeOn, MarketRecord
<1> HIDE DEF rec, net, first
<1>10. Rewrites(m, rec)
  BY <1>3, <1>4, <1>5, <1>6, <1>9 DEF Rewrites, Exists, MarketStatus
<1>11. Kept(rec, mk)
  BY <1>3, <1>6, <1>7, <1>8 DEF Kept
<1>12. QED
  BY <1>5, <1>10, <1>11

(* attempt_oracle_resolution proposes a winner. *)
LEMMA OracleForm ==
  ASSUME TypeOK, NEW m \in MarketIds, AttemptOracleResolution(m)
  PROVE  \E rec \in MarketRecord : Rewrites(m, rec) /\ Proposed(rec, market[m])
<1> DEFINE mk == market[m]
           rec == [mk EXCEPT !.status = "PendingResolution",
                             !.winning_outcome = oracle[m][0].result,
                             !.pending_resolution_timestamp = now]
<1>1. mk \in MarketRecord /\ now \in Nat
  BY LedgerAssumption DEF LedgerAssumption, TypeOK, MarketTypeOK, LedgerTypeOK
<1>2. oracle[m][0].result \in OracleOutcomes /\ OracleOutcomes \subseteq Nat
  BY MarketAssumption
  DEF MarketAssumption, TypeOK, MarketTypeOK, AttemptOracleResolution
<1>3. rec \in MarketRecord
  BY <1>1, <1>2 DEF MarketRecord, MarketStatus
<1>4. /\ rec.status = "PendingResolution" /\ rec.winning_outcome = oracle[m][0].result
      /\ rec.pending_resolution_timestamp = now
      /\ rec.dispute_timestamp = mk.dispute_timestamp
  BY <1>1 DEF MarketRecord
<1>5. /\ rec.resolved_at = mk.resolved_at
      /\ rec.resolution_deadline = mk.resolution_deadline
  BY <1>1 DEF MarketRecord
<1>6. /\ rec.parent_id = mk.parent_id
      /\ rec.parent_outcome_idx = mk.parent_outcome_idx
      /\ rec.options = mk.options
  BY <1>1 DEF MarketRecord
<1>7. UpdateMarket(m, rec) /\ mk.status = "Active" /\ now >= mk.resolution_deadline
  BY DEF AttemptOracleResolution
<1>8. UNCHANGED <<now, market_count, market_dispute_window>>
  BY DEF AttemptOracleResolution, OnlyMarketChanges, ledgerVars
<1> HIDE DEF rec
<1>9. Rewrites(m, rec)
  BY <1>3, <1>4, <1>6, <1>7, <1>8 DEF Rewrites, Exists, MarketStatus
<1>10. Proposed(rec, mk)
  BY <1>2, <1>4, <1>5, <1>7 DEF Proposed
<1>11. QED
  BY <1>3, <1>9, <1>10

(* file_dispute opens a dispute within the window. *)
LEMMA DisputeForm ==
  ASSUME TypeOK, NEW m \in MarketIds, FileDispute(m)
  PROVE  \E rec \in MarketRecord :
           Rewrites(m, rec) /\ DisputedBy(rec, market[m], GetMarketDisputeWindow(m))
<1> DEFINE mk == market[m]
           window == GetMarketDisputeWindow(m)
           extended == mk.resolution_deadline + window
           rec == [mk EXCEPT !.status = "Disputed", !.dispute_timestamp = now,
                             !.resolution_deadline = extended]
<1>1. mk \in MarketRecord /\ now \in Nat
  BY LedgerAssumption DEF LedgerAssumption, TypeOK, MarketTypeOK, LedgerTypeOK
<1>2. window \in Nat
  BY DEF GetMarketDisputeWindow, TypeOK, MarketTypeOK, Config
<1>3. extended \in Nat
  BY <1>1, <1>2 DEF MarketRecord
<1>4. UpdateMarket(m, rec) /\ mk.status = "PendingResolution"
      /\ now < mk.pending_resolution_timestamp + window
  BY DEF FileDispute
<1>5. UNCHANGED <<now, market_count, market_dispute_window>>
  BY DEF FileDispute, OnlyMarketChanges, ledgerVars
<1> HIDE DEF extended
<1>6. rec \in MarketRecord
  BY <1>1, <1>3, DisputedType
<1>7. /\ rec.status = "Disputed" /\ rec.winning_outcome = mk.winning_outcome
      /\ rec.pending_resolution_timestamp = mk.pending_resolution_timestamp
      /\ rec.dispute_timestamp = now /\ rec.resolved_at = mk.resolved_at
  BY <1>1 DEF MarketRecord
<1>8. /\ rec.parent_id = mk.parent_id
      /\ rec.parent_outcome_idx = mk.parent_outcome_idx
      /\ rec.options = mk.options
  BY <1>1 DEF MarketRecord
<1> HIDE DEF rec
<1>9. Rewrites(m, rec)
  BY <1>4, <1>5, <1>6, <1>7, <1>8 DEF Rewrites, Exists, MarketStatus
<1>10. DisputedBy(rec, mk, window)
  BY <1>4, <1>7 DEF DisputedBy
<1>11. QED
  BY <1>6, <1>9, <1>10

(* finalize_resolution settles a market on the winner it was waiting with. *)
LEMMA FinalizeForm ==
  ASSUME TypeOK, NEW m \in MarketIds, FinalizePending(m)
  PROVE  \E rec \in MarketRecord : Rewrites(m, rec) /\ Settled(rec, market[m])
<1> DEFINE mk == market[m]
           rec == [mk EXCEPT !.status = "Resolved", !.resolved_at = now]
<1>1. mk \in MarketRecord /\ now \in Nat
  BY LedgerAssumption DEF LedgerAssumption, TypeOK, MarketTypeOK, LedgerTypeOK
<1>2. /\ UpdateMarket(m, rec) /\ mk.status = "PendingResolution"
      /\ mk.winning_outcome \in Nat
  BY <1>1 DEF FinalizePending, MarketRecord
<1>3. UNCHANGED <<now, market_count, market_dispute_window>>
  BY DEF FinalizePending, OnlyMarketChanges, ledgerVars
<1>4. rec \in MarketRecord
  BY <1>1 DEF MarketRecord, MarketStatus
<1>5. /\ rec.status = "Resolved" /\ rec.winning_outcome = mk.winning_outcome
      /\ rec.pending_resolution_timestamp = mk.pending_resolution_timestamp
      /\ rec.dispute_timestamp = mk.dispute_timestamp /\ rec.resolved_at = now
  BY <1>1 DEF MarketRecord
<1>6. /\ rec.parent_id = mk.parent_id
      /\ rec.parent_outcome_idx = mk.parent_outcome_idx
      /\ rec.options = mk.options /\ rec.resolution_deadline = mk.resolution_deadline
  BY <1>1 DEF MarketRecord
<1> HIDE DEF rec
<1>7. Rewrites(m, rec)
  BY <1>2, <1>3, <1>4, <1>5, <1>6 DEF Rewrites, Exists, MarketStatus
<1>8. Settled(rec, mk)
  BY <1>2, <1>5, <1>6 DEF Settled
<1>9. QED
  BY <1>4, <1>7, <1>8

(* resolve_market settles a market on the admin's choice. *)
LEMMA ResolveForm ==
  ASSUME TypeOK, NEW m \in MarketIds, NEW outcome \in Outcomes, ResolveMarket(m, outcome)
  PROVE  \E rec \in MarketRecord : Rewrites(m, rec) /\ Settled(rec, market[m])
<1> DEFINE mk == market[m]
           rec == [mk EXCEPT !.status = "Resolved", !.winning_outcome = outcome,
                             !.resolved_at = now]
<1>1. mk \in MarketRecord /\ now \in Nat /\ outcome \in Nat
  BY LedgerAssumption
  DEF LedgerAssumption, TypeOK, MarketTypeOK, LedgerTypeOK, Outcomes
<1>2. UpdateMarket(m, rec) /\ mk.status \in {"Active", "PendingResolution", "Disputed"}
  BY <1>1 DEF ResolveMarket, Exists, Terminal, MarketRecord, MarketStatus
<1>3. UNCHANGED <<now, market_count, market_dispute_window>>
  BY DEF ResolveMarket, OnlyMarketChanges, ledgerVars
<1>4. rec \in MarketRecord
  BY <1>1 DEF MarketRecord, MarketStatus
<1>5. /\ rec.status = "Resolved" /\ rec.winning_outcome = outcome
      /\ rec.pending_resolution_timestamp = mk.pending_resolution_timestamp
      /\ rec.dispute_timestamp = mk.dispute_timestamp /\ rec.resolved_at = now
  BY <1>1 DEF MarketRecord
<1>6. /\ rec.parent_id = mk.parent_id
      /\ rec.parent_outcome_idx = mk.parent_outcome_idx
      /\ rec.options = mk.options /\ rec.resolution_deadline = mk.resolution_deadline
  BY <1>1 DEF MarketRecord
<1> HIDE DEF rec
<1>7. Rewrites(m, rec)
  BY <1>2, <1>3, <1>4, <1>5, <1>6 DEF Rewrites, Exists, MarketStatus
<1>8. Settled(rec, mk)
  BY <1>1, <1>2, <1>5, <1>6 DEF Settled
<1>9. QED
  BY <1>4, <1>7, <1>8

(* cancel_market_admin *)
LEMMA CancelForm ==
  ASSUME TypeOK, NEW m \in MarketIds, CancelMarketAdmin(m)
  PROVE  \E rec \in MarketRecord : Rewrites(m, rec) /\ CancelledBy(rec, market[m])
<1> DEFINE mk == market[m]
           rec == [mk EXCEPT !.status = "Cancelled"]
<1>1. mk \in MarketRecord
  BY DEF TypeOK, MarketTypeOK
<1>2. UpdateMarket(m, rec) /\ mk.status \in {"Active", "PendingResolution", "Disputed"}
  BY <1>1 DEF CancelMarketAdmin, Exists, Terminal, MarketRecord, MarketStatus
<1>3. UNCHANGED <<now, market_count, market_dispute_window>>
  BY DEF CancelMarketAdmin, OnlyMarketChanges, ledgerVars
<1>4. rec \in MarketRecord
  BY <1>1 DEF MarketRecord, MarketStatus
<1>5. /\ rec.status = "Cancelled" /\ rec.winning_outcome = mk.winning_outcome
      /\ rec.pending_resolution_timestamp = mk.pending_resolution_timestamp
      /\ rec.dispute_timestamp = mk.dispute_timestamp /\ rec.resolved_at = mk.resolved_at
  BY <1>1 DEF MarketRecord
<1>6. /\ rec.parent_id = mk.parent_id
      /\ rec.parent_outcome_idx = mk.parent_outcome_idx
      /\ rec.options = mk.options /\ rec.resolution_deadline = mk.resolution_deadline
  BY <1>1 DEF MarketRecord
<1> HIDE DEF rec
<1>7. Rewrites(m, rec)
  BY <1>2, <1>3, <1>4, <1>5, <1>6 DEF Rewrites, Exists, MarketStatus
<1>8. CancelledBy(rec, mk)
  BY <1>2, <1>5, <1>6 DEF CancelledBy
<1>9. QED
  BY <1>4, <1>7, <1>8

(* release_creation_deposit leaves the life of the market alone. *)
LEMMA DepositForm ==
  ASSUME TypeOK, NEW m \in MarketIds, NEW t \in Tokens, ReleaseCreationDeposit(m, t)
  PROVE  \E rec \in MarketRecord : Rewrites(m, rec) /\ Kept(rec, market[m])
<1> DEFINE mk == market[m]
           rec == [mk EXCEPT !.creation_deposit = 0]
<1>1. mk \in MarketRecord
  BY DEF TypeOK, MarketTypeOK
<1>2. UpdateMarket(m, rec) /\ mk.status = "Resolved"
  BY DEF ReleaseCreationDeposit
<1>3. UNCHANGED <<now, market_count, market_dispute_window>>
  BY DEF ReleaseCreationDeposit
<1>4. rec \in MarketRecord
  BY <1>1 DEF MarketRecord, MarketStatus
<1>5. /\ rec.status = mk.status /\ rec.winning_outcome = mk.winning_outcome
      /\ rec.pending_resolution_timestamp = mk.pending_resolution_timestamp
      /\ rec.dispute_timestamp = mk.dispute_timestamp /\ rec.resolved_at = mk.resolved_at
  BY <1>1 DEF MarketRecord
<1>6. /\ rec.parent_id = mk.parent_id
      /\ rec.parent_outcome_idx = mk.parent_outcome_idx
      /\ rec.options = mk.options /\ rec.resolution_deadline = mk.resolution_deadline
  BY <1>1 DEF MarketRecord
<1>7. rec.total_staked = mk.total_staked /\ rec.outcome_stakes = mk.outcome_stakes
  BY <1>1 DEF MarketRecord
<1> HIDE DEF rec
<1>8. Rewrites(m, rec)
  BY <1>2, <1>3, <1>4, <1>5, <1>6 DEF Rewrites, Exists, MarketStatus
<1>9. Kept(rec, mk)
  BY <1>2, <1>5, <1>6, <1>7 DEF Kept
<1>10. QED
  BY <1>4, <1>8, <1>9

(* Every step on one market either leaves all markets alone, prunes it or  *)
(* rewrites its record in one of the five forms.                           *)
LEMMA MarketStepForm ==
  ASSUME TypeOK, NEW m \in MarketIds, MarketStep(m)
  PROVE  \/ UNCHANGED <<now, market, market_count, market_dispute_window, status_index>>
         \/ PruneMarket(m)
         \/ \E rec \in MarketRecord :
              Rewrites(m, rec) /\ Form(rec, market[m], GetMarketDisputeWindow(m))
<1>1. CASE \E i \in OracleIds, outcome \in OracleOutcomes : SetOracleResult(m, i, outcome)
  BY <1>1 DEF SetOracleResult, ledgerVars
<1>2. CASE \E u \in Bettors, o \in Outcomes, amount \in Amounts, r \in Referrers :
             PlaceBet(u, m, o, amount, r)
  BY <1>2, PlaceBetForm DEF Form
<1>3. CASE AttemptOracleResolution(m)
  BY <1>3, OracleForm DEF Form
<1>4. CASE FileDispute(m)
  BY <1>4, DisputeForm DEF Form
<1>5. CASE FinalizePending(m)
  BY <1>5, FinalizeForm DEF Form
<1>6. CASE \E outcome \in Outcomes : ResolveMarket(m, outcome)
  BY <1>6, ResolveForm DEF Form
<1>7. CASE CancelMarketAdmin(m)
  BY <1>7, CancelForm DEF Form
<1>8. CASE \E t \in Tokens : ReleaseCreationDeposit(m, t)
  BY <1>8, DepositForm DEF Form
<1>9. QED
  BY <1>1, <1>2, <1>3, <1>4, <1>5, <1>6, <1>7, <1>8 DEF MarketStep

(* A record in one of the five forms has times that agree with its status. *)
LEMMA FormTimes ==
  ASSUME TypeOK, LifeInv, NEW m \in MarketIds, NEW rec \in MarketRecord, Exists(m),
         Form(rec, market[m], GetMarketDisputeWindow(m))
  PROVE  /\ TimesAgree(rec, market_dispute_window[m])
         /\ PastTimes(rec, now)
         /\ market[m].status = "Resolved" =>
              /\ rec.status = "Resolved"
              /\ rec.winning_outcome = market[m].winning_outcome
              /\ rec.resolved_at = market[m].resolved_at
              /\ rec.resolution_deadline = market[m].resolution_deadline
<1> DEFINE mk == market[m]
           window == market_dispute_window[m]
<1>1. /\ now \in Nat /\ window \in Nat
      /\ GetMarketDisputeWindow(m) = window
  BY LedgerAssumption
  DEF LedgerAssumption, TypeOK, LedgerTypeOK, MarketTypeOK, LifeInv,
      GetMarketDisputeWindow, None
<1>2. /\ mk.pending_resolution_timestamp \in Nat \cup {None}
      /\ mk.dispute_timestamp \in Nat \cup {None}
      /\ mk.resolved_at \in Nat \cup {None}
      /\ mk.resolution_deadline \in Nat
      /\ rec.resolution_deadline \in Nat
  BY DEF TypeOK, MarketTypeOK, MarketRecord
<1>3. TimesAgree(mk, window) /\ PastTimes(mk, now)
  BY DEF LifeInv, TimesAgreeWithStatus
<1>4. Form(rec, mk, window)
  BY <1>1
<1>5. OracleOutcomes \subseteq Nat
  BY MarketAssumption DEF MarketAssumption
<1> HIDE DEF mk, window
<1>6. CASE Kept(rec, mk)
  BY <1>1, <1>2, <1>3, <1>6 DEF Kept, TimesAgree, PastTimes, mk, window
<1>7. CASE Proposed(rec, mk)
  BY <1>1, <1>2, <1>3, <1>5, <1>7 DEF Proposed, TimesAgree, PastTimes, None, mk, window
<1>8. CASE DisputedBy(rec, mk, window)
  BY <1>1, <1>2, <1>3, <1>8 DEF DisputedBy, TimesAgree, PastTimes, None, mk, window
<1>9. CASE Settled(rec, mk)
  BY <1>1, <1>2, <1>3, <1>9 DEF Settled, TimesAgree, PastTimes, None, mk, window
<1>10. CASE CancelledBy(rec, mk)
  BY <1>1, <1>2, <1>3, <1>10 DEF CancelledBy, TimesAgree, PastTimes, None, mk, window
<1>11. QED
  BY <1>4, <1>6, <1>7, <1>8, <1>9, <1>10 DEF Form

(* Every step of the contract keeps the invariant of the markets' lives. *)
LEMMA StepLife ==
  ASSUME TypeOK, TypeOK', LifeInv, [Next]_vars
  PROVE  LifeInv'
<1>1. now \in Nat /\ now' \in Nat
  BY LedgerAssumption DEF LedgerAssumption, TypeOK, LedgerTypeOK
<1>2. CASE Tick
  <2>1. /\ UNCHANGED <<market, market_count, market_dispute_window, status_index>>
        /\ now' >= now
    BY <1>1, <1>2 DEF Tick, AdvanceClock, marketVars
  <2>2. QED
    BY <1>1, <2>1, SameMarketsLife
<1>3. CASE \E c \in Creators, r \in Requests : CreateMarket(c, r)
  BY <1>3, CreateLife
<1>4. ASSUME NEW m \in MarketIds, MarketStep(m)
      PROVE  LifeInv'
  <2>1. CASE UNCHANGED <<now, market, market_count, market_dispute_window, status_index>>
    BY <1>1, <2>1, SameMarketsLife
  <2>2. CASE PruneMarket(m)
    BY <2>2, PruneLife
  <2>3. ASSUME NEW rec \in MarketRecord, Rewrites(m, rec),
               Form(rec, market[m], GetMarketDisputeWindow(m))
        PROVE  LifeInv'
    BY <2>3, FormTimes, RewriteLife DEF Rewrites
  <2>4. QED
    BY <1>4, <2>1, <2>2, <2>3, MarketStepForm
<1>5. CASE \/ FeeStep \/ BreakerStep \/ Configure \/ UNCHANGED vars
           \/ \E u \in Creators, rep \in Reputations : SetCreatorReputation(u, rep)
  <2>1. UNCHANGED <<now, market, market_count, market_dispute_window, status_index>>
    BY <1>5 DEF FeeStep, SetBaseFee, WithdrawProtocolFees, ClaimReferralRewards, Pay,
                BreakerStep, Configure, SetCreatorReputation, vars, marketVars,
                ledgerVars, feeVars
  <2>2. QED
    BY <1>1, <2>1, SameMarketsLife
<1>6. QED
  BY <1>2, <1>3, <1>4, <1>5 DEF Next

(* The invariant behind the markets' lives holds in every reachable state. *)
THEOREM LifeCorrect == Spec => []LifeInv
<1>1. Init => TypeOK /\ LifeInv
  BY InitType, InitLife
<1>2. TypeOK /\ LifeInv /\ [Next]_vars => TypeOK' /\ LifeInv'
  BY StepType, StepLife
<1>3. QED
  BY <1>1, <1>2, PTL DEF Spec

(* update_market, create_market and prune_market between them keep the     *)
(* status index exact: what get_markets_by_status pages through is always  *)
(* every stored market under its current status and nothing else.          *)
THEOREM StatusIndexCorrect == Spec => []StatusIndexExact
<1>1. LifeInv => StatusIndexExact
  BY DEF LifeInv
<1>2. QED
  BY <1>1, LifeCorrect, PTL

(* The statuses and times of every market agree for every configuration of *)
(* windows, deadlines and oracles.                                         *)
THEOREM TimesCorrect == Spec => []TimesAgreeWithStatus
<1>1. LifeInv => TimesAgreeWithStatus
  BY DEF LifeInv
<1>2. QED
  BY <1>1, LifeCorrect, PTL

(* The premise of a conditional market, checked once at creation, stands   *)
(* for as long as the parent is stored.                                    *)
THEOREM ParentOutcomeCorrect == Spec => []ParentOutcomeStands
<1>1. LifeInv => ParentOutcomeStands
  BY DEF LifeInv
<1>2. QED
  BY <1>1, LifeCorrect, PTL

(* No conditional market hangs on a parent that the oracle settled without *)
(* a dispute.                                                              *)
THEOREM OracleSettledCorrect == Spec => []OracleSettledHasNoChild
<1>1. TypeOK /\ LifeInv => OracleSettledHasNoChild
  <2> SUFFICES ASSUME TypeOK, LifeInv, NEW m \in MarketIds, NEW p \in MarketIds,
                      Exists(m), market[m].parent_id = p, Exists(p),
                      market[p].pending_resolution_timestamp # None,
                      market[p].dispute_timestamp = None,
                      market[p].resolved_at >=
                        market[p].pending_resolution_timestamp + market_dispute_window[p]
               PROVE  FALSE
    BY DEF OracleSettledHasNoChild
  <2>1. market[p].resolved_at < market[p].resolution_deadline
    BY DEF LifeInv, ParentSettledEarly, MarketIds
  <2>2. market[p].pending_resolution_timestamp >= market[p].resolution_deadline
    BY DEF LifeInv, TimesAgreeWithStatus, TimesAgree
  <2>3. /\ market[p].pending_resolution_timestamp \in Nat
        /\ market[p].resolved_at \in Nat \cup {None}
        /\ market[p].resolution_deadline \in Nat
        /\ market_dispute_window[p] \in Nat
    BY DEF TypeOK, MarketTypeOK, MarketRecord, LifeInv
  <2>4. QED
    BY <2>1, <2>2, <2>3 DEF None
<1>2. QED
  BY <1>1, TypeCorrect, LifeCorrect, PTL

(* What a step may do to a market that is settled. *)
Frozen(m) ==
  market[m].status \in Terminal =>
    \/ market'[m].status = "Absent" /\ market[m].status = "Resolved"
    \/ \A f \in {"status", "winning_outcome", "total_staked", "outcome_stakes",
                 "resolved_at", "resolution_deadline", "options"} :
         market'[m][f] = market[m][f]

(* No step touches a settled market, except to prune it. *)
LEMMA StepFrozen ==
  ASSUME TypeOK, LifeInv, [Next]_vars, NEW m \in MarketIds
  PROVE  Frozen(m)
<1>1. CASE UNCHANGED market
  BY <1>1 DEF Frozen
<1>2. ASSUME NEW c \in Creators, NEW r \in Requests, CreateMarket(c, r)
      PROVE  Frozen(m)
  <2>1. market_count \in Nat /\ m \in Nat
    BY DEF TypeOK, MarketTypeOK, MarketIds
  <2>2. Exists(m) => m # market_count + 1
    BY <2>1 DEF LifeInv, CountCoversMarkets
  <2>3. market' = [market EXCEPT ![market_count + 1] =
                     Market(c, r, DepositDue(reputation[c]))]
    BY <1>2 DEF CreateMarket
  <2>4. Exists(m) => market'[m] = market[m]
    BY <2>2, <2>3 DEF TypeOK, MarketTypeOK
  <2>5. QED
    BY <2>4 DEF Frozen, Exists, Terminal
<1>3. ASSUME NEW k \in MarketIds, MarketStep(k)
      PROVE  Frozen(m)
  <2>1. CASE UNCHANGED <<now, market, market_count, market_dispute_window, status_index>>
    BY <2>1 DEF Frozen
  <2>2. CASE PruneMarket(k)
    <3>1. /\ market[k].status = "Resolved" /\ market'[k] = NoMarket
          /\ m # k => market'[m] = market[m]
      BY <2>2 DEF PruneMarket, TypeOK, MarketTypeOK
    <3>2. NoMarket.status = "Absent"
      BY DEF NoMarket, Market
    <3>3. QED
      BY <3>1, <3>2 DEF Frozen
  <2>3. ASSUME NEW rec \in MarketRecord, Rewrites(k, rec),
               Form(rec, market[k], GetMarketDisputeWindow(k))
        PROVE  Frozen(m)
    <3>1. market'[k] = rec /\ (m # k => market'[m] = market[m])
      BY <2>3 DEF Rewrites, UpdateMarket, TypeOK, MarketTypeOK
    <3>2. market[k].status \in Terminal => Kept(rec, market[k])
      BY <2>3 DEF Form, Proposed, DisputedBy, Settled, CancelledBy, Terminal
    <3>3. CASE m = k
      BY <2>3, <3>1, <3>2, <3>3 DEF Frozen, Kept, Rewrites, Terminal
    <3>4. CASE m # k
      BY <3>1, <3>4 DEF Frozen
    <3>5. QED
      BY <3>3, <3>4
  <2>4. QED
    BY <1>3, <2>1, <2>2, <2>3, MarketStepForm
<1>4. CASE Tick \/ FeeStep \/ BreakerStep \/ Configure \/ UNCHANGED vars
           \/ \E u \in Creators, rep \in Reputations : SetCreatorReputation(u, rep)
  <2>1. UNCHANGED market
    BY <1>4 DEF Tick, FeeStep, BreakerStep, Configure, SetCreatorReputation, vars, marketVars
  <2>2. QED
    BY <1>1, <2>1
<1>5. QED
  BY <1>2, <1>3, <1>4 DEF Next

(* INVARIANTS.md section 3 for every instance: a resolved or cancelled     *)
(* market keeps its status, winner, stakes and times for ever, except that *)
(* a resolved one may be pruned.                                           *)
THEOREM TerminalCorrect == Spec => TerminalFrozen
<1>1. TypeOK /\ LifeInv /\ [Next]_vars => [\A m \in MarketIds : Frozen(m)]_vars
  BY StepFrozen
<1>2. QED
  BY <1>1, TypeCorrect, LifeCorrect, PTL DEF Spec, TerminalFrozen, Frozen
------------------------------------------------------------------------------
(* The contract's core implements MarketStatus: every step of every        *)
(* entrypoint is a step of the abstract life of one market, or changes no  *)
(* market's status and winner.                                             *)

(* Without markets every identifier is unused. *)
LEMMA InitRefines == Init => Status!Init
<1> SUFFICES ASSUME Init PROVE Status!Init
  OBVIOUS
<1>1. \A m \in MarketIds : market[m] = NoMarket
  BY DEF Init, MarketInit
<1>2. NoMarket.status = "Absent" /\ NoMarket.winning_outcome = None
  BY DEF NoMarket, Market
<1>3. market_count = 0 /\ \A m \in MarketIds : ~(m =< market_count)
  BY DEF Init, MarketInit, MarketIds
<1>4. AbstractStatus = [m \in MarketIds |-> "Unused"]
  BY <1>1, <1>2, <1>3 DEF AbstractStatus, Exists
<1>5. [m \in MarketIds |-> market[m].winning_outcome] = [m \in MarketIds |-> None]
  BY <1>1, <1>2
<1>6. QED
  BY <1>4, <1>5 DEF Status!Init

(* A step that leaves the markets and their count alone is a stutter. *)
LEMMA SameMarketsRefines ==
  ASSUME UNCHANGED <<market, market_count>>
  PROVE  UNCHANGED Status!vars
BY DEF Status!vars, AbstractStatus, Exists

(* A change of one market is a move of that market alone. *)
LEMMA OneMarketMoves ==
  ASSUME NEW m \in MarketIds, NEW status, NEW winner,
         \A k \in MarketIds : k # m =>
           /\ market'[k].winning_outcome = market[k].winning_outcome
           /\ AbstractStatus'[k] = AbstractStatus[k],
         AbstractStatus'[m] = status, market'[m].winning_outcome = winner
  PROVE  Status!Move(m, status, winner)
<1>1. AbstractStatus' = [AbstractStatus EXCEPT ![m] = status]
  BY DEF AbstractStatus
<1>2. [k \in MarketIds |-> market[k].winning_outcome]' =
        [[k \in MarketIds |-> market[k].winning_outcome] EXCEPT ![m] = winner]
  OBVIOUS
<1>3. QED
  BY <1>1, <1>2 DEF Status!Move

(* create_market takes the next identifier. *)
LEMMA CreateRefines ==
  ASSUME TypeOK, LifeInv, NEW c \in Creators, NEW r \in Requests, CreateMarket(c, r)
  PROVE  Status!Next
<1> DEFINE new == Market(c, r, DepositDue(reputation[c]))
<1>1. MaxMarkets \in Nat /\ market_count \in 0..MaxMarkets /\ market_count < MaxMarkets
  BY MarketAssumption DEF MarketAssumption, CreateMarket, TypeOK, MarketTypeOK
<1>2. PICK id \in MarketIds : id = market_count + 1
  BY <1>1 DEF MarketIds
<1>3. market' = [market EXCEPT ![id] = new] /\ market_count' = id
  BY <1>2 DEF CreateMarket
<1>4. new.status = "Active" /\ new.winning_outcome = None
  BY DEF Market
<1> HIDE DEF new
<1>5. /\ market'[id] = new
      /\ \A k \in MarketIds : k # id => market'[k] = market[k]
  BY <1>2, <1>3 DEF TypeOK, MarketTypeOK
<1>6. \A k \in MarketIds : k \in Int /\ (Exists(k) => k =< market_count)
  BY DEF LifeInv, CountCoversMarkets, MarketIds
<1>7. \A k \in MarketIds : AbstractStatus[k] = "Unused" <=> k >= id
  <2> SUFFICES ASSUME NEW k \in MarketIds
               PROVE  AbstractStatus[k] = "Unused" <=> k >= id
    OBVIOUS
  <2>1. Exists(k) => market[k].status # "Unused"
    BY DEF TypeOK, MarketTypeOK, MarketRecord, MarketStatus
  <2>2. QED
    BY <2>1, <1>1, <1>2, <1>6 DEF AbstractStatus
<1>8. AbstractStatus'[id] = "Active"
  BY <1>2, <1>4, <1>5 DEF AbstractStatus, Exists
<1>9. \A k \in MarketIds : k # id => AbstractStatus'[k] = AbstractStatus[k]
  <2> SUFFICES ASSUME NEW k \in MarketIds, k # id
               PROVE  AbstractStatus'[k] = AbstractStatus[k]
    OBVIOUS
  <2>1. market'[k] = market[k] /\ (k =< market_count' <=> k =< market_count)
    BY <1>1, <1>2, <1>3, <1>5, <1>6
  <2>2. QED
    BY <2>1 DEF AbstractStatus, Exists
<1>10. Status!Move(id, "Active", None)
  BY <1>2, <1>4, <1>5, <1>8, <1>9, OneMarketMoves
<1>11. Status!Create(id)
  BY <1>7, <1>10 DEF Status!Create
<1>12. QED
  BY <1>11 DEF Status!Next

(* prune_market retires a resolved market's identifier. *)
LEMMA PruneRefines ==
  ASSUME TypeOK, LifeInv, NEW m \in MarketIds, PruneMarket(m)
  PROVE  Status!Next
<1>1. /\ market[m].status = "Resolved" /\ market'[m] = NoMarket
      /\ market_count' = market_count
      /\ \A k \in MarketIds : k # m => market'[k] = market[k]
  BY DEF PruneMarket, TypeOK, MarketTypeOK
<1>2. NoMarket.status = "Absent" /\ NoMarket.winning_outcome = None
  BY DEF NoMarket, Market
<1>3. m =< market_count /\ AbstractStatus[m] = "Resolved"
  BY <1>1 DEF LifeInv, CountCoversMarkets, Exists, AbstractStatus
<1>4. AbstractStatus'[m] = "Pruned"
  BY <1>1, <1>2, <1>3 DEF AbstractStatus, Exists
<1>5. \A k \in MarketIds : k # m => AbstractStatus'[k] = AbstractStatus[k]
  BY <1>1 DEF AbstractStatus, Exists
<1>6. Status!Move(m, "Pruned", None)
  BY <1>1, <1>2, <1>4, <1>5, OneMarketMoves
<1>7. Status!Prune(m)
  BY <1>3, <1>6 DEF Status!Prune
<1>8. QED
  BY <1>7 DEF Status!Next

(* A rewritten record in one of the five forms moves its market along.     *)
LEMMA FormRefines ==
  ASSUME TypeOK, NEW m \in MarketIds, NEW rec \in MarketRecord, NEW window,
         Rewrites(m, rec), Form(rec, market[m], window)
  PROVE  Status!Next \/ UNCHANGED Status!vars
<1>1. /\ market'[m] = rec /\ market_count' = market_count
      /\ \A k \in MarketIds : k # m => market'[k] = market[k]
  BY DEF Rewrites, UpdateMarket, TypeOK, MarketTypeOK
<1>2. /\ AbstractStatus[m] = market[m].status
      /\ AbstractStatus'[m] = rec.status
  BY <1>1 DEF Rewrites, AbstractStatus, Exists, MarketStatus
<1>3. \A k \in MarketIds : k # m => AbstractStatus'[k] = AbstractStatus[k]
  BY <1>1 DEF AbstractStatus, Exists
<1>4. Status!Move(m, rec.status, rec.winning_outcome)
  BY <1>1, <1>2, <1>3, OneMarketMoves
<1>5. rec.winning_outcome = market[m].winning_outcome => Status!MoveOnly(m, rec.status)
  <2> SUFFICES ASSUME rec.winning_outcome = market[m].winning_outcome
               PROVE  Status!MoveOnly(m, rec.status)
    OBVIOUS
  <2>1. \A k \in MarketIds : market'[k].winning_outcome = market[k].winning_outcome
    BY <1>1
  <2>2. [k \in MarketIds |-> market[k].winning_outcome]' =
          [k \in MarketIds |-> market[k].winning_outcome]
    BY <2>1
  <2>3. AbstractStatus' = [AbstractStatus EXCEPT ![m] = rec.status]
    BY <1>2, <1>3 DEF AbstractStatus
  <2>4. QED
    BY <2>2, <2>3 DEF Status!MoveOnly
<1>6. CASE Kept(rec, market[m])
  <2>1. \A k \in MarketIds : market'[k].winning_outcome = market[k].winning_outcome
    BY <1>1, <1>6 DEF Kept
  <2>2. \A k \in MarketIds : AbstractStatus'[k] = AbstractStatus[k]
    BY <1>2, <1>3, <1>6 DEF Kept
  <2>3. AbstractStatus' = AbstractStatus
    BY <2>2 DEF AbstractStatus
  <2>4. QED
    BY <2>1, <2>3 DEF Status!vars
<1>7. CASE Proposed(rec, market[m])
  <2>1. Status!Propose(m, rec.winning_outcome)
    BY <1>2, <1>4, <1>7 DEF Proposed, Status!Propose
  <2>2. QED
    BY <2>1, <1>7 DEF Proposed, Status!Next
<1>8. CASE DisputedBy(rec, market[m], window)
  <2>1. Status!Dispute(m)
    BY <1>2, <1>5, <1>8 DEF DisputedBy, Status!Dispute
  <2>2. QED
    BY <2>1 DEF Status!Next
<1>9. CASE Settled(rec, market[m])
  <2>1. CASE rec.winning_outcome \in Outcomes
    <3>1. Status!Decide(m, rec.winning_outcome)
      BY <1>2, <1>4, <1>9 DEF Settled, Status!Decide, Status!Open
    <3>2. QED
      BY <2>1, <3>1 DEF Status!Next
  <2>2. CASE /\ market[m].status = "PendingResolution"
             /\ rec.winning_outcome = market[m].winning_outcome
    <3>1. Status!Accept(m)
      BY <1>2, <1>5, <1>9, <2>2 DEF Settled, Status!Accept
    <3>2. QED
      BY <3>1 DEF Status!Next
  <2>3. QED
    BY <1>9, <2>1, <2>2 DEF Settled
<1>10. CASE CancelledBy(rec, market[m])
  <2>1. Status!Cancel(m)
    BY <1>2, <1>5, <1>10 DEF CancelledBy, Status!Cancel, Status!Open
  <2>2. QED
    BY <2>1 DEF Status!Next
<1>11. QED
  BY <1>6, <1>7, <1>8, <1>9, <1>10 DEF Form

(* Every step of the contract is a step of the abstract life or a stutter. *)
LEMMA StepRefines ==
  ASSUME TypeOK, LifeInv, [Next]_vars
  PROVE  Status!Next \/ UNCHANGED Status!vars
<1>1. CASE \E c \in Creators, r \in Requests : CreateMarket(c, r)
  BY <1>1, CreateRefines
<1>2. ASSUME NEW m \in MarketIds, MarketStep(m)
      PROVE  Status!Next \/ UNCHANGED Status!vars
  <2>1. CASE UNCHANGED <<now, market, market_count, market_dispute_window, status_index>>
    BY <2>1, SameMarketsRefines
  <2>2. CASE PruneMarket(m)
    BY <2>2, PruneRefines
  <2>3. CASE \E rec \in MarketRecord :
               Rewrites(m, rec) /\ Form(rec, market[m], GetMarketDisputeWindow(m))
    BY <2>3, FormRefines
  <2>4. QED
    BY <1>2, <2>1, <2>2, <2>3, MarketStepForm
<1>3. CASE Tick \/ FeeStep \/ BreakerStep \/ Configure \/ UNCHANGED vars
           \/ \E u \in Creators, rep \in Reputations : SetCreatorReputation(u, rep)
  <2>1. UNCHANGED <<market, market_count>>
    BY <1>3 DEF Tick, FeeStep, BreakerStep, Configure, SetCreatorReputation, vars, marketVars
  <2>2. QED
    BY <2>1, SameMarketsRefines
<1>4. QED
  BY <1>1, <1>2, <1>3 DEF Next

(* Every behaviour of the contract's core is a behaviour of MarketStatus:  *)
(* no interleaving of oracle answers, disputes, admin decisions, bets,     *)
(* releases and prunes takes a market's status or winner along any other   *)
(* path, and no identifier is ever used twice.                             *)
THEOREM Refinement == Spec => ImplementsMarketStatus
<1>1. TypeOK /\ LifeInv /\ [Next]_vars => [Status!Next]_(Status!vars)
  BY StepRefines
<1>2. QED
  BY <1>1, InitRefines, TypeCorrect, LifeCorrect, PTL
  DEF Spec, ImplementsMarketStatus, Status!Spec
=============================================================================
