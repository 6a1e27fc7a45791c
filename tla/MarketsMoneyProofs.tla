------------------------- MODULE MarketsMoneyProofs -------------------------
(***************************************************************************)
(* Proofs about the money of the contract: what a market's stakes add up   *)
(* to, what the contract holds, and whom it counts as a bettor, for every  *)
(* number of markets, bettors, tokens and outcomes.                        *)
(***************************************************************************)
EXTENDS MarketsProofs, SumTheorems

(* Only finitely many bets can be on record.                               *)
LEMMA FiniteBooks ==
  /\ IsFiniteSet(Tokens) /\ IsFiniteSet(Bettors)
  /\ IsFiniteSet(MarketIds) /\ IsFiniteSet(Outcomes)
  <1>1. MaxMarkets \in Int /\ MAX_OUTCOMES_PER_MARKET - 1 \in Int
    BY MarketAssumption
  <1> QED
    BY <1>1, FS_Interval, MarketAssumption DEF MarketIds, Outcomes

-----------------------------------------------------------------------------
(* The steps that move money, and the others *)

(* The record of a market with the same books.                             *)
SameBooks(rec, mk) ==
  /\ rec.total_staked = mk.total_staked /\ rec.outcome_stakes = mk.outcome_stakes
  /\ rec.winner_counts = mk.winner_counts /\ rec.creation_deposit = mk.creation_deposit
  /\ rec.token_address = mk.token_address
  /\ (rec.status = "Absent") <=> (mk.status = "Absent")

(* A step that moves no money.                                             *)
Quiet ==
  /\ \A k \in MarketIds : SameBooks(market'[k], market[k])
  /\ UNCHANGED <<held, bet, fee_revenue, rewards_paid, surplus, swapped, market_count>>

(* A step that writes one record, with the same books, is quiet.           *)
LEMMA QuietUpdate ==
  ASSUME TypeOK, NEW m \in MarketIds, NEW rec, UpdateMarket(m, rec), OnlyMarketChanges,
         SameBooks(rec, market[m])
  PROVE  Quiet
  <1>1. \A k \in MarketIds : market'[k] = IF k = m THEN rec ELSE market[k]
    BY DEF UpdateMarket, TypeOK, MarketTypeOK
  <1>2. \A k \in MarketIds : SameBooks(market'[k], market[k])
    BY <1>1 DEF SameBooks
  <1> QED
    BY <1>2 DEF Quiet, OnlyMarketChanges, ledgerVars, feeVars

(* attempt_oracle_resolution, file_dispute, finalize_resolution,           *)
(* resolve_market and cancel_market_admin move no money.                   *)
LEMMA QuietMarketSteps ==
  ASSUME TypeOK, NEW m \in MarketIds,
         \/ AttemptOracleResolution(m) \/ FileDispute(m) \/ FinalizePending(m)
         \/ \E outcome \in Outcomes : ResolveMarket(m, outcome)
         \/ CancelMarketAdmin(m)
  PROVE  Quiet
  <1>1. PICK mk \in MarketRecord : mk = market[m]
    BY DEF TypeOK, MarketTypeOK
  <1>2. CASE AttemptOracleResolution(m)
    <2> DEFINE rec == [mk EXCEPT !.status = "PendingResolution",
                                 !.winning_outcome = oracle[m][0].result,
                                 !.pending_resolution_timestamp = now]
    <2>1. UpdateMarket(m, rec) /\ OnlyMarketChanges /\ mk.status = "Active"
      BY <1>1, <1>2 DEF AttemptOracleResolution
    <2>2. SameBooks(rec, mk)
      BY <1>1, <2>1 DEF SameBooks, MarketRecord
    <2> QED
      BY <1>1, <2>1, <2>2, QuietUpdate
  <1>3. CASE FileDispute(m)
    <2> DEFINE rec == [mk EXCEPT !.status = "Disputed", !.dispute_timestamp = now,
                                 !.resolution_deadline = @ + GetMarketDisputeWindow(m)]
    <2>1. UpdateMarket(m, rec) /\ OnlyMarketChanges /\ mk.status = "PendingResolution"
      BY <1>1, <1>3 DEF FileDispute
    <2>2. SameBooks(rec, mk)
      BY <1>1, <2>1 DEF SameBooks, MarketRecord
    <2> QED
      BY <1>1, <2>1, <2>2, QuietUpdate
  <1>4. CASE FinalizePending(m)
    <2> DEFINE rec == [mk EXCEPT !.status = "Resolved", !.resolved_at = now]
    <2>1. UpdateMarket(m, rec) /\ OnlyMarketChanges /\ mk.status = "PendingResolution"
      BY <1>1, <1>4 DEF FinalizePending
    <2>2. SameBooks(rec, mk)
      BY <1>1, <2>1 DEF SameBooks, MarketRecord
    <2> QED
      BY <1>1, <2>1, <2>2, QuietUpdate
  <1>5. ASSUME NEW outcome \in Outcomes, ResolveMarket(m, outcome) PROVE Quiet
    <2> DEFINE rec == [mk EXCEPT !.status = "Resolved", !.winning_outcome = outcome,
                                 !.resolved_at = now]
    <2>1. UpdateMarket(m, rec) /\ OnlyMarketChanges /\ mk.status # "Absent"
      BY <1>1, <1>5 DEF ResolveMarket, Exists
    <2>2. SameBooks(rec, mk)
      BY <1>1, <2>1 DEF SameBooks, MarketRecord
    <2> QED
      BY <1>1, <2>1, <2>2, QuietUpdate
  <1>6. CASE CancelMarketAdmin(m)
    <2> DEFINE rec == [mk EXCEPT !.status = "Cancelled"]
    <2>1. UpdateMarket(m, rec) /\ OnlyMarketChanges /\ mk.status # "Absent"
      BY <1>1, <1>6 DEF CancelMarketAdmin, Exists
    <2>2. SameBooks(rec, mk)
      BY <1>1, <2>1 DEF SameBooks, MarketRecord
    <2> QED
      BY <1>1, <2>1, <2>2, QuietUpdate
  <1> QED
    BY <1>2, <1>3, <1>4, <1>5, <1>6

(* The entrypoints that move money.                                        *)
MoneyStep ==
  \/ \E c \in Creators, r \in Requests : CreateMarket(c, r)
  \/ \E m \in MarketIds, u \in Bettors, o \in Outcomes, amount \in Amounts, r \in Referrers :
        PlaceBet(u, m, o, amount, r)
  \/ \E m \in MarketIds, t \in Tokens : ReleaseCreationDeposit(m, t)
  \/ \E m \in MarketIds : PruneMarket(m)
  \/ (\E t \in Tokens : WithdrawProtocolFees(t)) /\ UNCHANGED <<cb, marketVars>>
  \/ (\E u \in Users, t \in Tokens : ClaimReferralRewards(u, t)) /\ UNCHANGED <<cb, marketVars>>

(* Every other step is quiet.                                              *)
LEMMA MoneyOrQuiet == ASSUME TypeOK, [Next]_vars PROVE MoneyStep \/ Quiet
  <1>1. ASSUME UNCHANGED <<held, bet, fee_revenue, rewards_paid, surplus, swapped, market_count, market>>
        PROVE  Quiet
    BY <1>1 DEF Quiet, SameBooks
  <1>2. CASE \/ Tick \/ BreakerStep \/ Configure
             \/ \E u \in Creators, rep \in Reputations : SetCreatorReputation(u, rep)
             \/ UNCHANGED vars
    <2>1. UNCHANGED <<held, bet, fee_revenue, rewards_paid, surplus, swapped, market_count, market>>
      BY <1>2 DEF Tick, BreakerStep, Configure, SetCreatorReputation, vars, ledgerVars, feeVars,
                  marketVars
    <2> QED
      BY <1>1, <2>1
  <1>3. CASE FeeStep
    <2>1. CASE \E bps \in BaseFees : SetBaseFee(bps)
      <3>1. UNCHANGED <<held, bet, fee_revenue, rewards_paid, surplus, swapped, market_count, market>>
        BY <1>3, <2>1 DEF FeeStep, SetBaseFee, ledgerVars, marketVars
      <3> QED
        BY <1>1, <3>1
    <2> QED
      BY <1>3, <2>1 DEF FeeStep, MoneyStep
  <1>4. ASSUME NEW m \in MarketIds, MarketStep(m) PROVE MoneyStep \/ Quiet
    <2>1. CASE \E i \in OracleIds, outcome \in OracleOutcomes : SetOracleResult(m, i, outcome)
      <3>1. UNCHANGED <<held, bet, fee_revenue, rewards_paid, surplus, swapped, market_count, market>>
        BY <2>1 DEF SetOracleResult, ledgerVars, feeVars
      <3> QED
        BY <1>1, <3>1
    <2>2. CASE \/ AttemptOracleResolution(m) \/ FileDispute(m) \/ FinalizePending(m)
               \/ \E outcome \in Outcomes : ResolveMarket(m, outcome)
               \/ CancelMarketAdmin(m)
      BY <2>2, QuietMarketSteps
    <2>3. CASE \/ \E u \in Bettors, o \in Outcomes, amount \in Amounts, r \in Referrers :
                    PlaceBet(u, m, o, amount, r)
               \/ \E t \in Tokens : ReleaseCreationDeposit(m, t)
               \/ PruneMarket(m)
      BY <2>3 DEF MoneyStep
    <2> QED
      BY <1>4, <2>1, <2>2, <2>3 DEF MarketStep
  <1>5. CASE \E c \in Creators, r \in Requests : CreateMarket(c, r)
    BY <1>5 DEF MoneyStep
  <1> QED
    BY <1>2, <1>3, <1>4, <1>5 DEF Next
-----------------------------------------------------------------------------
(* The stakes of a market *)

(* The amounts bet on one outcome of one market.                           *)
BetsOn(m, o) == [u \in Bettors |-> bet[m][u][o].amount]

(* The stakes of one market, when it exists, are its bets.                 *)
BooksBalance(m) ==
  Exists(m) =>
    /\ \A o \in Outcomes : market[m].outcome_stakes[o] = SumFunctionOnSet(BetsOn(m, o), Bettors)
    /\ market[m].total_staked = SumFunctionOnSet(market[m].outcome_stakes, Outcomes)

(* The inductive invariant: a market has a token if and only if it is      *)
(* stored, a market not yet created has no bets, and the stakes are the    *)
(* bets.                                                                   *)
StakeInv ==
  /\ \A m \in MarketIds : Exists(m) => market[m].token_address \in Tokens
  /\ \A m \in MarketIds : ~Exists(m) => market[m].token_address = NoOne
  /\ \A m \in MarketIds : m > market_count =>
       \A u \in Bettors, o \in Outcomes : bet[m][u][o] = NoBet
  /\ \A m \in MarketIds : BooksBalance(m)

(* Amounts are integers.                                                   *)
LEMMA BetsOnType ==
  ASSUME TypeOK, NEW m \in MarketIds, NEW o \in Outcomes
  PROVE  /\ BetsOn(m, o) \in [Bettors -> Int]
         /\ \A u \in Bettors : BetsOn(m, o)[u] = bet[m][u][o].amount
  BY DEF BetsOn, TypeOK, MarketTypeOK

(* It is what the run checks.                                              *)
LEMMA StakeInvImplies ==
  ASSUME TypeOK, StakeInv PROVE StakeConservation
  <1> SUFFICES ASSUME NEW m \in MarketIds, Exists(m)
               PROVE  /\ \A o \in Outcomes :
                           market[m].outcome_stakes[o] = SumFunction([u \in Bettors |-> bet[m][u][o].amount])
                      /\ market[m].total_staked = SumFunction(market[m].outcome_stakes)
    BY DEF StakeConservation
  <1>1. DOMAIN market[m].outcome_stakes = Outcomes
    BY DEF TypeOK, MarketTypeOK, MarketRecord
  <1>2. \A o \in Outcomes : SumFunction([u \in Bettors |-> bet[m][u][o].amount]) =
                               SumFunctionOnSet(BetsOn(m, o), Bettors)
    BY DEF SumFunction, BetsOn
  <1>3. SumFunction(market[m].outcome_stakes) = SumFunctionOnSet(market[m].outcome_stakes, Outcomes)
    BY <1>1 DEF SumFunction
  <1> QED
    BY <1>2, <1>3 DEF StakeInv, BooksBalance

(* The contract starts without bets.                                       *)
LEMMA InitStakes == ASSUME Init PROVE StakeInv
  <1>1. \A m \in MarketIds : market[m] = NoMarket /\ ~Exists(m) /\ market[m].token_address = NoOne
    BY DEF Init, MarketInit, Exists, NoMarket, Market
  <1>2. \A m \in MarketIds, u \in Bettors, o \in Outcomes : bet[m][u][o] = NoBet
    BY DEF Init, MarketInit
  <1> QED
    BY <1>1, <1>2 DEF StakeInv, BooksBalance

(* A market whose books and bets are what they were.                       *)
LEMMA BooksSame ==
  ASSUME NEW k \in MarketIds, BooksBalance(k), SameBooks(market'[k], market[k]), bet'[k] = bet[k]
  PROVE  BooksBalance(k)'
  <1>1. Exists(k)' <=> Exists(k)
    BY DEF SameBooks, Exists
  <1>2. \A o : BetsOn(k, o)' = BetsOn(k, o)
    BY DEF BetsOn
  <1> QED
    BY <1>1, <1>2 DEF BooksBalance, SameBooks

(* A quiet step.                                                           *)
LEMMA QuietStakes == ASSUME StakeInv, Quiet PROVE StakeInv'
  <1>1. \A k \in MarketIds : SameBooks(market'[k], market[k]) /\ bet'[k] = bet[k]
    BY DEF Quiet
  <1>2. \A k \in MarketIds : BooksBalance(k)'
    BY <1>1, BooksSame DEF StakeInv
  <1>3. \A k \in MarketIds : /\ Exists(k)' <=> Exists(k)
                             /\ market'[k].token_address = market[k].token_address
    BY <1>1 DEF SameBooks, Exists
  <1> QED
    BY <1>2, <1>3 DEF StakeInv, Quiet

(* create_market: nobody has bet on the new market.                        *)
LEMMA CreateStakes ==
  ASSUME TypeOK, LifeInv, StakeInv, NEW c \in Creators, NEW r \in Requests, CreateMarket(c, r)
  PROVE  StakeInv'
  <1>1. MaxMarkets \in Nat /\ market_count \in 0..MaxMarkets /\ market_count < MaxMarkets
    BY MarketAssumption DEF CreateMarket, TypeOK, MarketTypeOK
  <1>2. PICK id \in MarketIds : id = market_count + 1
    BY <1>1 DEF MarketIds
  <1>3. PICK new : new = Market(c, r, DepositDue(reputation[c]))
    OBVIOUS
  <1>4. market' = [market EXCEPT ![id] = new] /\ market_count' = id /\ bet' = bet
    BY <1>2, <1>3 DEF CreateMarket
  <1>5. /\ new.status = "Active" /\ new.token_address \in Tokens /\ new.total_staked = 0
        /\ new.outcome_stakes = [o \in Outcomes |-> 0]
    BY <1>3 DEF Market, Requests
  <1>6. \A k \in MarketIds : market'[k] = IF k = id THEN new ELSE market[k]
    BY <1>4 DEF TypeOK, MarketTypeOK
  <1>7. \A u \in Bettors, o \in Outcomes : bet[id][u][o].amount = 0
    BY <1>1, <1>2 DEF StakeInv, NoBet
  <1>8. BooksBalance(id)'
    <2>1. ASSUME NEW o \in Outcomes PROVE SumFunctionOnSet(BetsOn(id, o)', Bettors) = 0
      <3>1. \A u \in Bettors : BetsOn(id, o)'[u] = 0
        BY <1>4, <1>7 DEF BetsOn
      <3> QED
        BY <3>1, SumZero, FiniteBooks
    <2>2. SumFunctionOnSet(new.outcome_stakes, Outcomes) = 0
      BY <1>5, SumZero, FiniteBooks
    <2> QED
      BY <1>5, <1>6, <2>1, <2>2 DEF BooksBalance
  <1>9. ASSUME NEW k \in MarketIds, k # id PROVE BooksBalance(k)'
    BY <1>4, <1>6, <1>9, BooksSame DEF StakeInv, SameBooks
  <1>10. \A k \in MarketIds : Exists(k)' => market'[k].token_address \in Tokens
    BY <1>5, <1>6 DEF StakeInv, Exists
  <1>11. \A k \in MarketIds : ~Exists(k)' => market'[k].token_address = NoOne
    BY <1>5, <1>6 DEF StakeInv, Exists
  <1>12. \A k \in MarketIds : k > id => \A u \in Bettors, o \in Outcomes : bet[k][u][o] = NoBet
    <2>1. \A k \in MarketIds : k > id => k > market_count
      BY <1>1, <1>2 DEF MarketIds
    <2> QED
      BY <2>1 DEF StakeInv
  <1> QED
    BY <1>4, <1>8, <1>9, <1>10, <1>11, <1>12 DEF StakeInv

(* prune_market: the bets stay, the market does not.                       *)
LEMMA PruneStakes ==
  ASSUME TypeOK, StakeInv, NEW m \in MarketIds, PruneMarket(m)
  PROVE  StakeInv'
  <1>1. market' = [market EXCEPT ![m] = NoMarket] /\ market_count' = market_count /\ bet' = bet
    BY DEF PruneMarket
  <1>2. NoMarket.status = "Absent" /\ NoMarket.token_address = NoOne
    BY DEF NoMarket, Market
  <1>3. \A k \in MarketIds : market'[k] = IF k = m THEN NoMarket ELSE market[k]
    BY <1>1 DEF TypeOK, MarketTypeOK
  <1>4. BooksBalance(m)'
    BY <1>2, <1>3 DEF BooksBalance, Exists
  <1>5. ASSUME NEW k \in MarketIds, k # m PROVE BooksBalance(k)'
    BY <1>1, <1>3, <1>5, BooksSame DEF StakeInv, SameBooks
  <1>6. \A k \in MarketIds : Exists(k)' => market'[k].token_address \in Tokens
    BY <1>2, <1>3 DEF StakeInv, Exists
  <1>7. \A k \in MarketIds : ~Exists(k)' => market'[k].token_address = NoOne
    BY <1>2, <1>3 DEF StakeInv, Exists
  <1> QED
    BY <1>1, <1>4, <1>5, <1>6, <1>7 DEF StakeInv

(* release_creation_deposit: the stakes of the market stay.                *)
LEMMA ReleaseStakes ==
  ASSUME TypeOK, StakeInv, NEW m \in MarketIds, NEW t \in Tokens, ReleaseCreationDeposit(m, t)
  PROVE  StakeInv'
  <1>1. PICK mk \in MarketRecord : mk = market[m]
    BY DEF TypeOK, MarketTypeOK
  <1>2. PICK rec : rec = [mk EXCEPT !.creation_deposit = 0]
    OBVIOUS
  <1>3. /\ market' = [market EXCEPT ![m] = rec] /\ market_count' = market_count /\ bet' = bet
        /\ mk.status = "Resolved"
    BY <1>1, <1>2 DEF ReleaseCreationDeposit, UpdateMarket
  <1>4. /\ rec.total_staked = mk.total_staked /\ rec.outcome_stakes = mk.outcome_stakes
        /\ rec.token_address = mk.token_address /\ rec.status = "Resolved"
    BY <1>1, <1>2, <1>3 DEF MarketRecord
  <1>5. \A k \in MarketIds : market'[k] = IF k = m THEN rec ELSE market[k]
    BY <1>3 DEF TypeOK, MarketTypeOK
  <1>6. Exists(m) /\ Exists(m)'
    BY <1>1, <1>3, <1>4, <1>5 DEF Exists
  <1>7. BooksBalance(m)'
    <2>1. \A o : BetsOn(m, o)' = BetsOn(m, o)
      BY <1>3 DEF BetsOn
    <2> QED
      BY <1>1, <1>4, <1>5, <1>6, <2>1 DEF StakeInv, BooksBalance
  <1>8. ASSUME NEW k \in MarketIds, k # m PROVE BooksBalance(k)'
    BY <1>3, <1>5, <1>8, BooksSame DEF StakeInv, SameBooks
  <1>9. \A k \in MarketIds : Exists(k)' => market'[k].token_address \in Tokens
    BY <1>1, <1>4, <1>5, <1>6 DEF StakeInv, Exists
  <1>10. \A k \in MarketIds : ~Exists(k)' => market'[k].token_address = NoOne
    BY <1>4, <1>5 DEF StakeInv, Exists
  <1> QED
    BY <1>3, <1>7, <1>8, <1>9, <1>10 DEF StakeInv

(* place_bet, field by field.                                              *)
BetTaken(u, m, o, amount, fee, net, rec) ==
  /\ net = amount - fee /\ Exists(m)
  /\ market' = [market EXCEPT ![m] = rec]
  /\ rec.total_staked = market[m].total_staked + net
  /\ rec.outcome_stakes = [market[m].outcome_stakes EXCEPT ![o] = @ + net]
  /\ rec.winner_counts = [market[m].winner_counts EXCEPT
                            ![o] = @ + (IF IsNewBettor(bet[m][u][o], net) THEN 1 ELSE 0)]
  /\ rec.creation_deposit = market[m].creation_deposit
  /\ rec.token_address = market[m].token_address
  /\ rec.status = "Active"
  /\ \A k \in MarketIds, v \in Bettors, q \in Outcomes :
       <<k, v, q>> # <<m, u, o>> => bet'[k][v][q] = bet[k][v][q]
  /\ bet'[m][u][o].amount = bet[m][u][o].amount + net
  /\ bet'[m][u][o].fee_paid = bet[m][u][o].fee_paid + fee
  /\ UNCHANGED <<market_count, rewards_paid, surplus, swapped>>

(* place_bet takes the bet, receives the amount and collects the fee.      *)
LEMMA BetForm ==
  ASSUME TypeOK, NEW u \in Bettors, NEW m \in MarketIds, NEW o \in Outcomes,
         NEW amount \in Amounts, NEW referrer \in Referrers,
         PlaceBet(u, m, o, amount, referrer)
  PROVE  \E fee \in Int, net \in Int, rec \in MarketRecord :
           /\ BetTaken(u, m, o, amount, fee, net, rec)
           /\ fee = CalculateTieredFee(amount, market[m].tier)
           /\ Receive(market[m].token_address, amount)
           /\ CollectFee(market[m].token_address, fee)
  <1>1. PICK mk \in MarketRecord : mk = market[m]
    BY DEF TypeOK, MarketTypeOK
  <1>2. mk.tier \in MarketTier /\ amount \in Int
    BY MarketAssumption DEF MarketRecord
  <1>3. PICK fee \in Int : fee = CalculateTieredFee(amount, mk.tier)
    BY <1>2, FeeType DEF TypeOK
  <1>4. PICK net \in Int : net = amount - fee
    BY <1>2, <1>3
  <1>5. PICK first \in BOOLEAN : first = IsNewBettor(bet[m][u][o], net)
    BY DEF IsNewBettor
  <1>6. PICK rec \in MarketRecord : rec = StakeOn(mk, o, net, first)
    BY StakeOnType
  <1>7. /\ market' = [market EXCEPT ![m] = rec] /\ mk.status = "Active"
        /\ bet' = [bet EXCEPT ![m][u][o] = BetAfter(@, net, fee, referrer)]
        /\ Receive(mk.token_address, amount) /\ CollectFee(mk.token_address, fee)
        /\ UNCHANGED <<market_count, rewards_paid, surplus, swapped>>
    BY <1>1, <1>3, <1>4, <1>5, <1>6, Zenon DEF PlaceBet, UpdateMarket
  <1>8. /\ rec.total_staked = mk.total_staked + net
        /\ rec.outcome_stakes = [mk.outcome_stakes EXCEPT ![o] = @ + net]
        /\ rec.creation_deposit = mk.creation_deposit
        /\ rec.token_address = mk.token_address /\ rec.status = "Active"
    BY <1>6, <1>7 DEF StakeOn, MarketRecord
  <1>9. rec.winner_counts = [mk.winner_counts EXCEPT ![o] = @ + (IF first THEN 1 ELSE 0)]
    BY <1>6 DEF StakeOn, MarketRecord
  <1>10. /\ \A k \in MarketIds, v \in Bettors, q \in Outcomes :
             <<k, v, q>> # <<m, u, o>> => bet'[k][v][q] = bet[k][v][q]
         /\ bet'[m][u][o] = BetAfter(bet[m][u][o], net, fee, referrer)
    BY <1>7 DEF TypeOK, MarketTypeOK
  <1>11. /\ bet'[m][u][o].amount = bet[m][u][o].amount + net
         /\ bet'[m][u][o].fee_paid = bet[m][u][o].fee_paid + fee
    BY <1>10 DEF BetAfter
  <1>12. BetTaken(u, m, o, amount, fee, net, rec)
    BY <1>1, <1>4, <1>5, <1>7, <1>8, <1>9, <1>10, <1>11 DEF BetTaken, Exists
  <1> QED
    BY <1>1, <1>3, <1>7, <1>12

(* place_bet adds the same to the bet, its outcome and the total.          *)
LEMMA BetStakes ==
  ASSUME TypeOK, TypeOK', StakeInv, LifeInv, NEW u \in Bettors, NEW m \in MarketIds, NEW o \in Outcomes,
         NEW amount, NEW fee \in Int, NEW net \in Int, NEW rec \in MarketRecord,
         BetTaken(u, m, o, amount, fee, net, rec)
  PROVE  StakeInv'
  <1>1. \A k \in MarketIds : market'[k] = IF k = m THEN rec ELSE market[k]
    BY DEF BetTaken, TypeOK, MarketTypeOK
  <1>2. Exists(m) /\ Exists(m)'
    BY <1>1 DEF BetTaken, Exists
  <1>3. PICK mk \in MarketRecord : mk = market[m]
    BY DEF TypeOK, MarketTypeOK
  <1>4. /\ \A q \in Outcomes : mk.outcome_stakes[q] \in Int /\ rec.outcome_stakes[q] \in Int
        /\ \A q \in Outcomes \ {o} : rec.outcome_stakes[q] = mk.outcome_stakes[q]
        /\ rec.outcome_stakes[o] = mk.outcome_stakes[o] + net
        /\ mk.total_staked \in Int
    BY <1>3 DEF BetTaken, MarketRecord
  <1>5. rec.total_staked = SumFunctionOnSet(rec.outcome_stakes, Outcomes)
    <2>1. PICK f, g : f = mk.outcome_stakes /\ g = rec.outcome_stakes
      OBVIOUS
    <2>2. /\ \A q \in Outcomes : f[q] \in Int /\ g[q] \in Int
          /\ \A q \in Outcomes \ {o} : g[q] = f[q]
      BY <1>4, <2>1
    <2>3. IsFiniteSet(Outcomes)
      BY FiniteBooks
    <2>4. SumFunctionOnSet(g, Outcomes) = SumFunctionOnSet(f, Outcomes) + (g[o] - f[o])
      BY <2>2, <2>3, SumChange
    <2>5. g[o] - f[o] = net
      BY <1>4, <2>1
    <2>6. mk.total_staked = SumFunctionOnSet(f, Outcomes)
      BY <1>2, <1>3, <2>1 DEF StakeInv, BooksBalance
    <2>7. rec.total_staked = mk.total_staked + net
      BY <1>3 DEF BetTaken
    <2> QED
      BY <2>1, <2>4, <2>5, <2>6, <2>7
  <1>6. ASSUME NEW q \in Outcomes
        PROVE  rec.outcome_stakes[q] = SumFunctionOnSet(BetsOn(m, q)', Bettors)
    <2>1. PICK f, g : f = BetsOn(m, q) /\ g = BetsOn(m, q)'
      OBVIOUS
    <2>2. /\ \A v \in Bettors : f[v] = bet[m][v][q].amount /\ f[v] \in Int
          /\ \A v \in Bettors : g[v] = bet'[m][v][q].amount /\ g[v] \in Int
      BY <2>1 DEF BetsOn, TypeOK, MarketTypeOK
    <2>3. mk.outcome_stakes[q] = SumFunctionOnSet(f, Bettors)
      BY <1>2, <1>3, <2>1 DEF StakeInv, BooksBalance
    <2>4. IsFiniteSet(Bettors)
      BY FiniteBooks
    <2>5. CASE q # o
      <3>1. \A v \in Bettors : f[v] = g[v]
        BY <2>2, <2>5 DEF BetTaken
      <3>2. SumFunctionOnSet(f, Bettors) = SumFunctionOnSet(g, Bettors)
        BY <2>4, <3>1, SumAgrees
      <3> QED
        BY <1>4, <2>1, <2>3, <2>5, <3>2
    <2>6. CASE q = o
      <3>1. \A v \in Bettors \ {u} : g[v] = f[v]
        BY <2>2 DEF BetTaken
      <3>2. g[u] - f[u] = net
        <4>1. g[u] = bet[m][u][o].amount + net /\ f[u] = bet[m][u][o].amount /\ f[u] \in Int
          BY <2>2, <2>6 DEF BetTaken
        <4> QED
          BY <4>1
      <3>3. \A v \in Bettors : f[v] \in Int /\ g[v] \in Int
        BY <2>2
      <3>4. SumFunctionOnSet(g, Bettors) = SumFunctionOnSet(f, Bettors) + (g[u] - f[u])
        BY <2>4, <3>1, <3>3, SumChange
      <3> QED
        BY <1>4, <2>1, <2>3, <2>6, <3>2, <3>4
    <2> QED
      BY <2>5, <2>6
  <1>7. BooksBalance(m)'
    BY <1>1, <1>5, <1>6 DEF BooksBalance
  <1>8. ASSUME NEW k \in MarketIds, k # m PROVE BooksBalance(k)'
    <2>1. market'[k] = market[k]
      BY <1>1, <1>8
    <2>2. \A v \in Bettors, q \in Outcomes : bet'[k][v][q] = bet[k][v][q]
      BY <1>8 DEF BetTaken
    <2>3. \A q \in Outcomes : BetsOn(k, q)' = BetsOn(k, q)
      BY <2>2 DEF BetsOn
    <2> QED
      BY <2>1, <2>3 DEF StakeInv, BooksBalance, Exists
  <1>9. \A k \in MarketIds : Exists(k)' => market'[k].token_address \in Tokens
    BY <1>1, <1>2 DEF StakeInv, Exists, BetTaken
  <1>10. \A k \in MarketIds : ~Exists(k)' => market'[k].token_address = NoOne
    BY <1>1, <1>2 DEF StakeInv, Exists
  <1>11. \A k \in MarketIds : k > market_count' =>
           \A v \in Bettors, q \in Outcomes : bet'[k][v][q] = NoBet
    <2>1. m =< market_count /\ market_count \in Int /\ market_count' = market_count
      BY <1>2 DEF LifeInv, CountCoversMarkets, TypeOK, MarketTypeOK, BetTaken
    <2>2. \A k \in MarketIds : k > market_count => k # m
      BY <2>1 DEF MarketIds
    <2>3. \A k \in MarketIds, v \in Bettors, q \in Outcomes : k # m => bet'[k][v][q] = bet[k][v][q]
      BY DEF BetTaken
    <2> QED
      BY <2>1, <2>2, <2>3 DEF StakeInv
  <1> QED
    BY <1>7, <1>8, <1>9, <1>10, <1>11 DEF StakeInv

(* Every step keeps the stakes.                                            *)
LEMMA StepStakes ==
  ASSUME TypeOK, TypeOK', LifeInv, StakeInv, [Next]_vars PROVE StakeInv'
  <1>1. CASE Quiet
    BY <1>1, QuietStakes
  <1>2. CASE MoneyStep
    <2>1. CASE \E c \in Creators, r \in Requests : CreateMarket(c, r)
      BY <2>1, CreateStakes
    <2>2. ASSUME NEW m \in MarketIds, NEW u \in Bettors, NEW o \in Outcomes,
                 NEW amount \in Amounts, NEW r \in Referrers, PlaceBet(u, m, o, amount, r)
          PROVE  StakeInv'
      <3>1. PICK fee \in Int, net \in Int, rec \in MarketRecord :
              BetTaken(u, m, o, amount, fee, net, rec)
        BY <2>2, BetForm
      <3> QED
        BY <3>1, BetStakes
    <2>3. CASE \E m \in MarketIds, t \in Tokens : ReleaseCreationDeposit(m, t)
      BY <2>3, ReleaseStakes
    <2>4. CASE \E m \in MarketIds : PruneMarket(m)
      BY <2>4, PruneStakes
    <2>5. CASE UNCHANGED marketVars
      <3>1. UNCHANGED <<market, bet, market_count>>
        BY <2>5 DEF marketVars
      <3>2. \A k \in MarketIds : SameBooks(market'[k], market[k]) /\ bet'[k] = bet[k]
        BY <3>1 DEF SameBooks
      <3>3. \A k \in MarketIds : BooksBalance(k)'
        BY <3>2, BooksSame DEF StakeInv
      <3> QED
        BY <3>1, <3>3 DEF StakeInv, Exists
    <2> QED
      BY <1>2, <2>1, <2>2, <2>3, <2>4, <2>5 DEF MoneyStep
  <1> QED
    BY <1>1, <1>2, MoneyOrQuiet

(* The stakes hold throughout, with what they rest on.                     *)
LEMMA StakeInvHolds == Spec => [](TypeOK /\ LifeInv /\ StakeInv)
  <1>1. Init => TypeOK /\ LifeInv /\ StakeInv
    BY InitType, InitLife, InitStakes
  <1>2. TypeOK /\ LifeInv /\ StakeInv /\ [Next]_vars => TypeOK' /\ LifeInv' /\ StakeInv'
    BY StepType, StepLife, StepStakes
  <1> QED
    BY <1>1, <1>2, PTL DEF Spec

(* place_bet: the stake of each outcome is the sum of the bets on it, and  *)
(* total_staked the sum of the outcomes, in every stored market and for    *)
(* every fee the admin sets.                                               *)
THEOREM StakeConservationHolds == Spec => []StakeConservation
  <1>1. TypeOK /\ StakeInv => StakeConservation
    BY StakeInvImplies
  <1> QED
    BY <1>1, StakeInvHolds, PTL
-----------------------------------------------------------------------------
(* The contract's balance *)

(* What backs the markets of a token                                       *)
BackingOf(t) == [m \in MarketIds |-> Backing(market[m], t)]
Backed(t) == SumFunctionOnSet(BackingOf(t), MarketIds)

(* The account of one token                                                *)
Escrow(t) == held[t] + rewards_paid[t] + swapped[t] = Backed(t) + fee_revenue[t] + surplus[t]

(* Every account is an integer.                                            *)
LEMMA AccountTypes ==
  ASSUME TypeOK, NEW t \in Tokens
  PROVE  /\ held[t] \in Int /\ rewards_paid[t] \in Int /\ swapped[t] \in Int
         /\ fee_revenue[t] \in Int /\ surplus[t] \in Int
         /\ Backed(t) \in Int /\ BackingOf(t) \in [MarketIds -> Int]
  <1>1. /\ held[t] \in Int /\ rewards_paid[t] \in Int /\ swapped[t] \in Int
        /\ fee_revenue[t] \in Int /\ surplus[t] \in Int
    BY DEF TypeOK, LedgerTypeOK, FeeTypeOK, MarketTypeOK
  <1>2. BackingOf(t) \in [MarketIds -> Int]
    BY DEF TypeOK, MarketTypeOK, MarketRecord, BackingOf, Backing, Positive
  <1> QED
    BY <1>1, <1>2, FiniteBooks, SumType DEF Backed

(* It is what the run checks.                                              *)
LEMMA EscrowImplies == ASSUME \A t \in Tokens : Escrow(t) PROVE EscrowAccounting
  <1>1. \A t : SumFunction([m \in MarketIds |-> Backing(market[m], t)]) = Backed(t)
    BY DEF SumFunction, Backed, BackingOf
  <1> QED
    BY <1>1 DEF Escrow, EscrowAccounting

(* The record of one market changes.                                       *)
LEMMA BackingMoves ==
  ASSUME TypeOK, TypeOK', NEW t \in Tokens, NEW m \in MarketIds, NEW rec,
         market' = [market EXCEPT ![m] = rec]
  PROVE  Backed(t)' = Backed(t) + (Backing(rec, t) - Backing(market[m], t))
  <1>1. PICK f, g : f = BackingOf(t) /\ g = BackingOf(t)'
    OBVIOUS
  <1>2. f \in [MarketIds -> Int]
    BY <1>1, AccountTypes
  <1>3. g \in [MarketIds -> Int]
    BY <1>1 DEF TypeOK, MarketTypeOK, MarketRecord, BackingOf, Backing, Positive
  <1>4. g[m] = Backing(rec, t) /\ f[m] = Backing(market[m], t)
    BY <1>1 DEF BackingOf, TypeOK, MarketTypeOK
  <1>5. \A k \in MarketIds \ {m} : g[k] = f[k]
    BY <1>1 DEF BackingOf, TypeOK, MarketTypeOK
  <1>6. \A k \in MarketIds : f[k] \in Int /\ g[k] \in Int
    BY <1>2, <1>3
  <1>7. SumFunctionOnSet(g, MarketIds) = SumFunctionOnSet(f, MarketIds) + (g[m] - f[m])
    BY <1>5, <1>6, FiniteBooks, SumChange
  <1> QED
    BY <1>1, <1>4, <1>7 DEF Backed

(* Nothing backs a market that is not stored.                              *)
LEMMA AbsentBacking ==
  ASSUME NEW mk, mk.token_address = NoOne, NEW t \in Tokens PROVE Backing(mk, t) = 0
  BY MarketAssumption DEF Backing

(* The books of the markets stay.                                          *)
LEMMA BackingSame ==
  ASSUME \A k \in MarketIds : SameBooks(market'[k], market[k]), NEW t
  PROVE  Backed(t)' = Backed(t)
  <1>1. BackingOf(t)' = BackingOf(t)
    BY DEF BackingOf, Backing, SameBooks
  <1> QED
    BY <1>1 DEF Backed

(* Every account starts at zero.                                           *)
LEMMA InitEscrow == ASSUME Init PROVE \A t \in Tokens : Escrow(t)
  <1> SUFFICES ASSUME NEW t \in Tokens PROVE Escrow(t)
    OBVIOUS
  <1>1. /\ held[t] = 0 /\ rewards_paid[t] = 0 /\ fee_revenue[t] = 0 /\ surplus[t] = 0 /\ swapped[t] = 0
    BY DEF Init, LedgerInit, FeeInit, MarketInit
  <1>2. \A m \in MarketIds : market[m].token_address = NoOne
    BY DEF Init, MarketInit, NoMarket, Market
  <1>3. \A m \in MarketIds : BackingOf(t)[m] = 0
    BY <1>2, AbsentBacking DEF BackingOf
  <1>4. Backed(t) = 0
    BY <1>3, FiniteBooks, SumZero DEF Backed
  <1> QED
    BY <1>1, <1>4 DEF Escrow

(* create_market: a positive deposit backs the market, a fee kept is       *)
(* surplus.                                                                *)
LEMMA CreateEscrow ==
  ASSUME TypeOK, TypeOK', LifeInv, StakeInv, NEW x \in Tokens, Escrow(x),
         NEW c \in Creators, NEW r \in Requests, CreateMarket(c, r)
  PROVE  Escrow(x)'
  <1>1. MaxMarkets \in Nat /\ market_count \in 0..MaxMarkets /\ market_count < MaxMarkets
    BY MarketAssumption DEF CreateMarket, TypeOK, MarketTypeOK
  <1>2. PICK id \in MarketIds : id = market_count + 1
    BY <1>1 DEF MarketIds
  <1>3. PICK deposit \in Int : deposit = DepositDue(reputation[c])
    BY DEF DepositDue, TypeOK, MarketTypeOK, Config
  <1>4. PICK paid \in Int : paid = Positive(deposit)
    BY DEF Positive
  <1>5. PICK kept \in Int :
          kept = IF config.treasury = "contract" THEN Positive(config.creation_fee) ELSE 0
    BY DEF Positive, TypeOK, MarketTypeOK, Config
  <1>6. PICK t \in Tokens : t = r.token_address
    BY DEF Requests
  <1>7. PICK new : new = Market(c, r, deposit)
    OBVIOUS
  <1>8. /\ market' = [market EXCEPT ![id] = new]
        /\ Receive(t, kept + paid)
        /\ surplus' = [surplus EXCEPT ![t] = @ + kept]
        /\ UNCHANGED <<rewards_paid, fee_revenue, swapped>>
    BY <1>2, <1>3, <1>4, <1>5, <1>6, <1>7 DEF CreateMarket, feeVars
  <1>9. Backing(market[id], x) = 0
    <2>1. ~(id =< market_count)
      BY <1>1, <1>2
    <2> QED
      BY <2>1, AbsentBacking DEF LifeInv, CountCoversMarkets, StakeInv
  <1>10. Backing(new, x) = IF x = t THEN paid ELSE 0
    <2>1. new.token_address = t /\ new.total_staked = 0 /\ new.creation_deposit = deposit
      BY <1>6, <1>7 DEF Market
    <2> QED
      BY <1>4, <2>1 DEF Backing
  <1>11. Backed(x)' = Backed(x) + (IF x = t THEN paid ELSE 0)
    <2>1. Backed(x)' = Backed(x) + (Backing(new, x) - Backing(market[id], x))
      BY <1>8, BackingMoves
    <2> QED
      BY <1>9, <1>10, <2>1
  <1>12. /\ held'[x] = held[x] + (IF x = t THEN kept + paid ELSE 0)
         /\ surplus'[x] = surplus[x] + (IF x = t THEN kept ELSE 0)
    BY <1>8 DEF Receive, TypeOK, LedgerTypeOK, MarketTypeOK
  <1>13. UNCHANGED <<rewards_paid, fee_revenue, swapped>>
    BY <1>8
  <1> QED
    <2>1. CASE x = t
      BY <1>11, <1>12, <1>13, <2>1, AccountTypes DEF Escrow
    <2>2. CASE x # t
      BY <1>11, <1>12, <1>13, <2>2, AccountTypes DEF Escrow
    <2> QED
      BY <2>1, <2>2

(* prune_market: the stakes and the deposit left behind become surplus.    *)
LEMMA PruneEscrow ==
  ASSUME TypeOK, TypeOK', StakeInv, NEW x \in Tokens, Escrow(x), NEW m \in MarketIds, PruneMarket(m)
  PROVE  Escrow(x)'
  <1>1. PICK mk \in MarketRecord : mk = market[m]
    BY DEF TypeOK, MarketTypeOK
  <1>2. PICK left \in Int : left = mk.total_staked + Positive(mk.creation_deposit)
    BY DEF MarketRecord, Positive
  <1>3. PICK t \in Tokens : t = mk.token_address
    BY <1>1 DEF PruneMarket, StakeInv, Exists
  <1>4. /\ market' = [market EXCEPT ![m] = NoMarket]
        /\ UNCHANGED <<held, rewards_paid, fee_revenue, swapped>>
    BY DEF PruneMarket, feeVars, ledgerVars
  <1>5. surplus'[x] = surplus[x] + (IF x = t THEN left ELSE 0)
    <2>1. surplus' = [surplus EXCEPT ![t] = @ + left]
      BY <1>1, <1>2, <1>3 DEF PruneMarket
    <2>2. surplus \in [Tokens -> Int]
      BY DEF TypeOK, MarketTypeOK
    <2> QED
      BY <2>1, <2>2
  <1>6. Backed(x)' = Backed(x) - (IF x = t THEN left ELSE 0)
    <2>1. Backing(NoMarket, x) = 0
      BY AbsentBacking DEF NoMarket, Market
    <2>2. Backing(market[m], x) = IF x = t THEN left ELSE 0
      BY <1>1, <1>2, <1>3 DEF Backing
    <2>3. Backed(x)' = Backed(x) + (Backing(NoMarket, x) - Backing(market[m], x))
      BY <1>4, BackingMoves
    <2> QED
      BY <2>1, <2>2, <2>3, AccountTypes
  <1>7. UNCHANGED <<held, rewards_paid, fee_revenue, swapped>>
    BY <1>4
  <1> QED
    BY <1>5, <1>6, <1>7, AccountTypes DEF Escrow

(* release_creation_deposit: the deposit no longer backs the market.  When *)
(* it is paid in another token, that one lacks it and the market's own has *)
(* it left over.                                                           *)
LEMMA ReleaseEscrow ==
  ASSUME TypeOK, TypeOK', StakeInv, NEW x \in Tokens, Escrow(x), NEW m \in MarketIds, NEW t \in Tokens,
         ReleaseCreationDeposit(m, t)
  PROVE  Escrow(x)'
  <1>1. PICK mk \in MarketRecord : mk = market[m]
    BY DEF TypeOK, MarketTypeOK
  <1>2. PICK deposit \in Int : deposit = mk.creation_deposit
    BY DEF MarketRecord
  <1>3. PICK own \in Tokens : own = mk.token_address
    BY <1>1 DEF ReleaseCreationDeposit, StakeInv, Exists
  <1>4. PICK rec : rec = [mk EXCEPT !.creation_deposit = 0]
    OBVIOUS
  <1>5. /\ market' = [market EXCEPT ![m] = rec] /\ Pay(t, deposit) /\ deposit > 0
        /\ Swap(t, own, deposit)
        /\ UNCHANGED <<rewards_paid, fee_revenue, surplus>>
    BY <1>1, <1>2, <1>3, <1>4 DEF ReleaseCreationDeposit, UpdateMarket, feeVars
  <1>6. Backed(x)' = Backed(x) - (IF x = own THEN deposit ELSE 0)
    <2>1. /\ rec.token_address = own /\ rec.creation_deposit = 0
          /\ rec.total_staked = mk.total_staked /\ mk.total_staked \in Int
      BY <1>1, <1>3, <1>4 DEF MarketRecord
    <2>2. Backing(rec, x) - Backing(mk, x) = 0 - (IF x = own THEN deposit ELSE 0)
      BY <1>2, <1>3, <1>5, <2>1 DEF Backing, Positive
    <2>3. Backed(x)' = Backed(x) + (Backing(rec, x) - Backing(mk, x))
      BY <1>1, <1>5, BackingMoves
    <2> QED
      BY <2>2, <2>3, AccountTypes
  <1>7. held'[x] = held[x] - (IF x = t THEN deposit ELSE 0)
    BY <1>5 DEF Pay, TypeOK, LedgerTypeOK
  <1>8. swapped'[x] = swapped[x] + (IF x = t THEN deposit ELSE 0) - (IF x = own THEN deposit ELSE 0)
    BY <1>5 DEF Swap
  <1>9. UNCHANGED <<rewards_paid, fee_revenue, surplus>>
    BY <1>5
  <1> QED
    BY <1>6, <1>7, <1>8, <1>9, AccountTypes DEF Escrow

(* withdraw_protocol_fees: what is paid is no longer revenue.              *)
LEMMA WithdrawEscrow ==
  ASSUME TypeOK, NEW x \in Tokens, Escrow(x), NEW t \in Tokens, WithdrawProtocolFees(t),
         UNCHANGED marketVars
  PROVE  Escrow(x)'
  <1>1. PICK revenue \in Int : revenue = fee_revenue[t]
    BY AccountTypes
  <1>2. /\ Pay(t, revenue) /\ fee_revenue' = [fee_revenue EXCEPT ![t] = 0]
        /\ UNCHANGED <<market, rewards_paid, surplus, swapped>>
    BY <1>1 DEF WithdrawProtocolFees, marketVars
  <1>3. /\ held'[x] = held[x] - (IF x = t THEN revenue ELSE 0)
        /\ fee_revenue'[x] = fee_revenue[x] - (IF x = t THEN revenue ELSE 0)
    BY <1>1, <1>2 DEF Pay, TypeOK, LedgerTypeOK, FeeTypeOK
  <1>4. Backed(x)' = Backed(x)
    BY <1>2 DEF Backed, BackingOf
  <1>5. UNCHANGED <<rewards_paid, surplus, swapped>>
    BY <1>2
  <1> QED
    BY <1>3, <1>4, <1>5, AccountTypes DEF Escrow

(* claim_referral_rewards: the reward is paid out of what is held, and no  *)
(* account but the history of rewards knows of it.                         *)
LEMMA ClaimEscrow ==
  ASSUME TypeOK, NEW x \in Tokens, Escrow(x), NEW u \in Users, NEW t \in Tokens,
         ClaimReferralRewards(u, t), UNCHANGED marketVars
  PROVE  Escrow(x)'
  <1>1. PICK reward \in Int : reward = referrer_balance[u][t]
    BY DEF TypeOK, FeeTypeOK
  <1>2. /\ Pay(t, reward) /\ rewards_paid' = [rewards_paid EXCEPT ![t] = @ + reward]
        /\ UNCHANGED <<market, fee_revenue, surplus, swapped>>
    BY <1>1 DEF ClaimReferralRewards, marketVars
  <1>3. /\ held'[x] = held[x] - (IF x = t THEN reward ELSE 0)
        /\ rewards_paid'[x] = rewards_paid[x] + (IF x = t THEN reward ELSE 0)
    BY <1>2 DEF Pay, TypeOK, LedgerTypeOK, FeeTypeOK
  <1>4. Backed(x)' = Backed(x)
    BY <1>2 DEF Backed, BackingOf
  <1>5. UNCHANGED <<fee_revenue, surplus, swapped>>
    BY <1>2
  <1> QED
    BY <1>3, <1>4, <1>5, AccountTypes DEF Escrow

(* calculate_tiered_fee charges nothing negative unless the base fee is.   *)
LEMMA FeeNotNegative ==
  ASSUME FeeTypeOK, base_fee >= 0, NEW amount \in Nat, NEW tier \in MarketTier
  PROVE  CalculateTieredFee(amount, tier) >= 0
  <1>1. base_fee \in Nat
    BY FeeAssumption DEF FeeTypeOK
  <1>2. PICK mult \in Nat : mult = tier_multiplier_bps[tier]
    BY DEF tier_multiplier_bps, MarketTier, TIER_DENOMINATOR_BPS
  <1>3. PICK p \in Nat : p = amount * base_fee
    BY <1>1
  <1>4. PICK q \in Nat : q = p * mult
    OBVIOUS
  <1>5. BPS_DENOMINATOR * TIER_DENOMINATOR_BPS = 100000000
    BY DEF BPS_DENOMINATOR, TIER_DENOMINATOR_BPS
  <1>6. CalculateTieredFee(amount, tier) = q \div 100000000
    BY <1>2, <1>3, <1>4, <1>5 DEF CalculateTieredFee, TruncDiv
  <1> QED
    BY <1>6

(* place_bet: what is received is the stake and the fee.                   *)
LEMMA BetEscrow ==
  ASSUME TypeOK, TypeOK', StakeInv, NEW x \in Tokens, Escrow(x), base_fee >= 0, NEW u \in Bettors,
         NEW m \in MarketIds, NEW o \in Outcomes, NEW amount \in Amounts, NEW referrer \in Referrers,
         PlaceBet(u, m, o, amount, referrer)
  PROVE  Escrow(x)'
  <1>1. PICK fee \in Int, net \in Int, rec \in MarketRecord :
           /\ BetTaken(u, m, o, amount, fee, net, rec)
           /\ fee = CalculateTieredFee(amount, market[m].tier)
           /\ Receive(market[m].token_address, amount)
           /\ CollectFee(market[m].token_address, fee)
    BY BetForm
  <1>2. PICK t \in Tokens : t = market[m].token_address
    BY <1>1 DEF BetTaken, StakeInv
  <1>3. amount \in Nat /\ market[m].tier \in MarketTier
    BY MarketAssumption DEF TypeOK, MarketTypeOK, MarketRecord
  <1>4. fee >= 0
    BY <1>1, <1>3, FeeNotNegative DEF TypeOK
  <1>5. fee_revenue'[x] = fee_revenue[x] + (IF x = t THEN fee ELSE 0)
    <2>1. (IF fee > 0 THEN fee ELSE 0) = fee
      BY <1>4
    <2>2. fee_revenue' = [fee_revenue EXCEPT ![t] = @ + fee]
      BY <1>1, <1>2, <2>1 DEF CollectFee
    <2> QED
      BY <2>2 DEF TypeOK, FeeTypeOK
  <1>6. held'[x] = held[x] + (IF x = t THEN amount ELSE 0)
    BY <1>1, <1>2, <1>3 DEF Receive, TypeOK, LedgerTypeOK
  <1>7. Backed(x)' = Backed(x) + (IF x = t THEN net ELSE 0)
    <2>1. /\ market' = [market EXCEPT ![m] = rec] /\ rec.token_address = t
          /\ rec.creation_deposit = market[m].creation_deposit
          /\ rec.total_staked = market[m].total_staked + net
      BY <1>1, <1>2 DEF BetTaken
    <2>2. market[m].total_staked \in Int /\ Positive(market[m].creation_deposit) \in Int
      BY DEF TypeOK, MarketTypeOK, MarketRecord, Positive
    <2>3. Backing(rec, x) - Backing(market[m], x) = IF x = t THEN net ELSE 0
      BY <1>2, <2>1, <2>2 DEF Backing
    <2>4. Backed(x)' = Backed(x) + (Backing(rec, x) - Backing(market[m], x))
      BY <2>1, BackingMoves
    <2> QED
      BY <2>3, <2>4
  <1>8. net = amount - fee /\ UNCHANGED <<rewards_paid, surplus, swapped>>
    BY <1>1 DEF BetTaken
  <1> QED
    <2>1. CASE x = t
      <3>1. /\ held'[x] = held[x] + amount /\ fee_revenue'[x] = fee_revenue[x] + fee
            /\ Backed(x)' = Backed(x) + net
        BY <1>5, <1>6, <1>7, <2>1
      <3>2. /\ held[x] \in Int /\ rewards_paid[x] \in Int /\ swapped[x] \in Int
            /\ fee_revenue[x] \in Int /\ surplus[x] \in Int /\ Backed(x) \in Int
        BY AccountTypes
      <3>3. amount = net + fee
        BY <1>3, <1>8
      <3> QED
        BY <1>8, <3>1, <3>2, <3>3 DEF Escrow
    <2>2. CASE x # t
      BY <1>5, <1>6, <1>7, <1>8, <2>2, AccountTypes DEF Escrow
    <2> QED
      BY <2>1, <2>2

(* Every step keeps every token accounted for, while the base fee in force *)
(* is not negative.                                                        *)
LEMMA StepEscrow ==
  ASSUME TypeOK, TypeOK', LifeInv, StakeInv, NEW x \in Tokens, Escrow(x), base_fee >= 0, [Next]_vars
  PROVE  Escrow(x)'
  <1>1. CASE Quiet
    <2>1. Backed(x)' = Backed(x)
      BY <1>1, BackingSame DEF Quiet
    <2>2. UNCHANGED <<held, fee_revenue, rewards_paid, surplus, swapped>>
      BY <1>1 DEF Quiet
    <2> QED
      BY <2>1, <2>2 DEF Escrow
  <1>2. CASE MoneyStep
    <2>1. CASE \E c \in Creators, r \in Requests : CreateMarket(c, r)
      BY <2>1, CreateEscrow
    <2>2. CASE \E m \in MarketIds, u \in Bettors, o \in Outcomes, amount \in Amounts,
                   r \in Referrers : PlaceBet(u, m, o, amount, r)
      BY <2>2, BetEscrow
    <2>3. CASE \E m \in MarketIds, t \in Tokens : ReleaseCreationDeposit(m, t)
      BY <2>3, ReleaseEscrow
    <2>4. CASE \E m \in MarketIds : PruneMarket(m)
      BY <2>4, PruneEscrow
    <2>5. CASE (\E t \in Tokens : WithdrawProtocolFees(t)) /\ UNCHANGED <<cb, marketVars>>
      BY <2>5, WithdrawEscrow
    <2>6. CASE (\E u \in Users, t \in Tokens : ClaimReferralRewards(u, t)) /\ UNCHANGED <<cb, marketVars>>
      BY <2>6, ClaimEscrow
    <2> QED
      BY <1>2, <2>1, <2>2, <2>3, <2>4, <2>5, <2>6 DEF MoneyStep
  <1> QED
    BY <1>1, <1>2, MoneyOrQuiet

(* The account of every token                                              *)
AllEscrow == \A t \in Tokens : Escrow(t)

(* bets.rs, fees.rs, markets.rs: in every token, every unit the contract   *)
(* holds is the stake of a stored market, a deposit, revenue or surplus,   *)
(* but for the referral rewards paid and the deposits of other tokens paid *)
(* in it, whatever deposit and fee are configured, as long as no negative  *)
(* base fee is in force (set_base_fee accepts one, and a bet then earns    *)
(* the bettor more stake than was paid in).                                *)
THEOREM EscrowAccountingHolds == Spec /\ [](base_fee >= 0) => []EscrowAccounting
  <1>1. Init => AllEscrow
    BY InitEscrow DEF AllEscrow
  <1>2. TypeOK /\ TypeOK' /\ LifeInv /\ StakeInv /\ AllEscrow /\ base_fee >= 0 /\ [Next]_vars => AllEscrow'
    BY StepEscrow DEF AllEscrow
  <1>3. AllEscrow => EscrowAccounting
    BY EscrowImplies DEF AllEscrow
  <1> QED
    BY <1>1, <1>2, <1>3, StakeInvHolds, PTL DEF Spec
-----------------------------------------------------------------------------
(* Who is counted as a bettor *)

(* Who has paid for a bet on one outcome of one market.                    *)
BettorsOn(m, o) == {u \in Bettors : bet[m][u][o].amount + bet[m][u][o].fee_paid > 0}

(* The inductive invariant: whoever paid for a bet has a stake, and they   *)
(* are the ones counted.                                                   *)
CountInv ==
  /\ \A m \in MarketIds, u \in Bettors, o \in Outcomes :
       \/ bet[m][u][o].amount = 0 /\ bet[m][u][o].fee_paid = 0
       \/ bet[m][u][o].amount > 0 /\ bet[m][u][o].amount + bet[m][u][o].fee_paid > 0
  /\ \A m \in MarketIds, o \in Outcomes :
       Exists(m) => market[m].winner_counts[o] = Cardinality(BettorsOn(m, o))

(* calculate_tiered_fee leaves a stake when the base fee is below 100 %.   *)
LEMMA FeeBelowAmount ==
  ASSUME FeeTypeOK, base_fee < BPS_DENOMINATOR, NEW amount \in Nat \ {0}, NEW tier \in MarketTier
  PROVE  CalculateTieredFee(amount, tier) < amount
  <1>1. base_fee \in Int /\ base_fee =< 9999
    BY FeeAssumption DEF FeeTypeOK, BPS_DENOMINATOR
  <1>2. PICK mult \in {10000, 7500, 5000} : mult = tier_multiplier_bps[tier]
    BY DEF tier_multiplier_bps, MarketTier, TIER_DENOMINATOR_BPS
  <1>3. PICK p \in Int : p = amount * base_fee
    BY <1>1
  <1>4. p =< 9999 * amount
    BY <1>1, <1>3
  <1>5. PICK q \in Int : q = p * mult
    OBVIOUS
  <1>6. q < 100000000 * amount
    <2>1. CASE mult = 10000
      BY <1>4, <1>5, <2>1
    <2>2. CASE mult = 7500
      BY <1>4, <1>5, <2>2
    <2>3. CASE mult = 5000
      BY <1>4, <1>5, <2>3
    <2> QED
      BY <2>1, <2>2, <2>3
  <1>7. BPS_DENOMINATOR * TIER_DENOMINATOR_BPS = 100000000
    BY DEF BPS_DENOMINATOR, TIER_DENOMINATOR_BPS
  <1>8. CalculateTieredFee(amount, tier) = TruncDiv(q, 100000000)
    BY <1>2, <1>3, <1>5, <1>7 DEF CalculateTieredFee
  <1>9. TruncDiv(q, 100000000) < amount
    BY <1>6 DEF TruncDiv
  <1> QED
    BY <1>8, <1>9

(* It is what the run checks.                                              *)
LEMMA CountInvImplies == ASSUME CountInv PROVE WinnerCountsExact
  BY DEF CountInv, WinnerCountsExact, BettorsOn

(* Nobody has bet yet.                                                     *)
LEMMA InitCounts == ASSUME Init PROVE CountInv
  <1>1. \A m \in MarketIds : ~Exists(m)
    BY DEF Init, MarketInit, Exists, NoMarket, Market
  <1>2. \A m \in MarketIds, u \in Bettors, o \in Outcomes :
          bet[m][u][o].amount = 0 /\ bet[m][u][o].fee_paid = 0
    BY DEF Init, MarketInit, NoBet
  <1> QED
    BY <1>1, <1>2 DEF CountInv

(* A step that takes no bet: a stored market keeps its counts, and the     *)
(* market just created has none.                                           *)
LEMMA OtherCounts ==
  ASSUME CountInv, UNCHANGED bet,
         \A k \in MarketIds : Exists(k)' =>
            \/ Exists(k) /\ market'[k].winner_counts = market[k].winner_counts
            \/ \A o \in Outcomes : market'[k].winner_counts[o] = 0 /\ BettorsOn(k, o) = {}
  PROVE  CountInv'
  <1>1. \A k, o : BettorsOn(k, o)' = BettorsOn(k, o)
    BY DEF BettorsOn
  <1>2. Cardinality({}) = 0
    BY FS_EmptySet
  <1>3. ASSUME NEW k \in MarketIds, NEW o \in Outcomes, Exists(k)'
        PROVE  market'[k].winner_counts[o] = Cardinality(BettorsOn(k, o))
    BY <1>2, <1>3 DEF CountInv
  <1> QED
    BY <1>1, <1>3 DEF CountInv

(* place_bet: is_new_bettor is true for exactly the first bet, because     *)
(* every earlier one left a stake.                                         *)
LEMMA BetCounts ==
  ASSUME TypeOK, CountInv, NEW u \in Bettors, NEW m \in MarketIds, NEW o \in Outcomes,
         NEW amount \in Nat \ {0}, NEW fee \in Int, NEW net \in Int, NEW rec \in MarketRecord,
         BetTaken(u, m, o, amount, fee, net, rec), fee < amount
  PROVE  CountInv'
  <1>1. \A k \in MarketIds : market'[k] = IF k = m THEN rec ELSE market[k]
    BY DEF BetTaken, TypeOK, MarketTypeOK
  <1>2. PICK b : b = bet[m][u][o]
    OBVIOUS
  <1>3. /\ b.amount \in Int /\ b.fee_paid \in Int
        /\ \/ b.amount = 0 /\ b.fee_paid = 0
           \/ b.amount > 0 /\ b.amount + b.fee_paid > 0
    BY <1>2 DEF TypeOK, MarketTypeOK, CountInv
  <1>4. PICK a \in Int, p \in Int : a = bet'[m][u][o].amount /\ p = bet'[m][u][o].fee_paid
                                  /\ a = b.amount + net /\ p = b.fee_paid + fee
    BY <1>2, <1>3 DEF BetTaken
  <1>5. net = amount - fee /\ net > 0
    BY DEF BetTaken
  <1>6. a > 0 /\ a + p > 0
    BY <1>3, <1>4, <1>5
  <1>7. \A k \in MarketIds, v \in Bettors, q \in Outcomes :
          <<k, v, q>> # <<m, u, o>> => bet'[k][v][q] = bet[k][v][q]
    BY DEF BetTaken
  <1>8. ASSUME NEW k \in MarketIds, NEW v \in Bettors, NEW q \in Outcomes
        PROVE  \/ bet'[k][v][q].amount = 0 /\ bet'[k][v][q].fee_paid = 0
               \/ bet'[k][v][q].amount > 0 /\ bet'[k][v][q].amount + bet'[k][v][q].fee_paid > 0
    <2>1. CASE <<k, v, q>> = <<m, u, o>>
      BY <1>4, <1>6, <2>1
    <2>2. CASE <<k, v, q>> # <<m, u, o>>
      BY <1>7, <2>2 DEF CountInv
    <2> QED
      BY <2>1, <2>2
  <1>9. ASSUME NEW k \in MarketIds, NEW q \in Outcomes, <<k, q>> # <<m, o>>
        PROVE  BettorsOn(k, q)' = BettorsOn(k, q)
    <2>1. \A v \in Bettors : bet'[k][v][q] = bet[k][v][q]
      BY <1>7, <1>9
    <2> QED
      BY <2>1 DEF BettorsOn
  <1>10. BettorsOn(m, o)' = BettorsOn(m, o) \cup {u}
    <2>1. \A v \in Bettors \ {u} : bet'[m][v][o] = bet[m][v][o]
      BY <1>7
    <2>2. bet'[m][u][o].amount + bet'[m][u][o].fee_paid > 0
      BY <1>4, <1>6
    <2> QED
      BY <2>1, <2>2 DEF BettorsOn
  <1>11. IsFiniteSet(BettorsOn(m, o))
    BY FiniteBooks, FS_Subset DEF BettorsOn
  <1>12. PICK first \in BOOLEAN : first = IsNewBettor(bet[m][u][o], net)
    BY DEF IsNewBettor
  <1>13. first <=> u \notin BettorsOn(m, o)
    <2>1. first <=> b.amount = 0
      <3>1. IsNewBettor(bet[m][u][o], net) <=> b.amount = 0
        BY <1>2, <1>3 DEF IsNewBettor
      <3> QED
        BY <1>12, <3>1, Zenon
    <2>2. u \in BettorsOn(m, o) <=> b.amount + b.fee_paid > 0
      BY <1>2 DEF BettorsOn
    <2> QED
      BY <1>3, <2>1, <2>2
  <1>14. PICK n \in Nat : n = market[m].winner_counts[o] /\ n = Cardinality(BettorsOn(m, o))
    BY DEF CountInv, BetTaken, TypeOK, MarketTypeOK, MarketRecord
  <1>15. Cardinality(BettorsOn(m, o) \cup {u}) = n + (IF first THEN 1 ELSE 0)
    <2>1. CASE u \notin BettorsOn(m, o)
      <3>1. Cardinality(BettorsOn(m, o) \cup {u}) = n + 1
        BY <1>11, <1>14, <2>1, FS_AddElement
      <3>2. (IF first THEN 1 ELSE 0) = 1
        BY <1>13, <2>1, Zenon
      <3> QED
        BY <3>1, <3>2, Zenon
    <2>2. CASE u \in BettorsOn(m, o)
      <3>1. BettorsOn(m, o) \cup {u} = BettorsOn(m, o)
        BY <2>2
      <3>2. (IF first THEN 1 ELSE 0) = 0
        BY <1>13, <2>2, Zenon
      <3>3. Cardinality(BettorsOn(m, o) \cup {u}) = n + 0
        BY <1>14, <3>1
      <3> QED
        BY <3>2, <3>3, Zenon
    <2> QED
      BY <2>1, <2>2, Zenon
  <1>16. /\ rec.winner_counts[o] = n + (IF first THEN 1 ELSE 0)
         /\ \A q \in Outcomes \ {o} : rec.winner_counts[q] = market[m].winner_counts[q]
    <2>1. market[m].winner_counts \in [Outcomes -> Nat]
      BY DEF TypeOK, MarketTypeOK, MarketRecord
    <2>2. rec.winner_counts = [market[m].winner_counts EXCEPT ![o] = @ + (IF first THEN 1 ELSE 0)]
      BY <1>12 DEF BetTaken
    <2> QED
      BY <1>14, <2>1, <2>2
  <1>17. ASSUME NEW k \in MarketIds, NEW q \in Outcomes, Exists(k)'
         PROVE  market'[k].winner_counts[q] = Cardinality(BettorsOn(k, q)')
    <2>1. Exists(k)
      BY <1>1, <1>17 DEF Exists, BetTaken
    <2>2. CASE k = m /\ q = o
      BY <1>1, <1>10, <1>15, <1>16, <2>2
    <2>3. CASE ~(k = m /\ q = o)
      <3>1. BettorsOn(k, q)' = BettorsOn(k, q)
        BY <1>9, <2>3
      <3>2. market'[k].winner_counts[q] = market[k].winner_counts[q]
        BY <1>1, <1>16, <2>3
      <3> QED
        BY <2>1, <3>1, <3>2 DEF CountInv
    <2> QED
      BY <2>2, <2>3
  <1> QED
    BY <1>8, <1>17 DEF CountInv

(* Every step keeps the counts, while the base fee in force is below 100 %. *)
LEMMA StepCounts ==
  ASSUME TypeOK, LifeInv, StakeInv, CountInv, base_fee < BPS_DENOMINATOR, [Next]_vars
  PROVE  CountInv'
  <1>1. CASE Quiet
    <2>1. \A k \in MarketIds : /\ Exists(k)' => Exists(k)
                               /\ market'[k].winner_counts = market[k].winner_counts
      BY <1>1 DEF Quiet, SameBooks, Exists
    <2> QED
      BY <1>1, <2>1, OtherCounts DEF Quiet
  <1>2. ASSUME NEW c \in Creators, NEW r \in Requests, CreateMarket(c, r) PROVE CountInv'
    <2>1. MaxMarkets \in Nat /\ market_count \in 0..MaxMarkets /\ market_count < MaxMarkets
      BY <1>2, MarketAssumption DEF CreateMarket, TypeOK, MarketTypeOK
    <2>2. PICK id \in MarketIds : id = market_count + 1
      BY <2>1 DEF MarketIds
    <2>3. PICK new : new = Market(c, r, DepositDue(reputation[c]))
      OBVIOUS
    <2>4. \A k \in MarketIds : market'[k] = IF k = id THEN new ELSE market[k]
      BY <1>2, <2>2, <2>3 DEF CreateMarket, TypeOK, MarketTypeOK
    <2>5. \A o \in Outcomes : new.winner_counts[o] = 0
      BY <2>3 DEF Market
    <2>6. \A o \in Outcomes : BettorsOn(id, o) = {}
      BY <2>1, <2>2 DEF StakeInv, NoBet, BettorsOn
    <2>7. UNCHANGED bet
      BY <1>2 DEF CreateMarket
    <2>8. \A k \in MarketIds : Exists(k)' =>
            \/ Exists(k) /\ market'[k].winner_counts = market[k].winner_counts
            \/ \A o \in Outcomes : market'[k].winner_counts[o] = 0 /\ BettorsOn(k, o) = {}
      BY <2>4, <2>5, <2>6 DEF Exists
    <2> QED
      BY <2>7, <2>8, OtherCounts
  <1>3. ASSUME NEW m \in MarketIds, NEW u \in Bettors, NEW o \in Outcomes,
               NEW amount \in Amounts, NEW r \in Referrers, PlaceBet(u, m, o, amount, r)
        PROVE  CountInv'
    <2>1. PICK fee \in Int, net \in Int, rec \in MarketRecord :
             /\ BetTaken(u, m, o, amount, fee, net, rec)
             /\ fee = CalculateTieredFee(amount, market[m].tier)
      BY <1>3, BetForm
    <2>2. amount \in Nat \ {0} /\ market[m].tier \in MarketTier
      BY MarketAssumption DEF TypeOK, MarketTypeOK, MarketRecord
    <2>3. fee < amount
      BY <2>1, <2>2, FeeBelowAmount DEF TypeOK
    <2> QED
      BY <2>1, <2>2, <2>3, BetCounts
  <1>4. ASSUME NEW m \in MarketIds, NEW t \in Tokens, ReleaseCreationDeposit(m, t) PROVE CountInv'
    <2>1. PICK mk \in MarketRecord : mk = market[m]
      BY DEF TypeOK, MarketTypeOK
    <2>2. PICK rec : rec = [mk EXCEPT !.creation_deposit = 0]
      OBVIOUS
    <2>3. market' = [market EXCEPT ![m] = rec] /\ bet' = bet
      BY <1>4, <2>1, <2>2 DEF ReleaseCreationDeposit, UpdateMarket
    <2>4. rec.winner_counts = mk.winner_counts /\ rec.status = mk.status
      BY <2>1, <2>2 DEF MarketRecord
    <2>5. \A k \in MarketIds : /\ Exists(k)' => Exists(k)
                               /\ market'[k].winner_counts = market[k].winner_counts
      BY <2>1, <2>3, <2>4 DEF Exists, TypeOK, MarketTypeOK
    <2> QED
      BY <2>3, <2>5, OtherCounts
  <1>5. ASSUME NEW m \in MarketIds, PruneMarket(m) PROVE CountInv'
    <2>1. market' = [market EXCEPT ![m] = NoMarket] /\ bet' = bet
      BY <1>5 DEF PruneMarket
    <2>2. NoMarket.status = "Absent"
      BY DEF NoMarket, Market
    <2>3. \A k \in MarketIds : Exists(k)' => Exists(k) /\ market'[k].winner_counts = market[k].winner_counts
      BY <2>1, <2>2 DEF Exists, TypeOK, MarketTypeOK
    <2> QED
      BY <2>1, <2>3, OtherCounts
  <1>6. CASE UNCHANGED marketVars
    <2>1. UNCHANGED <<market, bet>>
      BY <1>6 DEF marketVars
    <2>2. \A k \in MarketIds : /\ Exists(k)' => Exists(k)
                               /\ market'[k].winner_counts = market[k].winner_counts
      BY <2>1 DEF Exists
    <2> QED
      BY <2>1, <2>2, OtherCounts
  <1>7. ASSUME MoneyStep PROVE CountInv'
    BY <1>2, <1>3, <1>4, <1>5, <1>6, <1>7 DEF MoneyStep
  <1> QED
    BY <1>1, <1>7, MoneyOrQuiet

(* increment_outcome_bet_count: a bettor is counted once per outcome, as   *)
(* long as the base fee in force is below 100 % (set_base_fee accepts      *)
(* more; a first bet then leaves no stake, and the next one is first again). *)
THEOREM WinnerCountsHolds == Spec /\ [](base_fee < BPS_DENOMINATOR) => []WinnerCountsExact
  <1>1. Init => CountInv
    BY InitCounts
  <1>2. TypeOK /\ LifeInv /\ StakeInv /\ CountInv /\ base_fee < BPS_DENOMINATOR /\ [Next]_vars => CountInv'
    BY StepCounts
  <1>3. CountInv => WinnerCountsExact
    BY CountInvImplies
  <1> QED
    BY <1>1, <1>2, <1>3, StakeInvHolds, PTL DEF Spec
=============================================================================
