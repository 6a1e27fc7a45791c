------------------------------- MODULE Markets -------------------------------
(***************************************************************************)
(* The core of the predict-iq contract: markets.rs, bets.rs, disputes.rs,  *)
(* the market side of resolution.rs, cancellation.rs and oracles.rs,       *)
(* composed with the fees (Fees) and the circuit breaker (CircuitBreaker)  *)
(* they call.  One action is one entrypoint that returns Ok; authorisation *)
(* is a call that may or may not be made.                                  *)
(*                                                                         *)
(* Community voting (voting.rs and the two entrypoints that read its       *)
(* tallies) is not here: cast_vote refuses every market whose              *)
(* dispute_snapshot_ledger is None, and no entrypoint sets that field.     *)
(***************************************************************************)
EXTENDS Fees, CircuitBreaker, FiniteSetsExt

CONSTANTS
  NoOne,                    \* stands for no address
  MaxMarkets,               \* bound: markets ever created
  MIN_DEADLINE_GAP, MAX_OUTCOMES_PER_MARKET, MAX_STALENESS_SECONDS,
  PRUNE_GRACE_PERIOD,
  DefaultWindow, MinWindow, MaxWindow,  \* dispute windows in force at first
  \* What callers pass:
  Creators, Deadlines, ResolutionDeadlines, OptionCounts, MinResponses,
  Staleness, Tiers, ParentOutcomes, Windows,
  Bettors, Amounts, Referrers, OracleIds, OracleOutcomes,
  \* What the admin configures:
  CreationDeposits, CreationFees, Treasuries, Reputations

VARIABLES
  market,                 \* DataKey::Market(id), NoMarket when there is none
  market_count,           \* DataKey::MarketCount
  market_dispute_window,  \* DataKey::MarketDisputeWindow(id), or None
  status_index,           \* the DataKey::StatusIndex(id, status) that exist
  bet,                    \* DataKey::Bet and BetReferrer (market, bettor, outcome)
  oracle,                 \* OracleData::Result and LastUpdate (market, oracle)
  config,                 \* ConfigKey::CreationDeposit ... MaxDisputeWindow
  reputation,             \* DataKey::CreatorReputation(creator)
  surplus,                \* history: tokens held that no record accounts for
  swapped                 \* history: deposits of other tokens paid out in this
                          \* token, less its own deposits paid out in another

marketVars ==
  <<market, market_count, market_dispute_window, status_index, bet, oracle,
    config, reputation, surplus, swapped>>

vars == <<ledgerVars, feeVars, cb, marketVars>>

MarketIds == 1..MaxMarkets
Outcomes == 0..(MAX_OUTCOMES_PER_MARKET - 1)
MarketStatus == {"Active", "PendingResolution", "Disputed", "Resolved", "Cancelled"}
CreatorReputation == {"None", "Basic", "Pro", "Institutional"}

ASSUME MarketAssumption ==
  /\ {MaxMarkets, MIN_DEADLINE_GAP, MAX_OUTCOMES_PER_MARKET,
      MAX_STALENESS_SECONDS, PRUNE_GRACE_PERIOD} \subseteq Nat
  /\ {DefaultWindow, MinWindow, MaxWindow} \subseteq Nat
  /\ 0 < MinWindow /\ MinWindow =< DefaultWindow /\ DefaultWindow =< MaxWindow
  /\ NoOne \notin Users /\ NoOne \notin Tokens
  /\ Creators \subseteq Users /\ Bettors \subseteq Users
  /\ IsFiniteSet(Tokens) /\ IsFiniteSet(Bettors)
  /\ Referrers \subseteq Users \cup {NoOne}
  /\ Deadlines \subseteq Nat /\ ResolutionDeadlines \subseteq Nat
  /\ OptionCounts \subseteq Nat /\ Staleness \subseteq Nat
  /\ MinResponses \subseteq Nat \cup {None}
  /\ Tiers \subseteq MarketTier /\ ParentOutcomes \subseteq Nat
  /\ Windows \subseteq Nat \cup {None}
  /\ Amounts \subseteq Nat \ {0}
  /\ OracleIds \subseteq Nat /\ 0 \in OracleIds /\ OracleOutcomes \subseteq Nat
  /\ CreationDeposits \subseteq Int /\ CreationFees \subseteq Int
  /\ Treasuries \subseteq {"contract", "treasury"}
  /\ Reputations \subseteq CreatorReputation
------------------------------------------------------------------------------
(* The arguments of create_market and create_market_with_dispute_window:   *)
(* dispute_window is None for the former.                                  *)
Requests ==
  [options : OptionCounts, deadline : Deadlines,
   resolution_deadline : ResolutionDeadlines, min_responses : MinResponses,
   max_staleness : Staleness, tier : Tiers, token_address : Tokens,
   parent_id : {0} \cup MarketIds, parent_outcome_idx : ParentOutcomes,
   dispute_window : Windows]

(* struct Market, without what nothing reads: texts, the payout mode (Pull *)
(* for ever) and total_claimed.                                            *)
Market(creator, r, deposit) ==
  [status |-> "Active", creator |-> creator, options |-> r.options,
   deadline |-> r.deadline, resolution_deadline |-> r.resolution_deadline,
   winning_outcome |-> None, min_responses |-> r.min_responses,
   max_staleness |-> r.max_staleness, total_staked |-> 0, tier |-> r.tier,
   creation_deposit |-> deposit, parent_id |-> r.parent_id,
   parent_outcome_idx |-> r.parent_outcome_idx, resolved_at |-> None,
   token_address |-> r.token_address,
   outcome_stakes |-> [o \in Outcomes |-> 0],
   pending_resolution_timestamp |-> None, dispute_snapshot_ledger |-> None,
   dispute_timestamp |-> None, winner_counts |-> [o \in Outcomes |-> 0]]

(* The value of a key DataKey::Market(id) that does not exist. *)
NoMarket ==
  [Market(NoOne,
          [options |-> 0, deadline |-> 0, resolution_deadline |-> 0,
           min_responses |-> None, max_staleness |-> 0, tier |-> "Basic",
           token_address |-> NoOne, parent_id |-> 0, parent_outcome_idx |-> 0], 0)
   EXCEPT !.status = "Absent"]

Exists(m) == market[m].status # "Absent"

NoBet == [amount |-> 0, fee_paid |-> 0, referrer |-> NoOne]

MarketInit ==
  /\ market = [m \in MarketIds |-> NoMarket]
  /\ market_count = 0
  /\ market_dispute_window = [m \in MarketIds |-> None]
  /\ status_index = {}
  /\ bet = [m \in MarketIds |-> [u \in Bettors |-> [o \in Outcomes |-> NoBet]]]
  /\ oracle = [m \in MarketIds |->
                 [i \in OracleIds |-> [result |-> None, last_update |-> None]]]
  /\ config = [creation_deposit |-> 0, creation_fee |-> 0, treasury |-> "contract",
               default_window |-> DefaultWindow, min_window |-> MinWindow,
               max_window |-> MaxWindow]
  /\ reputation = [u \in Creators |-> "None"]
  /\ surplus = [t \in Tokens |-> 0]
  /\ swapped = [t \in Tokens |-> 0]

Init == LedgerInit /\ FeeInit /\ BreakerInit /\ MarketInit
------------------------------------------------------------------------------
(* Deviation: the entry of the old status stays in the index. *)
UpdateMarket_IndexNotMoved(m, rec) ==
  /\ market' = [market EXCEPT ![m] = rec]
  /\ status_index' = status_index \cup {<<m, rec.status>>}

(* update_market and update_status_index *)
UpdateMarket(m, rec) ==
  /\ market' = [market EXCEPT ![m] = rec]
  /\ status_index' = (status_index \ {<<m, market[m].status>>}) \cup {<<m, rec.status>>}

(* get_market_dispute_window *)
GetMarketDisputeWindow(m) ==
  IF market_dispute_window[m] = None THEN config.default_window
                                     ELSE market_dispute_window[m]

(* validate_dispute_window *)
ValidDisputeWindow(w) == config.min_window =< w /\ w =< config.max_window

(* validate_parent_market *)
ValidParent(p, idx) ==
  /\ market[p].status = "Resolved"
  /\ market[p].winning_outcome = idx
  /\ idx < market[p].options

(* create_market_with_dispute_window: a conditional market closes no later *)
(* than its parent was due to be resolved.                                 *)
ParentAllows(r) ==
  r.parent_id > 0 =>
    /\ ValidParent(r.parent_id, r.parent_outcome_idx)
    /\ r.deadline =< market[r.parent_id].resolution_deadline

(* create_market_with_dispute_window: which reputation opens which tier, *)
(* and who pays a deposit                                                *)
TierAllowed(tier, rep) ==
  CASE tier = "Basic" -> TRUE
    [] tier = "Pro" -> rep \in {"Pro", "Institutional"}
    [] tier = "Institutional" -> rep = "Institutional"

DepositDue(rep) ==
  IF rep \in {"Pro", "Institutional"} THEN 0 ELSE config.creation_deposit

(* Deposit and fee are not validated; only a positive one is transferred,  *)
(* while the record holds the deposit as it is.                            *)
Positive(amount) == IF amount > 0 THEN amount ELSE 0

CreateMarket(creator, r) ==
  LET id == market_count + 1
      deposit == DepositDue(reputation[creator])
      kept_fee == IF config.treasury = "contract" THEN Positive(config.creation_fee) ELSE 0
      window == IF r.dispute_window = None THEN config.default_window
                                           ELSE r.dispute_window
  IN
  /\ market_count < MaxMarkets
  /\ RequireNotPaused
  /\ r.deadline > now
  /\ r.resolution_deadline > r.deadline
  /\ r.resolution_deadline - r.deadline >= MIN_DEADLINE_GAP
  /\ r.options =< MAX_OUTCOMES_PER_MARKET
  /\ ParentAllows(r)
  /\ TierAllowed(r.tier, reputation[creator])
  /\ ValidDisputeWindow(window)
  /\ Receive(r.token_address, kept_fee + Positive(deposit))
  /\ surplus' = [surplus EXCEPT ![r.token_address] = @ + kept_fee]
  /\ market' = [market EXCEPT ![id] = Market(creator, r, deposit)]
  /\ market_dispute_window' = [market_dispute_window EXCEPT ![id] = window]
  /\ status_index' = status_index \cup {<<id, "Active">>}
  /\ market_count' = id
  /\ UNCHANGED <<now, feeVars, cb, bet, oracle, config, reputation, swapped>>

(* Deviation: a second bet on the outcome replaces the outcome's stake. *)
StakeOn_Overwrites(mk, o, net, first) ==
  [mk EXCEPT !.total_staked = @ + net,
             !.outcome_stakes[o] = IF first THEN @ + net ELSE net,
             !.winner_counts[o] = @ + (IF first THEN 1 ELSE 0)]

(* place_bet: the market and the bet after net was added to outcome o *)
StakeOn(mk, o, net, first) ==
  [mk EXCEPT !.total_staked = @ + net,
             !.outcome_stakes[o] = @ + net,
             !.winner_counts[o] = @ + (IF first THEN 1 ELSE 0)]

BetAfter(b, net, fee, referrer) ==
  [amount |-> b.amount + net, fee_paid |-> b.fee_paid + fee,
   referrer |-> IF referrer = NoOne THEN b.referrer ELSE referrer]

(* Deviation: every bet counts as a bettor. *)
IsNewBettor_Always(b, net) == net > 0

(* is_new_bettor: the stored amount is just what this bet added. *)
IsNewBettor(b, net) == b.amount + net = net

(* place_bet *)
PlaceBet(u, m, o, amount, referrer) ==
  LET mk == market[m]
      fee == CalculateTieredFee(amount, mk.tier)
      net == amount - fee
  IN
  /\ RequireNotPaused
  /\ referrer # u
  /\ mk.status = "Active"
  /\ mk.parent_id > 0 => ValidParent(mk.parent_id, mk.parent_outcome_idx)
  /\ now < mk.deadline
  /\ now < mk.resolution_deadline
  /\ o < mk.options
  /\ Receive(mk.token_address, amount)
  /\ CollectFee(mk.token_address, fee)
  /\ bet' = [bet EXCEPT ![m][u][o] = BetAfter(@, net, fee, referrer)]
  /\ UpdateMarket(m, StakeOn(mk, o, net, IsNewBettor(bet[m][u][o], net)))
  /\ IF referrer = NoOne THEN UNCHANGED referrer_balance
                         ELSE AddReferralReward(referrer, mk.token_address, fee)
  /\ UNCHANGED <<now, base_fee, rewards_paid, cb, market_count, market_dispute_window,
                 oracle, config, reputation, surplus, swapped>>

(* set_oracle_result (admin): any market id, any outcome *)
SetOracleResult(m, i, outcome) ==
  /\ oracle' = [oracle EXCEPT ![m][i] = [result |-> outcome, last_update |-> now]]
  /\ UNCHANGED <<ledgerVars, feeVars, cb, market, market_count, market_dispute_window,
                 status_index, bet, config, reputation, surplus, swapped>>

(* validate_oracle_staleness and effective_max_staleness *)
OracleFresh(m) ==
  LET mk == market[m]
      num_oracles == IF mk.min_responses = None THEN 1 ELSE mk.min_responses
      max_staleness == IF mk.max_staleness < MAX_STALENESS_SECONDS
                       THEN mk.max_staleness ELSE MAX_STALENESS_SECONDS
      reported == {i \in OracleIds : i < num_oracles /\ oracle[m][i].last_update # None}
  IN
  /\ reported # {}
  /\ \A i \in reported : now - oracle[m][i].last_update =< max_staleness

(* The part of the state that a change of one market's record leaves alone. *)
OnlyMarketChanges ==
  UNCHANGED <<ledgerVars, feeVars, market_count, market_dispute_window, bet,
              oracle, config, reputation, surplus, swapped>>

(* Deviation: the oracle's answer is accepted as soon as betting closes. *)
AttemptOracleResolution_AtDeadline(m) ==
  /\ market[m].status = "Active"
  /\ now >= market[m].deadline
  /\ OracleFresh(m)
  /\ oracle[m][0].result # None
  /\ UpdateMarket(m, [market[m] EXCEPT !.status = "PendingResolution",
                                       !.winning_outcome = oracle[m][0].result,
                                       !.pending_resolution_timestamp = now])
  /\ OnlyMarketChanges /\ UNCHANGED cb

(* attempt_oracle_resolution (permissionless) *)
AttemptOracleResolution(m) ==
  /\ market[m].status = "Active"
  /\ now >= market[m].resolution_deadline
  /\ OracleFresh(m)
  /\ oracle[m][0].result # None
  /\ UpdateMarket(m, [market[m] EXCEPT !.status = "PendingResolution",
                                       !.winning_outcome = oracle[m][0].result,
                                       !.pending_resolution_timestamp = now])
  /\ OnlyMarketChanges /\ UNCHANGED cb

(* Deviation: the window is today's default, not the market's own. *)
FileDispute_DefaultWindow(m) ==
  /\ RequireClosed
  /\ market[m].status = "PendingResolution"
  /\ now < market[m].pending_resolution_timestamp + config.default_window
  /\ UpdateMarket(m, [market[m] EXCEPT !.status = "Disputed",
                                       !.dispute_timestamp = now,
                                       !.resolution_deadline = @ + config.default_window])
  /\ OnlyMarketChanges

(* file_dispute (anyone) *)
FileDispute(m) ==
  LET window == GetMarketDisputeWindow(m) IN
  /\ RequireClosed
  /\ market[m].status = "PendingResolution"
  /\ market[m].pending_resolution_timestamp # None
  /\ now < market[m].pending_resolution_timestamp + window
  /\ UpdateMarket(m, [market[m] EXCEPT !.status = "Disputed",
                                       !.dispute_timestamp = now,
                                       !.resolution_deadline = @ + window])
  /\ OnlyMarketChanges

(* Deviation: the last moment of the window belongs to nobody. *)
FinalizePending_StrictlyAfter(m) ==
  /\ market[m].status = "PendingResolution"
  /\ now > market[m].pending_resolution_timestamp + GetMarketDisputeWindow(m)
  /\ market[m].winning_outcome # None
  /\ UpdateMarket(m, [market[m] EXCEPT !.status = "Resolved", !.resolved_at = now])
  /\ OnlyMarketChanges /\ UNCHANGED cb

(* finalize_resolution (permissionless), the PendingResolution branch *)
FinalizePending(m) ==
  /\ market[m].status = "PendingResolution"
  /\ market[m].pending_resolution_timestamp # None
  /\ now >= market[m].pending_resolution_timestamp + GetMarketDisputeWindow(m)
  /\ market[m].winning_outcome # None
  /\ UpdateMarket(m, [market[m] EXCEPT !.status = "Resolved", !.resolved_at = now])
  /\ OnlyMarketChanges /\ UNCHANGED cb

Terminal == {"Resolved", "Cancelled"}

(* Deviation: a market already resolved can be resolved again. *)
ResolveMarket_Again(m, outcome) ==
  /\ Exists(m) /\ market[m].status # "Cancelled"
  /\ outcome < market[m].options
  /\ UpdateMarket(m, [market[m] EXCEPT !.status = "Resolved",
                                       !.winning_outcome = outcome,
                                       !.resolved_at = now])
  /\ OnlyMarketChanges /\ UNCHANGED cb

(* resolve_market (admin): from every status that is not terminal *)
ResolveMarket(m, outcome) ==
  /\ Exists(m) /\ market[m].status \notin Terminal
  /\ outcome < market[m].options
  /\ UpdateMarket(m, [market[m] EXCEPT !.status = "Resolved",
                                       !.winning_outcome = outcome,
                                       !.resolved_at = now])
  /\ OnlyMarketChanges /\ UNCHANGED cb

(* cancel_market_admin *)
CancelMarketAdmin(m) ==
  /\ Exists(m) /\ market[m].status \notin Terminal
  /\ UpdateMarket(m, [market[m] EXCEPT !.status = "Cancelled"])
  /\ OnlyMarketChanges /\ UNCHANGED cb

(* history: deposit was due in token own and is paid in token t. *)
Swap(t, own, deposit) ==
  LET part(x, token) == IF x = token THEN deposit ELSE 0 IN
  swapped' = [x \in Tokens |-> swapped[x] + part(x, t) - part(x, own)]

(* Deviation: the deposit is paid and not zeroed. *)
ReleaseCreationDeposit_Repeatable(m, t) ==
  /\ market[m].status = "Resolved"
  /\ market[m].creation_deposit > 0
  /\ Pay(t, market[m].creation_deposit)
  /\ Swap(t, market[m].token_address, market[m].creation_deposit)
  /\ UNCHANGED <<now, feeVars, cb, market, market_count, market_dispute_window,
                 status_index, bet, oracle, config, reputation, surplus>>

(* release_creation_deposit (the creator): the token is the caller's choice *)
ReleaseCreationDeposit(m, t) ==
  LET deposit == market[m].creation_deposit IN
  /\ market[m].status = "Resolved"
  /\ deposit > 0
  /\ UpdateMarket(m, [market[m] EXCEPT !.creation_deposit = 0])
  /\ Pay(t, deposit)
  /\ Swap(t, market[m].token_address, deposit)
  /\ UNCHANGED <<now, feeVars, cb, market_count, market_dispute_window, bet, oracle,
                 config, reputation, surplus>>

(* prune_market (permissionless).  A deposit that was not reclaimed and    *)
(* the stakes stay behind, without a market.                               *)
PruneMarket(m) ==
  LET mk == market[m]
      left == mk.total_staked + Positive(mk.creation_deposit)
  IN
  /\ mk.status = "Resolved"
  /\ mk.resolved_at # None
  /\ now >= mk.resolved_at + PRUNE_GRACE_PERIOD
  /\ market' = [market EXCEPT ![m] = NoMarket]
  /\ market_dispute_window' = [market_dispute_window EXCEPT ![m] = None]
  /\ status_index' = status_index \ {<<m, "Resolved">>}
  /\ surplus' = [surplus EXCEPT ![mk.token_address] = @ + left]
  /\ UNCHANGED <<ledgerVars, feeVars, cb, market_count, bet, oracle, config, reputation, swapped>>

(* set_dispute_window and set_dispute_window_bounds (admin) *)
SetDisputeWindow(w) ==
  /\ ValidDisputeWindow(w)
  /\ config' = [config EXCEPT !.default_window = w]

SetDisputeWindowBounds(lo, hi) ==
  /\ 0 < lo /\ lo =< hi
  /\ lo =< config.default_window /\ config.default_window =< hi
  /\ config' = [config EXCEPT !.min_window = lo, !.max_window = hi]

(* set_creation_deposit, set_creation_fee, set_protocol_treasury (admin):  *)
(* any amount is stored.                                                   *)
SetCreationTerms ==
  \/ \E d \in CreationDeposits : config' = [config EXCEPT !.creation_deposit = d]
  \/ \E f \in CreationFees : config' = [config EXCEPT !.creation_fee = f]
  \/ \E t \in Treasuries : config' = [config EXCEPT !.treasury = t]

Configure ==
  /\ \/ SetCreationTerms
     \/ \E w \in Windows \ {None} : SetDisputeWindow(w)
     \/ \E lo, hi \in Windows \ {None} : SetDisputeWindowBounds(lo, hi)
  /\ UNCHANGED <<ledgerVars, feeVars, cb, market, market_count, market_dispute_window,
                 status_index, bet, oracle, reputation, surplus, swapped>>

(* set_creator_reputation (admin) *)
SetCreatorReputation(u, rep) ==
  /\ reputation' = [reputation EXCEPT ![u] = rep]
  /\ UNCHANGED <<ledgerVars, feeVars, cb, market, market_count, market_dispute_window,
                 status_index, bet, oracle, config, surplus, swapped>>

Tick == AdvanceClock /\ UNCHANGED <<held, received, feeVars, cb, marketVars>>

MarketStep(m) ==
  \/ \E u \in Bettors, o \in Outcomes, amount \in Amounts, r \in Referrers :
        PlaceBet(u, m, o, amount, r)
  \/ \E i \in OracleIds, outcome \in OracleOutcomes : SetOracleResult(m, i, outcome)
  \/ AttemptOracleResolution(m)
  \/ FileDispute(m)
  \/ FinalizePending(m)
  \/ \E outcome \in Outcomes : ResolveMarket(m, outcome)
  \/ CancelMarketAdmin(m)
  \/ \E t \in Tokens : ReleaseCreationDeposit(m, t)
  \/ PruneMarket(m)

FeeStep ==
  /\ \/ \E bps \in BaseFees : SetBaseFee(bps)
     \/ \E t \in Tokens : WithdrawProtocolFees(t)
     \/ \E u \in Users, t \in Tokens : ClaimReferralRewards(u, t)
  /\ UNCHANGED <<cb, marketVars>>

BreakerStep ==
  /\ \E s \in BreakerInputs : SetState(s)
  /\ UNCHANGED <<ledgerVars, feeVars, marketVars>>

Next ==
  \/ Tick
  \/ \E c \in Creators, r \in Requests : CreateMarket(c, r)
  \/ \E m \in MarketIds : MarketStep(m)
  \/ FeeStep
  \/ BreakerStep
  \/ Configure
  \/ \E u \in Creators, rep \in Reputations : SetCreatorReputation(u, rep)

Spec == Init /\ [][Next]_vars

(* finalize_resolution is permissionless, so whoever wants the market      *)
(* settled can call it, and ledgers keep closing.                          *)
FairSpec ==
  /\ Spec
  /\ WF_vars(Tick)
  /\ \A m \in MarketIds : WF_vars(FinalizePending(m))
------------------------------------------------------------------------------
MarketRecord ==
  [status : MarketStatus \cup {"Absent"}, creator : Users \cup {NoOne},
   options : Nat, deadline : Nat, resolution_deadline : Nat,
   winning_outcome : Nat \cup {None}, min_responses : Nat \cup {None},
   max_staleness : Nat, total_staked : Int, tier : MarketTier,
   creation_deposit : Int, parent_id : {0} \cup MarketIds, parent_outcome_idx : Nat,
   resolved_at : Nat \cup {None}, token_address : Tokens \cup {NoOne},
   outcome_stakes : [Outcomes -> Int],
   pending_resolution_timestamp : Nat \cup {None},
   dispute_snapshot_ledger : {None}, dispute_timestamp : Nat \cup {None},
   winner_counts : [Outcomes -> Nat]]

Config ==
  [creation_deposit : Int, creation_fee : Int, treasury : {"contract", "treasury"},
   default_window : Nat, min_window : Nat, max_window : Nat]

MarketTypeOK ==
  /\ market \in [MarketIds -> MarketRecord]
  /\ market_count \in 0..MaxMarkets
  /\ market_dispute_window \in [MarketIds -> Nat \cup {None}]
  /\ status_index \subseteq MarketIds \X MarketStatus
  /\ bet \in [MarketIds -> [Bettors -> [Outcomes ->
              [amount : Int, fee_paid : Int, referrer : Users \cup {NoOne}]]]]
  /\ oracle \in [MarketIds -> [OracleIds ->
                 [result : OracleOutcomes \cup {None}, last_update : Nat \cup {None}]]]
  /\ config \in Config
  /\ reputation \in [Creators -> CreatorReputation]
  /\ {surplus, swapped} \subseteq [Tokens -> Int]

(* Every storage key holds a value of the type its Rust declaration gives. *)
TypeOK == LedgerTypeOK /\ FeeTypeOK /\ BreakerTypeOK /\ MarketTypeOK

(* The status index that get_markets_by_status probes lists exactly the    *)
(* markets stored, each under its current status (markets.rs, DataKey):    *)
(* no entrypoint forgets to move, add or remove an entry.                  *)
StatusIndexExact ==
  \A m \in MarketIds, s \in MarketStatus :
    <<m, s>> \in status_index <=> market[m].status = s

(* Ids are handed out in order and never again: a market that does not     *)
(* exist below market_count was pruned, none exists above it.              *)
CountCoversMarkets == \A m \in MarketIds : Exists(m) => m =< market_count

TimesAgree(mk, window) ==
  LET pending == mk.pending_resolution_timestamp IN
  /\ mk.status = "Active" => mk.winning_outcome = None /\ pending = None
  /\ mk.status = "PendingResolution" => mk.winning_outcome # None /\ pending # None
  /\ mk.status \in {"Active", "PendingResolution"} => mk.dispute_timestamp = None
  /\ mk.status = "Disputed" => mk.dispute_timestamp # None
  /\ pending # None /\ mk.dispute_timestamp = None => pending >= mk.resolution_deadline
  /\ mk.dispute_timestamp # None =>
       /\ pending # None
       /\ pending =< mk.dispute_timestamp
       /\ mk.dispute_timestamp < pending + window
  /\ mk.status = "Resolved" <=> mk.resolved_at # None
  /\ mk.status = "Resolved" => mk.winning_outcome # None /\ pending =< mk.resolved_at

(* The status of a market and its recorded times agree, whichever          *)
(* entrypoints (oracle, dispute, admin) brought it there: an oracle answer *)
(* was taken no earlier than the resolution deadline, a dispute was filed  *)
(* within the window the market was created with even when the default     *)
(* window has since been changed, and a market has a resolution time and a *)
(* winner exactly when it should.                                          *)
TimesAgreeWithStatus ==
  \A m \in MarketIds : TimesAgree(market[m], market_dispute_window[m])

(* A conditional market's premise stands for as long as its parent is      *)
(* stored: the parent is resolved to the outcome the child was created     *)
(* for.  validate_parent_market checks this at creation and at every bet;  *)
(* it holds at all times because no path re-resolves a resolved market.    *)
ParentOutcomeStands ==
  \A m \in MarketIds :
    Exists(m) /\ market[m].parent_id > 0 =>
      LET p == market[m].parent_id IN
      /\ p < m
      /\ Exists(p) => ValidParent(p, market[m].parent_outcome_idx)

(* The child's deadline lies after its creation and not after the parent's *)
(* resolution deadline, so only a parent settled before its own resolution *)
(* deadline can have children.                                             *)
ParentSettledEarly ==
  \A m \in MarketIds :
    Exists(m) /\ market[m].parent_id > 0 /\ Exists(market[m].parent_id) =>
      LET p == market[market[m].parent_id] IN p.resolved_at < p.resolution_deadline

(* No conditional market can ever be opened on a market that the oracle    *)
(* resolved and nobody disputed (unless the admin overrode it): such a     *)
(* market is finalised after its resolution deadline.                      *)
OracleSettledHasNoChild ==
  \A m, p \in MarketIds :
    (Exists(m) /\ market[m].parent_id = p /\ Exists(p)) =>
      ~ /\ market[p].pending_resolution_timestamp # None
        /\ market[p].dispute_timestamp = None
        /\ market[p].resolved_at >=
             market[p].pending_resolution_timestamp + market_dispute_window[p]

(* Nothing is dated in the future, and every market keeps its own window. *)
PastTimes(mk, t) ==
  /\ mk.pending_resolution_timestamp =< t
  /\ mk.dispute_timestamp =< t
  /\ mk.resolved_at =< t

(* The inductive invariant behind the properties above. *)
LifeInv ==
  /\ CountCoversMarkets
  /\ StatusIndexExact
  /\ TimesAgreeWithStatus
  /\ \A m \in MarketIds : PastTimes(market[m], now)
  /\ \A m \in MarketIds : Exists(m) => market_dispute_window[m] # None
  /\ ParentOutcomeStands
  /\ ParentSettledEarly

(* INVARIANTS.md section 1, down to the bets: in every market the stake of *)
(* each outcome is the sum of the bets on it, and total_staked the sum of  *)
(* the outcomes.                                                           *)
StakeConservation ==
  \A m \in MarketIds : Exists(m) =>
    /\ \A o \in Outcomes :
         market[m].outcome_stakes[o] = SumFunction([u \in Bettors |-> bet[m][u][o].amount])
    /\ market[m].total_staked = SumFunction(market[m].outcome_stakes)

(* winner_counts "tracks unique bettors per outcome, not total bet         *)
(* transactions" (increment_outcome_bet_count).                            *)
WinnerCountsExact ==
  \A m \in MarketIds, o \in Outcomes : Exists(m) =>
    market[m].winner_counts[o] =
      Cardinality({u \in Bettors : bet[m][u][o].amount + bet[m][u][o].fee_paid > 0})

(* What the contract keeps in token t for a market that it stores.         *)
Backing(mk, t) ==
  IF mk.token_address = t THEN mk.total_staked + Positive(mk.creation_deposit) ELSE 0

(* Token by token, every unit the contract holds is the stake of a stored  *)
(* market, a creator's deposit, protocol revenue not yet withdrawn or a    *)
(* known surplus, except for two leaks: a referral reward once paid was    *)
(* never taken out of the revenue, and a deposit reclaimed in a token      *)
(* other than the market's was taken out of what is held of that token     *)
(* (bets.rs, fees.rs, create_market, release_creation_deposit and          *)
(* prune_market together).                                                 *)
EscrowAccounting ==
  \A t \in Tokens :
    held[t] + rewards_paid[t] + swapped[t] =
      SumFunction([m \in MarketIds |-> Backing(market[m], t)]) + fee_revenue[t] + surplus[t]

(* The contract can always hand every bettor of every stored market their  *)
(* stake, after any sequence of fee withdrawals and deposit releases.      *)
PrincipalCovered ==
  \A t \in Tokens :
    held[t] >= SumFunction([m \in {i \in MarketIds : market[i].token_address = t} |->
                              market[m].total_staked])

(* INVARIANTS.md section 3: Resolved and Cancelled are terminal.  Winner,  *)
(* stakes and status of such a market never change again; it can only be   *)
(* pruned, and only from Resolved.                                         *)
TerminalFrozen ==
  [][\A m \in MarketIds : market[m].status \in Terminal =>
       \/ market'[m].status = "Absent" /\ market[m].status = "Resolved"
       \/ \A f \in {"status", "winning_outcome", "total_staked", "outcome_stakes",
                      "resolved_at", "resolution_deadline", "options"} :
            market'[m][f] = market[m][f]]_vars

(* A market waiting for its dispute window does not wait for ever: it is   *)
(* disputed, settled or cancelled, provided the window ends within the     *)
(* modelled time.                                                          *)
PendingSettles ==
  \A m \in MarketIds :
    (/\ market[m].status = "PendingResolution"
     /\ market[m].pending_resolution_timestamp + GetMarketDisputeWindow(m) =< MaxTime)
    ~> market[m].status # "PendingResolution"
------------------------------------------------------------------------------
(* The status of a market as MarketStatus sees it: a market that is gone   *)
(* below market_count was pruned.                                          *)
AbstractStatus ==
  [m \in MarketIds |-> IF Exists(m) THEN market[m].status
                       ELSE IF m =< market_count THEN "Pruned" ELSE "Unused"]

Status == INSTANCE MarketStatus WITH
  Ids <- MarketIds, Winners <- Outcomes \cup OracleOutcomes, NoWinner <- None,
  st <- AbstractStatus, win <- [m \in MarketIds |-> market[m].winning_outcome]

(* Whatever the entrypoints, the oracle, the clock and the money do, every *)
(* market lives as MarketStatus says.                                      *)
ImplementsMarketStatus == Status!Spec
==============================================================================
