------------------------------- MODULE Voting -------------------------------
(***************************************************************************)
(* voting.rs and its readers: the community vote on one disputed market,   *)
(* cancel_market_vote (cancellation.rs), the Disputed branch of            *)
(* finalize_resolution (resolution.rs), and what prune_market does to the  *)
(* votes.  One action is one call that returns Ok.                         *)
(*                                                                         *)
(* The model starts where the tests of voting.rs start: the market is      *)
(* Disputed and has a dispute_snapshot_ledger.  No entrypoint writes that  *)
(* field (TypeOK of Markets has it None for ever), so this is the          *)
(* component by itself and not a state of the deployed contract.           *)
(***************************************************************************)
EXTENDS Ledger, FiniteSetsExt

CONSTANTS
  Voters, Minted,              \* Minted[t][v]: tokens in circulation at the snapshot
  SnapshotTokens,              \* the tokens that have balance_at
  Decimals, NORMALIZED_DECIMALS,
  I128_MAX,
  Weights,                     \* what voters pass as weight
  Options, CANCEL_OUTCOME_INDEX,
  VOTING_PERIOD_SECONDS, MAJORITY_THRESHOLD_BPS, FAILED_MARKET_THRESHOLD_BPS,
  ResolutionDeadline,          \* as file_dispute extended it
  OracleOutcome,               \* the disputed answer
  PRUNE_GRACE_PERIOD

VARIABLES
  status, winning_outcome, resolved_at,    \* of the market
  gov_token,                               \* ConfigKey::GovernanceToken
  vote,                                    \* DataKey::Vote(voter)
  tally,                                   \* DataKey::VoteTally(outcome)
  unlock_time,                             \* DataKey::LockedTokens(voter), or None
  locked_balance,                          \* DataKey::LockedBalance(voter)
  wallet,                                  \* wallet[t][v]: the token contract's balances
  weighed_in,                              \* history: the token that weighed the vote
  decided_by,                              \* history: "vote" or "admin"
  stranded                                 \* history: locks that prune_market dropped

marketVars == <<status, winning_outcome, resolved_at, decided_by>>
voteVars == <<vote, tally, weighed_in>>
lockVars == <<unlock_time, locked_balance, stranded>>
vars == <<ledgerVars, marketVars, gov_token, voteVars, lockVars, wallet>>

OptionOutcomes == 0..(Options - 1)
VoteOutcomes == OptionOutcomes \cup {CANCEL_OUTCOME_INDEX}
NoVote == [outcome |-> None, weight |-> 0]

(* cast_vote: between the decimals of a token and the 18 of the contract *)
Scale(t) == 10^(IF Decimals[t] < NORMALIZED_DECIMALS THEN NORMALIZED_DECIMALS - Decimals[t]
                                                     ELSE Decimals[t] - NORMALIZED_DECIMALS)

VotingAssumption ==
  /\ Minted \in [Tokens -> [Voters -> Nat]] /\ SnapshotTokens \subseteq Tokens
  /\ Decimals \in [Tokens -> Nat] /\ Weights \subseteq Nat
  /\ {NORMALIZED_DECIMALS, I128_MAX, Options, CANCEL_OUTCOME_INDEX, ResolutionDeadline,
      VOTING_PERIOD_SECONDS, MAJORITY_THRESHOLD_BPS, FAILED_MARKET_THRESHOLD_BPS,
      OracleOutcome, PRUNE_GRACE_PERIOD} \subseteq Nat
  /\ CANCEL_OUTCOME_INDEX >= Options
  /\ \A t \in Tokens : Scale(t) \in Nat \ {0}

Init ==
  /\ LedgerInit
  /\ status = "Disputed" /\ winning_outcome = OracleOutcome /\ resolved_at = None
  /\ gov_token \in Tokens
  /\ vote = [v \in Voters |-> NoVote] /\ tally = [o \in VoteOutcomes |-> 0]
  /\ weighed_in = [v \in Voters |-> gov_token]
  /\ unlock_time = [v \in Voters |-> None] /\ locked_balance = [v \in Voters |-> 0]
  /\ wallet = Minted
  /\ decided_by = "nobody" /\ stranded = 0

(* The votes a market has: those of DisputeVoters. *)
CastBy == {v \in Voters : vote[v] # NoVote}
VoteWeights == [v \in Voters |-> vote[v].weight]
WeightFor(outcomes) ==
  SumFunctionOnSet(VoteWeights, {v \in CastBy : vote[v].outcome \in outcomes})
TallyOf(outcomes) == SumFunctionOnSet(tally, outcomes)
------------------------------------------------------------------------------
(* cast_vote: the weight in 18 decimals, whatever the token's own *)
Normalize(t, w) ==
  IF Decimals[t] < NORMALIZED_DECIMALS
  THEN Min({w * Scale(t), I128_MAX})
  ELSE w \div Scale(t)

(* Deviation: a revised vote keeps counting for the old outcome. *)
TallyAfter_KeepsOld(v, outcome, w) == [tally EXCEPT ![outcome] = @ + w]

(* cast_vote: the old vote is taken off before the new one is added *)
TallyAfter(v, outcome, w) ==
  [o \in VoteOutcomes |-> tally[o]
                          - (IF vote[v].outcome = o THEN vote[v].weight ELSE 0)
                          + (IF outcome = o THEN w ELSE 0)]

(* try_get_balance_at: what the voter had when the dispute was filed *)
WeighBySnapshot(v) ==
  /\ gov_token \in SnapshotTokens
  /\ UNCHANGED <<ledgerVars, lockVars, wallet>>

(* Deviation: a second lock replaces the record of the first. *)
WeighByLock_Overwrites(v, weight) ==
  /\ gov_token \notin SnapshotTokens
  /\ wallet[gov_token][v] >= weight
  /\ wallet' = [wallet EXCEPT ![gov_token][v] = @ - weight]
  /\ Receive(gov_token, weight) /\ UNCHANGED now
  /\ locked_balance' = [locked_balance EXCEPT ![v] = weight]
  /\ unlock_time' = [unlock_time EXCEPT ![v] = ResolutionDeadline]
  /\ UNCHANGED stranded

(* cast_vote, the fallback: the contract takes the tokens *)
WeighByLock(v, weight) ==
  /\ gov_token \notin SnapshotTokens
  /\ wallet[gov_token][v] >= weight
  /\ wallet' = [wallet EXCEPT ![gov_token][v] = @ - weight]
  /\ Receive(gov_token, weight) /\ UNCHANGED now
  /\ locked_balance' = [locked_balance EXCEPT ![v] = @ + weight]
  /\ unlock_time' = [unlock_time EXCEPT ![v] = ResolutionDeadline]
  /\ UNCHANGED stranded

(* cast_vote: overflow-checks makes an overflowing tally a failing call *)
CastVote(v, outcome, weight) ==
  LET raw == IF gov_token \in SnapshotTokens THEN Minted[gov_token][v] ELSE weight
      w == Normalize(gov_token, raw)
  IN
  /\ status = "Disputed"
  /\ WeighBySnapshot(v) \/ WeighByLock(v, weight)
  /\ w # 0
  /\ TallyAfter(v, outcome, w)[outcome] =< I128_MAX
  /\ tally' = TallyAfter(v, outcome, w)
  /\ vote' = [vote EXCEPT ![v] = [outcome |-> outcome, weight |-> w]]
  /\ weighed_in' = [weighed_in EXCEPT ![v] = gov_token]
  /\ UNCHANGED <<marketVars, gov_token>>

(* Deviation: tokens come back at the deadline, whatever the market does. *)
UnlockTokens_AnyStatus(v) ==
  /\ status # "Absent"
  /\ unlock_time[v] # None /\ now >= unlock_time[v]
  /\ locked_balance[v] > 0
  /\ Pay(gov_token, locked_balance[v]) /\ UNCHANGED now
  /\ wallet' = [wallet EXCEPT ![gov_token][v] = @ + locked_balance[v]]
  /\ unlock_time' = [unlock_time EXCEPT ![v] = None]
  /\ locked_balance' = [locked_balance EXCEPT ![v] = 0]
  /\ UNCHANGED <<marketVars, gov_token, voteVars, stranded>>

(* unlock_tokens: paid in the governance token of today *)
UnlockTokens(v) ==
  /\ status \in {"Resolved", "Cancelled"}
  /\ unlock_time[v] # None /\ now >= unlock_time[v]
  /\ locked_balance[v] > 0
  /\ Pay(gov_token, locked_balance[v]) /\ UNCHANGED now
  /\ wallet' = [wallet EXCEPT ![gov_token][v] = @ + locked_balance[v]]
  /\ unlock_time' = [unlock_time EXCEPT ![v] = None]
  /\ locked_balance' = [locked_balance EXCEPT ![v] = 0]
  /\ UNCHANGED <<marketVars, gov_token, voteVars, stranded>>
------------------------------------------------------------------------------
OnlyMarketChanges == UNCHANGED <<ledgerVars, gov_token, voteVars, lockVars, wallet>>

(* Deviation: the cancel votes are left out of the total. *)
CancelThresholdMet_OfTheOthers ==
  LET total_votes == TallyOf(OptionOutcomes)
      cancel_votes == tally[CANCEL_OUTCOME_INDEX]
  IN total_votes # 0 /\ (cancel_votes * 10000) \div total_votes >= FAILED_MARKET_THRESHOLD_BPS

(* cancel_market_vote: three quarters of the tallies, checked against overflow *)
CancelThresholdMet ==
  LET total_votes == TallyOf(VoteOutcomes)
      cancel_votes == tally[CANCEL_OUTCOME_INDEX]
  IN
  /\ total_votes # 0 /\ total_votes =< I128_MAX /\ cancel_votes * 10000 =< I128_MAX
  /\ (cancel_votes * 10000) \div total_votes >= FAILED_MARKET_THRESHOLD_BPS

CancelMarketVote ==
  /\ status = "Disputed"
  /\ CancelThresholdMet
  /\ status' = "Cancelled" /\ decided_by' = "vote"
  /\ UNCHANGED <<winning_outcome, resolved_at>> /\ OnlyMarketChanges

(* calculate_voting_outcome: it adds up the votes themselves, and any      *)
(* outcome may win, the sentinel for cancelling too.  At most one outcome  *)
(* has 60%, so the order of the votes does not matter.                     *)
HasMajority(o) ==
  LET total_votes == WeightFor(VoteOutcomes)
      max_votes == WeightFor({o})
  IN
  /\ total_votes # 0 /\ total_votes =< I128_MAX /\ max_votes * 10000 =< I128_MAX
  /\ (max_votes * 10000) \div total_votes >= MAJORITY_THRESHOLD_BPS

(* finalize_resolution of a disputed market (the dispute was filed at 0) *)
FinalizeDisputed(o) ==
  /\ status = "Disputed"
  /\ now >= VOTING_PERIOD_SECONDS
  /\ HasMajority(o)
  /\ status' = "Resolved" /\ winning_outcome' = o /\ resolved_at' = now
  /\ decided_by' = "vote"
  /\ OnlyMarketChanges

(* resolve_market and cancel_market_admin end the vote at any time *)
AdminDecides ==
  /\ status = "Disputed" /\ decided_by' = "admin"
  /\ \/ /\ status' = "Resolved" /\ resolved_at' = now
        /\ winning_outcome' \in OptionOutcomes
     \/ status' = "Cancelled" /\ UNCHANGED <<winning_outcome, resolved_at>>
  /\ OnlyMarketChanges

(* prune_market with prune_market_voting_state: the locks go, the tokens   *)
(* stay.  The tally of the sentinel is not among the keys removed.         *)
PruneMarket ==
  /\ status = "Resolved" /\ now >= resolved_at + PRUNE_GRACE_PERIOD
  /\ status' = "Absent" /\ winning_outcome' = None /\ resolved_at' = None
  /\ vote' = [v \in Voters |-> NoVote]
  /\ tally' = [o \in VoteOutcomes |-> IF o \in OptionOutcomes THEN 0 ELSE tally[o]]
  /\ unlock_time' = [v \in Voters |-> None]
  /\ locked_balance' = [v \in Voters |-> IF v \in CastBy THEN 0 ELSE locked_balance[v]]
  /\ stranded' = stranded + SumFunctionOnSet(locked_balance, CastBy)
  /\ UNCHANGED <<ledgerVars, decided_by, gov_token, wallet, weighed_in>>

(* set_governance_token (admin), at any time *)
SetGovernanceToken(t) ==
  gov_token' = t /\ UNCHANGED <<ledgerVars, marketVars, voteVars, lockVars, wallet>>

(* The token contract: a holder gives all of a token to another. *)
GiveTokens(t, from, to) ==
  /\ from # to /\ wallet[t][from] > 0
  /\ wallet' = [wallet EXCEPT ![t][from] = 0, ![t][to] = @ + wallet[t][from]]
  /\ UNCHANGED <<ledgerVars, marketVars, gov_token, voteVars, lockVars>>

Tick ==
  AdvanceClock /\ UNCHANGED <<held, received, marketVars, gov_token, voteVars, lockVars, wallet>>

Next ==
  \/ \E v \in Voters, o \in VoteOutcomes, w \in Weights : CastVote(v, o, w)
  \/ \E v \in Voters : UnlockTokens(v)
  \/ CancelMarketVote
  \/ \E o \in VoteOutcomes : FinalizeDisputed(o)
  \/ AdminDecides
  \/ PruneMarket
  \/ \E t \in Tokens : SetGovernanceToken(t)
  \/ \E t \in Tokens, from, to \in Voters : GiveTokens(t, from, to)
  \/ Tick

Spec == Init /\ [][Next]_vars
------------------------------------------------------------------------------
(* Every key holds a value of its type; weights and tallies are i128 and   *)
(* never negative, and a lock record comes with a balance.                 *)
TypeOK ==
  /\ LedgerTypeOK
  /\ status \in {"Disputed", "Resolved", "Cancelled", "Absent"}
  /\ winning_outcome \in VoteOutcomes \cup {None} /\ resolved_at \in Nat \cup {None}
  /\ gov_token \in Tokens /\ weighed_in \in [Voters -> Tokens]
  /\ vote \in [Voters -> [outcome : VoteOutcomes \cup {None}, weight : 0..I128_MAX]]
  /\ tally \in [VoteOutcomes -> 0..I128_MAX]
  /\ unlock_time \in [Voters -> {ResolutionDeadline, None}]
  /\ locked_balance \in [Voters -> Nat]
  /\ \A v \in Voters : unlock_time[v] = None <=> locked_balance[v] = 0
  /\ wallet \in [Tokens -> [Voters -> Nat]]
  /\ decided_by \in {"nobody", "vote", "admin"} /\ stranded \in Nat

(* cast_vote: "Vote revision decrements the old tally before adding the    *)
(* new one."  The tallies cancel_market_vote reads are at all times the    *)
(* votes finalize_resolution counts, through any sequence of revisions     *)
(* with other weights and other governance tokens.                         *)
TallyMatchesVotes ==
  status # "Absent" => \A o \in VoteOutcomes : tally[o] = WeightFor({o})

(* Every unit of a governance token the contract holds is recorded as      *)
(* somebody's lock or was stranded by prune_market.  (Not token by token:  *)
(* unlock_tokens pays in the governance token of the day.)                 *)
LockAccounting ==
  SumFunction(held) = SumFunction(locked_balance) + stranded

(* cast_vote: "the same tokens cannot be double-voted".  However tokens    *)
(* change hands, and however often the governance token is replaced, the   *)
(* votes weighed in a token never weigh more than all there is of it.      *)
NoDoubleVote ==
  \A t \in Tokens :
    SumFunctionOnSet(VoteWeights, {v \in CastBy : weighed_in[v] = t}) =<
      Normalize(t, SumFunction(Minted[t]))

(* A market that was not decided by the admin was decided by the votes on  *)
(* record: cancelled by three quarters of their weight, resolved by 60%,   *)
(* never while the other outcome has the majority.                         *)
DecisionBacked ==
  decided_by = "vote" /\ status # "Absent" =>
    LET total == WeightFor(VoteOutcomes) IN
    IF status = "Cancelled"
    THEN WeightFor({CANCEL_OUTCOME_INDEX}) * 10000 >= FAILED_MARKET_THRESHOLD_BPS * total
    ELSE WeightFor({winning_outcome}) * 10000 >= MAJORITY_THRESHOLD_BPS * total
=============================================================================
