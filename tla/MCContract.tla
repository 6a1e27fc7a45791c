----------------------------- MODULE MCContract -----------------------------
(***************************************************************************)
(* Who decides in the contract: the guardians (Governance) and the token   *)
(* holders (Voting), over one ledger.  Neither reads what the other        *)
(* writes, so a behaviour follows one of them.                             *)
(***************************************************************************)
EXTENDS Governance, TLC

CONSTANTS
  g2, g3, fine, coarse, v1, v2,
  Voters, Minted, SnapshotTokens, Decimals, NORMALIZED_DECIMALS, I128_MAX, Weights, Options,
  CANCEL_OUTCOME_INDEX, VOTING_PERIOD_SECONDS, MAJORITY_THRESHOLD_BPS,
  FAILED_MARKET_THRESHOLD_BPS, ResolutionDeadline, OracleOutcome, PRUNE_GRACE_PERIOD,
  VotingTime  \* bound: the last timestamp considered while voting

VARIABLES
  focus,  \* whose behaviour this is
  status, winning_outcome, resolved_at, gov_token, vote, tally, unlock_time,
  locked_balance, wallet, weighed_in, decided_by, stranded

(* fine has more decimals than the normal form and no balance_at, coarse   *)
(* has fewer and keeps snapshots.  A vote of coarse that weighs 20 is too  *)
(* heavy for the percentages.                                              *)
TwoPrecisions == (fine :> 2) @@ (coarse :> 0)
Holdings == (fine :> ((v1 :> 20) @@ (v2 :> 10))) @@ (coarse :> ((v1 :> 1) @@ (v2 :> 2)))

V == INSTANCE Voting WITH MaxTime <- VotingTime

ASSUME ContractAssumption ==
  /\ V!VotingAssumption /\ VotingTime \in Nat
  /\ IsFiniteSet(Voters) /\ IsFiniteSet(Tokens)

(* g2 and g3 appear in no constant that tells them apart. *)
Interchangeable == Permutations({g2, g3})

governanceVars ==
  <<cb, roleVars, guardianVars, removalVars, upgradeVars, timelock, pause_votes, majority_since>>
votingVars ==
  <<status, winning_outcome, resolved_at, gov_token, vote, tally, unlock_time,
    locked_balance, wallet, weighed_in, decided_by, stranded>>
contractVars == <<ledgerVars, governanceVars, votingVars, focus>>

ContractInit ==
  /\ focus \in {"governance", "voting"}
  /\ Init /\ V!Init
  /\ focus = "governance" => gov_token = coarse

GovernanceStep == focus = "governance" /\ Next /\ UNCHANGED <<votingVars, focus>>
VotingStep == focus = "voting" /\ V!Next /\ UNCHANGED <<governanceVars, focus>>

ContractSpec == ContractInit /\ [][GovernanceStep \/ VotingStep]_contractVars
-----------------------------------------------------------------------------
(* cast_vote and the tally: see Voting. *)
TallyMatchesVotes == V!TallyMatchesVotes

(* What the contract holds for voters is what their locks say: see Voting. *)
LockAccounting == V!LockAccounting

(* cast_vote: the same tokens do not vote twice: see Voting. *)
NoDoubleVote == V!NoDoubleVote

(* A market not decided by the admin was decided by its votes: see Voting. *)
DecisionBacked == V!DecisionBacked
=============================================================================
