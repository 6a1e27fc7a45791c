----------------------------- MODULE Governance -----------------------------
(***************************************************************************)
(* admin.rs and governance.rs: who is admin, who are the guardians, and    *)
(* the three things guardians vote on (removing a guardian, upgrading the  *)
(* contract, pausing it).  One action is one entrypoint that returns Ok;   *)
(* the branches that write and then return Err are actions of their own,   *)
(* and leave no trace (see Ledger).                                        *)
(*                                                                         *)
(* A list of guardians is a function from addresses to voting powers:      *)
(* initialize_guardians is called with a list that names nobody twice.     *)
(***************************************************************************)
EXTENDS CircuitBreaker, FiniteSetsExt

CONSTANTS
  Addresses, Owner,            \* Owner is the admin named at initialize
  Nobody,                      \* stands for no address, no hash
  \* What callers pass:
  Candidates,                  \* addresses proposed as admin
  Operators,                   \* addresses set as the guardian account
  Members, Powers,             \* guardians, and the voting powers they get
  PauseVoters,                 \* addresses that call emergency_pause
  Hashes,                      \* WASM hashes
  Timelocks,                   \* what the admin passes to set_timelock_duration
  MAJORITY_THRESHOLD_PERCENT,
  TIMELOCK_DURATION, TIMELOCK_MIN_SECONDS, TIMELOCK_MAX_SECONDS,
  GUARDIAN_REMOVAL_VOTE_WINDOW, UPGRADE_COOLDOWN_DURATION,
  MaxUpgrades                  \* bound: upgrades ever initiated

VARIABLES
  admin, pending_admin, guardian_account,   \* Admin, PendingAdmin, GuardianAccount
  guardians, guardian_set_stored,           \* GuardianSet, and whether the key exists
  removal, removal_passed_at,               \* PendingGuardianRemoval, ...PassedAt
  upgrade, upgrade_passed_at,               \* PendingUpgrade, ...PassedAt
  rejected_at,                              \* UpgradeRejectedAt(hash)
  timelock,                                 \* TimelockDuration, or None
  pause_votes,                              \* PendingEmergencyPause
  initiated,                                \* history: number of upgrades initiated
  majority_since                            \* history: since when a majority backs it

roleVars == <<admin, pending_admin, guardian_account>>
removalVars == <<removal, removal_passed_at>>
upgradeVars == <<upgrade, upgrade_passed_at, rejected_at, initiated>>
guardianVars == <<guardians, guardian_set_stored>>
vars == <<ledgerVars, cb, roleVars, guardianVars, removalVars, upgradeVars, timelock,
          pause_votes, majority_since>>

ASSUME GovernanceAssumption ==
  /\ Owner \in Addresses /\ Nobody \notin Addresses /\ Nobody \notin Hashes
  /\ Candidates \cup Operators \cup Members \cup PauseVoters \subseteq Addresses
  /\ Powers \subseteq Nat /\ Timelocks \subseteq Nat
  /\ {MAJORITY_THRESHOLD_PERCENT, TIMELOCK_DURATION, TIMELOCK_MIN_SECONDS,
      TIMELOCK_MAX_SECONDS, GUARDIAN_REMOVAL_VOTE_WINDOW,
      UPGRADE_COOLDOWN_DURATION, MaxUpgrades} \subseteq Nat
  /\ MAJORITY_THRESHOLD_PERCENT > 0 /\ IsFiniteSet(Members)
  /\ TIMELOCK_MIN_SECONDS =< TIMELOCK_DURATION
  /\ TIMELOCK_DURATION =< TIMELOCK_MAX_SECONDS

Guardians == DOMAIN guardians

NoRemoval == [target |-> Nobody, initiated_at |-> 0, votes_for |-> {}, votes_against |-> {}]
NoUpgrade == [wasm_hash |-> Nobody, initiated_at |-> 0, votes_for |-> {}, votes_against |-> {}]

Init ==
  /\ LedgerInit /\ BreakerInit
  /\ admin = Owner /\ pending_admin = Nobody /\ guardian_account = Nobody
  /\ guardians = [a \in {} |-> 0] /\ guardian_set_stored = FALSE
  /\ removal = NoRemoval /\ removal_passed_at = None
  /\ upgrade = NoUpgrade /\ upgrade_passed_at = None
  /\ rejected_at = [h \in Hashes |-> None]
  /\ timelock = None
  /\ pause_votes = {}
  /\ initiated = 0 /\ majority_since = None
------------------------------------------------------------------------------
(* ensure_not_guardian looks at GuardianAccount, not at GuardianSet. *)
EnsureNotGuardian(a) == guardian_account # a

(* propose_admin, accept_admin, cancel_admin_transfer *)
ProposeAdmin(a) ==
  /\ EnsureNotGuardian(a)
  /\ pending_admin' = a
  /\ UNCHANGED <<admin, guardian_account>>

AcceptAdmin ==
  /\ pending_admin # Nobody
  /\ EnsureNotGuardian(pending_admin)
  /\ admin' = pending_admin /\ pending_admin' = Nobody
  /\ UNCHANGED guardian_account

CancelAdminTransfer ==
  /\ pending_admin # Nobody
  /\ pending_admin' = Nobody
  /\ UNCHANGED <<admin, guardian_account>>

(* set_guardian *)
SetGuardian(a) == guardian_account' = a /\ UNCHANGED <<admin, pending_admin>>

RoleStep ==
  /\ \/ \E a \in Candidates : ProposeAdmin(a)
     \/ \E a \in Operators : SetGuardian(a)
     \/ AcceptAdmin
     \/ CancelAdminTransfer
  /\ UNCHANGED <<ledgerVars, cb, guardianVars, removalVars, upgradeVars, timelock,
                 pause_votes, majority_since>>
------------------------------------------------------------------------------
PowerOf(gs, voters) == SumFunctionOnSet(gs, voters \cap DOMAIN gs)

(* is_majority_met: the power of the guardians of today who voted for, in  *)
(* percent rounded down                                                    *)
IsMajorityMet(gs, u) ==
  LET total_power == PowerOf(gs, DOMAIN gs) IN
  /\ total_power # 0
  /\ (PowerOf(gs, u.votes_for) * 100) \div total_power >= MAJORITY_THRESHOLD_PERCENT

(* History: when the majority of guardians behind the pending upgrade last *)
(* came about.                                                             *)
TrackMajority ==
  majority_since' = IF upgrade' = NoUpgrade \/ ~IsMajorityMet(guardians', upgrade') THEN None
                    ELSE IF majority_since = None THEN now ELSE majority_since

(* initialize_guardians: only while the key GuardianSet does not exist *)
InitializeGuardians(gs) ==
  /\ ~guardian_set_stored
  /\ DOMAIN gs # {} /\ admin \notin DOMAIN gs
  /\ guardians' = gs /\ guardian_set_stored' = TRUE
  /\ UNCHANGED removalVars

(* add_guardian *)
AddGuardian(a, power) ==
  /\ a # admin /\ a \notin Guardians
  /\ guardians' = [g \in Guardians \cup {a} |-> IF g = a THEN power ELSE guardians[g]]
  /\ guardian_set_stored' = TRUE
  /\ UNCHANGED removalVars

(* Deviation: a new proposal inherits the approval of the old one. *)
RemoveGuardian_KeepsApproval(a) ==
  /\ a \in Guardians
  /\ removal' = [NoRemoval EXCEPT !.target = a, !.initiated_at = now]
  /\ UNCHANGED <<guardianVars, removal_passed_at>>

(* remove_guardian: a proposal, which replaces the one before it *)
RemoveGuardian(a) ==
  /\ a \in Guardians
  /\ removal' = [NoRemoval EXCEPT !.target = a, !.initiated_at = now]
  /\ removal_passed_at' = None
  /\ UNCHANGED guardianVars

(* vote_on_guardian_removal *)
VotesNeeded == ((Cardinality(Guardians) - 1) * MAJORITY_THRESHOLD_PERCENT) \div 100 + 1

HasVoted(p, voter) == voter \in p.votes_for \cup p.votes_against

WithVote(p, voter, approve) ==
  IF approve THEN [p EXCEPT !.votes_for = @ \cup {voter}]
             ELSE [p EXCEPT !.votes_against = @ \cup {voter}]

CanVoteOnRemoval(voter) ==
  /\ voter \in Guardians /\ removal # NoRemoval
  /\ now - removal.initiated_at =< GUARDIAN_REMOVAL_VOTE_WINDOW
  /\ ~HasVoted(removal, voter)

VoteOnGuardianRemoval(voter, approve) ==
  LET p == WithVote(removal, voter, approve) IN
  /\ CanVoteOnRemoval(voter)
  /\ IF Cardinality(p.votes_against) >= VotesNeeded
     THEN removal' = NoRemoval /\ removal_passed_at' = None
     ELSE /\ removal' = p
          /\ removal_passed_at' =
               IF Cardinality(p.votes_for) >= VotesNeeded /\ removal_passed_at = None
               THEN now ELSE removal_passed_at
  /\ UNCHANGED guardianVars

(* vote_on_guardian_removal after the window: the proposal is dropped and  *)
(* the call returns Err.                                                   *)
VoteOnExpiredRemoval(voter) ==
  /\ voter \in Guardians /\ removal # NoRemoval
  /\ now - removal.initiated_at > GUARDIAN_REMOVAL_VOTE_WINDOW
  /\ removal' = Commit("Err", removal, NoRemoval)
  /\ removal_passed_at' = Commit("Err", removal_passed_at, None)
  /\ UNCHANGED guardianVars

GetTimelockDuration == IF timelock = None THEN TIMELOCK_DURATION ELSE timelock

(* Deviation: the proposal stays after it was carried out. *)
ExecuteGuardianRemoval_StaysPending ==
  /\ removal # NoRemoval /\ removal_passed_at # None
  /\ now - removal_passed_at >= GetTimelockDuration
  /\ removal.target \in Guardians
  /\ guardians' = [g \in Guardians \ {removal.target} |-> guardians[g]]
  /\ UNCHANGED <<removalVars, guardian_set_stored>>

(* execute_guardian_removal *)
ExecuteGuardianRemoval ==
  /\ removal # NoRemoval /\ removal_passed_at # None
  /\ now - removal_passed_at >= GetTimelockDuration
  /\ removal.target \in Guardians
  /\ guardians' = [g \in Guardians \ {removal.target} |-> guardians[g]]
  /\ removal' = NoRemoval /\ removal_passed_at' = None
  /\ UNCHANGED guardian_set_stored

GuardianStep ==
  /\ \/ \E gs \in UNION {[s -> Powers] : s \in SUBSET Members} : InitializeGuardians(gs)
     \/ \E a \in Members, power \in Powers : AddGuardian(a, power)
     \/ \E a \in Addresses : RemoveGuardian(a)
     \/ \E a \in Addresses, approve \in BOOLEAN : VoteOnGuardianRemoval(a, approve)
     \/ \E a \in Addresses : VoteOnExpiredRemoval(a)
     \/ ExecuteGuardianRemoval
  /\ UNCHANGED <<ledgerVars, cb, roleVars, upgradeVars, timelock, pause_votes>>
  /\ TrackMajority
------------------------------------------------------------------------------
(* initiate_upgrade, with require_no_upgrade_collision *)
InitiateUpgrade(h) ==
  /\ initiated < MaxUpgrades
  /\ upgrade = NoUpgrade
  /\ rejected_at[h] = None \/ now - rejected_at[h] > UPGRADE_COOLDOWN_DURATION
  /\ upgrade' = [NoUpgrade EXCEPT !.wasm_hash = h, !.initiated_at = now]
  /\ upgrade_passed_at' = None
  /\ initiated' = initiated + 1
  /\ UNCHANGED rejected_at

CanVoteForUpgrade(voter) ==
  voter \in Guardians /\ upgrade # NoUpgrade /\ ~HasVoted(upgrade, voter)

(* vote_for_upgrade *)
VoteForUpgrade(voter, vote_for) ==
  LET u == WithVote(upgrade, voter, vote_for) IN
  /\ CanVoteForUpgrade(voter)
  /\ upgrade' = u
  /\ upgrade_passed_at' = IF IsMajorityMet(guardians, u) /\ upgrade_passed_at = None
                          THEN now ELSE upgrade_passed_at
  /\ UNCHANGED <<rejected_at, initiated>>

(* is_timelock_satisfied: the timelock runs from the time the vote passed, *)
(* or from the start when no vote made it pass.                            *)
IsTimelockSatisfied ==
  LET started == IF upgrade_passed_at = None THEN upgrade.initiated_at
                                             ELSE upgrade_passed_at
  IN now - started >= GetTimelockDuration

(* execute_upgrade (permissionless) *)
ExecuteUpgrade ==
  /\ upgrade # NoUpgrade
  /\ IsTimelockSatisfied
  /\ IsMajorityMet(guardians, upgrade)
  /\ upgrade' = NoUpgrade /\ upgrade_passed_at' = None
  /\ rejected_at' = [rejected_at EXCEPT ![upgrade.wasm_hash] = None]
  /\ UNCHANGED initiated

(* execute_upgrade without a majority: it records the rejection, drops the *)
(* proposal and returns Err.                                               *)
RejectUpgrade ==
  /\ upgrade # NoUpgrade
  /\ IsTimelockSatisfied
  /\ ~IsMajorityMet(guardians, upgrade)
  /\ upgrade' = Commit("Err", upgrade, NoUpgrade)
  /\ upgrade_passed_at' = Commit("Err", upgrade_passed_at, None)
  /\ rejected_at' = Commit("Err", rejected_at,
                           [rejected_at EXCEPT ![upgrade.wasm_hash] = now])
  /\ UNCHANGED initiated

UpgradeStep ==
  /\ \/ \E h \in Hashes : InitiateUpgrade(h)
     \/ \E a \in Addresses, vote_for \in BOOLEAN : VoteForUpgrade(a, vote_for)
     \/ ExecuteUpgrade
     \/ RejectUpgrade
  /\ UNCHANGED <<ledgerVars, cb, roleVars, guardianVars, removalVars, timelock, pause_votes>>
  /\ TrackMajority

(* Deviation: any duration is accepted. *)
SetTimelockDuration_Unbounded(seconds) == timelock' = seconds

(* set_timelock_duration *)
SetTimelockDuration(seconds) ==
  /\ TIMELOCK_MIN_SECONDS =< seconds /\ seconds =< TIMELOCK_MAX_SECONDS
  /\ timelock' = seconds

(* emergency_pause: the votes of today's guardians add up to two thirds *)
EmergencyPause(voter) ==
  LET votes == pause_votes \cup {voter}
      total_power == PowerOf(guardians, Guardians)
  IN
  /\ voter \in Guardians
  /\ voter \notin pause_votes
  /\ IF total_power > 0 /\ PowerOf(guardians, votes) * 3 >= total_power * 2
     THEN pause_votes' = {} /\ Pause
     ELSE pause_votes' = votes /\ UNCHANGED cb

OtherStep ==
  /\ \/ \E s \in Timelocks : SetTimelockDuration(s) /\ UNCHANGED <<cb, pause_votes>>
     \/ \E a \in PauseVoters : EmergencyPause(a) /\ UNCHANGED timelock
     \/ \E s \in BreakerInputs : SetState(s) /\ UNCHANGED <<timelock, pause_votes>>
  /\ UNCHANGED <<ledgerVars, roleVars, guardianVars, removalVars, upgradeVars, majority_since>>

Tick == AdvanceClock /\ UNCHANGED <<held, received, cb, roleVars, guardianVars, removalVars,
                                    upgradeVars, timelock, pause_votes, majority_since>>

Next == Tick \/ RoleStep \/ GuardianStep \/ UpgradeStep \/ OtherStep

Spec == Init /\ [][Next]_vars
------------------------------------------------------------------------------
(* Every storage key holds a value of its type; a timelock override lies   *)
(* within its bounds, and votes are cast by addresses.                     *)
TypeOK ==
  /\ LedgerTypeOK /\ BreakerTypeOK
  /\ admin \in Addresses /\ {pending_admin, guardian_account} \subseteq Addresses \cup {Nobody}
  /\ Guardians \subseteq Addresses /\ \A a \in Guardians : guardians[a] \in Nat
  /\ guardian_set_stored \in BOOLEAN /\ (~guardian_set_stored => Guardians = {})
  /\ removal \in [target : Addresses \cup {Nobody}, initiated_at : Nat,
                  votes_for : SUBSET Addresses, votes_against : SUBSET Addresses]
  /\ upgrade \in [wasm_hash : Hashes \cup {Nobody}, initiated_at : Nat,
                  votes_for : SUBSET Addresses, votes_against : SUBSET Addresses]
  /\ {removal_passed_at, upgrade_passed_at, majority_since} \subseteq Nat \cup {None}
  /\ rejected_at \in [Hashes -> Nat \cup {None}]
  /\ timelock \in TIMELOCK_MIN_SECONDS..TIMELOCK_MAX_SECONDS \cup {None}
  /\ pause_votes \subseteq Addresses
  /\ initiated \in 0..MaxUpgrades

(* The guardian a pending removal is about, and everyone who voted on it,  *)
(* are guardians still: guardians leave only by execute_guardian_removal,  *)
(* which ends the proposal.  Its own check of the target never fails.      *)
RemovalAboutGuardians ==
  removal # NoRemoval =>
    {removal.target} \cup removal.votes_for \cup removal.votes_against \subseteq Guardians

(* An approval time belongs to the proposal that is pending: it is not     *)
(* older than the proposal, and for a removal it lies within the voting    *)
(* window.  A proposal never starts with the approval of another one.      *)
ApprovalBelongs ==
  /\ removal_passed_at # None =>
       /\ removal # NoRemoval /\ removal.votes_for # {}
       /\ removal.initiated_at =< removal_passed_at /\ removal_passed_at =< now
       /\ removal_passed_at =< removal.initiated_at + GUARDIAN_REMOVAL_VOTE_WINDOW
  /\ upgrade_passed_at # None =>
       /\ upgrade # NoUpgrade /\ upgrade.votes_for # {}
       /\ upgrade.initiated_at =< upgrade_passed_at /\ upgrade_passed_at =< now

(* No contract code is replaced sooner than the shortest legal timelock    *)
(* after the upgrade was announced, whatever the admin does to the         *)
(* timelock and the guardians in between.  (A pending upgrade goes away    *)
(* only by being executed.)                                                *)
UpgradeAnnounced ==
  [][upgrade # NoUpgrade /\ upgrade' = NoUpgrade =>
       now - upgrade.initiated_at >= TIMELOCK_MIN_SECONDS]_vars

(* governance.rs: "the timelock starts when majority approval is reached", *)
(* so that whoever objects to what a majority wants has that long to act.  *)
TimelockAfterApproval ==
  [][upgrade # NoUpgrade /\ upgrade' = NoUpgrade =>
       now - majority_since >= TIMELOCK_MIN_SECONDS]_vars
==============================================================================
