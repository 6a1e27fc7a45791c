--------------------------- MODULE ContractProofs ---------------------------
(***************************************************************************)
(* Proofs about who decides in the contract.  First the guardians: what    *)
(* the pending removal, the pending upgrade and their approvals say of     *)
(* each other, for every set of addresses, every threshold and every       *)
(* timelock.  Then the token holders: the tallies, the locks and the       *)
(* decisions, for every set of voters, tokens and weights.                 *)
(***************************************************************************)
EXTENDS MCContract, SumTheorems

(* What the proofs use of the guardians' constants.                        *)
LEMMA GovernanceConstants ==
  /\ MaxTime \in Nat /\ Owner \in Addresses /\ Nobody \notin Addresses /\ Nobody \notin Hashes
  /\ Candidates \subseteq Addresses /\ Operators \subseteq Addresses
  /\ Members \subseteq Addresses /\ PauseVoters \subseteq Addresses
  /\ Powers \subseteq Nat /\ Timelocks \subseteq Nat
  /\ MAJORITY_THRESHOLD_PERCENT \in Nat /\ MAJORITY_THRESHOLD_PERCENT > 0
  /\ TIMELOCK_DURATION \in Nat /\ TIMELOCK_MIN_SECONDS \in Nat /\ TIMELOCK_MAX_SECONDS \in Nat
  /\ GUARDIAN_REMOVAL_VOTE_WINDOW \in Nat /\ MaxUpgrades \in Nat
  /\ TIMELOCK_MIN_SECONDS =< TIMELOCK_DURATION /\ TIMELOCK_DURATION =< TIMELOCK_MAX_SECONDS
  /\ IsFiniteSet(Members)
  BY GovernanceAssumption, LedgerAssumption

-----------------------------------------------------------------------------
(* The guardians: the invariant *)

Proposals(what) == [target : what, initiated_at : Nat,
                    votes_for : SUBSET Addresses, votes_against : SUBSET Addresses]
UpgradeProposals == [wasm_hash : Hashes \cup {Nobody}, initiated_at : Nat,
                     votes_for : SUBSET Addresses, votes_against : SUBSET Addresses]

(* The keys no proposal depends on.                                        *)
PlainKeysOK ==
  /\ LedgerTypeOK /\ BreakerTypeOK
  /\ admin \in Addresses /\ {pending_admin, guardian_account} \subseteq Addresses \cup {Nobody}
  /\ timelock \in TIMELOCK_MIN_SECONDS..TIMELOCK_MAX_SECONDS \cup {None}
  /\ pause_votes \subseteq Addresses

(* The guardian set is finite: guardians come one by one.                  *)
GuardianSetOK ==
  /\ Guardians \subseteq Addresses /\ IsFiniteSet(Guardians)
  /\ \A a \in Guardians : guardians[a] \in Nat

StoredFlagOK == guardian_set_stored \in BOOLEAN /\ (~guardian_set_stored => Guardians = {})

(* A pending removal is about a guardian of today and was voted on by      *)
(* guardians of today; its approval came from one of them, in its window.  *)
RemovalOK ==
  /\ removal \in Proposals(Addresses \cup {Nobody})
  /\ removal_passed_at \in Nat \cup {None}
  /\ removal.initiated_at =< now
  /\ RemovalAboutGuardians
  /\ removal_passed_at # None =>
       /\ removal # NoRemoval /\ removal.votes_for # {}
       /\ removal.initiated_at =< removal_passed_at /\ removal_passed_at =< now
       /\ removal_passed_at =< removal.initiated_at + GUARDIAN_REMOVAL_VOTE_WINDOW

(* A pending upgrade names the code, and its approval is its own.          *)
UpgradeOK ==
  /\ upgrade \in UpgradeProposals
  /\ upgrade_passed_at \in Nat \cup {None}
  /\ upgrade # NoUpgrade => upgrade.wasm_hash \in Hashes
  /\ upgrade.initiated_at =< now
  /\ rejected_at \in [Hashes -> Nat \cup {None}]
  /\ initiated \in 0..MaxUpgrades
  /\ upgrade_passed_at # None =>
       /\ upgrade # NoUpgrade /\ upgrade.votes_for # {}
       /\ upgrade.initiated_at =< upgrade_passed_at /\ upgrade_passed_at =< now

MajorityOK == majority_since \in Nat \cup {None}

(* The inductive invariant of the guardians.                               *)
GovInv == PlainKeysOK /\ GuardianSetOK /\ StoredFlagOK /\ RemovalOK /\ UpgradeOK /\ MajorityOK

(* It says the three things the runs check.                                *)
LEMMA GovInvImplies ==
  ASSUME GovInv PROVE TypeOK /\ RemovalAboutGuardians /\ ApprovalBelongs
  <1>1. RemovalAboutGuardians /\ ApprovalBelongs
    BY DEF GovInv, RemovalOK, UpgradeOK, ApprovalBelongs
  <1>2. guardian_set_stored \in BOOLEAN /\ (~guardian_set_stored => Guardians = {})
    BY Zenon DEF GovInv, StoredFlagOK
  <1>3. {removal_passed_at, upgrade_passed_at, majority_since} \subseteq Nat \cup {None}
    BY DEF GovInv, RemovalOK, UpgradeOK, MajorityOK
  <1>4. /\ LedgerTypeOK /\ BreakerTypeOK
        /\ admin \in Addresses /\ {pending_admin, guardian_account} \subseteq Addresses \cup {Nobody}
        /\ timelock \in TIMELOCK_MIN_SECONDS..TIMELOCK_MAX_SECONDS \cup {None}
        /\ pause_votes \subseteq Addresses
    BY DEF GovInv, PlainKeysOK
  <1>5. Guardians \subseteq Addresses /\ \A a \in Guardians : guardians[a] \in Nat
    BY DEF GovInv, GuardianSetOK
  <1>6. removal \in Proposals(Addresses \cup {Nobody})
    BY DEF GovInv, RemovalOK
  <1>7. upgrade \in UpgradeProposals /\ rejected_at \in [Hashes -> Nat \cup {None}] /\ initiated \in 0..MaxUpgrades
    BY DEF GovInv, UpgradeOK
  <1>8. TypeOK
    BY <1>2, <1>3, <1>4, <1>5, <1>6, <1>7, Zenon DEF TypeOK, Proposals, UpgradeProposals
  <1> QED
    BY <1>1, <1>8

(* It holds when the contract is deployed.                                 *)
LEMMA GovInit == ASSUME Init PROVE GovInv
  <1> USE GovernanceConstants
  <1>1. PlainKeysOK
    <2>1. LedgerTypeOK
      BY DEF Init, LedgerInit, LedgerTypeOK
    <2>2. BreakerTypeOK
      BY BreakerAssumption DEF Init, BreakerInit, BreakerTypeOK, CircuitBreakerState
    <2> QED
      BY <2>1, <2>2 DEF Init, PlainKeysOK
  <1>2. GuardianSetOK /\ Guardians = {}
    BY FS_EmptySet DEF Init, GuardianSetOK, Guardians
  <1>3. StoredFlagOK
    BY <1>2, Zenon DEF Init, StoredFlagOK
  <1>4. RemovalOK
    BY DEF Init, LedgerInit, RemovalOK, RemovalAboutGuardians, NoRemoval, Proposals, None
  <1>5. UpgradeOK
    BY DEF Init, LedgerInit, UpgradeOK, NoUpgrade, UpgradeProposals, None
  <1>6. MajorityOK
    BY DEF Init, MajorityOK
  <1> QED
    BY <1>1, <1>2, <1>3, <1>4, <1>5, <1>6 DEF GovInv

-----------------------------------------------------------------------------
(* The thresholds *)

(* Votes for a removal are never met by nobody.                            *)
LEMMA VotesNeededPositive ==
  ASSUME GuardianSetOK, NEW v \in Guardians
  PROVE  VotesNeeded \in Nat /\ VotesNeeded >= 1 /\ Cardinality({}) = 0
  <1>1. Cardinality(Guardians) \in Nat /\ Cardinality(Guardians) # 0
    BY FS_EmptySet, FS_CardinalityType DEF GuardianSetOK
  <1>2. PICK n \in Nat : n = (Cardinality(Guardians) - 1) * MAJORITY_THRESHOLD_PERCENT
    BY <1>1, GovernanceConstants
  <1> QED
    BY <1>2, FS_EmptySet DEF VotesNeeded

(* The total power of a list of guardians.                                 *)
LEMMA TotalPower ==
  ASSUME NEW gs, IsFiniteSet(DOMAIN gs), \A a \in DOMAIN gs : gs[a] \in Nat
  PROVE  PowerOf(gs, DOMAIN gs) \in Nat
  <1>1. DOMAIN gs \cap DOMAIN gs = DOMAIN gs
    OBVIOUS
  <1> QED
    BY <1>1, SumNat DEF PowerOf

(* A majority has voters, whatever the total power is.                     *)
LEMMA MajorityHasVoters ==
  ASSUME NEW gs, NEW u, IsMajorityMet(gs, u), PowerOf(gs, DOMAIN gs) \in Nat
  PROVE  u.votes_for # {}
  <1> SUFFICES ASSUME u.votes_for = {} PROVE FALSE
    OBVIOUS
  <1>1. PowerOf(gs, u.votes_for) = 0
    <2>1. {} \cap DOMAIN gs = {}
      OBVIOUS
    <2> QED
      BY <2>1, SumEmpty DEF PowerOf
  <1> DEFINE n == PowerOf(gs, DOMAIN gs)
  <1>2. n # 0 /\ (0 * 100) \div n >= MAJORITY_THRESHOLD_PERCENT
    BY <1>1 DEF IsMajorityMet
  <1>3. n \in Nat
    OBVIOUS
  <1> HIDE DEF n
  <1>4. (0 * 100) \div n = 0
    BY <1>2, <1>3
  <1> QED
    BY <1>2, <1>4, GovernanceConstants
-----------------------------------------------------------------------------
(* The guardians: every step keeps the invariant *)

(* What no step of the guardians' own touches: the parts of the invariant  *)
(* whose keys are left alone.                                              *)
LEMMA PartsKept ==
  ASSUME GovInv
  PROVE  /\ UNCHANGED guardianVars => GuardianSetOK' /\ StoredFlagOK'
         /\ UNCHANGED <<now, guardianVars, removalVars>> => RemovalOK'
         /\ UNCHANGED <<now, upgradeVars>> => UpgradeOK'
         /\ UNCHANGED majority_since => MajorityOK'
         /\ UNCHANGED <<ledgerVars, cb, roleVars, timelock, pause_votes>> => PlainKeysOK'
  <1>1. ASSUME UNCHANGED guardianVars PROVE GuardianSetOK'
    BY <1>1 DEF GovInv, GuardianSetOK, Guardians, guardianVars
  <1>2. ASSUME UNCHANGED guardianVars PROVE StoredFlagOK'
    BY <1>2, Zenon DEF GovInv, StoredFlagOK, Guardians, guardianVars
  <1>3. ASSUME UNCHANGED <<now, guardianVars, removalVars>> PROVE RemovalOK'
    BY <1>3 DEF GovInv, RemovalOK, RemovalAboutGuardians, Guardians, guardianVars, removalVars
  <1>4. ASSUME UNCHANGED <<now, upgradeVars>> PROVE UpgradeOK'
    BY <1>4 DEF GovInv, UpgradeOK, upgradeVars
  <1>5. ASSUME UNCHANGED majority_since PROVE MajorityOK'
    BY <1>5 DEF GovInv, MajorityOK
  <1>6. ASSUME UNCHANGED <<ledgerVars, cb, roleVars, timelock, pause_votes>> PROVE PlainKeysOK'
    BY <1>6 DEF GovInv, PlainKeysOK, LedgerTypeOK, BreakerTypeOK, ledgerVars, roleVars
  <1> QED
    BY <1>1, <1>2, <1>3, <1>4, <1>5, <1>6

(* The clock: proposals and approvals stay in the past.                    *)
LEMMA TickKept == ASSUME GovInv, Tick PROVE GovInv'
  <1>1. /\ now \in 0..MaxTime /\ now' \in 0..MaxTime /\ now =< now'
        /\ UNCHANGED <<held, received, cb, roleVars, guardianVars, removalVars,
                       upgradeVars, timelock, pause_votes, majority_since>>
    BY GovernanceConstants DEF Tick, AdvanceClock, GovInv, PlainKeysOK, LedgerTypeOK
  <1>2. PlainKeysOK'
    BY <1>1 DEF GovInv, PlainKeysOK, LedgerTypeOK, BreakerTypeOK, roleVars
  <1>3. RemovalOK'
    <2>1. removal' = removal /\ removal_passed_at' = removal_passed_at /\ Guardians' = Guardians
      BY <1>1 DEF removalVars, guardianVars, Guardians
    <2>2. removal.initiated_at \in Nat /\ removal_passed_at \in Int /\ removal.initiated_at =< now'
      BY <1>1 DEF GovInv, RemovalOK, Proposals, None
    <2>3. removal_passed_at # None => removal_passed_at =< now'
      BY <1>1, <2>2 DEF GovInv, RemovalOK
    <2> QED
      BY <2>1, <2>2, <2>3 DEF GovInv, RemovalOK, RemovalAboutGuardians
  <1>4. UpgradeOK'
    <2>1. upgrade' = upgrade /\ upgrade_passed_at' = upgrade_passed_at
          /\ rejected_at' = rejected_at /\ initiated' = initiated
      BY <1>1 DEF upgradeVars
    <2>2. upgrade.initiated_at \in Nat /\ upgrade_passed_at \in Int /\ upgrade.initiated_at =< now'
      BY <1>1 DEF GovInv, UpgradeOK, UpgradeProposals, None
    <2>3. upgrade_passed_at # None => upgrade_passed_at =< now'
      BY <1>1, <2>2 DEF GovInv, UpgradeOK
    <2> QED
      BY <2>1, <2>2, <2>3 DEF GovInv, UpgradeOK
  <1> QED
    BY <1>1, <1>2, <1>3, <1>4, PartsKept DEF GovInv

(* propose_admin, accept_admin, cancel_admin_transfer, set_guardian.       *)
LEMMA RoleKept == ASSUME GovInv, RoleStep PROVE GovInv'
  <1>1. admin' \in Addresses /\ {pending_admin', guardian_account'} \subseteq Addresses \cup {Nobody}
    BY GovernanceConstants DEF RoleStep, ProposeAdmin, SetGuardian, AcceptAdmin,
                               CancelAdminTransfer,
       GovInv, PlainKeysOK
  <1>2. UNCHANGED <<ledgerVars, cb, guardianVars, removalVars, upgradeVars, timelock,
                    pause_votes, majority_since>>
    BY DEF RoleStep
  <1>3. PlainKeysOK'
    BY <1>1, <1>2 DEF GovInv, PlainKeysOK, LedgerTypeOK, BreakerTypeOK, ledgerVars
  <1> QED
    BY <1>2, <1>3, PartsKept DEF GovInv, ledgerVars

(* set_timelock_duration, emergency_pause and set_circuit_breaker.         *)
LEMMA OtherKept == ASSUME GovInv, OtherStep PROVE GovInv'
  <1>1. UNCHANGED <<ledgerVars, roleVars, guardianVars, removalVars, upgradeVars, majority_since>>
    BY DEF OtherStep
  <1>2. ASSUME NEW st \in CircuitBreakerState, cb' = SetStateInternal(st) PROVE BreakerTypeOK'
    BY <1>1, <1>2, BreakerAssumption, GovernanceConstants
       DEF GovInv, PlainKeysOK, LedgerTypeOK, BreakerTypeOK, SetStateInternal, ledgerVars, CircuitBreakerState
  <1>3. /\ BreakerTypeOK' /\ pause_votes' \subseteq Addresses
        /\ timelock' \in TIMELOCK_MIN_SECONDS..TIMELOCK_MAX_SECONDS \cup {None}
    <2>0. BreakerTypeOK /\ pause_votes \subseteq Addresses
          /\ timelock \in TIMELOCK_MIN_SECONDS..TIMELOCK_MAX_SECONDS \cup {None}
      BY DEF GovInv, PlainKeysOK
    <2>1. CASE \E s \in Timelocks : SetTimelockDuration(s) /\ UNCHANGED <<cb, pause_votes>>
      BY <2>0, <2>1, GovernanceConstants DEF SetTimelockDuration, BreakerTypeOK
    <2>2. CASE \E a \in PauseVoters : EmergencyPause(a) /\ UNCHANGED timelock
      <3>1. PICK a \in PauseVoters : EmergencyPause(a) /\ UNCHANGED timelock
        BY <2>2
      <3>2. pause_votes' \subseteq Addresses
        BY <2>0, <3>1, GovernanceConstants DEF EmergencyPause
      <3>3. cb' = cb \/ cb' = SetStateInternal("Paused")
        BY <3>1 DEF EmergencyPause, Pause
      <3>4. BreakerTypeOK'
        <4>1. CASE cb' = cb
          BY <2>0, <4>1 DEF BreakerTypeOK
        <4>2. CASE cb' = SetStateInternal("Paused")
          BY <1>2, <4>2 DEF CircuitBreakerState
        <4> QED
          BY <3>3, <4>1, <4>2
      <3> QED
        BY <2>0, <3>1, <3>2, <3>4
    <2>3. CASE \E s \in BreakerInputs : SetState(s) /\ UNCHANGED <<timelock, pause_votes>>
      BY <1>2, <2>0, <2>3, BreakerAssumption DEF SetState
    <2> QED
      BY <2>1, <2>2, <2>3 DEF OtherStep
  <1>4. PlainKeysOK'
    BY <1>1, <1>3 DEF GovInv, PlainKeysOK, LedgerTypeOK, ledgerVars, roleVars
  <1> QED
    BY <1>1, <1>4, PartsKept DEF GovInv, ledgerVars

(* The history of the majority keeps its type.                             *)
LEMMA TrackMajorityKept == ASSUME GovInv, TrackMajority PROVE MajorityOK'
  <1>1. now \in Nat /\ majority_since \in Nat \cup {None}
    BY GovernanceConstants DEF GovInv, PlainKeysOK, LedgerTypeOK, MajorityOK
  <1> QED
    BY <1>1 DEF TrackMajority, MajorityOK

(* initialize_guardians and add_guardian: no guardian leaves.              *)
LEMMA JoinKept ==
  ASSUME GovInv, UNCHANGED <<now, removalVars>>,
         \/ \E gs \in UNION {[s -> Powers] : s \in SUBSET Members} : InitializeGuardians(gs)
         \/ \E a \in Members, power \in Powers : AddGuardian(a, power)
  PROVE  GuardianSetOK' /\ StoredFlagOK' /\ RemovalOK'
  <1> USE GovernanceConstants
  <1>1. GuardianSetOK' /\ Guardians \subseteq Guardians' /\ guardian_set_stored' = TRUE
    <2>1. CASE \E gs \in UNION {[s -> Powers] : s \in SUBSET Members} : InitializeGuardians(gs)
      <3>1. PICK s \in SUBSET Members : \E gs \in [s -> Powers] : InitializeGuardians(gs)
        BY <2>1
      <3>a. PICK gs \in [s -> Powers] : InitializeGuardians(gs)
        BY <3>1
      <3>2. ~guardian_set_stored /\ guardians' = gs /\ guardian_set_stored' = TRUE
        BY <3>a DEF InitializeGuardians
      <3>3. Guardians = {}
        BY <3>2, Zenon DEF GovInv, StoredFlagOK
      <3>4. Guardians' = s /\ IsFiniteSet(s)
        BY <3>1, <3>a, <3>2, FS_Subset DEF Guardians
      <3>5. GuardianSetOK'
        BY <3>1, <3>a, <3>2, <3>4 DEF GuardianSetOK
      <3> QED
        BY <3>2, <3>3, <3>5
    <2>2. CASE \E a \in Members, power \in Powers : AddGuardian(a, power)
      <3>1. PICK a \in Members, power \in Powers : AddGuardian(a, power)
        BY <2>2
      <3>2. /\ guardians' = [g \in Guardians \cup {a} |-> IF g = a THEN power ELSE guardians[g]]
            /\ guardian_set_stored' = TRUE
        BY <3>1 DEF AddGuardian
      <3>3. Guardians' = Guardians \cup {a}
        BY <3>2 DEF Guardians
      <3>4. IsFiniteSet(Guardians \cup {a})
        BY FS_AddElement DEF GovInv, GuardianSetOK
      <3>5. GuardianSetOK'
        BY <3>1, <3>2, <3>3, <3>4 DEF GovInv, GuardianSetOK
      <3> QED
        BY <3>2, <3>3, <3>5
    <2> QED
      BY <2>1, <2>2
  <1>2. StoredFlagOK'
    BY <1>1, Zenon DEF StoredFlagOK
  <1>3. RemovalOK'
    BY <1>1 DEF GovInv, RemovalOK, RemovalAboutGuardians, removalVars
  <1> QED
    BY <1>1, <1>2, <1>3

(* remove_guardian starts a proposal without votes and without approval.   *)
LEMMA ProposeRemovalKept ==
  ASSUME GovInv, UNCHANGED now, NEW a \in Addresses, RemoveGuardian(a)
  PROVE  RemovalOK'
  <1>1. removal' = [target |-> a, initiated_at |-> now, votes_for |-> {}, votes_against |-> {}]
    BY DEF RemoveGuardian, NoRemoval
  <1>2. removal_passed_at' = None /\ Guardians' = Guardians /\ a \in Guardians
    BY DEF RemoveGuardian, guardianVars, Guardians
  <1>3. now \in Nat
    BY GovernanceConstants DEF GovInv, PlainKeysOK, LedgerTypeOK
  <1> QED
    BY <1>1, <1>2, <1>3 DEF RemovalOK, RemovalAboutGuardians, Proposals

(* vote_on_guardian_removal: the vote that makes it pass is a vote for it, *)
(* cast within the window.                                                 *)
LEMMA VoteOnRemovalKept ==
  ASSUME GovInv, UNCHANGED now, NEW v \in Addresses, NEW approve \in BOOLEAN,
         VoteOnGuardianRemoval(v, approve)
  PROVE  RemovalOK'
  <1> DEFINE p == WithVote(removal, v, approve)
  <1>1. /\ removal \in Proposals(Addresses \cup {Nobody}) /\ now \in Nat /\ removal.initiated_at \in Nat
        /\ removal.initiated_at =< now /\ removal_passed_at \in Nat \cup {None}
    BY GovernanceConstants DEF GovInv, PlainKeysOK, LedgerTypeOK, RemovalOK, Proposals
  <1>2. /\ v \in Guardians /\ removal # NoRemoval /\ Guardians' = Guardians
        /\ now - removal.initiated_at =< GUARDIAN_REMOVAL_VOTE_WINDOW
    BY DEF VoteOnGuardianRemoval, CanVoteOnRemoval, guardianVars, Guardians
  <1>3. \/ removal' = NoRemoval /\ removal_passed_at' = None
        \/ /\ removal' = p
           /\ removal_passed_at' =
                IF Cardinality(p.votes_for) >= VotesNeeded /\ removal_passed_at = None
                THEN now ELSE removal_passed_at
    BY DEF VoteOnGuardianRemoval
  <1>4. /\ p \in Proposals(Addresses \cup {Nobody}) /\ p.target = removal.target
        /\ p.initiated_at = removal.initiated_at
        /\ p.votes_for \subseteq removal.votes_for \cup {v}
        /\ p.votes_against \subseteq removal.votes_against \cup {v}
        /\ removal.votes_for \subseteq p.votes_for
    BY <1>1 DEF WithVote, Proposals
  <1> HIDE DEF p
  <1>5. {removal.target} \cup removal.votes_for \cup removal.votes_against \subseteq Guardians
    BY <1>2 DEF GovInv, RemovalOK, RemovalAboutGuardians
  <1>6. CASE removal' = NoRemoval /\ removal_passed_at' = None
    BY <1>1, <1>6 DEF RemovalOK, RemovalAboutGuardians, Proposals, NoRemoval
  <1>7. CASE /\ removal' = p
             /\ removal_passed_at' =
                  IF Cardinality(p.votes_for) >= VotesNeeded /\ removal_passed_at = None
                  THEN now ELSE removal_passed_at
    <2>1. p # NoRemoval
      <3>1. p.target \in Addresses
        BY <1>2, <1>4, <1>5 DEF GovInv, GuardianSetOK
      <3> QED
        BY <3>1, GovernanceConstants DEF NoRemoval
    <2>2. RemovalAboutGuardians'
      BY <1>2, <1>4, <1>5, <1>7 DEF RemovalAboutGuardians
    <2>3. Cardinality(p.votes_for) >= VotesNeeded => p.votes_for # {}
      <3>1. VotesNeeded \in Nat /\ VotesNeeded >= 1 /\ Cardinality({}) = 0
        BY <1>2, VotesNeededPositive DEF GovInv
      <3> QED
        BY <3>1
    <2>4. CASE removal_passed_at' = removal_passed_at
      BY <1>1, <1>4, <1>7, <2>1, <2>2, <2>4 DEF GovInv, RemovalOK
    <2>5. CASE removal_passed_at' = now /\ p.votes_for # {}
      BY <1>1, <1>2, <1>4, <1>7, <2>1, <2>2, <2>5, GovernanceConstants DEF RemovalOK
    <2> QED
      BY <1>7, <2>3, <2>4, <2>5
  <1> QED
    BY <1>3, <1>6, <1>7

(* execute_guardian_removal: a guardian leaves and the proposal with him.  *)
LEMMA ExecuteRemovalKept ==
  ASSUME GovInv, UNCHANGED now, ExecuteGuardianRemoval
  PROVE  GuardianSetOK' /\ StoredFlagOK' /\ RemovalOK'
  <1>1. /\ guardians' = [g \in Guardians \ {removal.target} |-> guardians[g]]
        /\ removal' = NoRemoval /\ removal_passed_at' = None
        /\ guardian_set_stored' = guardian_set_stored
    BY DEF ExecuteGuardianRemoval
  <1>2. Guardians' = Guardians \ {removal.target}
    BY <1>1 DEF Guardians
  <1>3. IsFiniteSet(Guardians \ {removal.target})
    BY FS_Subset DEF GovInv, GuardianSetOK
  <1>4. GuardianSetOK'
    BY <1>1, <1>2, <1>3 DEF GovInv, GuardianSetOK
  <1>5. StoredFlagOK'
    <2>1. Guardians = {} => Guardians' = {}
      BY <1>2
    <2> QED
      BY <1>1, <2>1, Zenon DEF GovInv, StoredFlagOK
  <1>6. RemovalOK'
    <2>1. now \in Nat
      BY GovernanceConstants DEF GovInv, PlainKeysOK, LedgerTypeOK
    <2> QED
      BY <1>1, <2>1 DEF RemovalOK, RemovalAboutGuardians, Proposals, NoRemoval
  <1> QED
    BY <1>4, <1>5, <1>6

(* The guardian entrypoints.                                               *)
LEMMA GuardianKept == ASSUME GovInv, GuardianStep PROVE GovInv'
  <1>1. /\ UNCHANGED <<ledgerVars, cb, roleVars, upgradeVars, timelock, pause_votes>>
        /\ UNCHANGED now
    BY DEF GuardianStep, ledgerVars
  <1>2. PlainKeysOK' /\ UpgradeOK'
    BY <1>1, PartsKept
  <1>3. MajorityOK'
    BY TrackMajorityKept DEF GuardianStep
  <1>4. GuardianSetOK' /\ StoredFlagOK' /\ RemovalOK'
    <2>1. CASE \/ \E gs \in UNION {[s -> Powers] : s \in SUBSET Members} : InitializeGuardians(gs)
               \/ \E a \in Members, power \in Powers : AddGuardian(a, power)
      <3>1. UNCHANGED <<now, removalVars>>
        BY <1>1, <2>1 DEF InitializeGuardians, AddGuardian
      <3> QED
        BY <2>1, <3>1, JoinKept
    <2>2. CASE \E a \in Addresses : RemoveGuardian(a)
      <3>1. UNCHANGED guardianVars
        BY <2>2 DEF RemoveGuardian
      <3> QED
        BY <1>1, <2>2, <3>1, ProposeRemovalKept, PartsKept
    <2>3. CASE \E a \in Addresses, approve \in BOOLEAN : VoteOnGuardianRemoval(a, approve)
      <3>1. UNCHANGED guardianVars
        BY <2>3 DEF VoteOnGuardianRemoval
      <3> QED
        BY <1>1, <2>3, <3>1, VoteOnRemovalKept, PartsKept
    <2>4. CASE \E a \in Addresses : VoteOnExpiredRemoval(a)
      <3>1. UNCHANGED <<now, guardianVars, removalVars>>
        BY <1>1, <2>4 DEF VoteOnExpiredRemoval, Commit, removalVars
      <3> QED
        BY <3>1, PartsKept
    <2>5. CASE ExecuteGuardianRemoval
      BY <1>1, <2>5, ExecuteRemovalKept
    <2> QED
      BY <2>1, <2>2, <2>3, <2>4, <2>5 DEF GuardianStep
  <1> QED
    BY <1>2, <1>3, <1>4 DEF GovInv

(* vote_for_upgrade: the vote that makes it pass leaves votes for it.      *)
LEMMA VoteForUpgradeKept ==
  ASSUME GovInv, UNCHANGED now, NEW v \in Addresses, NEW vote_for \in BOOLEAN,
         VoteForUpgrade(v, vote_for)
  PROVE  UpgradeOK' /\ upgrade' # NoUpgrade
  <1> DEFINE u == WithVote(upgrade, v, vote_for)
  <1>1. /\ upgrade \in UpgradeProposals /\ now \in Nat /\ upgrade.initiated_at \in Nat
        /\ upgrade.initiated_at =< now /\ upgrade_passed_at \in Nat \cup {None}
    BY GovernanceConstants DEF GovInv, PlainKeysOK, LedgerTypeOK, UpgradeOK, UpgradeProposals
  <1>2. /\ upgrade # NoUpgrade /\ upgrade' = u /\ rejected_at' = rejected_at /\ initiated' = initiated
        /\ upgrade_passed_at' = IF IsMajorityMet(guardians, u) /\ upgrade_passed_at = None
                                THEN now ELSE upgrade_passed_at
    BY DEF VoteForUpgrade, CanVoteForUpgrade
  <1>3. /\ u \in UpgradeProposals /\ u.wasm_hash = upgrade.wasm_hash
        /\ u.initiated_at = upgrade.initiated_at
        /\ upgrade.votes_for \subseteq u.votes_for
    BY <1>1 DEF WithVote, UpgradeProposals
  <1> HIDE DEF u
  <1>4. u.wasm_hash \in Hashes /\ u # NoUpgrade
    BY <1>2, <1>3, GovernanceConstants DEF GovInv, UpgradeOK, NoUpgrade
  <1>5. IsMajorityMet(guardians, u) => u.votes_for # {}
    <2>1. PowerOf(guardians, DOMAIN guardians) \in Nat
      BY TotalPower DEF GovInv, GuardianSetOK, Guardians
    <2> QED
      BY <2>1, MajorityHasVoters
  <1>6. CASE upgrade_passed_at' = upgrade_passed_at
    BY <1>1, <1>2, <1>3, <1>4, <1>6 DEF GovInv, UpgradeOK
  <1>7. CASE upgrade_passed_at' = now /\ u.votes_for # {}
    BY <1>1, <1>2, <1>3, <1>4, <1>7 DEF GovInv, UpgradeOK
  <1> QED
    BY <1>2, <1>4, <1>5, <1>6, <1>7

(* The upgrade entrypoints.                                                *)
LEMMA UpgradeKept == ASSUME GovInv, UpgradeStep PROVE GovInv'
  <1>1. /\ UNCHANGED <<ledgerVars, cb, roleVars, guardianVars, removalVars, timelock, pause_votes>>
        /\ UNCHANGED now /\ UNCHANGED <<now, guardianVars, removalVars>>
    BY DEF UpgradeStep, ledgerVars
  <1>2. PlainKeysOK' /\ GuardianSetOK' /\ StoredFlagOK' /\ RemovalOK'
    BY <1>1, PartsKept
  <1>3. MajorityOK'
    BY TrackMajorityKept DEF UpgradeStep
  <1>4. UpgradeOK'
    <2>0. now \in Nat /\ rejected_at \in [Hashes -> Nat \cup {None}] /\ initiated \in 0..MaxUpgrades
      BY GovernanceConstants DEF GovInv, PlainKeysOK, LedgerTypeOK, UpgradeOK
    <2>1. CASE \E h \in Hashes : InitiateUpgrade(h)
      <3>1. PICK h \in Hashes : InitiateUpgrade(h)
        BY <2>1
      <3>2. upgrade' = [wasm_hash |-> h, initiated_at |-> now, votes_for |-> {}, votes_against |-> {}]
        BY <3>1 DEF InitiateUpgrade, NoUpgrade
      <3>3. upgrade_passed_at' = None /\ rejected_at' = rejected_at /\ initiated' \in 0..MaxUpgrades
        BY <2>0, <3>1, GovernanceConstants DEF InitiateUpgrade
      <3> QED
        BY <1>1, <2>0, <3>2, <3>3 DEF UpgradeOK, UpgradeProposals
    <2>2. CASE \E a \in Addresses, vote_for \in BOOLEAN : VoteForUpgrade(a, vote_for)
      BY <1>1, <2>2, VoteForUpgradeKept
    <2>3. CASE ExecuteUpgrade
      <3>1. /\ upgrade' = NoUpgrade /\ upgrade_passed_at' = None /\ initiated' = initiated
            /\ rejected_at' = [rejected_at EXCEPT ![upgrade.wasm_hash] = None]
        BY <2>3 DEF ExecuteUpgrade
      <3>2. rejected_at' \in [Hashes -> Nat \cup {None}]
        BY <2>0, <3>1
      <3> QED
        BY <1>1, <2>0, <3>1, <3>2 DEF UpgradeOK, UpgradeProposals, NoUpgrade
    <2>4. CASE RejectUpgrade
      <3>1. UNCHANGED <<now, upgradeVars>>
        BY <1>1, <2>4 DEF RejectUpgrade, Commit, upgradeVars
      <3> QED
        BY <3>1, PartsKept
    <2> QED
      BY <2>1, <2>2, <2>3, <2>4 DEF UpgradeStep
  <1> QED
    BY <1>2, <1>3, <1>4 DEF GovInv

(* A step that changes nothing.                                            *)
LEMMA StutterKept == ASSUME GovInv, UNCHANGED vars PROVE GovInv'
  BY PartsKept DEF GovInv, vars, ledgerVars

(* Every step keeps the invariant of the guardians.                        *)
LEMMA GovStep == ASSUME GovInv, [Next]_vars PROVE GovInv'
  BY TickKept, RoleKept, GuardianKept, UpgradeKept, OtherKept, StutterKept DEF Next

(* An upgrade leaves the pending state only by being executed, after the   *)
(* timelock.                                                               *)
LEMMA UpgradeLeaves ==
  ASSUME GovInv, Next, upgrade # NoUpgrade, upgrade' = NoUpgrade
  PROVE  now - upgrade.initiated_at >= TIMELOCK_MIN_SECONDS
  <1>1. upgrade' # upgrade
    OBVIOUS
  <1>2. ExecuteUpgrade
    <2>1. UpgradeStep
      BY <1>1 DEF Next, Tick, RoleStep, GuardianStep, OtherStep, upgradeVars
    <2>2. ~\E h \in Hashes : InitiateUpgrade(h)
      BY DEF InitiateUpgrade
    <2>3. ~\E a \in Addresses, vote_for \in BOOLEAN : VoteForUpgrade(a, vote_for)
      BY <2>1, VoteForUpgradeKept DEF UpgradeStep, ledgerVars
    <2>4. ~RejectUpgrade
      BY <1>1 DEF RejectUpgrade, Commit
    <2> QED
      BY <2>1, <2>2, <2>3, <2>4 DEF UpgradeStep
  <1>3. GetTimelockDuration \in Nat /\ GetTimelockDuration >= TIMELOCK_MIN_SECONDS
    BY GovernanceConstants DEF GetTimelockDuration, GovInv, PlainKeysOK
  <1>4. /\ now \in Nat /\ upgrade.initiated_at \in Nat /\ upgrade_passed_at \in Nat \cup {None}
        /\ upgrade_passed_at # None => upgrade.initiated_at =< upgrade_passed_at
    BY GovernanceConstants DEF GovInv, PlainKeysOK, LedgerTypeOK, UpgradeOK, UpgradeProposals
  <1>5. now - (IF upgrade_passed_at = None THEN upgrade.initiated_at ELSE upgrade_passed_at) >= GetTimelockDuration
    BY <1>2 DEF ExecuteUpgrade, IsTimelockSatisfied
  <1> QED
    BY <1>3, <1>4, <1>5, GovernanceConstants

-----------------------------------------------------------------------------
(* The guardians: the theorems *)

(* Under ContractSpec a behaviour follows the guardians or the voters; in  *)
(* the second case no proposal is ever made.                               *)
ContractInv ==
  /\ focus \in {"governance", "voting"}
  /\ focus = "governance" => GovInv
  /\ focus = "voting" => /\ removal = NoRemoval /\ removal_passed_at = None
                         /\ upgrade = NoUpgrade /\ upgrade_passed_at = None

(* It holds throughout.                                                    *)
LEMMA ContractInvHolds == ContractSpec => []ContractInv
  <1>1. ContractInit => ContractInv
    BY GovInit DEF ContractInit, ContractInv, Init
  <1>2. ContractInv /\ [GovernanceStep \/ VotingStep]_contractVars => ContractInv'
    <2> SUFFICES ASSUME ContractInv, [GovernanceStep \/ VotingStep]_contractVars PROVE ContractInv'
      OBVIOUS
    <2>1. CASE GovernanceStep
      BY <2>1, GovStep DEF GovernanceStep, ContractInv
    <2>2. CASE VotingStep
      BY <2>2 DEF VotingStep, ContractInv, governanceVars, removalVars, upgradeVars
    <2>3. CASE UNCHANGED contractVars
      <3>1. UNCHANGED vars /\ UNCHANGED <<removalVars, upgradeVars, focus>>
        BY <2>3 DEF contractVars, governanceVars, vars
      <3> QED
        BY <3>1, GovStep DEF ContractInv, removalVars, upgradeVars
    <2> QED
      BY <2>1, <2>2, <2>3
  <1> QED
    BY <1>1, <1>2, PTL DEF ContractSpec

(* admin.rs and governance.rs: every storage key of the guardians holds a  *)
(* value of its type.                                                      *)
THEOREM GovernanceTypeCorrect == Spec => []TypeOK
  <1>1. Init => GovInv
    BY GovInit
  <1>2. GovInv /\ [Next]_vars => GovInv'
    BY GovStep
  <1>3. GovInv => TypeOK
    BY GovInvImplies
  <1> QED
    BY <1>1, <1>2, <1>3, PTL DEF Spec

(* execute_guardian_removal: the target of a pending removal, and whoever  *)
(* voted on it, are guardians of today.                                    *)
THEOREM RemovalAboutGuardiansHolds == ContractSpec => []RemovalAboutGuardians
  <1>1. ContractInv => RemovalAboutGuardians
    BY GovInvImplies DEF ContractInv, RemovalAboutGuardians
  <1> QED
    BY <1>1, ContractInvHolds, PTL

(* vote_on_guardian_removal and vote_for_upgrade: an approval time belongs *)
(* to the pending proposal, which has votes for it.                        *)
THEOREM ApprovalBelongsHolds == ContractSpec => []ApprovalBelongs
  <1>1. ContractInv => ApprovalBelongs
    BY GovInvImplies DEF ContractInv, ApprovalBelongs
  <1> QED
    BY <1>1, ContractInvHolds, PTL

(* execute_upgrade: no code is replaced sooner after its announcement than *)
(* the shortest legal timelock.                                            *)
THEOREM UpgradeAnnouncedHolds == ContractSpec => UpgradeAnnounced
  <1>1. ContractInv /\ [GovernanceStep \/ VotingStep]_contractVars =>
          [upgrade # NoUpgrade /\ upgrade' = NoUpgrade =>
             now - upgrade.initiated_at >= TIMELOCK_MIN_SECONDS]_vars
    <2> SUFFICES ASSUME ContractInv, [GovernanceStep \/ VotingStep]_contractVars,
                        upgrade # NoUpgrade, upgrade' = NoUpgrade
                 PROVE  now - upgrade.initiated_at >= TIMELOCK_MIN_SECONDS
      OBVIOUS
    <2>1. CASE GovernanceStep
      BY <2>1, UpgradeLeaves DEF GovernanceStep, ContractInv
    <2>2. CASE VotingStep \/ UNCHANGED contractVars
      <3>1. upgrade' = upgrade
        BY <2>2 DEF VotingStep, contractVars, governanceVars, upgradeVars
      <3> QED
        BY <3>1
    <2> QED
      BY <2>1, <2>2
  <1> QED
    BY <1>1, ContractInvHolds, PTL DEF ContractSpec, UpgradeAnnounced
-----------------------------------------------------------------------------
(* The voters: what is summed up *)

(* What the proofs use of the voters' constants.                           *)
LEMMA VotingConstants ==
  /\ IsFiniteSet(Voters) /\ IsFiniteSet(Tokens)
  /\ Minted \in [Tokens -> [Voters -> Nat]] /\ SnapshotTokens \subseteq Tokens
  /\ Decimals \in [Tokens -> Nat] /\ Weights \subseteq Nat
  /\ NORMALIZED_DECIMALS \in Nat /\ I128_MAX \in Nat /\ Options \in Nat /\ CANCEL_OUTCOME_INDEX \in Nat
  /\ MAJORITY_THRESHOLD_BPS \in Nat /\ FAILED_MARKET_THRESHOLD_BPS \in Nat
  /\ \A t \in Tokens : V!Scale(t) \in Nat \ {0}
  BY ContractAssumption DEF V!VotingAssumption

(* Outcomes are naturals, and there are finitely many.                     *)
LEMMA OutcomeFacts ==
  /\ V!VoteOutcomes \subseteq Nat /\ IsFiniteSet(V!VoteOutcomes)
  /\ CANCEL_OUTCOME_INDEX \in V!VoteOutcomes /\ None \notin V!VoteOutcomes
  <1>1. V!OptionOutcomes \subseteq Nat /\ IsFiniteSet(V!OptionOutcomes)
    BY FS_Interval, VotingConstants DEF V!OptionOutcomes
  <1>2. IsFiniteSet(V!OptionOutcomes \cup {CANCEL_OUTCOME_INDEX})
    BY <1>1, FS_AddElement
  <1> QED
    BY <1>1, <1>2, VotingConstants DEF V!VoteOutcomes, None

(* The sums of Voting are the sums of SumTheorems.                         *)
LEMMA VotingSums ==
  ASSUME NEW f, NEW S
  PROVE  /\ V!SumFunctionOnSet(f, S) = SumFunctionOnSet(f, S)
         /\ V!SumFunction(f) = SumFunctionOnSet(f, DOMAIN f)
  <1>1. V!SumFunctionOnSet(f, S) = SumFunctionOnSet(f, S)
    BY DEF V!SumFunctionOnSet, V!FoldFunctionOnSet, V!MapThenFoldSet,
           SumFunctionOnSet, FoldFunctionOnSet, MapThenFoldSet
  <1>2. V!SumFunction(f) = SumFunctionOnSet(f, DOMAIN f)
    BY DEF V!SumFunction, V!SumFunctionOnSet, V!FoldFunctionOnSet, V!MapThenFoldSet,
           SumFunctionOnSet, FoldFunctionOnSet, MapThenFoldSet
  <1> QED
    BY <1>1, <1>2

(* Who voted for one of the outcomes, and what each vote weighs.           *)
VotersFor(outcomes) == {v \in Voters : vote[v] # V!NoVote /\ vote[v].outcome \in outcomes}
WeightOf == [v \in Voters |-> vote[v].weight]

(* WeightFor of Voting in these terms.                                     *)
LEMMA WeightForIs ==
  ASSUME NEW O PROVE V!WeightFor(O) = SumFunctionOnSet(WeightOf, VotersFor(O))
  <1>1. {v \in V!CastBy : vote[v].outcome \in O} = VotersFor(O)
    BY DEF V!CastBy, VotersFor
  <1>2. V!VoteWeights = WeightOf
    BY DEF V!VoteWeights, WeightOf
  <1> QED
    BY <1>1, <1>2, VotingSums DEF V!WeightFor

(* The same after a step.                                                  *)
LEMMA WeightForNext ==
  ASSUME NEW O PROVE V!WeightFor(O)' = SumFunctionOnSet(WeightOf', VotersFor(O)')
  <1>1. {v \in V!CastBy : vote[v].outcome \in O}' = VotersFor(O)'
    BY DEF V!CastBy, VotersFor
  <1>2. V!VoteWeights' = WeightOf'
    BY DEF V!VoteWeights, WeightOf
  <1>3. V!WeightFor(O)' = V!SumFunctionOnSet(V!VoteWeights', {v \in V!CastBy : vote[v].outcome \in O}')
    BY DEF V!WeightFor
  <1> QED
    BY <1>1, <1>2, <1>3, VotingSums

(* A vote on record is for an outcome of the market and has a weight.      *)
VotesOK ==
  /\ vote \in [Voters -> [outcome : V!VoteOutcomes \cup {None}, weight : Nat]]
  /\ \A v \in Voters : vote[v].outcome = None => vote[v] = V!NoVote
  /\ tally \in [V!VoteOutcomes -> Int]

(* The voters for some outcomes are finitely many; their votes add up.     *)
LEMMA VotersForFacts ==
  ASSUME VotesOK, NEW O
  PROVE  /\ VotersFor(O) \subseteq Voters /\ IsFiniteSet(VotersFor(O))
         /\ \A v \in Voters : WeightOf[v] \in Nat
         /\ V!WeightFor(O) \in Nat
  <1>1. VotersFor(O) \subseteq Voters /\ \A v \in Voters : WeightOf[v] \in Nat
    BY DEF VotersFor, VotesOK, WeightOf
  <1>2. IsFiniteSet(VotersFor(O))
    BY <1>1, FS_Subset, VotingConstants
  <1>3. SumFunctionOnSet(WeightOf, VotersFor(O)) \in Nat
    BY <1>1, <1>2, SumNat
  <1> QED
    BY <1>1, <1>2, <1>3, WeightForIs

(* The tallies of some outcomes add up to the votes for them: what         *)
(* cancel_market_vote divides by is what finalize_resolution divides by.   *)
LEMMA TalliesAddUp ==
  ASSUME VotesOK, V!TallyMatchesVotes, status # "Absent"
  PROVE  V!TallyOf(V!VoteOutcomes) = V!WeightFor(V!VoteOutcomes)
  <1> DEFINE Good(O) == V!TallyOf(O) = V!WeightFor(O)
             Bad == {O \in SUBSET V!VoteOutcomes : ~Good(O)}
  <1> SUFFICES ASSUME Bad # {} PROVE FALSE
    OBVIOUS
  <1>1. PICK O \in Bad : \A P \in Bad : P \subseteq O => P = O
    <2>1. Bad \in SUBSET SUBSET V!VoteOutcomes /\ Bad # {}
      OBVIOUS
    <2>2. IsFiniteSet(V!VoteOutcomes)
      BY OutcomeFacts
    <2> HIDE DEF Bad
    <2> QED
      BY <2>1, <2>2, SmallestSubset
  <1>2. O \in SUBSET V!VoteOutcomes /\ ~Good(O) /\ IsFiniteSet(O)
    BY <1>1, OutcomeFacts, FS_Subset
  <1>3. O # {}
    <2>1. VotersFor({}) = {}
      BY DEF VotersFor
    <2>2. V!TallyOf({}) = 0 /\ V!WeightFor({}) = 0
      BY <2>1, SumEmpty, VotingSums, WeightForIs DEF V!TallyOf
    <2> QED
      BY <1>2, <2>2
  <1>4. PICK o : o \in O
    BY <1>3
  <1> DEFINE P == O \ {o}
  <1>5. P \in SUBSET V!VoteOutcomes /\ P \subseteq O /\ P # O
    BY <1>2, <1>4
  <1>6. Good(P)
    <2> HIDE DEF Good
    <2> QED
      BY <1>1, <1>5
  <1>7. V!TallyOf(O) = tally[o] + V!TallyOf(P)
    <2>1. \A q \in O : tally[q] \in Int
      BY <1>2 DEF VotesOK
    <2>2. SumFunctionOnSet(tally, O) = tally[o] + SumFunctionOnSet(tally, P)
      BY <1>2, <1>4, <2>1, SumRemove
    <2> QED
      BY <2>2, VotingSums DEF V!TallyOf
  <1>8. V!WeightFor(O) = V!WeightFor({o}) + V!WeightFor(P)
    <2>1. /\ VotersFor({o}) \subseteq VotersFor(O)
          /\ VotersFor(O) \ VotersFor({o}) = VotersFor(P)
      BY <1>4 DEF VotersFor
    <2>2. IsFiniteSet(VotersFor(O)) /\ \A v \in VotersFor(O) : WeightOf[v] \in Int
      BY VotersForFacts
    <2>3. SumFunctionOnSet(WeightOf, VotersFor(O)) =
            SumFunctionOnSet(WeightOf, VotersFor({o}))
            + SumFunctionOnSet(WeightOf, VotersFor(O) \ VotersFor({o}))
      BY <2>1, <2>2, SumSplit
    <2> HIDE DEF P
    <2> QED
      BY <2>1, <2>3, WeightForIs
  <1>9. tally[o] = V!WeightFor({o})
    BY <1>2, <1>4 DEF V!TallyMatchesVotes
  <1> QED
    BY <1>2, <1>6, <1>7, <1>8, <1>9
-----------------------------------------------------------------------------
(* The voters: the invariant *)

LocksOK ==
  /\ held \in [Tokens -> Int] /\ gov_token \in Tokens
  /\ locked_balance \in [Voters -> Int] /\ stranded \in Int
  /\ V!LockAccounting

(* The vote ends with the decision.                                        *)
DecisionOK ==
  /\ V!DecisionBacked
  /\ decided_by = "vote" => status # "Disputed"

(* The inductive invariant of the voters.                                  *)
VotingInv == LocksOK /\ VotesOK /\ V!TallyMatchesVotes /\ DecisionOK

(* LockAccounting in terms of SumTheorems.                                 *)
LEMMA LockAccountingIs ==
  ASSUME held \in [Tokens -> Int], locked_balance \in [Voters -> Int]
  PROVE  V!LockAccounting <=>
           SumFunctionOnSet(held, Tokens) = SumFunctionOnSet(locked_balance, Voters) + stranded
  <1>1. DOMAIN held = Tokens /\ DOMAIN locked_balance = Voters
    OBVIOUS
  <1>2. V!SumFunction(held) = SumFunctionOnSet(held, Tokens)
    BY <1>1, VotingSums
  <1>3. V!SumFunction(locked_balance) = SumFunctionOnSet(locked_balance, Voters)
    BY <1>1, VotingSums
  <1> QED
    BY <1>2, <1>3 DEF V!LockAccounting

(* The locks hold if nothing is paid and no lock changes.                  *)
LEMMA LocksUntouched ==
  ASSUME LocksOK, UNCHANGED <<held, locked_balance, stranded>>, gov_token' \in Tokens
  PROVE  LocksOK'
  BY DEF LocksOK, V!LockAccounting

(* The votes are what they were if no vote and no tally changes.           *)
LEMMA VotesUntouched ==
  ASSUME VotesOK, UNCHANGED <<vote, tally>>
  PROVE  VotesOK' /\ \A O : V!WeightFor(O)' = V!WeightFor(O)
  <1>1. VotesOK'
    BY DEF VotesOK
  <1>2. \A O : V!WeightFor(O)' = V!WeightFor(O)
    BY DEF V!WeightFor, V!CastBy, V!VoteWeights
  <1> QED
    BY <1>1, <1>2

(* A step that leaves the votes and the decision alone.                    *)
LEMMA RestUntouched ==
  ASSUME VotingInv, UNCHANGED <<vote, tally, status, winning_outcome, decided_by>>
  PROVE  VotesOK' /\ V!TallyMatchesVotes' /\ DecisionOK'
  <1>1. VotesOK' /\ \A O : V!WeightFor(O)' = V!WeightFor(O)
    BY VotesUntouched DEF VotingInv
  <1>2. V!TallyMatchesVotes'
    BY <1>1 DEF VotingInv, V!TallyMatchesVotes
  <1>3. DecisionOK'
    BY <1>1 DEF VotingInv, DecisionOK, V!DecisionBacked
  <1> QED
    BY <1>1, <1>2, <1>3

(* It holds when the vote starts.                                          *)
LEMMA VotingInit == ASSUME V!Init PROVE VotingInv
  <1>1. /\ held = [t \in Tokens |-> 0] /\ locked_balance = [v \in Voters |-> 0] /\ stranded = 0
        /\ gov_token \in Tokens /\ vote = [v \in Voters |-> V!NoVote]
        /\ tally = [o \in V!VoteOutcomes |-> 0] /\ decided_by = "nobody"
    BY DEF V!Init, V!LedgerInit
  <1>2. LocksOK
    <2>1. SumFunctionOnSet(held, Tokens) = 0 /\ SumFunctionOnSet(locked_balance, Voters) = 0
      BY <1>1, SumZero, VotingConstants
    <2>2. held \in [Tokens -> Int] /\ locked_balance \in [Voters -> Int]
      BY <1>1
    <2>3. V!LockAccounting
      BY <1>1, <2>1, <2>2, LockAccountingIs
    <2> QED
      BY <1>1, <2>2, <2>3 DEF LocksOK
  <1>3. VotesOK
    BY <1>1 DEF VotesOK, V!NoVote, V!None, None
  <1>4. V!TallyMatchesVotes
    <2>1. \A O : VotersFor(O) = {}
      BY <1>1 DEF VotersFor
    <2>2. \A O : V!WeightFor(O) = 0
      BY <2>1, WeightForIs, SumEmpty
    <2> QED
      BY <1>1, <2>2 DEF V!TallyMatchesVotes
  <1>5. DecisionOK
    BY <1>1 DEF DecisionOK, V!DecisionBacked
  <1> QED
    BY <1>2, <1>3, <1>4, <1>5 DEF VotingInv

-----------------------------------------------------------------------------
(* The voters: every step keeps the invariant *)

(* What a balance weighs is a natural number.                              *)
LEMMA NormalizeType ==
  ASSUME NEW t \in Tokens, NEW raw \in Nat PROVE V!Normalize(t, raw) \in Nat
  <1>1. PICK k \in Nat \ {0} : k = V!Scale(t)
    BY VotingConstants
  <1>2. raw * k \in Nat /\ raw \div k \in Nat
    BY <1>1
  <1>3. V!Min({raw * k, I128_MAX}) \in Nat
    <2>1. PICK a \in Nat, b \in Nat : a = raw * k /\ b = I128_MAX
      BY <1>2, VotingConstants
    <2>2. V!Min({a, b}) \in Nat
      <3>1. \E x \in {a, b} : \A y \in {a, b} : x =< y
        OBVIOUS
      <3>2. V!Min({a, b}) \in {a, b}
        BY <3>1 DEF V!Min
      <3> QED
        BY <3>2
    <2> QED
      BY <2>1, <2>2
  <1> QED
    BY <1>1, <1>2, <1>3 DEF V!Normalize

(* The accounts after a step, in terms of SumTheorems.                     *)
LEMMA LockAccountingNext ==
  ASSUME held' \in [Tokens -> Int], locked_balance' \in [Voters -> Int],
         stranded' \in Int, gov_token' \in Tokens,
         SumFunctionOnSet(held', Tokens) = SumFunctionOnSet(locked_balance', Voters) + stranded'
  PROVE  LocksOK'
  <1>1. DOMAIN held' = Tokens /\ DOMAIN locked_balance' = Voters
    OBVIOUS
  <1>2. V!SumFunction(held') = SumFunctionOnSet(held', Tokens)
    BY <1>1, VotingSums
  <1>3. V!SumFunction(locked_balance') = SumFunctionOnSet(locked_balance', Voters)
    BY <1>1, VotingSums
  <1> QED
    BY <1>2, <1>3 DEF V!LockAccounting, LocksOK

(* What is moved between a voter and the contract moves both sums.         *)
LEMMA TransferSums ==
  ASSUME LocksOK, NEW v \in Voters, NEW w \in Int,
         held' = [held EXCEPT ![gov_token] = @ + w],
         locked_balance' = [locked_balance EXCEPT ![v] = @ + w],
         UNCHANGED <<gov_token, stranded>>
  PROVE  LocksOK'
  <1>1. /\ held \in [Tokens -> Int] /\ gov_token \in Tokens
        /\ locked_balance \in [Voters -> Int] /\ stranded \in Int /\ V!LockAccounting
    BY DEF LocksOK
  <1>2. held' \in [Tokens -> Int] /\ locked_balance' \in [Voters -> Int]
    BY <1>1
  <1>3. SumFunctionOnSet(held', Tokens) = SumFunctionOnSet(held, Tokens) + w
    <2>1. held'[gov_token] - held[gov_token] = w /\ \A t \in Tokens \ {gov_token} : held'[t] = held[t]
      BY <1>1
    <2>2. \A t \in Tokens : held[t] \in Int /\ held'[t] \in Int
      BY <1>1, <1>2
    <2>3. PICK h : h = held'
      OBVIOUS
    <2>4. IsFiniteSet(Tokens) /\ gov_token \in Tokens
      BY <1>1, VotingConstants
    <2>5. /\ \A t \in Tokens : held[t] \in Int /\ h[t] \in Int
          /\ \A t \in Tokens \ {gov_token} : h[t] = held[t]
      BY <2>1, <2>2, <2>3
    <2>6. SumFunctionOnSet(h, Tokens) = SumFunctionOnSet(held, Tokens) + (h[gov_token] - held[gov_token])
      BY <2>4, <2>5, SumChange
    <2> QED
      BY <2>1, <2>3, <2>6
  <1>4. SumFunctionOnSet(locked_balance', Voters) = SumFunctionOnSet(locked_balance, Voters) + w
    <2>1. /\ locked_balance'[v] - locked_balance[v] = w
          /\ \A u \in Voters \ {v} : locked_balance'[u] = locked_balance[u]
      BY <1>1
    <2>2. \A u \in Voters : locked_balance[u] \in Int /\ locked_balance'[u] \in Int
      BY <1>1, <1>2
    <2>3. PICK b : b = locked_balance'
      OBVIOUS
    <2>4. IsFiniteSet(Voters)
      BY VotingConstants
    <2>5. /\ \A u \in Voters : locked_balance[u] \in Int /\ b[u] \in Int
          /\ \A u \in Voters \ {v} : b[u] = locked_balance[u]
      BY <2>1, <2>2, <2>3
    <2>6. SumFunctionOnSet(b, Voters) =
            SumFunctionOnSet(locked_balance, Voters) + (b[v] - locked_balance[v])
      BY <2>4, <2>5, SumChange
    <2> QED
      BY <2>1, <2>3, <2>6
  <1>5. SumFunctionOnSet(held, Tokens) \in Int /\ SumFunctionOnSet(locked_balance, Voters) \in Int
    BY <1>1, SumType, VotingConstants
  <1>6. SumFunctionOnSet(held, Tokens) = SumFunctionOnSet(locked_balance, Voters) + stranded
    BY <1>1, LockAccountingIs
  <1>7. SumFunctionOnSet(held', Tokens) = SumFunctionOnSet(locked_balance', Voters) + stranded'
    BY <1>1, <1>3, <1>4, <1>5, <1>6
  <1> QED
    BY <1>1, <1>2, <1>7, LockAccountingNext

(* cast_vote: whether it weighs by snapshot or takes the tokens, the       *)
(* contract holds what it records.                                         *)
LEMMA CastLocksKept ==
  ASSUME LocksOK, NEW v \in Voters, NEW o, NEW w \in Weights, V!CastVote(v, o, w)
  PROVE  LocksOK'
  <1>1. UNCHANGED gov_token /\ gov_token \in Tokens /\ w \in Int
    BY VotingConstants DEF V!CastVote, LocksOK
  <1>2. CASE V!WeighBySnapshot(v)
    <2>1. UNCHANGED <<held, locked_balance, stranded>>
      BY <1>2 DEF V!WeighBySnapshot, V!ledgerVars, V!lockVars
    <2> QED
      BY <1>1, <2>1, LocksUntouched
  <1>3. CASE V!WeighByLock(v, w)
    BY <1>1, <1>3, TransferSums DEF V!WeighByLock, V!Receive
  <1> QED
    BY <1>2, <1>3 DEF V!CastVote

(* unlock_tokens: the record goes with the tokens.                         *)
LEMMA UnlockKept ==
  ASSUME LocksOK, NEW v \in Voters, V!UnlockTokens(v)
  PROVE  LocksOK'
  <1>1. PICK w \in Int : w = 0 - locked_balance[v]
    BY DEF LocksOK
  <1>2. /\ held' = [held EXCEPT ![gov_token] = @ - locked_balance[v]]
        /\ locked_balance' = [locked_balance EXCEPT ![v] = 0]
        /\ UNCHANGED <<gov_token, stranded>>
    BY DEF V!UnlockTokens, V!Pay
  <1>3. held \in [Tokens -> Int] /\ gov_token \in Tokens /\ locked_balance \in [Voters -> Int]
    BY DEF LocksOK
  <1>4. held' = [held EXCEPT ![gov_token] = @ + w]
    <2>1. held[gov_token] - locked_balance[v] = held[gov_token] + w
      BY <1>1, <1>3
    <2> QED
      BY <1>2, <2>1
  <1>5. locked_balance' = [locked_balance EXCEPT ![v] = @ + w]
    <2>1. 0 = locked_balance[v] + w
      BY <1>1, <1>3
    <2> QED
      BY <1>2, <2>1
  <1> QED
    BY <1>1, <1>2, <1>4, <1>5, TransferSums

(* prune_market: the locks it drops are stranded.                          *)
LEMMA PruneLocksKept ==
  ASSUME LocksOK, V!PruneMarket
  PROVE  LocksOK'
  <1> DEFINE C == V!CastBy
             Z == SumFunctionOnSet(locked_balance, C)
  <1>1. /\ held' = held /\ gov_token' = gov_token /\ stranded' = stranded + Z
        /\ locked_balance' = [v \in Voters |-> IF v \in C THEN 0 ELSE locked_balance[v]]
    BY VotingSums DEF V!PruneMarket, V!ledgerVars
  <1>2. /\ held \in [Tokens -> Int] /\ gov_token \in Tokens
        /\ locked_balance \in [Voters -> Int] /\ stranded \in Int /\ V!LockAccounting
    BY DEF LocksOK
  <1>3. C \subseteq Voters
    BY DEF V!CastBy
  <1> HIDE DEF C
  <1>4. IsFiniteSet(C) /\ IsFiniteSet(Voters \ C)
    BY <1>3, FS_Subset, VotingConstants
  <1>5. locked_balance' \in [Voters -> Int]
    BY <1>1, <1>2
  <1>6. SumFunctionOnSet(locked_balance, Voters) = Z + SumFunctionOnSet(locked_balance, Voters \ C)
    BY <1>2, <1>3, SumSplit, VotingConstants
  <1>7. SumFunctionOnSet(locked_balance', Voters) =
          SumFunctionOnSet(locked_balance', C) + SumFunctionOnSet(locked_balance', Voters \ C)
    <2>1. \A v \in Voters : locked_balance'[v] \in Int
      BY <1>5
    <2> QED
      BY <1>3, <2>1, SumSplit, VotingConstants
  <1>8. SumFunctionOnSet(locked_balance', C) = 0
    <2>1. \A v \in C : locked_balance'[v] = 0
      BY <1>1, <1>3
    <2> QED
      BY <1>4, <2>1, SumZero
  <1>9. SumFunctionOnSet(locked_balance', Voters \ C) = SumFunctionOnSet(locked_balance, Voters \ C)
    <2>1. \A v \in Voters \ C : locked_balance'[v] = locked_balance[v]
      BY <1>1
    <2> QED
      BY <1>4, <2>1, SumAgrees
  <1>10. Z \in Int /\ SumFunctionOnSet(locked_balance, Voters \ C) \in Int
    <2>1. \A v \in C : locked_balance[v] \in Int
      BY <1>2, <1>3
    <2>2. \A v \in Voters \ C : locked_balance[v] \in Int
      BY <1>2
    <2> QED
      BY <1>4, <2>1, <2>2, SumType
  <1>11. SumFunctionOnSet(held, Tokens) = SumFunctionOnSet(locked_balance, Voters) + stranded
    BY <1>2, LockAccountingIs
  <1> HIDE DEF Z
  <1>12. SumFunctionOnSet(held', Tokens) = SumFunctionOnSet(locked_balance', Voters) + stranded'
    BY <1>1, <1>2, <1>6, <1>7, <1>8, <1>9, <1>10, <1>11
  <1>13. stranded' \in Int /\ held' \in [Tokens -> Int] /\ gov_token' \in Tokens
    BY <1>1, <1>2, <1>10
  <1> QED
    BY <1>5, <1>12, <1>13, LockAccountingNext

(* What one voter's vote contributes to a sum over voters.                 *)
LEMMA OneVoterOut ==
  ASSUME NEW f, NEW A, IsFiniteSet(A), \A u \in A : f[u] \in Int, NEW v, NEW d \in Int,
         v \in A => f[v] = d, v \notin A => d = 0
  PROVE  SumFunctionOnSet(f, A) = d + SumFunctionOnSet(f, A \ {v})
  <1>1. CASE v \in A
    BY <1>1, SumRemove
  <1>2. CASE v \notin A
    <2>1. A \ {v} = A
      BY <1>2
    <2>2. SumFunctionOnSet(f, A) \in Int
      BY SumType
    <2> QED
      BY <1>2, <2>1, <2>2
  <1> QED
    BY <1>1, <1>2

(* cast_vote: the record of the voter and no other changes.                *)
LEMMA CastVoteForm ==
  ASSUME VotingInv, NEW v \in Voters, NEW o \in V!VoteOutcomes, NEW weight \in Weights,
         V!CastVote(v, o, weight)
  PROVE  \E w \in Nat :
           /\ vote' = [vote EXCEPT ![v] = [outcome |-> o, weight |-> w]]
           /\ tally' = V!TallyAfter(v, o, w)
           /\ status = "Disputed" /\ UNCHANGED <<status, winning_outcome, decided_by>>
  <1> DEFINE raw == IF gov_token \in SnapshotTokens THEN Minted[gov_token][v] ELSE weight
             w == V!Normalize(gov_token, raw)
  <1>1. gov_token \in Tokens
    BY DEF VotingInv, LocksOK
  <1>2. raw \in Nat
    BY <1>1, VotingConstants
  <1> HIDE DEF raw
  <1>3. w \in Nat
    BY <1>1, <1>2, NormalizeType
  <1>4. /\ vote' = [vote EXCEPT ![v] = [outcome |-> o, weight |-> w]]
        /\ tally' = V!TallyAfter(v, o, w)
        /\ status = "Disputed" /\ UNCHANGED <<status, winning_outcome, decided_by>>
    BY DEF V!CastVote, V!marketVars, raw
  <1> HIDE DEF w
  <1> QED
    BY <1>3, <1>4

(* cast_vote: a revised vote leaves its old tally and joins the new one.   *)
LEMMA CastKept ==
  ASSUME VotingInv, NEW v \in Voters, NEW o \in V!VoteOutcomes, NEW weight \in Weights,
         V!CastVote(v, o, weight)
  PROVE  VotesOK' /\ V!TallyMatchesVotes' /\ DecisionOK'
  <1>1. PICK w \in Nat :
           /\ vote' = [vote EXCEPT ![v] = [outcome |-> o, weight |-> w]]
           /\ tally' = V!TallyAfter(v, o, w)
           /\ status = "Disputed" /\ UNCHANGED <<status, winning_outcome, decided_by>>
    BY CastVoteForm
  <1>2. /\ vote \in [Voters -> [outcome : V!VoteOutcomes \cup {None}, weight : Nat]]
        /\ \A u \in Voters : vote[u].outcome = None => vote[u] = V!NoVote
        /\ tally \in [V!VoteOutcomes -> Int]
    BY DEF VotingInv, VotesOK
  <1>3. tally' = [q \in V!VoteOutcomes |-> tally[q]
                          - (IF vote[v].outcome = q THEN vote[v].weight ELSE 0)
                          + (IF o = q THEN w ELSE 0)]
    BY <1>1 DEF V!TallyAfter
  <1>4. /\ vote' \in [Voters -> [outcome : V!VoteOutcomes \cup {None}, weight : Nat]]
        /\ vote'[v] = [outcome |-> o, weight |-> w]
        /\ \A u \in Voters \ {v} : vote'[u] = vote[u]
    <2>1. [outcome |-> o, weight |-> w] \in [outcome : V!VoteOutcomes \cup {None}, weight : Nat]
      OBVIOUS
    <2> QED
      BY <1>1, <1>2, <2>1
  <1>5. VotesOK'
    <2>1. \A u \in Voters : vote'[u].outcome = None => vote'[u] = V!NoVote
      BY <1>2, <1>4, OutcomeFacts
    <2>2. \A q \in V!VoteOutcomes : tally'[q] \in Int
      BY <1>2, <1>3
    <2>3. tally' \in [V!VoteOutcomes -> Int]
      BY <1>3, <2>2
    <2> QED
      BY <1>4, <2>1, <2>3 DEF VotesOK
  <1>6. ASSUME NEW q \in V!VoteOutcomes
        PROVE  tally'[q] = V!WeightFor({q})'
    <2>1. PICK f, g : f = WeightOf /\ g = WeightOf'
      OBVIOUS
    <2>2. PICK A, B : A = VotersFor({q}) /\ B = VotersFor({q})'
      OBVIOUS
    <2>3. PICK d \in Nat, e \in Nat : /\ d = (IF vote[v].outcome = q THEN vote[v].weight ELSE 0)
                                     /\ e = (IF o = q THEN w ELSE 0)
      BY <1>2
    <2>4. /\ \A u \in Voters : f[u] = vote[u].weight /\ f[u] \in Int
          /\ \A u \in Voters : g[u] = vote'[u].weight /\ g[u] \in Int
      BY <1>2, <1>4, <2>1 DEF WeightOf
    <2>5. /\ A = {u \in Voters : vote[u].outcome = q}
          /\ B = {u \in Voters : vote'[u].outcome = q}
      <3>1. V!NoVote.outcome # q
        BY OutcomeFacts DEF V!NoVote, V!None, None
      <3> QED
        BY <2>2, <3>1 DEF VotersFor
    <2>6. A \ {v} = B \ {v} /\ \A u \in A \ {v} : g[u] = f[u]
      BY <1>4, <2>4, <2>5
    <2>7. IsFiniteSet(A) /\ IsFiniteSet(B) /\ IsFiniteSet(A \ {v})
      BY <2>5, FS_Subset, VotingConstants
    <2>8. SumFunctionOnSet(f, A) = d + SumFunctionOnSet(f, A \ {v})
      <3>1. \A u \in A : f[u] \in Int
        BY <2>4, <2>5
      <3>2. (v \in A => f[v] = d) /\ (v \notin A => d = 0)
        BY <2>3, <2>4, <2>5
      <3> QED
        BY <2>3, <2>7, <3>1, <3>2, OneVoterOut
    <2>9. SumFunctionOnSet(g, B) = e + SumFunctionOnSet(g, B \ {v})
      <3>1. \A u \in B : g[u] \in Int
        BY <2>4, <2>5
      <3>2. (v \in B => g[v] = e) /\ (v \notin B => e = 0)
        BY <1>4, <2>3, <2>4, <2>5
      <3> QED
        BY <2>3, <2>7, <3>1, <3>2, OneVoterOut
    <2>10. SumFunctionOnSet(g, B \ {v}) = SumFunctionOnSet(f, A \ {v})
      BY <2>6, <2>7, SumAgrees
    <2>11. SumFunctionOnSet(f, A \ {v}) \in Int
      <3>1. \A u \in A \ {v} : f[u] \in Int
        BY <2>4, <2>5
      <3> QED
        BY <2>7, <3>1, SumType
    <2>12. tally[q] = SumFunctionOnSet(f, A)
      BY <1>1, <2>1, <2>2, WeightForIs DEF VotingInv, V!TallyMatchesVotes
    <2>13. V!WeightFor({q})' = SumFunctionOnSet(g, B)
      BY <2>1, <2>2, WeightForNext
    <2>14. tally'[q] = tally[q] - d + e
      BY <1>3, <2>3
    <2> QED
      BY <2>3, <2>8, <2>9, <2>10, <2>11, <2>12, <2>13, <2>14
  <1>7. V!TallyMatchesVotes'
    BY <1>6 DEF V!TallyMatchesVotes
  <1>8. DecisionOK'
    BY <1>1 DEF VotingInv, DecisionOK, V!DecisionBacked
  <1> QED
    BY <1>5, <1>7, <1>8

(* cancel_market_vote and finalize_resolution: what the check divided is   *)
(* what the property compares.                                             *)
LEMMA ShareBacked ==
  ASSUME NEW part \in Nat, NEW total \in Nat, total # 0, NEW bps \in Nat,
         (part * 10000) \div total >= bps
  PROVE  part * 10000 >= bps * total
  <1>1. PICK n \in Nat : n = part * 10000
    OBVIOUS
  <1> QED
    BY <1>1

(* cancel_market_vote and finalize_resolution decide by the votes.         *)
LEMMA DecideKept ==
  ASSUME VotingInv, V!CancelMarketVote \/ \E o \in V!VoteOutcomes : V!FinalizeDisputed(o)
  PROVE  VotesOK' /\ V!TallyMatchesVotes' /\ DecisionOK'
  <1>1. UNCHANGED <<vote, tally>> /\ status = "Disputed"
    BY DEF V!CancelMarketVote, V!FinalizeDisputed, V!OnlyMarketChanges, V!voteVars
  <1>2. VotesOK' /\ \A O : V!WeightFor(O)' = V!WeightFor(O)
    BY <1>1, VotesUntouched DEF VotingInv
  <1>3. V!TallyMatchesVotes'
    BY <1>1, <1>2 DEF VotingInv, V!TallyMatchesVotes
  <1>4. PICK total \in Nat : total = V!WeightFor(V!VoteOutcomes)
    BY VotersForFacts DEF VotingInv
  <1>5. DecisionOK'
    <2>1. CASE V!CancelMarketVote
      <3>1. PICK part \in Nat : part = V!WeightFor({CANCEL_OUTCOME_INDEX})
        BY VotersForFacts DEF VotingInv
      <3>2. tally[CANCEL_OUTCOME_INDEX] = part /\ V!TallyOf(V!VoteOutcomes) = total
        BY <1>1, <1>4, <3>1, OutcomeFacts, TalliesAddUp DEF VotingInv, V!TallyMatchesVotes
      <3>3. total # 0 /\ (part * 10000) \div total >= FAILED_MARKET_THRESHOLD_BPS
        BY <2>1, <3>2 DEF V!CancelMarketVote, V!CancelThresholdMet
      <3>4. part * 10000 >= FAILED_MARKET_THRESHOLD_BPS * total
        <4>1. FAILED_MARKET_THRESHOLD_BPS \in Nat
          BY VotingConstants
        <4> QED
          BY <3>3, <4>1, ShareBacked
      <3>5. status' = "Cancelled"
        BY <2>1 DEF V!CancelMarketVote
      <3> QED
        BY <1>2, <1>4, <3>1, <3>4, <3>5 DEF DecisionOK, V!DecisionBacked
    <2>2. CASE \E o \in V!VoteOutcomes : V!FinalizeDisputed(o)
      <3>1. PICK o \in V!VoteOutcomes : V!FinalizeDisputed(o)
        BY <2>2
      <3>2. PICK part \in Nat : part = V!WeightFor({o})
        BY VotersForFacts DEF VotingInv
      <3>3. total # 0 /\ (part * 10000) \div total >= MAJORITY_THRESHOLD_BPS
        BY <1>4, <3>1, <3>2 DEF V!FinalizeDisputed, V!HasMajority
      <3>4. part * 10000 >= MAJORITY_THRESHOLD_BPS * total
        BY <3>3, ShareBacked, VotingConstants
      <3>5. status' = "Resolved" /\ winning_outcome' = o
        BY <3>1 DEF V!FinalizeDisputed
      <3> QED
        BY <1>2, <1>4, <3>2, <3>4, <3>5 DEF DecisionOK, V!DecisionBacked
    <2> QED
      BY <2>1, <2>2
  <1> QED
    BY <1>2, <1>3, <1>5

(* resolve_market and cancel_market_admin end the vote.                    *)
LEMMA AdminKept ==
  ASSUME VotingInv, V!AdminDecides
  PROVE  VotesOK' /\ V!TallyMatchesVotes' /\ DecisionOK'
  <1>1. UNCHANGED <<vote, tally>> /\ status = "Disputed" /\ decided_by' = "admin"
    BY DEF V!AdminDecides, V!OnlyMarketChanges, V!voteVars
  <1>2. VotesOK' /\ \A O : V!WeightFor(O)' = V!WeightFor(O)
    BY <1>1, VotesUntouched DEF VotingInv
  <1>3. V!TallyMatchesVotes'
    BY <1>1, <1>2 DEF VotingInv, V!TallyMatchesVotes
  <1>4. DecisionOK'
    BY <1>1 DEF DecisionOK, V!DecisionBacked
  <1> QED
    BY <1>2, <1>3, <1>4

(* prune_market: no vote is left to count.                                 *)
LEMMA PruneKept ==
  ASSUME VotingInv, V!PruneMarket
  PROVE  VotesOK' /\ V!TallyMatchesVotes' /\ DecisionOK'
  <1>1. /\ vote' = [v \in Voters |-> V!NoVote] /\ status' = "Absent"
        /\ tally' = [o \in V!VoteOutcomes |-> IF o \in V!OptionOutcomes THEN 0 ELSE tally[o]]
    BY DEF V!PruneMarket
  <1>2. VotesOK'
    BY <1>1 DEF VotingInv, VotesOK, V!NoVote, V!None, None
  <1> QED
    BY <1>1, <1>2 DEF V!TallyMatchesVotes, DecisionOK, V!DecisionBacked

(* Every step of the voters keeps their invariant.                         *)
LEMMA VotingStepKept == ASSUME VotingInv, V!Next PROVE VotingInv'
  <1>1. LocksOK /\ gov_token \in Tokens
    BY DEF VotingInv, LocksOK
  <1>2. CASE \E v \in Voters, o \in V!VoteOutcomes, w \in Weights : V!CastVote(v, o, w)
    <2>1. PICK v \in Voters, o \in V!VoteOutcomes, w \in Weights : V!CastVote(v, o, w)
      BY <1>2
    <2>2. LocksOK'
      BY <1>1, <2>1, CastLocksKept
    <2> QED
      BY <2>1, <2>2, CastKept DEF VotingInv
  <1>3. CASE \E v \in Voters : V!UnlockTokens(v)
    <2>1. PICK v \in Voters : V!UnlockTokens(v)
      BY <1>3
    <2>2. UNCHANGED <<vote, tally, status, winning_outcome, decided_by>>
      BY <2>1 DEF V!UnlockTokens, V!marketVars, V!voteVars
    <2> QED
      BY <1>1, <2>1, <2>2, UnlockKept, RestUntouched DEF VotingInv
  <1>4. CASE V!CancelMarketVote \/ \E o \in V!VoteOutcomes : V!FinalizeDisputed(o)
    <2>1. UNCHANGED <<held, locked_balance, stranded, gov_token>>
      BY <1>4 DEF V!CancelMarketVote, V!FinalizeDisputed, V!OnlyMarketChanges, V!ledgerVars,
                  V!lockVars
    <2> QED
      BY <1>1, <1>4, <2>1, DecideKept, LocksUntouched DEF VotingInv
  <1>5. CASE V!AdminDecides
    <2>1. UNCHANGED <<held, locked_balance, stranded, gov_token>>
      BY <1>5 DEF V!AdminDecides, V!OnlyMarketChanges, V!ledgerVars, V!lockVars
    <2> QED
      BY <1>1, <1>5, <2>1, AdminKept, LocksUntouched DEF VotingInv
  <1>6. CASE V!PruneMarket
    BY <1>1, <1>6, PruneKept, PruneLocksKept DEF VotingInv
  <1>7. CASE \/ \E t \in Tokens : V!SetGovernanceToken(t)
             \/ \E t \in Tokens, from, to \in Voters : V!GiveTokens(t, from, to)
             \/ V!Tick
    <2>1. UNCHANGED <<held, locked_balance, stranded>> /\ gov_token' \in Tokens
      BY <1>1, <1>7 DEF V!SetGovernanceToken, V!GiveTokens, V!Tick, V!ledgerVars, V!lockVars
    <2>2. UNCHANGED <<vote, tally, status, winning_outcome, decided_by>>
      BY <1>7 DEF V!SetGovernanceToken, V!GiveTokens, V!Tick, V!marketVars, V!voteVars
    <2> QED
      BY <1>1, <2>1, <2>2, LocksUntouched, RestUntouched DEF VotingInv
  <1> QED
    BY <1>2, <1>3, <1>4, <1>5, <1>6, <1>7 DEF V!Next

(* The guardians' steps leave the votes and the balances alone.            *)
LEMMA VotingUntouched ==
  ASSUME VotingInv, UNCHANGED <<held, votingVars>> PROVE VotingInv'
  <1>1. /\ UNCHANGED <<held, locked_balance, stranded, gov_token>>
        /\ UNCHANGED <<vote, tally, status, winning_outcome, decided_by>>
    BY DEF votingVars
  <1>2. LocksOK /\ gov_token' \in Tokens
    BY <1>1 DEF VotingInv, LocksOK
  <1> QED
    BY <1>1, <1>2, LocksUntouched, RestUntouched DEF VotingInv

(* The invariant of the voters holds throughout.                           *)
LEMMA VotingInvHolds == ContractSpec => []VotingInv
  <1>1. ContractInit => VotingInv
    BY VotingInit DEF ContractInit
  <1>2. VotingInv /\ [GovernanceStep \/ VotingStep]_contractVars => VotingInv'
    <2> SUFFICES ASSUME VotingInv, [GovernanceStep \/ VotingStep]_contractVars PROVE VotingInv'
      OBVIOUS
    <2>1. CASE GovernanceStep
      <3>1. UNCHANGED votingVars /\ Next
        BY <2>1 DEF GovernanceStep
      <3>2. UNCHANGED held
        BY <3>1 DEF Next, Tick, RoleStep, GuardianStep, UpgradeStep, OtherStep, ledgerVars
      <3> QED
        BY <3>1, <3>2, VotingUntouched
    <2>2. CASE VotingStep
      BY <2>2, VotingStepKept DEF VotingStep
    <2>3. CASE UNCHANGED contractVars
      BY <2>3, VotingUntouched DEF contractVars, ledgerVars
    <2> QED
      BY <2>1, <2>2, <2>3
  <1> QED
    BY <1>1, <1>2, PTL DEF ContractSpec

(* cast_vote: the tallies cancel_market_vote reads are the votes           *)
(* finalize_resolution counts, through any revisions.                      *)
THEOREM TallyMatchesVotesHolds == ContractSpec => []TallyMatchesVotes
  <1>1. VotingInv => TallyMatchesVotes
    BY DEF VotingInv, TallyMatchesVotes
  <1> QED
    BY <1>1, VotingInvHolds, PTL

(* cast_vote, unlock_tokens, prune_market: what the contract holds is what *)
(* somebody's lock records or prune_market stranded.                       *)
THEOREM LockAccountingHolds == ContractSpec => []LockAccounting
  <1>1. VotingInv => LockAccounting
    BY DEF VotingInv, LocksOK, LockAccounting
  <1> QED
    BY <1>1, VotingInvHolds, PTL

(* cancel_market_vote and finalize_resolution: a market not decided by the *)
(* admin was decided by the share of the votes the thresholds ask for.     *)
THEOREM DecisionBackedHolds == ContractSpec => []DecisionBacked
  <1>1. VotingInv => DecisionBacked
    BY DEF VotingInv, DecisionOK, DecisionBacked
  <1> QED
    BY <1>1, VotingInvHolds, PTL
-----------------------------------------------------------------------------
(* The voters: what a vote weighs and what it costs *)

(* A weight and an amount of token t in a common unit: the finer of the    *)
(* token's own and the normal one.                                         *)
Cost(t, w) == IF Decimals[t] < NORMALIZED_DECIMALS THEN w ELSE w * V!Scale(t)
Worth(t, n) == IF Decimals[t] < NORMALIZED_DECIMALS THEN n * V!Scale(t) ELSE n

(* What all there is of a token weighs fits an i128: saturating_mul in     *)
(* cast_vote never cuts.                                                   *)
SupplyFits ==
  \A t \in Tokens :
    Decimals[t] < NORMALIZED_DECIMALS =>
      SumFunctionOnSet(Minted[t], Voters) * V!Scale(t) =< I128_MAX

(* The worth of amounts adds up, and grows with them.                      *)
LEMMA WorthFacts ==
  ASSUME NEW t \in Tokens, NEW a \in Int, NEW b \in Int
  PROVE  /\ Worth(t, a) \in Int /\ Cost(t, a) \in Int
         /\ Worth(t, a + b) = Worth(t, a) + Worth(t, b)
         /\ a =< b => Worth(t, a) =< Worth(t, b)
         /\ 0 =< a => 0 =< Worth(t, a) /\ 0 =< Cost(t, a)
  <1>1. PICK k \in Nat \ {0} : k = V!Scale(t)
    BY VotingConstants
  <1>2. a * k \in Int /\ b * k \in Int /\ (a + b) * k = a * k + b * k
    OBVIOUS
  <1>3. a =< b => a * k =< b * k
    <2>1. ASSUME a =< b PROVE a * k =< b * k
      <3>1. PICK d \in Nat : b = a + d
        <4>1. b - a \in Nat /\ b = a + (b - a)
          BY <2>1
        <4> QED
          BY <4>1
      <3>2. b * k = a * k + d * k /\ d * k \in Nat
        BY <3>1
      <3> QED
        BY <1>2, <3>2
    <2> QED
      BY <2>1
  <1>4. 0 =< a => 0 =< a * k
    OBVIOUS
  <1>5. CASE Decimals[t] < NORMALIZED_DECIMALS
    BY <1>1, <1>2, <1>3, <1>4, <1>5 DEF Worth, Cost
  <1>6. CASE ~(Decimals[t] < NORMALIZED_DECIMALS)
    BY <1>1, <1>2, <1>4, <1>6 DEF Worth, Cost
  <1> QED
    BY <1>5, <1>6

(* The smaller of two numbers.                                             *)
LEMMA MinOfTwo ==
  ASSUME NEW a \in Nat, NEW b \in Nat
  PROVE  V!Min({a, b}) \in {a, b} /\ V!Min({a, b}) =< a /\ V!Min({a, b}) =< b
  <1>1. \E x \in {a, b} : \A y \in {a, b} : x =< y
    OBVIOUS
  <1>2. V!Min({a, b}) \in {a, b} /\ \A y \in {a, b} : V!Min({a, b}) =< y
    BY <1>1 DEF V!Min
  <1> QED
    BY <1>2

(* A vote never weighs more than what it costs: normalising rounds down.   *)
LEMMA NormalizeBound ==
  ASSUME NEW t \in Tokens, NEW raw \in Nat
  PROVE  Cost(t, V!Normalize(t, raw)) =< Worth(t, raw)
  <1>1. PICK k \in Nat \ {0} : k = V!Scale(t)
    BY VotingConstants
  <1>2. CASE Decimals[t] < NORMALIZED_DECIMALS
    <2>1. PICK a \in Nat, b \in Nat : a = raw * k /\ b = I128_MAX
      BY VotingConstants
    <2>2. V!Normalize(t, raw) = V!Min({a, b})
      BY <1>1, <1>2, <2>1 DEF V!Normalize
    <2> QED
      BY <1>1, <1>2, <2>1, <2>2, MinOfTwo DEF Cost, Worth
  <1>3. CASE ~(Decimals[t] < NORMALIZED_DECIMALS)
    <2>1. V!Normalize(t, raw) = raw \div k
      BY <1>1, <1>3 DEF V!Normalize
    <2>2. (raw \div k) * k =< raw
      OBVIOUS
    <2> QED
      BY <1>1, <1>3, <2>1, <2>2 DEF Cost, Worth
  <1> QED
    BY <1>2, <1>3

(* What costs no more than an amount weighs no more than it.               *)
LEMMA CostBound ==
  ASSUME NEW t \in Tokens, NEW w \in Nat, NEW n \in Nat, Cost(t, w) =< Worth(t, n),
         Decimals[t] < NORMALIZED_DECIMALS => n * V!Scale(t) =< I128_MAX
  PROVE  w =< V!Normalize(t, n)
  <1>1. PICK k \in Nat \ {0} : k = V!Scale(t)
    BY VotingConstants
  <1>2. CASE Decimals[t] < NORMALIZED_DECIMALS
    <2>1. PICK a \in Nat, b \in Nat : a = n * k /\ b = I128_MAX
      BY VotingConstants
    <2>2. V!Normalize(t, n) = V!Min({a, b}) /\ a =< b /\ w =< a
      BY <1>1, <1>2, <2>1 DEF V!Normalize, Cost, Worth
    <2> QED
      BY <2>2, MinOfTwo
  <1>3. CASE ~(Decimals[t] < NORMALIZED_DECIMALS)
    <2>1. V!Normalize(t, n) = n \div k /\ w * k =< n
      BY <1>1, <1>3 DEF V!Normalize, Cost, Worth
    <2>2. PICK q \in Nat : q = n \div k /\ n < q * k + k
      BY <1>1
    <2>3. ASSUME q < w PROVE FALSE
      <3>1. PICK d \in Nat : w = q + 1 + d
        <4>1. w - q - 1 \in Nat /\ w = q + 1 + (w - q - 1)
          BY <2>3
        <4> QED
          BY <4>1
      <3>2. w * k = q * k + k + d * k /\ d * k \in Nat /\ q * k \in Nat
        BY <3>1
      <3> QED
        BY <2>1, <2>2, <3>2
    <2> QED
      BY <2>1, <2>2, <2>3
  <1> QED
    BY <1>2, <1>3
-----------------------------------------------------------------------------
(* The voters: the same tokens do not vote twice *)

(* What the votes weighed in token t have cost.                            *)
Spent(t) == [v \in Voters |-> IF vote[v] # V!NoVote /\ weighed_in[v] = t
                              THEN Cost(t, vote[v].weight) ELSE 0]

(* Tokens are with the voters or with the contract.                        *)
SupplyOK ==
  /\ weighed_in \in [Voters -> Tokens] /\ wallet \in [Tokens -> [Voters -> Nat]]
  /\ \A t \in Tokens :
       SumFunctionOnSet(wallet[t], Voters) + held[t] = SumFunctionOnSet(Minted[t], Voters)

(* A vote by snapshot costs no more than the voter had, the votes by lock  *)
(* no more than the contract holds while they can be cast, and no more     *)
(* than there is ever after.                                               *)
SpentOK ==
  /\ \A t \in SnapshotTokens : \A v \in Voters : Spent(t)[v] =< Worth(t, Minted[t][v])
  /\ \A t \in Tokens \ SnapshotTokens :
       /\ status = "Disputed" => SumFunctionOnSet(Spent(t), Voters) =< Worth(t, held[t])
       /\ SumFunctionOnSet(Spent(t), Voters) =< Worth(t, SumFunctionOnSet(Minted[t], Voters))

PurseInv == SupplyOK /\ SpentOK

(* What a voter spent is a natural number.                                 *)
LEMMA SpentType ==
  ASSUME VotesOK, NEW t \in Tokens
  PROVE  \A v \in Voters : Spent(t)[v] \in Nat
  <1> SUFFICES ASSUME NEW v \in Voters PROVE Spent(t)[v] \in Nat
    OBVIOUS
  <1>1. PICK w \in Nat : w = vote[v].weight
    BY DEF VotesOK
  <1>2. Cost(t, w) \in Int /\ 0 =< Cost(t, w)
    BY WorthFacts
  <1> QED
    BY <1>1, <1>2 DEF Spent

(* No more is spent than there is.                                         *)
LEMMA SpentWithinSupply ==
  ASSUME VotesOK, SpentOK, NEW t \in Tokens
  PROVE  SumFunctionOnSet(Spent(t), Voters) =< Worth(t, SumFunctionOnSet(Minted[t], Voters))
  <1>1. CASE t \notin SnapshotTokens
    BY <1>1 DEF SpentOK
  <1>2. CASE t \in SnapshotTokens
    <2>1. PICK m \in [Voters -> Nat] : m = Minted[t]
      BY VotingConstants
    <2> DEFINE g == [v \in Voters |-> Worth(t, m[v])]
    <2>2. \A v \in Voters : g[v] \in Int
      BY WorthFacts
    <2>3. \A v \in Voters : Spent(t)[v] \in Int /\ g[v] \in Int /\ Spent(t)[v] =< g[v]
      BY <1>2, <2>1, <2>2, SpentType DEF SpentOK
    <2>4. SumFunctionOnSet(g, Voters) = Worth(t, SumFunctionOnSet(m, Voters))
      <3>1. PICK k \in Nat \ {0} : k = V!Scale(t)
        BY VotingConstants
      <3>2. IsFiniteSet(Voters) /\ \A v \in Voters : m[v] \in Int
        BY VotingConstants
      <3>3. CASE Decimals[t] < NORMALIZED_DECIMALS
        <4>1. \A v \in Voters : m[v] \in Int /\ g[v] \in Int /\ g[v] = m[v] * k
          BY <2>2, <3>1, <3>2, <3>3 DEF Worth
        <4> HIDE DEF g
        <4>2. SumFunctionOnSet(g, Voters) = SumFunctionOnSet(m, Voters) * k
          BY <3>1, <3>2, <4>1, SumScaled
        <4> QED
          BY <3>1, <3>3, <4>2 DEF Worth
      <3>4. CASE ~(Decimals[t] < NORMALIZED_DECIMALS)
        <4>1. \A v \in Voters : m[v] = g[v]
          BY <3>4 DEF Worth
        <4> HIDE DEF g
        <4>2. SumFunctionOnSet(m, Voters) = SumFunctionOnSet(g, Voters)
          BY <3>2, <4>1, SumAgrees
        <4> QED
          BY <3>4, <4>2 DEF Worth
      <3> QED
        BY <3>3, <3>4
    <2> HIDE DEF g
    <2>5. SumFunctionOnSet(Spent(t), Voters) =< SumFunctionOnSet(g, Voters)
      BY <2>3, SumMonotone, VotingConstants
    <2> QED
      BY <2>1, <2>4, <2>5
  <1> QED
    BY <1>1, <1>2

(* It is what the run checks.                                              *)
LEMMA PurseImplies ==
  ASSUME SupplyFits, VotesOK, SpentOK
  PROVE  V!NoDoubleVote
  <1> SUFFICES ASSUME NEW t \in Tokens
               PROVE  V!SumFunctionOnSet(V!VoteWeights, {v \in V!CastBy : weighed_in[v] = t}) =<
                        V!Normalize(t, V!SumFunction(Minted[t]))
    BY DEF V!NoDoubleVote
  <1>1. PICK m \in [Voters -> Nat] : m = Minted[t]
    BY VotingConstants
  <1>2. PICK n \in Nat : n = SumFunctionOnSet(m, Voters)
    BY SumNat, VotingConstants
  <1>3. V!SumFunction(m) = n
    <2>1. DOMAIN m = Voters
      OBVIOUS
    <2> QED
      BY <1>2, <2>1, VotingSums
  <1>4. PICK A : A = {v \in V!CastBy : weighed_in[v] = t}
    OBVIOUS
  <1>5. A \subseteq Voters /\ \A v \in Voters : v \in A <=> (vote[v] # V!NoVote /\ weighed_in[v] = t)
    BY <1>4 DEF V!CastBy
  <1>6. IsFiniteSet(A) /\ IsFiniteSet(Voters) /\ IsFiniteSet(Voters \ A)
    BY <1>5, FS_Subset, VotingConstants
  <1>7. PICK f : f = V!VoteWeights
    OBVIOUS
  <1>8. \A v \in A : f[v] \in Nat /\ f[v] = vote[v].weight
    BY <1>5, <1>7 DEF V!VoteWeights, VotesOK
  <1>9. PICK w \in Nat : w = SumFunctionOnSet(f, A)
    BY <1>6, <1>8, SumNat
  <1>10. PICK g : g = Spent(t)
    OBVIOUS
  <1>11. \A v \in Voters : g[v] \in Nat
    BY <1>10, SpentType
  <1>12. SumFunctionOnSet(g, Voters) = SumFunctionOnSet(g, A)
    <2>1. SumFunctionOnSet(g, Voters) = SumFunctionOnSet(g, A) + SumFunctionOnSet(g, Voters \ A)
      <3>1. \A v \in Voters : g[v] \in Int
        BY <1>11
      <3> QED
        BY <1>5, <1>6, <3>1, SumSplit
    <2>2. SumFunctionOnSet(g, Voters \ A) = 0
      <3>1. \A v \in Voters \ A : g[v] = 0
        BY <1>5, <1>10 DEF Spent
      <3> QED
        BY <1>6, <3>1, SumZero
    <2>3. SumFunctionOnSet(g, A) \in Nat
      <3>1. \A v \in A : g[v] \in Nat
        BY <1>5, <1>11
      <3> QED
        BY <1>6, <3>1, SumNat
    <2> QED
      BY <2>1, <2>2, <2>3
  <1>13. SumFunctionOnSet(g, A) = Cost(t, w)
    <2>1. PICK k \in Nat \ {0} : k = V!Scale(t)
      BY VotingConstants
    <2>2. \A v \in A : g[v] = Cost(t, f[v])
      BY <1>5, <1>8, <1>10 DEF Spent
    <2>3. CASE Decimals[t] < NORMALIZED_DECIMALS
      <3>1. \A v \in A : g[v] = f[v]
        BY <2>2, <2>3 DEF Cost
      <3>2. SumFunctionOnSet(g, A) = SumFunctionOnSet(f, A)
        BY <1>6, <3>1, SumAgrees
      <3> QED
        BY <1>9, <2>3, <3>2 DEF Cost
    <2>4. CASE ~(Decimals[t] < NORMALIZED_DECIMALS)
      <3>1. \A v \in A : f[v] \in Int /\ g[v] \in Int /\ g[v] = f[v] * k
        BY <1>5, <1>8, <1>11, <2>1, <2>2, <2>4 DEF Cost
      <3>2. SumFunctionOnSet(g, A) = SumFunctionOnSet(f, A) * k
        BY <1>6, <2>1, <3>1, SumScaled
      <3> QED
        BY <1>9, <2>1, <2>4, <3>2 DEF Cost
    <2> QED
      BY <2>3, <2>4
  <1>14. Cost(t, w) =< Worth(t, n)
    BY <1>1, <1>2, <1>10, <1>12, <1>13, SpentWithinSupply
  <1>15. Decimals[t] < NORMALIZED_DECIMALS => n * V!Scale(t) =< I128_MAX
    BY <1>1, <1>2 DEF SupplyFits
  <1>16. w =< V!Normalize(t, n)
    BY <1>14, <1>15, CostBound
  <1> QED
    BY <1>1, <1>3, <1>4, <1>7, <1>9, <1>16, VotingSums

(* An amount moves into or out of one wallet.                              *)
LEMMA WalletSum ==
  ASSUME NEW f \in [Voters -> Nat], NEW v \in Voters, NEW n \in Nat
  PROVE  /\ SumFunctionOnSet(f, Voters) \in Nat
         /\ SumFunctionOnSet([f EXCEPT ![v] = n], Voters) = SumFunctionOnSet(f, Voters) + (n - f[v])
  <1>1. PICK g \in [Voters -> Nat] : g = [f EXCEPT ![v] = n]
    OBVIOUS
  <1>2. /\ \A u \in Voters : f[u] \in Int /\ g[u] \in Int
        /\ \A u \in Voters \ {v} : g[u] = f[u]
        /\ g[v] = n /\ IsFiniteSet(Voters)
    BY <1>1, VotingConstants
  <1>3. SumFunctionOnSet(g, Voters) = SumFunctionOnSet(f, Voters) + (g[v] - f[v])
    BY <1>2, SumChange
  <1>4. SumFunctionOnSet(f, Voters) \in Nat
    BY SumNat, VotingConstants
  <1> QED
    BY <1>1, <1>2, <1>3, <1>4

(* A transfer between a voter and the contract keeps the supply.           *)
LEMMA TransferSupply ==
  ASSUME SupplyOK, held \in [Tokens -> Int], NEW t \in Tokens, NEW v \in Voters, NEW n \in Nat,
         weighed_in' \in [Voters -> Tokens],
         wallet' = [wallet EXCEPT ![t][v] = n],
         held' = [held EXCEPT ![t] = @ - (n - wallet[t][v])]
  PROVE  SupplyOK'
  <1>1. wallet \in [Tokens -> [Voters -> Nat]] /\ wallet[t] \in [Voters -> Nat]
    BY DEF SupplyOK
  <1>2. PICK f, g \in [Voters -> Nat] : f = wallet[t] /\ g = [f EXCEPT ![v] = n]
    BY <1>1
  <1>3. g \in [Voters -> Nat]
    OBVIOUS
  <1>4. wallet' = [wallet EXCEPT ![t] = g]
    BY <1>1, <1>2
  <1>5. wallet' \in [Tokens -> [Voters -> Nat]] /\ wallet'[t] = g
    BY <1>1, <1>3, <1>4
  <1>6. /\ SumFunctionOnSet(f, Voters) \in Nat
        /\ SumFunctionOnSet(g, Voters) = SumFunctionOnSet(f, Voters) + (n - f[v])
    BY <1>2, WalletSum
  <1>7. PICK d \in Int : d = n - f[v]
    BY <1>2
  <1>8. held'[t] = held[t] - d /\ held[t] \in Int
    BY <1>2, <1>7
  <1>9. ASSUME NEW u \in Tokens
        PROVE  SumFunctionOnSet(wallet'[u], Voters) + held'[u] = SumFunctionOnSet(Minted[u], Voters)
    <2>1. CASE u = t
      <3>1. SumFunctionOnSet(f, Voters) + held[t] = SumFunctionOnSet(Minted[t], Voters)
        BY <1>2 DEF SupplyOK
      <3>2. PICK a \in Nat, x \in Int : a = SumFunctionOnSet(f, Voters) /\ x = held[t]
        BY <1>6, <1>8
      <3>3. SumFunctionOnSet(g, Voters) = a + d /\ held'[t] = x - d
        BY <1>6, <1>7, <1>8, <3>2
      <3>4. SumFunctionOnSet(g, Voters) + held'[t] = SumFunctionOnSet(Minted[t], Voters)
        BY <3>1, <3>2, <3>3
      <3> QED
        BY <1>5, <2>1, <3>4
    <2>2. CASE u # t
      <3>1. wallet'[u] = wallet[u] /\ held'[u] = held[u]
        BY <1>1, <1>4, <2>2
      <3> QED
        BY <3>1 DEF SupplyOK
    <2> QED
      BY <2>1, <2>2
  <1> QED
    BY <1>5, <1>9 DEF SupplyOK

(* The contract never holds more than there is.                            *)
LEMMA HeldWithinSupplyNext ==
  ASSUME SupplyOK', held' \in [Tokens -> Int], NEW t \in Tokens
  PROVE  /\ held'[t] \in Int /\ SumFunctionOnSet(Minted[t], Voters) \in Int
         /\ held'[t] =< SumFunctionOnSet(Minted[t], Voters)
  <1>1. PICK f \in [Voters -> Nat], m \in [Voters -> Nat] : f = wallet'[t] /\ m = Minted[t]
    BY VotingConstants DEF SupplyOK
  <1>2. SumFunctionOnSet(f, Voters) \in Nat /\ SumFunctionOnSet(m, Voters) \in Nat
    BY SumNat, VotingConstants
  <1>3. SumFunctionOnSet(f, Voters) + held'[t] = SumFunctionOnSet(m, Voters) /\ held'[t] \in Int
    BY <1>1 DEF SupplyOK
  <1> QED
    BY <1>1, <1>2, <1>3

(* cast_vote: the supply.                                                  *)
LEMMA CastSupply ==
  ASSUME VotingInv, PurseInv, NEW v \in Voters, NEW o \in V!VoteOutcomes, NEW weight \in Weights,
         V!CastVote(v, o, weight)
  PROVE  /\ SupplyOK' /\ gov_token \in Tokens /\ held' \in [Tokens -> Int]
         /\ gov_token \notin SnapshotTokens =>
              held' = [held EXCEPT ![gov_token] = @ + weight]
         /\ gov_token \in SnapshotTokens => held' = held
  <1>1. /\ gov_token \in Tokens /\ held \in [Tokens -> Int] /\ SupplyOK /\ weight \in Nat
        /\ wallet \in [Tokens -> [Voters -> Nat]]
    BY VotingConstants DEF VotingInv, LocksOK, PurseInv, SupplyOK
  <1>2. weighed_in' = [weighed_in EXCEPT ![v] = gov_token] /\ weighed_in' \in [Voters -> Tokens]
    BY <1>1 DEF V!CastVote, SupplyOK
  <1>3. CASE V!WeighBySnapshot(v)
    <2>1. gov_token \in SnapshotTokens /\ UNCHANGED <<held, wallet>>
      BY <1>3 DEF V!WeighBySnapshot, V!ledgerVars
    <2> QED
      BY <1>1, <1>2, <2>1 DEF SupplyOK
  <1>4. CASE V!WeighByLock(v, weight)
    <2>1. /\ gov_token \notin SnapshotTokens /\ wallet[gov_token][v] >= weight
          /\ wallet' = [wallet EXCEPT ![gov_token][v] = @ - weight]
          /\ held' = [held EXCEPT ![gov_token] = @ + weight]
      BY <1>4 DEF V!WeighByLock, V!Receive
    <2>2. PICK a \in Nat, n \in Nat : a = wallet[gov_token][v] /\ n = a - weight
      BY <1>1, <2>1
    <2>3. wallet' = [wallet EXCEPT ![gov_token][v] = n]
      BY <1>1, <2>1, <2>2
    <2>4. held[gov_token] \in Int /\ held[gov_token] - (n - a) = held[gov_token] + weight
      BY <1>1, <2>2
    <2>5. held' = [held EXCEPT ![gov_token] = @ - (n - wallet[gov_token][v])]
      BY <2>1, <2>2, <2>4
    <2>6. held' \in [Tokens -> Int]
      BY <1>1, <2>1, <2>4
    <2>7. SupplyOK'
      BY <1>1, <1>2, <2>3, <2>5, TransferSupply
    <2> QED
      BY <1>1, <2>1, <2>6, <2>7
  <1> QED
    BY <1>3, <1>4 DEF V!CastVote

(* What the votes have cost changes at most at one voter.                  *)
LEMMA CastSpent ==
  ASSUME VotingInv, PurseInv, NEW v \in Voters, NEW o \in V!VoteOutcomes, NEW weight \in Weights,
         V!CastVote(v, o, weight)
  PROVE  /\ \A t \in Tokens : \A u \in Voters \ {v} : Spent(t)'[u] = Spent(t)[u]
         /\ \A t \in Tokens \ {gov_token} : Spent(t)'[v] = 0
         /\ gov_token \in SnapshotTokens =>
              Spent(gov_token)'[v] =< Worth(gov_token, Minted[gov_token][v])
         /\ gov_token \notin SnapshotTokens => Spent(gov_token)'[v] =< Worth(gov_token, weight)
  <1>1. /\ gov_token \in Tokens /\ UNCHANGED gov_token /\ weighed_in \in [Voters -> Tokens]
        /\ vote \in [Voters -> [outcome : V!VoteOutcomes \cup {None}, weight : Nat]]
    BY DEF VotingInv, LocksOK, VotesOK, PurseInv, SupplyOK, V!CastVote
  <1>2. PICK raw \in Nat : raw = IF gov_token \in SnapshotTokens THEN Minted[gov_token][v] ELSE weight
    BY <1>1, VotingConstants
  <1>3. PICK w \in Nat : w = V!Normalize(gov_token, raw)
    BY <1>1, NormalizeType
  <1>4. /\ vote' = [vote EXCEPT ![v] = [outcome |-> o, weight |-> w]]
        /\ weighed_in' = [weighed_in EXCEPT ![v] = gov_token]
    BY <1>2, <1>3 DEF V!CastVote
  <1>5. /\ vote'[v].weight = w /\ weighed_in'[v] = gov_token
        /\ \A u \in Voters \ {v} : vote'[u] = vote[u] /\ weighed_in'[u] = weighed_in[u]
    BY <1>1, <1>4
  <1>6. \A t \in Tokens : \A u \in Voters \ {v} : Spent(t)'[u] = Spent(t)[u]
    BY <1>5 DEF Spent
  <1>7. \A t \in Tokens \ {gov_token} : Spent(t)'[v] = 0
    BY <1>5 DEF Spent
  <1>8. PICK g \in Tokens : g = gov_token /\ g = gov_token'
    BY <1>1
  <1>9. Cost(g, w) =< Worth(g, raw) /\ 0 =< Worth(g, raw)
    BY <1>3, <1>8, NormalizeBound, WorthFacts
  <1>10. Spent(g)'[v] =< Worth(g, raw)
    BY <1>5, <1>9 DEF Spent
  <1>11. Spent(gov_token)' = Spent(g)'
    BY <1>8 DEF Spent
  <1> QED
    BY <1>2, <1>6, <1>7, <1>8, <1>10, <1>11

(* cast_vote keeps the purse.                                              *)
LEMMA CastPurse ==
  ASSUME VotingInv, PurseInv, NEW v \in Voters, NEW o \in V!VoteOutcomes, NEW weight \in Weights,
         V!CastVote(v, o, weight)
  PROVE  PurseInv'
  <1>1. /\ SupplyOK' /\ gov_token \in Tokens /\ held' \in [Tokens -> Int]
        /\ gov_token \notin SnapshotTokens => held' = [held EXCEPT ![gov_token] = @ + weight]
        /\ gov_token \in SnapshotTokens => held' = held
    BY CastSupply
  <1>2. /\ held \in [Tokens -> Int] /\ VotesOK /\ VotesOK' /\ SupplyOK /\ SpentOK
        /\ status = "Disputed" /\ weight \in Nat
    BY CastKept, VotingConstants DEF VotingInv, LocksOK, PurseInv, V!CastVote
  <1>3. ASSUME NEW t \in SnapshotTokens, NEW u \in Voters
        PROVE  Spent(t)'[u] =< Worth(t, Minted[t][u])
    <2>0. t \in Tokens
      BY VotingConstants
    <2>1. PICK n \in Nat : n = Minted[t][u]
      BY <2>0, VotingConstants
    <2>2. 0 =< Worth(t, n)
      BY <2>0, WorthFacts
    <2>3. CASE u # v
      BY <1>2, <2>0, <2>3, CastSpent DEF SpentOK
    <2>4. CASE u = v /\ t # gov_token
      BY <2>0, <2>1, <2>2, <2>4, CastSpent
    <2>5. CASE u = v /\ t = gov_token
      <3>1. Spent(gov_token)'[v] = Spent(t)'[v]
        BY <2>5 DEF Spent, V!CastVote
      <3> QED
        BY <2>5, <3>1, CastSpent
    <2> QED
      BY <2>3, <2>4, <2>5
  <1>4. ASSUME NEW t \in Tokens \ SnapshotTokens
        PROVE  SumFunctionOnSet(Spent(t)', Voters) =< Worth(t, held'[t])
    <2>1. PICK f, g : f = Spent(t) /\ g = Spent(t)'
      OBVIOUS
    <2>2. \A u \in Voters : f[u] \in Nat
      BY <1>2, <2>1, SpentType
    <2>3. \A u \in Voters : g[u] \in Nat
      <3> SUFFICES ASSUME NEW u \in Voters PROVE g[u] \in Nat
        OBVIOUS
      <3>1. PICK w \in Nat : w = vote'[u].weight
        BY <1>2 DEF VotesOK
      <3>2. Cost(t, w) \in Int /\ 0 =< Cost(t, w)
        BY WorthFacts
      <3> QED
        BY <2>1, <3>1, <3>2 DEF Spent
    <2>4. \A u \in Voters \ {v} : g[u] = f[u]
      BY <2>1, CastSpent
    <2>5. SumFunctionOnSet(g, Voters) = SumFunctionOnSet(f, Voters) + (g[v] - f[v])
      <3>1. \A u \in Voters : f[u] \in Int /\ g[u] \in Int
        BY <2>2, <2>3
      <3> QED
        BY <2>4, <3>1, SumChange, VotingConstants
    <2>6. SumFunctionOnSet(f, Voters) \in Nat /\ f[v] \in Nat /\ g[v] \in Nat
      BY <2>2, <2>3, SumNat, VotingConstants
    <2>7. SumFunctionOnSet(f, Voters) =< Worth(t, held[t])
      BY <1>2, <2>1 DEF SpentOK
    <2>8. PICK h \in Int : h = held[t]
      BY <1>2
    <2>9. CASE t # gov_token
      <3>1. g[v] = 0 /\ held'[t] = held[t]
        BY <1>1, <1>2, <2>1, <2>9, CastSpent
      <3>2. Worth(t, h) \in Int
        BY WorthFacts
      <3> QED
        BY <2>1, <2>5, <2>6, <2>7, <2>8, <3>1, <3>2
    <2>10. CASE t = gov_token
      <3>1. held'[t] = h + weight
        BY <1>1, <1>2, <2>8, <2>10
      <3>2. Spent(gov_token)'[v] = g[v]
        BY <2>1, <2>10 DEF Spent, V!CastVote
      <3>3. g[v] =< Worth(t, weight)
        BY <2>10, <3>2, CastSpent
      <3>4. /\ Worth(t, h + weight) = Worth(t, h) + Worth(t, weight)
            /\ Worth(t, h) \in Int /\ Worth(t, weight) \in Int
        BY <1>2, WorthFacts
      <3>5. SumFunctionOnSet(g, Voters) =< Worth(t, h) + Worth(t, weight)
        BY <2>5, <2>6, <2>7, <2>8, <3>3, <3>4
      <3> QED
        BY <2>1, <3>1, <3>4, <3>5
    <2> QED
      BY <2>9, <2>10
  <1>5. ASSUME NEW t \in Tokens \ SnapshotTokens
        PROVE  SumFunctionOnSet(Spent(t)', Voters) =< Worth(t, SumFunctionOnSet(Minted[t], Voters))
    <2>1. PICK h \in Int, n \in Int : h = held'[t] /\ n = SumFunctionOnSet(Minted[t], Voters) /\ h =< n
      BY <1>1, HeldWithinSupplyNext
    <2>2. Worth(t, h) =< Worth(t, n) /\ Worth(t, h) \in Int /\ Worth(t, n) \in Int
      BY <2>1, WorthFacts
    <2>3. PICK f : f = Spent(t)'
      OBVIOUS
    <2>4. SumFunctionOnSet(f, Voters) \in Int
      <3>1. \A u \in Voters : f[u] \in Int
        <4> SUFFICES ASSUME NEW u \in Voters PROVE f[u] \in Int
          OBVIOUS
        <4>1. PICK w \in Nat : w = vote'[u].weight
          BY <1>2 DEF VotesOK
        <4>2. Cost(t, w) \in Int
          BY WorthFacts
        <4> QED
          BY <2>3, <4>1, <4>2 DEF Spent
      <3> QED
        BY <3>1, SumType, VotingConstants
    <2>5. SumFunctionOnSet(f, Voters) =< Worth(t, h)
      BY <1>4, <2>1, <2>3
    <2> QED
      BY <2>1, <2>2, <2>3, <2>4, <2>5
  <1> QED
    BY <1>1, <1>3, <1>4, <1>5 DEF PurseInv, SpentOK

(* The purse when the vote starts: every token is in a wallet.             *)
LEMMA PurseInit == ASSUME V!Init PROVE PurseInv
  <1>1. /\ held = [t \in Tokens |-> 0] /\ gov_token \in Tokens /\ wallet = Minted
        /\ vote = [v \in Voters |-> V!NoVote] /\ weighed_in = [v \in Voters |-> gov_token]
    BY DEF V!Init, V!LedgerInit
  <1>2. ASSUME NEW t \in Tokens
        PROVE  SumFunctionOnSet(Minted[t], Voters) \in Nat
    <2>1. PICK m \in [Voters -> Nat] : m = Minted[t]
      BY VotingConstants
    <2> QED
      BY <2>1, SumNat, VotingConstants
  <1>3. SupplyOK
    <2>1. wallet \in [Tokens -> [Voters -> Nat]] /\ weighed_in \in [Voters -> Tokens]
      BY <1>1, VotingConstants
    <2>2. \A t \in Tokens :
            SumFunctionOnSet(wallet[t], Voters) + held[t] = SumFunctionOnSet(Minted[t], Voters)
      <3> SUFFICES ASSUME NEW t \in Tokens
                   PROVE  SumFunctionOnSet(wallet[t], Voters) + held[t] =
                            SumFunctionOnSet(Minted[t], Voters)
        OBVIOUS
      <3>1. wallet[t] = Minted[t] /\ held[t] = 0
        BY <1>1
      <3>2. PICK n \in Nat : n = SumFunctionOnSet(Minted[t], Voters)
        BY <1>2
      <3> QED
        BY <3>1, <3>2
    <2> QED
      BY <2>1, <2>2 DEF SupplyOK
  <1>4. \A t \in Tokens : \A v \in Voters : Spent(t)[v] = 0
    BY <1>1 DEF Spent
  <1>5. ASSUME NEW t \in Tokens PROVE SumFunctionOnSet(Spent(t), Voters) = 0
    BY <1>4, SumZero, VotingConstants
  <1>6. ASSUME NEW t \in SnapshotTokens, NEW v \in Voters
        PROVE  Spent(t)[v] =< Worth(t, Minted[t][v])
    <2>1. PICK n \in Nat : n = Minted[t][v] /\ t \in Tokens
      BY VotingConstants
    <2>2. 0 =< Worth(t, n)
      BY <2>1, WorthFacts
    <2> QED
      BY <1>4, <2>1, <2>2
  <1>7. ASSUME NEW t \in Tokens \ SnapshotTokens
        PROVE  /\ SumFunctionOnSet(Spent(t), Voters) =< Worth(t, held[t])
               /\ SumFunctionOnSet(Spent(t), Voters) =< Worth(t, SumFunctionOnSet(Minted[t], Voters))
    <2>1. PICK n \in Nat : n = SumFunctionOnSet(Minted[t], Voters)
      BY <1>2
    <2>2. 0 =< Worth(t, n) /\ 0 =< Worth(t, 0)
      BY WorthFacts
    <2> QED
      BY <1>1, <1>5, <2>1, <2>2
  <1> QED
    BY <1>3, <1>6, <1>7 DEF PurseInv, SpentOK

(* Votes that stay as they are cost what they did, and the bound on them   *)
(* holds on if the contract pays nothing out before the vote has ended.    *)
LEMMA SpentKept ==
  ASSUME SpentOK, UNCHANGED <<vote, weighed_in>>,
         status' = "Disputed" => status = "Disputed" /\ held' = held
  PROVE  SpentOK'
  <1>1. \A t : Spent(t)' = Spent(t)
    BY DEF Spent
  <1>2. \A t \in SnapshotTokens : \A v \in Voters : Spent(t)'[v] =< Worth(t, Minted[t][v])
    BY <1>1 DEF SpentOK
  <1>3. ASSUME NEW t \in Tokens \ SnapshotTokens
        PROVE  /\ status' = "Disputed" => SumFunctionOnSet(Spent(t)', Voters) =< Worth(t, held'[t])
               /\ SumFunctionOnSet(Spent(t)', Voters) =< Worth(t, SumFunctionOnSet(Minted[t], Voters))
    BY <1>1 DEF SpentOK
  <1> QED
    BY <1>2, <1>3 DEF SpentOK

(* unlock_tokens pays only once the vote has ended.                        *)
LEMMA UnlockPurse ==
  ASSUME VotingInv, PurseInv, NEW v \in Voters, V!UnlockTokens(v)
  PROVE  PurseInv'
  <1>1. /\ gov_token \in Tokens /\ held \in [Tokens -> Int] /\ SupplyOK /\ SpentOK
        /\ wallet \in [Tokens -> [Voters -> Nat]] /\ weighed_in \in [Voters -> Tokens]
        /\ locked_balance \in [Voters -> Int]
    BY DEF VotingInv, LocksOK, PurseInv, SupplyOK
  <1>2. /\ status # "Disputed" /\ UNCHANGED <<status, vote, weighed_in>> /\ locked_balance[v] > 0
        /\ held' = [held EXCEPT ![gov_token] = @ - locked_balance[v]]
        /\ wallet' = [wallet EXCEPT ![gov_token][v] = @ + locked_balance[v]]
    BY DEF V!UnlockTokens, V!Pay, V!marketVars, V!voteVars
  <1>3. PICK a \in Nat, b \in Nat : a = wallet[gov_token][v] /\ b = locked_balance[v]
    BY <1>1, <1>2
  <1>4. PICK n \in Nat : n = a + b /\ b = n - a
    BY <1>3
  <1>5. wallet' = [wallet EXCEPT ![gov_token][v] = n]
    BY <1>1, <1>2, <1>3, <1>4
  <1>6. held' = [held EXCEPT ![gov_token] = @ - (n - wallet[gov_token][v])]
    BY <1>2, <1>3, <1>4
  <1>7. weighed_in' \in [Voters -> Tokens]
    BY <1>1, <1>2
  <1>8. SupplyOK'
    BY <1>1, <1>5, <1>6, <1>7, TransferSupply
  <1> QED
    BY <1>1, <1>2, <1>8, SpentKept DEF PurseInv

(* Tokens that change hands stay in the wallets.                           *)
LEMMA GivePurse ==
  ASSUME PurseInv, NEW t \in Tokens, NEW from \in Voters, NEW to \in Voters,
         V!GiveTokens(t, from, to)
  PROVE  PurseInv'
  <1>1. /\ SupplyOK /\ SpentOK
        /\ wallet \in [Tokens -> [Voters -> Nat]] /\ weighed_in \in [Voters -> Tokens]
    BY DEF PurseInv, SupplyOK
  <1>2. /\ UNCHANGED <<held, status, vote, weighed_in>> /\ from # to
        /\ wallet' = [wallet EXCEPT ![t][from] = 0, ![t][to] = @ + wallet[t][from]]
    BY DEF V!GiveTokens, V!ledgerVars, V!marketVars, V!voteVars
  <1>3. PICK f \in [Voters -> Nat] : f = wallet[t]
    BY <1>1
  <1>4. PICK n \in Nat : n = f[to] + f[from]
    BY <1>3
  <1>5. PICK g \in [Voters -> Nat] : g = [f EXCEPT ![from] = 0]
    OBVIOUS
  <1>6. PICK h \in [Voters -> Nat] : h = [g EXCEPT ![to] = n]
    OBVIOUS
  <1>7. wallet' = [wallet EXCEPT ![t] = h]
    BY <1>1, <1>2, <1>3, <1>4, <1>5, <1>6
  <1>8. SumFunctionOnSet(h, Voters) = SumFunctionOnSet(f, Voters)
    <2>1. /\ SumFunctionOnSet(f, Voters) \in Nat
          /\ SumFunctionOnSet(g, Voters) = SumFunctionOnSet(f, Voters) + (0 - f[from])
      BY <1>5, WalletSum
    <2>2. SumFunctionOnSet(h, Voters) = SumFunctionOnSet(g, Voters) + (n - g[to])
      BY <1>6, WalletSum
    <2>3. g[to] = f[to] /\ f[to] \in Nat /\ f[from] \in Nat
      BY <1>2, <1>5
    <2> QED
      BY <1>4, <2>1, <2>2, <2>3
  <1>9. SupplyOK'
    <2>1. wallet' \in [Tokens -> [Voters -> Nat]]
      BY <1>1, <1>7
    <2>2. ASSUME NEW u \in Tokens
          PROVE  SumFunctionOnSet(wallet'[u], Voters) + held'[u] = SumFunctionOnSet(Minted[u], Voters)
      <3>1. SumFunctionOnSet(wallet[u], Voters) + held[u] = SumFunctionOnSet(Minted[u], Voters)
        BY <1>1 DEF SupplyOK
      <3>2. CASE u = t
        <4>1. wallet'[u] = h /\ wallet[u] = f
          BY <1>1, <1>3, <1>7, <3>2
        <4> QED
          BY <1>2, <1>8, <3>1, <4>1
      <3>3. CASE u # t
        <4>1. wallet'[u] = wallet[u]
          BY <1>1, <1>7, <3>3
        <4> QED
          BY <1>2, <3>1, <4>1
      <3> QED
        BY <3>2, <3>3
    <2> QED
      BY <1>1, <1>2, <2>1, <2>2 DEF SupplyOK
  <1> QED
    BY <1>1, <1>2, <1>9, SpentKept DEF PurseInv

(* prune_market drops the votes: nothing is spent.                         *)
LEMMA PrunePurse ==
  ASSUME VotingInv, PurseInv, V!PruneMarket
  PROVE  PurseInv'
  <1>1. /\ UNCHANGED <<held, wallet, weighed_in>> /\ status' = "Absent"
        /\ vote' = [v \in Voters |-> V!NoVote]
    BY DEF V!PruneMarket, V!ledgerVars
  <1>2. SupplyOK'
    BY <1>1 DEF PurseInv, SupplyOK
  <1>3. \A t \in Tokens : \A v \in Voters : Spent(t)'[v] = 0
    BY <1>1 DEF Spent
  <1>4. ASSUME NEW t \in SnapshotTokens, NEW v \in Voters
        PROVE  Spent(t)'[v] =< Worth(t, Minted[t][v])
    <2>1. PICK n \in Nat : n = Minted[t][v] /\ t \in Tokens
      BY VotingConstants
    <2>2. 0 =< Worth(t, n)
      BY <2>1, WorthFacts
    <2> QED
      BY <1>3, <2>1, <2>2
  <1>5. ASSUME NEW t \in Tokens \ SnapshotTokens
        PROVE  SumFunctionOnSet(Spent(t)', Voters) =< Worth(t, SumFunctionOnSet(Minted[t], Voters))
    <2>1. PICK m \in [Voters -> Nat], n \in Nat : m = Minted[t] /\ n = SumFunctionOnSet(m, Voters)
      <3>1. PICK m \in [Voters -> Nat] : m = Minted[t]
        BY VotingConstants
      <3>2. SumFunctionOnSet(m, Voters) \in Nat
        BY SumNat, VotingConstants
      <3> QED
        BY <3>1, <3>2
    <2>2. 0 =< Worth(t, n)
      BY WorthFacts
    <2>3. PICK f : f = Spent(t)'
      OBVIOUS
    <2>4. SumFunctionOnSet(f, Voters) = 0
      BY <1>3, <2>3, SumZero, VotingConstants
    <2> QED
      BY <2>1, <2>2, <2>3, <2>4
  <1> QED
    BY <1>1, <1>2, <1>4, <1>5 DEF PurseInv, SpentOK

(* A step that moves no token and changes no vote.                         *)
LEMMA PurseUntouched ==
  ASSUME PurseInv, UNCHANGED <<held, wallet, vote, weighed_in>>,
         status' = "Disputed" => status = "Disputed"
  PROVE  PurseInv'
  <1>1. SupplyOK'
    BY DEF PurseInv, SupplyOK
  <1> QED
    BY <1>1, SpentKept DEF PurseInv

(* Every step of the voters keeps the purse.                               *)
LEMMA PurseStepKept == ASSUME VotingInv, PurseInv, V!Next PROVE PurseInv'
  <1>1. CASE \E v \in Voters, o \in V!VoteOutcomes, w \in Weights : V!CastVote(v, o, w)
    BY <1>1, CastPurse
  <1>2. CASE \E v \in Voters : V!UnlockTokens(v)
    BY <1>2, UnlockPurse
  <1>3. CASE \/ V!CancelMarketVote
             \/ \E o \in V!VoteOutcomes : V!FinalizeDisputed(o)
             \/ V!AdminDecides
    <2>1. UNCHANGED <<held, wallet, vote, weighed_in>> /\ status' # "Disputed"
      BY <1>3 DEF V!CancelMarketVote, V!FinalizeDisputed, V!AdminDecides, V!OnlyMarketChanges,
                  V!ledgerVars, V!voteVars
    <2> QED
      BY <2>1, PurseUntouched
  <1>4. CASE V!PruneMarket
    BY <1>4, PrunePurse
  <1>5. CASE \E t \in Tokens, from, to \in Voters : V!GiveTokens(t, from, to)
    BY <1>5, GivePurse
  <1>6. CASE (\E t \in Tokens : V!SetGovernanceToken(t)) \/ V!Tick
    <2>1. UNCHANGED <<held, wallet, vote, weighed_in, status>>
      BY <1>6 DEF V!SetGovernanceToken, V!Tick, V!ledgerVars, V!marketVars, V!voteVars
    <2> QED
      BY <2>1, PurseUntouched
  <1> QED
    BY <1>1, <1>2, <1>3, <1>4, <1>5, <1>6 DEF V!Next

(* The purse holds throughout.                                             *)
LEMMA PurseInvHolds == ContractSpec => []PurseInv
  <1>1. ContractInit => PurseInv
    BY PurseInit DEF ContractInit
  <1>2. VotingInv /\ PurseInv /\ [GovernanceStep \/ VotingStep]_contractVars => PurseInv'
    <2> SUFFICES ASSUME VotingInv, PurseInv, [GovernanceStep \/ VotingStep]_contractVars
                 PROVE  PurseInv'
      OBVIOUS
    <2>1. CASE GovernanceStep
      <3>1. UNCHANGED votingVars /\ Next
        BY <2>1 DEF GovernanceStep
      <3>2. UNCHANGED held
        BY <3>1 DEF Next, Tick, RoleStep, GuardianStep, UpgradeStep, OtherStep, ledgerVars
      <3>3. UNCHANGED <<held, wallet, vote, weighed_in, status>>
        BY <3>1, <3>2 DEF votingVars
      <3> QED
        BY <3>3, PurseUntouched
    <2>2. CASE VotingStep
      BY <2>2, PurseStepKept DEF VotingStep
    <2>3. CASE UNCHANGED contractVars
      <3>1. UNCHANGED <<held, wallet, vote, weighed_in, status>>
        BY <2>3 DEF contractVars, ledgerVars, votingVars
      <3> QED
        BY <3>1, PurseUntouched
    <2> QED
      BY <2>1, <2>2, <2>3
  <1> QED
    BY <1>1, <1>2, VotingInvHolds, PTL DEF ContractSpec

(* cast_vote: "the same tokens cannot be double-voted".  Through transfers *)
(* between voters, revisions, unlocks and changes of the governance token, *)
(* the votes weighed in a token never weigh more than all there is of it,  *)
(* if what there is of it can be weighed in an i128.                       *)
THEOREM NoDoubleVoteHolds == ASSUME SupplyFits PROVE ContractSpec => []NoDoubleVote
  <1>1. VotingInv /\ PurseInv => NoDoubleVote
    BY PurseImplies DEF VotingInv, PurseInv, NoDoubleVote
  <1> QED
    BY <1>1, VotingInvHolds, PurseInvHolds, PTL
=============================================================================
