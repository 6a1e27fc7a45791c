----------------------------- MODULE Monitoring -----------------------------
(***************************************************************************)
(* The circuit breaker at work: the calls it admits and refuses (lib.rs,   *)
(* cast_vote and file_dispute), the privileged writes to it, the clock,    *)
(* and monitoring.rs, which counts failures and opens the breaker after    *)
(* more than ERROR_THRESHOLD of them.  The failures are those of           *)
(* safe_transfer and validate_oracle_staleness; both make their entrypoint *)
(* return Err.                                                             *)
(***************************************************************************)
EXTENDS CircuitBreaker

CONSTANTS ERROR_THRESHOLD,  \* 10 in track_error
          MaxFailures,      \* bound: failing calls considered
          MaxAdmitted       \* bound: admitted calls considered

VARIABLES error_count,      \* DataKey::ErrorCount
          failures,         \* history: failing calls since the last reset
          order,            \* history: the last state a privileged call wrote
          ordered_at,       \* history: when
          admitted          \* history: calls admitted since

monitoringVars == <<error_count, failures, order, ordered_at, admitted>>
vars == <<ledgerVars, cb, monitoringVars>>

ASSUME MonitoringAssumption ==
  {ERROR_THRESHOLD, MaxFailures, MaxAdmitted} \subseteq Nat

TypeOK ==
  /\ LedgerTypeOK /\ BreakerTypeOK
  /\ error_count \in Nat
  /\ failures \in 0..MaxFailures
  /\ order \in CircuitBreakerState
  /\ ordered_at \in 0..MaxTime
  /\ admitted \in 0..MaxAdmitted

Init ==
  /\ LedgerInit /\ BreakerInit
  /\ error_count = 0 /\ failures = 0
  /\ order = "Closed" /\ ordered_at = 0 /\ admitted = 0

(* What track_error leaves behind: the count, and an open breaker beyond   *)
(* the threshold, without touching OpenedAt.                               *)
TrackError ==
  [error_count |-> error_count + 1,
   cb |-> IF error_count + 1 > ERROR_THRESHOLD THEN [cb EXCEPT !.state = "Open"] ELSE cb]

(* An entrypoint whose transfer fails or whose oracle is stale: it calls   *)
(* track_error and returns Err.                                            *)
FailingCall ==
  LET kept == Commit("Err", [error_count |-> error_count, cb |-> cb], TrackError) IN
  /\ failures < MaxFailures
  /\ failures' = failures + 1
  /\ error_count' = kept.error_count
  /\ cb' = kept.cb
  /\ UNCHANGED <<ledgerVars, order, ordered_at, admitted>>

(* reset_monitoring (admin) *)
ResetMonitoring ==
  /\ error_count' = 0
  /\ failures' = 0
  /\ UNCHANGED <<ledgerVars, cb, order, ordered_at, admitted>>

(* cast_vote or file_dispute, admitted by require_closed *)
AdmittedCall ==
  /\ admitted < MaxAdmitted
  /\ RequireClosed
  /\ admitted' = admitted + 1
  /\ UNCHANGED <<ledgerVars, error_count, failures, order, ordered_at>>

(* the same, refused *)
RefusedCall == RefuseCall /\ UNCHANGED <<ledgerVars, monitoringVars>>

Ordered(s) ==
  /\ order' = s /\ ordered_at' = now /\ admitted' = 0
  /\ UNCHANGED <<ledgerVars, error_count, failures>>

PrivilegedWrite ==
  \/ \E s \in BreakerInputs : SetState(s) /\ Ordered(s)
  \/ Pause /\ Ordered("Paused")
  \/ Unpause /\ Ordered("Closed")

Tick == AdvanceClock /\ UNCHANGED <<held, received, cb, monitoringVars>>

Next ==
  \/ Tick \/ AdmittedCall \/ RefusedCall \/ PrivilegedWrite
  \/ FailingCall \/ ResetMonitoring

Spec == Init /\ [][Next]_vars

(* Ledgers keep closing, and users keep calling the protected entrypoints: *)
(* the breaker has no timer of its own and moves only when it is called.   *)
FairSpec ==
  /\ Spec
  /\ WF_vars(Tick) /\ WF_vars(AdmittedCall) /\ WF_vars(RefusedCall)
-----------------------------------------------------------------------------
(* After a privileged write of Open or HalfOpen the breaker admits at most *)
(* HALF_OPEN_MAX_OPS calls in all, however long it stays there: nothing    *)
(* but another privileged write renews the budget.  A pause admits none,   *)
(* and an Open breaker none within COOLDOWN_SECONDS of its last opening,   *)
(* also when it had been opened or half-open before.                       *)
AdmissionBudget ==
  /\ order \in {"Open", "HalfOpen"} => admitted =< HALF_OPEN_MAX_OPS
  /\ order = "Paused" => admitted = 0
  /\ order = "Open" /\ admitted > 0 => now >= ordered_at + COOLDOWN_SECONDS

(* A breaker opened at time t starts admitting calls again once its        *)
(* cool-down is over, as long as users call and the cool-down ends in the  *)
(* modelled time, unless a privileged call orders another state.           *)
OpenRecovers ==
  \A t \in 0..(MaxTime - COOLDOWN_SECONDS) :
    (cb.state = "Open" /\ cb.opened_at = t)
      ~> (cb.state # "Open" \/ cb.opened_at # t)

(* circuit_breaker.rs, require_closed: "Probe limit exceeded - trip back   *)
(* to Open", so that a breaker whose probes are used up does not stay      *)
(* half-open when calls keep coming.                                       *)
ProbeLimitTrips ==
  (cb.state = "HalfOpen" /\ cb.half_open_ops = HALF_OPEN_MAX_OPS)
    ~> ~(cb.state = "HalfOpen" /\ cb.half_open_ops = HALF_OPEN_MAX_OPS)
=============================================================================
