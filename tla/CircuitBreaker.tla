--------------------------- MODULE CircuitBreaker ---------------------------
(***************************************************************************)
(* circuit_breaker.rs: the four-state breaker of the contract.  Its state  *)
(* is three keys of instance storage: the state itself, OpenedAt and       *)
(* HalfOpenOps.  Calls that return Err leave no trace (see Ledger), which  *)
(* matters here: the branch of require_closed that trips the breaker back  *)
(* to Open returns Err, so it never takes effect.                          *)
(***************************************************************************)
EXTENDS Ledger

CONSTANTS COOLDOWN_SECONDS,   \* Open lasts this long before a probe
          HALF_OPEN_MAX_OPS,  \* calls admitted in HalfOpen
          BreakerInputs       \* states the admin passes to set_circuit_breaker

VARIABLES cb                  \* the breaker's three storage keys

CircuitBreakerState == {"Closed", "Open", "HalfOpen", "Paused"}

ASSUME BreakerAssumption ==
  /\ COOLDOWN_SECONDS \in Nat
  /\ HALF_OPEN_MAX_OPS \in Nat
  /\ BreakerInputs \subseteq CircuitBreakerState

BreakerTypeOK ==
  cb \in [state : CircuitBreakerState, opened_at : 0..MaxTime,
          half_open_ops : 0..HALF_OPEN_MAX_OPS]

(* Unset keys read as Closed, 0 and 0. *)
BreakerInit == cb = [state |-> "Closed", opened_at |-> 0, half_open_ops |-> 0]

(* _set_state_internal *)
SetStateInternal(s) ==
  [state |-> s,
   opened_at |-> IF s = "Open" THEN now ELSE cb.opened_at,
   half_open_ops |-> IF s = "HalfOpen" THEN 0 ELSE cb.half_open_ops]

(* Deviation: the breaker never recovers by itself. *)
MaybeRecover_Never == cb

(* maybe_recover: Open becomes HalfOpen once the cool-down is over. *)
MaybeRecover ==
  IF cb.state = "Open" /\ now >= cb.opened_at + COOLDOWN_SECONDS
  THEN SetStateInternal("HalfOpen")
  ELSE cb

(* Deviation: probes are counted and not limited. *)
RequireClosed_NoLimit ==
  LET c == MaybeRecover IN
  \/ c.state = "Closed" /\ cb' = c
  \/ /\ c.state = "HalfOpen"
     /\ cb' = [c EXCEPT !.half_open_ops = IF @ < HALF_OPEN_MAX_OPS THEN @ + 1 ELSE @]

(* require_closed: the calls it lets through *)
RequireClosed ==
  LET c == MaybeRecover IN
  \/ c.state = "Closed" /\ cb' = c
  \/ /\ c.state = "HalfOpen"
     /\ c.half_open_ops < HALF_OPEN_MAX_OPS
     /\ cb' = [c EXCEPT !.half_open_ops = @ + 1]

(* require_closed: the calls it refuses.  It writes Open when the probes   *)
(* are used up, and returns Err.                                           *)
RefuseCall ==
  LET c == MaybeRecover IN
  \/ c.state \in {"Open", "Paused"} /\ cb' = Commit("Err", cb, c)
  \/ /\ c.state = "HalfOpen"
     /\ c.half_open_ops >= HALF_OPEN_MAX_OPS
     /\ cb' = Commit("Err", cb, [c EXCEPT !.state = "Open", !.opened_at = now])

(* require_not_paused_for_high_risk *)
RequireNotPaused == cb.state # "Paused"

(* set_circuit_breaker (admin) *)
SetState(s) == cb' = SetStateInternal(s)

(* pause (guardian or admin), and force_pause, which emergency_pause calls *)
Pause == cb' = SetStateInternal("Paused")

(* unpause (guardian or admin) *)
Unpause == cb' = SetStateInternal("Closed")
=============================================================================
