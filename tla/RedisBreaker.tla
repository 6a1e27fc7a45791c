----------------------------- MODULE RedisBreaker -----------------------------
(***************************************************************************)
(* cache/mod.rs, CircuitBreaker and exec: two atomics, failure_count and   *)
(* opened_at_ms, that concurrent callers read and write one at a time.     *)
(* The wall clock is abstracted to whether reset_timeout has passed since  *)
(* opened_at_ms.                                                           *)
(*                                                                         *)
(* exec counts every failure of an attempt as one of Redis: that no        *)
(* connection could be had from the pool, that Redis did not answer, and   *)
(* that the value it returned could not be parsed.  get_or_set_json reads  *)
(* each key as a CachedEntry first, which a plain value is not, then as a  *)
(* plain value, which an entry stored in between is not.                   *)
(***************************************************************************)
EXTENDS Integers

CONSTANTS Callers,
          Threshold,   \* failures that open the circuit
          Retries      \* retry_attempts of a call

VARIABLES
  up,      \* is there a connection, and does Redis answer?
  mixed,   \* do reads come upon values of another form than they ask for?
  count,   \* failure_count, of which only what is below Threshold matters
  opened,  \* opened_at_ms: "no" (0), "open", or "half" when the timeout passed
  caller   \* each caller's command, place in exec and attempts left

vars == <<up, mixed, count, opened, caller>>

(* What get_or_set_json turns to when a command has failed: from the read  *)
(* of an entry to that of a plain value, and on to the lock, which like    *)
(* all other commands returns nothing to parse.                            *)
Commands == {"entry", "plain", "other"}
After == [entry |-> "plain", plain |-> "other", other |-> "none"]

Idle == [at |-> "idle", left |-> 0, command |-> "none"]
Labels == {"idle", "next", "try", "reset", "close", "count", "check", "open"}

RedisBreakerAssumption == {Threshold, Retries} \subseteq Nat /\ Threshold > 0

Init ==
  /\ up = TRUE /\ mixed = FALSE /\ count = 0 /\ opened = "no"
  /\ caller = [c \in Callers |-> Idle]

Goto(c, label) == caller' = [caller EXCEPT ![c].at = label]

(* allow: Closed or HalfOpen, for any number of callers *)
Allow == opened # "open"

(* exec asks once, before the first attempt. *)
Begin(c, command) ==
  caller' = [caller EXCEPT ![c] = [at |-> "try", left |-> Retries, command |-> command]]

Call(c) ==
  /\ caller[c].at = "idle" /\ Allow
  /\ \E command \in Commands : Begin(c, command)
  /\ UNCHANGED <<up, mixed, count, opened>>

GoOn(c) ==
  /\ caller[c].at = "next"
  /\ IF Allow THEN Begin(c, caller[c].command) ELSE caller' = [caller EXCEPT ![c] = Idle]
  /\ UNCHANGED <<up, mixed, count, opened>>

Attempt(c) ==
  /\ caller[c].at = "try"
  /\ \/ up /\ Goto(c, "reset")
     \/ ~up /\ Goto(c, "count")
     \/ up /\ mixed /\ caller[c].command # "other" /\ Goto(c, "count")
  /\ UNCHANGED <<up, mixed, count, opened>>

(* record_success stores two zeros, one after the other. *)
ResetCount(c) ==
  /\ caller[c].at = "reset"
  /\ count' = 0 /\ Goto(c, "close")
  /\ UNCHANGED <<up, mixed, opened>>

(* Deviation: a success resets the count only. *)
Close_Not(c) ==
  /\ caller[c].at = "close"
  /\ caller' = [caller EXCEPT ![c] = Idle]
  /\ UNCHANGED <<up, mixed, count, opened>>

Close(c) ==
  /\ caller[c].at = "close"
  /\ opened' = "no" /\ caller' = [caller EXCEPT ![c] = Idle]
  /\ UNCHANGED <<up, mixed, count>>

(* The next attempt, or the error and the next command *)
Again(c) ==
  LET after == After[caller[c].command] IN
  caller' = [caller EXCEPT ![c] =
               IF @.left > 0 THEN [@ EXCEPT !.at = "try", !.left = @ - 1]
               ELSE IF after = "none" THEN Idle
               ELSE [at |-> "next", left |-> 0, command |-> after]]

(* record_failure: fetch_add, then a load and, on zero, a store of the     *)
(* other atomic, which another caller may have written in between.  A      *)
(* failure while the circuit is half open does not open it again.          *)
AddFailure(c) ==
  /\ caller[c].at = "count"
  /\ count' = IF count < Threshold THEN count + 1 ELSE count
  /\ IF count + 1 >= Threshold THEN Goto(c, "check") ELSE Again(c)
  /\ UNCHANGED <<up, mixed, opened>>

CheckOpened(c) ==
  /\ caller[c].at = "check"
  /\ IF opened = "no" THEN Goto(c, "open") ELSE Again(c)
  /\ UNCHANGED <<up, mixed, count, opened>>

Open(c) ==
  /\ caller[c].at = "open"
  /\ opened' = "open" /\ Again(c)
  /\ UNCHANGED <<up, mixed, count>>

(* reset_timeout has passed since opened_at_ms. *)
TimePasses ==
  /\ opened = "open" /\ opened' = "half"
  /\ UNCHANGED <<up, mixed, count, caller>>

RedisChanges ==
  /\ up' = ~up
  /\ UNCHANGED <<mixed, count, opened, caller>>

(* Plain values are stored after a lock timeout, and expire. *)
FormsChange ==
  /\ mixed' = ~mixed
  /\ UNCHANGED <<up, count, opened, caller>>

CallerStep(c) ==
  \/ Call(c) \/ GoOn(c) \/ Attempt(c) \/ ResetCount(c) \/ Close(c)
  \/ AddFailure(c) \/ CheckOpened(c) \/ Open(c)

Next == (\E c \in Callers : CallerStep(c)) \/ TimePasses \/ RedisChanges \/ FormsChange

Spec == Init /\ [][Next]_vars

(* Calls go on, new ones come, and time passes. *)
Fairness == (\A c \in Callers : WF_vars(CallerStep(c))) /\ WF_vars(TimePasses)

FairSpec == Spec /\ Fairness
-----------------------------------------------------------------------------
TypeOK ==
  /\ {up, mixed} \subseteq BOOLEAN /\ count \in 0..Threshold /\ opened \in {"no", "open", "half"}
  /\ caller \in [Callers -> [at : Labels, left : 0..Retries, command : Commands \cup {"none"}]]

(* However successes and failures interleave on the two atomics, once      *)
(* Redis answers for good the circuit closes, and whenever values of the   *)
(* wrong form open it again it closes again; without such values it stays  *)
(* closed.                                                                 *)
CircuitCloses ==
  /\ <>[]up => []<>(opened = "no")
  /\ <>[](up /\ ~mixed) => <>[](opened = "no")
=============================================================================
