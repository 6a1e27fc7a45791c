--------------------------- MODULE RecoveryProofs ---------------------------
(***************************************************************************)
(* Proofs about parts that MCRecovery puts together: the circuit breaker   *)
(* of the contract at work (its type invariant and the budget of admitted  *)
(* calls, for every cool-down, every probe limit and every set of states   *)
(* the admin may write), the cached reads of the chain (what they show is  *)
(* true, for any number of requests, attempts and ledgers), the listings   *)
(* (a walk is exact, for any rows and any page limit), the shutdown (what  *)
(* it reports of its drains is true) and the check of the key schema (its  *)
(* verdict is right, for any fields and references).                       *)
(***************************************************************************)
EXTENDS MCRecovery, SumTheorems, SequenceTheorems, TLAPS

(* The stored breaker follows from the last privileged write: a pause and  *)
(* a half-open order stay as written, an Open order has turned half-open   *)
(* only after its cool-down, and the probe counter of a half-open breaker  *)
(* has counted every call admitted since the order.                        *)
BreakerFollowsOrder ==
  /\ order = "Paused" => cb.state = "Paused" /\ admitted = 0
  /\ order = "HalfOpen" => cb.state = "HalfOpen" /\ admitted = cb.half_open_ops
  /\ order = "Open" =>
       \/ cb.state = "Open" /\ cb.opened_at = ordered_at /\ admitted = 0
       \/ /\ cb.state = "HalfOpen" /\ admitted = cb.half_open_ops
          /\ now >= ordered_at + COOLDOWN_SECONDS

MonitoringInv == TypeOK /\ BreakerFollowsOrder

(* A state written through _set_state_internal keeps the breaker's type.   *)
LEMMA SetStateInternalType ==
  ASSUME BreakerTypeOK, LedgerTypeOK, NEW s \in CircuitBreakerState
  PROVE  SetStateInternal(s) \in [state : CircuitBreakerState, opened_at : 0..MaxTime,
                                  half_open_ops : 0..HALF_OPEN_MAX_OPS]
  BY BreakerAssumption, LedgerAssumption
     DEF BreakerTypeOK, LedgerTypeOK, SetStateInternal, CircuitBreakerState

(* maybe_recover keeps the breaker's type, and changes nothing unless the  *)
(* breaker is open and its cool-down over.                                 *)
LEMMA MaybeRecoverFacts ==
  ASSUME BreakerTypeOK, LedgerTypeOK
  PROVE  /\ MaybeRecover \in [state : CircuitBreakerState, opened_at : 0..MaxTime,
                              half_open_ops : 0..HALF_OPEN_MAX_OPS]
         /\ \/ MaybeRecover = cb
            \/ /\ cb.state = "Open" /\ now >= cb.opened_at + COOLDOWN_SECONDS
               /\ MaybeRecover.state = "HalfOpen" /\ MaybeRecover.half_open_ops = 0
  <1>1. "HalfOpen" \in CircuitBreakerState
    BY DEF CircuitBreakerState
  <1>2. CASE cb.state = "Open" /\ now >= cb.opened_at + COOLDOWN_SECONDS
    BY <1>1, <1>2, SetStateInternalType DEF MaybeRecover, SetStateInternal
  <1>3. CASE ~(cb.state = "Open" /\ now >= cb.opened_at + COOLDOWN_SECONDS)
    BY <1>3 DEF MaybeRecover, BreakerTypeOK
  <1> QED
    BY <1>2, <1>3

(* A call that require_closed lets through either finds the breaker closed *)
(* and leaves it, or is one more probe of a half-open breaker.             *)
LEMMA RequireClosedFacts ==
  ASSUME BreakerTypeOK, LedgerTypeOK, RequireClosed
  PROVE  /\ BreakerTypeOK'
         /\ \/ cb.state = "Closed" /\ cb' = cb
            \/ /\ cb'.state = "HalfOpen"
               /\ \/ cb.state = "HalfOpen" /\ cb'.half_open_ops = cb.half_open_ops + 1
                  \/ /\ cb.state = "Open" /\ now >= cb.opened_at + COOLDOWN_SECONDS
                     /\ cb'.half_open_ops = 1
  <1> DEFINE c == MaybeRecover
  <1>1. /\ c \in [state : CircuitBreakerState, opened_at : 0..MaxTime,
                  half_open_ops : 0..HALF_OPEN_MAX_OPS]
        /\ \/ c = cb
           \/ /\ cb.state = "Open" /\ now >= cb.opened_at + COOLDOWN_SECONDS
              /\ c.state = "HalfOpen" /\ c.half_open_ops = 0
    BY MaybeRecoverFacts
  <1>2. \/ c.state = "Closed" /\ cb' = c
        \/ /\ c.state = "HalfOpen" /\ c.half_open_ops < HALF_OPEN_MAX_OPS
           /\ cb' = [c EXCEPT !.half_open_ops = @ + 1]
    BY DEF RequireClosed
  <1> HIDE DEF c
  <1>3. CASE c.state = "Closed" /\ cb' = c
    BY <1>1, <1>3 DEF BreakerTypeOK
  <1>4. CASE /\ c.state = "HalfOpen" /\ c.half_open_ops < HALF_OPEN_MAX_OPS
             /\ cb' = [c EXCEPT !.half_open_ops = @ + 1]
    BY <1>1, <1>4, BreakerAssumption, LedgerAssumption DEF BreakerTypeOK
  <1> QED
    BY <1>2, <1>3, <1>4

(* A refused call leaves the breaker as it was: the branch of              *)
(* require_closed that trips it returns Err.                               *)
LEMMA RefuseCallFacts ==
  ASSUME RefuseCall
  PROVE  cb' = cb
  BY DEF RefuseCall, Commit

(* A call whose transfer or oracle fails leaves the count and the breaker  *)
(* as they were: track_error's writes go with the Err of its entrypoint.   *)
LEMMA FailingCallFacts ==
  ASSUME FailingCall
  PROVE  cb' = cb /\ error_count' = error_count
  BY DEF FailingCall, Commit

(* A privileged write stores the state it orders.                          *)
LEMMA PrivilegedWriteFacts ==
  ASSUME PrivilegedWrite
  PROVE  \E s \in CircuitBreakerState : cb' = SetStateInternal(s) /\ Ordered(s)
  BY BreakerAssumption
     DEF PrivilegedWrite, SetState, Pause, Unpause, CircuitBreakerState

(* Init establishes the inductive invariant.                               *)
LEMMA MonitoringInitInv == Init => MonitoringInv
  BY LedgerAssumption, BreakerAssumption, MonitoringAssumption
     DEF Init, LedgerInit, BreakerInit, MonitoringInv, TypeOK, LedgerTypeOK,
         BreakerTypeOK, CircuitBreakerState, BreakerFollowsOrder

(* Every step preserves it.                                                *)
LEMMA MonitoringNextInv == MonitoringInv /\ [Next]_vars => MonitoringInv'
  <1> SUFFICES ASSUME MonitoringInv, [Next]_vars PROVE MonitoringInv'
    OBVIOUS
  <1> USE LedgerAssumption, BreakerAssumption, MonitoringAssumption
  <1>0. TypeOK /\ BreakerFollowsOrder /\ LedgerTypeOK /\ BreakerTypeOK
    BY DEF MonitoringInv, TypeOK
  <1>1. CASE Tick
    <2>1. /\ now' = now + 1 /\ now < MaxTime
          /\ UNCHANGED <<held, received, cb, error_count, failures, order, ordered_at, admitted>>
      BY <1>1 DEF Tick, AdvanceClock, monitoringVars
    <2>2. TypeOK'
      BY <1>0, <2>1 DEF TypeOK, LedgerTypeOK, BreakerTypeOK
    <2>3. BreakerFollowsOrder'
      BY <1>0, <2>1 DEF BreakerFollowsOrder, TypeOK, LedgerTypeOK
    <2> QED
      BY <2>2, <2>3 DEF MonitoringInv
  <1>2. CASE AdmittedCall
    <2>1. /\ admitted < MaxAdmitted /\ RequireClosed /\ admitted' = admitted + 1
          /\ UNCHANGED <<now, held, received, error_count, failures, order, ordered_at>>
      BY <1>2 DEF AdmittedCall, ledgerVars
    <2>2. /\ BreakerTypeOK'
          /\ \/ cb.state = "Closed" /\ cb' = cb
             \/ /\ cb'.state = "HalfOpen"
                /\ \/ cb.state = "HalfOpen" /\ cb'.half_open_ops = cb.half_open_ops + 1
                   \/ /\ cb.state = "Open" /\ now >= cb.opened_at + COOLDOWN_SECONDS
                      /\ cb'.half_open_ops = 1
      BY <1>0, <2>1, RequireClosedFacts
    <2>3. TypeOK'
      BY <1>0, <2>1, <2>2 DEF TypeOK, LedgerTypeOK
    <2>4. BreakerFollowsOrder'
      BY <1>0, <2>1, <2>2 DEF BreakerFollowsOrder, TypeOK, LedgerTypeOK, BreakerTypeOK
    <2> QED
      BY <2>3, <2>4 DEF MonitoringInv
  <1>3. CASE RefusedCall
    <2>1. UNCHANGED vars
      BY <1>3, RefuseCallFacts DEF RefusedCall, vars
    <2> QED
      BY <1>0, <2>1
         DEF vars, ledgerVars, monitoringVars, MonitoringInv, TypeOK, LedgerTypeOK,
             BreakerTypeOK, BreakerFollowsOrder
  <1>4. CASE PrivilegedWrite
    <2>1. PICK s \in CircuitBreakerState : cb' = SetStateInternal(s) /\ Ordered(s)
      BY <1>4, PrivilegedWriteFacts
    <2>2. /\ order' = s /\ ordered_at' = now /\ admitted' = 0
          /\ UNCHANGED <<now, held, received, error_count, failures>>
      BY <2>1 DEF Ordered, ledgerVars
    <2>3. BreakerTypeOK'
      BY <1>0, <2>1, SetStateInternalType DEF BreakerTypeOK
    <2>4. TypeOK'
      BY <1>0, <2>2, <2>3 DEF TypeOK, LedgerTypeOK
    <2>5. BreakerFollowsOrder'
      BY <2>1, <2>2 DEF BreakerFollowsOrder, SetStateInternal
    <2> QED
      BY <2>4, <2>5 DEF MonitoringInv
  <1>5. CASE FailingCall
    <2>1. /\ failures < MaxFailures /\ failures' = failures + 1
          /\ UNCHANGED <<now, held, received, order, ordered_at, admitted>>
      BY <1>5 DEF FailingCall, ledgerVars
    <2>2. cb' = cb /\ error_count' = error_count
      BY <1>5, FailingCallFacts
    <2> QED
      BY <1>0, <2>1, <2>2
         DEF MonitoringInv, TypeOK, LedgerTypeOK, BreakerTypeOK, BreakerFollowsOrder
  <1>6. CASE ResetMonitoring
    BY <1>0, <1>6
       DEF ResetMonitoring, ledgerVars, MonitoringInv, TypeOK, LedgerTypeOK, BreakerTypeOK,
           BreakerFollowsOrder
  <1>7. CASE UNCHANGED vars
    BY <1>0, <1>7
       DEF vars, ledgerVars, monitoringVars, MonitoringInv, TypeOK, LedgerTypeOK,
           BreakerTypeOK, BreakerFollowsOrder
  <1> QED
    BY <1>1, <1>2, <1>3, <1>4, <1>5, <1>6, <1>7 DEF Next

(* The breaker's three keys, the error counter and the clock keep their    *)
(* types; the probe counter never passes HALF_OPEN_MAX_OPS.                *)
THEOREM MonitoringTypeCorrect == Spec => []TypeOK
  <1>1. MonitoringInv => TypeOK
    BY DEF MonitoringInv
  <1> QED
    BY <1>1, MonitoringInitInv, MonitoringNextInv, PTL DEF Spec

(* require_closed admits, after a privileged write of Open or HalfOpen, no *)
(* more than HALF_OPEN_MAX_OPS calls until the next privileged write; none *)
(* after a pause; and none within the cool-down of an Open breaker.        *)
THEOREM AdmissionBudgetHolds == Spec => []AdmissionBudget
  <1>1. MonitoringInv => AdmissionBudget
    BY BreakerAssumption, LedgerAssumption, MonitoringAssumption
       DEF MonitoringInv, TypeOK, BreakerTypeOK, LedgerTypeOK, BreakerFollowsOrder,
           AdmissionBudget
  <1> QED
    BY <1>1, MonitoringInitInv, MonitoringNextInv, PTL DEF Spec

(* No failure is ever on record.                                           *)
NothingCounted == error_count = 0

(* The monitoring never opens the breaker: a failing call leaves the error *)
(* count and the breaker untouched, because its entrypoint returns Err, so *)
(* the count stays zero however many failures there are.                   *)
THEOREM MonitoringNeverCounts == Spec => []NothingCounted
  <1> USE DEF NothingCounted
  <1>1. Init => NothingCounted
    BY DEF Init
  <1>2. NothingCounted /\ [Next]_vars => NothingCounted'
    <2>1. FailingCall => error_count' = error_count
      BY FailingCallFacts
    <2> QED
      BY <2>1
         DEF Next, vars, Tick, AdmittedCall, RefusedCall, PrivilegedWrite, Ordered,
             ResetMonitoring, monitoringVars
  <1> HIDE DEF NothingCounted
  <1> QED
    BY <1>1, <1>2, PTL DEF Spec
------------------------------------------------------------------------------
(* The reads of the chain *)

DataReads == {"market", "stats", "bets", "oracle"}
Probes == {"blockchain", "ready", "dependencies"}

(* What each endpoint calls.                                               *)
LEMMA PlanFacts ==
  ASSUME endpoint \in DOMAIN Reads!Endpoints
  PROVE  /\ endpoint \in DataReads \cup Probes \cup {"tx", "health"}
         /\ endpoint \in DataReads \cup Probes =>
              /\ Len(Reads!Plan.calls) = 2 /\ Reads!Plan.calls # <<>>
              /\ Reads!Plan.calls[1] = "getLatestLedger" /\ Reads!Plan.calls[2] = "getContractData"
         /\ endpoint \in DataReads => Reads!Plan.needed = {"getContractData"}
         /\ endpoint \in Probes \cup {"health"} => Reads!Plan.needed = {}
         /\ endpoint = "tx" =>
              /\ Len(Reads!Plan.calls) = 1 /\ Reads!Plan.calls # <<>>
              /\ Reads!Plan.calls[1] = "getTransaction" /\ Reads!Plan.needed = {"getTransaction"}
         /\ endpoint = "health" => Reads!Plan.calls = <<>> /\ Reads!Plan.checks # <<>>
         /\ Len(Reads!Plan.checks) \in Nat
         /\ Reads!Plan.checks # <<>> => Len(Reads!Plan.checks) >= 1
         /\ \A i \in 1..Len(Reads!Plan.checks) :
              Reads!Plan.checks[i] \in {"db", "redis", "queue", "sendgrid"}
<1> USE DEF Reads!Plan, Reads!Endpoints, Reads!MarketData, Reads!PlatformStatistics,
            Reads!UserBetsPage, Reads!OracleResult, Reads!TransactionStatus, Reads!HealthCheck,
            Reads!HealthReady, Reads!HealthDependencies, Reads!Health, Reads!DataRead, DataReads,
            Probes
<1>1. CASE endpoint \in DataReads
  BY <1>1
<1>2. CASE endpoint = "blockchain"
  BY <1>2
<1>3. CASE endpoint \in {"ready", "dependencies"}
  <2>1. /\ Reads!Plan.checks = <<"db", "redis">>
        /\ Reads!Plan.calls = <<"getLatestLedger", "getContractData">>
        /\ Reads!Plan.needed = {}
    BY <1>3
  <2> HIDE DEF Reads!Plan, Reads!Endpoints
  <2>2. QED
    BY <1>3, <2>1
<1>4. CASE endpoint = "tx"
  BY <1>4
<1>5. CASE endpoint = "health"
  BY <1>5
<1>6. QED
  BY <1>1, <1>2, <1>3, <1>4, <1>5

ReadValue == [ledger : Nat, asOf : Nat]
ReadState ==
  [at : {"new", "check", "lookup", "call", "store", "answered"}, next : Nat, tries : Nat,
   failed : SUBSET {"db", "redis", "queue", "sendgrid"}, value : ReadValue, code : Nat]

(* A value that was read to the end: the data is not older than its label, *)
(* and there is data where the read fails without it.                      *)
Sound(v) ==
  /\ v \in ReadValue
  /\ v.asOf > 0 => v.asOf >= v.ledger
  /\ endpoint \in DataReads \cup {"tx"} => v.asOf > 0

(* Where a request is: the label is asked for before the data, and nothing *)
(* is read before the first call.                                          *)
Before(r) ==
  /\ r.at = "check" => r.next \in 1..Len(Reads!Plan.checks)
  /\ r.at \in {"lookup", "call", "store"} => endpoint # "health"
  /\ r.at \in {"new", "check", "lookup"} => r.value = Reads!NoValue
  /\ r.at = "lookup" => r.next = 1

Between(r) ==
  r.at = "call" =>
    /\ r.next \in 1..Len(Reads!Plan.calls)
    /\ r.value.asOf = 0 /\ r.value.ledger =< height
    /\ r.next = 1 => r.value.ledger = 0

Answered(r) ==
  /\ r.at = "store" => Sound(r.value)
  /\ r.at # "answered" => r.code = 0
  /\ r.code = 200 /\ endpoint \in DataReads \cup {"tx"} => Sound(r.value)
  /\ r.code = 200 /\ endpoint = "blockchain" =>
       r.value.ledger > 0 /\ r.value.asOf >= r.value.ledger

Reading(r) == r \in ReadState /\ Before(r) /\ Between(r) /\ Answered(r)

ReadInv ==
  /\ endpoint \in DOMAIN Reads!Endpoints /\ height \in Nat /\ height >= 1
  /\ entry = <<>> \/ \E v : entry = <<v>> /\ Sound(v)
  /\ client \in [Clients -> ReadState]
  /\ \A c \in Clients : Reading(client[c])

(* It is what the run checks.                                              *)
LEMMA ReadsInvHonest == ASSUME ReadInv PROVE Reads!ReadsHonest
<1> USE DEF ReadInv
<1>1. Reads!Plan.needed # {} => endpoint \in DataReads \cup {"tx"}
  BY PlanFacts
<1>2. ASSUME NEW i \in DOMAIN entry, Reads!Plan.needed # {}
      PROVE  entry[i].asOf >= entry[i].ledger /\ entry[i].asOf > 0
  <2>1. Sound(entry[i])
    BY <1>2
  <2>2. QED
    BY <1>1, <1>2, <2>1 DEF Sound
<1>3. ASSUME NEW c \in Clients, client[c].code = 200
      PROVE  /\ Reads!Plan.needed # {} =>
                  client[c].value.asOf >= client[c].value.ledger /\ client[c].value.asOf > 0
             /\ endpoint = "blockchain" =>
                  client[c].value.asOf >= client[c].value.ledger /\ client[c].value.ledger > 0
  <2>1. Answered(client[c])
    BY DEF Reading
  <2>2. QED
    BY <1>1, <1>3, <2>1 DEF Answered, Sound
<1>4. QED
  BY <1>2, <1>3 DEF Reads!ReadsHonest

(* A request that is fresh is well.                                        *)
LEMMA FreshReading == Reading(Reads!Fresh) /\ Reads!Fresh \in ReadState
  BY DEF Reading, ReadState, ReadValue, Before, Between, Answered, Reads!Fresh, Reads!NoValue

(* One request moves on, to a state that is well.                          *)
LEMMA BecomeReading ==
  ASSUME ReadInv, UNCHANGED <<endpoint, height>>, NEW c \in Clients, NEW r, Reading(r),
         client' = [client EXCEPT ![c] = r],
         entry' = entry \/ entry' = <<>> \/ \E v : entry' = <<v>> /\ Sound(v)
  PROVE  ReadInv'
<1> USE DEF ReadInv
<1>1. ASSUME NEW x PROVE (Reading(x)' <=> Reading(x)) /\ (Sound(x)' <=> Sound(x))
  BY DEF Reading, Before, Between, Answered, Sound, Reads!Plan
<1>2. client' \in [Clients -> ReadState]
  BY DEF Reading
<1>3. \A d \in Clients : Reading(client'[d])
  OBVIOUS
<1>4. \A d \in Clients : Reading(client[d])'
  <2> SUFFICES ASSUME NEW d \in Clients PROVE Reading(client[d])'
    OBVIOUS
  <2>1. PICK x : x = client'[d]
    OBVIOUS
  <2>2. Reading(x)'
    BY <1>1, <1>3, <2>1
  <2>3. QED
    BY <2>1, <2>2 DEF Reading, Before, Between, Answered
<1>5. entry' = <<>> \/ \E v : entry' = <<v>> /\ Sound(v)'
  BY <1>1
<1>6. QED
  BY <1>2, <1>4, <1>5

(* A request that is answered: with an error, with a value that is sound,  *)
(* or with none where none is needed.                                      *)
LEMMA RespondReading ==
  ASSUME ReadInv, NEW v \in ReadValue, NEW code \in Nat,
         code = 200 /\ endpoint \in DataReads \cup {"tx"} => Sound(v),
         code = 200 /\ endpoint = "blockchain" => v.ledger > 0 /\ v.asOf >= v.ledger
  PROVE  Reading([Reads!Fresh EXCEPT !.at = "answered", !.value = v, !.code = code])
<1>1. PICK r : r = [Reads!Fresh EXCEPT !.at = "answered", !.value = v, !.code = code]
  OBVIOUS
<1>2. r \in ReadState /\ r.at = "answered" /\ r.value = v /\ r.code = code
  BY <1>1, FreshReading DEF ReadState
<1>3. Before(r) /\ Between(r)
  BY <1>2 DEF Before, Between
<1>4. Answered(r)
  BY <1>2 DEF Answered
<1>5. QED
  BY <1>1, <1>2, <1>3, <1>4 DEF Reading

(* The handlers' code for a sound value is honest.                         *)
LEMMA AnswerReading ==
  ASSUME ReadInv, NEW v, NEW r, Sound(v)
  PROVE  Reading([Reads!Fresh EXCEPT !.at = "answered", !.value = v, !.code = Reads!CodeOf(r, v)])
<1>1. Reads!CodeOf(r, v) \in Nat
  BY DEF Reads!CodeOf, Reads!ReadCode
<1>2. endpoint = "blockchain" /\ Reads!CodeOf(r, v) = 200 => v.ledger > 0 /\ v.asOf > 0
  BY DEF Reads!CodeOf, Reads!ReadCode, Reads!Healthy
<1>3. v \in ReadValue /\ (v.asOf > 0 => v.asOf >= v.ledger)
  BY DEF Sound
<1>4. QED
  BY <1>1, <1>2, <1>3, RespondReading

(* An error shows nothing.                                                 *)
LEMMA ErrorReading ==
  ASSUME ReadInv, NEW code \in {500, 503}
  PROVE  Reading([Reads!Fresh EXCEPT !.at = "answered", !.value = Reads!NoValue, !.code = code])
<1>1. Reads!NoValue \in ReadValue
  BY DEF Reads!NoValue, ReadValue
<1>2. code \in Nat /\ code # 200
  OBVIOUS
<1>3. PICK v \in ReadValue : v = Reads!NoValue
  BY <1>1
<1>4. Reading([Reads!Fresh EXCEPT !.at = "answered", !.value = v, !.code = code])
  <2>1. /\ code = 200 /\ endpoint \in DataReads \cup {"tx"} => Sound(v)
        /\ code = 200 /\ endpoint = "blockchain" => v.ledger > 0 /\ v.asOf >= v.ledger
    BY <1>2
  <2>2. PICK n \in Nat : n = code
    BY <1>2
  <2>3. Reading([Reads!Fresh EXCEPT !.at = "answered", !.value = v, !.code = n])
    BY <2>1, <2>2, RespondReading
  <2>4. QED
    BY <2>2, <2>3
<1>5. QED
  BY <1>3, <1>4

(* The request arrives.                                                    *)
LEMMA BeginReads ==
  ASSUME ReadInv, NEW c \in Clients, Reads!Begin(c)
  PROVE  ReadInv'
<1>0. endpoint \in DOMAIN Reads!Endpoints
  BY DEF ReadInv
<1>1. UNCHANGED <<endpoint, height, entry>>
  BY DEF Reads!Begin
<1>2. CASE client' = [client EXCEPT ![c] = Reads!Lookup(Reads!Fresh)] /\ Reads!Plan.checks = <<>>
  <2>1. PICK r : r = Reads!Lookup(Reads!Fresh)
    OBVIOUS
  <2>2. /\ r \in ReadState /\ r.at = "lookup" /\ r.next = 1 /\ r.value = Reads!NoValue
        /\ r.code = 0
    BY <2>1, FreshReading DEF ReadState, Reads!Lookup, Reads!Fresh
  <2>3. endpoint # "health"
    BY <1>0, <1>2, PlanFacts
  <2>4. Reading(r)
    BY <2>2, <2>3 DEF Reading, Before, Between, Answered
  <2>5. QED
    BY <1>1, <1>2, <2>1, <2>4, BecomeReading
<1>3. CASE /\ client' = [client EXCEPT ![c] = [Reads!Fresh EXCEPT !.at = "check"]]
           /\ Reads!Plan.checks # <<>>
  <2>1. PICK r : r = [Reads!Fresh EXCEPT !.at = "check"]
    OBVIOUS
  <2>2. /\ r \in ReadState /\ r.at = "check" /\ r.next = 1 /\ r.value = Reads!NoValue
        /\ r.code = 0
    BY <2>1, FreshReading DEF ReadState, Reads!Fresh
  <2>3. 1 \in 1..Len(Reads!Plan.checks)
    BY <1>0, <1>3, PlanFacts
  <2>4. Reading(r)
    BY <2>2, <2>3 DEF Reading, Before, Between, Answered
  <2>5. QED
    BY <1>1, <1>3, <2>1, <2>4, BecomeReading
<1>4. CASE Reads!Respond(c, 503, Reads!NoValue)
  <2>1. PICK r : /\ r = [Reads!Fresh EXCEPT !.at = "answered", !.value = Reads!NoValue, !.code = 503]
                 /\ client' = [client EXCEPT ![c] = r]
    BY <1>4 DEF Reads!Respond, Reads!Become
  <2>2. Reading(r)
    BY <2>1, ErrorReading
  <2>3. QED
    BY <1>1, <2>1, <2>2, BecomeReading, ZenonT(30)
<1>5. QED
  BY <1>2, <1>3, <1>4 DEF Reads!Begin, Reads!Become

(* A dependency is tried, or the probe takes too long.                     *)
LEMMA CheckReads ==
  ASSUME ReadInv, NEW c \in Clients, Reads!Check(c) \/ Reads!ProbeTimesOut(c)
  PROVE  ReadInv'
<1>0. /\ endpoint \in DOMAIN Reads!Endpoints /\ Reading(client[c])
      /\ UNCHANGED <<endpoint, height, entry>> /\ client[c].at = "check"
  BY DEF ReadInv, Reads!Check, Reads!ProbeTimesOut
<1>1. CASE Reads!ProbeTimesOut(c)
  <2>1. PICK r : /\ r = [Reads!Fresh EXCEPT !.at = "answered", !.value = Reads!NoValue, !.code = 503]
                 /\ client' = [client EXCEPT ![c] = r]
    BY <1>1 DEF Reads!ProbeTimesOut, Reads!Respond, Reads!Become
  <2>2. Reading(r)
    BY <2>1, ErrorReading
  <2>3. QED
    BY <1>0, <2>1, <2>2, BecomeReading, ZenonT(30)
<1>2. CASE Reads!Check(c)
  <2>1. PICK r : r = client[c]
    OBVIOUS
  <2>2. /\ r \in ReadState /\ r.at = "check" /\ r.code = 0 /\ r.value = Reads!NoValue
        /\ r.next \in 1..Len(Reads!Plan.checks)
    BY <1>0, <2>1 DEF Reading, Before, Answered
  <2> DEFINE Leads(x) ==
        CASE r.next # Len(Reads!Plan.checks) -> client' = [client EXCEPT ![c] = x]
          [] r.next = Len(Reads!Plan.checks) /\ Reads!Plan.calls # <<>> ->
               client' = [client EXCEPT ![c] = Reads!Lookup(x)]
          [] r.next = Len(Reads!Plan.checks) /\ Reads!Plan.calls = <<>> ->
               Reads!Answer(c, x, Reads!NoValue)
  <2>3a. PICK failed \in {r.failed, r.failed \cup {Reads!Plan.checks[r.next]}} :
           Leads([r EXCEPT !.failed = failed, !.next = @ + 1])
    BY <1>2, <2>1 DEF Reads!Check, Reads!Become
  <2>3b. PICK a : a = [r EXCEPT !.failed = failed, !.next = @ + 1]
    OBVIOUS
  <2>3. /\ failed \in {r.failed, r.failed \cup {Reads!Plan.checks[r.next]}}
        /\ a = [r EXCEPT !.failed = failed, !.next = @ + 1] /\ Leads(a)
    BY <2>3a, <2>3b
  <2>4. failed \in SUBSET {"db", "redis", "queue", "sendgrid"}
    BY <1>0, <2>2, <2>3, PlanFacts DEF ReadState
  <2>5. /\ a \in ReadState /\ a.at = "check" /\ a.code = 0 /\ a.value = Reads!NoValue
        /\ a.next = r.next + 1
    <3>1. r.next \in Nat
      BY <2>2 DEF ReadState
    <3>2. PICK n \in Nat : n = r.next + 1
      BY <3>1
    <3>3. a = [r EXCEPT !.failed = failed, !.next = n]
      BY <2>3, <3>2
    <3>4. QED
      BY <2>2, <2>4, <3>2, <3>3 DEF ReadState
  <2>6. CASE r.next # Len(Reads!Plan.checks)
    <3>1. a.next \in 1..Len(Reads!Plan.checks)
      BY <1>0, <2>2, <2>5, <2>6, PlanFacts
    <3>2. Reading(a)
      BY <2>5, <3>1 DEF Reading, Before, Between, Answered
    <3>3. QED
      BY <1>0, <2>3, <2>6, <3>2, BecomeReading
  <2>7. CASE r.next = Len(Reads!Plan.checks) /\ Reads!Plan.calls # <<>>
    <3>1. PICK b : b = Reads!Lookup(a)
      OBVIOUS
    <3>2. /\ b \in ReadState /\ b.at = "lookup" /\ b.code = 0 /\ b.value = Reads!NoValue
          /\ b.next = 1
      BY <2>5, <3>1 DEF Reads!Lookup, ReadState
    <3>3. Reading(b)
      BY <1>0, <2>7, <3>2, PlanFacts DEF Reading, Before, Between, Answered
    <3>4. QED
      BY <1>0, <2>3, <2>7, <3>1, <3>3, BecomeReading
  <2>8. CASE r.next = Len(Reads!Plan.checks) /\ Reads!Plan.calls = <<>>
    <3>1. PICK b : /\ b = [Reads!Fresh EXCEPT !.at = "answered", !.value = Reads!NoValue,
                                             !.code = Reads!CodeOf(a, Reads!NoValue)]
                   /\ client' = [client EXCEPT ![c] = b]
      BY <2>3, <2>8 DEF Reads!Answer, Reads!Respond, Reads!Become
    <3>2. endpoint = "health"
      BY <1>0, <2>8, PlanFacts
    <3>3. Sound(Reads!NoValue)
      BY <3>2 DEF Sound, ReadValue, Reads!NoValue, DataReads
    <3>4. Reading(b)
      BY <3>1, <3>3, AnswerReading
    <3>5. QED
      BY <1>0, <3>1, <3>4, BecomeReading
  <2>9. QED
    BY <2>6, <2>7, <2>8
<1>3. QED
  BY <1>1, <1>2

(* The cache answers, or the fill begins.                                  *)
LEMMA LookUpReads ==
  ASSUME ReadInv, NEW c \in Clients, Reads!LookUp(c)
  PROVE  ReadInv'
<1>0. /\ endpoint \in DOMAIN Reads!Endpoints /\ Reading(client[c])
      /\ UNCHANGED <<endpoint, height, entry>> /\ client[c].at = "lookup"
  BY DEF ReadInv, Reads!LookUp
<1>1. CASE entry # <<>> /\ Reads!Answer(c, client[c], entry[1])
  <2>1. PICK v : entry = <<v>> /\ Sound(v)
    BY <1>1 DEF ReadInv
  <2>2. PICK x : x = client[c]
    OBVIOUS
  <2>3. PICK r : /\ r = [Reads!Fresh EXCEPT !.at = "answered", !.value = v, !.code = Reads!CodeOf(x, v)]
                 /\ client' = [client EXCEPT ![c] = r]
    BY <1>1, <2>1, <2>2 DEF Reads!Answer, Reads!Respond, Reads!Become
  <2>4. Reading(r)
    BY <2>1, <2>3, AnswerReading
  <2>5. QED
    BY <1>0, <2>3, <2>4, BecomeReading
<1>2. CASE client' = [client EXCEPT ![c] = [client[c] EXCEPT !.at = "call", !.tries = 1]]
  <2>1. PICK x : x = client[c]
    OBVIOUS
  <2>2. PICK r : r = [x EXCEPT !.at = "call", !.tries = 1]
    OBVIOUS
  <2>3. /\ x \in ReadState /\ x.at = "lookup" /\ x.code = 0 /\ x.value = Reads!NoValue
        /\ x.next = 1 /\ endpoint # "health"
    BY <1>0, <2>1 DEF Reading, Before, Answered
  <2>4. /\ r \in ReadState /\ r.at = "call" /\ r.code = 0 /\ r.value = Reads!NoValue /\ r.next = 1
    BY <2>2, <2>3 DEF ReadState
  <2>5. 1 \in 1..Len(Reads!Plan.calls)
    BY <1>0, <2>3, PlanFacts
  <2>6. r.value.asOf = 0 /\ r.value.ledger = 0 /\ 0 =< height
    BY <2>4 DEF Reads!NoValue, ReadInv
  <2>7. Reading(r)
    BY <2>3, <2>4, <2>5, <2>6 DEF Reading, Before, Between, Answered
  <2>8. QED
    BY <1>0, <1>2, <2>1, <2>2, <2>7, BecomeReading
<1>3. QED
  BY <1>1, <1>2 DEF Reads!LookUp, Reads!Become

(* A call is over: the next one is made, or the value is whole.            *)
LEMMA AfterCallReading ==
  ASSUME ReadInv, NEW r, Reading(r), r.at = "call", NEW v \in ReadValue,
         r.next < Len(Reads!Plan.calls) => v.asOf = 0 /\ v.ledger =< height,
         r.next = Len(Reads!Plan.calls) => Sound(v)
  PROVE  Reading(Reads!AfterCall(r, v))
<1>1. PICK x : x = Reads!AfterCall(r, v)
  OBVIOUS
<1>2. /\ r \in ReadState /\ r.code = 0 /\ r.next \in 1..Len(Reads!Plan.calls)
      /\ endpoint # "health"
  BY DEF Reading, Before, Between, Answered
<1>3. Len(Reads!Plan.calls) \in Nat
  BY <1>2, PlanFacts DEF ReadInv
<1>4. CASE r.next = Len(Reads!Plan.calls)
  <2>1. x = [r EXCEPT !.at = "store", !.value = v]
    BY <1>1, <1>4 DEF Reads!AfterCall
  <2>2. x \in ReadState /\ x.at = "store" /\ x.value = v /\ x.code = 0
    BY <1>2, <2>1 DEF ReadState
  <2>3. QED
    BY <1>1, <1>2, <1>4, <2>2 DEF Reading, Before, Between, Answered
<1>5. CASE r.next < Len(Reads!Plan.calls)
  <2>1. PICK n \in Nat : n = r.next + 1
    BY <1>2
  <2>2. x = [r EXCEPT !.next = n, !.tries = 1, !.value = v]
    BY <1>1, <1>3, <1>5, <2>1 DEF Reads!AfterCall
  <2>3. x \in ReadState /\ x.at = "call" /\ x.value = v /\ x.code = 0 /\ x.next = n
    BY <1>2, <2>2 DEF ReadState
  <2>4. n \in 1..Len(Reads!Plan.calls) /\ n # 1
    BY <1>2, <1>3, <1>5, <2>1
  <2>5. Before(x) /\ Answered(x)
    BY <1>2, <2>3 DEF Before, Answered
  <2>6. Between(x)
    BY <1>5, <2>3, <2>4 DEF Between
  <2>7. QED
    BY <1>1, <2>3, <2>5, <2>6 DEF Reading
<1>6. QED
  BY <1>2, <1>3, <1>4, <1>5

(* The attempts of rpc_call, and what follows from their outcomes.         *)
LEMMA CallReads ==
  ASSUME ReadInv, NEW c \in Clients, Reads!RpcCall(c)
  PROVE  ReadInv'
<1>0. /\ endpoint \in DOMAIN Reads!Endpoints /\ Reading(client[c]) /\ height \in Nat /\ height >= 1
      /\ UNCHANGED <<endpoint, height, entry>> /\ client[c].at = "call"
  BY DEF ReadInv, Reads!RpcCall
<1>1. PICK r : r = client[c]
  OBVIOUS
<1>2. /\ r \in ReadState /\ r.at = "call" /\ r.code = 0 /\ endpoint # "health" /\ Reading(r)
      /\ r.next \in 1..Len(Reads!Plan.calls)
      /\ r.value \in ReadValue /\ r.value.asOf = 0 /\ r.value.ledger =< height
      /\ r.next = 1 => r.value.ledger = 0
  BY <1>0, <1>1 DEF Reading, Before, Between, Answered, ReadState
<1>3. /\ endpoint \in DataReads \cup Probes \cup {"tx"}
      /\ Len(Reads!Plan.calls) \in {1, 2}
  BY <1>0, <1>2, PlanFacts
<1>4. r.value.ledger \in Nat /\ r.value.asOf \in Nat
  BY <1>2 DEF ReadValue
<1>5. ASSUME client' = [client EXCEPT ![c] = Reads!AfterCall(r, Reads!Received(r.value, Reads!Plan.calls[r.next]))]
      PROVE  ReadInv'
  <2>1. PICK v : v = Reads!Received(r.value, Reads!Plan.calls[r.next])
    OBVIOUS
  <2>2. /\ v.ledger = IF Reads!Plan.calls[r.next] = "getContractData" THEN r.value.ledger ELSE height
        /\ v.asOf = IF Reads!Plan.calls[r.next] = "getLatestLedger" THEN r.value.asOf ELSE height
        /\ v \in ReadValue
    BY <1>0, <1>4, <2>1 DEF Reads!Received, ReadValue
  <2>3. r.next < Len(Reads!Plan.calls) => v.asOf = 0 /\ v.ledger =< height
    <3>1. ASSUME r.next < Len(Reads!Plan.calls)
          PROVE  Reads!Plan.calls[r.next] = "getLatestLedger"
      <4>0. Len(Reads!Plan.calls) = 2 /\ r.next = 1
        <5>1. PICK l, n : l = Len(Reads!Plan.calls) /\ n = r.next
          OBVIOUS
        <5>2. l \in {1, 2} /\ n \in 1..l /\ n < l
          BY <1>2, <1>3, <3>1, <5>1
        <5>3. l = 2 /\ n = 1
          BY <5>2
        <5>4. QED
          BY <5>1, <5>3
      <4>1. endpoint # "tx" /\ r.next = 1
        BY <1>0, <4>0, PlanFacts
      <4>2. QED
        BY <1>0, <1>3, <4>1, PlanFacts
    <3>2. QED
      BY <1>0, <1>2, <2>2, <3>1
  <2>4. r.next = Len(Reads!Plan.calls) => Sound(v)
    <3>1. ASSUME r.next = Len(Reads!Plan.calls)
          PROVE  Reads!Plan.calls[r.next] \in {"getContractData", "getTransaction"}
      BY <1>0, <1>3, <3>1, PlanFacts
    <3>2. r.next = Len(Reads!Plan.calls) => v.asOf = height /\ v.ledger =< height
      BY <1>0, <1>2, <1>4, <2>2, <3>1
    <3>3. QED
      BY <1>0, <2>2, <3>2 DEF Sound
  <2>5. Reading(Reads!AfterCall(r, v))
    BY <1>2, <2>2, <2>3, <2>4, AfterCallReading
  <2>6. QED
    BY <1>0, <1>5, <2>1, <2>5, BecomeReading
<1>6. ASSUME Reads!CallFails(c) PROVE ReadInv'
  <2>1. CASE Reads!Plan.calls[r.next] \in Reads!Plan.needed
    <3>1. PICK x : /\ x = [Reads!Fresh EXCEPT !.at = "answered", !.value = Reads!NoValue, !.code = 500]
                   /\ client' = [client EXCEPT ![c] = x]
      BY <1>1, <1>6, <2>1 DEF Reads!CallFails, Reads!Respond, Reads!Become
    <3>2. Reading(x)
      BY <3>1, ErrorReading
    <3>3. QED
      BY <1>0, <3>1, <3>2, BecomeReading, ZenonT(30)
  <2>2. CASE Reads!Plan.calls[r.next] \notin Reads!Plan.needed
    <3>1. client' = [client EXCEPT ![c] = Reads!AfterCall(r, r.value)]
      BY <1>1, <1>6, <2>2 DEF Reads!CallFails, Reads!Become
    <3>2. r.next = Len(Reads!Plan.calls) => endpoint \notin DataReads \cup {"tx"}
      BY <1>0, <1>3, <2>2, PlanFacts
    <3>3. r.next = Len(Reads!Plan.calls) => Sound(r.value)
      BY <1>2, <3>2 DEF Sound
    <3>4. PICK v \in ReadValue : v = r.value
      BY <1>2
    <3>5. Reading(Reads!AfterCall(r, v))
      BY <1>2, <3>3, <3>4, AfterCallReading
    <3>6. QED
      BY <1>0, <3>1, <3>4, <3>5, BecomeReading
  <2>3. QED
    BY <2>1, <2>2
<1>7. ASSUME client' = [client EXCEPT ![c] = [r EXCEPT !.tries = @ + 1]] PROVE ReadInv'
  <2>1. PICK n \in Nat : n = r.tries + 1
    BY <1>2 DEF ReadState
  <2>2. PICK x : x = [r EXCEPT !.tries = n]
    OBVIOUS
  <2>3. x \in ReadState /\ x.at = r.at /\ x.next = r.next /\ x.value = r.value /\ x.code = r.code
    BY <1>2, <2>2 DEF ReadState
  <2>4. Reading(x)
    BY <1>2, <2>3 DEF Reading, Before, Between, Answered
  <2>5. QED
    BY <1>0, <1>7, <2>1, <2>2, <2>4, BecomeReading
<1>8. QED
  BY <1>1, <1>5, <1>6, <1>7 DEF Reads!RpcCall, Reads!Become

(* The value is cached and shown.                                          *)
LEMMA StoreReads ==
  ASSUME ReadInv, NEW c \in Clients, Reads!Store(c)
  PROVE  ReadInv'
<1>1. PICK r : r = client[c]
  OBVIOUS
<1>2. Reading(r) /\ r.at = "store" /\ Sound(r.value)
  BY <1>1 DEF ReadInv, Reads!Store, Reading, Answered
<1>3. PICK v : v = r.value
  OBVIOUS
<1>4. PICK x : /\ x = [Reads!Fresh EXCEPT !.at = "answered", !.value = v, !.code = Reads!CodeOf(r, v)]
               /\ client' = [client EXCEPT ![c] = x]
  BY <1>1, <1>3 DEF Reads!Store, Reads!Answer, Reads!Respond, Reads!Become
<1>5. Reading(x)
  BY <1>2, <1>3, <1>4, AnswerReading
<1>6. entry' = entry \/ (entry' = <<v>> /\ Sound(v))
  BY <1>1, <1>2, <1>3 DEF Reads!Store
<1>7. UNCHANGED <<endpoint, height>>
  BY DEF Reads!Store
<1>8. QED
  BY <1>4, <1>5, <1>6, <1>7, BecomeReading

(* Time passes: the entry expires, a ledger closes.                        *)
LEMMA TimeReads ==
  ASSUME ReadInv, Reads!Expire \/ Reads!CloseLedger
  PROVE  ReadInv'
<1>1. UNCHANGED <<endpoint, client>> /\ height' \in Nat /\ height' >= height /\ height \in Nat
  BY DEF ReadInv, Reads!Expire, Reads!CloseLedger
<1>2. ASSUME NEW x, Reading(x) PROVE Reading(x)'
  <2>1. Before(x)' /\ Answered(x)' /\ x \in ReadState
    BY <1>1, <1>2 DEF Reading, Before, Answered, Sound, Reads!Plan
  <2>2. x.at = "call" => x.value.ledger \in Nat
    BY <1>2 DEF Reading, ReadState, ReadValue
  <2>3. Between(x)'
    BY <1>1, <1>2, <2>2 DEF Reading, Between, Reads!Plan
  <2>4. QED
    BY <2>1, <2>3 DEF Reading
<1>3. ASSUME NEW d \in Clients PROVE Reading(client[d])'
  <2>1. PICK x : x = client[d] /\ Reading(x)
    BY DEF ReadInv
  <2>2. Reading(x)' /\ x = client'[d]
    BY <1>1, <1>2, <2>1
  <2>3. QED
    BY <2>2 DEF Reading, Before, Between, Answered
<1>4. entry' = <<>> \/ \E v : entry' = <<v>> /\ Sound(v)'
  BY <1>1 DEF ReadInv, Reads!Expire, Reads!CloseLedger, Sound
<1>5. QED
  BY <1>1, <1>3, <1>4 DEF ReadInv

(* While the reads are followed, every step is one of ChainReads or leaves *)
(* them alone.                                                             *)
LEMMA ReadsFollowed ==
  ASSUME [RecoveryNext]_recoveryVars, focus' = "reads"
  PROVE  focus = "reads" /\ (Reads!Next \/ UNCHANGED readVars)
  BY DEF RecoveryNext, recoveryVars, ContractStep, CacheStep, RedisStep, ProcessStep, ReadsStep,
         PagesStep, SchemaStep

(* What is cached, and what is answered with 200, is true: the data is not *)
(* older than the ledger it is labelled with, nothing that could not be    *)
(* read is shown as data, and the health of the chain is reported good     *)
(* only when both of its calls were answered, for any number of concurrent *)
(* requests, of attempts and of ledgers that close between the calls.      *)
THEOREM ReadsHonestHolds == RecoverySpec => []ReadsHonest
<1> DEFINE Inv == focus = "reads" => ReadInv
<1>1. RecoveryInit => Inv
  <2> SUFFICES ASSUME RecoveryInit, focus = "reads" PROVE ReadInv
    OBVIOUS
  <2>1. Reads!Init
    BY DEF RecoveryInit
  <2>2. QED
    BY <2>1, FreshReading DEF Reads!Init, ReadInv
<1>2. Inv /\ [RecoveryNext]_recoveryVars => Inv'
  <2> SUFFICES ASSUME Inv, [RecoveryNext]_recoveryVars, focus' = "reads" PROVE ReadInv'
    OBVIOUS
  <2>1. ReadInv /\ (Reads!Next \/ UNCHANGED readVars)
    BY ReadsFollowed
  <2>2. CASE UNCHANGED readVars
    BY <2>1, <2>2 DEF readVars, ReadInv, Reading, Before, Between, Answered, Sound, Reads!Plan
  <2>3. CASE Reads!Next
    BY <2>1, <2>3, BeginReads, CheckReads, LookUpReads, CallReads, StoreReads, TimeReads
       DEF Reads!Next, Reads!ClientStep
  <2>4. QED
    BY <2>1, <2>2, <2>3
<1>3. Inv => ReadsHonest
  BY ReadsInvHonest DEF ReadsHonest
<1>4. QED
  BY <1>1, <1>2, <1>3, PTL DEF RecoverySpec

-----------------------------------------------------------------------------
(* Listings that are read page by page *)

(* A listing shows a row at one place, and an unused number only where     *)
(* markets are pruned.                                                     *)
IsView(v) ==
  /\ v \in Seq(0..MaxRows) /\ Len(v) =< MaxRows
  /\ \A p, q \in DOMAIN v : v[p] # 0 /\ v[p] = v[q] => p = q
  /\ listing # "markets" => \A p \in DOMAIN v : v[p] # 0

(* v[p] and w[q] are not the same row, unless their places are the same.   *)
SameRowSamePlace(v, w) == \A p \in DOMAIN v, q \in DOMAIN w : v[p] # 0 /\ v[p] = w[q] => p = q

(* The position in a view at which the next page starts.                   *)
Position == IF listing = "bets" THEN walk.at * walk.limit ELSE walk.at

Walks ==
  [limit : Nat, at : Nat, seen : Seq(SUBSET Nat), used : Seq(Seq(0..MaxRows)), open : BOOLEAN]

PagesType ==
  /\ listing \in DOMAIN Pages!Kinds /\ DOMAIN views = 0..MaxRows
  /\ walk \in Walks /\ Len(walk.seen) = Len(walk.used)

(* The rows, what is cached of them and what the walk was shown are views; *)
(* a market keeps its number in all of them.                               *)
ViewsHonest ==
  /\ \A v \in Pages!Shown : IsView(v)
  /\ listing = "markets" => \A v, w \in Pages!Shown : SameRowSamePlace(v, w)

(* What was received stood before the position the walk has come to, and   *)
(* of the rows that every view has, each that stands there was received,   *)
(* once if nothing moved.                                                  *)
WalkHonest ==
  /\ walk.limit = 0 => ~walk.open /\ walk.used = <<>> /\ walk.at = 0
  /\ \A k \in DOMAIN walk.seen : \A p \in walk.seen[k] :
       p \in DOMAIN walk.used[k] /\ walk.used[k][p] # 0
  /\ walk.open =>
       /\ walk.used = <<>> => walk.at = 0
       /\ \A k \in DOMAIN walk.seen : \A p \in walk.seen[k] : p =< Position
  /\ Pages!Unmoved => Pages!SeenOnce
  /\ walk.open /\ Pages!Unmoved =>
       \A r \in 1..MaxRows :
         (\A k \in DOMAIN walk.used : \E p \in DOMAIN walk.used[k] : walk.used[k][p] = r /\ p =< Position)
           /\ walk.used # <<>> => r \in Pages!Seen

PagesInv ==
  focus = "pages" => PagesType /\ ViewsHonest /\ WalkHonest /\ Pages!WalkExact

(* The bounds are positive numbers.                                        *)
LEMMA PagesConstants ==
  /\ MaxRows \in Nat /\ MAX_PAGE_LIMIT \in Nat /\ FeaturedLimit \in Nat
  /\ MaxRows > 1 /\ MAX_PAGE_LIMIT > 0 /\ FeaturedLimit > 0
  BY RecoveryAssumption DEF Pages!PagingAssumption

(* What may happen to the rows of a listing.                               *)
LEMMA KindFacts ==
  ASSUME listing \in DOMAIN Pages!Kinds
  PROVE  /\ "hole" \in Pages!Kinds[listing] => listing = "markets"
         /\ listing = "markets" => Pages!Kinds[listing] = {"append", "hole"}
  BY DEF Pages!Kinds

(* The places of a view.                                                   *)
LEMMA ViewFacts ==
  ASSUME NEW v, IsView(v)
  PROVE  /\ v \in Seq(0..MaxRows) /\ DOMAIN v = 1..Len(v) /\ Len(v) \in Nat /\ Len(v) =< MaxRows
         /\ \A p \in DOMAIN v : v[p] \in 0..MaxRows
         /\ \A p, q \in DOMAIN v : v[p] # 0 /\ v[p] = v[q] => p = q
         /\ listing # "markets" => \A p \in DOMAIN v : v[p] # 0
  BY PagesConstants DEF IsView

(* The beginning of a view is a view.                                      *)
LEMMA PrefixView ==
  ASSUME NEW t, IsView(t), NEW n \in 0..Len(t)
  PROVE  /\ IsView(SubSeq(t, 1, n)) /\ DOMAIN SubSeq(t, 1, n) \subseteq DOMAIN t
         /\ \A p \in DOMAIN SubSeq(t, 1, n) : SubSeq(t, 1, n)[p] = t[p]
  <1>0. /\ t \in Seq(0..MaxRows) /\ DOMAIN t = 1..Len(t) /\ Len(t) \in Nat /\ Len(t) =< MaxRows
    BY ViewFacts
  <1>1. PICK u : u = SubSeq(t, 1, n)
    OBVIOUS
  <1>2. /\ u \in Seq(0..MaxRows) /\ DOMAIN u = 1..n /\ Len(u) = n
        /\ \A p \in 1..n : u[p] = t[p]
    <2>1. \A p \in 1..n : t[p] \in 0..MaxRows
      BY <1>0, ViewFacts
    <2>2. /\ u \in Seq(0..MaxRows) /\ Len(u) = (IF 1 =< n THEN n - 1 + 1 ELSE 0)
          /\ \A p \in 1..(n - 1 + 1) : u[p] = t[1 + p - 1]
      BY <1>0, <1>1, <2>1, SubSeqProperties
    <2> QED
      BY <1>0, <2>2
  <1>3. 1..n \subseteq DOMAIN t /\ n =< MaxRows
    BY <1>0, PagesConstants
  <1>4. IsView(u)
    BY <1>2, <1>3, ViewFacts DEF IsView
  <1> QED
    BY <1>1, <1>2, <1>3, <1>4

(* What a read finds now is the beginning of the rows.                     *)
LEMMA CurrentView ==
  ASSUME PagesType, IsView(table), NEW n \in Nat, NEW v, v = Pages!Current(n)
  PROVE  IsView(v) /\ DOMAIN v \subseteq DOMAIN table /\ \A p \in DOMAIN v : v[p] = table[p]
  <1>0. Len(table) \in Nat
    BY ViewFacts
  <1>1. CASE listing = "featured"
    <2>1. PICK k \in 0..Len(table) : k = Pages!Least(FeaturedLimit, Len(table))
      BY <1>0, PagesConstants DEF Pages!Least
    <2>2. v = SubSeq(table, 1, k)
      BY <1>1, <2>1 DEF Pages!Current, Pages!FeaturedMarkets
    <2> QED
      BY <2>2, PrefixView
  <1>2. CASE listing = "content"
    <2>1. PICK k \in 0..Len(table) : k = Pages!Least(n, Len(table))
      BY <1>0 DEF Pages!Least
    <2>2. v = SubSeq(table, 1, k)
      BY <1>2, <2>1 DEF Pages!Current, Pages!ContentItems
    <2> QED
      BY <2>2, PrefixView
  <1>3. CASE ~(listing \in {"featured", "content"})
    <2>1. v = table
      BY <1>3 DEF Pages!Current
    <2> QED
      BY <2>1
  <1> QED
    BY <1>1, <1>2, <1>3

(* A view that is met comes to those there are.                            *)
LEMMA OneMoreView ==
  ASSUME ViewsHonest, listing' = listing, NEW c, IsView(c), Pages!Shown' \subseteq Pages!Shown \cup {c},
         listing = "markets" => \A w \in Pages!Shown : SameRowSamePlace(c, w) /\ SameRowSamePlace(w, c)
  PROVE  ViewsHonest'
  <1>1. ASSUME NEW v \in Pages!Shown' PROVE IsView(v)'
    <2>1. IsView(v)
      BY DEF ViewsHonest
    <2> QED
      BY <2>1 DEF IsView
  <1>2. ASSUME listing' = "markets", NEW v \in Pages!Shown', NEW w \in Pages!Shown'
        PROVE  SameRowSamePlace(v, w)
    <2>1. SameRowSamePlace(c, c)
      BY DEF IsView, SameRowSamePlace
    <2>2. v \in Pages!Shown \cup {c} /\ w \in Pages!Shown \cup {c}
      OBVIOUS
    <2> QED
      BY <1>2, <2>1, <2>2 DEF ViewsHonest
  <1> QED
    BY <1>1, <1>2, Zenon DEF ViewsHonest

(* Rows with no new one, in their places, or shifted by removal, are a     *)
(* view: whatever another request does to the rows.                        *)
LEMMA TableChanges ==
  ASSUME PagesType, ViewsHonest, Pages!Change
  PROVE  /\ IsView(table') /\ UNCHANGED <<listing, views, walk>>
         /\ listing = "markets" =>
              \A w \in Pages!Shown : SameRowSamePlace(table', w) /\ SameRowSamePlace(w, table')
  <1>1. UNCHANGED <<listing, views, walk>> /\ table \in Pages!Shown
    BY DEF Pages!Change, Pages!Shown
  <1>2. IsView(table)
    BY <1>1 DEF ViewsHonest
  <1>3. PICK t : t = table
    OBVIOUS
  <1>4. /\ t \in Seq(0..MaxRows) /\ DOMAIN t = 1..Len(t) /\ Len(t) \in Nat /\ Len(t) =< MaxRows
        /\ \A p \in DOMAIN t : t[p] \in 0..MaxRows
        /\ \A p, q \in DOMAIN t : t[p] # 0 /\ t[p] = t[q] => p = q
        /\ listing # "markets" => \A p \in DOMAIN t : t[p] # 0
    BY <1>2, <1>3, ViewFacts
  <1>5. listing = "markets" =>
          \A w \in Pages!Shown : SameRowSamePlace(t, w) /\ SameRowSamePlace(w, t)
    BY <1>1, <1>3 DEF ViewsHonest
  <1>6. PICK u : u = table'
    OBVIOUS
  <1>7. ASSUME NEW r \in 1..MaxRows, Len(t) < MaxRows,
               \A w \in Pages!Shown : \A p \in DOMAIN w : w[p] # r, Pages!Add(r)
        PROVE  /\ IsView(u)
               /\ listing = "markets" =>
                    \A w \in Pages!Shown : SameRowSamePlace(u, w) /\ SameRowSamePlace(w, u)
    <2>1. u = Append(t, r)
      BY <1>3, <1>6, <1>7 DEF Pages!Add
    <2>2. /\ u \in Seq(0..MaxRows) /\ Len(u) = Len(t) + 1 /\ DOMAIN u = 1..(Len(t) + 1)
          /\ \A p \in DOMAIN t : u[p] = t[p]
          /\ u[Len(t) + 1] = r
      BY <1>4, <2>1, PagesConstants
    <2>3. \A p \in DOMAIN t : t[p] # r
      BY <1>1, <1>3, <1>7
    <2>4. \A p \in DOMAIN u : p \in DOMAIN t \/ p = Len(t) + 1
      BY <1>4, <2>2
    <2>5. \A p, q \in DOMAIN u : u[p] # 0 /\ u[p] = u[q] => p = q
      BY <1>4, <2>2, <2>3, <2>4
    <2>6. listing # "markets" => \A p \in DOMAIN u : u[p] # 0
      BY <1>4, <2>2, <2>4
    <2>7. IsView(u)
      BY <1>4, <1>7, <2>2, <2>5, <2>6, PagesConstants DEF IsView
    <2>8. ASSUME listing = "markets", NEW w \in Pages!Shown
          PROVE  SameRowSamePlace(u, w) /\ SameRowSamePlace(w, u)
      BY <1>5, <1>7, <2>2, <2>4, <2>8 DEF SameRowSamePlace
    <2> QED
      BY <2>7, <2>8
  <1>8. ASSUME NEW r \in 1..MaxRows, Len(t) < MaxRows, NEW i \in 1..(Len(t) + 1),
               \A w \in Pages!Shown : \A p \in DOMAIN w : w[p] # r, Pages!Insert(i, r)
        PROVE  IsView(u) /\ listing # "markets"
    <2>0. listing # "markets"
      BY <1>8, KindFacts DEF Pages!Insert, PagesType
    <2>1. u = SubSeq(t, 1, i - 1) \o <<r>> \o SubSeq(t, i, Len(t))
      BY <1>3, <1>6, <1>8 DEF Pages!Insert, Pages!InsertAt
    <2>2. /\ u \in Seq(0..MaxRows) /\ Len(u) = Len(t) + 1 /\ DOMAIN u = 1..(Len(t) + 1)
          /\ \A p \in 1..(i - 1) : u[p] = t[p]
          /\ u[i] = r
          /\ \A p \in (i + 1)..(Len(t) + 1) : u[p] = t[p - 1]
      <3>0. i \in Int /\ i - 1 \in Int /\ 1 =< i /\ i =< Len(t) + 1
        BY <1>4
      <3>1. PICK a : a = SubSeq(t, 1, i - 1)
        OBVIOUS
      <3>2. PICK b : b = SubSeq(t, i, Len(t))
        OBVIOUS
      <3>3. /\ \A p \in 1..(i - 1) : t[p] \in 0..MaxRows
            /\ \A p \in i..Len(t) : t[p] \in 0..MaxRows
        BY <1>4, <3>0, SMTT(30)
      <3>4. /\ a \in Seq(0..MaxRows) /\ Len(a) = (IF 1 =< i - 1 THEN i - 1 - 1 + 1 ELSE 0)
            /\ \A p \in 1..(i - 1 - 1 + 1) : a[p] = t[1 + p - 1]
        BY <3>0, <3>1, <3>3, SubSeqProperties, SMTT(30)
      <3>5. /\ b \in Seq(0..MaxRows) /\ Len(b) = (IF i =< Len(t) THEN Len(t) - i + 1 ELSE 0)
            /\ \A p \in 1..(Len(t) - i + 1) : b[p] = t[i + p - 1]
        BY <1>4, <3>0, <3>2, <3>3, SubSeqProperties, SMTT(30)
      <3>6. Len(a) = i - 1 /\ Len(b) = Len(t) - i + 1
        BY <1>4, <3>0, <3>4, <3>5
      <3>7. PICK c : c = Append(a, r)
        OBVIOUS
      <3>8. /\ c \in Seq(0..MaxRows) /\ Len(c) = i /\ c[i] = r
            /\ \A p \in 1..(i - 1) : c[p] = a[p]
        BY <3>0, <3>4, <3>6, <3>7, PagesConstants, SMTT(30)
      <3>9. /\ u \in Seq(0..MaxRows) /\ Len(u) = Len(c) + Len(b)
            /\ \A p \in 1..(Len(c) + Len(b)) : u[p] = IF p <= Len(c) THEN c[p] ELSE b[p - Len(c)]
        <4>1. u = c \o b
          <5>1. a \o <<r>> = c
            BY <3>4, <3>7, PagesConstants
          <5> QED
            BY <2>1, <3>1, <3>2, <5>1
        <4>2. c \in Seq(0..MaxRows) /\ b \in Seq(0..MaxRows)
          BY <3>5, <3>8
        <4> QED
          BY <4>1, <4>2, ConcatProperties
      <3>10. Len(u) = Len(t) + 1 /\ DOMAIN u = 1..(Len(t) + 1) /\ u[i] = r
        BY <1>4, <3>0, <3>6, <3>8, <3>9, SMTT(30)
      <3>11. ASSUME NEW p \in 1..(i - 1) PROVE u[p] = t[p]
        BY <1>4, <3>0, <3>4, <3>6, <3>8, <3>9, SMTT(30)
      <3>12. ASSUME NEW p \in (i + 1)..(Len(t) + 1) PROVE u[p] = t[p - 1]
        <4>1. u[p] = b[p - i] /\ p \in Int
          BY <1>4, <3>0, <3>6, <3>8, <3>9, SMTT(30)
        <4>2. p - i \in 1..(Len(t) - i + 1)
          BY <1>4, <3>0
        <4>3. b[p - i] = t[i + (p - i) - 1]
          BY <3>5, <4>2
        <4> QED
          <5>1. i + (p - i) - 1 = p - 1
            BY <3>0, <4>1
          <5> QED
            BY <4>1, <4>3, <5>1, Zenon
      <3> QED
        BY <3>9, <3>10, <3>11, <3>12
    <2>3. \A p \in DOMAIN t : t[p] # r
      BY <1>1, <1>3, <1>8
    <2>4. \A p \in DOMAIN u : \/ p < i /\ p \in DOMAIN t /\ u[p] = t[p]
                              \/ p = i /\ u[p] = r
                              \/ p > i /\ p - 1 \in DOMAIN t /\ u[p] = t[p - 1]
      BY <1>4, <2>2
    <2>5. ASSUME NEW x \in DOMAIN u, NEW y \in DOMAIN u, u[x] # 0, u[x] = u[y] PROVE x = y
      <3>1. x \in Int /\ y \in Int /\ i \in Int
        BY <1>4, <2>2
      <3> QED
        BY <1>4, <2>3, <2>4, <2>5, <3>1
    <2>6. \A p \in DOMAIN u : u[p] # 0
      BY <1>4, <1>8, <2>0, <2>4
    <2> QED
      BY <1>4, <1>8, <2>0, <2>2, <2>5, <2>6, PagesConstants DEF IsView
  <1>9. ASSUME NEW i \in DOMAIN t, Pages!TakeOut(i)
        PROVE  IsView(u) /\ listing # "markets"
    <2>0. listing # "markets"
      BY <1>9, KindFacts DEF Pages!TakeOut, PagesType
    <2>1. u = SubSeq(t, 1, i - 1) \o SubSeq(t, i + 1, Len(t))
      BY <1>3, <1>6, <1>9 DEF Pages!TakeOut, Pages!RemoveAt
    <2>2. /\ u \in Seq(0..MaxRows) /\ Len(u) = Len(t) - 1 /\ DOMAIN u = 1..(Len(t) - 1)
          /\ \A p \in 1..(i - 1) : u[p] = t[p]
          /\ \A p \in i..(Len(t) - 1) : u[p] = t[p + 1]
      <3>0. i \in Int /\ i + 1 \in Int /\ i - 1 \in Int /\ 1 =< i /\ i =< Len(t)
        BY <1>4
      <3>1. PICK a : a = SubSeq(t, 1, i - 1)
        OBVIOUS
      <3>2. PICK b : b = SubSeq(t, i + 1, Len(t))
        OBVIOUS
      <3>3. /\ \A p \in 1..(i - 1) : t[p] \in 0..MaxRows
            /\ \A p \in (i + 1)..Len(t) : t[p] \in 0..MaxRows
        BY <1>4, <3>0, SMTT(30)
      <3>4. /\ a \in Seq(0..MaxRows) /\ Len(a) = (IF 1 =< i - 1 THEN i - 1 - 1 + 1 ELSE 0)
            /\ \A p \in 1..(i - 1 - 1 + 1) : a[p] = t[1 + p - 1]
        BY <3>0, <3>1, <3>3, SubSeqProperties, SMTT(30)
      <3>5. /\ b \in Seq(0..MaxRows) /\ Len(b) = (IF i + 1 =< Len(t) THEN Len(t) - (i + 1) + 1 ELSE 0)
            /\ \A p \in 1..(Len(t) - (i + 1) + 1) : b[p] = t[i + 1 + p - 1]
        BY <1>4, <3>0, <3>2, <3>3, SubSeqProperties, SMTT(30)
      <3>6. Len(a) = i - 1 /\ Len(b) = Len(t) - i
        BY <1>4, <3>0, <3>4, <3>5
      <3>7. /\ u \in Seq(0..MaxRows) /\ Len(u) = Len(a) + Len(b)
            /\ \A p \in 1..(Len(a) + Len(b)) : u[p] = IF p <= Len(a) THEN a[p] ELSE b[p - Len(a)]
        <4>1. u = a \o b
          BY <2>1, <3>1, <3>2
        <4>2. a \in Seq(0..MaxRows) /\ b \in Seq(0..MaxRows)
          BY <3>4, <3>5
        <4> QED
          BY <4>1, <4>2, ConcatProperties
      <3>8. Len(u) = Len(t) - 1 /\ DOMAIN u = 1..(Len(t) - 1)
        BY <1>4, <3>0, <3>6, <3>7, SMTT(30)
      <3>9. ASSUME NEW p \in 1..(i - 1) PROVE u[p] = t[p]
        BY <1>4, <3>0, <3>4, <3>6, <3>7, SMTT(30)
      <3>10. ASSUME NEW p \in i..(Len(t) - 1) PROVE u[p] = t[p + 1]
        <4>1. u[p] = b[p - (i - 1)] /\ p \in Int
          BY <1>4, <3>0, <3>6, <3>7, SMTT(30)
        <4>2. p - (i - 1) \in 1..(Len(t) - (i + 1) + 1)
          BY <1>4, <3>0
        <4>3. b[p - (i - 1)] = t[i + 1 + (p - (i - 1)) - 1]
          BY <3>5, <4>2
        <4> QED
          <5>1. i + 1 + (p - (i - 1)) - 1 = p + 1
            BY <3>0, <4>1
          <5> QED
            BY <4>1, <4>3, <5>1, Zenon
      <3> QED
        BY <3>7, <3>8, <3>9, <3>10
    <2>3. \A p \in DOMAIN u : \/ p < i /\ p \in DOMAIN t /\ u[p] = t[p]
                              \/ p >= i /\ p + 1 \in DOMAIN t /\ u[p] = t[p + 1]
      BY <1>4, <2>2
    <2>4. ASSUME NEW x \in DOMAIN u, NEW y \in DOMAIN u, u[x] # 0, u[x] = u[y] PROVE x = y
      <3>1. x \in Int /\ y \in Int /\ i \in Int
        BY <1>4, <2>2
      <3> QED
        BY <1>4, <2>3, <2>4, <3>1
    <2>5. \A p \in DOMAIN u : u[p] # 0
      BY <1>4, <2>0, <2>3
    <2>6. Len(u) =< MaxRows
      BY <1>4, <2>2, PagesConstants
    <2> QED
      BY <2>0, <2>2, <2>4, <2>5, <2>6 DEF IsView
  <1>10. ASSUME NEW i \in DOMAIN t, Pages!Hole(i)
         PROVE  /\ IsView(u)
                /\ listing = "markets" =>
                     \A w \in Pages!Shown : SameRowSamePlace(u, w) /\ SameRowSamePlace(w, u)
    <2>0. listing = "markets"
      BY <1>10, KindFacts DEF Pages!Hole, PagesType
    <2>1. u = [t EXCEPT ![i] = 0]
      BY <1>3, <1>6, <1>10 DEF Pages!Hole
    <2>2. /\ u \in Seq(0..MaxRows) /\ Len(u) = Len(t) /\ DOMAIN u = DOMAIN t
          /\ \A p \in DOMAIN t : u[p] = 0 \/ u[p] = t[p]
      BY <1>4, <2>1, PagesConstants
    <2>3. IsView(u)
      BY <1>4, <2>0, <2>2 DEF IsView
    <2>4. ASSUME NEW w \in Pages!Shown
          PROVE  SameRowSamePlace(u, w) /\ SameRowSamePlace(w, u)
      BY <1>5, <2>0, <2>2 DEF SameRowSamePlace
    <2> QED
      BY <2>3, <2>4
  <1>11. ASSUME NEW i \in DOMAIN t, Pages!Swap(i)
         PROVE  IsView(u) /\ listing # "markets"
    <2>0. listing # "markets"
      BY <1>11, KindFacts DEF Pages!Swap, PagesType
    <2>1. i < Len(t) /\ u = [t EXCEPT ![i] = t[i + 1], ![i + 1] = t[i]]
      BY <1>3, <1>6, <1>11 DEF Pages!Swap
    <2>2. i + 1 \in DOMAIN t /\ i \in Int
      BY <1>4, <2>1
    <2>3. /\ u \in Seq(0..MaxRows) /\ Len(u) = Len(t) /\ DOMAIN u = DOMAIN t
          /\ u[i] = t[i + 1] /\ u[i + 1] = t[i]
          /\ \A p \in DOMAIN t : p # i /\ p # i + 1 => u[p] = t[p]
      BY <1>4, <2>1, <2>2
    <2>4. ASSUME NEW x \in DOMAIN u, NEW y \in DOMAIN u, u[x] # 0, u[x] = u[y] PROVE x = y
      BY <1>4, <2>2, <2>3, <2>4
    <2>5. \A p \in DOMAIN u : u[p] # 0
      BY <1>4, <2>0, <2>2, <2>3
    <2> QED
      BY <1>4, <2>0, <2>3, <2>4, <2>5 DEF IsView
  <1>12. ASSUME NEW r \in Pages!Rows \ Pages!Ever
         PROVE  r \in 1..MaxRows /\ \A w \in Pages!Shown : \A p \in DOMAIN w : w[p] # r
    BY DEF Pages!Rows, Pages!Ever, Pages!ToSet
  <1>13. \/ \E r \in Pages!Rows \ Pages!Ever :
               Len(t) < MaxRows /\ (Pages!Add(r) \/ \E i \in 1..(Len(t) + 1) : Pages!Insert(i, r))
         \/ \E i \in DOMAIN t : Pages!TakeOut(i) \/ Pages!Hole(i) \/ Pages!Swap(i)
    BY <1>3 DEF Pages!Change
  <1>14. /\ IsView(u)
         /\ listing = "markets" =>
              \A w \in Pages!Shown : SameRowSamePlace(u, w) /\ SameRowSamePlace(w, u)
    BY <1>7, <1>8, <1>9, <1>10, <1>11, <1>12, <1>13
  <1> QED
    BY <1>1, <1>6, <1>14

(* Two views between which nothing moved have the same rows at the same    *)
(* places.                                                                 *)
LEMMA SamePlace ==
  ASSUME NEW v, IsView(v), NEW w, IsView(w), Pages!Compatible(v, w),
         listing = "markets" => SameRowSamePlace(v, w)
  PROVE  SameRowSamePlace(v, w)
  <1> SUFFICES ASSUME NEW p \in DOMAIN v, NEW q \in DOMAIN w, v[p] # 0, v[p] = w[q],
                      listing # "markets"
               PROVE  p = q
    BY DEF SameRowSamePlace
  <1>1. /\ DOMAIN v = 1..Len(v) /\ Len(v) \in Nat /\ DOMAIN w = 1..Len(w) /\ Len(w) \in Nat
        /\ \A a, b \in DOMAIN v : v[a] # 0 /\ v[a] = v[b] => a = b
        /\ \A a, b \in DOMAIN w : w[a] # 0 /\ w[a] = w[b] => a = b
        /\ \A a \in DOMAIN v : v[a] # 0
        /\ \A a \in DOMAIN w : w[a] # 0
    BY ViewFacts
  <1>2. \A i \in DOMAIN v \cap DOMAIN w : v[i] = w[i]
    BY <1>1 DEF Pages!Compatible
  <1>3. CASE p < q
    <2>1. p \in DOMAIN v \cap DOMAIN w
      BY <1>1, <1>3
    <2> QED
      BY <1>1, <1>2, <2>1
  <1>4. CASE q < p
    <2>1. q \in DOMAIN v \cap DOMAIN w
      BY <1>1, <1>4
    <2> QED
      BY <1>1, <1>2, <2>1
  <1>5. p \in Int /\ q \in Int
    BY <1>1
  <1> QED
    BY <1>3, <1>4, <1>5

(* How a page is cut: it shows what stands in the next places of the view, *)
(* as many as the limit, and the next one goes on behind them, until the   *)
(* view has no more.                                                       *)
Cut(v, p, limit, page) ==
  /\ page.items = Pages!Segment(v, p, limit) /\ page.next \in Nat
  /\ page.next # Pages!End => /\ p + limit < Len(v)
                              /\ p + limit = IF listing = "bets" THEN page.next * limit ELSE page.next
  /\ page.next = Pages!End => p + limit >= Len(v)

(* Every listing cuts its pages so.                                        *)
LEMMA PageFacts ==
  ASSUME listing \in DOMAIN Pages!Kinds, NEW v, IsView(v), NEW at \in Nat, NEW limit \in Nat, limit > 0,
         NEW p \in Nat, p = IF listing = "bets" THEN at * limit ELSE at
  PROVE  Cut(v, p, limit, Pages!PageOf(v, at, limit))
  <1> DEFINE page == Pages!PageOf(v, at, limit)
  <1>1. Len(v) \in Nat /\ Len(v) =< MaxRows
    BY ViewFacts
  <1>2. CASE listing # "bets"
    <2>1. page = [items |-> Pages!Segment(v, p, limit),
                  next |-> IF p + limit < Len(v) THEN p + limit ELSE Pages!End]
      BY <1>2 DEF Pages!Kinds, Pages!PageOf, Pages!Slice, Pages!Offset, Pages!AuditLogs, Pages!GetMarkets,
         Pages!MarketsByStatus, Pages!Guardians, Pages!ArchivedMarketIds
    <2>2. Pages!End \in Nat /\ Pages!End > MaxRows
      BY PagesConstants DEF Pages!End
    <2>3. page.items = Pages!Segment(v, p, limit)
      BY <2>1
    <2>4. page.next = IF p + limit < Len(v) THEN p + limit ELSE Pages!End
      BY <2>1
    <2> QED
      BY <1>1, <1>2, <2>2, <2>3, <2>4, PagesConstants DEF Cut
  <1>3. CASE listing = "bets"
    <2>1. page = [items |-> Pages!Segment(v, p, limit),
                  next |-> IF (at + 1) * limit < Len(v) THEN at + 1 ELSE Pages!End]
      BY <1>3 DEF Pages!PageOf, Pages!UserBets
    <2>2. Pages!End \in Nat /\ Pages!End > MaxRows
      BY PagesConstants DEF Pages!End
    <2>3. page.items = Pages!Segment(v, p, limit)
      BY <2>1
    <2>4. page.next = IF (at + 1) * limit < Len(v) THEN at + 1 ELSE Pages!End
      BY <2>1
    <2>5. (at + 1) * limit = p + limit
      BY <1>3
    <2>6. at =< p
      BY <1>3
    <2> QED
      BY <1>1, <1>3, <2>2, <2>3, <2>4, <2>5, <2>6, PagesConstants DEF Cut
  <1> QED
    BY <1>2, <1>3

(* Init establishes the invariant.                                         *)
LEMMA PagesInit ==
  ASSUME Pages!Init PROVE PagesType /\ ViewsHonest /\ WalkHonest /\ Pages!WalkExact
  <1>1. /\ listing \in DOMAIN Pages!Kinds /\ table = <<1, 2>>
        /\ views = [k \in 0..MaxRows |-> <<>>]
        /\ walk = [limit |-> 0, at |-> 0, seen |-> <<>>, used |-> <<>>, open |-> FALSE]
    BY DEF Pages!Init
  <1>2. PagesType
    BY <1>1 DEF PagesType, Walks
  <1>3. Pages!Shown = {table}
    BY <1>1 DEF Pages!Shown, Pages!ToSet
  <1>4. IsView(table)
    BY <1>1, PagesConstants DEF IsView
  <1>5. ViewsHonest
    BY <1>3, <1>4 DEF ViewsHonest, IsView, SameRowSamePlace
  <1>6. WalkHonest
    BY <1>1 DEF WalkHonest, Pages!SeenOnce
  <1>7. Pages!WalkExact
    BY <1>1 DEF Pages!WalkExact
  <1> QED
    BY <1>2, <1>5, <1>6, <1>7

(* What the walk has come to depends on nothing else.                      *)
LEMMA WalkStays ==
  ASSUME PagesType, WalkHonest, Pages!WalkExact, walk' = walk, listing' = listing
  PROVE  WalkHonest' /\ Pages!WalkExact'
  <1>1. Position' = Position
    BY DEF Position
  <1>2. Pages!Seen' = Pages!Seen /\ Pages!Always' = Pages!Always
    BY DEF Pages!Seen, Pages!Always, Pages!ToSet
  <1>3. Pages!Unmoved' <=> Pages!Unmoved
    BY DEF Pages!Unmoved, Pages!Compatible, Pages!ToSet
  <1>4. Pages!SeenOnce' <=> Pages!SeenOnce
    BY DEF Pages!SeenOnce
  <1>5. WalkHonest'
    BY <1>1, <1>2, <1>3, <1>4 DEF WalkHonest
  <1> QED
    BY <1>2, <1>3, <1>4, <1>5 DEF Pages!WalkExact

(* The rows change.                                                        *)
LEMMA ChangePages ==
  ASSUME PagesType, ViewsHonest, WalkHonest, Pages!WalkExact, Pages!Change
  PROVE  (PagesType /\ ViewsHonest /\ WalkHonest /\ Pages!WalkExact)'
  <1>1. /\ IsView(table') /\ UNCHANGED <<listing, views, walk>>
        /\ listing = "markets" =>
             \A w \in Pages!Shown : SameRowSamePlace(table', w) /\ SameRowSamePlace(w, table')
    BY TableChanges
  <1>2. PICK c : c = table'
    OBVIOUS
  <1>3. Pages!Shown' \subseteq Pages!Shown \cup {c}
    BY <1>1, <1>2 DEF Pages!Shown, Pages!ToSet
  <1>4. ViewsHonest'
    BY <1>1, <1>2, <1>3, OneMoreView
  <1>5. PagesType'
    BY <1>1 DEF PagesType
  <1> QED
    BY <1>1, <1>4, <1>5, WalkStays

(* Another reader fills a view, or one expires.                            *)
LEMMA CachePages ==
  ASSUME PagesType, ViewsHonest, WalkHonest, Pages!WalkExact, Pages!OtherReader \/ Pages!Expire
  PROVE  (PagesType /\ ViewsHonest /\ WalkHonest /\ Pages!WalkExact)'
  <1>1. UNCHANGED <<listing, table, walk>>
    BY DEF Pages!OtherReader, Pages!Expire
  <1>2. PICK c : c = Pages!Current(walk.limit)
    OBVIOUS
  <1>3. table \in Pages!Shown /\ IsView(table) /\ walk.limit \in Nat
    BY DEF ViewsHonest, Pages!Shown, PagesType, Walks
  <1>4. IsView(c) /\ DOMAIN c \subseteq DOMAIN table /\ \A p \in DOMAIN c : c[p] = table[p]
    BY <1>2, <1>3, CurrentView
  <1>5. listing = "markets" =>
          \A w \in Pages!Shown : SameRowSamePlace(c, w) /\ SameRowSamePlace(w, c)
    BY <1>3, <1>4 DEF ViewsHonest, SameRowSamePlace
  <1>6. PICK k \in Pages!CacheKeys : views' = [views EXCEPT ![k] = <<c>>] \/ views' = [views EXCEPT ![k] = <<>>]
    BY <1>2 DEF Pages!OtherReader, Pages!Expire
  <1>7. Pages!Shown' \subseteq Pages!Shown \cup {c}
    <2>1. \A j \in DOMAIN views : views'[j] = views[j] \/ views'[j] = <<c>> \/ views'[j] = <<>>
      BY <1>6
    <2>2. DOMAIN views' = DOMAIN views /\ <<c>>[1] = c
      BY <1>6
    <2> QED
      BY <1>1, <2>1, <2>2 DEF Pages!Shown
  <1>8. PagesType'
    BY <1>1, <1>6 DEF PagesType
  <1>9. ViewsHonest'
    BY <1>1, <1>4, <1>5, <1>7, OneMoreView
  <1> QED
    BY <1>1, <1>8, <1>9, WalkStays

(* The walk begins.                                                        *)
LEMMA BeginPages ==
  ASSUME PagesType, ViewsHonest, WalkHonest, Pages!WalkExact, Pages!Begin
  PROVE  (PagesType /\ ViewsHonest /\ WalkHonest /\ Pages!WalkExact)'
  <1>1. walk.limit = 0 /\ UNCHANGED <<listing, table, views>>
    BY DEF Pages!Begin
  <1>2. PICK n \in Nat : n > 0 /\ walk' = [walk EXCEPT !.limit = n, !.open = TRUE]
    <2>1. PICK limit \in 0..(MAX_PAGE_LIMIT + 1) :
            LET asked == IF listing \in {"featured", "content", "bets"}
                         THEN Pages!Clamp(limit) ELSE Pages!Cap(limit) IN
            asked > 0 /\ walk' = [walk EXCEPT !.limit = asked, !.open = TRUE]
      BY DEF Pages!Begin
    <2>2. Pages!Clamp(limit) \in Nat /\ Pages!Cap(limit) \in Nat
      BY PagesConstants DEF Pages!Clamp, Pages!Cap, Pages!Least
    <2> QED
      BY <2>1, <2>2
  <1>3. walk \in Walks /\ walk.used = <<>> /\ walk.at = 0 /\ Len(walk.seen) = 0
    BY <1>1 DEF PagesType, WalkHonest
  <1>4. walk' \in Walks /\ walk'.used = <<>> /\ walk'.at = 0 /\ walk'.seen = walk.seen /\ walk'.open
        /\ walk'.limit = n
    BY <1>2, <1>3 DEF Walks
  <1>5. DOMAIN walk.seen = {}
    BY <1>3 DEF Walks
  <1>6. Pages!Shown' \subseteq Pages!Shown
    BY <1>1, <1>3, <1>4 DEF Pages!Shown, Pages!ToSet
  <1>7. ViewsHonest'
    BY <1>1, <1>6 DEF ViewsHonest, IsView, SameRowSamePlace
  <1>8. PagesType'
    BY <1>1, <1>3, <1>4 DEF PagesType
  <1>9. Pages!SeenOnce' /\ WalkHonest'
    BY <1>2, <1>4, <1>5 DEF WalkHonest, Pages!SeenOnce
  <1>10. Pages!WalkExact'
    BY <1>4 DEF Pages!WalkExact
  <1> QED
    BY <1>7, <1>8, <1>9, <1>10

(* The next page.                                                          *)
LEMMA NextPages ==
  ASSUME PagesType, ViewsHonest, WalkHonest, Pages!WalkExact, Pages!NextPage
  PROVE  (PagesType /\ ViewsHonest /\ WalkHonest /\ Pages!WalkExact)'
  <1>1. PICK c : c = Pages!Current(walk.limit)
    OBVIOUS
  <1>2. /\ table \in Pages!Shown /\ IsView(table) /\ walk \in Walks /\ listing \in DOMAIN Pages!Kinds
        /\ Len(walk.seen) = Len(walk.used)
    BY DEF ViewsHonest, Pages!Shown, PagesType
  <1>3. IsView(c) /\ DOMAIN c \subseteq DOMAIN table /\ \A p \in DOMAIN c : c[p] = table[p]
    BY <1>1, <1>2, CurrentView DEF Walks
  <1>4. PICK k : k = Pages!KeyAt(walk.at)
    OBVIOUS
  <1>5. PICK v : v = IF k \in Pages!CacheKeys /\ views[k] # <<>> THEN views[k][1] ELSE c
    OBVIOUS
  <1>6. PICK page : page = Pages!PageOf(v, walk.at, walk.limit)
    OBVIOUS
  <1>7. /\ walk.open /\ UNCHANGED <<listing, table>>
        /\ walk' = [walk EXCEPT !.at = page.next, !.open = page.next # Pages!End,
                                !.seen = Append(@, page.items), !.used = Append(@, v)]
        /\ views' = views \/ (k \in Pages!CacheKeys /\ views' = [views EXCEPT ![k] = <<v>>])
    BY <1>1, <1>4, <1>5, <1>6 DEF Pages!NextPage
  <1>8. Pages!CacheKeys \subseteq 0..MaxRows /\ DOMAIN views = 0..MaxRows
    BY PagesConstants DEF Pages!CacheKeys, PagesType
  <1>9. \/ v \in Pages!Shown
        \/ v = c
    BY <1>5, <1>8 DEF Pages!Shown
  <1>10. /\ IsView(v)
         /\ listing = "markets" =>
              \A w \in Pages!Shown : SameRowSamePlace(v, w) /\ SameRowSamePlace(w, v)
    BY <1>2, <1>3, <1>9 DEF ViewsHonest, SameRowSamePlace
  <1>11. PICK U \in Seq(Seq(0..MaxRows)) : U = walk.used
    BY <1>2 DEF Walks
  <1>12. PICK S \in Seq(SUBSET Nat) : S = walk.seen
    BY <1>2 DEF Walks
  <1>13. PICK L \in Nat : L = walk.limit /\ L > 0
    BY <1>2, <1>7 DEF Walks, WalkHonest
  <1>14. PICK P \in Nat : P = Position
    BY <1>2 DEF Position, Walks
  <1>15. PICK It : It = page.items
    OBVIOUS
  <1>16. /\ It = Pages!Segment(v, P, L) /\ page.next \in Nat
         /\ page.next # Pages!End => /\ P + L < Len(v)
                                     /\ P + L = IF listing = "bets" THEN page.next * L ELSE page.next
         /\ page.next = Pages!End => P + L >= Len(v)
    <2>1. PICK A \in Nat : A = walk.at
      BY <1>2 DEF Walks
    <2>2. P = IF listing = "bets" THEN A * L ELSE A
      BY <1>13, <1>14, <2>1 DEF Position
    <2>3. page = Pages!PageOf(v, A, L) /\ IsView(v)
      BY <1>6, <1>10, <1>13, <2>1
    <2>4. Cut(v, P, L, page)
      BY <1>2, <1>13, <1>14, <2>1, <2>2, <2>3, PageFacts
    <2> QED
      BY <1>15, <2>4 DEF Cut
  <1>17. /\ DOMAIN v = 1..Len(v) /\ Len(v) \in Nat /\ Len(v) =< MaxRows /\ v \in Seq(0..MaxRows)
         /\ \A a, b \in DOMAIN v : v[a] # 0 /\ v[a] = v[b] => a = b
    BY <1>10, ViewFacts
  <1>18. \A p : p \in It <=> p \in DOMAIN v /\ P < p /\ p =< P + L /\ v[p] # 0
    BY <1>16 DEF Pages!Segment
  <1>19. It \in SUBSET Nat
    BY <1>17, <1>18
  <1> DEFINE n == Len(U)
  <1>20. /\ n \in Nat /\ DOMAIN U = 1..n /\ DOMAIN S = 1..n /\ Len(S) = n
         /\ Append(U, v) \in Seq(Seq(0..MaxRows)) /\ DOMAIN Append(U, v) = 1..(n + 1)
         /\ Append(S, It) \in Seq(SUBSET Nat) /\ DOMAIN Append(S, It) = 1..(n + 1)
         /\ Len(Append(U, v)) = n + 1 /\ Len(Append(S, It)) = n + 1
         /\ \A j \in 1..n : Append(U, v)[j] = U[j] /\ Append(S, It)[j] = S[j]
         /\ Append(U, v)[n + 1] = v /\ Append(S, It)[n + 1] = It
    BY <1>2, <1>11, <1>12, <1>17, <1>19
  <1>21. PICK V \in Seq(Seq(0..MaxRows)) : V = Append(U, v)
    BY <1>20
  <1>22. PICK T \in Seq(SUBSET Nat) : T = Append(S, It)
    BY <1>20
  <1>23. /\ n \in Nat /\ DOMAIN U = 1..n /\ DOMAIN S = 1..n
         /\ DOMAIN V = 1..(n + 1) /\ DOMAIN T = 1..(n + 1) /\ Len(V) = n + 1 /\ Len(T) = n + 1
         /\ \A j \in 1..n : V[j] = U[j] /\ T[j] = S[j]
         /\ V[n + 1] = v /\ T[n + 1] = It
         /\ \A j \in 1..(n + 1) : j \in 1..n \/ j = n + 1
    BY <1>20, <1>21, <1>22
  <1>24. PICK o \in BOOLEAN : o = (page.next # Pages!End)
    BY Zenon
  <1>25. walk' \in Walks /\ walk'.used = V /\ walk'.seen = T /\ walk'.at = page.next /\ walk'.open = o
         /\ walk'.limit = L
    <2>1. walk' = [walk EXCEPT !.at = page.next, !.open = o, !.seen = T, !.used = V]
      BY <1>7, <1>11, <1>12, <1>15, <1>21, <1>22, <1>24
    <2> QED
      BY <1>2, <1>13, <1>16, <2>1 DEF Walks
  <1> HIDE DEF n
  <1>26. Pages!Shown' \subseteq Pages!Shown \cup {v}
    <2>1. Pages!ToSet(walk.used)' \subseteq Pages!ToSet(walk.used) \cup {v}
      BY <1>11, <1>23, <1>25 DEF Pages!ToSet
    <2>2. {views[j][1] : j \in {i \in DOMAIN views : views[i] # <<>>}}'
            \subseteq {views[j][1] : j \in {i \in DOMAIN views : views[i] # <<>>}} \cup {v}
      <3>1. DOMAIN views' = DOMAIN views /\ <<v>>[1] = v
        BY <1>7
      <3>2. \A j \in DOMAIN views : views'[j] = views[j] \/ views'[j] = <<v>>
        BY <1>7, <1>8
      <3> QED
        BY <3>1, <3>2
    <2> QED
      BY <1>7, <2>1, <2>2 DEF Pages!Shown
  <1>27. ViewsHonest'
    BY <1>7, <1>10, <1>26, OneMoreView
  <1>28. PagesType'
    BY <1>7, <1>8, <1>23, <1>25 DEF PagesType
  <1>29. \A j \in 1..n : U[j] \in Pages!Shown /\ IsView(U[j])
    BY <1>11, <1>23 DEF Pages!Shown, Pages!ToSet, ViewsHonest
  <1>30. /\ \A j \in 1..n : \A p \in S[j] : p \in DOMAIN U[j] /\ U[j][p] # 0 /\ p =< P
         /\ U = <<>> => P = 0
    <2>1. walk.used = <<>> => walk.at = 0
      BY <1>7 DEF WalkHonest
    <2>2. U = <<>> => P = 0
      BY <1>2, <1>11, <1>14, <2>1 DEF Position, Walks
    <2> QED
      BY <1>7, <1>11, <1>12, <1>14, <1>23, <2>2 DEF WalkHonest
  <1>31. ASSUME Pages!Unmoved'
         PROVE  /\ Pages!Unmoved
                /\ \A j \in 1..n : SameRowSamePlace(U[j], v) /\ SameRowSamePlace(v, U[j])
    <2>1. ASSUME NEW i \in 1..(n + 1), NEW j \in 1..(n + 1) PROVE Pages!Compatible(V[i], V[j])
      <3>1. V[i] \in Pages!ToSet(walk.used)' /\ V[j] \in Pages!ToSet(walk.used)'
        BY <1>23, <1>25, <2>1 DEF Pages!ToSet
      <3> QED
        BY <1>31, <3>1 DEF Pages!Unmoved, Pages!Compatible
    <2>2. Pages!Unmoved
      BY <1>11, <1>23, <2>1 DEF Pages!Unmoved, Pages!ToSet
    <2>3. ASSUME NEW j \in 1..n PROVE SameRowSamePlace(U[j], v) /\ SameRowSamePlace(v, U[j])
      <3>1. Pages!Compatible(U[j], v) /\ Pages!Compatible(v, U[j])
        BY <1>23, <2>1
      <3>2. listing = "markets" => SameRowSamePlace(U[j], v) /\ SameRowSamePlace(v, U[j])
        BY <1>10, <1>29
      <3> QED
        BY <1>10, <1>29, <3>1, <3>2, SamePlace
    <2> QED
      BY <2>2, <2>3
  <1>32. ASSUME Pages!Unmoved' PROVE Pages!SeenOnce'
    <2>0. Pages!SeenOnce
      BY <1>31, <1>32 DEF WalkHonest
    <2>1. ASSUME NEW i \in 1..(n + 1), NEW j \in 1..(n + 1), NEW p \in T[i], NEW q \in T[j], V[i][p] = V[j][q]
          PROVE  i = j /\ p = q
      <3>1. CASE i \in 1..n /\ j \in 1..n
        <4>1. p \in S[i] /\ q \in S[j] /\ U[i][p] = U[j][q]
          BY <1>23, <2>1, <3>1
        <4>2. /\ i \in DOMAIN walk.seen /\ j \in DOMAIN walk.seen
              /\ p \in walk.seen[i] /\ q \in walk.seen[j] /\ walk.used[i][p] = walk.used[j][q]
          BY <1>11, <1>12, <1>23, <3>1, <4>1
        <4> QED
          BY <2>0, <4>2, Zenon DEF Pages!SeenOnce
      <3>2. CASE i \in 1..n /\ j = n + 1
        <4>1. p \in S[i] /\ q \in It /\ U[i][p] = v[q]
          BY <1>23, <2>1, <3>2
        <4>2. p \in DOMAIN U[i] /\ U[i][p] # 0 /\ p =< P /\ q \in DOMAIN v /\ P < q
          BY <1>18, <1>30, <3>2, <4>1
        <4>3. p = q
          BY <1>31, <1>32, <3>2, <4>1, <4>2 DEF SameRowSamePlace
        <4> QED
          BY <1>17, <4>2, <4>3
      <3>3. CASE j \in 1..n /\ i = n + 1
        <4>1. q \in S[j] /\ p \in It /\ U[j][q] = v[p]
          BY <1>23, <2>1, <3>3
        <4>2. q \in DOMAIN U[j] /\ U[j][q] # 0 /\ q =< P /\ p \in DOMAIN v /\ P < p
          BY <1>18, <1>30, <3>3, <4>1
        <4>3. p = q
          BY <1>31, <1>32, <3>3, <4>1, <4>2 DEF SameRowSamePlace
        <4> QED
          BY <1>17, <4>2, <4>3
      <3>4. CASE i = n + 1 /\ j = n + 1
        BY <1>17, <1>18, <1>23, <2>1, <3>4
      <3> QED
        BY <1>23, <3>1, <3>2, <3>3, <3>4
    <2> QED
      BY <1>23, <1>25, <2>1 DEF Pages!SeenOnce
  <1>33. ASSUME Pages!Unmoved', NEW r \in 1..MaxRows,
                \A j \in 1..(n + 1) : \E p \in DOMAIN V[j] : V[j][p] = r,
                \A p \in DOMAIN v : v[p] = r => p =< P + L
         PROVE  r \in Pages!Seen'
    <2>1. PICK p \in DOMAIN v : v[p] = r
      BY <1>23, <1>33
    <2>2. p =< P + L /\ p \in Nat /\ p > 0 /\ v[p] # 0
      BY <1>17, <1>33, <2>1
    <2>3. CASE P < p
      <3>1. p \in T[n + 1] /\ n + 1 \in DOMAIN T /\ V[n + 1][p] = r
        BY <1>18, <1>23, <2>1, <2>2, <2>3
      <3> QED
        BY <1>25, <3>1 DEF Pages!Seen
    <2>4. CASE p =< P
      <3>1. U # <<>>
        BY <1>30, <2>2, <2>4
      <3>2. ASSUME NEW j \in 1..n PROVE \E q \in DOMAIN U[j] : U[j][q] = r /\ q =< P
        <4>0. j \in 1..(n + 1) /\ V[j] = U[j]
          BY <1>23, <3>2
        <4>1. PICK q \in DOMAIN U[j] : U[j][q] = r
          BY <1>33, <4>0
        <4>2. p = q
          BY <1>31, <1>33, <2>1, <2>2, <4>1 DEF SameRowSamePlace
        <4> QED
          BY <2>4, <4>1, <4>2
      <3>3. r \in Pages!Seen
        <4>1. WalkHonest /\ walk.open /\ Pages!Unmoved /\ walk.used # <<>>
          BY <1>7, <1>11, <1>31, <1>33, <3>1
        <4>2. \A j \in DOMAIN walk.used : \E q \in DOMAIN walk.used[j] : walk.used[j][q] = r /\ q =< Position
          BY <1>11, <1>14, <1>23, <3>2
        <4> QED
          BY <1>33, <4>1, <4>2 DEF WalkHonest
      <3>4. PICK j \in 1..n : \E q \in S[j] : U[j][q] = r
        BY <1>11, <1>12, <1>23, <3>3, SMTT(30) DEF Pages!Seen
      <3>5. PICK q \in S[j] : U[j][q] = r
        BY <3>4
      <3>6. j \in DOMAIN T /\ q \in T[j] /\ V[j][q] = r
        BY <1>23, <3>4, <3>5
      <3> QED
        BY <1>25, <3>6 DEF Pages!Seen
    <2> QED
      BY <2>2, <2>3, <2>4
  <1>34. Position' = P + L \/ ~walk'.open
    BY <1>7, <1>16, <1>24, <1>25 DEF Position
  <1>35. \A j \in 1..(n + 1) : \A p \in T[j] : p \in DOMAIN V[j] /\ V[j][p] # 0 /\ p =< P + L
    <2>1. ASSUME NEW j \in 1..n, NEW p \in S[j] PROVE p \in DOMAIN U[j] /\ U[j][p] # 0 /\ p =< P + L
      <3>1. p \in DOMAIN U[j] /\ U[j][p] # 0 /\ p =< P /\ U[j] \in Seq(0..MaxRows)
        BY <1>11, <1>23, <1>30, <2>1
      <3> QED
        BY <1>13, <1>14, <3>1
    <2>2. \A p \in It : p \in DOMAIN v /\ v[p] # 0 /\ p =< P + L
      BY <1>18
    <2> QED
      BY <1>23, <2>1, <2>2
  <1>36. WalkHonest'
    <2>1. walk'.limit # 0 /\ walk'.used # <<>>
      BY <1>13, <1>23, <1>25
    <2>2. ASSUME walk'.open, Pages!Unmoved', NEW r \in 1..MaxRows,
                 \A j \in DOMAIN V : \E p \in DOMAIN V[j] : V[j][p] = r /\ p =< Position'
          PROVE  r \in Pages!Seen'
      <3>1. Position' = P + L
        BY <1>34, <2>2
      <3>2. PICK q \in DOMAIN v : v[q] = r /\ q =< P + L
        BY <1>23, <2>2, <3>1
      <3>3. \A p \in DOMAIN v : v[p] = r => p = q
        BY <1>17, <3>2, <2>2, PagesConstants
      <3>4. \A p \in DOMAIN v : v[p] = r => p =< P + L
        BY <3>2, <3>3
      <3> QED
        BY <1>23, <1>33, <2>2, <3>4
    <2>3. walk'.open => \A j \in 1..(n + 1) : \A p \in T[j] : p =< Position'
      BY <1>34, <1>35
    <2> QED
      BY <1>23, <1>25, <1>32, <1>35, <2>1, <2>2, <2>3 DEF WalkHonest
  <1>37. Pages!WalkExact'
    <2>1. ASSUME ~walk'.open, Pages!Unmoved', NEW r \in Pages!Always' PROVE r \in Pages!Seen'
      <3>1. P + L >= Len(v)
        BY <1>16, <1>24, <1>25, <2>1
      <3>2. \A p \in DOMAIN v : p =< P + L
        BY <1>17, <3>1
      <3>3. r \in 1..MaxRows /\ \A j \in 1..(n + 1) : \E p \in DOMAIN V[j] : V[j][p] = r
        BY <1>23, <1>25 DEF Pages!Always, Pages!Rows, Pages!ToSet
      <3> QED
        BY <1>33, <2>1, <3>2, <3>3
    <2> QED
      BY <1>32, <2>1 DEF Pages!WalkExact
  <1> QED
    BY <1>27, <1>28, <1>36, <1>37

(* While the listing is followed, every step is one of Paging or leaves it *)
(* alone.                                                                  *)
LEMMA PagesFollowed ==
  ASSUME [RecoveryNext]_recoveryVars, focus' = "pages"
  PROVE  focus = "pages" /\ (Pages!Next \/ UNCHANGED pageVars)
  BY DEF RecoveryNext, recoveryVars, ContractStep, CacheStep, RedisStep, ProcessStep, ReadsStep,
         PagesStep, SchemaStep

(* featured_markets, content, blockchain_user_bets, audit_logs and the     *)
(* queries of the contract: for any number of rows and any page limit, a   *)
(* walk that has come to its end has received every row that all the views *)
(* it met had, each once, unless rows moved.                               *)
THEOREM WalkExactHolds == RecoverySpec => []WalkExact
  <1>1. RecoveryInit => PagesInv
    BY PagesInit DEF RecoveryInit, PagesInv
  <1>2. PagesInv /\ [RecoveryNext]_recoveryVars => PagesInv'
    <2> SUFFICES ASSUME PagesInv, [RecoveryNext]_recoveryVars, focus' = "pages"
                 PROVE  (PagesType /\ ViewsHonest /\ WalkHonest /\ Pages!WalkExact)'
      BY DEF PagesInv
    <2>1. /\ PagesType /\ ViewsHonest /\ WalkHonest /\ Pages!WalkExact
          /\ Pages!Next \/ UNCHANGED pageVars
      BY PagesFollowed DEF PagesInv
    <2>2. CASE UNCHANGED pageVars
      <3>1. PagesType'
        BY <2>1, <2>2 DEF pageVars, PagesType
      <3>2. ViewsHonest'
        BY <2>1, <2>2 DEF pageVars, ViewsHonest, IsView, SameRowSamePlace, Pages!Shown, Pages!ToSet
      <3> QED
        BY <2>1, <2>2, <3>1, <3>2, WalkStays DEF pageVars
    <2>3. CASE Pages!Next
      BY <2>1, <2>3, ChangePages, CachePages, BeginPages, NextPages DEF Pages!Next
    <2> QED
      BY <2>1, <2>2, <2>3
  <1>3. PagesInv => WalkExact
    BY DEF PagesInv, WalkExact
  <1> QED
    BY <1>1, <1>2, <1>3, PTL DEF RecoverySpec
-----------------------------------------------------------------------------
(***************************************************************************)
(* The end of the process: what main logs of its drains is true.           *)
(***************************************************************************)

(* The workers that have ended their last task and said so.                *)
Ended(c) == {w \in Process!Workers(c) : worker[w] = "completed"}

ProcessType ==
  /\ worker \in [Process!AllWorkers ->
                  {"off", "running", "backoff", "dead", "stopped", "completing", "completed"}]
  /\ read \in [Process!AllWorkers -> Nat]
  /\ completions \in [Process!Coordinators -> Nat]
  /\ result \in [Process!Coordinators -> {"none", "clean", "timeout"}]

(* The counts of a coordinator may lose completions and never invent one:  *)
(* neither the published count nor the count that a completing worker has  *)
(* read, itself left out, exceeds the number of workers that have ended.   *)
CountsHonest ==
  \A c \in Process!Coordinators :
    /\ completions[c] =< Cardinality(Ended(c))
    /\ \A w \in Process!Workers(c) : worker[w] = "completing" => read[w] =< Cardinality(Ended(c))

(* Before the workers are spawned none of them has ended.                  *)
NotYetStarted ==
  phase \in Process!StartupChecks \cup {"starting"} =>
    /\ worker = [w \in Process!AllWorkers |-> "off"]
    /\ completions = [c \in Process!Coordinators |-> 0]
    /\ result = [c \in Process!Coordinators |-> "none"]

ProcessInv ==
  focus = "process" => ProcessType /\ CountsHonest /\ NotYetStarted /\ Process!DrainHonest

(* The coordinators and their workers.                                     *)
LEMMA WorkerFacts ==
  /\ Process!Coordinators = {"email", "global"} /\ Process!AllWorkers = {"mailer", "sync", "monitor"}
  /\ \A c \in Process!Coordinators : \A w \in Process!Workers(c) :
       w \in Process!AllWorkers /\ Process!CoordinatorOf(w) = c
  /\ \A w \in Process!AllWorkers : /\ Process!CoordinatorOf(w) \in Process!Coordinators
                                   /\ w \in Process!Workers(Process!CoordinatorOf(w))
  <1>1. Process!Coordinators = {"email", "global"} /\ Process!AllWorkers = {"mailer", "sync", "monitor"}
    BY DEF Process!Coordinators, Process!AllWorkers, Process!Workers
  <1>2. ASSUME NEW c \in Process!Coordinators, NEW w \in Process!Workers(c)
        PROVE  w \in Process!AllWorkers /\ Process!CoordinatorOf(w) = c
    <2>1. \A d \in Process!Coordinators : w \in Process!Workers(d) <=> d = c
      BY <1>1, <1>2 DEF Process!Workers
    <2> QED
      BY <1>2, <2>1 DEF Process!AllWorkers, Process!CoordinatorOf
  <1>3. ASSUME NEW w \in Process!AllWorkers
        PROVE  /\ Process!CoordinatorOf(w) \in Process!Coordinators
               /\ w \in Process!Workers(Process!CoordinatorOf(w))
    <2>1. PICK c \in Process!Coordinators : w \in Process!Workers(c)
      BY <1>3 DEF Process!AllWorkers
    <2> QED
      BY <1>2, <2>1
  <1> QED
    BY <1>1, <1>2, <1>3

(* How many workers there are, and how many have ended.                    *)
LEMMA EndedFacts ==
  ASSUME NEW c \in Process!Coordinators
  PROVE  /\ IsFiniteSet(Process!Workers(c)) /\ IsFiniteSet(Ended(c)) /\ Cardinality(Ended(c)) \in Nat
         /\ Process!Cardinality(Process!Workers(c)) = Cardinality(Process!Workers(c))
         /\ Cardinality(Ended(c)) >= Cardinality(Process!Workers(c)) => Ended(c) = Process!Workers(c)
  <1>1. IsFiniteSet({"mailer"}) /\ IsFiniteSet({"sync", "monitor"})
    <2>1. IsFiniteSet({"mailer"}) /\ IsFiniteSet({"sync"})
      BY FS_Singleton
    <2>2. {"sync", "monitor"} = {"sync"} \cup {"monitor"}
      OBVIOUS
    <2> QED
      BY <2>1, <2>2, FS_AddElement
  <1>2. IsFiniteSet(Process!Workers(c))
    BY <1>1, Zenon DEF Process!Workers
  <1>3. Ended(c) \subseteq Process!Workers(c)
    BY DEF Ended
  <1>4. /\ IsFiniteSet(Ended(c)) /\ Cardinality(Ended(c)) =< Cardinality(Process!Workers(c))
        /\ Cardinality(Ended(c)) = Cardinality(Process!Workers(c)) => Ended(c) = Process!Workers(c)
    BY <1>2, <1>3, FS_Subset
  <1>5. Cardinality(Ended(c)) \in Nat /\ Cardinality(Process!Workers(c)) \in Nat
    BY <1>2, <1>4, FS_CardinalityType
  <1>6. Process!Cardinality(Process!Workers(c)) = Cardinality(Process!Workers(c))
    BY DEF Process!Cardinality, Cardinality, Process!IsFiniteSet, IsFiniteSet
  <1> QED
    BY <1>2, <1>4, <1>5, <1>6

(* More workers have ended than before, if none that had has not.          *)
LEMMA EndedGrows ==
  ASSUME NEW c \in Process!Coordinators, Ended(c) \subseteq Ended(c)'
  PROVE  Cardinality(Ended(c)) =< Cardinality(Ended(c)')
  <1>1. Ended(c)' \subseteq Process!Workers(c)
    BY DEF Ended
  <1>2. IsFiniteSet(Ended(c)')
    BY <1>1, EndedFacts, FS_Subset
  <1> QED
    BY <1>2, FS_Subset

(* What a step does that changes one worker, which neither completes nor   *)
(* has completed.                                                          *)
LEMMA WorkerMoves ==
  ASSUME ProcessType, CountsHonest, NotYetStarted, Process!DrainHonest,
         NEW w \in Process!AllWorkers, worker[w] \notin {"off", "completed"},
         NEW x \in {"running", "backoff", "dead", "stopped"}, worker' = [worker EXCEPT ![w] = x],
         UNCHANGED <<phase, read, completions, result>>
  PROVE  (ProcessType /\ CountsHonest /\ NotYetStarted /\ Process!DrainHonest)'
  <1>1. ProcessType'
    BY DEF ProcessType
  <1>2. \A v \in Process!AllWorkers : /\ worker'[v] = "completed" <=> worker[v] = "completed"
                                     /\ worker'[v] = "completing" => worker[v] = "completing"
    BY DEF ProcessType
  <1>3. \A c \in Process!Coordinators : Ended(c)' = Ended(c)
    BY <1>2, WorkerFacts DEF Ended
  <1>4. CountsHonest'
    BY <1>2, <1>3, WorkerFacts DEF CountsHonest
  <1>5. Process!DrainHonest'
    BY <1>2, WorkerFacts DEF Process!DrainHonest
  <1>6. NotYetStarted'
    BY DEF NotYetStarted
  <1> QED
    BY <1>1, <1>4, <1>5, <1>6

(* worker_completed reads the published count.                             *)
LEMMA WorkerReads ==
  ASSUME ProcessType, CountsHonest, NotYetStarted, Process!DrainHonest,
         NEW w \in Process!AllWorkers, Process!ReadCount(w)
  PROVE  (ProcessType /\ CountsHonest /\ NotYetStarted /\ Process!DrainHonest)'
  <1>1. /\ worker[w] = "stopped" /\ worker' = [worker EXCEPT ![w] = "completing"]
        /\ read' = [read EXCEPT ![w] = completions[Process!CoordinatorOf(w)]]
        /\ UNCHANGED <<phase, completions, result>>
    BY DEF Process!ReadCount
  <1>2. \A c \in Process!Coordinators : completions[c] \in Nat
    BY DEF ProcessType
  <1>3. ProcessType'
    BY <1>1, <1>2, WorkerFacts DEF ProcessType
  <1>4. \A v \in Process!AllWorkers :
          /\ worker'[v] = "completed" <=> worker[v] = "completed"
          /\ v # w => worker'[v] = worker[v] /\ read'[v] = read[v]
          /\ v = w => read'[v] = completions[Process!CoordinatorOf(v)]
    BY <1>1 DEF ProcessType
  <1>5. \A c \in Process!Coordinators : Ended(c)' = Ended(c)
    BY <1>4, WorkerFacts DEF Ended
  <1>6. CountsHonest'
    <2>1. ASSUME NEW c \in Process!Coordinators, NEW v \in Process!Workers(c), worker'[v] = "completing"
          PROVE  read'[v] =< Cardinality(Ended(c))
      <3>1. v \in Process!AllWorkers /\ Process!CoordinatorOf(v) = c
        BY WorkerFacts, <2>1
      <3>2. CASE v = w
        BY <1>4, <2>1, <3>1, <3>2 DEF CountsHonest
      <3>3. CASE v # w
        BY <1>4, <2>1, <3>1, <3>3 DEF CountsHonest
      <3> QED
        BY <3>2, <3>3
    <2> QED
      BY <1>1, <1>5, <2>1 DEF CountsHonest
  <1>7. Process!DrainHonest'
    BY <1>1, <1>4, WorkerFacts DEF Process!DrainHonest
  <1>8. NotYetStarted'
    BY <1>1 DEF NotYetStarted
  <1> QED
    BY <1>3, <1>6, <1>7, <1>8

(* ... and sends the next one: it has ended itself now.                    *)
LEMMA WorkerSends ==
  ASSUME ProcessType, CountsHonest, NotYetStarted, Process!DrainHonest,
         NEW w \in Process!AllWorkers, Process!SendCount(w)
  PROVE  (ProcessType /\ CountsHonest /\ NotYetStarted /\ Process!DrainHonest)'
  <1>1. PICK d \in Process!Coordinators : d = Process!CoordinatorOf(w) /\ w \in Process!Workers(d)
    BY WorkerFacts
  <1>2. PICK n \in Nat : n = read[w]
    BY DEF ProcessType
  <1>3. /\ worker[w] = "completing" /\ worker' = [worker EXCEPT ![w] = "completed"]
        /\ completions' = [completions EXCEPT ![d] = n + 1] /\ read' = [read EXCEPT ![w] = 0]
        /\ UNCHANGED <<phase, result>>
    BY <1>1, <1>2 DEF Process!SendCount
  <1>4. ProcessType'
    BY <1>2, <1>3 DEF ProcessType
  <1>5. \A v \in Process!AllWorkers :
          /\ worker'[v] = "completed" <=> worker[v] = "completed" \/ v = w
          /\ worker'[v] = "completing" => worker[v] = "completing" /\ read'[v] = read[v]
    BY <1>3 DEF ProcessType
  <1>6. \A c \in Process!Coordinators : Cardinality(Ended(c)) =< Cardinality(Ended(c)')
    <2>1. \A c \in Process!Coordinators : Ended(c) \subseteq Ended(c)'
      BY <1>5, WorkerFacts DEF Ended
    <2> QED
      BY <2>1, EndedGrows
  <1>7. Cardinality(Ended(d)') = Cardinality(Ended(d)) + 1
    <2>1. Ended(d)' = Ended(d) \cup {w} /\ w \notin Ended(d)
      BY <1>1, <1>3, <1>5, WorkerFacts DEF Ended
    <2>2. Cardinality(Ended(d) \cup {w}) = Cardinality(Ended(d)) + 1
      BY <2>1, EndedFacts, FS_AddElement
    <2> QED
      BY <2>1, <2>2
  <1>8. \A c \in Process!Coordinators : /\ Cardinality(Ended(c)) \in Nat /\ completions[c] \in Nat
                                        /\ \A v \in Process!Workers(c) : read[v] \in Nat
                                        /\ Cardinality(Ended(c)') \in Nat
    <2>1. \A c \in Process!Coordinators : IsFiniteSet(Ended(c)')
      <3>1. \A c \in Process!Coordinators : Ended(c)' \subseteq Process!Workers(c)
        BY DEF Ended
      <3> QED
        BY <3>1, EndedFacts, FS_Subset
    <2> QED
      BY <2>1, EndedFacts, FS_CardinalityType, WorkerFacts DEF ProcessType
  <1>9. CountsHonest'
    <2>1. ASSUME NEW c \in Process!Coordinators PROVE completions'[c] =< Cardinality(Ended(c)')
      <3>1. CASE c = d
        <4>1. n =< Cardinality(Ended(d))
          BY <1>1, <1>2, <1>3 DEF CountsHonest
        <4>2. completions'[c] = n + 1
          BY <1>3, <3>1 DEF ProcessType
        <4> QED
          BY <1>2, <1>7, <1>8, <3>1, <4>1, <4>2
      <3>2. CASE c # d
        <4>1. completions'[c] = completions[c] /\ completions[c] =< Cardinality(Ended(c))
          BY <1>3, <2>1, <3>2 DEF ProcessType, CountsHonest
        <4> QED
          BY <1>6, <1>8, <2>1, <4>1
      <3> QED
        BY <3>1, <3>2
    <2>2. ASSUME NEW c \in Process!Coordinators, NEW v \in Process!Workers(c), worker'[v] = "completing"
          PROVE  read'[v] =< Cardinality(Ended(c)')
      <3>1. v \in Process!AllWorkers
        BY WorkerFacts, <2>2
      <3>2. read'[v] = read[v] /\ read[v] =< Cardinality(Ended(c))
        BY <1>5, <2>2, <3>1 DEF CountsHonest
      <3> QED
        BY <1>6, <1>8, <2>2, <3>2
    <2> QED
      BY <2>1, <2>2 DEF CountsHonest
  <1>10. Process!DrainHonest'
    BY <1>3, <1>5, WorkerFacts DEF Process!DrainHonest
  <1>11. NotYetStarted'
    BY <1>3 DEF NotYetStarted
  <1> QED
    BY <1>4, <1>9, <1>10, <1>11

(* The drain of a coordinator is over.                                     *)
LEMMA ProcessDrains ==
  ASSUME ProcessType, CountsHonest, NotYetStarted, Process!DrainHonest, Process!Drain
  PROVE  (ProcessType /\ CountsHonest /\ NotYetStarted /\ Process!DrainHonest)'
  <1>1. PICK c \in Process!Coordinators : Process!Completes(c) \/ Process!TimesOut(c)
    BY DEF Process!Drain
  <1>2. PICK how \in {"clean", "timeout"} :
          /\ Process!Drained(c, how)
          /\ how = "clean" => completions[c] >= Process!Cardinality(Process!Workers(c))
    BY <1>1 DEF Process!Completes, Process!TimesOut
  <1>3. /\ result' = [result EXCEPT ![c] = how] /\ UNCHANGED <<worker, read, completions>>
        /\ phase' \in {"drain_global", "drain_http"}
    BY <1>2 DEF Process!Drained
  <1>4. ProcessType'
    BY <1>2, <1>3 DEF ProcessType
  <1>5. CountsHonest'
    BY <1>3 DEF CountsHonest, Ended
  <1>6. NotYetStarted'
    BY <1>3 DEF NotYetStarted, Process!StartupChecks
  <1>7. how = "clean" => Ended(c) = Process!Workers(c)
    <2>1. completions[c] \in Nat /\ completions[c] =< Cardinality(Ended(c))
      BY <1>1 DEF ProcessType, CountsHonest
    <2>2. /\ Cardinality(Ended(c)) \in Nat /\ Cardinality(Process!Workers(c)) \in Nat
          /\ Process!Cardinality(Process!Workers(c)) = Cardinality(Process!Workers(c))
          /\ Cardinality(Ended(c)) >= Cardinality(Process!Workers(c)) => Ended(c) = Process!Workers(c)
      BY <1>1, EndedFacts, FS_CardinalityType
    <2> QED
      BY <1>2, <2>1, <2>2
  <1>8. Process!DrainHonest'
    BY <1>2, <1>3, <1>7 DEF Process!DrainHonest, ProcessType, Ended
  <1> QED
    BY <1>4, <1>5, <1>6, <1>8

(* The workers are spawned.                                                *)
LEMMA ProcessStarts ==
  ASSUME ProcessType, CountsHonest, NotYetStarted, Process!DrainHonest, Process!StartWorkers
  PROVE  (ProcessType /\ CountsHonest /\ NotYetStarted /\ Process!DrainHonest)'
  <1>1. /\ phase = "starting" /\ phase' = "warming"
        /\ worker' = [w \in Process!AllWorkers |-> "running"] /\ UNCHANGED <<read, completions, result>>
    BY DEF Process!StartWorkers
  <1>2. /\ completions = [c \in Process!Coordinators |-> 0]
        /\ result = [c \in Process!Coordinators |-> "none"]
    BY <1>1 DEF NotYetStarted
  <1>3. ProcessType'
    BY <1>1 DEF ProcessType
  <1>4. \A c \in Process!Coordinators : Ended(c)' = {}
    BY <1>1, WorkerFacts DEF Ended
  <1>5. CountsHonest'
    <2>1. Cardinality({}) = 0
      BY FS_EmptySet
    <2>2. \A c \in Process!Coordinators : Cardinality(Ended(c)') = 0 /\ completions'[c] = 0
      BY <1>1, <1>2, <1>4, <2>1
    <2> QED
      BY <1>1, <2>2, WorkerFacts DEF CountsHonest
  <1>6. NotYetStarted'
    BY <1>1 DEF NotYetStarted, Process!StartupChecks
  <1>7. Process!DrainHonest'
    BY <1>1, <1>2 DEF Process!DrainHonest
  <1> QED
    BY <1>3, <1>5, <1>6, <1>7

(* The other steps change neither a worker nor a count nor a result, and   *)
(* main does not start again.                                              *)
LEMMA ProcessGoesOn ==
  ASSUME ProcessType, CountsHonest, NotYetStarted, Process!DrainHonest,
         UNCHANGED <<worker, read, completions, result>>,
         phase \notin Process!StartupChecks \cup {"starting"} =>
           phase' \notin Process!StartupChecks \cup {"starting"}
  PROVE  (ProcessType /\ CountsHonest /\ NotYetStarted /\ Process!DrainHonest)'
  <1>1. ProcessType' /\ NotYetStarted'
    BY DEF ProcessType, NotYetStarted
  <1>2. CountsHonest'
    BY DEF CountsHonest, Ended
  <1>3. Process!DrainHonest'
    BY DEF Process!DrainHonest
  <1> QED
    BY <1>1, <1>2, <1>3

(* While the process is followed, every step is one of Lifecycle or leaves *)
(* it alone.                                                               *)
LEMMA ProcessFollowed ==
  ASSUME [RecoveryNext]_recoveryVars, focus' = "process"
  PROVE  focus = "process" /\ (Process!Next \/ UNCHANGED processVars)
  BY DEF RecoveryNext, recoveryVars, ContractStep, CacheStep, RedisStep, ProcessStep, ReadsStep,
         PagesStep, SchemaStep

(* ShutdownCoordinator: whatever the workers do, panic and restart, and    *)
(* however many completions two of them that stop together lose, a         *)
(* coordinator whose shutdown returned cleanly ("All workers completed     *)
(* graceful shutdown") had seen each of its workers end its last task.     *)
(* This is the part of ShutdownEnds that needs no fairness.                *)
THEOREM DrainHonestHolds == RecoverySpec => [](focus = "process" => Process!DrainHonest)
  <1>1. RecoveryInit => ProcessInv
    <2> SUFFICES ASSUME RecoveryInit PROVE ProcessType /\ CountsHonest /\ NotYetStarted /\ Process!DrainHonest
      BY DEF ProcessInv
    <2>1. /\ worker = [w \in Process!AllWorkers |-> "off"] /\ read = [w \in Process!AllWorkers |-> 0]
          /\ completions = [c \in Process!Coordinators |-> 0]
          /\ result = [c \in Process!Coordinators |-> "none"]
      BY DEF RecoveryInit, Process!Init
    <2>2. \A c \in Process!Coordinators : Cardinality(Ended(c)) \in Nat
      BY EndedFacts
    <2>3. ProcessType /\ NotYetStarted /\ Process!DrainHonest
      BY <2>1 DEF ProcessType, NotYetStarted, Process!DrainHonest
    <2>4. CountsHonest
      BY <2>1, <2>2, WorkerFacts DEF CountsHonest
    <2> QED
      BY <2>3, <2>4
  <1>2. ProcessInv /\ [RecoveryNext]_recoveryVars => ProcessInv'
    <2> SUFFICES ASSUME ProcessInv, [RecoveryNext]_recoveryVars, focus' = "process"
                 PROVE  (ProcessType /\ CountsHonest /\ NotYetStarted /\ Process!DrainHonest)'
      BY DEF ProcessInv
    <2>1. /\ ProcessType /\ CountsHonest /\ NotYetStarted /\ Process!DrainHonest
          /\ Process!Next \/ UNCHANGED processVars
      BY ProcessFollowed DEF ProcessInv
    <2>2. CASE UNCHANGED processVars
      BY <2>1, <2>2, ProcessGoesOn DEF processVars
    <2>3. CASE Process!Startup \/ Process!WarmCaches \/ Process!Bind \/ Process!Signal
               \/ Process!Accept \/ Process!Respond \/ Process!Exit
      <3>1. UNCHANGED <<worker, read, completions, result>>
        BY <2>3 DEF Process!Startup, Process!ValidateConfig, Process!OpenRedis, Process!ConnectDatabase,
           Process!ProbeRpc, Process!CheckPassphrase, Process!StartEmail, Process!Check,
           Process!WarmCaches, Process!Bind, Process!Signal, Process!Accept, Process!Respond, Process!Exit
      <3>2. phase \notin Process!StartupChecks \cup {"starting"} =>
              phase' \notin Process!StartupChecks \cup {"starting"}
        BY <2>3 DEF Process!Startup, Process!ValidateConfig, Process!OpenRedis, Process!ConnectDatabase,
           Process!ProbeRpc, Process!CheckPassphrase, Process!StartEmail, Process!Check, Process!StartupChecks,
           Process!WarmCaches, Process!Bind, Process!Signal, Process!Accept, Process!Respond, Process!Exit
      <3> QED
        BY <2>1, <3>1, <3>2, ProcessGoesOn
    <2>4. CASE Process!StartWorkers
      BY <2>1, <2>4, ProcessStarts
    <2>5. CASE Process!Drain
      BY <2>1, <2>5, ProcessDrains
    <2>6. ASSUME NEW w \in Process!AllWorkers, Process!Stop(w) \/ Process!Restart(w) \/ Process!Panic(w)
          PROVE  (ProcessType /\ CountsHonest /\ NotYetStarted /\ Process!DrainHonest)'
      <3>1. /\ worker[w] \in {"running", "backoff"} /\ UNCHANGED <<phase, read, completions, result>>
            /\ \E x \in {"running", "backoff", "dead", "stopped"} : worker' = [worker EXCEPT ![w] = x]
        BY <2>6 DEF Process!Stop, Process!Restart, Process!Panic, Process!AfterPanic
      <3> QED
        BY <2>1, <2>6, <3>1, WorkerMoves
    <2>7. ASSUME NEW w \in Process!AllWorkers, Process!ReadCount(w) \/ Process!SendCount(w)
          PROVE  (ProcessType /\ CountsHonest /\ NotYetStarted /\ Process!DrainHonest)'
      BY <2>1, <2>7, WorkerReads, WorkerSends
    <2> QED
      BY <2>1, <2>2, <2>3, <2>4, <2>5, <2>6, <2>7 DEF Process!Next, Process!WorkerStep
  <1>3. ProcessInv => (focus = "process" => Process!DrainHonest)
    BY DEF ProcessInv
  <1> QED
    BY <1>1, <1>2, <1>3, PTL DEF RecoverySpec
-----------------------------------------------------------------------------
(***************************************************************************)
(* The key schema: the search in three colours is right about circles.     *)
(***************************************************************************)

(* The fields that no circle can be reached from: every set of fields each *)
(* of which refers to one of them leaves such a field out.                 *)
Trap(S) == \A f \in S : deps[f] \cap S # {}
Safe == {f \in Schema!Names : \A S \in SUBSET Schema!Names : Trap(S) => f \notin S}

SchemaType ==
  /\ deps \in [Schema!Names -> SUBSET Schema!Names]
  /\ color \in [Schema!Names -> {0, 1, 2}]
  /\ done \in [Schema!Names -> SUBSET Schema!Names]
  /\ path \in Seq(Schema!Names)
  /\ state \in {"templates", "search", "validated"}

(* The path is a chain of references, none of its fields twice, and these  *)
(* are the fields of colour 1.                                             *)
PathChained ==
  /\ \A i \in 1..(Len(path) - 1) : path[i + 1] \in deps[path[i]]
  /\ \A i, j \in 1..Len(path) : path[i] = path[j] => i = j
  /\ \A f \in Schema!Names : color[f] = 1 <=> \E i \in 1..Len(path) : path[i] = f

(* What is finished is safe: a field of colour 2, and what a field on the  *)
(* path has looked at, unless it is the next field of the path.            *)
FinishedSafe ==
  /\ \A f \in Schema!Names : color[f] = 2 => f \in Safe
  /\ \A i \in 1..Len(path) : \A g \in done[path[i]] :
       g \in Safe \/ (i < Len(path) /\ g = path[i + 1])

(* What is found so far is there.                                          *)
FoundRight ==
  /\ state = "templates" => path = <<>> /\ cycle = <<>>
  /\ state = "search" => errors = flaws
  /\ cycle # <<>> => Schema!IsCycle(cycle) /\ Schema!Circular
  /\ state = "validated" => Schema!Verdict

SchemaInv ==
  focus = "schema" => SchemaType /\ PathChained /\ FinishedSafe /\ FoundRight

(* The fields are a sequence of names.                                     *)
LEMMA FieldFacts ==
  /\ Fields \in Seq(Schema!Names)
  /\ \A f : f \in Schema!Names <=> \E i \in 1..Len(Fields) : Fields[i] = f
  <1>1. Fields \in Seq(Schema!Names)
    BY RecoveryAssumption DEF Schema!KeySchemaAssumption
  <1>2. DOMAIN Fields = 1..Len(Fields)
    BY <1>1
  <1>3. Schema!Names = {Fields[i] : i \in DOMAIN Fields}
    BY DEF Schema!Names, Schema!ToSet
  <1> QED
    BY <1>1, <1>2, <1>3

(* The first of some fields is one of them.                                *)
LEMMA FirstFacts ==
  ASSUME NEW S, S \subseteq Schema!Names, S # {}
  PROVE  Schema!First(S) \in S
  <1> DEFINE B == {i \in DOMAIN Fields : Fields[i] \in S}
  <1>1. DOMAIN Fields = 1..Len(Fields) /\ Len(Fields) \in Nat
    BY FieldFacts
  <1>2. B \in SUBSET Nat /\ B # {}
    BY <1>1, FieldFacts
  <1>3. \E n \in B : \A m \in B : n =< m
    BY <1>2, SmallestNumber
  <1>4. Schema!Min(B) \in B
    BY <1>3 DEF Schema!Min
  <1> QED
    BY <1>4 DEF Schema!First

(* A field is safe when all that it refers to is.                          *)
LEMMA SafeBySuccessors ==
  ASSUME NEW f \in Schema!Names, deps[f] \subseteq Safe
  PROVE  f \in Safe
  <1> SUFFICES ASSUME NEW S \in SUBSET Schema!Names, Trap(S), f \in S PROVE FALSE
    BY DEF Safe
  <1>1. PICK g \in deps[f] : g \in S
    BY DEF Trap
  <1> QED
    BY <1>1 DEF Safe

(* No circle is left when every field is safe, and a circle shows that     *)
(* there is one.                                                           *)
LEMMA CircleFacts ==
  /\ (\A f \in Schema!Names : f \in Safe) => ~Schema!Circular
  /\ \A s \in Seq(Schema!Names) : Schema!IsCycle(s) => Schema!Circular
  <1>1. ASSUME \A f \in Schema!Names : f \in Safe, Schema!Circular PROVE FALSE
    <2>1. PICK S \in SUBSET Schema!Names : S # {} /\ Trap(S)
      BY <1>1 DEF Schema!Circular, Trap
    <2> QED
      BY <1>1, <2>1 DEF Safe
  <1>2. ASSUME NEW s \in Seq(Schema!Names), Schema!IsCycle(s) PROVE Schema!Circular
    <2>1. PICK n \in Nat : n = Len(s) /\ DOMAIN s = 1..n
      OBVIOUS
    <2>2. /\ n > 1 /\ s[1] = s[n] /\ \A i \in 1..(n - 1) : s[i + 1] \in deps[s[i]]
      BY <1>2, <2>1 DEF Schema!IsCycle
    <2>3. PICK S : S = {s[i] : i \in 1..(n - 1)}
      OBVIOUS
    <2>4. S \in SUBSET Schema!Names /\ s[1] \in S
      BY <2>1, <2>2, <2>3
    <2>5. ASSUME NEW f \in S PROVE deps[f] \cap S # {}
      <3>1. PICK i \in 1..(n - 1) : f = s[i]
        BY <2>3, <2>5
      <3>2. s[i + 1] \in deps[f]
        BY <2>2, <3>1
      <3>3. s[i + 1] \in S
        <4>1. CASE i + 1 = n
          BY <2>2, <2>4, <4>1
        <4>2. CASE i + 1 # n
          BY <2>3, <3>1, <4>2
        <4> QED
          BY <4>1, <4>2
      <3> QED
        BY <3>2, <3>3
    <2> QED
      BY <2>4, <2>5 DEF Schema!Circular
  <1> QED
    BY <1>1, <1>2

(* The search starts at a new field.                                       *)
LEMMA SchemaStarts ==
  ASSUME SchemaType, PathChained, FinishedSafe, FoundRight, NEW f \in Schema!Names, Schema!StartAt(f)
  PROVE  (SchemaType /\ PathChained /\ FinishedSafe /\ FoundRight)'
  <1>1. /\ state = "search" /\ cycle = <<>> /\ path = <<>> /\ path' = <<f>>
        /\ color' = [color EXCEPT ![f] = 1] /\ done' = [done EXCEPT ![f] = {}]
        /\ UNCHANGED <<deps, flaws, errors, cycle, state>>
    BY DEF Schema!StartAt
  <1>2. SchemaType'
    BY <1>1 DEF SchemaType
  <1>3. PICK p : p = path'
    OBVIOUS
  <1>4. p = path' /\ Len(p) = 1 /\ p[1] = f /\ 1..Len(p) = {1} /\ 1..(Len(p) - 1) = {}
    BY <1>1, <1>3
  <1>5. \A g \in Schema!Names : color[g] # 1
    BY <1>1 DEF PathChained
  <1>6. PathChained'
    <2>1. \A g \in Schema!Names : color'[g] = 1 <=> g = f
      BY <1>1, <1>5 DEF SchemaType
    <2>2. \A i \in 1..(Len(p) - 1) : p[i + 1] \in deps'[p[i]]
      BY <1>4
    <2>3. \A i, j \in 1..Len(p) : p[i] = p[j] => i = j
      BY <1>4
    <2>4. \A g \in Schema!Names : color'[g] = 1 <=> \E i \in 1..Len(p) : p[i] = g
      BY <1>4, <2>1
    <2> QED
      BY <1>3, <2>2, <2>3, <2>4 DEF PathChained
  <1>7. FinishedSafe'
    <2>1. Safe' = Safe
      BY <1>1 DEF Safe, Trap
    <2>2. \A g \in Schema!Names : color'[g] = 2 => g \in Safe
      BY <1>1 DEF SchemaType, FinishedSafe
    <2>3. done'[f] = {}
      BY <1>1 DEF SchemaType
    <2>4. \A i \in 1..Len(p) : \A g \in done'[p[i]] : g \in Safe \/ (i < Len(p) /\ g = p[i + 1])
      BY <1>4, <2>3
    <2> QED
      BY <1>3, <2>1, <2>2, <2>4 DEF FinishedSafe
  <1>8. FoundRight'
    BY <1>1 DEF FoundRight
  <1> QED
    BY <1>2, <1>6, <1>7, <1>8

(* What a step looks at next: a field that the end of the path refers to.  *)
LEMMA NeighborFacts ==
  ASSUME SchemaType, Schema!MoreNeighbors
  PROVE  \E p \in Seq(Schema!Names), n \in Nat, c \in Schema!Names, g \in Schema!Names :
           /\ p = path /\ n = Len(p) /\ n > 0 /\ DOMAIN p = 1..n
           /\ c = Schema!Current /\ c = p[n] /\ g = Schema!Neighbor /\ g \in deps[c] /\ g \notin done[c]
  <1>1. PICK p \in Seq(Schema!Names) : p = path
    BY DEF SchemaType
  <1>2. PICK n \in Nat : n = Len(p) /\ DOMAIN p = 1..n
    OBVIOUS
  <1>3. p # <<>> /\ Schema!Neighbors # {}
    BY <1>1 DEF Schema!MoreNeighbors
  <1>4. n > 0
    BY <1>2, <1>3
  <1>5. p[n] \in Schema!Names /\ Schema!Current = p[n]
    BY <1>1, <1>2, <1>4 DEF Schema!Current, Schema!Last
  <1>6. /\ Schema!Neighbors \subseteq Schema!Names
        /\ Schema!Neighbors = deps[p[n]] \ done[p[n]]
    BY <1>5 DEF Schema!Neighbors, SchemaType
  <1>7. Schema!Neighbor \in Schema!Neighbors
    BY <1>3, <1>6, FirstFacts DEF Schema!Neighbor
  <1> QED
    BY <1>1, <1>2, <1>4, <1>5, <1>6, <1>7

(* A field on the path is met again: the end of the path from there on,    *)
(* closed by that field, is a circle.                                      *)
LEMMA SchemaCloses ==
  ASSUME SchemaType, PathChained, FinishedSafe, FoundRight, Schema!CloseCycle
  PROVE  (SchemaType /\ PathChained /\ FinishedSafe /\ FoundRight)'
  <1>1. PICK p \in Seq(Schema!Names), n \in Nat, c \in Schema!Names, g \in Schema!Names :
           /\ p = path /\ n = Len(p) /\ n > 0 /\ DOMAIN p = 1..n
           /\ c = Schema!Current /\ c = p[n] /\ g = Schema!Neighbor /\ g \in deps[c] /\ g \notin done[c]
    BY NeighborFacts DEF Schema!CloseCycle
  <1>2. /\ state = "search" /\ color[g] = 1
        /\ cycle' = Append(SubSeq(p, CHOOSE i \in DOMAIN p : p[i] = g, Len(p)), g)
        /\ UNCHANGED <<deps, flaws, errors, color, path, done, state>>
    BY <1>1 DEF Schema!CloseCycle
  <1>3. PICK k : k = CHOOSE i \in DOMAIN p : p[i] = g
    OBVIOUS
  <1>4. k \in 1..n /\ p[k] = g
    <2>1. \E i \in DOMAIN p : p[i] = g
      BY <1>1, <1>2 DEF PathChained
    <2> QED
      BY <1>1, <1>3, <2>1
  <1>5. PICK t : t = SubSeq(p, k, n)
    OBVIOUS
  <1>6. /\ t \in Seq(Schema!Names) /\ Len(t) = n - k + 1
        /\ \A i \in 1..(n - k + 1) : t[i] = p[k + i - 1]
    <2>1. k \in Int /\ n \in Int /\ k =< n /\ \A i \in k..n : p[i] \in Schema!Names
      BY <1>1, <1>4
    <2> QED
      BY <1>5, <2>1, SubSeqProperties
  <1>7. PICK m \in Nat : m = n - k + 1 /\ m > 0
    BY <1>1, <1>4
  <1>8. PICK s : s = cycle'
    OBVIOUS
  <1>9. /\ s \in Seq(Schema!Names) /\ Len(s) = m + 1 /\ s[m + 1] = g
        /\ \A i \in 1..m : s[i] = p[k + i - 1]
    <2>1. s = Append(t, g)
      BY <1>1, <1>2, <1>3, <1>5, <1>8
    <2> QED
      BY <1>1, <1>6, <1>7, <2>1, AppendProperties
  <1>10. \A i \in 1..m : s[i + 1] \in deps[s[i]]
    <2> SUFFICES ASSUME NEW i \in 1..m PROVE s[i + 1] \in deps[s[i]]
      OBVIOUS
    <2>1. CASE i = m
      <3>1. s[i] = p[n]
        BY <1>1, <1>4, <1>7, <1>9, <2>1
      <3> QED
        BY <1>1, <1>9, <2>1, <3>1
    <2>2. CASE i < m
      <3>1. PICK j \in 1..(n - 1) : j = k + i - 1
        BY <1>1, <1>4, <1>7, <2>2
      <3>2. s[i] = p[j] /\ s[i + 1] = p[j + 1]
        <4>1. k \in Nat /\ i \in 1..m /\ i + 1 \in 1..m /\ k + (i + 1) - 1 = j + 1
          BY <1>1, <1>4, <1>7, <2>2, <3>1
        <4>2. s[i] = p[k + i - 1] /\ s[i + 1] = p[k + (i + 1) - 1]
          BY <1>9, <4>1
        <4> QED
          BY <3>1, <4>1, <4>2
      <3> QED
        BY <1>1, <3>2 DEF PathChained
    <2> QED
      BY <1>7, <2>1, <2>2
  <1>11. Schema!IsCycle(s)
    BY <1>1, <1>4, <1>7, <1>9, <1>10 DEF Schema!IsCycle
  <1>12. Schema!Circular
    BY <1>9, <1>11, CircleFacts
  <1>13. Schema!IsCycle(s)' /\ Schema!Circular'
    BY <1>2, <1>11, <1>12 DEF Schema!IsCycle, Schema!Circular
  <1>14. FoundRight'
    BY <1>2, <1>8, <1>13 DEF FoundRight, Schema!IsCycle
  <1>15. SchemaType' /\ PathChained' /\ FinishedSafe'
    BY <1>2 DEF SchemaType, PathChained, FinishedSafe, Safe, Trap
  <1> QED
    BY <1>14, <1>15

(* Any other field is visited.                                             *)
LEMMA SchemaDescends ==
  ASSUME SchemaType, PathChained, FinishedSafe, FoundRight, Schema!Descend
  PROVE  (SchemaType /\ PathChained /\ FinishedSafe /\ FoundRight)'
  <1>1. PICK p \in Seq(Schema!Names), n \in Nat, c \in Schema!Names, g \in Schema!Names :
           /\ p = path /\ n = Len(p) /\ n > 0 /\ DOMAIN p = 1..n
           /\ c = Schema!Current /\ c = p[n] /\ g = Schema!Neighbor /\ g \in deps[c] /\ g \notin done[c]
    BY NeighborFacts DEF Schema!Descend
  <1>2. /\ state = "search" /\ cycle = <<>> /\ color[g] # 1
        /\ color' = [color EXCEPT ![g] = 1] /\ path' = Append(p, g)
        /\ done' = [done EXCEPT ![c] = @ \cup {g}, ![g] = {}]
        /\ UNCHANGED <<deps, flaws, errors, cycle, state>>
    BY <1>1 DEF Schema!Descend
  <1>3. PICK q : q = Append(p, g)
    OBVIOUS
  <1>4. /\ q \in Seq(Schema!Names) /\ Len(q) = n + 1 /\ q[n + 1] = g /\ path' = q
        /\ \A i \in 1..n : q[i] = p[i]
        /\ \A i \in 1..(n + 1) : i \in 1..n \/ i = n + 1
    BY <1>1, <1>2, <1>3, AppendProperties
  <1>5. \A i \in 1..n : p[i] \in Schema!Names /\ p[i] # g
    BY <1>1, <1>2 DEF PathChained
  <1>6. SchemaType'
    BY <1>1, <1>2, <1>4 DEF SchemaType
  <1>7. PathChained'
    <2>1. \A i \in 1..n : q[i + 1] \in deps[q[i]]
      <3>1. \A i \in 1..(n - 1) : q[i + 1] \in deps[q[i]]
        BY <1>1, <1>4 DEF PathChained
      <3>2. q[n + 1] \in deps[q[n]]
        BY <1>1, <1>4
      <3> QED
        BY <1>1, <3>1, <3>2
    <2>2. \A i, j \in 1..(n + 1) : q[i] = q[j] => i = j
      BY <1>1, <1>4, <1>5 DEF PathChained
    <2>3. \A f \in Schema!Names : color'[f] = 1 <=> \E i \in 1..(n + 1) : q[i] = f
      <3>1. \A f \in Schema!Names : color'[f] = 1 <=> color[f] = 1 \/ f = g
        BY <1>2 DEF SchemaType
      <3>2. \A f \in Schema!Names : color[f] = 1 <=> \E i \in 1..n : p[i] = f
        BY <1>1 DEF PathChained
      <3>3. \A f \in Schema!Names : (\E i \in 1..(n + 1) : q[i] = f) <=> (\E i \in 1..n : p[i] = f) \/ f = g
        BY <1>1, <1>4
      <3> QED
        BY <3>1, <3>2, <3>3
    <2> QED
      BY <1>1, <1>2, <1>4, <2>1, <2>2, <2>3 DEF PathChained
  <1>8. FinishedSafe'
    <2>1. Safe' = Safe
      BY <1>2 DEF Safe, Trap
    <2>2. \A f \in Schema!Names : color'[f] = 2 => f \in Safe
      BY <1>2 DEF SchemaType, FinishedSafe
    <2>3. ASSUME NEW i \in 1..(n + 1), NEW h \in done'[q[i]]
          PROVE  h \in Safe \/ (i < n + 1 /\ h = q[i + 1])
      <3>1. CASE i = n + 1
        <4>1. done'[g] = {}
          BY <1>1, <1>2 DEF SchemaType
        <4> QED
          BY <1>4, <2>3, <3>1, <4>1
      <3>2. CASE i = n
        <4>1. c # g
          BY <1>1, <1>5
        <4>2. done'[c] = done[c] \cup {g}
          BY <1>1, <1>2, <4>1 DEF SchemaType
        <4>3. q[i] = c
          BY <1>1, <1>4, <3>2
        <4>4. h \in done[c] \/ h = g
          BY <2>3, <4>2, <4>3
        <4>5. CASE h \in done[c]
          <5>1. h \in Safe \/ (n < n /\ h = p[n + 1])
            BY <1>1, <4>5 DEF FinishedSafe
          <5> QED
            BY <1>1, <5>1
        <4>6. CASE h = g
          BY <1>1, <1>4, <3>2, <4>6
        <4> QED
          BY <4>4, <4>5, <4>6
      <3>3. CASE i < n
        <4>1. i \in 1..n /\ i + 1 \in 1..n /\ i # n
          BY <1>1, <3>3
        <4>2. p[i] # c /\ p[i] # g /\ p[i] \in Schema!Names
          BY <1>1, <1>5, <4>1 DEF PathChained
        <4>3. done'[q[i]] = done[p[i]]
          BY <1>2, <1>4, <4>1, <4>2 DEF SchemaType
        <4>4. h \in Safe \/ (i < n /\ h = p[i + 1])
          BY <1>1, <2>3, <4>1, <4>3 DEF FinishedSafe
        <4> QED
          BY <1>1, <1>4, <4>1, <4>4
      <3> QED
        BY <1>1, <3>1, <3>2, <3>3
    <2> QED
      BY <1>4, <2>1, <2>2, <2>3 DEF FinishedSafe
  <1>9. FoundRight'
    BY <1>2 DEF FoundRight
  <1> QED
    BY <1>6, <1>7, <1>8, <1>9

(* A field whose references are all looked at is finished: it is safe.     *)
LEMMA SchemaReturns ==
  ASSUME SchemaType, PathChained, FinishedSafe, FoundRight, Schema!Return
  PROVE  (SchemaType /\ PathChained /\ FinishedSafe /\ FoundRight)'
  <1>1. PICK p \in Seq(Schema!Names) : p = path
    BY DEF SchemaType
  <1>2. PICK n \in Nat : n = Len(p) /\ n > 0 /\ DOMAIN p = 1..n
    BY <1>1 DEF Schema!Return
  <1>3. PICK c \in Schema!Names : c = p[n] /\ c = Schema!Current
    BY <1>1, <1>2 DEF Schema!Current, Schema!Last
  <1>4. /\ state = "search" /\ cycle = <<>> /\ deps[c] \ done[c] = {}
        /\ path' = SubSeq(p, 1, n - 1) /\ color' = [color EXCEPT ![c] = 2]
        /\ UNCHANGED <<deps, flaws, errors, done, cycle, state>>
    BY <1>1, <1>2, <1>3 DEF Schema!Return, Schema!MoreNeighbors, Schema!Neighbors, Schema!Leave, Schema!Front
  <1>5. PICK q : q = SubSeq(p, 1, n - 1)
    OBVIOUS
  <1>6. /\ q \in Seq(Schema!Names) /\ Len(q) = n - 1 /\ path' = q
        /\ \A i \in 1..(n - 1) : q[i] = p[i]
    <2>1. 1 \in Int /\ n - 1 \in Int /\ \A i \in 1..(n - 1) : p[i] \in Schema!Names
      BY <1>1, <1>2
    <2> QED
      BY <1>2, <1>4, <1>5, <2>1, SubSeqProperties
  <1>7. SchemaType'
    BY <1>4, <1>6 DEF SchemaType
  <1>8. c \in Safe
    <2>0. \A i \in 1..n : \A g \in done[p[i]] : g \in Safe \/ (i < n /\ g = p[i + 1])
      BY <1>1, <1>2 DEF FinishedSafe
    <2>1. \A g \in done[c] : g \in Safe
      <3>1. n \in 1..n /\ ~(n < n)
        BY <1>2
      <3> QED
        BY <1>3, <2>0, <3>1
    <2>2. deps[c] \subseteq Safe
      BY <1>4, <2>1
    <2> QED
      BY <2>2, SafeBySuccessors
  <1>9. PathChained'
    <2>1. \A i \in 1..(n - 2) : q[i + 1] \in deps[q[i]]
      BY <1>1, <1>2, <1>6 DEF PathChained
    <2>2. \A i, j \in 1..(n - 1) : q[i] = q[j] => i = j
      BY <1>1, <1>2, <1>6 DEF PathChained
    <2>3. \A f \in Schema!Names : color'[f] = 1 <=> \E i \in 1..(n - 1) : q[i] = f
      <3>1. \A f \in Schema!Names : color'[f] = 1 <=> color[f] = 1 /\ f # c
        BY <1>4 DEF SchemaType
      <3>2. \A f \in Schema!Names : color[f] = 1 <=> \E i \in 1..n : p[i] = f
        BY <1>1, <1>2 DEF PathChained
      <3>3. \A i, j \in 1..n : p[i] = p[j] => i = j
        BY <1>1, <1>2 DEF PathChained
      <3>4. \A f \in Schema!Names :
              (\E i \in 1..(n - 1) : q[i] = f) <=> (\E i \in 1..n : p[i] = f) /\ f # c
        <4> SUFFICES ASSUME NEW f \in Schema!Names
                     PROVE  (\E i \in 1..(n - 1) : q[i] = f) <=> (\E i \in 1..n : p[i] = f) /\ f # c
          OBVIOUS
        <4>1. ASSUME NEW i \in 1..(n - 1), q[i] = f PROVE i \in 1..n /\ p[i] = f /\ f # c
          <5>1. i \in 1..n /\ n \in 1..n /\ i # n /\ p[i] = f
            BY <1>2, <1>6, <4>1
          <5> QED
            BY <1>3, <3>3, <5>1
        <4>2. ASSUME NEW i \in 1..n, p[i] = f, f # c PROVE i \in 1..(n - 1) /\ q[i] = f
          <5>1. i # n
            BY <1>3, <4>2
          <5>2. i \in 1..(n - 1)
            BY <1>2, <4>2, <5>1
          <5> QED
            BY <1>6, <4>2, <5>2
        <4> QED
          BY <4>1, <4>2
      <3> QED
        BY <3>1, <3>2, <3>4
    <2>4. (n - 1) - 1 = n - 2
      BY <1>2
    <2> QED
      BY <1>4, <1>6, <2>1, <2>2, <2>3, <2>4 DEF PathChained
  <1>10. FinishedSafe'
    <2>1. Safe' = Safe
      BY <1>4 DEF Safe, Trap
    <2>2. \A f \in Schema!Names : color'[f] = 2 => f \in Safe
      BY <1>4, <1>8 DEF SchemaType, FinishedSafe
    <2>3. ASSUME NEW i \in 1..(n - 1), NEW h \in done'[q[i]]
          PROVE  h \in Safe \/ (i < n - 1 /\ h = q[i + 1])
      <3>1. i \in 1..n /\ q[i] = p[i] /\ h \in done[p[i]]
        BY <1>2, <1>4, <1>6, <2>3
      <3>2. h \in Safe \/ h = p[i + 1]
        <4>1. \A j \in 1..n : \A g \in done[p[j]] : g \in Safe \/ (j < n /\ g = p[j + 1])
          BY <1>1, <1>2 DEF FinishedSafe
        <4> QED
          BY <3>1, <4>1
      <3>3. CASE i = n - 1
        <4>1. i + 1 = n
          BY <1>2, <3>3
        <4>2. p[i + 1] = c
          BY <1>3, <4>1
        <4> QED
          BY <1>8, <3>2, <4>2
      <3>4. CASE i < n - 1
        <4>1. i + 1 \in 1..(n - 1)
          BY <1>2, <2>3, <3>4
        <4> QED
          BY <1>6, <3>2, <3>4, <4>1
      <3> QED
        BY <1>2, <2>3, <3>3, <3>4
    <2> QED
      BY <1>6, <2>1, <2>2, <2>3 DEF FinishedSafe
  <1>11. FoundRight'
    <2>1. state' = "search" /\ errors' = flaws' /\ cycle' = <<>>
      BY <1>4 DEF FoundRight
    <2> QED
      BY <2>1 DEF FoundRight
  <1> QED
    BY <1>7, <1>9, <1>10, <1>11

(* The search is over.                                                     *)
LEMMA SchemaFinishes ==
  ASSUME SchemaType, PathChained, FinishedSafe, FoundRight, Schema!Finish
  PROVE  (SchemaType /\ PathChained /\ FinishedSafe /\ FoundRight)'
  <1>1. /\ state = "search" /\ state' = "validated"
        /\ errors' = IF cycle = <<>> THEN errors ELSE errors \cup {"cycle"}
        /\ cycle # <<>> \/ (path = <<>> /\ Schema!NewFields = {})
        /\ UNCHANGED <<deps, flaws, color, path, done, cycle>>
    BY DEF Schema!Finish
  <1>2. SchemaType' /\ PathChained' /\ FinishedSafe'
    BY <1>1 DEF SchemaType, PathChained, FinishedSafe, Safe, Trap
  <1>3. errors = flaws
    BY <1>1 DEF FoundRight
  <1>4. cycle = <<>> => ~Schema!Circular
    <2> SUFFICES ASSUME path = <<>>, Schema!NewFields = {} PROVE \A f \in Schema!Names : f \in Safe
      BY <1>1, CircleFacts
    <2>1. \A f \in Schema!Names : color[f] # 1
      BY DEF PathChained
    <2>2. \A f \in Schema!Names : color[f] # 0
      BY DEF Schema!NewFields
    <2> QED
      BY <2>1, <2>2 DEF SchemaType, FinishedSafe
  <1>5. cycle # <<>> => Schema!Circular /\ Schema!IsCycle(cycle)
    BY DEF FoundRight
  <1>6. errors' = flaws \cup (IF Schema!Circular THEN {"cycle"} ELSE {})
    BY <1>1, <1>3, <1>4, <1>5
  <1>7. Schema!Circular' <=> Schema!Circular
    BY <1>1 DEF Schema!Circular
  <1>8. Schema!IsCycle(cycle)' <=> Schema!IsCycle(cycle)
    BY <1>1 DEF Schema!IsCycle
  <1>9. Schema!Verdict'
    BY <1>1, <1>5, <1>6, <1>7, <1>8 DEF Schema!Verdict
  <1>10. FoundRight'
    BY <1>1, <1>5, <1>7, <1>8, <1>9 DEF FoundRight
  <1> QED
    BY <1>2, <1>10

(* While the schema is followed, every step is one of KeySchema or leaves  *)
(* it alone.                                                               *)
LEMMA SchemaFollowed ==
  ASSUME [RecoveryNext]_recoveryVars, focus' = "schema"
  PROVE  focus = "schema" /\ (Schema!Next \/ UNCHANGED schemaVars)
  BY DEF RecoveryNext, recoveryVars, ContractStep, CacheStep, RedisStep, ProcessStep, ReadsStep,
         PagesStep, SchemaStep

(* ContractKeySchema::validate: for any fields and any references between  *)
(* them, what it reports is right.  It reports each flawed template, and a *)
(* circle if and only if fields refer to each other in one; the fields it  *)
(* names as a circle refer to each other.  This is the part of             *)
(* SchemaJudged that needs no fairness.                                    *)
THEOREM VerdictHolds == RecoverySpec => [](focus = "schema" /\ state = "validated" => Schema!Verdict)
  <1>1. RecoveryInit => SchemaInv
    <2> SUFFICES ASSUME RecoveryInit PROVE SchemaType /\ PathChained /\ FinishedSafe /\ FoundRight
      BY DEF SchemaInv
    <2>1. /\ deps \in [Schema!Names -> SUBSET Schema!Names] /\ color = [f \in Schema!Names |-> 0]
          /\ done = [f \in Schema!Names |-> {}] /\ path = <<>> /\ cycle = <<>> /\ state = "templates"
      BY DEF RecoveryInit, Schema!Init
    <2>2. Len(path) = 0 /\ 1..Len(path) = {} /\ 1..(Len(path) - 1) = {}
      BY <2>1
    <2>3. SchemaType
      BY <2>1 DEF SchemaType
    <2>4. PathChained /\ FinishedSafe
      BY <2>1, <2>2 DEF PathChained, FinishedSafe
    <2>5. FoundRight
      BY <2>1 DEF FoundRight
    <2> QED
      BY <2>3, <2>4, <2>5
  <1>2. SchemaInv /\ [RecoveryNext]_recoveryVars => SchemaInv'
    <2> SUFFICES ASSUME SchemaInv, [RecoveryNext]_recoveryVars, focus' = "schema"
                 PROVE  (SchemaType /\ PathChained /\ FinishedSafe /\ FoundRight)'
      BY DEF SchemaInv
    <2>1. /\ SchemaType /\ PathChained /\ FinishedSafe /\ FoundRight
          /\ Schema!Next \/ UNCHANGED schemaVars
      BY SchemaFollowed DEF SchemaInv
    <2>2. CASE UNCHANGED schemaVars
      <3>1. UNCHANGED <<deps, flaws, errors, color, path, done, cycle, state>>
        BY <2>2 DEF schemaVars
      <3>2. (Schema!Circular' <=> Schema!Circular) /\ (Schema!IsCycle(cycle)' <=> Schema!IsCycle(cycle))
        BY <3>1 DEF Schema!Circular, Schema!IsCycle
      <3>3. Schema!Verdict' <=> Schema!Verdict
        BY <3>1, <3>2 DEF Schema!Verdict
      <3>4. FoundRight'
        BY <2>1, <3>1, <3>2, <3>3 DEF FoundRight
      <3>5. SchemaType' /\ PathChained' /\ FinishedSafe'
        BY <2>1, <3>1 DEF SchemaType, PathChained, FinishedSafe, Safe, Trap
      <3> QED
        BY <3>4, <3>5
    <2>3. CASE Schema!CheckTemplates
      <3>1. /\ state = "templates" /\ state' = "search" /\ errors' = flaws
            /\ UNCHANGED <<deps, flaws, color, path, done, cycle>>
        BY <2>3 DEF Schema!CheckTemplates
      <3>2. FoundRight'
        BY <2>1, <3>1 DEF FoundRight
      <3>3. SchemaType' /\ PathChained' /\ FinishedSafe'
        BY <2>1, <3>1 DEF SchemaType, PathChained, FinishedSafe, Safe, Trap
      <3> QED
        BY <3>2, <3>3
    <2>4. ASSUME NEW f \in Schema!Names, Schema!StartAt(f)
          PROVE  (SchemaType /\ PathChained /\ FinishedSafe /\ FoundRight)'
      BY <2>1, <2>4, SchemaStarts
    <2>5. CASE Schema!CloseCycle
      BY <2>1, <2>5, SchemaCloses
    <2>6. CASE Schema!Descend
      BY <2>1, <2>6, SchemaDescends
    <2>7. CASE Schema!Return
      BY <2>1, <2>7, SchemaReturns
    <2>8. CASE Schema!Finish
      BY <2>1, <2>8, SchemaFinishes
    <2> QED
      BY <2>1, <2>2, <2>3, <2>4, <2>5, <2>6, <2>7, <2>8 DEF Schema!Next
  <1>3. SchemaInv => (focus = "schema" /\ state = "validated" => Schema!Verdict)
    BY DEF SchemaInv, FoundRight
  <1> QED
    BY <1>1, <1>2, <1>3, PTL DEF RecoverySpec
=============================================================================
