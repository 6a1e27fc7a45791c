----------------------------- MODULE ChainReads -----------------------------
(***************************************************************************)
(* What the API answers about the chain and about its own health: the      *)
(* cached reads of blockchain.rs, each a few JSON-RPC calls that are       *)
(* retried (rpc_call), the handlers over them, and the probes /health,     *)
(* /health/ready and /health/dependencies.                                 *)
(*                                                                         *)
(* The endpoints share nothing but the node, so a behaviour follows one.   *)
(* Of what is read only the ledger at which it was true is kept.  The lock *)
(* of a cache fill, which may fail to keep a second one out, is left to    *)
(* the module Cache: here every miss fills.                                *)
(***************************************************************************)
EXTENDS Naturals, Sequences

CONSTANTS Clients,        \* concurrent requests to the endpoint
          RetryAttempts,  \* config.retry_attempts.max(1)
          MaxHeight       \* bound: ledgers that close

VARIABLES
  endpoint,  \* the endpoint that is followed
  height,    \* the latest ledger of the node (external)
  entry,     \* the cached value, or NoValue
  client     \* each request: what it has done and what it was answered

vars == <<endpoint, height, entry, client>>

ChainReadsAssumption == RetryAttempts \in Nat \ {0} /\ MaxHeight \in Nat \ {0}

(* checks: the dependencies a probe tries first; calls: the JSON-RPC calls *)
(* of the cached read; needed: those whose failure fails the read.         *)

(* Deviation: the ledger is asked for after the data. *)
DataRead_LedgerLast ==
  [checks |-> <<>>, calls |-> <<"getContractData", "getLatestLedger">>, needed |-> {"getContractData"}]

(* A read of contract data, labelled with the latest ledger, or with 0     *)
(* when that is not known.                                                 *)
DataRead ==
  [checks |-> <<>>, calls |-> <<"getLatestLedger", "getContractData">>, needed |-> {"getContractData"}]

MarketData == DataRead
PlatformStatistics == DataRead
UserBetsPage == DataRead
OracleResult == DataRead
TransactionStatus == [checks |-> <<>>, calls |-> <<"getTransaction">>, needed |-> {"getTransaction"}]

(* health_check_cached: no failure fails it, and what it found is cached. *)
HealthCheck == [checks |-> <<>>, calls |-> <<"getLatestLedger", "getContractData">>, needed |-> {}]

HealthReady == [HealthCheck EXCEPT !.checks = <<"db", "redis">>]
HealthDependencies == [HealthCheck EXCEPT !.checks = <<"db", "redis">>]

(* The legacy probe reads nothing of the chain. *)
Health == [checks |-> <<"redis", "db", "queue", "sendgrid">>, calls |-> <<>>, needed |-> {}]

Endpoints ==
  [market |-> MarketData, stats |-> PlatformStatistics, bets |-> UserBetsPage,
   oracle |-> OracleResult, tx |-> TransactionStatus, blockchain |-> HealthCheck,
   ready |-> HealthReady, dependencies |-> HealthDependencies, health |-> Health]

Plan == Endpoints[endpoint]

(* ledger: the label, 0 for unknown; asOf: the ledger at which the data    *)
(* was read, 0 when it could not be read.                                  *)
Values == [ledger : 0..MaxHeight, asOf : 0..MaxHeight]
NoValue == [ledger |-> 0, asOf |-> 0]

(* at: not yet here, checking a dependency, looking into the cache,        *)
(* calling the node, storing, answered                                     *)
Fresh == [at |-> "new", next |-> 1, tries |-> 0, failed |-> {}, value |-> NoValue, code |-> 0]

Init ==
  /\ endpoint \in DOMAIN Endpoints
  /\ height = 1
  /\ entry = <<>>
  /\ client = [c \in Clients |-> Fresh]

Become(c, r) == client' = [client EXCEPT ![c] = r]
-----------------------------------------------------------------------------
(* The answers of the handlers. *)

(* blockchain_health; every other read is answered with what was read. *)
Healthy(v) == v.ledger > 0 /\ v.asOf > 0
ReadCode(v) == IF endpoint = "blockchain" /\ ~Healthy(v) THEN 503 ELSE 200

(* health_ready counts the database and Redis, never the chain; /health    *)
(* counts Redis and SendGrid, and of the others only shows what it finds;  *)
(* /health/dependencies is always 200.                                     *)
Counted == CASE endpoint = "ready" -> {"db", "redis"}
             [] endpoint = "health" -> {"redis", "sendgrid"}
             [] OTHER -> {}

CodeOf(r, v) == IF r.failed \cap Counted # {} THEN 503 ELSE ReadCode(v)

Respond(c, code, v) == Become(c, [Fresh EXCEPT !.at = "answered", !.value = v, !.code = code])
Answer(c, r, v) == Respond(c, CodeOf(r, v), v)
-----------------------------------------------------------------------------
(* What comes after the checks, or before them when there are none *)
Lookup(r) == [r EXCEPT !.at = "lookup", !.next = 1]

(* The request arrives.  blockchain_tx_status first has the transaction    *)
(* watched (WatchedTx), and answers 503 when the list is full.             *)
Begin(c) ==
  /\ client[c].at = "new"
  /\ \/ Become(c, IF Plan.checks = <<>> THEN Lookup(Fresh) ELSE [Fresh EXCEPT !.at = "check"])
     \/ endpoint = "tx" /\ Respond(c, 503, NoValue)
  /\ UNCHANGED <<endpoint, height, entry>>

(* ping, ping_direct_ms, get_processing_count, probe_sendgrid *)
Check(c) ==
  LET r == client[c]
      last == r.next = Len(Plan.checks) IN
  /\ r.at = "check"
  /\ \E failed \in {r.failed, r.failed \cup {Plan.checks[r.next]}} :
       LET after == [r EXCEPT !.failed = failed, !.next = @ + 1] IN
       CASE ~last -> Become(c, after)
         [] last /\ Plan.calls # <<>> -> Become(c, Lookup(after))
         [] last /\ Plan.calls = <<>> -> Answer(c, after, NoValue)
  /\ UNCHANGED <<endpoint, height, entry>>

(* /health answers 503 after HEALTH_TIMEOUT. *)
ProbeTimesOut(c) ==
  /\ endpoint = "health" /\ client[c].at = "check"
  /\ Respond(c, 503, NoValue)
  /\ UNCHANGED <<endpoint, height, entry>>

(* get_or_set_json: a cached value, or the fill *)
LookUp(c) ==
  /\ client[c].at = "lookup"
  /\ \/ entry # <<>> /\ Answer(c, client[c], entry[1])
     \/ Become(c, [client[c] EXCEPT !.at = "call", !.tries = 1])
  /\ UNCHANGED <<endpoint, height, entry>>

(* What an attempt of rpc_call may come to.  A client error other than     *)
(* 429, a JSON-RPC error that says the request is wrong, and an answer     *)
(* that cannot be parsed are final; the rest is tried again.               *)
NonRetryable == {"client_error", "invalid_request", "parse_error"}
Retryable == {"server_error", "rpc_error", "empty_result", "transport_error"}

Exhausted(tries) == tries >= RetryAttempts

(* The result of a call: the label, the data, or, of a transaction, both.  *)
Received(v, call) ==
  [ledger |-> IF call = "getContractData" THEN v.ledger ELSE height,
   asOf |-> IF call = "getLatestLedger" THEN v.asOf ELSE height]

AfterCall(r, v) ==
  IF r.next = Len(Plan.calls) THEN [r EXCEPT !.at = "store", !.value = v]
  ELSE [r EXCEPT !.next = @ + 1, !.tries = 1, !.value = v]

(* Deviation: a read that failed starts over. *)
CallFails_Again(c) == Become(c, Lookup(client[c]))

(* A call has failed for good: the read fails (500, nothing is stored), or *)
(* goes on without its result.                                             *)
CallFails(c) ==
  LET r == client[c] IN
  IF Plan.calls[r.next] \in Plan.needed THEN Respond(c, 500, NoValue)
  ELSE Become(c, AfterCall(r, r.value))

(* One attempt, within the ten seconds of the HTTP client, and the pause   *)
(* after it                                                                *)
RpcCall(c) ==
  LET r == client[c] IN
  /\ r.at = "call"
  /\ \E outcome \in {"result"} \cup NonRetryable \cup Retryable :
       CASE outcome = "result" -> Become(c, AfterCall(r, Received(r.value, Plan.calls[r.next])))
         [] outcome \in NonRetryable \/ (outcome \in Retryable /\ Exhausted(r.tries)) -> CallFails(c)
         [] OTHER -> Become(c, [r EXCEPT !.tries = @ + 1])
  /\ UNCHANGED <<endpoint, height, entry>>

(* The value is cached, unless Redis cannot be written, and answered. *)
Store(c) ==
  /\ client[c].at = "store"
  /\ entry' \in {entry, <<client[c].value>>}
  /\ Answer(c, client[c], client[c].value)
  /\ UNCHANGED <<endpoint, height>>

Expire ==
  /\ entry # <<>> /\ entry' = <<>>
  /\ UNCHANGED <<endpoint, height, client>>

CloseLedger ==
  /\ height < MaxHeight /\ height' = height + 1
  /\ UNCHANGED <<endpoint, entry, client>>

ClientStep(c) == Check(c) \/ ProbeTimesOut(c) \/ LookUp(c) \/ RpcCall(c) \/ Store(c)

Next ==
  \/ \E c \in Clients : Begin(c) \/ ClientStep(c)
  \/ Expire \/ CloseLedger

Spec == Init /\ [][Next]_vars

(* Every command, query and HTTP call has a timeout of its own. *)
FairSpec == Spec /\ \A c \in Clients : WF_vars(ClientStep(c))
-----------------------------------------------------------------------------
TypeOK ==
  /\ endpoint \in DOMAIN Endpoints /\ height \in 1..MaxHeight
  /\ entry \in {<<>>} \cup {<<v>> : v \in Values}
  /\ \A c \in Clients :
       /\ client[c].at \in {"new", "check", "lookup", "call", "store", "answered"}
       /\ client[c].tries \in 0..RetryAttempts /\ client[c].value \in Values
       /\ client[c].code \in {0, 200, 500, 503}

(* What is cached, and what a client is answered with 200, however ledgers *)
(* close and fills overlap between the calls of a read: the data is never  *)
(* older than the ledger it is labelled with (market_data_cached and the   *)
(* other reads), nothing that could not be read is shown as data, and      *)
(* blockchain_health says 200 only when both of its calls were answered.   *)
ReadsHonest ==
  LET Honest(v) == v.asOf >= v.ledger
      Shown == {client[c].value : c \in {d \in Clients : client[d].code = 200}}
  IN
  /\ \A i \in DOMAIN entry : Plan.needed # {} => Honest(entry[i]) /\ entry[i].asOf > 0
  /\ \A v \in Shown :
       /\ Plan.needed # {} => Honest(v) /\ v.asOf > 0
       /\ endpoint = "blockchain" => Honest(v) /\ v.ledger > 0

(* Every request is answered: an RPC node that fails in whatever way uses  *)
(* up the attempts of rpc_call.                                            *)
ReadsEnd == \A c \in Clients : (client[c].at # "new") ~> (client[c].at = "answered")
=============================================================================
