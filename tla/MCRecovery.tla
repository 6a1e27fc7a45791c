----------------------------- MODULE MCRecovery -----------------------------
(***************************************************************************)
(* What must come back, or come to an end, by itself: the contract's       *)
(* circuit breaker (Monitoring), cached data that is out of date, the      *)
(* breaker in front of Redis, the reads of the chain, the check of the key *)
(* schema, a walk over a listing, and the process when it is told to stop. *)
(* They share no state, so a behaviour follows one of them.                *)
(***************************************************************************)
EXTENDS Monitoring, Sequences, FiniteSets

CONSTANTS
  Readers, MaxChanges, MaxFaults,       \* Cache
  Callers, Threshold, Retries,          \* RedisBreaker
  MaxRestarts, MaxCrashes, MaxRequests, \* Lifecycle
  Clients, RetryAttempts, MaxHeight,    \* ChainReads
  MaxRows, MAX_PAGE_LIMIT, FeaturedLimit, \* Paging
  Fields                                  \* KeySchema

VARIABLES
  focus,
  db, value, lock, frame, resolver, faults, slips, quiet,
  up, mixed, count, opened, caller,
  production, phase, cancelled, worker, read, completions, result, restarts, crashes, requests,
  endpoint, height, entry, client,
  listing, table, views, walk,
  deps, flaws, errors, color, path, done, cycle, state

cacheVars == <<db, value, lock, frame, resolver, faults, slips, quiet>>
redisVars == <<up, mixed, count, opened, caller>>
processVars ==
  <<production, phase, cancelled, worker, read, completions, result, restarts, crashes, requests>>
readVars == <<endpoint, height, entry, client>>
pageVars == <<listing, table, views, walk>>
schemaVars == <<deps, flaws, errors, color, path, done, cycle, state>>
recoveryVars ==
  <<focus, vars, cacheVars, redisVars, processVars, readVars, pageVars, schemaVars>>

Cached == INSTANCE Cache
Redis == INSTANCE RedisBreaker
Process == INSTANCE Lifecycle WITH count <- completions
Reads == INSTANCE ChainReads
Pages == INSTANCE Paging
Schema == INSTANCE KeySchema

ASSUME RecoveryAssumption ==
  /\ Cached!CacheAssumption /\ Redis!RedisBreakerAssumption /\ Process!LifecycleAssumption
  /\ Reads!ChainReadsAssumption /\ Pages!PagingAssumption /\ Schema!KeySchemaAssumption

(* Three of the five fields of a key schema *)
ThreeFields == <<"market", "platform_stats", "user_bets">>

RecoveryInit ==
  /\ focus \in {"contract", "cache", "redis", "process", "reads", "pages", "schema"}
  /\ Init /\ Cached!Init /\ Redis!Init
  /\ Process!Init /\ (production => focus = "process")
  /\ Reads!Init /\ (focus # "reads" => endpoint = "health")
  /\ Pages!Init /\ (focus # "pages" => listing = "audit")
  /\ Schema!Init /\ (focus # "schema" => deps = [f \in Schema!Names |-> {}] /\ flaws = {})

ContractStep ==
  /\ focus = "contract" /\ Next
  /\ UNCHANGED <<focus, cacheVars, redisVars, processVars, readVars, pageVars, schemaVars>>
CacheStep ==
  /\ focus = "cache" /\ Cached!Next
  /\ UNCHANGED <<focus, vars, redisVars, processVars, readVars, pageVars, schemaVars>>
RedisStep ==
  /\ focus = "redis" /\ Redis!Next
  /\ UNCHANGED <<focus, vars, cacheVars, processVars, readVars, pageVars, schemaVars>>
ProcessStep ==
  /\ focus = "process" /\ Process!Next
  /\ UNCHANGED <<focus, vars, cacheVars, redisVars, readVars, pageVars, schemaVars>>
ReadsStep ==
  /\ focus = "reads" /\ Reads!Next
  /\ UNCHANGED <<focus, vars, cacheVars, redisVars, processVars, pageVars, schemaVars>>
PagesStep ==
  /\ focus = "pages" /\ Pages!Next
  /\ UNCHANGED <<focus, vars, cacheVars, redisVars, processVars, readVars, schemaVars>>
SchemaStep ==
  /\ focus = "schema" /\ Schema!Next
  /\ UNCHANGED <<focus, vars, cacheVars, redisVars, processVars, readVars, pageVars>>

RecoveryNext ==
  \/ ContractStep \/ CacheStep \/ RedisStep \/ ProcessStep
  \/ ReadsStep \/ PagesStep \/ SchemaStep

(* The fairness each part states for itself, while it is followed. *)
ContractFairness ==
  /\ WF_vars(focus = "contract" /\ Tick)
  /\ WF_vars(focus = "contract" /\ AdmittedCall)
  /\ WF_vars(focus = "contract" /\ RefusedCall)
CacheFairness ==
  /\ \A r \in Readers : WF_cacheVars(focus = "cache" /\ Cached!ReaderStep(r))
  /\ \A k \in Cached!Keys : WF_cacheVars(focus = "cache" /\ Cached!ExpireValue(k))
  /\ WF_cacheVars(focus = "cache" /\ (Cached!TagStoreInvalidate \/ Cached!Invalidate))
RedisFairness ==
  /\ \A c \in Callers : WF_redisVars(focus = "redis" /\ Redis!CallerStep(c))
  /\ WF_redisVars(focus = "redis" /\ Redis!TimePasses)
ProcessFairness ==
  /\ WF_processVars(focus = "process" /\ Process!Drain)
  /\ WF_processVars(focus = "process" /\ Process!Exit)
ReadFairness ==
  \A c \in Clients : WF_readVars(focus = "reads" /\ Reads!ClientStep(c))
SchemaFairness == WF_schemaVars(focus = "schema" /\ Schema!Next)

RecoverySpec ==
  /\ RecoveryInit /\ [][RecoveryNext]_recoveryVars
  /\ ContractFairness /\ CacheFairness /\ RedisFairness /\ ProcessFairness
  /\ ReadFairness /\ SchemaFairness
-----------------------------------------------------------------------------
(* Old data goes away for good: see Cache. *)
EventuallyFresh == Cached!EventuallyFresh

(* The breaker in front of Redis closes again: see RedisBreaker. *)
CircuitCloses == Redis!CircuitCloses

(* After the signal no worker keeps the process alive: see Lifecycle. *)
ShutdownEnds == Process!ShutdownEnds

(* What a read of the chain shows is true of its ledger: see ChainReads. *)
ReadsHonest == focus = "reads" => Reads!ReadsHonest

(* Every read of the chain and every health probe is answered: see         *)
(* ChainReads.                                                             *)
ReadsEnd == Reads!ReadsEnd

(* A walk over a listing misses nothing and repeats nothing: see Paging. *)
WalkExact == focus = "pages" => Pages!WalkExact

(* The check of the key schema ends and is right: see KeySchema. *)
SchemaJudged == focus = "schema" => Schema!SchemaJudged
=============================================================================
