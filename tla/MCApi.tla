------------------------------- MODULE MCApi -------------------------------
(***************************************************************************)
(* The parts of the API service that keep shared state in Redis or         *)
(* PostgreSQL.  They touch different keys and tables, so a behaviour       *)
(* follows one part; the others stay as they begin.                        *)
(***************************************************************************)
EXTENDS Integers, Sequences, FiniteSets, TLC

CONSTANTS
  Callers, Arrivals, Varied, Shapes, Plain,     \* Requests
  RequireHttps, BodyLimit, TrustProxy, TrustedProxies, Whitelist, AllowedOrigins,
  Addresses, Origins,                           \* Guards
  Max, Window, Skew, LimitTime, LimitRequests,  \* RateLimit
  KeyHashes, Admins,               \* ApiKeys
  Calls, MaxErasures,              \* Newsletter
  Deliveries,                      \* Webhook
  Instances, Binary,               \* Migrations
  Txs, Cap,                        \* WatchedTx
  Lag, ReplayFrom, MaxLedger, MaxRollbacks,     \* Chain
  Readers, MaxChanges,             \* Cache
  OneFault, TwoFaults              \* bounds: faults of a part

VARIABLES
  focus,
  req, accepted, responses, lost, audit,
  limit, now, scores, count, deadline, answers,
  keys, rotation, failed,
  row, call, overlap, mailed, gdpr, by, erasures,
  at, nonce, events, suppressed, counted, passed, hookFaults,
  lock, runner, schema, executed, lapses,
  chain, watched, aged, upserts, marks, txRow, rowOld, persisted, reloaded, up,
  ledgers, forks, top, floor, lastSeen, savedCursor, checkpoint, progress, stored,
  worker, cursor, tip, batch, replay,
  db, value, fillLock, frame, resolver, slips, quiet,
  faults

requestVars == <<req, accepted, responses, lost, audit>>
limitVars == <<limit, now, scores, count, deadline, answers>>
keyVars == <<keys, rotation, failed>>
newsletterVars == <<row, call, overlap, mailed, gdpr, by, erasures>>
webhookVars == <<at, nonce, events, suppressed, counted, passed, hookFaults>>
migrationVars == <<lock, runner, schema, executed, lapses>>
watchVars == <<chain, watched, aged, upserts, marks, txRow, rowOld, persisted, reloaded, up>>
chainVars == <<ledgers, forks, top, floor, lastSeen, savedCursor, checkpoint, progress, stored,
               worker, cursor, tip, batch, replay>>
cacheVars == <<db, value, fillLock, frame, resolver, slips, quiet>>
vars == <<focus, faults, requestVars, limitVars, keyVars, newsletterVars, webhookVars,
          migrationVars, watchVars, chainVars, cacheVars>>

(* Values of the constants that a configuration cannot spell. *)
ThreeRequests == <<"q1", "q2", "q3">>

(* Nothing tells callers apart. *)
Interchangeable == Permutations(Callers)

(* Three releases: new adds a migration, edited changed the first one. *)
ThreeReleases ==
  [old |-> <<"a", "b">>, new |-> <<"a", "b", "c">>, edited |-> <<"x", "b", "c">>]

(* A well-formed admin request, and requests that some guard looks at      *)
(* twice; detached comes to a server that does not know its peers, as      *)
(* main.rs starts it.                                                      *)
AdminPost ==
  [method |-> "POST", proto |-> "https", length |-> 1, body |-> 1, patterns |-> {},
   content |-> "json", keyed |-> TRUE, api_key |-> TRUE, cookie |-> FALSE, origin |-> "absent",
   referer |-> "absent", peer |-> "proxy", forwarded |-> <<"malformed", "office">>,
   real_ip |-> "absent"]
Browser == [AdminPost EXCEPT !.api_key = FALSE, !.cookie = TRUE]
RequestShapes ==
  [plain |-> AdminPost,
   unkeyed |-> [AdminPost EXCEPT !.keyed = FALSE, !.forwarded = <<>>, !.real_ip = "office"],
   http |-> [AdminPost EXCEPT !.proto = "http"],
   chunked |-> [AdminPost EXCEPT !.length = 0, !.body = 2],
   pattern |-> [AdminPost EXCEPT !.patterns = {"query"}],
   form |-> [AdminPost EXCEPT !.content = "other"],
   elsewhere |-> [AdminPost EXCEPT !.forwarded = <<"home", "office">>],
   detached |-> [Browser EXCEPT !.referer = "app", !.peer = "unknown"],
   link |-> [Browser EXCEPT !.method = "GET", !.content = "absent", !.origin = "other"],
   forged |-> [Browser EXCEPT !.origin = "other"]]

Req == INSTANCE Requests WITH MaxFaults <- OneFault
Lim == INSTANCE RateLimit WITH MaxTime <- LimitTime, MaxRequests <- LimitRequests
Key == INSTANCE ApiKeys WITH MaxFaults <- OneFault
News == INSTANCE Newsletter
Hook == INSTANCE Webhook WITH MaxFaults <- TwoFaults, faults <- hookFaults
Mig == INSTANCE Migrations WITH MaxFaults <- TwoFaults
Watch == INSTANCE WatchedTx WITH MaxFaults <- TwoFaults, row <- txRow
Sync == INSTANCE Chain WITH MaxFaults <- TwoFaults
Cached == INSTANCE Cache WITH MaxFaults <- OneFault, lock <- fillLock

ASSUME ApiAssumption ==
  /\ Req!RequestsAssumption /\ Lim!RateLimitAssumption /\ Key!ApiKeysAssumption
  /\ News!NewsletterAssumption /\ Hook!WebhookAssumption /\ Mig!MigrationsAssumption
  /\ Watch!WatchedTxAssumption /\ Sync!ChainAssumption /\ Cached!CacheAssumption

Parts ==
  {"requests", "rate_limit", "api_keys", "newsletter", "webhook", "migrations", "watch", "chain", "cache"}

Init ==
  /\ focus \in Parts
  /\ Req!Init /\ Key!Init /\ News!Init /\ Hook!Init /\ Mig!Init /\ Watch!Init /\ Sync!Init
  /\ Cached!Init
  /\ Lim!Init /\ (focus # "rate_limit" => limit = "fixed")

RequestStep ==
  /\ focus = "requests" /\ Req!Next
  /\ UNCHANGED <<focus, limitVars, keyVars, newsletterVars, webhookVars, migrationVars, watchVars, chainVars, cacheVars>>
LimitStep ==
  /\ focus = "rate_limit" /\ Lim!Next
  /\ UNCHANGED <<focus, faults, requestVars, keyVars, newsletterVars, webhookVars, migrationVars, watchVars, chainVars, cacheVars>>
KeyStep ==
  /\ focus = "api_keys" /\ Key!Next
  /\ UNCHANGED <<focus, requestVars, limitVars, newsletterVars, webhookVars, migrationVars, watchVars, chainVars, cacheVars>>
NewsletterStep ==
  /\ focus = "newsletter" /\ News!Next
  /\ UNCHANGED <<focus, faults, requestVars, limitVars, keyVars, webhookVars, migrationVars, watchVars, chainVars, cacheVars>>
WebhookStep ==
  /\ focus = "webhook" /\ Hook!Next
  /\ UNCHANGED <<focus, faults, requestVars, limitVars, keyVars, newsletterVars, migrationVars, watchVars, chainVars, cacheVars>>
MigrationStep ==
  /\ focus = "migrations" /\ Mig!Next
  /\ UNCHANGED <<focus, requestVars, limitVars, keyVars, newsletterVars, webhookVars, watchVars, chainVars, cacheVars>>
WatchStep ==
  /\ focus = "watch" /\ Watch!Next
  /\ UNCHANGED <<focus, requestVars, limitVars, keyVars, newsletterVars, webhookVars, migrationVars, chainVars, cacheVars>>
ChainStep ==
  /\ focus = "chain" /\ Sync!Next
  /\ UNCHANGED <<focus, requestVars, limitVars, keyVars, newsletterVars, webhookVars, migrationVars, watchVars, cacheVars>>
CacheStep ==
  /\ focus = "cache" /\ Cached!Next
  /\ UNCHANGED <<focus, requestVars, limitVars, keyVars, newsletterVars, webhookVars, migrationVars, watchVars, chainVars>>

Next ==
  \/ RequestStep \/ LimitStep \/ KeyStep \/ NewsletterStep
  \/ WebhookStep \/ MigrationStep \/ WatchStep \/ ChainStep \/ CacheStep

Spec == Init /\ [][Next]_vars
-----------------------------------------------------------------------------
(* Each property is looked at where its part is followed: elsewhere the    *)
(* part stays in its initial state.                                        *)

(* idempotency_middleware: a repeated request is not run again: see        *)
(* Requests.                                                               *)
ExecutedOnce == focus = "requests" => Req!ExecutedOnce

(* A stored answer goes to the caller, route and key it was given to: see  *)
(* Requests.                                                               *)
AnswerBelongs == focus = "requests" => Req!AnswerBelongs

(* The order of the layers in main.rs: see Requests. *)
GuardsPassed == focus = "requests" => Req!GuardsPassed

(* The limits across instances whose clocks differ, and for a client that  *)
(* waits: see RateLimit.                                                   *)
LimitHonest == focus = "rate_limit" => Lim!LimitHonest

(* rotate_api_key leaves somebody who can log in: see ApiKeys. *)
KeySuccessor == focus = "api_keys" => Key!KeySuccessor

(* An active subscription ends only by its owner's wish: see Newsletter. *)
ActiveKept == [][News!KeepsActive]_newsletterVars

(* A SendGrid event takes effect once: see Webhook. *)
HandledOnce == focus = "webhook" => Hook!HandledOnce

(* Migrations run once, in order, over the history they expect: see        *)
(* Migrations.                                                             *)
AppliedOnce == focus = "migrations" => Mig!AppliedOnce

(* A persisted watch is there after a restart: see WatchedTx. *)
PendingSurvives == focus = "watch" => Watch!PendingSurvives

(* The sync worker covers no ledger whose events it did not store: see     *)
(* Chain.                                                                  *)
CoveredLedgersStored == focus = "chain" => Sync!CoveredLedgersStored

(* resolve_market and the two cached layers: see Cache. *)
QuietInvalidation == focus = "cache" => Cached!QuietInvalidation

(* get_or_set_json and its lock: see Cache. *)
SingleFlight == focus = "cache" => Cached!SingleFlight
=============================================================================
