# PredictIQ in TLA+

PredictIQ is a prediction market. A Soroban (Stellar) smart contract in
`src/contracts/predict-iq` keeps markets, stakes, disputes, votes and governance; an API
service in `src/services/api` serves and caches that data, follows the chain, and sends
email through a queue in Redis and PostgreSQL; a text-to-speech service and a web frontend
complete the repository. This directory holds TLA+ models of the parts whose correctness
depends on the order of events, the TLC configurations that check them, and TLAPS proofs.

`PROJECT.json` is the index: components, runs, the source lines every definition stands
for, findings, hazards and theorems. Every definition named `X_Something` and introduced
by "Deviation:" is a plausible bug in `X`; replacing `X` by it makes TLC report the
property that `PROJECT.json` pairs with it. No specification uses a deviation.

Contents: 1 the system, 2 the modules, 3 the runs, 4 bounds and fairness, 5 the proofs,
6 what the models show about the code, 7 what is not modelled, 8 the plan.

## 1. The system

### The contract

A call of an entrypoint runs alone and to its end; if it returns an error the host undoes
everything it wrote. Concurrency is therefore the order of the calls, which anybody may
choose, and the passing of ledger time between them. Two things make that hard: several
parties act on the same market under conditions on the clock, and code that writes and
then returns an error writes nothing.

| Part | State | Operations | What makes it correct |
|---|---|---|---|
| markets (`markets.rs`) | market records, count, status index, dispute windows, reputations, creation terms | create, release deposit, prune, admin settings | the index lists each market under its status; a deposit is paid back once; a conditional market's parent keeps the outcome it was created for |
| bets (`bets.rs`) | one record per market, bettor and outcome | place a bet | stakes, totals and bettor counts are the sums of the bets |
| oracles, resolution, disputes, cancellation | oracle answers, status and times in the market record | oracle answer, attempt, dispute, finalize, resolve, cancel | one outcome per market, decided under the window the market was created with; a waiting market is settled in the end |
| fees (`fees.rs`) | base fee, revenue per token, total, referral balances | collect, reward, withdraw, claim | every unit held is somebody's; payouts never reach into stakes |
| circuit breaker, monitoring, token calls | state, opening time, probe count; error count | admit or refuse a call, pause, set, track an error | probes are limited, the cool-down is kept, an open breaker recovers |
| voting (`voting.rs`) | votes, tallies, locked tokens | vote or revise, unlock, decide | tallies are the votes; the same tokens never vote twice; locked tokens are accounted for |
| governance, admin | guardians, pending removal, pending upgrade, timelock, pause votes, admin transfer | propose, vote, execute, pause, transfer | votes and approvals belong to the pending proposal; no upgrade without notice |
| queries, archive | the records above; a list that only grows | page by page | a walk over a list that changes shows what stayed, each once |
| migration, events | schema version; output | migrate; emit | see 7 |

Interactions: `place_bet` calls the breaker, the fees and the token; `create_market` reads
the parent market and reputations; resolution, disputes and cancellation write the market
record through `update_market`, which keeps the index; disputes and votes go through the
breaker; the tallies of `voting.rs` decide in `resolution.rs` and `cancellation.rs`;
`emergency_pause` of governance writes the breaker.

### The API service

Here tasks of several processes interleave at every `await`, share Redis and PostgreSQL,
and may stop between any two commands.

| Part | State | Operations | What makes it correct |
|---|---|---|---|
| email queue and delivery (`email/queue.rs`, `email/service.rs`) | rows of four tables; five Redis structures; a worker's own variables | enqueue, dequeue, send, retry, bury, recover, requeue, suppress | an email is sent again only when nobody can know that it was sent, and a job not finished is somewhere |
| email webhook (`email/webhook.rs`) | nonces in Redis, event rows, suppressions, counters | verify, parse, check, store, suppress, count | an event counts once however often it is delivered, and is not lost |
| newsletter | one row per address, mailed tokens | subscribe, confirm, unsubscribe, GDPR request and deletion, clean-up | an active subscription ends by its owner's wish |
| request layers, idempotency, audit (`main.rs`, `idempotency.rs`, `audit_middleware.rs`, the guards) | stored responses, audit rows | pass the layers, look up, run, store, record | a repeated request is not run again, nobody gets an answer that is not his, no guard is skipped |
| API keys (`handlers.rs`, `security.rs`, `db.rs`) | key rows with an end date | list, mark, insert, expire, delete, authenticate | a rotation leaves somebody who can log in |
| rate limits | sliding windows and counters in Redis | count, refuse | the limit holds over any window, and waiting helps |
| cache and its breaker (`cache/mod.rs`) | values on two layers, fill locks, tags; two atomics | fetch or fill, invalidate, expire, trip, close | one filler at a time, nothing old after an invalidation, and nothing old for ever |
| blockchain sync | last seen ledger, cursor, checkpoint, replay progress; watched transactions in memory and in PostgreSQL | poll, fetch, store, save, purge, replay; watch, persist, resolve, load | no covered ledger without its events, no pending transaction forgotten |
| chain reads and health | cached answers, a client's call and tries | call, retry, give up, store, answer | data at least as new as its label, every request answered |
| paged endpoints (`pagination.rs`, `handlers.rs`) | cached lists, a client's cursor | fill, slice | as for the queries |
| start-up, workers and shutdown (`main.rs`, `shutdown.rs`, `config.rs`) | phase, tokens, completion counts, restarts, requests in flight; the key schema | check, start, bind; panic, restart; signal, drain, exit | once the drains begin the process ends when the last request has, and what it says of its drains is true; the schema is judged right |
| migration runner (`migrations.rs`) | advisory lock, `schema_migrations` | lock, verify, apply, unlock, crash | each migration once, in order, over the history it expects |

The parts meet in the stores: a request passes the layers and the limits before it runs; a
handler reads through the cache, whose commands go through the Redis breaker; the sync
worker and the replays write the chain keys that the reads share; the webhook fills the
suppressions that the email queue reads; rotation decides what authentication accepts; the
clean-up of old rows runs beside the handlers; a shutdown stops the workers between two of
their tasks.

### The rest

The text-to-speech service (jobs, a shared store, a breaker per provider) and the frontend
share no state with the two parts above.

## 2. The modules

| Module | Models | Built on |
|---|---|---|
| `Ledger` | the Soroban host as the contract uses it (external): clock, balances held, rollback (`Commit`) | |
| `CircuitBreaker` | `circuit_breaker.rs` | `Ledger` |
| `Fees` | `fees.rs` | `Ledger` |
| `Markets` | `markets.rs`, `bets.rs`, `disputes.rs`, the market side of `oracles.rs`, `resolution.rs`, `cancellation.rs` | `Fees`, `CircuitBreaker` |
| `MarketStatus` | abstract: the life of a market | |
| `Monitoring` | the breaker under load, `monitoring.rs`, `sac.rs` | `CircuitBreaker` |
| `Governance` | `governance.rs`, `admin.rs` | `CircuitBreaker` |
| `Voting` | `voting.rs` and the decisions taken on its tallies | `Ledger` |
| `EmailQueue` | `email/queue.rs`, the sending half of `email/service.rs`, the statements of `db.rs` they use | |
| `Guards` | the guards without state: HTTPS, size, URI, content type, CSRF, client address, whitelist | |
| `Requests` | the layers of the admin and newsletter routers, authentication, idempotency, audit entries | `Guards` |
| `RateLimit` | `rate_limit.rs`, `IpRateLimiter::allow`, `incr_with_ttl` | |
| `ApiKeys` | `rotate_api_key` and the statements of `api_keys` | |
| `Newsletter` | the newsletter handlers and their statements, for one address | |
| `Webhook` | `sendgrid_webhook_middleware`, `email/webhook.rs`, for one event | |
| `Migrations` | `migrations.rs` | |
| `WatchedTx` | the watched transactions of `blockchain.rs` | |
| `Chain` | sync loop, reorganisations and replay of `blockchain.rs`, the ledger being external | |
| `ChainReads` | the cached reads of `blockchain.rs`, `rpc_call`, the health handlers | |
| `Cache` | `get_or_set_json` on its two layers, `invalidate_tag`, `resolve_market` | |
| `RedisBreaker` | `CircuitBreaker` and `exec` of `cache/mod.rs` | |
| `Paging` | the paged handlers, `queries.rs`, `event_archive.rs` | |
| `KeySchema` | `ContractKeySchema` of `config.rs` | |
| `Lifecycle` | `main.rs` from the first check to the exit, `shutdown.rs`, the supervisors | |
| `MCMarkets`, `MCGovernance`, `MCEmailQueue` | instances for TLC | |
| `MCContract` | `Governance` and `Voting` in one run | `MCGovernance`, `Voting` |
| `MCApi` | the nine API modules that are checked for safety | |
| `MCRecovery` | `Monitoring`, `Cache`, `RedisBreaker`, `Lifecycle`, `ChainReads`, `Paging`, `KeySchema` | |
| `SumTheorems` | lemmas on `SumFunctionOnSet` of the community modules | |
| `MarketsProofs`, `MarketsMoneyProofs` | theorems on `Markets`: its life and its refinement of `MarketStatus`; its sums | `Markets`, `SumTheorems` |
| `ContractProofs` | theorems on `Governance` and `Voting` | `MCContract`, `SumTheorems` |
| `EmailQueueProofs` | theorems on `EmailQueue` | `EmailQueue` |
| `ApiProofs`, `ApiDataProofs` | theorems on the nine parts of `MCApi` | `MCApi` |
| `RecoveryProofs` | theorems on `Monitoring`, `ChainReads`, `Paging`, `Lifecycle` and `KeySchema` | `MCRecovery`, `SumTheorems` |

`MCContract`, `MCApi` and `MCRecovery` hold modules that share no variable. A behaviour picks
a `focus` in its initial state and follows that module with all its interleavings and faults;
the others stay in one initial state. That is a sum of state spaces, not a product: parts
without common state cannot disturb each other, and a product would check nothing more.

**Contract modules.** A variable is a storage key or a family of keys (the comment at the
declaration names it) or is marked as history. An action is an entrypoint that returns
`Ok`, with everything it writes; an entrypoint that returns `Err` changes nothing and is no
step. The two places where code writes and then returns `Err` on purpose, a refused call of
the breaker and a counted failure, are modelled with `Commit("Err", before, after)` so that
what the code attempts stays visible. Authorisation is left to the environment: the call of
an admin is an action that may be taken. A transfer to the contract may succeed or not; one
from the contract needs the balance. Left out of records are texts, TTLs, events and fields
that nothing reads. The payout mode stays `Pull`: `set_payout_mode` exists in `markets.rs`
and in a test's call, but `lib.rs` has no such entrypoint.

`Markets` has no votes: `cast_vote` needs `dispute_snapshot_ledger`, which nothing sets
(theorem `TypeCorrect`). `Voting` therefore starts where the repository's own tests start, from a disputed
market with a snapshot, and considers one market. `unlock_tokens` is an action there although
`lib.rs` does not export it, because the tests and the comments of `cast_vote` rely on it.

**Email module.** A worker is a program counter; one action is what happens up to the next
`await`, that is one Redis command, SQL statement or request to SendGrid. Any of them may
fail (`ProcessFails`, `MarkFailedFails`, `RequeueFails`, `SkipStep` and the failing branches)
and a worker may crash between any two (`Crash`; its restart has a new worker id). SendGrid
may accept and its answer be lost. There is no clock: a retry may be due at any time and a
held job may look stale at any time. A worker between jobs renews its heartbeat and is not
taken for dead, which assumes that writing the heartbeat succeeds.

`main.rs:140` builds the `EmailService` by `EmailService::new`, which passes no cache
(`service.rs:137`), and this service is the one the worker gets (`main.rs:277`). So the branches of
`send_email_idempotent` that count a recipient's emails and set the idempotency key are never
taken, and `Post` sends whenever it is reached. What can be promised is relative to `doubts`, a history
variable that counts, for each job, the moments after which the code may send it once more
although it was sent or is in other hands: an answer that is lost, a failure after the
request and before the job is completed, a job taken up again while it is also somewhere else
(by recovery, a retry that fails half-way, or a requeue).

**API modules.** As in the email module an action reaches to the next `await`. A command that
fails, an answer that is lost, a key that expires early or a crash takes one of `MaxFaults`
faults; `exec` of `cache/mod.rs` repeats a command whose answer was lost, so that such a command
may take effect twice, the second time on what others have written since; properties that hold only without some kind of fault say so by counting it (a lock that
expired under its holder or was freed twice, a nonce that was lost, a stored response that Redis dropped). The
guards are predicates over what a request carries (`Headers`), and `Requests` sends a fixed
sequence of arrivals through `Layers`, in which the layer that is added last runs first. `Chain`
keeps the ledger as the sequence of fork numbers of its ledgers, so that an event is known by
ledger and fork; `floor` remembers the lowest confirmed ledger that a rollback replaced, below which
nothing can be promised. In `ChainReads` a value is labelled with the ledger the code writes into
it and carries the height at which it was really read. `Paging` follows one walk over one listing while
rows are added, removed or reordered as the code of that listing allows; `WalkExact` asks for
the exact result only of walks whose pages came from compatible views. Rows of a status come by market id, so that a market that enters one may
come anywhere. `RedisBreaker` counts as a failure what `exec` counts: no connection (the pool's
time limit included), no answer, and a value that cannot be parsed (`mixed`), since
`get_or_set_json` reads a plain value as a `CachedEntry` first. `WatchedTx` keeps an entry's age in
memory apart from its row's expiry: a start gives what it loads a new age and no new expiry
(`reloaded`). `Lifecycle` has a
coordinator for the email worker and one for the blockchain workers, as `main.rs` has, and
`worker_completed` is a read and a write.

## 3. The runs

| Run | Instance | Shows |
|---|---|---|
| `markets_money` | 2 markets, 2 tokens, 2 bettors who name a referrer, base fee 50%, deposit, creation fee | stakes, bettor counts and, in each token, the balance add up after any order of bets, decisions, withdrawals, releases in either token, pruning (780 000 states) |
| `markets_lifecycle` | 1 market, 2 oracles, two windows, breaker opened at will | index and times agree with the status, terminal states are final, a waiting market is settled or disputed (liveness) |
| `markets_conditional` | 2 markets, the second perhaps conditional | the parent's outcome stands; both markets implement `MarketStatus` |
| `governance` | 3 guardians, 1 upgrade, timelock 1 or 2; 2 voters, 2 tokens of different precision, one with snapshots | approvals belong to the pending proposal, no unannounced upgrade; tallies, locks, double voting, decisions backed by votes (690,000 states) |
| `email_queue` | 1 job, 2 workers, 2 attempts, 1 fault, 1 doubt | sent again only after a doubt; lost only in four known places (780 000 states) |
| `api` | 9 parts, see 4 | what concurrent requests, instances and workers must keep to (1.3 million states) |
| `recovery` | 7 parts, see 4 | what must come to an end, and walks over changing lists (170,000 states) |
| `referral_reserve`, `half_open_stuck`, `upgrade_timelock`, `email_twice`, `false_reorg` | as above | counterexamples, section 6 |

What the properties of `api` say, each in the module named:

- `ExecutedOnce` (`Requests`): once a success with a key was answered, a later request of that
  caller, route and key is not run, whatever overlapping requests did, unless Redis lost the entry.
- `AnswerBelongs`, `GuardsPassed` (`Requests`): a stored answer goes to its own caller and route;
  nothing but a refusal leaves without every guard, the key check included, having let this
  very request pass, and what reaches the key check is in the audit log.
- `LimitHonest` (`RateLimit`): the bound over any window, and that waiting a window always helps.
- `KeySuccessor` (`ApiKeys`): a label whose keys end has one that lasts, or a rotation that is
  still at work, unless a rotation failed.
- `ActiveKept` (`Newsletter`): only the owner, or a subscription that had looked the address up before the
  confirmation, ends an active subscription.
- `HandledOnce` (`Webhook`): at most once and at least once, each up to the faults that break it.
- `AppliedOnce` (`Migrations`): no version twice, none over a history the release does not expect.
- `PendingSurvives` (`WatchedTx`): a live watch that was persisted and is not final is loaded by the next
  start; one that a start had itself loaded keeps at least its pending row (see 6 for the second start).
- `CoveredLedgersStored` (`Chain`): whatever cursor, checkpoint or completed replay cover has its
  events stored, unless a rollback replaced confirmed ledgers.
- `QuietInvalidation`, `SingleFlight` (`Cache`): an invalidation that no reader overlaps leaves
  nothing old on either layer; one filler, plus one for each lock that expired under its holder and
  each DEL of a lock that was repeated because its answer was lost.

And those of `recovery`: `AdmissionBudget`, `OpenRecovers` (`Monitoring`), `EventuallyFresh`
(`Cache`), `CircuitCloses` (`RedisBreaker`: once Redis answers for good the circuit is closed again and
again, and for good if no value of the wrong form is read any more), `ShutdownEnds` with the honesty
of the drains (`Lifecycle`), `ReadsHonest`, `ReadsEnd` (`ChainReads`), `WalkExact` (`Paging`) and
`SchemaJudged` (`KeySchema`: the search ends and reports a circle if and only if there is one).

Every run but `false_reorg` says `CHECK_DEADLOCK FALSE`: time and the counters that only grow are
bounded, so a behaviour ends when it reaches the bounds; apart from that the system may also
really stop, when nobody calls or the process has exited.

## 4. Bounds and fairness

Bounds have names starting with `Max` (`MaxTime`, `MaxReceived`, `MaxMarkets`,
`MaxFailures`, `MaxAdmitted`, `MaxUpgrades`, `MaxFaults`, `MaxDoubts`, `MaxChanges`, `MaxErasures`,
`MaxLedger`, `MaxRollbacks`, `MaxHeight`, `MaxRows`, `MaxRequests`, `MaxRestarts`, `MaxCrashes`;
in `MCApi` also `LimitTime`, `LimitRequests`, `OneFault`, `TwoFaults`); the other constants are the
code's own, scaled down. Time runs far enough in every run for a market to pass deadline,
resolution deadline, window and pruning, or for a breaker to open, cool down, be probed and
be opened again. A base fee of 50% makes fee, referral reward and truncation visible on a
stake of 20; the arithmetic is the code's (multiply, then one truncating division).
`MarketsMoney.cfg` needs no time, since the admin may resolve at once and the grace period is scaled to 0;
the tiers, the treasury and the reputations, whose fees and deposits leave these sums alone, are in
`MarketsConditional.cfg` and in the theorems. Deposits and creation fees are integers in the model, as
`set_creation_deposit` and `set_creation_fee` validate nothing; TLC is given positive ones and the
theorem covers the others. Every bet of that run names a referrer, who gets a tenth of the fee; bets
that name nobody are in the run `referral_reserve` and in the theorem. The oracle's answers are of the options that exist: one out of range is accepted by
the code as well (6). Two workers, one job, one fault and one doubt suffice for the races over a
job: one worker is taken for dead or crashes, the other takes over, both go on (two faults with
one doubt, and one with two, were checked once: 9.8 and 8.8 million states). One lost answer of each
increment of `RateLimit` is modelled, and a limit of at least two is assumed. In `Contract.cfg`, `I128_MAX` is a small number
so that the multiplication that overflows in the code (and makes the call fail) is reached.

For the API: three deliveries, three subscriptions or three requests make a late one meet the
traces of two that overlap; two callers and two routes tell a stored answer's owner; two
admins and three keys let rotations overlap while keys expire and names are used again; two readers
on two layers, one resolution and one fault give every order of fill, expiry, lock loss and
invalidation; three ledgers, a lag of one and one rollback give confirmed, unconfirmed and
replaced ledgers, with one or two faults placing a crash or a failing command anywhere; three
releases of which one edited a migration start side by side. Five requests in five
units of time cross a window of three twice. The key schema is checked for all graphs of
references between three fields (and proved right for any number); lists have up to three rows and pages up to two.

`SYMMETRY` is used where the values are interchangeable and no temporal property is
checked under it that distinguishes them: the guardians `g2` and `g3`, the tokens and the
bettors of `markets_money`, the email workers and the callers of `MCApi`.

Fairness. `Markets!FairSpec` assumes that ledgers close (`Tick`) and that somebody calls
`finalize_resolution` when it is possible; the entrypoint needs no authorisation, and the
parties to the market gain by calling it. `Monitoring!FairSpec` assumes that ledgers close
and that users keep calling protected entrypoints: the breaker has no timer and changes only
when called. `MCRecovery` states, per focus: readers of the cache and callers of Redis run on, and
Redis expires what has a TTL (`Cache`, `RedisBreaker`; tokio runs ready tasks, and `SETEX` gives
every value its TTL); the timers of the drains fire and `main` runs on
(`Lifecycle`; nothing is assumed of the workers, which may hang, nor of requests in flight: no
layer limits the time of a request or of its body, Redis commands have no time limit, and `main.rs`
awaits the graceful shutdown without one); each client's request runs on, the
HTTP client having a timeout of its own (`ChainReads`); the search takes its next step
(`KeySchema`, which is sequential). Liveness is stated for windows and cool-downs that end within `MaxTime`. The
other specifications assume no fairness and are checked for safety only; for the email queue
in particular nothing is guaranteed in the end, as the losses of 6.6 show. `PendingSurvives`
rests on `watched_tx_ttl` being at its default, the thirty minutes of `expires_at`, and on an upsert
ending within them, which its query timeout sees to.

## 5. The proofs

TLAPS checks every proof for arbitrary constants that satisfy the named assumptions
(`LedgerAssumption`, `BreakerAssumption`, `FeeAssumption`, `MarketAssumption`,
`GovernanceAssumption`, `ContractAssumption`, `MonitoringAssumption`, `EmailAssumption`,
`ApiAssumption`, `RecoveryAssumption` and what they name), which TLC evaluates in the runs. They
say that bounds and durations are natural numbers, that sets which are summed over are finite,
that the majority threshold is not zero, a rate limit at least two and its window not empty, that
the default timelock is a legal one and that distinct sentinels are distinct. `ContractAssumption`
also says that `Scale(t)` is a positive natural number; it is a power of ten, and the provers know
nothing of exponentiation. All but seven of the forty properties of the passing runs are theorems;
the seven are at the end of this section, and of two of them the part without liveness is a
theorem as well.

**`SumTheorems`.** The models add up with `SumFunctionOnSet`, which is defined by a fold over a
function chosen by `CHOOSE`. Its lemmas (`SumEmpty`, `SumAdd`, `SumChange`, `SumSplit`,
`SumAgrees`, `SumMonotone`, `SumScaled`, `SumZero`, `SumNat`, ...) need induction over finite
sets; the library's induction theorem takes a predicate as a parameter, which no backend
instantiates. They are proved from a smallest counterexample instead: the sizes of the subsets
that violate the claim are a set of natural numbers; if it is not empty it has a least element,
and taking one element out of a subset of that size contradicts it.

**`MarketsProofs`.** `TypeCorrect` says that `TypeOK` holds always, with one lemma per family of
entrypoints. The type of a market record says that `dispute_snapshot_ledger` is `None`, so
the theorem shows that voting can start for no market (6, without a run). The life of markets needs a
stronger invariant, `LifeInv`: neither the index, nor the times, nor the parent property is
inductive alone. The dispute window of a stored market is set, identifiers do not exceed the
count, nothing is dated in the future, and a parent with children was settled before its
resolution deadline; with these the parts support each other. The argument has three kinds of
steps: creation (`CreateLife`), pruning (`PruneLife`) and rewriting one record
(`RewriteLife`). For the last kind every entrypoint has a "form" lemma (`PlaceBetForm`,
`OracleForm`, `DisputeForm`, `FinalizeForm`, `ResolveForm`, `CancelForm`, `DepositForm`) that
states which fields it may change and how; `FormTimes` and `StepLife` use the forms only.
From `LifeCorrect` follow `StatusIndexCorrect`, `TimesCorrect`, `ParentOutcomeCorrect`,
`OracleSettledCorrect` and, as an action property, `TerminalCorrect`. `Refinement`: every step
of `Markets` is a step of `MarketStatus` or a stutter, under a mapping that sees a missing market
below the count as pruned; it uses the same form lemmas and `LifeInv` (the next identifier is
unused because the count covers the markets).

**`MarketsMoneyProofs`.** `StakeConservationHolds` rests on `StakeInv` (the sums, and that nobody
has a bet in a market that does not exist), `EscrowAccountingHolds` on the balance of each
token by itself (`Escrow(t)`, with what was paid in place of another token on both sides), `WinnerCountsHolds` on `CountInv`. An entrypoint either moves money in one of the ways of `MoneyStep`
or is `Quiet`. The last two theorems carry a hypothesis that the code does not enforce, because `set_base_fee`
validates nothing: with a negative fee a bet earns more stake than was paid, and with a fee of 100% a net
stake of zero makes a bettor look new. `[](base_fee >= 0)` and `[](base_fee < BPS_DENOMINATOR)`
restrict the behaviours to an admin who sets no such fee; `StakeConservation` needs neither.

**`ContractProofs`.** `GovInv` ties each pending proposal to the guardians of today and the
approval times to the votes; from it follow `RemovalAboutGuardiansHolds`, `ApprovalBelongsHolds`
and, as an action property, `UpgradeAnnouncedHolds`. `VotingInv` says that votes have outcomes and weights,
that every tally is the sum of its votes, that the balance is the sum of the locks and of what was stranded,
and that a decision was backed when it was taken and no vote changes after it; each needs the
others, since `cancel_market_vote` divides by the tallies and `finalize_resolution` by the votes
(`TalliesAddUp`). `NoDoubleVoteHolds` needs `PurseInv`. Tokens are either in a wallet or with the contract
(`SupplyOK`), and a vote has a cost in its token, compared in the finer of the token's unit and
the normal one so that both directions of the rounding come out right. A vote by snapshot costs no more
than its voter had at the snapshot; the votes by lock together cost no more than the contract
holds of that token as long as votes can be cast, and no more than there is of it ever after,
when locks are paid back (`SpentOK`). The theorem assumes `SupplyFits`: the supply of a token
with few decimals can be weighed in an i128. Beyond that the property is false of the code, whose
`saturating_mul` cuts every vote by itself and not their sum. `Contract.cfg` satisfies `SupplyFits`.

**`EmailQueueProofs`.** `ResendsExplainedHolds` rests on `SendInv`: the emails of a job that were sent, the
lists it stands in or is about to be put in (`Waiting`) and the workers that have it and have not yet sent
it (`Hands`) are together no more than one and its doubts. Each step `Pays` for what it adds: a request
that is accepted turns a worker's hand into an email sent, and a step that makes a second
way to send a job costs a doubt. `UnfinishedTrackedHolds` rests on `TrackInv`: an unfinished job that is not lost is
`Anchored`, that is in the queue, waiting for a retry, a dead letter, between the two stores of
`enqueue`, `requeue_dead_letter` or `dequeue`, or listed in the processing set by an entry that `Rests`: one whose owner is not past the point where it would remove
it. "There is an entry for the job" alone is not inductive, for the last entry may
belong to a worker that is about to remove it; and a job is counted as lost when a worker removes
another's entry while its own is gone. Steps that only move a worker on are shown to be `Walks`
and `Ordinary` at once, which leaves the steps that touch the entries.

**`ApiProofs`, `ApiDataProofs`.** A part moves only while it is followed, so every theorem has an
invariant of its part and the fact that a step is one of the part or leaves it alone. The
invariants, each stronger than what it shows:

- `KeyInv`: the property with the type. `WatchInv`: a resolution in flight is about a final
  transaction, and the row of a live entry that was not loaded at a start has not expired.
- `NewsletterInv`: whoever may write over a confirmation is known to have looked before it.
- `WebhookInv`: what was counted and what is still at work is bounded by the present nonce and the
  lost ones, the queries are made in their order, and what passed the nonce was counted or is at work
  unless a query failed.
- `MigrationInv`: an instance at work without the lock is one whose session ended, so what runs
  a version besides what has run it is bounded (`RunsBounded`), and a run has passed over
  lower versions because they are recorded (`RunnersInOrder`).
- `RequestInv`: stored responses and answers are true successes of their scope, what a request
  carries at each layer was let pass by those before it, and a success is stored or its
  scope known to have lost it. This is where the order of the layers in `main.rs` is used.
- `ChainInv`: tips held by the loop or a replay are confirmed (`TipsConfirmed`), and what is
  covered, or about to be, has its events (`CoveredHeld`, `WorkHeld`), up to the lowest confirmed
  ledger a rollback replaced.
- `LimitInv`: an admitted request stays a member of the sorted set, scored up to `Skew` late, as
  long as some clock may count it (`MembersHonest`); and one life of the counter's key admits no more
  than the maximum, a window meeting at most two of them (`CounterHonest`).
- `CacheInv`: which calls may run under which lock (`CallsInOrder`), how many fill a key
  (`Flight`, against the locks that expired or were freed twice), and that after a quiet invalidation whatever a reader holds was fetched since.

**`RecoveryProofs`.** `AdmissionBudgetHolds`: `BreakerFollowsOrder` ties the breaker's keys to the last
privileged write, so that the admitted calls are counted by the probe counter. `MonitoringNeverCounts`: the
error count is zero for ever, whatever fails. `ReadsHonestHolds`: `ReadInv` says of every cached value and
of every value in a client's hands that it was read no earlier than its label, which for
the step between two calls needs the ledger the first call returned.

`WalkExactHolds` covers all eight listings at once. `ViewsHonest` says of everything a walk can meet (the
rows, the cached views, the views it used) that no row stands in it twice, and for the listing by
market number that a row has the same place in all of them. `WalkHonest` says that what was received
lies before the position of the walk (`Position`), and that while the views agree every row that all of them hold
before that position was received. `PageFacts` shows that the cursor, the page number and the
offset, however the code computes them, cut pages alike: the next one begins where this one ends.

`DrainHonestHolds`: completions may be lost and are never invented (`CountsHonest`), so neither the
count a coordinator publishes nor the one a completing worker has read exceeds the number of
workers that have ended. `VerdictHolds`: a field is `Safe` when every set of fields each of which refers
to one of them leaves it out. A finished field is safe, and so is what a field on the path has
looked at, unless it is the next one on the path (`FinishedSafe`); the path is a chain of references without
repetition (`PathChained`), so its end from the field that is met again is a circle. No induction over
the graph is needed.

Only model-checked:

- `PendingSettles`, `OpenRecovers`, `EventuallyFresh`, `CircuitCloses`, `ShutdownEnds`, `ReadsEnd`
  and `SchemaJudged`: liveness under fairness, outside the prover. What `ShutdownEnds` and
  `SchemaJudged` say of the state they end in is proved (`DrainHonestHolds`, `VerdictHolds`).
- The five properties of the violation runs, which are false.

## 6. What the models show about the code

### With a run

1. **Referral rewards are paid out of stakes** (`referral_reserve`). The fee is credited to
   the protocol in full and a tenth of it once more to the referrer. After both are
   withdrawn the contract holds less than the bettors staked. `EscrowAccounting` names the
   only other leak between tokens: `release_creation_deposit` (`markets.rs:442`) pays a deposit in
   whatever token its creator passes, out of other markets' stakes (`swapped`).
2. **A half-open breaker stays half-open** (`half_open_stuck`). When the probes are used up
   `require_closed` writes `Open` and returns an error; the host undoes the write.
3. **A timelock can be used up in advance** (`upgrade_timelock`). The approval time of an
   upgrade is recorded once. A majority that is lost, when guardians are added, and regained
   is executed without waiting; the comment says "the timelock starts when majority approval
   is reached". `UpgradeAnnounced` is what remains true.
4. **An email is sent twice** (`email_twice`). A comment in `process_job` says that retries never produce
   duplicate sends; the idempotency key it derives is given to a service without a cache, which ignores
   it. A worker that dies between the request and the completion, or an answer that is lost, makes the
   next attempt send again. `ResendsExplained` is what remains true. (With a cache the key would be set before
   the request and kept when it fails, `service.rs:249`, so a failed first send would be taken for done.)
5. **A node that does not answer looks like a reorganisation** (`false_reorg`). `sync_once` then
   uses its own cursor, which lags behind, as the latest ledger; `handle_reorg_if_detected`
   compares it with the last ledger seen and purges every chain key, cursor and checkpoint
   included, and counts a `chain_reorg`. The log line says "holding cursor".

### Met while modelling, without a run

Contract and email:

- **No dispute can be voted on.** `voting.rs` says "Snapshot ledger is set at dispute-filing
  time"; `file_dispute` does not set it and nothing else does. `cast_vote` therefore refuses
  every vote, and `TypeCorrect` proves it for every market.
- **6.6 Where email jobs get lost.** `UnfinishedTracked` names four places: `enqueue` and
  `requeue_dead_letter` between their two stores, `dequeue` between pop and entry, and a
  worker that removes another's entry while its own is gone, since entries are removed by job
  and not by worker. Orphans are looked for only when a worker starts.
- `recover_orphaned_jobs` removes no entry: its script looks for `':' .. job_id .. '$'` as a Lua
  pattern (`queue.rs:541`), in which the hyphens of a UUID are quantifiers, so it never matches. The
  comment says "Behavior is idempotent: repeated calls on the same set recover nothing"
  (`queue.rs:460`), and so does the test at `queue.rs:858`; the job is queued again by each
  recovery until somebody completes it.
- `dequeue` takes the lowest score whether or not it is due, so the requeue delay of dead letters is
  not honoured; the worker's `select!` with the heartbeat may make the loop wait for the next
  tick of 30 seconds; a 5xx of SendGrid counts as a refusal although it may have been
  accepted.
- `set_oracle_result` and `attempt_oracle_resolution` accept an outcome that no option has, and the market is
  settled to it.
- A failing transfer counts an error and returns one, so the count is undone with the call
  and no number of failures opens the breaker (`FailingCall`); the unit test in
  `monitoring.rs` that sees it open calls `safe_transfer` directly, outside an entrypoint.
- A rejected upgrade is undone in the same way: the rejection is recorded and an error
  returned.
- `INVARIANTS.md` section 3 draws a dispute as coming from `Active`, while it comes from
  `PendingResolution`, and leaves out that the admin resolves or cancels from any open
  status; `MarketStatus` has the transitions the code takes.
- The base fee is not validated. Above 100% stakes become negative, and at 100% a
  net amount of zero makes a repeated bettor look new; `markets_money` stays below. Deposit and creation
  fee are not validated either; a negative deposit is never taken nor paid.
- `INVARIANTS.md` section 6 says the fee is transferred to the treasury at bet time; the code
  keeps it, so that revenue, stakes and deposits share one balance.
- The repository's `README.md` (line 74) says admin and guardian are always distinct;
  `accept_admin` compares with the single guardian account, not with the guardian set.
- Votes for an emergency pause do not expire and survive the removal of their guardian, whose
  later re-appointment revives them.
- With 60% to 75% of the votes for cancellation, `finalize_resolution` resolves the market to
  the cancellation index as its winning outcome.
- `unlock_tokens` pays in the governance token of the day, which may not be the one that was
  locked; pruning drops lock records, bets and deposits that nobody has collected.
- A child market must end before its parent's resolution deadline while an undisputed parent
  is settled after it: conditional markets are possible only on parents that the admin
  settled early (`ParentSettledEarly` of `LifeInv`, `OracleSettledHasNoChild`).
- `get_markets_by_status` returns one market for a limit of 0; a limit above the cap is clamped without a
  word, so that a client that advances its offset by what it asked for skips rows.
- `migration.rs`: `verify_migration_integrity` looks at the presence of keys only, and
  `reverse_migration` needs a backup that a successful migration has removed.

API:

- Idempotency reserves nothing: requests that overlap all run (`ExecutedOnce` speaks of later
  ones). The comment says POST, the code keys every method, and the key ignores query and body.
- `main.rs` serves without connect info: `audit_logging_middleware` requires it, so every admin
  request would be answered with an error, the client address is "unknown" unless a proxy is
  trusted, and a whitelist then refuses everybody.
- `rate_limit.rs` says "Fails open if Redis is unavailable"; `IpRateLimiter::allow` fails closed.
- A rotation whose insert fails leaves the old keys ending without a successor, and a second rotation with
  a shorter overlap shortens what the first had promised.
- Unsubscribing leaves a pending token usable; the clean-up deletes unsubscribed rows as well.
- When Redis runs the nonce script twice, the webhook drops the event as a replay; when a later
  query fails the suppression is lost, and the answer is 200 all the same.
- `resolve_market` reports "cache invalidated" although a fill that overlaps it may write the old
  state back, for a TTL. `tag_store_invalidate` prepares the keys and does not pass them to its
  script: the tag's set stays empty and its counter has no TTL.
- `PR_DESCRIPTION.md` says a failed probe opens the Redis breaker again; `record_failure` counts
  failures and does not look at the half-open state.
- After the drains time out, `main.rs:564` logs "forcing exit", and `shutdown.rs:62` says "callers should
  force-exit"; nothing does. `main.rs:570` goes on to await the graceful shutdown, which waits for every open
  request, so that a client that stalls keeps the process alive.
- A plain value is a parse error to the first read of `get_or_set_json`, is tried again like one of Redis,
  and counts as a failure of Redis each time: overlapping reads of such a value may open the circuit.
- `worker_completed` may lose an update, which turns a clean drain into a timeout; HTTP requests
  are taken during the drains of the workers; `main.rs` restarts the email worker four times where
  the unused supervisor under `src/src/` does five.
- A watch loaded at a start lives thirty minutes more in memory while its row keeps the old expiry
  (`blockchain.rs:1235`, `db.rs:920`), so a second restart may lose a live watch, although the comment
  at `blockchain.rs:1279` says "the watch survives a restart".
- After a restart more transactions may be watched than the cap allows. After a real deep
  reorganisation the cursor in memory is not reset. The progress of a replay lives longer than the
  events it stored.
- `/health` is documented to answer 503 when a dependency is down and does not look at the result
  of the database; `/health/ready` has no timeout over the RPC retries; content pages never say that there
  are more, their query being limited to the page.
- The documentation names `PREDICTIQ_ENV`, the code reads `APP_ENV`: whether start-up fails fast
  follows the latter. A key schema that is judged invalid is logged and used. The migration
  runner is not called from `main.rs`.

## 7. What is not modelled

Claims and refunds: `lib.rs` calls `claim_winnings` and `withdraw_refund`, which no module
defines at this commit (the crate does not compile as it is), so payouts to bettors have no
source to model. The oracle consensus of `oracles.rs` and `migration.rs` are called by nothing. Names the
API uses without a definition at this commit (`security::RateLimiter`, the token functions of
the newsletter, `WATCHED_TX_TTL`) are modelled from their use. Code that nothing mounts or
compiles in (`content_type.rs`, `client_ip.rs`, the old `rate_limit_middleware`, `src/src/`) is left
out. Events, templates, metrics, tracing, response headers and the frontend keep no state that
decides anything. A guardian list with duplicates is not considered. The user's side of
tokens is reduced to whether a transfer succeeds. Wall-clock durations are events that may
happen at any time, except in `RateLimit` and the contract, where the properties are about
them; for that reason the wait of an orphaned email job for the next restart of a worker
is not measured. The text-to-speech service is a program of its own; noticed on reading it:
`AudioCache.set` adds the size of an entry it replaces a second time, the rate limiter's
`INCR` and `PEXPIRE` are two commands, and a job that is done is reported as failed when saving it fails.

## 8. What could follow

1. Type invariants of the API modules as theorems of their own; they are now parts of the
   invariants above.
2. An abstract specification of a job's life in the email queue (queued, held, retried, sent, lost), with
   `EmailQueue` shown to implement it as `Markets` implements `MarketStatus`.
3. The text-to-speech service as a project of its own.
