------------------------------- MODULE Chain -------------------------------
(***************************************************************************)
(* The blockchain client's event synchronisation                           *)
(* (services/api/src/blockchain.rs): a worker that polls the ledger,       *)
(* fetches the contract's events, stores them in Redis and moves a cursor  *)
(* kept in memory and, for restarts, under two Redis keys; and the replay  *)
(* an operator asks for over HTTP.                                         *)
(*                                                                         *)
(* The ledger is external.  It is a sequence of fork numbers: ledger n was *)
(* closed by fork ledgers[n] and carries one event <<n, ledgers[n]>>.  A   *)
(* rollback drops a suffix, and the ledgers closed after it belong to a    *)
(* new fork.  Nothing reads a stored event back, so stored remembers every *)
(* event that was ever written, whatever became of its key.                *)
(***************************************************************************)
EXTENDS Integers, Sequences, FiniteSets

CONSTANTS
    Lag,           \* confirmation_ledger_lag
    ReplayFrom,    \* the ledger a replay starts from
    MaxLedger,     \* bound: ledgers the chain may hold
    MaxRollbacks,  \* bound: rollbacks of the chain
    MaxFaults      \* bound: failed calls, crashes and expired keys of the worker

ChainAssumption ==
    /\ {Lag, MaxLedger, MaxRollbacks, MaxFaults} \subseteq Nat
    /\ ReplayFrom \in Nat \ {0}

VARIABLES
    ledgers,     \* the chain the RPC node serves
    forks,       \* rollbacks so far
    top,         \* history: the longest the chain has been
    floor,       \* history: the lowest ledger replaced although it was confirmed
    lastSeen,    \* Redis: last seen ledger, 0 when absent
    savedCursor, \* Redis: sync cursor, 0 when absent
    checkpoint,  \* Redis: ledger checkpoint, 0 when absent
    progress,    \* Redis: {} or {confirmed tip of the completed replay}
    stored,      \* history: events written to Redis
    worker,      \* the sync worker's step
    cursor,      \* the worker's cursor in memory
    tip,         \* the confirmed tip sync_once computed
    batch,       \* events fetched and not yet stored
    replay,      \* the replay's step, confirmed tip and fetched events
    faults

ledgerVars == <<ledgers, forks, top, floor>>
redisVars == <<lastSeen, savedCursor, checkpoint>>
workerVars == <<worker, cursor, tip, batch>>
replayVars == <<replay, progress>>
vars == <<ledgerVars, redisVars, workerVars, replayVars, stored, faults>>

Ledgers == 1..MaxLedger
Events == Ledgers \X (0..MaxRollbacks)
NoReplay == [step |-> "idle", tip |-> 0, batch |-> {}]

Init ==
    /\ ledgers = <<0>> /\ forks = 0 /\ top = 1 /\ floor = MaxLedger + 1
    /\ lastSeen = 0 /\ savedCursor = 0 /\ checkpoint = 0 /\ progress = {}
    /\ stored = {}
    /\ worker = "down" /\ cursor = 0 /\ tip = 0 /\ batch = {}
    /\ replay = NoReplay
    /\ faults = 0

Fault ==
    /\ faults < MaxFaults
    /\ faults' = faults + 1

----------------------------------------------------------------------------
(* The ledger. *)

CloseLedger ==
    /\ Len(ledgers) < MaxLedger
    /\ ledgers' = Append(ledgers, forks)
    /\ top' = IF Len(ledgers') > top THEN Len(ledgers') ELSE top
    /\ UNCHANGED <<forks, floor, redisVars, workerVars, replayVars, stored, faults>>

(* A rollback that replaces ledgers at or below top - Lag replaces confirmed
   ones, and lowers the floor below which the client's promise holds. *)
Rollback(n) ==
    /\ forks < MaxRollbacks
    /\ n < Len(ledgers)
    /\ forks' = forks + 1
    /\ ledgers' = SubSeq(ledgers, 1, n)
    /\ floor' = IF n < top - Lag /\ n + 1 < floor THEN n + 1 ELSE floor
    /\ UNCHANGED <<top, redisVars, workerVars, replayVars, stored, faults>>

(* getEvents: all pages from startLedger on, up to the node's latest ledger. *)
EventsSince(from) == {<<n, ledgers[n]>> : n \in from..Len(ledgers)}

Saturating(a, b) == IF a > b THEN a - b ELSE 0
ConfirmedTip_NoLag(latest) == latest
ConfirmedTip(latest) == Saturating(latest, Lag)

----------------------------------------------------------------------------
(* The sync worker. *)

(* run_sync_loop, up to its loop.  The cursor is the one saved in Redis, or
   zero; a checkpoint more than one ledger behind the chain replaces it.  The
   reads may fail, each with the effect of an absent key, and so may the call
   for the latest ledger. *)
ResumeAt(saved, mark, latestKnown) ==
    IF saved > 0 /\ mark > 0 /\ latestKnown /\ Len(ledgers) > mark + 1 THEN mark ELSE saved

StartLoop ==
    /\ worker = "down"
    /\ worker' = "poll"
    /\ \/ cursor' = ResumeAt(savedCursor, checkpoint, TRUE) /\ UNCHANGED faults
       \/ Fault /\ cursor' \in {0, ResumeAt(savedCursor, 0, TRUE), ResumeAt(savedCursor, checkpoint, FALSE)}
    /\ UNCHANGED <<ledgerVars, redisVars, tip, batch, replayVars, stored>>

(* del_by_pattern scans the chain keys and deletes them batch by batch: when a
   command fails, those of the first batches are gone.  lastSeen is one more of
   these keys. *)
ChainKeys == {"cursor", "checkpoint", "progress"}

Purge(gone) ==
    /\ savedCursor' = IF "cursor" \in gone THEN 0 ELSE savedCursor
    /\ checkpoint' = IF "checkpoint" \in gone THEN 0 ELSE checkpoint
    /\ progress' = IF "progress" \in gone THEN {} ELSE progress

(* handle_reorg_if_detected: a latest ledger more than Lag below the last seen
   one purges every chain key, the saved cursor and checkpoint included; the
   cursor in memory stays. *)
ReorgDetected(latest) == lastSeen > 0 /\ latest + Lag < lastSeen

HandleReorg(latest) ==
    /\ lastSeen' = latest
    /\ Purge(IF ReorgDetected(latest) THEN ChainKeys ELSE {})

(* sync_once up to the fetch.  When the latest ledger cannot be had, the cursor
   takes its place. *)
Behind(confirmed) == confirmed > cursor

Poll(latest) ==
    /\ worker = "poll"
    /\ IF latest = Len(ledgers) THEN UNCHANGED faults ELSE latest = cursor /\ Fault
    /\ HandleReorg(latest)
    /\ LET confirmed == ConfirmedTip(latest) IN
         /\ tip' = IF Behind(confirmed) THEN confirmed ELSE 0
         /\ worker' = IF Behind(confirmed) THEN "fetch" ELSE "poll"
    /\ UNCHANGED <<ledgerVars, cursor, batch, replay, stored>>

(* handle_reorg_if_detected fails in Redis during the purge, or after it and
   before the last seen ledger is set.  sync_once ends. *)
PollFails ==
    /\ worker = "poll"
    /\ ReorgDetected(Len(ledgers))
    /\ Fault
    /\ lastSeen' \in {0, lastSeen}
    /\ \E gone \in SUBSET ChainKeys : Purge(gone)
    /\ UNCHANGED <<ledgerVars, workerVars, replay, stored>>

Fetch ==
    /\ worker = "fetch"
    /\ worker' = "store"
    /\ batch' = EventsSince(cursor + 1)
    /\ UNCHANGED <<ledgerVars, redisVars, cursor, tip, replayVars, stored, faults>>

(* The events are stored in the order of their ledgers, those above the
   confirmed tip too; the rest of sync_once refreshes cached reads. *)
StoreEvents ==
    /\ worker = "store"
    /\ worker' = "save_cursor"
    /\ stored' = stored \union batch
    /\ batch' = {}
    /\ UNCHANGED <<ledgerVars, redisVars, cursor, tip, replayVars, faults>>

(* getEvents fails, or Redis does after the events below n were stored: the
   cursor stays and the next round starts over. *)
SyncFails(n) ==
    /\ worker \in {"fetch", "store"}
    /\ Fault
    /\ stored' = stored \union {e \in batch : e[1] < n}
    /\ worker' = "poll" /\ batch' = {} /\ tip' = 0
    /\ UNCHANGED <<ledgerVars, redisVars, cursor, replayVars>>

(* run_sync_loop's bookkeeping after a round: the cursor in memory, its key,
   then the checkpoint's key; a failed write of either is ignored. *)
SaveCursor ==
    /\ worker = "save_cursor"
    /\ worker' = "save_checkpoint"
    /\ cursor' = tip
    /\ \/ savedCursor' = tip /\ UNCHANGED faults
       \/ Fault /\ UNCHANGED savedCursor
    /\ UNCHANGED <<ledgerVars, lastSeen, checkpoint, tip, batch, replayVars, stored>>

SaveCheckpoint ==
    /\ worker = "save_checkpoint"
    /\ worker' = "poll" /\ tip' = 0
    /\ \/ checkpoint' = cursor /\ UNCHANGED faults
       \/ Fault /\ UNCHANGED checkpoint
    /\ UNCHANGED <<ledgerVars, lastSeen, savedCursor, cursor, batch, replayVars, stored>>

(* A panic of the worker or a crash of the process. *)
Crash ==
    /\ worker # "down"
    /\ Fault
    /\ worker' = "down" /\ cursor' = 0 /\ tip' = 0 /\ batch' = {}
    /\ replay' = NoReplay
    /\ UNCHANGED <<ledgerVars, redisVars, progress, stored>>

(* The cursor's key lives a day and the checkpoint's a week after their last
   write, so the cursor may be gone while the checkpoint is there, and the
   other way round after a failed write. *)
Expire ==
    /\ Fault
    /\ \/ savedCursor > 0 /\ savedCursor' = 0 /\ UNCHANGED <<checkpoint, lastSeen>>
       \/ checkpoint > 0 /\ checkpoint' = 0 /\ UNCHANGED <<savedCursor, lastSeen>>
       \/ lastSeen > 0 /\ lastSeen' = 0 /\ UNCHANGED <<savedCursor, checkpoint>>
    /\ UNCHANGED <<ledgerVars, workerVars, replayVars, stored>>

----------------------------------------------------------------------------
(* replay_events, asked for over HTTP.  A completed replay is answered from
   its progress key; otherwise the latest ledger is read, the events fetched,
   and those up to the confirmed tip stored. *)

ReplayBegin ==
    /\ worker # "down" /\ replay = NoReplay /\ progress = {}
    /\ replay' = [step |-> "fetch", tip |-> ConfirmedTip(Len(ledgers)), batch |-> {}]
    /\ UNCHANGED <<ledgerVars, redisVars, workerVars, progress, stored, faults>>

ReplayFetch ==
    /\ replay.step = "fetch"
    /\ replay' = [replay EXCEPT !.step = "store",
                                !.batch = {e \in EventsSince(ReplayFrom) : e[1] <= replay.tip}]
    /\ UNCHANGED <<ledgerVars, redisVars, workerVars, progress, stored, faults>>

ReplayStore ==
    /\ replay.step = "store"
    /\ stored' = stored \union replay.batch
    /\ progress' = {replay.tip}
    /\ replay' = NoReplay
    /\ UNCHANGED <<ledgerVars, redisVars, workerVars, faults>>

(* The replay fails after the events below n were stored. *)
ReplayFails(n) ==
    /\ replay # NoReplay
    /\ stored' = stored \union {e \in replay.batch : e[1] < n}
    /\ replay' = NoReplay
    /\ UNCHANGED <<ledgerVars, redisVars, workerVars, progress, faults>>

(* The progress key lives an hour. *)
ExpireProgress ==
    /\ progress # {}
    /\ progress' = {}
    /\ UNCHANGED <<ledgerVars, redisVars, workerVars, replay, stored, faults>>

----------------------------------------------------------------------------
LedgerStep == CloseLedger \/ \E n \in Ledgers : Rollback(n)
Sync ==
    \/ StartLoop \/ Fetch \/ StoreEvents \/ SaveCursor \/ SaveCheckpoint
    \/ \E latest \in {Len(ledgers), cursor} : Poll(latest)
Faults == PollFails \/ Crash \/ Expire \/ \E n \in Ledgers : SyncFails(n)
Replay ==
    \/ ReplayBegin \/ ReplayFetch \/ ReplayStore \/ ExpireProgress
    \/ \E n \in Ledgers : ReplayFails(n)

Next == LedgerStep \/ Sync \/ Faults \/ Replay

Spec == Init /\ [][Next]_vars

----------------------------------------------------------------------------
(* Whatever fails, crashes, expires or is rolled back, the worker never counts
   a ledger as covered before its event was stored: at or below the cursor in
   memory, the saved cursor, the checkpoint and the tip of a completed replay,
   the event of every ledger of the chain was written, unless a rollback
   reached below the confirmation lag (sync_once, run_sync_loop,
   replay_events). *)
Covered(n) ==
    \/ n <= cursor \/ n <= savedCursor \/ n <= checkpoint
    \/ ReplayFrom <= n /\ \E t \in progress : n <= t

CoveredLedgersStored ==
    \A n \in 1..Len(ledgers) : Covered(n) /\ n < floor => <<n, ledgers[n]>> \in stored

(* Chain data is purged only when the ledger went back: METRICS.md counts the
   purge under the scope chain_reorg, and sync_once logs that it holds the
   cursor when the latest ledger is unknown. *)
PurgeMeansReorg ==
    [][\A latest \in {Len(ledgers), cursor} :
         Poll(latest) /\ ReorgDetected(latest) => Len(ledgers) < lastSeen]_vars
=============================================================================
