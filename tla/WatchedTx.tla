----------------------------- MODULE WatchedTx -----------------------------
(***************************************************************************)
(* The transaction watch list of the blockchain client                     *)
(* (services/api/src/blockchain.rs and the watched_transactions table of   *)
(* db.rs).  The list is a map in memory with a cap and a time to live;     *)
(* every entry is written to the database, and every outcome recorded      *)
(* there, by tasks nobody waits for.  A restart loads the list from the    *)
(* pending rows.                                                           *)
(***************************************************************************)
EXTENDS Naturals, FiniteSets

CONSTANTS
    Txs,       \* transaction hashes
    Cap,       \* watched_tx_max_size
    MaxFaults  \* bound: crashes and failed database calls

WatchedTxAssumption == Cap \in Nat \ {0} /\ MaxFaults \in Nat

Outcomes == {"SUCCESS", "FAILED"}

VARIABLES
    chain,      \* what getTransaction answers of each transaction (external)
    watched,    \* the map's keys
    aged,       \* entries of the map past watched_tx_ttl
    upserts,    \* spawned and unfinished watched_tx_upsert tasks
    marks,      \* spawned and unfinished watched_tx_mark_resolved tasks
    row,        \* the status column of each row, "none" without one
    rowOld,     \* rows past expires_at
    persisted,  \* history: entries whose latest upsert succeeded
    reloaded,   \* history: entries a restart loaded, with a new age and the old expiry
    up,
    faults

vars == <<chain, watched, aged, upserts, marks, row, rowOld, persisted, reloaded, up,
          faults>>

Init ==
    /\ chain = [t \in Txs |-> "NOT_FOUND"]
    /\ watched = {} /\ aged = {} /\ upserts = {} /\ marks = {}
    /\ row = [t \in Txs |-> "none"] /\ rowOld = {} /\ persisted = {} /\ reloaded = {}
    /\ up = TRUE /\ faults = 0

Fault == faults < MaxFaults /\ faults' = faults + 1

----------------------------------------------------------------------------
(* watch_transaction, called by the status handler and by sync_once: expired
   entries leave, a watched hash or a full map changes nothing more, and a new
   hash is inserted and its upsert spawned. *)
Watch(t) ==
    /\ up
    /\ LET kept == watched \ aged
           new == t \notin kept /\ Cardinality(kept) < Cap IN
         /\ watched' = IF new THEN kept \union {t} ELSE kept
         /\ upserts' = IF new THEN upserts \union {t} ELSE upserts
         /\ persisted' = IF new THEN (persisted \ aged) \ {t} ELSE persisted \ aged
         /\ reloaded' = reloaded \ aged
    /\ aged' = {}
    /\ UNCHANGED <<chain, marks, row, rowOld, up, faults>>

(* ON CONFLICT keeps a status that is not pending and moves the expiry. *)
Upsert(t) ==
    /\ up /\ t \in upserts
    /\ upserts' = upserts \ {t}
    /\ \/ /\ row' = [row EXCEPT ![t] = IF @ = "none" THEN "pending" ELSE @]
          /\ rowOld' = rowOld \ {t}
          /\ persisted' = persisted \union ({t} \intersect watched)
          /\ UNCHANGED faults
       \/ Fault /\ UNCHANGED <<row, rowOld, persisted>>
    /\ UNCHANGED <<chain, watched, aged, marks, reloaded, up>>

(* run_transaction_monitor meets a hash whose status is neither NOT_FOUND nor
   PENDING; any other status, and a failed call, leaves it in the map.  The
   status may come from a cache of twenty seconds, and then is an earlier
   one: of a final status that makes no difference. *)
Final_NotPending(status) == status # "PENDING"
Final(status) == status \notin {"NOT_FOUND", "PENDING"}

Resolve(t) ==
    /\ up /\ t \in watched /\ Final(chain[t])
    /\ watched' = watched \ {t} /\ aged' = aged \ {t}
    /\ persisted' = persisted \ {t} /\ reloaded' = reloaded \ {t}
    /\ marks' = marks \union {<<t, IF chain[t] = "SUCCESS" THEN "confirmed" ELSE "expired">>}
    /\ UNCHANGED <<chain, upserts, row, rowOld, up, faults>>

(* UPDATE of the row, if there is one by now. *)
MarkResolved(m) ==
    /\ up
    /\ marks' = marks \ {m}
    /\ \/ row' = [row EXCEPT ![m[1]] = IF @ = "none" THEN @ ELSE m[2]] /\ UNCHANGED faults
       \/ Fault /\ UNCHANGED row
    /\ UNCHANGED <<chain, watched, aged, upserts, rowOld, persisted, reloaded, up>>

----------------------------------------------------------------------------
Crash ==
    /\ up /\ Fault
    /\ up' = FALSE
    /\ watched' = {} /\ aged' = {} /\ upserts' = {} /\ marks' = {}
    /\ persisted' = {} /\ reloaded' = {}
    /\ UNCHANGED <<chain, row, rowOld>>

(* load_watched_transactions: every pending row that has not expired, without
   regard to the cap; a failed load starts with an empty list.  A loaded entry
   is as old as the start, and its row keeps the expiry it has. *)
LoadPending == {t \in Txs : row[t] = "pending" /\ t \notin rowOld}

Restart ==
    /\ ~up
    /\ up' = TRUE
    /\ \/ /\ watched' = LoadPending /\ persisted' = LoadPending /\ reloaded' = LoadPending
          /\ UNCHANGED faults
       \/ Fault /\ UNCHANGED <<watched, persisted, reloaded>>
    /\ UNCHANGED <<chain, aged, upserts, marks, row, rowOld>>

(* The ledger and the clock. *)
Submit(t) ==
    /\ chain[t] = "NOT_FOUND"
    /\ chain' = [chain EXCEPT ![t] = "PENDING"]
    /\ UNCHANGED <<watched, aged, upserts, marks, row, rowOld, persisted, reloaded, up, faults>>

Finish(t, outcome) ==
    /\ chain[t] = "PENDING"
    /\ chain' = [chain EXCEPT ![t] = outcome]
    /\ UNCHANGED <<watched, aged, upserts, marks, row, rowOld, persisted, reloaded, up, faults>>

(* An entry's thirty minutes outlast its upsert, which has a time limit. *)
Age(t) ==
    /\ t \in watched \ (aged \union upserts)
    /\ aged' = aged \union {t}
    /\ UNCHANGED <<chain, watched, upserts, marks, row, rowOld, persisted, reloaded, up, faults>>

(* watched_tx_ttl is at its default, the thirty minutes of expires_at, and a
   new entry's begin first: the row of an entry this process inserted outlives
   it. *)
ExpireRow(t) ==
    /\ row[t] # "none" /\ t \notin rowOld
    /\ t \in persisted \ reloaded => t \in aged
    /\ rowOld' = rowOld \union {t}
    /\ UNCHANGED <<chain, watched, aged, upserts, marks, row, persisted, reloaded, up, faults>>

Next ==
    \/ \E t \in Txs : Watch(t) \/ Upsert(t) \/ Resolve(t)
    \/ \E m \in marks : MarkResolved(m)
    \/ \E t \in Txs : Submit(t) \/ Age(t) \/ ExpireRow(t)
    \/ \E t \in Txs, outcome \in Outcomes : Finish(t, outcome)
    \/ Crash \/ Restart

Spec == Init /\ [][Next]_vars

----------------------------------------------------------------------------
(* A watch survives a restart: while an unfinished transaction is watched, not
   past its time to live, and the task that persisted it succeeded, the next
   start loads it again, whatever earlier watches, outcomes and late tasks did
   to the same row (watch_transaction, run_transaction_monitor,
   watched_tx_upsert, watched_tx_mark_resolved, load_watched_transactions).  Of
   an entry that was itself loaded at a start only the pending row is left: its
   age began anew and its expiry did not, so that a second restart may skip
   it. *)
PendingSurvives ==
    \A t \in persisted \ aged :
        \/ chain[t] \in Outcomes
        \/ t \in LoadPending
        \/ t \in reloaded /\ row[t] = "pending"
=============================================================================
