------------------------------ MODULE ApiProofs ------------------------------
(***************************************************************************)
(* Proofs about the parts of the API service that keep shared state: a     *)
(* property that MCApi looks at, for every number of callers, rows and     *)
(* faults.  A part moves only while it is followed, so each proof has the  *)
(* same shape: an inductive invariant of the part, and the fact that a     *)
(* step is one of the part or leaves it alone.                             *)
(***************************************************************************)
EXTENDS MCApi, FiniteSetTheorems, WellFoundedInduction, TLAPS

-----------------------------------------------------------------------------
(* What a step does to a part that is followed.                            *)

(* A behaviour follows one part for ever.                                  *)
LEMMA FocusStays == [Next]_vars => focus' = focus
  BY DEF Next, vars, RequestStep, LimitStep, KeyStep, NewsletterStep, WebhookStep,
         MigrationStep, WatchStep, ChainStep, CacheStep

(* While the API keys are followed, every step is one of ApiKeys or leaves *)
(* their table and the rotations alone.                                    *)
LEMMA KeyFollowed ==
  ASSUME [Next]_vars, focus = "api_keys"
  PROVE  Key!Next \/ UNCHANGED <<keys, rotation, failed, faults>>
  BY DEF Next, vars, keyVars, RequestStep, LimitStep, KeyStep, NewsletterStep, WebhookStep,
         MigrationStep, WatchStep, ChainStep, CacheStep

(* The same for the newsletter, which shares nothing with the other parts: *)
(* whatever is followed, a step is one of Newsletter or leaves it alone.   *)
LEMMA NewsletterFollowed ==
  ASSUME [Next]_vars
  PROVE  News!Next \/ UNCHANGED newsletterVars
  BY DEF Next, vars, RequestStep, LimitStep, KeyStep, NewsletterStep, WebhookStep,
         MigrationStep, WatchStep, ChainStep, CacheStep

(* The same for the webhook.                                               *)
LEMMA WebhookFollowed ==
  ASSUME [Next]_vars
  PROVE  Hook!Next \/ UNCHANGED webhookVars
  BY DEF Next, vars, RequestStep, LimitStep, KeyStep, NewsletterStep, WebhookStep,
         MigrationStep, WatchStep, ChainStep, CacheStep

(* The same for the migrations, while they are followed.                   *)
LEMMA MigrationsFollowed ==
  ASSUME [Next]_vars, focus = "migrations"
  PROVE  Mig!Next \/ UNCHANGED <<lock, runner, schema, executed, lapses, faults>>
  BY DEF Next, vars, migrationVars, RequestStep, LimitStep, KeyStep, NewsletterStep,
         WebhookStep, MigrationStep, WatchStep, ChainStep, CacheStep

(* The same for the watch list.                                            *)
LEMMA WatchFollowed ==
  ASSUME [Next]_vars
  PROVE  Watch!Next \/ UNCHANGED watchVars
  BY DEF Next, vars, RequestStep, LimitStep, KeyStep, NewsletterStep, WebhookStep,
         MigrationStep, WatchStep, ChainStep, CacheStep

-----------------------------------------------------------------------------
(* API keys *)

KeyInv == focus = "api_keys" => Key!TypeOK /\ Key!KeySuccessor

(* What the rotations rest on: how often a query may fail is a number.     *)
LEMMA KeyConstants == OneFault \in Nat
  BY ApiAssumption DEF Key!ApiKeysAssumption

(* Init establishes it.                                                    *)
LEMMA KeyInit == Init => KeyInv
  <1> SUFFICES ASSUME Init PROVE Key!TypeOK /\ Key!KeySuccessor
    BY DEF KeyInv
  <1>1. Key!Init
    BY DEF Init
  <1> USE DEF Key!Init, Key!Idle, Key!Absent, Key!Lasting, Key!Expiring, Key!Expired
  <1>2. keys \in [KeyHashes -> {Key!Absent, Key!Lasting, Key!Expiring, Key!Expired}]
    BY <1>1
  <1>3. rotation \in [Admins -> [at : {"idle", "mark"}, mark : SUBSET KeyHashes]]
    BY <1>1
  <1>4. failed \in BOOLEAN
    BY <1>1, Zenon
  <1>5. faults \in 0..OneFault
    BY <1>1, KeyConstants
  <1>6. Key!KeySuccessor
    BY <1>1 DEF Key!KeySuccessor
  <1> QED
    BY <1>2, <1>3, <1>4, <1>5, <1>6 DEF Key!TypeOK

(* Every step preserves it.                                                *)
LEMMA KeyNext == KeyInv /\ [Next]_vars => KeyInv'
  <1> SUFFICES ASSUME KeyInv, [Next]_vars, focus' = "api_keys"
               PROVE  (Key!TypeOK /\ Key!KeySuccessor)'
    BY DEF KeyInv
  <1>0. focus = "api_keys" /\ Key!TypeOK /\ Key!KeySuccessor
    BY FocusStays DEF KeyInv
  <1> USE KeyConstants DEF Key!TypeOK, Key!Absent, Key!Lasting, Key!Expiring, Key!Expired
  <1>1. ASSUME NEW a \in Admins, Key!ListActive(a)
        PROVE  (Key!TypeOK /\ Key!KeySuccessor)'
    BY <1>0, <1>1 DEF Key!ListActive, Key!Accepted, Key!KeySuccessor
  <1>2. ASSUME NEW a \in Admins, Key!SetExpires(a)
        PROVE  (Key!TypeOK /\ Key!KeySuccessor)'
    BY <1>0, <1>2 DEF Key!SetExpires, Key!MarkRow, Key!KeySuccessor
  <1>3. ASSUME NEW a \in Admins, Key!Insert(a)
        PROVE  (Key!TypeOK /\ Key!KeySuccessor)'
    BY <1>0, <1>3 DEF Key!Insert, Key!InsertRow, Key!Idle, Key!KeySuccessor
  <1>4. ASSUME NEW a \in Admins, Key!RotationFails(a)
        PROVE  (Key!TypeOK /\ Key!KeySuccessor)'
    BY <1>0, <1>4 DEF Key!RotationFails, Key!Fault, Key!Idle, Key!KeySuccessor
  <1>5. ASSUME NEW k \in KeyHashes, Key!Expire(k)
        PROVE  (Key!TypeOK /\ Key!KeySuccessor)'
    BY <1>0, <1>5 DEF Key!Expire, Key!KeySuccessor
  <1>6. CASE Key!DeleteExpired
    BY <1>0, <1>6 DEF Key!DeleteExpired, Key!KeySuccessor
  <1>7. CASE UNCHANGED <<keys, rotation, failed, faults>>
    BY <1>0, <1>7 DEF Key!KeySuccessor
  <1> QED
    BY <1>0, <1>1, <1>2, <1>3, <1>4, <1>5, <1>6, <1>7, KeyFollowed DEF Key!Next

(* rotate_api_key: however many rotations overlap, a label whose key       *)
(* expires or has expired has a lasting key, or a rotation that will       *)
(* insert one, unless a rotation failed half-way.                          *)
THEOREM KeySuccessorHolds == Spec => []KeySuccessor
  <1>1. KeyInv => KeySuccessor
    BY DEF KeyInv, KeySuccessor
  <1> QED
    BY <1>1, KeyInit, KeyNext, PTL DEF Spec

-----------------------------------------------------------------------------
(* Newsletter *)

NewsletterType ==
  /\ row \in News!Rows
  /\ call \in [Calls -> {"new", "upsert", "enqueue", "done"}]
  /\ overlap \subseteq Calls

(* While the subscription is active, every call that is about to write the *)
(* pending row had looked the address up before it was confirmed.          *)
WritersOverlap ==
  News!AlreadyActive(row) => \A c \in Calls : call[c] = "upsert" => c \in overlap

NewsletterInv == NewsletterType /\ WritersOverlap

(* Init establishes it.                                                    *)
LEMMA NewsletterInit == Init => NewsletterInv
  BY DEF Init, News!Init, NewsletterInv, NewsletterType, WritersOverlap, News!Rows, News!NoRow,
         News!AlreadyActive

(* Every step preserves it, and ends an active subscription only as        *)
(* KeepsActive says.                                                       *)
LEMMA NewsletterNext ==
  NewsletterInv /\ [Next]_vars => NewsletterInv' /\ [News!KeepsActive]_newsletterVars
  <1> SUFFICES ASSUME NewsletterInv, [Next]_vars
               PROVE  NewsletterInv' /\ (News!KeepsActive \/ UNCHANGED newsletterVars)
    OBVIOUS
  <1> DEFINE Goal == NewsletterInv' /\ (News!KeepsActive \/ UNCHANGED newsletterVars)
  <1> USE DEF NewsletterInv, NewsletterType, WritersOverlap, News!KeepsActive,
              News!AlreadyActive, News!Rows
  <1>1. ASSUME NEW c \in Calls, News!Subscribe(c) PROVE Goal
    BY <1>1 DEF News!Subscribe, News!GetByEmail
  <1>2. ASSUME NEW c \in Calls, News!UpsertPending(c) PROVE Goal
    BY <1>2 DEF News!UpsertPending, News!PendingRow
  <1>3. ASSUME NEW c \in Calls, News!Enqueue(c) PROVE Goal
    BY <1>3 DEF News!Enqueue
  <1>4. ASSUME NEW c \in Calls, News!Confirm(c) PROVE Goal
    BY <1>4 DEF News!Confirm, News!ConfirmedRow, News!Confirms
  <1>5. CASE News!Unsubscribe
    BY <1>5 DEF News!Unsubscribe, News!UnsubscribedRow
  <1>6. CASE News!RequestToken
    BY <1>6 DEF News!RequestToken
  <1>7. CASE News!GdprDelete
    BY <1>7 DEF News!GdprDelete, News!NoRow
  <1>8. CASE News!Age
    BY <1>8 DEF News!Age
  <1>9. CASE News!DeleteExpiredPending
    BY <1>9 DEF News!DeleteExpiredPending, News!NoRow
  <1>10. CASE UNCHANGED newsletterVars
    BY <1>10 DEF newsletterVars
  <1> QED
    BY <1>1, <1>2, <1>3, <1>4, <1>5, <1>6, <1>7, <1>8, <1>9, <1>10, NewsletterFollowed
       DEF News!Next

(* newsletter_subscribe and the other handlers: an active subscription     *)
(* ends only by the owner's link or GDPR request, or by a call that had    *)
(* looked the address up before the confirmation, for any number of calls. *)
THEOREM ActiveKeptHolds == Spec => ActiveKept
  BY NewsletterInit, NewsletterNext, PTL DEF Spec, ActiveKept
-----------------------------------------------------------------------------
(* The watch list *)

WatchType ==
  /\ chain \in [Txs -> {"NOT_FOUND", "PENDING"} \cup Watch!Outcomes]
  /\ txRow \in [Txs -> {"none", "pending", "confirmed", "expired"}]
  /\ marks \subseteq Txs \X {"confirmed", "expired"}
  /\ persisted \subseteq watched /\ watched \subseteq Txs

(* A row leaves "pending", and a task is spawned to make it leave, only    *)
(* when the transaction is finished on the ledger, for good.               *)
MarksAreFinal ==
  /\ \A t \in Txs : txRow[t] \in {"confirmed", "expired"} => chain[t] \in Watch!Outcomes
  /\ \A m \in marks : chain[m[1]] \in Watch!Outcomes

(* A row in front of an entry that this process inserted has not expired.  *)
PersistedLive ==
  \A t \in persisted :
    /\ chain[t] \in Watch!Outcomes \/ txRow[t] = "pending"
    /\ t \notin rowOld \/ t \in reloaded \/ t \in aged

WatchInv == WatchType /\ MarksAreFinal /\ PersistedLive

(* Init establishes it.                                                    *)
LEMMA WatchInit == Init => WatchInv
  <1> SUFFICES ASSUME Watch!Init PROVE WatchInv
    BY DEF Init
  <1> QED
    BY DEF Watch!Init, WatchInv, WatchType, MarksAreFinal, PersistedLive

(* Every step preserves it.                                                *)
LEMMA WatchNext == WatchInv /\ [Next]_vars => WatchInv'
  <1> SUFFICES ASSUME WatchInv, [Next]_vars PROVE WatchInv'
    OBVIOUS
  <1> USE DEF WatchInv, WatchType, MarksAreFinal, PersistedLive, Watch!Outcomes
  <1>1. ASSUME NEW t \in Txs, Watch!Watch(t) PROVE WatchInv'
    <2>1. /\ UNCHANGED <<chain, marks, txRow, rowOld>>
          /\ persisted' \subseteq persisted \ aged /\ persisted' \subseteq watched'
          /\ watched' \subseteq Txs /\ reloaded' = reloaded \ aged
      BY <1>1 DEF Watch!Watch
    <2> QED
      BY <2>1
  <1>2. ASSUME NEW t \in Txs, Watch!Upsert(t) PROVE WatchInv'
    BY <1>2 DEF Watch!Upsert
  <1>3. ASSUME NEW t \in Txs, Watch!Resolve(t) PROVE WatchInv'
    BY <1>3 DEF Watch!Resolve, Watch!Final
  <1>4. ASSUME NEW m \in marks, Watch!MarkResolved(m) PROVE WatchInv'
    BY <1>4 DEF Watch!MarkResolved
  <1>5. ASSUME NEW t \in Txs, Watch!Submit(t) PROVE WatchInv'
    BY <1>5 DEF Watch!Submit
  <1>6. ASSUME NEW t \in Txs, Watch!Age(t) PROVE WatchInv'
    BY <1>6 DEF Watch!Age
  <1>7. ASSUME NEW t \in Txs, Watch!ExpireRow(t) PROVE WatchInv'
    BY <1>7 DEF Watch!ExpireRow
  <1>8. ASSUME NEW t \in Txs, NEW outcome \in Watch!Outcomes, Watch!Finish(t, outcome)
        PROVE  WatchInv'
    BY <1>8 DEF Watch!Finish
  <1>9. CASE Watch!Crash
    BY <1>9 DEF Watch!Crash
  <1>10. CASE Watch!Restart
    BY <1>10 DEF Watch!Restart, Watch!LoadPending
  <1>11. CASE UNCHANGED watchVars
    BY <1>11 DEF watchVars
  <1> QED
    BY <1>1, <1>2, <1>3, <1>4, <1>5, <1>6, <1>7, <1>8, <1>9, <1>10, <1>11, WatchFollowed
       DEF Watch!Next

(* watch_transaction, watched_tx_upsert, watched_tx_mark_resolved and the  *)
(* load at start: a live watch whose persisting task succeeded is loaded   *)
(* again as long as its transaction is unfinished, or was itself loaded    *)
(* and still has a pending row, for any number of transactions, crashes    *)
(* and failed calls and any cap.                                           *)
THEOREM PendingSurvivesHolds == Spec => []PendingSurvives
  <1>1. WatchInv => PendingSurvives
    BY DEF WatchInv, WatchType, PersistedLive, PendingSurvives, Watch!PendingSurvives, Watch!LoadPending
  <1> QED
    BY <1>1, WatchInit, WatchNext, PTL DEF Spec

-----------------------------------------------------------------------------
(* Webhook *)

WebhookType ==
  /\ at \in [Deliveries -> Hook!Labels]
  /\ nonce \in Nat /\ events \in Nat /\ counted \in Nat /\ suppressed \in BOOLEAN
  /\ passed \subseteq Deliveries /\ hookFaults \in [Hook!Kinds -> Nat]

(* The deliveries that got past the nonce and are still at work.           *)
AtWork == {d \in Deliveries : at[d] \in {"exists", "create", "suppress", "count"}}

(* One delivery passes for the present nonce, and one for each nonce that  *)
(* was lost; whoever passed is at work, or done and perhaps counted.       *)
PassesBounded ==
  counted + Cardinality(AtWork) =< hookFaults["nonce"] + (IF nonce > 0 THEN 1 ELSE 0)

(* The queries are made in their order: the event, the suppression, the    *)
(* counter.                                                                *)
QueriesInOrder ==
  /\ \A d \in Deliveries : at[d] = "suppress" => events > 0
  /\ \A d \in Deliveries : at[d] = "count" => suppressed /\ events > 0
  /\ counted > 0 => suppressed /\ events > 0

(* Unless a query failed, an event that was let pass, and one that was     *)
(* stored, has been counted or somebody is about to; a nonce was set by    *)
(* somebody who passed, or by a script that was run again.                 *)
NothingDropped ==
  /\ hookFaults["query"] = 0 /\ passed # {} => AtWork # {} \/ counted > 0
  /\ hookFaults["query"] = 0 /\ events > 0 =>
       (\E d \in Deliveries : at[d] \in {"suppress", "count"}) \/ counted > 0
  /\ nonce > 0 => passed # {} \/ hookFaults["retry"] > 0

WebhookInv == WebhookType /\ PassesBounded /\ QueriesInOrder /\ NothingDropped

(* There are finitely many deliveries.                                     *)
LEMMA WebhookConstants == IsFiniteSet(Deliveries)
  BY ApiAssumption DEF Hook!WebhookAssumption, Hook!IsFiniteSet, IsFiniteSet

(* What happens to the number of deliveries at work when one of them moves.*)
LEMMA AtWorkMoves ==
  ASSUME at \in [Deliveries -> Hook!Labels], NEW d \in Deliveries, NEW label \in Hook!Labels,
         Hook!Goto(d, label)
  PROVE  /\ at' \in [Deliveries -> Hook!Labels] /\ at'[d] = label
         /\ \A e \in Deliveries \ {d} : at'[e] = at[e]
         /\ Cardinality(AtWork) \in Nat /\ Cardinality(AtWork') \in Nat
         /\ d \in AtWork /\ d \in AtWork' => Cardinality(AtWork') = Cardinality(AtWork)
         /\ d \in AtWork /\ d \notin AtWork' => Cardinality(AtWork') = Cardinality(AtWork) - 1
         /\ d \notin AtWork /\ d \in AtWork' => Cardinality(AtWork') = Cardinality(AtWork) + 1
         /\ d \notin AtWork /\ d \notin AtWork' => Cardinality(AtWork') = Cardinality(AtWork)
  <1>1. /\ at' \in [Deliveries -> Hook!Labels] /\ at'[d] = label
        /\ \A e \in Deliveries \ {d} : at'[e] = at[e]
    BY DEF Hook!Goto
  <1>2. IsFiniteSet(AtWork)
    BY FS_Subset, WebhookConstants DEF AtWork
  <1>3. IsFiniteSet(AtWork')
    BY FS_Subset, WebhookConstants DEF AtWork
  <1>4. Cardinality(AtWork) \in Nat /\ Cardinality(AtWork') \in Nat
    BY <1>2, <1>3, FS_CardinalityType
  <1>5. d \in AtWork /\ d \in AtWork' => AtWork' = AtWork
    BY <1>1 DEF AtWork
  <1>6. d \in AtWork /\ d \notin AtWork' => AtWork' = AtWork \ {d}
    BY <1>1 DEF AtWork
  <1>7. d \notin AtWork /\ d \in AtWork' => AtWork' = AtWork \cup {d}
    BY <1>1 DEF AtWork
  <1>8. d \notin AtWork /\ d \notin AtWork' => AtWork' = AtWork
    BY <1>1 DEF AtWork
  <1>9. /\ d \in AtWork => Cardinality(AtWork \ {d}) = Cardinality(AtWork) - 1
        /\ d \notin AtWork => Cardinality(AtWork \cup {d}) = Cardinality(AtWork) + 1
    BY <1>2, FS_RemoveElement, FS_AddElement
  <1> QED
    BY <1>1, <1>4, <1>5, <1>6, <1>7, <1>8, <1>9

(* Init establishes it.                                                    *)
LEMMA WebhookInit == Init => WebhookInv
  <1> SUFFICES ASSUME Hook!Init PROVE WebhookInv
    BY DEF Init
  <1> USE DEF Hook!Init
  <1>1. AtWork = {}
    BY DEF AtWork
  <1>2. Cardinality(AtWork) = 0
    BY <1>1, FS_EmptySet
  <1>3. at \in [Deliveries -> Hook!Labels] /\ hookFaults \in [Hook!Kinds -> Nat]
    BY DEF Hook!Labels
  <1>4. suppressed \in BOOLEAN
    BY Zenon
  <1>5. WebhookType
    BY <1>3, <1>4 DEF WebhookType
  <1>6. PassesBounded /\ QueriesInOrder /\ NothingDropped
    BY <1>1, <1>2 DEF PassesBounded, QueriesInOrder, NothingDropped, Hook!Kinds
  <1> QED
    BY <1>5, <1>6 DEF WebhookInv

(* Every step preserves it.                                                *)
LEMMA WebhookNext == WebhookInv /\ [Next]_vars => WebhookInv'
  <1> SUFFICES ASSUME WebhookInv, [Next]_vars PROVE WebhookInv'
    OBVIOUS
  <1>0. WebhookType /\ PassesBounded /\ QueriesInOrder /\ NothingDropped
    BY DEF WebhookInv
  <1> USE DEF Hook!Labels, Hook!Kinds
  <1>1. ASSUME NEW d \in Deliveries, Hook!Deliver(d) PROVE WebhookInv'
    <2>1. PICK label \in {"parse", "done"} : Hook!Goto(d, label)
      BY <1>1 DEF Hook!Deliver
    <2>2. at[d] = "new" /\ UNCHANGED <<nonce, events, suppressed, counted, passed, hookFaults>>
      BY <1>1 DEF Hook!Deliver
    <2> QED
      BY <1>0, <2>1, <2>2, AtWorkMoves, ZenonT(30)
         DEF WebhookInv, WebhookType, PassesBounded, QueriesInOrder, NothingDropped, AtWork
  <1>2. ASSUME NEW d \in Deliveries, Hook!Parse(d) PROVE WebhookInv'
    <2>1. PICK label \in {"nonce", "done"} : Hook!Goto(d, label)
      BY <1>2 DEF Hook!Parse
    <2>2. at[d] = "parse" /\ UNCHANGED <<nonce, events, suppressed, counted, passed, hookFaults>>
      BY <1>2 DEF Hook!Parse
    <2> QED
      BY <1>0, <2>1, <2>2, AtWorkMoves, ZenonT(30)
         DEF WebhookInv, WebhookType, PassesBounded, QueriesInOrder, NothingDropped, AtWork
  <1>3. ASSUME NEW d \in Deliveries, Hook!CheckNonce(d) PROVE WebhookInv'
    <2>1. at[d] = "nonce" /\ UNCHANGED <<events, suppressed, counted>>
      BY <1>3 DEF Hook!CheckNonce
    <2>2. CASE nonce' = nonce + 1 /\ Hook!NonceSays(d, nonce') /\ UNCHANGED hookFaults
      <3>1. CASE nonce = 0
        <4>1. Hook!Goto(d, "exists") /\ passed' = passed \cup {d}
          BY <2>2, <3>1 DEF Hook!NonceSays, Hook!Replayed
        <4>a. /\ at' \in [Deliveries -> Hook!Labels] /\ at'[d] = "exists"
              /\ \A e \in Deliveries \ {d} : at'[e] = at[e]
              /\ Cardinality(AtWork') = Cardinality(AtWork) + 1 /\ Cardinality(AtWork) \in Nat
          BY <1>0, <2>1, <2>2, <3>1, <4>1, AtWorkMoves DEF WebhookType, AtWork
        <4>b. WebhookType'
          BY <1>0, <2>1, <2>2, <3>1, <4>1, <4>a DEF WebhookType
        <4>f. /\ {counted, nonce, hookFaults["nonce"]} \subseteq Nat
              /\ hookFaults'["nonce"] = hookFaults["nonce"]
          BY <1>0, <2>1, <2>2, <3>1, <4>1 DEF WebhookType
        <4>c. PassesBounded'
          BY <1>0, <2>1, <2>2, <3>1, <4>1, <4>a, <4>f DEF PassesBounded
        <4>d. QueriesInOrder'
          BY <1>0, <2>1, <2>2, <3>1, <4>1, <4>a DEF QueriesInOrder, WebhookType
        <4>e. NothingDropped'
          BY <1>0, <2>1, <2>2, <3>1, <4>1, <4>a DEF NothingDropped, WebhookType, AtWork
        <4> QED
          BY <4>b, <4>c, <4>d, <4>e DEF WebhookInv
      <3>2. CASE nonce > 0
        <4>1. Hook!Goto(d, "done") /\ UNCHANGED passed
          BY <1>0, <2>2, <3>2 DEF Hook!NonceSays, Hook!Replayed, WebhookType
        <4>a. /\ at' \in [Deliveries -> Hook!Labels] /\ at'[d] = "done"
              /\ \A e \in Deliveries \ {d} : at'[e] = at[e]
              /\ Cardinality(AtWork') = Cardinality(AtWork) /\ Cardinality(AtWork) \in Nat
          BY <1>0, <2>1, <2>2, <3>2, <4>1, AtWorkMoves DEF WebhookType, AtWork
        <4>b. WebhookType'
          BY <1>0, <2>1, <2>2, <3>2, <4>1, <4>a DEF WebhookType
        <4>f. /\ {counted, nonce, hookFaults["nonce"]} \subseteq Nat
              /\ hookFaults'["nonce"] = hookFaults["nonce"]
          BY <1>0, <2>1, <2>2, <3>2, <4>1 DEF WebhookType
        <4>c. PassesBounded'
          BY <1>0, <2>1, <2>2, <3>2, <4>1, <4>a, <4>f DEF PassesBounded
        <4>d. QueriesInOrder'
          BY <1>0, <2>1, <2>2, <3>2, <4>1, <4>a DEF QueriesInOrder, WebhookType
        <4>e. NothingDropped'
          BY <1>0, <2>1, <2>2, <3>2, <4>1, <4>a DEF NothingDropped, WebhookType, AtWork
        <4> QED
          BY <4>b, <4>c, <4>d, <4>e DEF WebhookInv
      <3> QED
        BY <1>0, <3>1, <3>2 DEF WebhookType
    <2>3. CASE Hook!Fault("retry") /\ nonce' = nonce + 2 /\ Hook!NonceSays(d, nonce')
      <3>1. Hook!Goto(d, "done") /\ UNCHANGED passed
        BY <1>0, <2>3 DEF Hook!NonceSays, Hook!Replayed, WebhookType
      <3>2. hookFaults' = [hookFaults EXCEPT !["retry"] = @ + 1]
        BY <2>3 DEF Hook!Fault
      <3>a. /\ at' \in [Deliveries -> Hook!Labels] /\ at'[d] = "done"
            /\ \A e \in Deliveries \ {d} : at'[e] = at[e]
            /\ Cardinality(AtWork') = Cardinality(AtWork) /\ Cardinality(AtWork) \in Nat
        BY <1>0, <2>1, <2>3, <3>1, <3>2, AtWorkMoves DEF WebhookType, AtWork
      <3>b. WebhookType'
        BY <1>0, <2>1, <2>3, <3>1, <3>2, <3>a DEF WebhookType
      <3>f. /\ {counted, nonce, hookFaults["nonce"]} \subseteq Nat
            /\ hookFaults'["nonce"] = hookFaults["nonce"]
        BY <1>0, <2>1, <2>3, <3>1, <3>2 DEF WebhookType
      <3>c. PassesBounded'
        BY <1>0, <2>1, <2>3, <3>1, <3>2, <3>a, <3>f DEF PassesBounded
      <3>d. QueriesInOrder'
        BY <1>0, <2>1, <2>3, <3>1, <3>2, <3>a DEF QueriesInOrder, WebhookType
      <3>e. NothingDropped'
        BY <1>0, <2>1, <2>3, <3>1, <3>2, <3>a DEF NothingDropped, WebhookType, AtWork
      <3> QED
        BY <3>b, <3>c, <3>d, <3>e DEF WebhookInv
    <2>4. CASE Hook!Fault("nonce") /\ nonce' \in {nonce, nonce + 1} /\ Hook!NonceSays(d, 1)
      <3>1. Hook!Goto(d, "exists") /\ passed' = passed \cup {d}
        BY <2>4 DEF Hook!NonceSays, Hook!Replayed
      <3>2. hookFaults' = [hookFaults EXCEPT !["nonce"] = @ + 1]
        BY <2>4 DEF Hook!Fault
      <3>a. /\ at' \in [Deliveries -> Hook!Labels] /\ at'[d] = "exists"
            /\ \A e \in Deliveries \ {d} : at'[e] = at[e]
            /\ Cardinality(AtWork') = Cardinality(AtWork) + 1 /\ Cardinality(AtWork) \in Nat
        BY <1>0, <2>1, <2>4, <3>1, <3>2, AtWorkMoves DEF WebhookType, AtWork
      <3>b. WebhookType'
        BY <1>0, <2>1, <2>4, <3>1, <3>2, <3>a DEF WebhookType
      <3>f. /\ {counted, nonce, hookFaults["nonce"]} \subseteq Nat
            /\ hookFaults'["nonce"] = hookFaults["nonce"] + 1
        BY <1>0, <2>1, <2>4, <3>1, <3>2 DEF WebhookType
      <3>c. PassesBounded'
        BY <1>0, <2>1, <2>4, <3>1, <3>2, <3>a, <3>f DEF PassesBounded
      <3>d. QueriesInOrder'
        BY <1>0, <2>1, <2>4, <3>1, <3>2, <3>a DEF QueriesInOrder, WebhookType
      <3>e. NothingDropped'
        BY <1>0, <2>1, <2>4, <3>1, <3>2, <3>a DEF NothingDropped, WebhookType, AtWork
      <3> QED
        BY <3>b, <3>c, <3>d, <3>e DEF WebhookInv
    <2> QED
      BY <1>3, <2>2, <2>3, <2>4 DEF Hook!CheckNonce
  <1>4. ASSUME NEW d \in Deliveries, Hook!CheckExists(d) PROVE WebhookInv'
    <2>1. at[d] = "exists" /\ UNCHANGED <<nonce, events, suppressed, counted, passed>>
      BY <1>4 DEF Hook!CheckExists
    <2>2. CASE events > 0 /\ Hook!Goto(d, "done") /\ UNCHANGED hookFaults
      <3>a. /\ at' \in [Deliveries -> Hook!Labels] /\ at'[d] = "done"
            /\ \A e \in Deliveries \ {d} : at'[e] = at[e]
            /\ Cardinality(AtWork') = Cardinality(AtWork) - 1 /\ Cardinality(AtWork) \in Nat
        BY <1>0, <2>1, <2>2, AtWorkMoves DEF WebhookType, AtWork
      <3>b. WebhookType'
        BY <1>0, <2>1, <2>2, <3>a DEF WebhookType
      <3>f. /\ {counted, nonce, hookFaults["nonce"]} \subseteq Nat
            /\ hookFaults'["nonce"] = hookFaults["nonce"]
        BY <1>0, <2>1, <2>2 DEF WebhookType
      <3>c. PassesBounded'
        BY <1>0, <2>1, <2>2, <3>a, <3>f DEF PassesBounded
      <3>d. QueriesInOrder'
        BY <1>0, <2>1, <2>2, <3>a DEF QueriesInOrder, WebhookType
      <3>e. NothingDropped'
        BY <1>0, <2>1, <2>2, <3>a DEF NothingDropped, WebhookType, AtWork
      <3> QED
        BY <3>b, <3>c, <3>d, <3>e DEF WebhookInv
    <2>3. CASE Hook!Goto(d, "create") /\ UNCHANGED hookFaults
      <3>a. /\ at' \in [Deliveries -> Hook!Labels] /\ at'[d] = "create"
            /\ \A e \in Deliveries \ {d} : at'[e] = at[e]
            /\ Cardinality(AtWork') = Cardinality(AtWork) /\ Cardinality(AtWork) \in Nat
        BY <1>0, <2>1, <2>3, AtWorkMoves DEF WebhookType, AtWork
      <3>b. WebhookType'
        BY <1>0, <2>1, <2>3, <3>a DEF WebhookType
      <3>f. /\ {counted, nonce, hookFaults["nonce"]} \subseteq Nat
            /\ hookFaults'["nonce"] = hookFaults["nonce"]
        BY <1>0, <2>1, <2>3 DEF WebhookType
      <3>c. PassesBounded'
        BY <1>0, <2>1, <2>3, <3>a, <3>f DEF PassesBounded
      <3>d. QueriesInOrder'
        BY <1>0, <2>1, <2>3, <3>a DEF QueriesInOrder, WebhookType
      <3>e. NothingDropped'
        BY <1>0, <2>1, <2>3, <3>a DEF NothingDropped, WebhookType, AtWork
      <3> QED
        BY <3>b, <3>c, <3>d, <3>e DEF WebhookInv
    <2>4. CASE Hook!Goto(d, "done") /\ Hook!Fault("query")
      <3>1. hookFaults' = [hookFaults EXCEPT !["query"] = @ + 1]
        BY <2>4 DEF Hook!Fault
      <3>a. /\ at' \in [Deliveries -> Hook!Labels] /\ at'[d] = "done"
            /\ \A e \in Deliveries \ {d} : at'[e] = at[e]
            /\ Cardinality(AtWork') = Cardinality(AtWork) - 1 /\ Cardinality(AtWork) \in Nat
        BY <1>0, <2>1, <2>4, <3>1, AtWorkMoves DEF WebhookType, AtWork
      <3>b. WebhookType'
        BY <1>0, <2>1, <2>4, <3>1, <3>a DEF WebhookType
      <3>f. /\ {counted, nonce, hookFaults["nonce"]} \subseteq Nat
            /\ hookFaults'["nonce"] = hookFaults["nonce"]
        BY <1>0, <2>1, <2>4, <3>1 DEF WebhookType
      <3>c. PassesBounded'
        BY <1>0, <2>1, <2>4, <3>1, <3>a, <3>f DEF PassesBounded
      <3>d. QueriesInOrder'
        BY <1>0, <2>1, <2>4, <3>1, <3>a DEF QueriesInOrder, WebhookType
      <3>e. NothingDropped'
        BY <1>0, <2>1, <2>4, <3>1, <3>a DEF NothingDropped, WebhookType, AtWork
      <3> QED
        BY <3>b, <3>c, <3>d, <3>e DEF WebhookInv
    <2> QED
      BY <1>4, <2>2, <2>3, <2>4 DEF Hook!CheckExists, Hook!EventExists
  <1>5. ASSUME NEW d \in Deliveries, Hook!QueryFails(d) PROVE WebhookInv'
    <2>1. /\ at[d] \in {"create", "suppress", "count"} /\ Hook!Goto(d, "done")
          /\ hookFaults' = [hookFaults EXCEPT !["query"] = @ + 1]
          /\ UNCHANGED <<nonce, events, suppressed, counted, passed>>
      BY <1>5 DEF Hook!QueryFails, Hook!Fault
    <2>a. /\ at' \in [Deliveries -> Hook!Labels] /\ at'[d] = "done"
          /\ \A e \in Deliveries \ {d} : at'[e] = at[e]
          /\ Cardinality(AtWork') = Cardinality(AtWork) - 1 /\ Cardinality(AtWork) \in Nat
      BY <1>0, <2>1, AtWorkMoves DEF WebhookType, AtWork
    <2>b. WebhookType'
      BY <1>0, <2>1, <2>a DEF WebhookType
    <2>f. /\ {counted, nonce, hookFaults["nonce"]} \subseteq Nat
          /\ hookFaults'["nonce"] = hookFaults["nonce"]
      BY <1>0, <2>1 DEF WebhookType
    <2>c. PassesBounded'
      BY <1>0, <2>1, <2>a, <2>f DEF PassesBounded
    <2>d. QueriesInOrder'
      BY <1>0, <2>1, <2>a DEF QueriesInOrder, WebhookType
    <2>e. NothingDropped'
      BY <1>0, <2>1, <2>a DEF NothingDropped, WebhookType, AtWork
    <2> QED
      BY <2>b, <2>c, <2>d, <2>e DEF WebhookInv
  <1>6. ASSUME NEW d \in Deliveries, Hook!CreateEvent(d) PROVE WebhookInv'
    <2>1. /\ at[d] = "create" /\ events' = events + 1 /\ Hook!Goto(d, "suppress")
          /\ UNCHANGED <<nonce, suppressed, counted, passed, hookFaults>>
      BY <1>6 DEF Hook!CreateEvent
    <2>a. /\ at' \in [Deliveries -> Hook!Labels] /\ at'[d] = "suppress"
          /\ \A e \in Deliveries \ {d} : at'[e] = at[e]
          /\ Cardinality(AtWork') = Cardinality(AtWork) /\ Cardinality(AtWork) \in Nat
      BY <1>0, <2>1, AtWorkMoves DEF WebhookType, AtWork
    <2>b. WebhookType'
      BY <1>0, <2>1, <2>a DEF WebhookType
    <2>f. /\ {counted, nonce, hookFaults["nonce"]} \subseteq Nat
          /\ hookFaults'["nonce"] = hookFaults["nonce"]
      BY <1>0, <2>1 DEF WebhookType
    <2>c. PassesBounded'
      BY <1>0, <2>1, <2>a, <2>f DEF PassesBounded
    <2>d. QueriesInOrder'
      BY <1>0, <2>1, <2>a DEF QueriesInOrder, WebhookType
    <2>e. NothingDropped'
      BY <1>0, <2>1, <2>a DEF NothingDropped, WebhookType, AtWork
    <2> QED
      BY <2>b, <2>c, <2>d, <2>e DEF WebhookInv
  <1>7. ASSUME NEW d \in Deliveries, Hook!Suppress(d) PROVE WebhookInv'
    <2>1. /\ at[d] = "suppress" /\ suppressed' = TRUE /\ Hook!Goto(d, "count")
          /\ UNCHANGED <<nonce, events, counted, passed, hookFaults>>
      BY <1>7 DEF Hook!Suppress
    <2>a. /\ at' \in [Deliveries -> Hook!Labels] /\ at'[d] = "count"
          /\ \A e \in Deliveries \ {d} : at'[e] = at[e]
          /\ Cardinality(AtWork') = Cardinality(AtWork) /\ Cardinality(AtWork) \in Nat
      BY <1>0, <2>1, AtWorkMoves DEF WebhookType, AtWork
    <2>b. WebhookType'
      BY <1>0, <2>1, <2>a DEF WebhookType
    <2>f. /\ {counted, nonce, hookFaults["nonce"]} \subseteq Nat
          /\ hookFaults'["nonce"] = hookFaults["nonce"]
      BY <1>0, <2>1 DEF WebhookType
    <2>c. PassesBounded'
      BY <1>0, <2>1, <2>a, <2>f DEF PassesBounded
    <2>d. QueriesInOrder'
      BY <1>0, <2>1, <2>a DEF QueriesInOrder, WebhookType
    <2>e. NothingDropped'
      BY <1>0, <2>1, <2>a DEF NothingDropped, WebhookType, AtWork
    <2> QED
      BY <2>b, <2>c, <2>d, <2>e DEF WebhookInv
  <1>8. ASSUME NEW d \in Deliveries, Hook!Count(d) PROVE WebhookInv'
    <2>1. /\ at[d] = "count" /\ counted' = counted + 1 /\ Hook!Goto(d, "done")
          /\ UNCHANGED <<nonce, events, suppressed, passed, hookFaults>>
      BY <1>8 DEF Hook!Count
    <2>a. /\ at' \in [Deliveries -> Hook!Labels] /\ at'[d] = "done"
          /\ \A e \in Deliveries \ {d} : at'[e] = at[e]
          /\ Cardinality(AtWork') = Cardinality(AtWork) - 1 /\ Cardinality(AtWork) \in Nat
      BY <1>0, <2>1, AtWorkMoves DEF WebhookType, AtWork
    <2>b. WebhookType'
      BY <1>0, <2>1, <2>a DEF WebhookType
    <2>f. /\ {counted, nonce, hookFaults["nonce"]} \subseteq Nat
          /\ hookFaults'["nonce"] = hookFaults["nonce"]
      BY <1>0, <2>1 DEF WebhookType
    <2>c. PassesBounded'
      BY <1>0, <2>1, <2>a, <2>f DEF PassesBounded
    <2>d. QueriesInOrder'
      BY <1>0, <2>1, <2>a DEF QueriesInOrder, WebhookType
    <2>e. NothingDropped'
      BY <1>0, <2>1, <2>a DEF NothingDropped, WebhookType, AtWork
    <2> QED
      BY <2>b, <2>c, <2>d, <2>e DEF WebhookInv
  <1>9. CASE Hook!ExpireNonce
    <2>1. /\ nonce > 0 /\ nonce' = 0 /\ hookFaults' = [hookFaults EXCEPT !["nonce"] = @ + 1]
          /\ UNCHANGED <<at, events, suppressed, counted, passed>>
      BY <1>9 DEF Hook!ExpireNonce, Hook!Fault
    <2>2. Cardinality(AtWork) \in Nat
      BY FS_Subset, FS_CardinalityType, WebhookConstants DEF AtWork
    <2> QED
      BY <1>0, <2>1, <2>2
         DEF WebhookInv, WebhookType, PassesBounded, QueriesInOrder, NothingDropped, AtWork
  <1>10. CASE UNCHANGED webhookVars
    BY <1>0, <1>10 DEF webhookVars, WebhookInv, WebhookType, PassesBounded, QueriesInOrder,
                       NothingDropped, AtWork
  <1> QED
    BY <1>1, <1>2, <1>3, <1>4, <1>5, <1>6, <1>7, <1>8, <1>9, <1>10, WebhookFollowed
       DEF Hook!Next

(* process_event: for any number of deliveries of an event, overlapping or *)
(* not, it is counted at most once and once more for every lost nonce; and *)
(* when all deliveries are done, one that got past the nonce has been      *)
(* suppressed and counted unless a query failed.                           *)
THEOREM HandledOnceHolds == Spec => []HandledOnce
  <1>1. WebhookInv => HandledOnce
    <2> SUFFICES ASSUME WebhookInv PROVE Hook!HandledOnce
      BY DEF HandledOnce
    <2>1. Cardinality(AtWork) \in Nat
      BY FS_Subset, FS_CardinalityType, WebhookConstants DEF AtWork
    <2>2. counted =< 1 + hookFaults["nonce"]
      BY <2>1 DEF WebhookInv, WebhookType, PassesBounded, Hook!Kinds
    <2> QED
      BY <2>2 DEF WebhookInv, WebhookType, QueriesInOrder, NothingDropped, Hook!HandledOnce, 
                  Hook!Kinds, AtWork
  <1> QED
    BY <1>1, WebhookInit, WebhookNext, PTL DEF Spec

-----------------------------------------------------------------------------
(* Migrations *)

Active(i) == runner[i] # Mig!Idle

(* The runs whose session no longer holds the lock.                        *)
Orphans == {i \in Instances : Active(i) /\ lock # i}

(* The runs that found version v pending and are about to run its SQL.     *)
Applying(v) == {i \in Instances : runner[i].at = "apply" /\ runner[i].version = v}

MigrationType ==
  /\ lock \in Instances \cup {Mig!Free}
  /\ runner \in [Instances -> [at : {"idle", "verify", "check", "apply", "unlock"}, version : Nat]]
  /\ schema \in [Mig!Versions -> Mig!Checksums \cup {Mig!None}]
  /\ executed \in [Mig!Versions -> Nat]
  /\ lapses \in Nat

(* Every run that lost the lock lost it to a session that ended.           *)
OrphansBounded == Cardinality(Orphans) =< lapses

(* Of one version, what was run and what is about to be.                   *)
RunsBounded == \A v \in Mig!Versions : executed[v] + Cardinality(Applying(v)) =< 1 + lapses

(* A run has passed over the versions below its own because they are       *)
(* recorded.                                                               *)
InOrder(i, r, recorded) ==
  r.at \in {"check", "apply"} =>
    /\ 1 =< r.version /\ r.version =< Len(Binary[i]) + 1
    /\ r.at = "apply" => r.version =< Len(Binary[i])
    /\ \A w \in 1..(r.version - 1) : recorded[w] # Mig!None

RunnersInOrder == \A i \in Instances : InOrder(i, runner[i], schema)

MigrationInv ==
  focus = "migrations" =>
    MigrationType /\ OrphansBounded /\ RunsBounded /\ RunnersInOrder /\ Mig!AppliedOnce

(* What the migrations rest on: finitely many instances, each with a       *)
(* sequence of checksums.                                                  *)
LEMMA MigrationConstants ==
  /\ IsFiniteSet(Instances) /\ Mig!Free \notin Instances /\ Mig!None \notin Mig!Checksums
  /\ Binary \in [Instances -> Seq(Mig!Checksums)]
  BY ApiAssumption DEF Mig!MigrationsAssumption, Mig!IsFiniteSet, IsFiniteSet

(* The versions of an instance are 1 to the number of its migrations, and  *)
(* a version below a version is one, too.                                  *)
LEMMA VersionFacts ==
  /\ Mig!Versions \subseteq Nat \ {0}
  /\ \A i \in Instances : \A v \in 1..Len(Binary[i]) :
       v \in Mig!Versions /\ Binary[i][v] \in Mig!Checksums /\ Binary[i][v] # Mig!None
  /\ \A i \in Instances : DOMAIN Binary[i] = 1..Len(Binary[i]) /\ Len(Binary[i]) \in Nat
  /\ \A v \in Mig!Versions, w \in Nat : 1 =< w /\ w =< v => w \in Mig!Versions
  <1>1. \A i \in Instances : DOMAIN Binary[i] = 1..Len(Binary[i]) /\ Len(Binary[i]) \in Nat
    BY MigrationConstants
  <1>2. \A v : v \in Mig!Versions <=> \E i \in Instances : v \in 1..Len(Binary[i])
    BY <1>1 DEF Mig!Versions
  <1>3. \A i \in Instances : \A v \in 1..Len(Binary[i]) : Binary[i][v] \in Mig!Checksums
    BY <1>1, MigrationConstants
  <1> QED
    BY <1>1, <1>2, <1>3, MigrationConstants

(* Sets of instances are finite, and smaller sets have smaller counts.     *)
LEMMA InstanceSets ==
  ASSUME NEW S \in SUBSET Instances, NEW T \in SUBSET S
  PROVE  /\ IsFiniteSet(S) /\ Cardinality(S) \in Nat /\ Cardinality(T) \in Nat
         /\ Cardinality(T) =< Cardinality(S)
  <1>1. IsFiniteSet(S)
    BY FS_Subset, MigrationConstants
  <1> QED
    BY <1>1, FS_Subset, FS_CardinalityType

(* While no session has ended under its runner, whoever runs has the lock. *)
LEMMA NoOrphans ==
  ASSUME OrphansBounded, lapses = 0, NEW i \in Instances, Active(i)
  PROVE  lock = i
  <1>1. IsFiniteSet(Orphans) /\ Cardinality(Orphans) \in Nat
    BY InstanceSets DEF Orphans
  <1>2. Orphans = {}
    BY <1>1, FS_EmptySet DEF OrphansBounded
  <1> QED
    BY <1>2 DEF Orphans

(* Init establishes it.                                                    *)
LEMMA MigrationInit == Init => MigrationInv
  <1> SUFFICES ASSUME Mig!Init
               PROVE  /\ MigrationType /\ OrphansBounded /\ RunsBounded /\ RunnersInOrder
                      /\ Mig!AppliedOnce
    BY DEF Init, MigrationInv
  <1> USE DEF Mig!Init, Mig!Idle
  <1>1. MigrationType
    BY DEF MigrationType
  <1>2. Orphans = {} /\ \A v : Applying(v) = {}
    BY DEF Orphans, Active, Applying
  <1>3. OrphansBounded /\ RunsBounded
    BY <1>2, FS_EmptySet DEF OrphansBounded, RunsBounded
  <1>4. RunnersInOrder
    BY DEF RunnersInOrder, InOrder
  <1>5. Mig!AppliedOnce
    BY DEF Mig!AppliedOnce
  <1> QED
    BY <1>1, <1>3, <1>4, <1>5

(* A step that moves one run i, lets nobody lose the lock while running,   *)
(* and takes nobody to "apply", keeps the counts.                          *)
LEMMA CountsKept ==
  ASSUME MigrationType, OrphansBounded, RunsBounded, lapses' = lapses, executed' = executed,
         NEW i \in Instances, NEW r, r.at # "apply",
         runner' = [runner EXCEPT ![i] = r],
         \A j \in Instances : Active(j)' /\ lock' # j => Active(j) /\ lock # j
  PROVE  OrphansBounded' /\ RunsBounded'
  <1>1. Orphans' \subseteq Orphans /\ Orphans \subseteq Instances
    BY DEF Orphans
  <1>2. Cardinality(Orphans') =< Cardinality(Orphans)
    BY <1>1, InstanceSets
  <1>3. Cardinality(Orphans') \in Nat /\ Cardinality(Orphans) \in Nat
    BY <1>1, InstanceSets
  <1>4. OrphansBounded'
    BY <1>2, <1>3 DEF OrphansBounded, MigrationType
  <1>5. ASSUME NEW v \in Mig!Versions
        PROVE  executed'[v] + Cardinality(Applying(v)') =< 1 + lapses'
    <2>1. Applying(v)' \subseteq Applying(v) /\ Applying(v) \subseteq Instances
      BY DEF Applying, MigrationType
    <2>2. /\ Cardinality(Applying(v)') =< Cardinality(Applying(v))
          /\ Cardinality(Applying(v)') \in Nat /\ Cardinality(Applying(v)) \in Nat
      BY <2>1, InstanceSets
    <2>3. executed[v] + Cardinality(Applying(v)) =< 1 + lapses /\ executed[v] \in Nat
      BY DEF RunsBounded, MigrationType
    <2> QED
      BY <2>2, <2>3 DEF MigrationType
  <1>6. RunsBounded'
    BY <1>5 DEF RunsBounded
  <1> QED
    BY <1>4, <1>6

(* A step that moves one run, itself in order, and forgets no record, keeps *)
(* all runs in order.                                                      *)
LEMMA OrderKept ==
  ASSUME MigrationType, RunnersInOrder,
         NEW i \in Instances, NEW r, InOrder(i, r, schema'),
         runner' = [runner EXCEPT ![i] = r],
         \A w \in Mig!Versions : schema[w] # Mig!None => schema'[w] # Mig!None
  PROVE  RunnersInOrder'
  <1> SUFFICES ASSUME NEW j \in Instances PROVE InOrder(j, runner'[j], schema')
    BY DEF RunnersInOrder
  <1>1. CASE j = i
    BY <1>1 DEF MigrationType
  <1>2. CASE j # i
    <2>1. runner'[j] = runner[j] /\ runner[j].version \in Nat
      BY <1>2 DEF MigrationType
    <2>2. InOrder(j, runner[j], schema)
      BY DEF RunnersInOrder
    <2>3. Len(Binary[j]) \in Nat
      BY VersionFacts
    <2>4. ASSUME runner[j].at \in {"check", "apply"}, NEW w \in 1..(runner[j].version - 1)
          PROVE  schema'[w] # Mig!None
      <3>1. w \in 1..Len(Binary[j]) /\ schema[w] # Mig!None
        BY <2>1, <2>2, <2>3, <2>4 DEF InOrder
      <3>2. w \in Mig!Versions
        BY <3>1, VersionFacts
      <3> QED
        BY <3>1, <3>2
    <2> QED
      BY <2>1, <2>2, <2>4 DEF InOrder
  <1> QED
    BY <1>1, <1>2

(* Every step preserves it.                                                *)
LEMMA MigrationNext == MigrationInv /\ [Next]_vars => MigrationInv'
  <1> SUFFICES ASSUME MigrationInv, [Next]_vars, focus' = "migrations"
               PROVE  (/\ MigrationType /\ OrphansBounded /\ RunsBounded /\ RunnersInOrder
                       /\ Mig!AppliedOnce)'
    BY DEF MigrationInv
  <1>0. /\ focus = "migrations"
        /\ MigrationType /\ OrphansBounded /\ RunsBounded /\ RunnersInOrder /\ Mig!AppliedOnce
    BY FocusStays DEF MigrationInv
  <1> DEFINE Goal == (/\ MigrationType /\ OrphansBounded /\ RunsBounded /\ RunnersInOrder
                      /\ Mig!AppliedOnce)'
  <1>1. ASSUME NEW i \in Instances, Mig!TryLock(i) PROVE Goal
    <2>1. /\ runner[i] = Mig!Idle /\ lock = Mig!Free /\ lock' = i
          /\ runner' = [runner EXCEPT ![i] = [at |-> "verify", version |-> 0]]
          /\ UNCHANGED <<schema, executed, lapses, faults>>
      BY <1>1 DEF Mig!TryLock, Mig!Goto
    <2>2. \A j \in Instances : Active(j)' /\ lock' # j => Active(j) /\ lock # j
      BY <1>0, <2>1, MigrationConstants DEF Active, MigrationType
    <2>3. OrphansBounded' /\ RunsBounded'
      BY <1>0, <2>1, <2>2, CountsKept
    <2>4. MigrationType'
      BY <1>0, <2>1 DEF MigrationType
    <2>5. RunnersInOrder'
      <3>1. InOrder(i, [at |-> "verify", version |-> 0], schema')
        BY DEF InOrder
      <3> QED
        BY <1>0, <2>1, <3>1, OrderKept
    <2>6. Mig!AppliedOnce'
      BY <1>0, <2>1 DEF Mig!AppliedOnce, Mig!Agrees, MigrationType
    <2> QED
      BY <2>3, <2>4, <2>5, <2>6
  <1>2. ASSUME NEW i \in Instances, Mig!VerifyChecksums(i) PROVE Goal
    <2>1. /\ runner[i].at = "verify" /\ UNCHANGED <<lock, schema, executed, lapses, faults>>
          /\ \/ /\ Mig!Agrees(i)
                /\ runner' = [runner EXCEPT ![i] = [at |-> "check", version |-> 1]]
             \/ runner' = [runner EXCEPT ![i] = [at |-> "unlock", version |-> 0]]
      BY <1>2 DEF Mig!VerifyChecksums, Mig!Goto
    <2>2. \A j \in Instances : Active(j)' /\ lock' # j => Active(j) /\ lock # j
      BY <1>0, <2>1 DEF Active, MigrationType, Mig!Idle
    <2>3. OrphansBounded' /\ RunsBounded'
      BY <1>0, <2>1, <2>2, CountsKept
    <2>4. MigrationType'
      BY <1>0, <2>1 DEF MigrationType
    <2>5. RunnersInOrder'
      <3>1. InOrder(i, [at |-> "check", version |-> 1], schema')
        BY VersionFacts DEF InOrder
      <3>2. InOrder(i, [at |-> "unlock", version |-> 0], schema')
        BY DEF InOrder
      <3>3. CASE runner' = [runner EXCEPT ![i] = [at |-> "check", version |-> 1]]
        BY <1>0, <2>1, <3>1, <3>3, OrderKept
      <3>4. CASE runner' = [runner EXCEPT ![i] = [at |-> "unlock", version |-> 0]]
        BY <1>0, <2>1, <3>2, <3>4, OrderKept
      <3> QED
        BY <2>1, <3>3, <3>4
    <2>6. Mig!AppliedOnce'
      BY <1>0, <2>1 DEF Mig!AppliedOnce, Mig!Agrees, MigrationType
    <2> QED
      BY <2>3, <2>4, <2>5, <2>6
  <1>3. ASSUME NEW i \in Instances, Mig!IsApplied(i) PROVE Goal
    <2>0. PICK v \in Nat : v = runner[i].version
      BY <1>0 DEF MigrationType
    <2>1. /\ runner[i].at = "check" /\ UNCHANGED <<lock, schema, executed, lapses, faults>>
          /\ v \in Nat /\ 1 =< v
          /\ \A w \in 1..(v - 1) : schema[w] # Mig!None
      BY <1>0, <1>3, <2>0 DEF Mig!IsApplied, RunnersInOrder, InOrder, MigrationType
    <2>2. CASE v > Len(Binary[i]) /\ runner' = [runner EXCEPT ![i] = [at |-> "unlock", version |-> 0]]
      <3>1. \A j \in Instances : Active(j)' /\ lock' # j => Active(j) /\ lock # j
        BY <1>0, <2>1, <2>2 DEF Active, MigrationType, Mig!Idle
      <3>2. OrphansBounded' /\ RunsBounded'
        BY <1>0, <2>1, <2>2, <3>1, CountsKept
      <3>0. InOrder(i, [at |-> "unlock", version |-> 0], schema')
        BY DEF InOrder
      <3>5. RunnersInOrder'
        BY <1>0, <2>1, <2>2, <3>0, OrderKept
      <3>3. MigrationType' /\ RunnersInOrder'
        BY <1>0, <2>1, <2>2, <3>5 DEF MigrationType
      <3>4. Mig!AppliedOnce'
        BY <1>0, <2>1, <2>2 DEF Mig!AppliedOnce, Mig!Agrees, MigrationType
      <3> QED
        BY <3>2, <3>3, <3>4
    <2>3. CASE /\ v =< Len(Binary[i]) /\ schema[v] # Mig!None
               /\ runner' = [runner EXCEPT ![i] = [at |-> "check", version |-> v + 1]]
      <3>1. \A j \in Instances : Active(j)' /\ lock' # j => Active(j) /\ lock # j
        BY <1>0, <2>1, <2>3 DEF Active, MigrationType, Mig!Idle
      <3>2. OrphansBounded' /\ RunsBounded'
        BY <1>0, <2>1, <2>3, <3>1, CountsKept
      <3>3. MigrationType'
        BY <1>0, <2>1, <2>3 DEF MigrationType
      <3>4. RunnersInOrder'
        <4>1. InOrder(i, [at |-> "check", version |-> v + 1], schema')
          BY <2>1, <2>3, VersionFacts DEF InOrder
        <4> QED
          BY <1>0, <2>1, <2>3, <4>1, OrderKept
      <3>5. Mig!AppliedOnce'
        BY <1>0, <2>1, <2>3 DEF Mig!AppliedOnce, Mig!Agrees, MigrationType
      <3> QED
        BY <3>2, <3>3, <3>4, <3>5
    <2>4. CASE /\ v =< Len(Binary[i]) /\ schema[v] = Mig!None
               /\ runner' = [runner EXCEPT ![i] = [at |-> "apply", version |-> v]]
      <3>1. v \in Mig!Versions
        BY <2>1, <2>4, VersionFacts
      <3>2. executed[v] = 0
        BY <1>0, <2>4, <3>1 DEF Mig!AppliedOnce, MigrationType
      <3>3. Orphans' = Orphans
        BY <1>0, <2>1, <2>4 DEF Orphans, Active, MigrationType, Mig!Idle
      <3>4. OrphansBounded'
        BY <1>0, <2>1, <3>3 DEF OrphansBounded
      <3>5. Cardinality(Applying(v)') =< 1 + lapses /\ Cardinality(Applying(v)') \in Nat
        <4>1. Orphans \subseteq Instances /\ IsFiniteSet(Orphans) /\ Cardinality(Orphans) \in Nat
          BY InstanceSets DEF Orphans
        <4>2. Applying(v)' \subseteq Orphans \cup {lock}
          BY <1>0, <2>0, <2>1, <2>4 DEF Applying, Orphans, Active, MigrationType, Mig!Idle
        <4>3. /\ IsFiniteSet(Orphans \cup {lock})
              /\ Cardinality(Orphans \cup {lock}) =< Cardinality(Orphans) + 1
              /\ Cardinality(Orphans \cup {lock}) \in Nat
          BY <4>1, FS_AddElement, FS_CardinalityType, SMTT(30)
        <4>4. /\ IsFiniteSet(Applying(v)')
              /\ Cardinality(Applying(v)') =< Cardinality(Orphans \cup {lock})
          BY <4>2, <4>3, FS_Subset
        <4>5. Cardinality(Applying(v)') \in Nat
          BY <4>4, FS_CardinalityType
        <4> QED
          BY <1>0, <4>1, <4>3, <4>4, <4>5 DEF OrphansBounded, MigrationType
      <3>6. ASSUME NEW w \in Mig!Versions
            PROVE  executed'[w] + Cardinality(Applying(w)') =< 1 + lapses'
        <4>1. CASE w = v
          BY <2>1, <3>2, <3>5, <4>1
        <4>2. CASE w # v
          <5>1. Applying(w)' = Applying(w)
            BY <1>0, <2>0, <2>1, <2>4, <4>2 DEF Applying, MigrationType
          <5>2. executed[w] + Cardinality(Applying(w)) =< 1 + lapses
            BY <1>0 DEF RunsBounded
          <5>3. executed'[w] = executed[w] /\ lapses' = lapses
            BY <2>1
          <5> QED
            BY <5>1, <5>2, <5>3
        <4> QED
          BY <4>1, <4>2
      <3>7. RunsBounded'
        BY <3>6 DEF RunsBounded
      <3>8. MigrationType'
        BY <1>0, <2>1, <2>4 DEF MigrationType
      <3>9. RunnersInOrder'
        <4>1. InOrder(i, [at |-> "apply", version |-> v], schema')
          BY <2>1, <2>4, VersionFacts DEF InOrder
        <4> QED
          BY <1>0, <2>1, <2>4, <4>1, OrderKept
      <3>10. Mig!AppliedOnce'
        BY <1>0, <2>1, <2>4 DEF Mig!AppliedOnce, Mig!Agrees, MigrationType
      <3> QED
        BY <3>4, <3>7, <3>8, <3>9, <3>10
    <2> QED
      BY <1>3, <2>0, <2>1, <2>2, <2>3, <2>4, VersionFacts DEF Mig!IsApplied, Mig!Goto
  <1>4. ASSUME NEW i \in Instances, Mig!Apply(i) PROVE Goal
    <2> DEFINE v == runner[i].version
    <2>1. /\ runner[i].at = "apply" /\ UNCHANGED <<lock, lapses>>
          /\ v \in Nat /\ 1 =< v /\ v =< Len(Binary[i])
          /\ \A w \in 1..(v - 1) : schema[w] # Mig!None
      BY <1>0, <1>4, VersionFacts DEF Mig!Apply, RunnersInOrder, InOrder, MigrationType
    <2>2. v \in Mig!Versions /\ Binary[i][v] \in Mig!Checksums /\ Binary[i][v] # Mig!None
      BY <2>1, VersionFacts
    <2> HIDE DEF v
    <2>3. CASE /\ executed' = [executed EXCEPT ![v] = @ + 1]
               /\ schema' = [schema EXCEPT ![v] = IF @ = Mig!None THEN Binary[i][v] ELSE @]
               /\ runner' = [runner EXCEPT ![i] = [at |-> "check", version |-> v + 1]]
      <3>1. Orphans' = Orphans
        BY <1>0, <2>1, <2>3 DEF Orphans, Active, MigrationType, Mig!Idle
      <3>2. OrphansBounded'
        BY <1>0, <2>1, <3>1 DEF OrphansBounded
      <3>3. ASSUME NEW w \in Mig!Versions
            PROVE  executed'[w] + Cardinality(Applying(w)') =< 1 + lapses'
        <4>1. CASE w = v
          <5>1. Applying(w)' = Applying(w) \ {i} /\ i \in Applying(w)
            BY <1>0, <2>1, <2>3, <4>1 DEF Applying, MigrationType, v
          <5>2. IsFiniteSet(Applying(w)) /\ Cardinality(Applying(w)) \in Nat
            BY InstanceSets DEF Applying
          <5>3. Cardinality(Applying(w)') = Cardinality(Applying(w)) - 1
            BY <5>1, <5>2, FS_RemoveElement
          <5>4. executed'[w] = executed[w] + 1 /\ executed[w] \in Nat
            BY <1>0, <2>3, <4>1 DEF MigrationType
          <5> QED
            BY <1>0, <2>1, <5>2, <5>3, <5>4 DEF RunsBounded, MigrationType
        <4>2. CASE w # v
          <5>1. Applying(w)' = Applying(w)
            BY <1>0, <2>1, <2>3, <4>2 DEF Applying, MigrationType, v
          <5>2. executed'[w] = executed[w]
            BY <1>0, <2>3, <4>2 DEF MigrationType
          <5> QED
            BY <1>0, <2>1, <5>1, <5>2 DEF RunsBounded
        <4> QED
          BY <4>1, <4>2
      <3>4. RunsBounded'
        BY <3>3 DEF RunsBounded
      <3>5. MigrationType'
        BY <1>0, <2>1, <2>2, <2>3 DEF MigrationType
      <3>6. \A w \in Mig!Versions : schema'[w] = Mig!None <=> schema[w] = Mig!None /\ w # v
        BY <1>0, <2>2, <2>3 DEF MigrationType
      <3>7. RunnersInOrder'
        <4>1. \A w \in 1..v : w \in Mig!Versions /\ schema'[w] # Mig!None
          BY <2>1, <2>2, <3>6, VersionFacts
        <4>2. InOrder(i, [at |-> "check", version |-> v + 1], schema')
          BY <2>1, <4>1, VersionFacts DEF InOrder
        <4> QED
          BY <1>0, <2>3, <3>6, <4>2, OrderKept
      <3>8. \A w \in Mig!Versions : executed'[w] =< 1 + lapses' /\ (executed'[w] > 0 <=> schema'[w] # Mig!None)
        <4> SUFFICES ASSUME NEW w \in Mig!Versions
                     PROVE  executed'[w] =< 1 + lapses' /\ (executed'[w] > 0 <=> schema'[w] # Mig!None)
          OBVIOUS
        <4>1. Cardinality(Applying(w)') \in Nat
          BY InstanceSets DEF Applying
        <4>2. executed'[w] \in Nat /\ lapses' \in Nat
          BY <3>5 DEF MigrationType
        <4>3. executed'[w] =< 1 + lapses'
          BY <3>3, <4>1, <4>2
        <4>4. executed'[w] > 0 <=> executed[w] > 0 \/ w = v
          BY <1>0, <2>3 DEF MigrationType
        <4> QED
          BY <1>0, <3>6, <4>3, <4>4 DEF Mig!AppliedOnce
      <3>9. \A w \in Mig!Versions : schema'[w] # Mig!None => \A x \in 1..(w - 1) : schema'[x] # Mig!None
        BY <1>0, <2>1, <2>2, <3>6, VersionFacts DEF Mig!AppliedOnce
      <3>10. ASSUME lapses' = 0, NEW j \in Instances, runner'[j].at \in {"check", "apply"}
             PROVE  Mig!Agrees(j)'
        <4>1. Active(i) /\ lapses = 0
          BY <2>1, <3>10 DEF Active, Mig!Idle
        <4>2. Active(j)
          BY <1>0, <2>1, <2>3, <3>10 DEF Active, Mig!Idle, MigrationType
        <4>3. j = i
          BY <1>0, <4>1, <4>2, NoOrphans
        <4>4. Mig!Agrees(i)
          BY <1>0, <2>1, <4>1 DEF Mig!AppliedOnce
        <4> QED
          BY <1>0, <2>2, <2>3, <4>3, <4>4, VersionFacts DEF Mig!Agrees, MigrationType
      <3>11. Mig!AppliedOnce'
        BY <3>8, <3>9, <3>10 DEF Mig!AppliedOnce
      <3> QED
        BY <3>2, <3>4, <3>5, <3>7, <3>11
    <2>4. CASE /\ runner' = [runner EXCEPT ![i] = [at |-> "unlock", version |-> 0]]
               /\ UNCHANGED <<executed, schema>>
      <3>6. \A j \in Instances : Active(j)' /\ lock' # j => Active(j) /\ lock # j
        BY <1>0, <2>1, <2>4 DEF Active, MigrationType, Mig!Idle
      <3>7. OrphansBounded' /\ RunsBounded'
        BY <1>0, <2>1, <2>4, <3>6, CountsKept
      <3>5. InOrder(i, [at |-> "unlock", version |-> 0], schema')
        BY DEF InOrder
      <3>4. RunnersInOrder'
        BY <1>0, <2>1, <2>4, <3>5, OrderKept
      <3>8. MigrationType' /\ RunnersInOrder'
        BY <1>0, <2>1, <2>4, <3>4 DEF MigrationType
      <3>9. Mig!AppliedOnce'
        BY <1>0, <2>1, <2>4 DEF Mig!AppliedOnce, Mig!Agrees, MigrationType
      <3> QED
        BY <3>7, <3>8, <3>9
    <2> QED
      BY <1>4, <2>3, <2>4 DEF Mig!Apply, Mig!Goto, v
  <1>5. ASSUME NEW i \in Instances, Mig!Unlock(i) PROVE Goal
    <2>1. /\ runner[i].at = "unlock" /\ UNCHANGED <<schema, executed, lapses>>
          /\ runner' = [runner EXCEPT ![i] = [at |-> "idle", version |-> 0]]
          /\ lock' = (IF lock = i THEN Mig!Free ELSE lock) \/ lock' = lock
      BY <1>5 DEF Mig!Unlock, Mig!Goto
    <2>6. \A j \in Instances : Active(j)' /\ lock' # j => Active(j) /\ lock # j
      BY <1>0, <2>1 DEF Active, MigrationType, Mig!Idle
    <2>7. OrphansBounded' /\ RunsBounded'
      BY <1>0, <2>1, <2>6, CountsKept
    <2>5. InOrder(i, [at |-> "idle", version |-> 0], schema')
      BY DEF InOrder
    <2>4. RunnersInOrder'
      BY <1>0, <2>1, <2>5, OrderKept
    <2>8. MigrationType' /\ RunnersInOrder'
      BY <1>0, <2>1, <2>4 DEF MigrationType
    <2>9. Mig!AppliedOnce'
      BY <1>0, <2>1 DEF Mig!AppliedOnce, Mig!Agrees, MigrationType
    <2> QED
      BY <2>7, <2>8, <2>9
  <1>6. ASSUME NEW i \in Instances, Mig!Crash(i) PROVE Goal
    <2>1. /\ UNCHANGED <<schema, executed, lapses>>
          /\ runner' = [runner EXCEPT ![i] = [at |-> "idle", version |-> 0]]
          /\ lock' = (IF lock = i THEN Mig!Free ELSE lock)
      BY <1>6 DEF Mig!Crash, Mig!Goto
    <2>6. \A j \in Instances : Active(j)' /\ lock' # j => Active(j) /\ lock # j
      BY <1>0, <2>1 DEF Active, MigrationType, Mig!Idle
    <2>7. OrphansBounded' /\ RunsBounded'
      BY <1>0, <2>1, <2>6, CountsKept
    <2>5. InOrder(i, [at |-> "idle", version |-> 0], schema')
      BY DEF InOrder
    <2>4. RunnersInOrder'
      BY <1>0, <2>1, <2>5, OrderKept
    <2>8. MigrationType' /\ RunnersInOrder'
      BY <1>0, <2>1, <2>4 DEF MigrationType
    <2>9. Mig!AppliedOnce'
      BY <1>0, <2>1 DEF Mig!AppliedOnce, Mig!Agrees, MigrationType
    <2> QED
      BY <2>7, <2>8, <2>9
  <1>7. ASSUME NEW i \in Instances, Mig!SessionEnds(i) PROVE Goal
    <2>1. /\ lock = i /\ lock' = Mig!Free /\ UNCHANGED <<runner, schema, executed>>
          /\ lapses' = IF runner[i] = Mig!Idle THEN lapses ELSE lapses + 1
      BY <1>7 DEF Mig!SessionEnds
    <2>2. lapses' \in Nat /\ lapses \in Nat /\ lapses =< lapses'
      BY <1>0, <2>1 DEF MigrationType
    <2>3. OrphansBounded'
      <3>1. IsFiniteSet(Orphans) /\ Cardinality(Orphans) \in Nat
        BY InstanceSets DEF Orphans
      <3>2. CASE Active(i)
        <4>1. Orphans' = Orphans \cup {i} /\ i \notin Orphans
          BY <2>1, <3>2, MigrationConstants DEF Orphans, Active
        <4>2. Cardinality(Orphans') = Cardinality(Orphans) + 1
          BY <3>1, <4>1, FS_AddElement
        <4>3. Cardinality(Orphans') \in Nat
          BY InstanceSets DEF Orphans
        <4> QED
          BY <1>0, <2>1, <2>2, <3>1, <3>2, <4>2, <4>3 DEF OrphansBounded, Active
      <3>3. CASE ~Active(i)
        <4>1. Orphans' = Orphans
          BY <2>1, <3>3, MigrationConstants DEF Orphans, Active
        <4> QED
          BY <1>0, <2>1, <3>3, <4>1 DEF OrphansBounded, Active
      <3> QED
        BY <3>2, <3>3
    <2>4. ASSUME NEW w \in Mig!Versions
          PROVE  executed'[w] + Cardinality(Applying(w)') =< 1 + lapses' /\ executed'[w] =< 1 + lapses'
      <3>1. Applying(w)' = Applying(w)
        BY <2>1 DEF Applying
      <3>2. Cardinality(Applying(w)) \in Nat /\ executed[w] \in Nat
        BY <1>0, InstanceSets DEF Applying, MigrationType
      <3> QED
        BY <1>0, <2>1, <2>2, <3>1, <3>2 DEF RunsBounded
    <2>5. RunsBounded'
      BY <2>4 DEF RunsBounded
    <2>6. MigrationType' /\ RunnersInOrder'
      BY <1>0, <2>1, <2>2 DEF MigrationType, RunnersInOrder
    <2>7. Mig!AppliedOnce'
      BY <1>0, <2>1, <2>2, <2>4 DEF Mig!AppliedOnce, Mig!Agrees
    <2> QED
      BY <2>3, <2>5, <2>6, <2>7
  <1>8. CASE UNCHANGED <<lock, runner, schema, executed, lapses, faults>>
    BY <1>0, <1>8
       DEF MigrationType, OrphansBounded, Orphans, Active, RunsBounded, Applying, RunnersInOrder,
           Mig!AppliedOnce, Mig!Agrees
  <1> QED
    BY <1>0, <1>1, <1>2, <1>3, <1>4, <1>5, <1>6, <1>7, <1>8, MigrationsFollowed DEF Mig!Next

(* MigrationRunner::run, by any number of instances with any migrations:   *)
(* the SQL of a version runs once, and once more for each session that     *)
(* ended under its runner; versions are recorded in their order; and while *)
(* no session has ended so, whoever applies migrations embeds what the     *)
(* recorded ones were.                                                     *)
THEOREM AppliedOnceHolds == Spec => []AppliedOnce
  <1>1. MigrationInv => AppliedOnce
    BY DEF MigrationInv, AppliedOnce
  <1> QED
    BY <1>1, MigrationInit, MigrationNext, PTL DEF Spec

-----------------------------------------------------------------------------
(* The way of a request through the layers of main.rs *)

(* While the requests are followed, every step is one of Requests or       *)
(* leaves them alone.                                                      *)
LEMMA RequestsFollowed ==
  ASSUME [Next]_vars, focus = "requests"
  PROVE  Req!Next \/ UNCHANGED <<req, accepted, responses, lost, audit, faults>>
  BY DEF Next, vars, requestVars, RequestStep, LimitStep, KeyStep, NewsletterStep, WebhookStep,
         MigrationStep, WatchStep, ChainStep, CacheStep

-----------------------------------------------------------------------------
(* The layers *)

Depth(rt) == IF rt = "admin" THEN 10 ELSE 8

LayerNames ==
  {"https", "size", "uri", "audit", "rate_limit", "whitelist", "csrf", "content_type",
   "api_key", "idempotency"}

(* Where the layers that matter stand: on the admin routes the audit log   *)
(* before the API key, and the idempotency layer last on every route.      *)
LEMMA LayerFacts ==
  ASSUME NEW rt \in Req!Routes
  PROVE  /\ DOMAIN Req!Layers[rt] = 1..Depth(rt) /\ Len(Req!Layers[rt]) = Depth(rt)
         /\ Depth(rt) \in 8..10 /\ (rt = "admin" => Depth(rt) = 10)
         /\ \A i \in 1..Depth(rt) : Req!Layers[rt][i] \in LayerNames
         /\ Req!Layers[rt][Depth(rt)] = "idempotency"
         /\ \A i \in 1..Depth(rt) : Req!Layers[rt][i] = "idempotency" => i = Depth(rt)
         /\ \A i \in 1..Depth(rt) : Req!Layers[rt][i] = "api_key" => rt = "admin" /\ i = 6
         /\ rt = "admin" => Req!Layers[rt][4] = "audit" /\ Req!Layers[rt][6] = "api_key"
  <1> DEFINE adm == Req!Outer \o <<"audit", "rate_limit", "api_key", "whitelist", "size", "content_type", "idempotency">>
             nws == Req!Outer \o <<"rate_limit", "csrf", "size", "content_type", "idempotency">>
  <1>1. Req!Layers["admin"] = adm /\ Req!Layers["newsletter"] = nws
    BY DEF Req!Layers
  <1>2. /\ DOMAIN adm = 1..10 /\ Len(adm) = 10
        /\ adm[1] = "https" /\ adm[2] = "size" /\ adm[3] = "uri" /\ adm[4] = "audit"
        /\ adm[5] = "rate_limit" /\ adm[6] = "api_key" /\ adm[7] = "whitelist" /\ adm[8] = "size"
        /\ adm[9] = "content_type" /\ adm[10] = "idempotency"
    BY DEF Req!Outer
  <1>3. /\ DOMAIN nws = 1..8 /\ Len(nws) = 8
        /\ nws[1] = "https" /\ nws[2] = "size" /\ nws[3] = "uri" /\ nws[4] = "rate_limit"
        /\ nws[5] = "csrf" /\ nws[6] = "size" /\ nws[7] = "content_type" /\ nws[8] = "idempotency"
    BY DEF Req!Outer
  <1> HIDE DEF adm, nws
  <1>4. CASE rt = "admin"
    BY <1>1, <1>2, <1>4 DEF Depth, LayerNames
  <1>5. CASE rt = "newsletter"
    BY <1>1, <1>3, <1>5 DEF Depth, LayerNames
  <1> QED
    BY <1>4, <1>5 DEF Req!Routes

(* A nonempty set of places among the layers has a smallest one.           *)
LEMMA FirstPlace ==
  ASSUME NEW T \in SUBSET (1..11), T # {}
  PROVE  Req!Min(T) \in T /\ \A y \in T : Req!Min(T) =< y
  <1>1. \E x \in T : \A y \in T : x =< y
    <2> DEFINE R == {ss \in Nat \X Nat : ss[1] < ss[2]}
    <2>1. IsWellFoundedOn(R, Nat)
      BY NatLessThanWellFounded, Zenon DEF OpToRel
    <2>2. \A x, y \in Nat : y < x => <<y, x>> \in R
      OBVIOUS
    <2> HIDE DEF R
    <2>3. T \subseteq Nat
      OBVIOUS
    <2>4. PICK x \in T : \A y \in T : ~(<<y, x>> \in R)
      BY <2>1, <2>3, WFMin
    <2> QED
      BY <2>2, <2>3, <2>4
  <1> QED
    BY <1>1 DEF Req!Min

-----------------------------------------------------------------------------
(* The invariant *)

Truth == BOOLEAN

RequestRecords ==
  [at : {"new", "guard", "run", "store", "done"}, caller : Callers \cup {Req!None},
   route : Req!Routes \cup {Req!None}, shape : DOMAIN Shapes, layer : Nat, known : Truth,
   answer : Req!RequestIds \cup Req!Marks, late : Truth]

(* The layers below place n of route rt let a request with headers h pass. *)
Passes(rt, h, n) == \A i \in 1..(n - 1) : ~Req!Refuses(Req!Layers[rt][i], h, FALSE)

(* A request that is under way is at a layer that keeps state, or past all *)
(* of them; it has passed the others, and on an admin route its key is     *)
(* known as soon as it has passed the check.                               *)
UnderWay(q, r) ==
  r.at \in {"guard", "run", "store"} =>
    /\ r.caller \in Callers /\ r.route \in Req!Routes
    /\ r.layer \in 1..(Depth(r.route) + 1)
    /\ r.at = "guard" => r.layer =< Depth(r.route) /\ Req!Layers[r.route][r.layer] \in Req!Stateful
    /\ r.at # "guard" => r.layer = Depth(r.route) + 1
    /\ Passes(r.route, Shapes[r.shape], r.layer)
    /\ r.route = "admin" => r.layer >= 6 /\ (r.layer > 6 => r.known = TRUE)
    /\ r.at = "store" => r.answer \in {q, Req!Failed}

(* What GuardsPassed says of one request.                                  *)
WellDone(r, entries) ==
  r.at = "done" /\ r.answer # Req!Refused =>
    /\ r.route \in Req!Routes
    /\ r.answer = Req!Unauthorized \/ Passes(r.route, Shapes[r.shape], Depth(r.route) + 1)
    /\ r.route = "admin" =>
         /\ r.answer = Req!Unauthorized \/ r.known = TRUE
         /\ r.answer # Req!Unauthorized => entries = {"operation"}
         /\ r.answer = Req!Unauthorized => entries = {"operation", "auth_failure"}

RequestType ==
  /\ req \in [Req!RequestIds -> RequestRecords]
  /\ responses \in [Req!Scopes -> Req!RequestIds \cup {Req!None}]
  /\ audit \in [Req!RequestIds -> SUBSET {"operation", "auth_failure"}]

(* The record of a request p that succeeded in scope s.                    *)
Success(r, p, s) ==
  r.at = "done" /\ r.answer = p /\ Shapes[r.shape].keyed /\ <<r.caller, r.route>> = s

(* What is stored is a success in its scope; and a success that is not     *)
(* stored was lost.                                                        *)
ResponsesTrue ==
  \A s \in Req!Scopes :
    /\ responses[s] # Req!None => Success(req[responses[s]], responses[s], s)
    /\ (\E p \in Req!RequestIds : Success(req[p], p, s)) => responses[s] # Req!None \/ s \in lost

(* What is answered with another request's response was a success of that. *)
AnswersTrue ==
  \A q \in Req!RequestIds :
    req[q].at = "done" /\ req[q].answer \in Req!RequestIds \ {q} =>
      /\ Shapes[req[q].shape].keyed
      /\ Success(req[req[q].answer], req[q].answer, <<req[q].caller, req[q].route>>)

LateLost == \A q \in Req!RequestIds : req[q].late = TRUE => <<req[q].caller, req[q].route>> \in lost

RequestOrder ==
  /\ RequestType
  /\ \A q \in Req!RequestIds : UnderWay(q, req[q]) /\ WellDone(req[q], audit[q])
  /\ ResponsesTrue /\ AnswersTrue /\ LateLost

RequestInv == focus = "requests" => RequestOrder

(* What the requests rest on: the answers that are no responses are no     *)
(* requests.                                                               *)
LEMMA RequestConstants ==
  /\ Plain \in DOMAIN Shapes /\ Req!Marks \cap Req!RequestIds = {}
  /\ Req!Marks = {"none", "refused", "unauthorized", "failed"}
  /\ Req!None \notin Req!RequestIds /\ Req!Refused \notin Req!RequestIds
  /\ Req!Unauthorized \notin Req!RequestIds /\ Req!Failed \notin Req!RequestIds
  BY ApiAssumption
     DEF Req!RequestsAssumption, Req!Marks, Req!None, Req!Refused, Req!Unauthorized, Req!Failed

(* A new request is a record of the type.                                  *)
LEMMA NewRequestTyped ==
  /\ Req!NewRequest \in RequestRecords
  /\ Req!NewRequest.at = "new" /\ Req!NewRequest.late = FALSE /\ Req!NewRequest.layer = 1
  <1>1. FALSE \in Truth
    BY Zenon DEF Truth
  <1>2. Req!NewRequest \in RequestRecords
    BY <1>1, RequestConstants DEF RequestRecords, Req!NewRequest, Req!None
  <1> QED
    BY <1>2 DEF Req!NewRequest

(* Init establishes the invariant.                                         *)
LEMMA RequestInit == Init => RequestInv
  <1> SUFFICES ASSUME Req!Init PROVE RequestOrder
    BY DEF Init, RequestInv
  <1>1. RequestType
    BY NewRequestTyped DEF Req!Init, RequestType
  <1>2. \A q \in Req!RequestIds : req[q].at = "new" /\ req[q].late = FALSE
    BY NewRequestTyped DEF Req!Init
  <1>3. \A q \in Req!RequestIds : UnderWay(q, req[q]) /\ WellDone(req[q], audit[q])
    BY <1>2 DEF UnderWay, WellDone
  <1>4. ResponsesTrue /\ AnswersTrue
    BY <1>2 DEF ResponsesTrue, AnswersTrue, Success, Req!Init
  <1>5. \A q \in Req!RequestIds : req[q].late # TRUE
    BY <1>2, Zenon
  <1>6. LateLost
    BY <1>5 DEF LateLost
  <1> QED
    BY <1>1, <1>3, <1>4, <1>6 DEF RequestOrder

-----------------------------------------------------------------------------
(* Steps of one request *)

(* A layer that lets a request pass under some state of the limits lets it *)
(* pass when they are not reached.                                         *)
LEMMA RefusesMore ==
  ASSUME NEW l \in LayerNames, NEW h, NEW limited, ~Req!Refuses(l, h, limited)
  PROVE  ~Req!Refuses(l, h, FALSE)
  BY DEF Req!Refuses, Req!Stateful, LayerNames

(* The layers that keep state never refuse by their headers.               *)
LEMMA StatefulPass ==
  ASSUME NEW l \in Req!Stateful, NEW h PROVE ~Req!Refuses(l, h, FALSE)
  BY DEF Req!Refuses, Req!Stateful

(* What a step of request q, which is not done, has to keep.               *)
LEMMA RequestMoves ==
  ASSUME RequestOrder, NEW q \in Req!RequestIds, req[q].at # "done", NEW t \in RequestRecords,
         req' = [req EXCEPT ![q] = t],
         audit' \in [Req!RequestIds -> SUBSET {"operation", "auth_failure"}],
         \A p \in Req!RequestIds \ {q} : audit'[p] = audit[p],
         responses' \in [Req!Scopes -> Req!RequestIds \cup {Req!None}],
         UnderWay(q, t), WellDone(t, audit'[q]),
         lost \subseteq lost',
         t.late = TRUE => <<t.caller, t.route>> \in lost',
         t.at = "done" /\ t.answer \in Req!RequestIds \ {q} =>
           /\ Shapes[t.shape].keyed
           /\ Success(req[t.answer], t.answer, <<t.caller, t.route>>),
         \A s \in Req!Scopes :
           /\ responses'[s] = responses[s] \/ (Success(t, q, s) /\ responses'[s] = q)
           /\ Success(t, q, s) => responses'[s] # Req!None \/ s \in lost'
  PROVE  RequestOrder'
  <1>1. RequestType /\ req[q] \in RequestRecords
    BY DEF RequestOrder, RequestType
  <1>2. RequestType'
    BY <1>1 DEF RequestType
  <1>3. req'[q] = t /\ \A p \in Req!RequestIds \ {q} : req'[p] = req[p]
    BY <1>1 DEF RequestType
  <1>4. \A p \in Req!RequestIds : UnderWay(p, req'[p]) /\ WellDone(req'[p], audit'[p])
    BY <1>3 DEF RequestOrder
  <1>5. \A p \in Req!RequestIds : \A s : Success(req[p], p, s) => p # q /\ req'[p] = req[p]
    BY <1>3 DEF Success
  <1>7. ResponsesTrue'
    <2> SUFFICES ASSUME NEW s \in Req!Scopes
                 PROVE  /\ responses'[s] # Req!None => Success(req'[responses'[s]], responses'[s], s)
                        /\ (\E p \in Req!RequestIds : Success(req'[p], p, s)) => responses'[s] # Req!None \/ s \in lost'
      BY DEF ResponsesTrue
    <2>1. responses[s] # Req!None => responses[s] \in Req!RequestIds /\ Success(req[responses[s]], responses[s], s)
      BY <1>1 DEF RequestOrder, RequestType, ResponsesTrue
    <2>2. responses'[s] # Req!None => Success(req'[responses'[s]], responses'[s], s)
      BY <1>3, <1>5, <2>1
    <2>3. ASSUME NEW p \in Req!RequestIds, Success(req'[p], p, s)
          PROVE  responses'[s] # Req!None \/ s \in lost'
      <3>1. CASE p = q
        BY <1>3, <2>3, <3>1
      <3>2. CASE p # q
        <4>1. Success(req[p], p, s)
          BY <1>3, <2>3, <3>2
        <4>2. responses[s] # Req!None \/ s \in lost
          BY <4>1 DEF RequestOrder, ResponsesTrue
        <4> QED
          BY <4>2, RequestConstants
      <3> QED
        BY <3>1, <3>2
    <2> QED
      BY <2>2, <2>3
  <1>8. AnswersTrue'
    <2> SUFFICES ASSUME NEW p \in Req!RequestIds, req'[p].at = "done", req'[p].answer \in Req!RequestIds \ {p}
                 PROVE  /\ Shapes[req'[p].shape].keyed
                        /\ Success(req'[req'[p].answer], req'[p].answer, <<req'[p].caller, req'[p].route>>)
      BY DEF AnswersTrue
    <2>1. CASE p = q
      <3>1. /\ t.at = "done" /\ t.answer \in Req!RequestIds \ {q} /\ req'[p] = t
        BY <1>3, <2>1
      <3>2. Shapes[t.shape].keyed /\ Success(req[t.answer], t.answer, <<t.caller, t.route>>)
        BY <3>1
      <3>3. req'[t.answer] = req[t.answer]
        BY <1>5, <3>1, <3>2
      <3> QED
        BY <3>1, <3>2, <3>3
    <2>2. CASE p # q
      <3>1. /\ req'[p] = req[p] /\ Shapes[req[p].shape].keyed
            /\ Success(req[req[p].answer], req[p].answer, <<req[p].caller, req[p].route>>)
        BY <1>3, <2>2 DEF RequestOrder, AnswersTrue
      <3>2. req'[req[p].answer] = req[req[p].answer]
        BY <1>5, <3>1
      <3> QED
        BY <3>1, <3>2
    <2> QED
      BY <2>1, <2>2
  <1>9. LateLost'
    BY <1>3 DEF RequestOrder, LateLost
  <1> QED
    BY <1>2, <1>4, <1>7, <1>8, <1>9 DEF RequestOrder

(* Inward: where a request that has come to layer r.layer stops: it passes *)
(* the layers before that, none of which keeps state.                      *)
LEMMA StopFacts ==
  ASSUME NEW r \in RequestRecords, r.route \in Req!Routes,
         r.layer \in 1..(Depth(r.route) + 1), Passes(r.route, Shapes[r.shape], r.layer),
         NEW limited
  PROVE  /\ Req!NextStop(r, limited) \in r.layer..(Depth(r.route) + 1)
         /\ \A i \in r.layer..(Req!NextStop(r, limited) - 1) : Req!Layers[r.route][i] \notin Req!Stateful
         /\ Passes(r.route, Shapes[r.shape], Req!NextStop(r, limited))
  <1> DEFINE layers == Req!Layers[r.route]
             Stops(i) == layers[i] \in Req!Stateful \/ Req!Refuses(layers[i], Shapes[r.shape], limited)
             T == {i \in r.layer..Len(layers) : Stops(i)} \cup {Len(layers) + 1}
             D == Depth(r.route)
             n == Req!NextStop(r, limited)
  <1>1. n = Req!Min(T)
    BY DEF Req!NextStop
  <1>2. Len(layers) = D /\ D \in 8..10 /\ \A i \in 1..D : layers[i] \in LayerNames
    BY LayerFacts
  <1> HIDE DEF n, D, Stops, layers
  <1>3. T \in SUBSET (1..11) /\ T # {} /\ T \subseteq r.layer..(D + 1)
    BY <1>2, SMTT(30) DEF D
  <1>4. n \in T /\ \A y \in T : n =< y
    BY <1>1, <1>3, FirstPlace
  <1>5. n \in r.layer..(D + 1)
    BY <1>3, <1>4
  <1>6. \A i \in r.layer..(n - 1) : ~Stops(i)
    <2> SUFFICES ASSUME NEW i \in r.layer..(n - 1), Stops(i) PROVE FALSE
      OBVIOUS
    <2>1. i \in Nat /\ i < n /\ i =< D
      BY <1>2, <1>5
    <2>2. i \in T
      BY <1>2, <2>1
    <2> QED
      BY <1>4, <1>5, <2>1, <2>2
  <1>7. ASSUME NEW i \in 1..(n - 1)
        PROVE  ~Req!Refuses(layers[i], Shapes[r.shape], FALSE)
    <2>0. r.layer \in Nat /\ n \in Nat /\ i \in Nat
      BY <1>2, <1>5 DEF D
    <2>1. CASE i < r.layer
      <3>1. i \in 1..(r.layer - 1)
        BY <2>0, <2>1
      <3> QED
        BY <3>1 DEF Passes, layers
    <2>2. CASE i >= r.layer
      <3>1. i \in r.layer..(n - 1) /\ i \in 1..D
        BY <1>2, <1>5, <2>2
      <3>2. ~Req!Refuses(layers[i], Shapes[r.shape], limited) /\ layers[i] \in LayerNames
        BY <1>2, <1>6, <3>1 DEF Stops
      <3> QED
        BY <3>2, RefusesMore
    <2>3. i < r.layer \/ i >= r.layer
      BY <2>0
    <2> QED
      BY <2>1, <2>2, <2>3, Zenon
  <1>8. Passes(r.route, Shapes[r.shape], n)
    BY <1>7 DEF Passes, layers
  <1>9. \A i \in r.layer..(n - 1) : layers[i] \notin Req!Stateful
    BY <1>6 DEF Stops
  <1> QED
    BY <1>5, <1>8, <1>9 DEF n, D, layers

(* A finished request has the entries its way through the layers gave it.  *)
LEMMA FinishAudits ==
  ASSUME RequestType, NEW q \in Req!RequestIds, NEW r, NEW answer, Req!Finish(q, r, answer)
  PROVE  /\ audit' \in [Req!RequestIds -> SUBSET {"operation", "auth_failure"}]
         /\ \A p \in Req!RequestIds \ {q} : audit'[p] = audit[p]
         /\ audit'[q] = IF Req!Passed(r, "audit") THEN Req!AuditEntries(answer) ELSE {}
  <1>1. Req!AuditEntries(answer) \in SUBSET {"operation", "auth_failure"}
    BY DEF Req!AuditEntries, Req!AuthFailure
  <1> QED
    BY <1>1 DEF RequestType, Req!Finish

(* A request that goes on keeps the invariant.                             *)
LEMMA InwardKept ==
  ASSUME RequestOrder, NEW q \in Req!RequestIds, req[q].at # "done", NEW r \in RequestRecords,
         r.route \in Req!Routes, r.caller \in Callers, r.layer \in 1..(Depth(r.route) + 1),
         Passes(r.route, Shapes[r.shape], r.layer),
         r.route = "admin" /\ r.layer > 6 => r.known = TRUE,
         lost \subseteq lost', r.late = TRUE => <<r.caller, r.route>> \in lost',
         UNCHANGED responses, NEW limited, Req!Inward(q, r, limited)
  PROVE  RequestOrder'
  <1> DEFINE n == Req!NextStop(r, limited)
             D == Depth(r.route)
  <1>1. /\ n \in r.layer..(D + 1)
        /\ \A i \in r.layer..(n - 1) : Req!Layers[r.route][i] \notin Req!Stateful
        /\ Passes(r.route, Shapes[r.shape], n)
    BY StopFacts
  <1>2. /\ Len(Req!Layers[r.route]) = D /\ D \in 8..10 /\ (r.route = "admin" => D = 10)
        /\ \A i \in 1..D : Req!Layers[r.route][i] \in Req!Stateful => i = D \/ i = 6
        /\ r.route = "admin" => Req!Layers[r.route][6] \in Req!Stateful
    BY LayerFacts DEF Req!Stateful
  <1>3. \/ /\ n = D + 1
           /\ Req!Become(q, [[r EXCEPT !.layer = n] EXCEPT !.at = "run"])
        \/ /\ n # D + 1 /\ Req!Layers[r.route][n] \in Req!Stateful
           /\ Req!Become(q, [[r EXCEPT !.layer = n] EXCEPT !.at = "guard"])
        \/ Req!Finish(q, [r EXCEPT !.layer = n], Req!Refused)
    BY <1>2 DEF Req!Inward
  <1> HIDE DEF n
  <1>4. n \in Nat /\ r.layer \in Nat /\ n >= 1 /\ n =< D + 1
    BY <1>1, <1>2
  <1>5. r.route = "admin" /\ n > 6 => r.known = TRUE
    <2>1. ASSUME r.route = "admin", n > 6, ~(r.layer > 6) PROVE FALSE
      <3>1. 6 \in r.layer..(n - 1)
        BY <1>4, <2>1
      <3> QED
        BY <1>1, <1>2, <2>1, <3>1
    <2> QED
      BY <2>1, Zenon
  <1>6. ASSUME NEW p \in {"guard", "run"},
               p = "run" => n = D + 1,
               p = "guard" => n # D + 1 /\ Req!Layers[r.route][n] \in Req!Stateful,
               Req!Become(q, [[r EXCEPT !.layer = n] EXCEPT !.at = p])
        PROVE  RequestOrder'
    <2> DEFINE t == [[r EXCEPT !.layer = n] EXCEPT !.at = p]
    <2>1. /\ t.at = p /\ t.layer = n /\ t.caller = r.caller /\ t.route = r.route
          /\ t.shape = r.shape /\ t.known = r.known /\ t.late = r.late /\ t.answer = r.answer
          /\ t \in RequestRecords
      BY <1>4 DEF RequestRecords
    <2>2. req' = [req EXCEPT ![q] = t] /\ audit' = audit
      BY <1>6 DEF Req!Become
    <2> HIDE DEF t
    <2>3. p = "guard" => n =< D
      BY <1>4, <1>2, <1>6
    <2>4. r.route = "admin" => n >= 6
      BY <1>2, <1>4, <1>6, <2>3
    <2>5. UnderWay(q, t)
      BY <1>1, <1>4, <1>5, <1>6, <2>1, <2>3, <2>4 DEF UnderWay
    <2>6. WellDone(t, audit'[q])
      BY <2>1 DEF WellDone
    <2>7. \A s : ~Success(t, q, s)
      BY <2>1 DEF Success
    <2>8. RequestType
      BY DEF RequestOrder
    <2> QED
      BY <2>1, <2>2, <2>5, <2>6, <2>7, <2>8, RequestMoves DEF RequestType
  <1>7. CASE Req!Finish(q, [r EXCEPT !.layer = n], Req!Refused)
    <2> DEFINE t == [Req!NewRequest EXCEPT !.at = "done", !.answer = Req!Refused]
    <2>1. /\ t.at = "done" /\ t.answer = Req!Refused /\ t.late = FALSE
          /\ t \in RequestRecords
      BY NewRequestTyped DEF RequestRecords, Req!Marks
    <2>2. req' = [req EXCEPT ![q] = t]
      BY <1>7 DEF Req!Finish
    <2> HIDE DEF t
    <2>3. RequestType
      BY DEF RequestOrder
    <2>4. /\ audit' \in [Req!RequestIds -> SUBSET {"operation", "auth_failure"}]
          /\ \A p \in Req!RequestIds \ {q} : audit'[p] = audit[p]
      BY <1>7, <2>3, FinishAudits
    <2>5. UnderWay(q, t)
      BY <2>1 DEF UnderWay
    <2>6. WellDone(t, audit'[q])
      BY <2>1 DEF WellDone
    <2>7. t.answer \notin Req!RequestIds
      BY <2>1, RequestConstants
    <2>8. \A s : ~Success(t, q, s)
      BY <2>7 DEF Success
    <2>9. t.late # TRUE
      BY <2>1, Zenon
    <2> QED
      BY <2>1, <2>2, <2>3, <2>4, <2>5, <2>6, <2>7, <2>8, <2>9, RequestMoves DEF RequestType
  <1> QED
    BY <1>3, <1>6, <1>7

(* A request that is answered keeps the invariant.                         *)
LEMMA FinishKept ==
  ASSUME RequestOrder, NEW q \in Req!RequestIds, req[q].at \in {"guard", "store"},
         NEW answer \in Req!RequestIds \cup {Req!Unauthorized, Req!Failed},
         Req!Finish(q, req[q], answer),
         answer # Req!Unauthorized =>
           /\ Passes(req[q].route, Shapes[req[q].shape], Depth(req[q].route) + 1)
           /\ req[q].route = "admin" => req[q].known = TRUE,
         answer \in Req!RequestIds \ {q} =>
           /\ Shapes[req[q].shape].keyed
           /\ Success(req[answer], answer, <<req[q].caller, req[q].route>>),
         responses' \in [Req!Scopes -> Req!RequestIds \cup {Req!None}], lost \subseteq lost',
         \A s \in Req!Scopes :
           LET here == answer = q /\ Shapes[req[q].shape].keyed /\ <<req[q].caller, req[q].route>> = s IN
           /\ responses'[s] = responses[s] \/ (here /\ responses'[s] = q)
           /\ here => responses'[s] # Req!None \/ s \in lost'
  PROVE  RequestOrder'
  <1> DEFINE r == req[q]
             t == [r EXCEPT !.at = "done", !.answer = answer]
  <1>1. RequestType /\ r \in RequestRecords /\ UnderWay(q, r) /\ LateLost
    BY DEF RequestOrder, RequestType
  <1>2. answer # Req!Refused
    BY RequestConstants DEF Req!Refused, Req!Unauthorized, Req!Failed
  <1>3. req' = [req EXCEPT ![q] = t]
    BY <1>2 DEF Req!Finish
  <1>4. /\ t.at = "done" /\ t.answer = answer /\ t.caller = r.caller /\ t.route = r.route
        /\ t.shape = r.shape /\ t.known = r.known /\ t.late = r.late /\ t \in RequestRecords
    BY <1>1 DEF RequestRecords, Req!Marks
  <1>5. /\ audit' \in [Req!RequestIds -> SUBSET {"operation", "auth_failure"}]
        /\ \A p \in Req!RequestIds \ {q} : audit'[p] = audit[p]
        /\ audit'[q] = IF Req!Passed(r, "audit") THEN Req!AuditEntries(answer) ELSE {}
    BY <1>1, FinishAudits
  <1>6. r.route \in Req!Routes /\ (r.route = "admin" => r.layer \in Nat /\ r.layer >= 6)
    BY <1>1, LayerFacts DEF UnderWay, RequestRecords
  <1> HIDE DEF t
  <1>7. ASSUME r.route = "admin"
        PROVE  audit'[q] = IF answer = Req!Unauthorized THEN {"operation", "auth_failure"} ELSE {"operation"}
    <2>1. 4 \in 1..(r.layer - 1) /\ Req!Layers[r.route][4] = "audit"
      BY <1>6, <1>7, LayerFacts
    <2>2. Req!Passed(r, "audit")
      BY <2>1 DEF Req!Passed
    <2> QED
      BY <1>5, <2>2 DEF Req!AuditEntries, Req!AuthFailure
  <1>8. WellDone(t, audit'[q])
    BY <1>4, <1>6, <1>7 DEF WellDone
  <1>9. UnderWay(q, t)
    BY <1>4 DEF UnderWay
  <1>10. t.late = TRUE => <<t.caller, t.route>> \in lost'
    BY <1>1, <1>4 DEF LateLost
  <1>11. \A s \in Req!Scopes :
           /\ responses'[s] = responses[s] \/ (Success(t, q, s) /\ responses'[s] = q)
           /\ Success(t, q, s) => responses'[s] # Req!None \/ s \in lost'
    BY <1>4 DEF Success
  <1>12. t.at = "done" /\ t.answer \in Req!RequestIds \ {q} =>
           /\ Shapes[t.shape].keyed
           /\ Success(req[t.answer], t.answer, <<t.caller, t.route>>)
    BY <1>4
  <1> QED
    BY <1>3, <1>4, <1>5, <1>8, <1>9, <1>10, <1>11, <1>12, RequestMoves

-----------------------------------------------------------------------------
(* The steps *)

(* A layer that keeps state lets a request pass as far as headers go.      *)
LEMMA PassesNext ==
  ASSUME NEW rt \in Req!Routes, NEW h, NEW n \in 1..Depth(rt), Passes(rt, h, n),
         Req!Layers[rt][n] \in Req!Stateful
  PROVE  Passes(rt, h, n + 1)
  <1>1. Depth(rt) \in 8..10
    BY LayerFacts
  <1>2. ~Req!Refuses(Req!Layers[rt][n], h, FALSE)
    BY StatefulPass
  <1>4. \A i \in 1..(n - 1) : ~Req!Refuses(Req!Layers[rt][i], h, FALSE)
    BY DEF Passes
  <1>5. PICK m : m = n + 1
    OBVIOUS
  <1>6. \A i \in 1..(m - 1) : ~Req!Refuses(Req!Layers[rt][i], h, FALSE)
    <2>1. \A i \in 1..(m - 1) : i = n \/ i \in 1..(n - 1)
      BY <1>1, <1>5
    <2> QED
      BY <1>2, <1>4, <2>1, Zenon
  <1> QED
    BY <1>5, <1>6 DEF Passes

(* The record of a request whose key is known.                             *)
LEMMA KnownNext ==
  ASSUME NEW r \in RequestRecords, NEW v \in Truth, NEW t,
         t = [r EXCEPT !.known = v, !.layer = @ + 1]
  PROVE  /\ t \in RequestRecords /\ t.caller = r.caller /\ t.route = r.route
         /\ t.shape = r.shape /\ t.layer = r.layer + 1 /\ t.late = r.late /\ t.known = v
  <1>1. PICK m \in Nat : m = r.layer + 1
    BY DEF RequestRecords
  <1>2. t = [r EXCEPT !.known = v, !.layer = m]
    BY <1>1
  <1>3. t \in RequestRecords
    BY <1>2 DEF RequestRecords
  <1> QED
    BY <1>1, <1>2, <1>3 DEF RequestRecords

(* A request that waits at a layer is under way.                           *)
LEMMA AtLayerFacts ==
  ASSUME RequestOrder, NEW q \in Req!RequestIds, NEW l, Req!AtLayer(q, l)
  PROVE  /\ req[q] \in RequestRecords /\ req[q].at = "guard"
         /\ req[q].caller \in Callers /\ req[q].route \in Req!Routes
         /\ req[q].layer \in 1..Depth(req[q].route) /\ req[q].layer \in Nat
         /\ Depth(req[q].route) \in 8..10
         /\ Req!Layers[req[q].route][req[q].layer] = l
         /\ Passes(req[q].route, Shapes[req[q].shape], req[q].layer + 1)
         /\ req[q].route = "admin" /\ req[q].layer > 6 => req[q].known = TRUE
         /\ l = "api_key" => req[q].route = "admin" /\ req[q].layer = 6
         /\ l = "idempotency" => req[q].layer = Depth(req[q].route)
  <1> DEFINE r == req[q]
  <1>1. r \in RequestRecords /\ UnderWay(q, r) /\ r.at = "guard"
    BY DEF RequestOrder, RequestType, Req!AtLayer
  <1>2. /\ r.caller \in Callers /\ r.route \in Req!Routes
        /\ Req!Layers[r.route][r.layer] = l /\ l \in Req!Stateful
        /\ Passes(r.route, Shapes[r.shape], r.layer)
    BY <1>1 DEF UnderWay, Req!AtLayer
  <1>3. Depth(r.route) \in 8..10
    BY <1>2, LayerFacts
  <1>4. r.layer \in 1..Depth(r.route) /\ r.layer \in Nat
    BY <1>1, <1>3 DEF UnderWay
  <1>5. r.route = "admin" /\ r.layer > 6 => r.known = TRUE
    BY <1>1, Zenon DEF UnderWay
  <1>6. Passes(r.route, Shapes[r.shape], r.layer + 1)
    BY <1>2, <1>4, PassesNext
  <1>7. /\ l = "api_key" => r.route = "admin" /\ r.layer = 6
        /\ l = "idempotency" => r.layer = Depth(r.route)
    BY <1>2, <1>4, LayerFacts
  <1> QED
    BY <1>1, <1>2, <1>3, <1>4, <1>5, <1>6, <1>7

(* A request arrives.                                                      *)
LEMMA ArriveKept ==
  ASSUME RequestOrder, NEW i \in DOMAIN Arrivals, Req!Arrive(i)
  PROVE  RequestOrder'
  <1>1. PICK q \in Req!RequestIds : q = Arrivals[i]
    BY DEF Req!RequestIds
  <1>2. PICK c \in Callers, rt \in Req!Routes, s \in DOMAIN Shapes, limited \in BOOLEAN :
          Req!Inward(q, [Req!NewRequest EXCEPT !.caller = c, !.route = rt, !.shape = s], limited)
    <2>1. (IF q \in Varied THEN DOMAIN Shapes ELSE {Plain}) \subseteq DOMAIN Shapes
      BY RequestConstants
    <2> QED
      BY <1>1, <2>1 DEF Req!Arrive
  <1>3. req[q].at = "new" /\ UNCHANGED <<responses, lost>>
    BY <1>1 DEF Req!Arrive
  <1> DEFINE r == [Req!NewRequest EXCEPT !.caller = c, !.route = rt, !.shape = s]
  <1>4. /\ r \in RequestRecords /\ r.caller = c /\ r.route = rt /\ r.shape = s
        /\ r.layer = 1 /\ r.late = FALSE
    BY NewRequestTyped DEF RequestRecords
  <1>5. Req!Inward(q, r, limited)
    BY <1>2
  <1> HIDE DEF r
  <1>6. r.late # TRUE
    BY <1>4, Zenon
  <1>7. Passes(r.route, Shapes[r.shape], r.layer)
    BY <1>4 DEF Passes
  <1>8. r.layer \in 1..(Depth(r.route) + 1) /\ ~(r.layer > 6)
    BY <1>4, LayerFacts
  <1> QED
    BY <1>3, <1>4, <1>5, <1>6, <1>7, <1>8, InwardKept

(* The check of the API key.                                               *)
LEMMA AuthenticateKept ==
  ASSUME RequestOrder, NEW q \in Req!RequestIds, Req!Authenticate(q)
  PROVE  RequestOrder'
  <1>1. Req!AtLayer(q, "api_key") /\ UNCHANGED <<responses, lost>>
    BY DEF Req!Authenticate
  <1>2. /\ req[q] \in RequestRecords /\ req[q].at = "guard"
        /\ req[q].caller \in Callers /\ req[q].route \in Req!Routes
        /\ Passes(req[q].route, Shapes[req[q].shape], req[q].layer + 1)
        /\ req[q].route = "admin" /\ req[q].layer = 6
    BY <1>1, AtLayerFacts
  <1>3. CASE Req!Inward(q, [req[q] EXCEPT !.known = TRUE, !.layer = @ + 1], FALSE)
    <2> DEFINE r == [req[q] EXCEPT !.known = TRUE, !.layer = @ + 1]
    <2>1. TRUE \in Truth
      BY Zenon DEF Truth
    <2>4. Req!Inward(q, r, FALSE)
      BY <1>3
    <2>3. /\ r \in RequestRecords /\ r.caller = req[q].caller /\ r.route = req[q].route
          /\ r.shape = req[q].shape /\ r.layer = req[q].layer + 1 /\ r.late = req[q].late
          /\ r.known = TRUE
      BY <1>2, <2>1, KnownNext, Zenon
    <2> HIDE DEF r
    <2>2. r.layer = 7
      BY <1>2, <2>3
    <2>5. r.late = TRUE => <<r.caller, r.route>> \in lost'
      BY <1>1, <2>3 DEF RequestOrder, LateLost
    <2>6. r.layer \in 1..(Depth(r.route) + 1)
      BY <1>2, <2>2, <2>3, LayerFacts
    <2>7. Passes(r.route, Shapes[r.shape], r.layer)
      BY <1>2, <2>2, <2>3
    <2> QED
      BY <1>1, <1>2, <2>2, <2>3, <2>4, <2>5, <2>6, <2>7, InwardKept
  <1>4. CASE Req!Finish(q, req[q], Req!Unauthorized)
    BY <1>1, <1>2, <1>4, RequestConstants, FinishKept DEF RequestOrder, RequestType
  <1> QED
    BY <1>3, <1>4 DEF Req!Authenticate

(* The look into the stored responses.                                     *)
LEMMA ClaimLookupKept ==
  ASSUME RequestOrder, NEW q \in Req!RequestIds, Req!Lookup(q)
  PROVE  RequestOrder'
  <1> DEFINE c == req[q].caller
             rt == req[q].route
             s == <<c, rt>>
             late == Req!Answered(Req!ScopeOf(q)) /\ Req!Keyed(q)
             r == [req[q] EXCEPT !.late = late, !.layer = @ + 1]
  <1>1. Req!AtLayer(q, "idempotency") /\ UNCHANGED responses
    BY DEF Req!Lookup
  <1>2. /\ req[q] \in RequestRecords /\ req[q].at = "guard" /\ c \in Callers /\ rt \in Req!Routes
        /\ req[q].layer \in Nat /\ Depth(rt) \in 8..10 /\ req[q].layer = Depth(rt)
        /\ Passes(rt, Shapes[req[q].shape], Depth(rt) + 1)
    BY <1>1, AtLayerFacts
  <1>3. rt = "admin" => req[q].known = TRUE
    <2>1. rt = "admin" => req[q].layer > 6
      BY <1>2
    <2>2. rt = "admin" /\ req[q].layer > 6 => req[q].known = TRUE
      BY <1>1, AtLayerFacts
    <2> QED
      BY <2>1, <2>2, Zenon
  <1>4. Req!ScopeOf(q) = s /\ s \in Req!Scopes
    BY <1>2 DEF Req!ScopeOf, Req!Scope, Req!Scopes
  <1>5. ASSUME Req!Inward(q, r, FALSE), lost \subseteq lost',
               Req!Keyed(q) => responses[s] = Req!None \/ s \in lost'
        PROVE  RequestOrder'
    <2>1. late \in Truth
      BY Zenon DEF Truth
    <2>2. PICK v \in Truth : v = late
      BY <2>1, Zenon
    <2>3. r = [req[q] EXCEPT !.late = v, !.layer = @ + 1]
      BY <2>2, Zenon
    <2> HIDE DEF r, late
    <2>4. /\ r \in RequestRecords /\ r.caller = c /\ r.route = rt /\ r.late = v
          /\ r.shape = req[q].shape /\ r.layer = req[q].layer + 1 /\ r.known = req[q].known
      <3>1. PICK w \in RequestRecords : w = req[q]
        BY <1>2
      <3>2. PICK m \in Nat : m = w.layer + 1
        BY <3>1 DEF RequestRecords
      <3>3. r = [w EXCEPT !.late = v, !.layer = m]
        BY <2>3, <3>1, <3>2
      <3>4. v \in Truth
        BY <2>2
      <3>5. r \in RequestRecords
        BY <3>1, <3>2, <3>3, <3>4 DEF RequestRecords
      <3>6. /\ r.caller = w.caller /\ r.route = w.route /\ r.late = v
            /\ r.shape = w.shape /\ r.layer = m /\ r.known = w.known
        BY <3>1, <3>3 DEF RequestRecords
      <3> QED
        BY <3>1, <3>2, <3>5, <3>6, Zenon
    <2>5. late => Req!Answered(s) /\ Req!Keyed(q)
      BY <1>4 DEF late
    <2>6. Req!Answered(s) => responses[s] # Req!None \/ s \in lost
      BY <1>4 DEF Req!Answered, RequestOrder, ResponsesTrue, Success, Req!Keyed, Req!ScopeOf,
                  Req!Scope
    <2>7. late => s \in lost'
      BY <1>5, <2>5, <2>6
    <2>8. r.late = TRUE => late
      <3>1. v = TRUE => late
        BY <2>2
      <3> QED
        BY <2>4, <3>1, Zenon
    <2>9. r.late = TRUE => <<r.caller, r.route>> \in lost'
      BY <2>4, <2>7, <2>8
    <2>10. r.layer \in 1..(Depth(r.route) + 1) /\ Passes(r.route, Shapes[r.shape], r.layer)
      BY <1>2, <2>4
    <2> QED
      BY <1>1, <1>2, <1>3, <1>5, <2>4, <2>9, <2>10, InwardKept
  <1>6. CASE Req!Keyed(q) /\ responses[s] # Req!None /\ Req!Finish(q, req[q], responses[s]) /\ UNCHANGED lost
    <2>1. responses[s] \in Req!RequestIds /\ Success(req[responses[s]], responses[s], s)
      BY <1>4, <1>6 DEF RequestOrder, RequestType, ResponsesTrue
    <2>2. responses[s] # q
      BY <1>2, <2>1 DEF Success
    <2>3. responses' \in [Req!Scopes -> Req!RequestIds \cup {Req!None}]
      BY <1>1 DEF RequestOrder, RequestType
    <2>4. Shapes[req[q].shape].keyed
      BY <1>6 DEF Req!Keyed
    <2> QED
      BY <1>1, <1>2, <1>3, <1>6, <2>1, <2>2, <2>3, <2>4, FinishKept
  <1>7. \/ (Req!Keyed(q) => responses[s] = Req!None) /\ Req!Inward(q, r, FALSE) /\ UNCHANGED lost
        \/ Req!Keyed(q) /\ responses[s] # Req!None /\ Req!Finish(q, req[q], responses[s]) /\ UNCHANGED lost
        \/ Req!Keyed(q) /\ Req!Inward(q, r, FALSE) /\ lost' = lost \cup {s}
    BY <1>4 DEF Req!Lookup
  <1> HIDE DEF r
  <1> QED
    BY <1>5, <1>6, <1>7

(* The handler runs, and what it returned is to be stored.                 *)
LEMMA RunKept ==
  ASSUME RequestOrder, NEW q \in Req!RequestIds, Req!Run(q)
  PROVE  RequestOrder'
  <1> DEFINE r == req[q]
  <1>1. RequestType /\ r \in RequestRecords /\ UnderWay(q, r) /\ LateLost /\ r.at = "run"
    BY DEF RequestOrder, RequestType, Req!Run
  <1>2. PICK answer \in {q, Req!Failed} : req' = [req EXCEPT ![q] = [r EXCEPT !.at = "store", !.answer = answer]]
    BY DEF Req!Run
  <1>3. UNCHANGED <<responses, lost, audit>>
    BY DEF Req!Run
  <1> DEFINE t == [r EXCEPT !.at = "store", !.answer = answer]
  <1>4. /\ t.at = "store" /\ t.answer = answer /\ t.caller = r.caller /\ t.route = r.route
        /\ t.shape = r.shape /\ t.layer = r.layer /\ t.known = r.known /\ t.late = r.late
        /\ t \in RequestRecords
    BY <1>1 DEF RequestRecords, Req!Marks
  <1> HIDE DEF t
  <1>5. UnderWay(q, t)
    BY <1>1, <1>4 DEF UnderWay
  <1>6. WellDone(t, audit'[q]) /\ \A s : ~Success(t, q, s)
    BY <1>4 DEF WellDone, Success
  <1>7. t.late = TRUE => <<t.caller, t.route>> \in lost'
    BY <1>1, <1>3, <1>4 DEF LateLost
  <1>8. req' = [req EXCEPT ![q] = t]
    BY <1>2 DEF t
  <1> QED
    BY <1>1, <1>3, <1>4, <1>5, <1>6, <1>7, <1>8, RequestMoves DEF RequestType

(* A success is stored, or the write fails.                               *)
LEMMA ClaimStoreKept ==
  ASSUME RequestOrder, NEW q \in Req!RequestIds, Req!Store(q)
  PROVE  RequestOrder'
  <1> DEFINE r == req[q]
             sc == <<r.caller, r.route>>
             keeps == Shapes[r.shape].keyed /\ r.answer = q
  <1>1. RequestType /\ r \in RequestRecords /\ UnderWay(q, r) /\ r.at = "store"
    BY DEF RequestOrder, RequestType, Req!Store
  <1>2. r.caller \in Callers /\ r.route \in Req!Routes /\ r.answer \in {q, Req!Failed}
    BY <1>1 DEF UnderWay
  <1>3. Depth(r.route) \in 8..10 /\ (r.route = "admin" => Depth(r.route) = 10)
    BY <1>2, LayerFacts
  <1>4. r.layer = Depth(r.route) + 1
    BY <1>1 DEF UnderWay
  <1>5. Passes(r.route, Shapes[r.shape], Depth(r.route) + 1)
    BY <1>1, <1>4 DEF UnderWay
  <1>6. r.route = "admin" => r.known = TRUE
    <2>1. r.route = "admin" => r.layer > 6
      BY <1>3, <1>4
    <2>2. r.route = "admin" /\ r.layer > 6 => r.known = TRUE
      BY <1>1, Zenon DEF UnderWay
    <2> QED
      BY <2>1, <2>2, Zenon
  <1>7. sc \in Req!Scopes /\ sc = Req!ScopeOf(q)
    BY <1>2 DEF Req!Scopes, Req!Scope, Req!ScopeOf
  <1>8. /\ Req!Finish(q, r, r.answer)
        /\ \/ keeps /\ responses' = [responses EXCEPT ![sc] = q] /\ UNCHANGED lost
           \/ lost' = lost \cup {sc} /\ UNCHANGED responses
           \/ ~keeps /\ UNCHANGED <<responses, lost>>
    BY <1>7 DEF Req!Store, Req!Keyed
  <1>9. responses' \in [Req!Scopes -> Req!RequestIds \cup {Req!None}] /\ lost \subseteq lost'
    BY <1>1, <1>8 DEF RequestType
  <1>10. ASSUME NEW s \in Req!Scopes
         PROVE  /\ \/ responses'[s] = responses[s]
                   \/ r.answer = q /\ Shapes[r.shape].keyed /\ sc = s /\ responses'[s] = q
                /\ r.answer = q /\ Shapes[r.shape].keyed /\ sc = s => responses'[s] # Req!None \/ s \in lost'
    BY <1>1, <1>7, <1>8, RequestConstants DEF RequestType
  <1> HIDE DEF sc
  <1>11. r.answer \in Req!RequestIds \cup {Req!Unauthorized, Req!Failed} /\ r.answer \notin Req!RequestIds \ {q}
    BY <1>2, RequestConstants
  <1> QED
    BY <1>1, <1>5, <1>6, <1>8, <1>9, <1>10, <1>11, FinishKept DEF sc

(* A stored response expires.                                              *)
LEMMA ExpireKept ==
  ASSUME RequestOrder, NEW s \in Req!Scopes, Req!ExpireResponse(s)
  PROVE  RequestOrder'
  <1>1. /\ responses' = [responses EXCEPT ![s] = Req!None] /\ lost' = lost \cup {s}
        /\ UNCHANGED <<req, audit>>
    BY DEF Req!ExpireResponse
  <1>2. RequestType'
    BY <1>1 DEF RequestOrder, RequestType
  <1>3. ResponsesTrue'
    BY <1>1 DEF RequestOrder, RequestType, ResponsesTrue
  <1>4. AnswersTrue' /\ LateLost'
    BY <1>1 DEF RequestOrder, AnswersTrue, LateLost
  <1>5. (\A q \in Req!RequestIds : UnderWay(q, req[q]) /\ WellDone(req[q], audit[q]))'
    BY <1>1 DEF RequestOrder
  <1> QED
    BY <1>2, <1>3, <1>4, <1>5 DEF RequestOrder

(* Every step preserves the invariant.                                     *)
LEMMA RequestNext == RequestInv /\ [Next]_vars => RequestInv'
  <1> SUFFICES ASSUME RequestInv, [Next]_vars, focus' = "requests" PROVE RequestOrder'
    BY DEF RequestInv
  <1>1. focus = "requests" /\ RequestOrder
    BY FocusStays DEF RequestInv
  <1>2. CASE UNCHANGED <<req, responses, lost, audit>>
    BY <1>1, <1>2 DEF RequestOrder, RequestType, ResponsesTrue, AnswersTrue, LateLost
  <1>3. CASE Req!Next
    <2>1. CASE \E c \in Callers : Req!KeyEnds(c)
      BY <1>2, <2>1 DEF Req!KeyEnds
    <2> QED
      BY <1>1, <1>3, <2>1, ArriveKept, AuthenticateKept, ClaimLookupKept, RunKept,
         ClaimStoreKept, ExpireKept
         DEF Req!Next, Req!Step
  <1> QED
    BY <1>1, <1>2, <1>3, RequestsFollowed

(* RequestInv holds throughout.                                            *)
LEMMA RequestInvHolds == Spec => []RequestInv
  BY RequestInit, RequestNext, PTL DEF Spec

-----------------------------------------------------------------------------
(* The properties *)

(* idempotency_middleware: whichever requests with the same key overlap,   *)
(* and for any number of them, one that is looked up after a success was   *)
(* answered runs again only if an error of Redis or the end of the window  *)
(* has cost the stored response.                                           *)
THEOREM ExecutedOnceHolds == Spec => []ExecutedOnce
  <1>1. RequestInv => ExecutedOnce
    <2> SUFFICES ASSUME RequestOrder, NEW q \in Req!RequestIds, req[q].late
                 PROVE  Req!ScopeOf(q) \in lost
      BY DEF RequestInv, ExecutedOnce, Req!ExecutedOnce
    <2>1. req[q].late \in Truth
      BY DEF RequestOrder, RequestType, RequestRecords
    <2>2. req[q].late = TRUE
      BY <2>1, Zenon DEF Truth
    <2> QED
      BY <2>2 DEF RequestOrder, LateLost, Req!ScopeOf, Req!Scope
  <1> QED
    BY <1>1, RequestInvHolds, PTL

(* Whatever is answered from the stored responses was a success of the     *)
(* same caller on the same route, with an Idempotency-Key, for any number  *)
(* of callers and requests.                                                *)
THEOREM AnswerBelongsHolds == Spec => []AnswerBelongs
  <1>1. RequestInv => AnswerBelongs
    BY DEF RequestInv, RequestOrder, AnswerBelongs, Req!AnswerBelongs, AnswersTrue, Success,
           Req!Keyed
  <1> QED
    BY <1>1, RequestInvHolds, PTL

(* The order of the layers in main.rs: for any headers and configuration   *)
(* of the guards, whoever gets more than a refusal has passed every guard  *)
(* of the route, on the admin routes with a known API key, and is in the   *)
(* audit log.                                                              *)
THEOREM GuardsPassedHolds == Spec => []GuardsPassed
  <1>1. RequestInv => GuardsPassed
    <2> SUFFICES ASSUME RequestOrder, NEW q \in Req!RequestIds,
                        req[q].at = "done", req[q].answer # Req!Refused
                 PROVE  /\ \/ req[q].answer = Req!Unauthorized
                           \/ \A i \in DOMAIN Req!Layers[req[q].route] :
                                ~Req!Refuses(Req!Layers[req[q].route][i], Shapes[req[q].shape], FALSE)
                        /\ req[q].route = "admin" =>
                             /\ req[q].answer = Req!Unauthorized \/ req[q].known
                             /\ audit[q] = {"operation"} \cup
                                  (IF req[q].answer = Req!Unauthorized THEN {"auth_failure"} ELSE {})
      BY DEF RequestInv, GuardsPassed, Req!GuardsPassed
    <2> DEFINE r == req[q]
    <2>1. WellDone(r, audit[q])
      BY DEF RequestOrder
    <2>2. r.route \in Req!Routes
      BY <2>1 DEF WellDone
    <2>3. DOMAIN Req!Layers[r.route] = 1..Depth(r.route) /\ Depth(r.route) \in 8..10
      BY <2>2, LayerFacts
    <2>4. ASSUME r.answer # Req!Unauthorized, NEW i \in DOMAIN Req!Layers[r.route]
          PROVE  ~Req!Refuses(Req!Layers[r.route][i], Shapes[r.shape], FALSE)
      <3>0. PICK m : m = Depth(r.route) + 1
        OBVIOUS
      <3>1. Passes(r.route, Shapes[r.shape], m)
        BY <2>1, <2>4, <3>0 DEF WellDone
      <3>2. i \in 1..(m - 1)
        BY <2>3, <2>4, <3>0
      <3> QED
        BY <3>1, <3>2 DEF Passes
    <2>5. ASSUME r.route = "admin" PROVE r.answer = Req!Unauthorized \/ r.known
      BY <2>1, <2>5, Zenon DEF WellDone
    <2>6. ASSUME r.route = "admin"
          PROVE  audit[q] = {"operation"} \cup (IF r.answer = Req!Unauthorized THEN {"auth_failure"} ELSE {})
      BY <2>1, <2>6 DEF WellDone
    <2> QED
      BY <2>4, <2>5, <2>6, Zenon
  <1> QED
    BY <1>1, RequestInvHolds, PTL

-----------------------------------------------------------------------------
(* The rate limits *)

(* The requests that were admitted at from or later. *)
Since(from) == {i \in DOMAIN answers : answers[i].ok /\ from =< answers[i].at}

(* The requests are in the order of time, and Redis was asked about those  *)
(* that a limit answered.                                                  *)
AnswersOrdered ==
  /\ \A i \in DOMAIN answers : answers[i].at =< now /\ (answers[i].ok => answers[i].by = "limit")
  /\ \A i, j \in DOMAIN answers : i < j => answers[i].at =< answers[j].at

(* Every member of the sorted set is a request, scored by a clock that is  *)
(* ahead by no more than Skew; and an admitted request stays a member, and *)
(* the key of the set in place, until no clock counts it any more.         *)
MembersHonest ==
  /\ \A m \in scores :
       /\ answers[m.request].by = "limit"
       /\ answers[m.request].at =< m.score /\ m.score =< answers[m.request].at + Skew
  /\ \A i \in DOMAIN answers :
       answers[i].ok /\ now < answers[i].at + Window - Skew => \E m \in scores : m.request = i
  /\ \A i \in DOMAIN answers : answers[i].by = "limit" => answers[i].at + Window < deadline

(* The counter lives for a window from its first request, and counts every *)
(* request it admitted: in one life no more than Max, and no more than Max *)
(* of the lives before in the window that ends where this one begins.      *)
CounterHonest ==
  /\ count > 0 => /\ now < deadline /\ answers # <<>>
                  /\ deadline =< answers[Len(answers)].at + Window
                  /\ Cardinality(Since(deadline - Window)) =< count
  /\ count = 0 => deadline =< now
  /\ count =< 2 * Len(answers)
  /\ \A i \in DOMAIN answers : answers[i].ok => answers[i].at < deadline
  /\ Cardinality(Since(deadline - Window)) =< Max
  /\ \A t \in 0..LimitTime :
       deadline - Window < t + Window => Cardinality(Lim!Admitted(t, deadline - Window)) =< Max

LimitInv ==
  focus = "rate_limit" =>
    /\ Lim!TypeOK /\ IsFiniteSet(scores) /\ AnswersOrdered /\ Lim!LimitHonest
    /\ limit = "sliding" => MembersHonest
    /\ limit = "fixed" => CounterHonest

(* The bounds are numbers, and a window lasts.                             *)
LEMMA LimitConstants ==
  /\ Max \in Nat /\ Window \in Nat /\ Skew \in Nat /\ LimitTime \in Nat /\ LimitRequests \in Nat
  /\ Max >= 2 /\ Window > 0
  BY ApiAssumption DEF Lim!RateLimitAssumption

(* RateLimit counts as this module does.                                   *)
LEMMA LimitCardinality == \A S : Lim!Cardinality(S) = Cardinality(S)
  BY DEF Lim!Cardinality, Cardinality, Lim!IsFiniteSet, IsFiniteSet

(* While the limit is followed, every step is one of RateLimit or leaves   *)
(* it alone.                                                               *)
LEMMA LimitFollowed ==
  ASSUME [Next]_vars, focus = "rate_limit"
  PROVE  Lim!Next \/ UNCHANGED limitVars
  BY DEF Next, vars, limitVars, RequestStep, LimitStep, KeyStep, NewsletterStep, WebhookStep,
         MigrationStep, WatchStep, ChainStep, CacheStep

(* What an entry of the history is.                                        *)
LEMMA AnswerType ==
  ASSUME answers \in Seq([at : 0..LimitTime, ok : BOOLEAN, by : {"limit", "error"}])
  PROVE  /\ DOMAIN answers = 1..Len(answers) /\ Len(answers) \in Nat
         /\ \A i \in DOMAIN answers : /\ answers[i].at \in 0..LimitTime
                                     /\ answers[i].by \in {"limit", "error"}
  <1> DEFINE Answers == [at : 0..LimitTime, ok : BOOLEAN, by : {"limit", "error"}]
  <1>1. \A a \in Answers : a.at \in 0..LimitTime /\ a.by \in {"limit", "error"}
    OBVIOUS
  <1>2. answers \in Seq(Answers)
    OBVIOUS
  <1> HIDE DEF Answers
  <1>3. DOMAIN answers = 1..Len(answers) /\ Len(answers) \in Nat
    BY <1>2
  <1>4. \A i \in 1..Len(answers) : answers[i] \in Answers
    BY <1>2
  <1> QED
    BY <1>1, <1>3, <1>4

(* Requests that each have a member of a finite set are no more than its   *)
(* members.                                                                *)
LEMMA RequestsOfMembers ==
  ASSUME NEW C, IsFiniteSet(C), NEW A, \A i \in A : \E m \in C : m.request = i
  PROVE  IsFiniteSet(A) /\ Cardinality(A) =< Cardinality(C)
  <1> DEFINE f == [i \in A |-> CHOOSE m \in C : m.request = i]
  <1>1. \A i \in A : f[i] \in C /\ f[i].request = i
    OBVIOUS
  <1>2. f \in Injection(A, C)
    <2>1. f \in [A -> C]
      BY <1>1
    <2> HIDE DEF f
    <2> QED
      BY <1>1, <2>1 DEF Injection, IsInjective
  <1> QED
    BY <1>2, FS_Injection

(* A set and another one are together no more than the sum.                *)
LEMMA AtMostBoth ==
  ASSUME NEW S, IsFiniteSet(S), NEW T, IsFiniteSet(T), NEW U, U \subseteq S \cup T
  PROVE  Cardinality(U) =< Cardinality(S) + Cardinality(T)
  <1>1. IsFiniteSet(S \cup T) /\ Cardinality(S \cup T) = Cardinality(S) + Cardinality(T) - Cardinality(S \cap T)
    BY FS_Union
  <1>2. IsFiniteSet(U) /\ Cardinality(U) =< Cardinality(S \cup T)
    BY <1>1, FS_Subset
  <1>3. IsFiniteSet(S \cap T)
    BY FS_Subset
  <1>4. /\ Cardinality(S) \in Nat /\ Cardinality(T) \in Nat /\ Cardinality(S \cap T) \in Nat
        /\ Cardinality(U) \in Nat /\ Cardinality(S \cup T) \in Nat
    BY <1>1, <1>2, <1>3, FS_CardinalityType
  <1> QED
    BY <1>1, <1>2, <1>4

(* Requests are finitely many, and those of a part of the time too.        *)
LEMMA AdmittedFinite ==
  ASSUME Lim!TypeOK, NEW a \in Int, NEW b \in Int
  PROVE  /\ IsFiniteSet(Lim!Admitted(a, b)) /\ Cardinality(Lim!Admitted(a, b)) \in Nat
         /\ IsFiniteSet(Since(a)) /\ Cardinality(Since(a)) \in Nat
  <1>1. DOMAIN answers = 1..Len(answers) /\ Len(answers) \in Nat
    BY DEF Lim!TypeOK
  <1>2. IsFiniteSet(DOMAIN answers)
    BY <1>1, FS_Interval
  <1>3. Lim!Admitted(a, b) \in SUBSET DOMAIN answers /\ Since(a) \in SUBSET DOMAIN answers
    BY DEF Lim!Admitted, Since
  <1> QED
    BY <1>2, <1>3, FS_Subset, FS_CardinalityType

(* What one more answer adds.                                              *)
LEMMA Answered ==
  ASSUME Lim!TypeOK, AnswersOrdered, NEW ok \in BOOLEAN, NEW asked \in {"limit", "error"},
         ok => asked = "limit", Lim!Answer(ok, asked), now' = now
  PROVE  /\ answers' \in Seq([at : 0..LimitTime, ok : BOOLEAN, by : {"limit", "error"}])
         /\ Len(answers') = Len(answers) + 1 /\ DOMAIN answers' = 1..(Len(answers) + 1)
         /\ DOMAIN answers = 1..Len(answers)
         /\ \A i \in DOMAIN answers : answers'[i] = answers[i]
         /\ answers'[Len(answers) + 1] = [at |-> now, ok |-> ok, by |-> asked]
         /\ AnswersOrdered'
         /\ \A a, b \in Int :
              /\ Lim!Admitted(a, b)' = IF ok /\ a =< now /\ now < b
                                       THEN Lim!Admitted(a, b) \cup {Len(answers) + 1}
                                       ELSE Lim!Admitted(a, b)
              /\ Since(a)' = IF ok /\ a =< now THEN Since(a) \cup {Len(answers) + 1} ELSE Since(a)
  <1> DEFINE new == [at |-> now, ok |-> ok, by |-> asked]
  <1>0. now \in 0..LimitTime /\ answers \in Seq([at : 0..LimitTime, ok : BOOLEAN, by : {"limit", "error"}])
    BY DEF Lim!TypeOK
  <1>1. answers' = Append(answers, new)
    BY DEF Lim!Answer
  <1>2. new \in [at : 0..LimitTime, ok : BOOLEAN, by : {"limit", "error"}]
    BY <1>0
  <1>3. /\ answers' \in Seq([at : 0..LimitTime, ok : BOOLEAN, by : {"limit", "error"}])
        /\ Len(answers') = Len(answers) + 1 /\ DOMAIN answers' = 1..(Len(answers) + 1)
        /\ DOMAIN answers = 1..Len(answers) /\ Len(answers) \in Nat
        /\ \A i \in DOMAIN answers : answers'[i] = answers[i]
        /\ answers'[Len(answers) + 1] = new
    BY <1>0, <1>1, <1>2
  <1>4. \A i \in DOMAIN answers : answers[i].at \in 0..LimitTime
    BY <1>0, AnswerType
  <1>5. AnswersOrdered'
    <2> DEFINE n == Len(answers) + 1
    <2>1. ASSUME NEW i \in 1..n
          PROVE  answers'[i].at =< now' /\ (answers'[i].ok => answers'[i].by = "limit")
      <3>1. CASE i = n
        BY <1>0, <1>3, <3>1
      <3>2. CASE i \in DOMAIN answers
        BY <1>3, <3>2 DEF AnswersOrdered
      <3> QED
        BY <1>3, <3>1, <3>2
    <2>2. ASSUME NEW i \in 1..n, NEW j \in 1..n, i < j
          PROVE  answers'[i].at =< answers'[j].at
      <3>1. i \in DOMAIN answers /\ answers'[i] = answers[i]
        BY <1>3, <2>2
      <3>2. CASE j = n
        BY <1>3, <3>1, <3>2 DEF AnswersOrdered
      <3>3. CASE j \in DOMAIN answers
        BY <1>3, <2>2, <3>1, <3>3 DEF AnswersOrdered
      <3> QED
        BY <1>3, <3>2, <3>3
    <2> QED
      BY <1>3, <2>1, <2>2 DEF AnswersOrdered
  <1>6. ASSUME NEW a \in Int, NEW b \in Int
        PROVE  Lim!Admitted(a, b)' = IF ok /\ a =< now /\ now < b
                                     THEN Lim!Admitted(a, b) \cup {Len(answers) + 1}
                                     ELSE Lim!Admitted(a, b)
    BY <1>3 DEF Lim!Admitted
  <1>7. ASSUME NEW a \in Int
        PROVE  Since(a)' = IF ok /\ a =< now THEN Since(a) \cup {Len(answers) + 1} ELSE Since(a)
    BY <1>3 DEF Since
  <1> QED
    BY <1>3, <1>5, <1>6, <1>7


(* Init establishes the invariant.                                         *)
LEMMA LimitInit == Init => LimitInv
  <1> SUFFICES ASSUME Init
               PROVE  /\ Lim!TypeOK /\ IsFiniteSet(scores) /\ AnswersOrdered /\ Lim!LimitHonest
                      /\ limit = "sliding" => MembersHonest
                      /\ limit = "fixed" => CounterHonest
    BY DEF LimitInv
  <1>1. /\ now = 0 /\ scores = {} /\ count = 0 /\ deadline = 0
        /\ limit \in Lim!Limits /\ answers = <<>>
    BY DEF Init, Lim!Init
  <1>2. DOMAIN answers = {} /\ Len(answers) = 0
    BY <1>1
  <1>3. \A a, b \in Int : Lim!Admitted(a, b) = {} /\ Since(a) = {}
    BY <1>2 DEF Lim!Admitted, Since
  <1>4. Cardinality({}) = 0 /\ IsFiniteSet({})
    BY FS_EmptySet
  <1>5. Lim!TypeOK
    BY <1>1, LimitConstants DEF Lim!TypeOK
  <1>6. AnswersOrdered /\ MembersHonest
    BY <1>1, <1>2 DEF AnswersOrdered, MembersHonest
  <1>7. CounterHonest
    <2>1. deadline - Window \in Int
      BY <1>1, LimitConstants
    <2>2. Cardinality(Since(deadline - Window)) = 0
      BY <1>3, <1>4, <2>1
    <2>3. \A t \in 0..LimitTime : Cardinality(Lim!Admitted(t, deadline - Window)) = 0
      BY <1>3, <1>4, <2>1
    <2> QED
      BY <1>1, <1>2, <2>2, <2>3, LimitConstants DEF CounterHonest
  <1>8. Lim!LimitHonest
    <2>0. Lim!Cardinality({}) = 0
      BY <1>4, LimitCardinality
    <2>1. \A t \in 0..LimitTime : /\ Lim!Admitted(t, t + Window - Skew) = {}
                                  /\ Lim!Admitted(t, t + Window) = {}
      BY <1>3, LimitConstants
    <2>2. 2..Len(answers) = {}
      BY <1>2
    <2>3. ASSUME NEW t \in 0..LimitTime
          PROVE  /\ Lim!Cardinality(Lim!Admitted(t, t + Window - Skew)) =< Max
                 /\ Lim!Cardinality(Lim!Admitted(t, t + Window)) =< 2 * Max
      <3>1. Lim!Admitted(t, t + Window - Skew) = {} /\ Lim!Admitted(t, t + Window) = {}
        BY <2>1
      <3>2. /\ Lim!Cardinality(Lim!Admitted(t, t + Window - Skew)) = 0
            /\ Lim!Cardinality(Lim!Admitted(t, t + Window)) = 0
        BY <2>0, <3>1, Zenon
      <3> QED
        BY <3>2, LimitConstants
    <2> QED
      BY <2>2, <2>3, Zenon DEF Lim!LimitHonest
  <1> QED
    BY <1>1, <1>4, <1>5, <1>6, <1>7, <1>8

(* Time passes.                                                            *)
LEMMA LimitTick ==
  ASSUME LimitInv, focus = "rate_limit", focus' = focus, Lim!Tick PROVE LimitInv'
  <1>0. /\ Lim!TypeOK /\ IsFiniteSet(scores) /\ AnswersOrdered /\ Lim!LimitHonest
        /\ limit = "sliding" => MembersHonest
        /\ limit = "fixed" => CounterHonest
    BY DEF LimitInv
  <1>1. /\ now < LimitTime /\ now' = now + 1
        /\ count' = IF deadline = now' THEN 0 ELSE count
        /\ scores' = IF deadline = now' THEN {} ELSE scores
        /\ limit' = limit /\ deadline' = deadline /\ answers' = answers
    BY DEF Lim!Tick
  <1>2. /\ now \in 0..LimitTime /\ deadline \in Nat /\ count \in Nat
        /\ answers \in Seq([at : 0..LimitTime, ok : BOOLEAN, by : {"limit", "error"}])
    BY <1>0, LimitConstants DEF Lim!TypeOK
  <1>3. \A i \in DOMAIN answers : answers[i].at \in 0..LimitTime
    BY <1>2, AnswerType
  <1>4. Lim!TypeOK' /\ IsFiniteSet(scores')
    BY <1>0, <1>1, LimitConstants, FS_EmptySet DEF Lim!TypeOK
  <1>5. AnswersOrdered'
    BY <1>0, <1>1, <1>2, <1>3 DEF AnswersOrdered
  <1>6. Lim!LimitHonest'
    BY <1>0, <1>1 DEF Lim!LimitHonest, Lim!Admitted
  <1>7. ASSUME limit = "sliding" PROVE MembersHonest'
    <2>1. MembersHonest
      BY <1>0, <1>7
    <2>2. ASSUME deadline = now', NEW i \in DOMAIN answers, answers[i].ok,
                 now' < answers[i].at + Window - Skew
          PROVE  FALSE
      BY <1>0, <1>2, <1>3, <2>1, <2>2, LimitConstants DEF MembersHonest, AnswersOrdered
    <2>3. CASE deadline = now'
      BY <1>1, <2>1, <2>2, <2>3 DEF MembersHonest
    <2>4. CASE deadline # now'
      <3>1. \A i \in DOMAIN answers : now' < answers[i].at + Window - Skew
                                        => now < answers[i].at + Window - Skew
        BY <1>1, <1>2, <1>3, LimitConstants
      <3> QED
        BY <1>1, <2>1, <2>4, <3>1 DEF MembersHonest
    <2> QED
      BY <2>3, <2>4
  <1>8. ASSUME limit = "fixed" PROVE CounterHonest'
    BY <1>0, <1>1, <1>2, <1>8 DEF CounterHonest, Since, Lim!Admitted
  <1> QED
    BY <1>0, <1>1, <1>4, <1>5, <1>6, <1>7, <1>8 DEF LimitInv


(* What the history promises of the number of requests carries over when   *)
(* one more is admitted: in each window that holds now, there are no more  *)
(* than allowed with it.                                                   *)
LEMMA AdmittedCarries ==
  ASSUME Lim!TypeOK, AnswersOrdered, Lim!LimitHonest, limit' = limit, now' = now,
         NEW ok \in BOOLEAN, NEW asked \in {"limit", "error"}, ok => asked = "limit",
         Lim!Answer(ok, asked),
         \A t \in 0..LimitTime :
           ok /\ t =< now =>
             /\ limit = "sliding" /\ now < t + Window - Skew =>
                  Cardinality(Lim!Admitted(t, t + Window - Skew)') =< Max
             /\ limit = "fixed" /\ now < t + Window =>
                  Cardinality(Lim!Admitted(t, t + Window)') =< 2 * Max,
         asked = "limit" /\ answers # <<>>
           /\ now - answers[Len(answers)].at >= Window + (IF limit = "sliding" THEN Skew ELSE 0) => ok
  PROVE  Lim!LimitHonest'
  <1>1. /\ DOMAIN answers = 1..Len(answers) /\ Len(answers) \in Nat
        /\ Len(answers') = Len(answers) + 1 /\ DOMAIN answers' = 1..(Len(answers) + 1)
        /\ \A i \in DOMAIN answers : answers'[i] = answers[i]
        /\ answers'[Len(answers) + 1] = [at |-> now, ok |-> ok, by |-> asked]
    BY Answered, AnswerType DEF Lim!TypeOK
  <1>2. \A a, b \in Int : ~(ok /\ a =< now /\ now < b) => Lim!Admitted(a, b)' = Lim!Admitted(a, b)
    BY Answered
  <1>3. ASSUME NEW t \in 0..LimitTime, limit = "sliding"
        PROVE  Lim!Cardinality(Lim!Admitted(t, t + Window - Skew)') =< Max
    <2>0. t \in Int /\ t + Window - Skew \in Int
      BY LimitConstants
    <2>1. CASE ok /\ t =< now /\ now < t + Window - Skew
      <3>1. Cardinality(Lim!Admitted(t, t + Window - Skew)') =< Max
        BY <1>3, <2>1
      <3> QED
        BY <3>1, LimitCardinality, Zenon
    <2>2. CASE ~(ok /\ t =< now /\ now < t + Window - Skew)
      <3>1. Lim!Admitted(t, t + Window - Skew)' = Lim!Admitted(t, t + Window - Skew)
        BY <1>2, <2>0, <2>2
      <3>2. Lim!Cardinality(Lim!Admitted(t, t + Window - Skew)) =< Max
        BY <1>3, Zenon DEF Lim!LimitHonest
      <3> QED
        BY <3>1, <3>2, Zenon
    <2> QED
      BY <2>1, <2>2
  <1>4. ASSUME NEW t \in 0..LimitTime, limit = "fixed"
        PROVE  Lim!Cardinality(Lim!Admitted(t, t + Window)') =< 2 * Max
    <2>0. t \in Int /\ t + Window \in Int
      BY LimitConstants
    <2>1. CASE ok /\ t =< now /\ now < t + Window
      <3>1. Cardinality(Lim!Admitted(t, t + Window)') =< 2 * Max
        BY <1>4, <2>1
      <3> QED
        BY <3>1, LimitCardinality, Zenon
    <2>2. CASE ~(ok /\ t =< now /\ now < t + Window)
      <3>1. Lim!Admitted(t, t + Window)' = Lim!Admitted(t, t + Window)
        BY <1>2, <2>0, <2>2
      <3>2. Lim!Cardinality(Lim!Admitted(t, t + Window)) =< 2 * Max
        BY <1>4, Zenon DEF Lim!LimitHonest
      <3> QED
        BY <3>1, <3>2, Zenon
    <2> QED
      BY <2>1, <2>2
  <1>5. ASSUME NEW i \in 2..Len(answers'), answers'[i].by = "limit",
               answers'[i].at - answers'[i - 1].at >= Window + (IF limit = "sliding" THEN Skew ELSE 0)
        PROVE  answers'[i].ok
    <2>0. i \in Nat /\ i - 1 \in DOMAIN answers /\ answers'[i - 1] = answers[i - 1]
      BY <1>1
    <2>1. CASE i = Len(answers) + 1
      <3>1. answers # <<>> /\ i - 1 = Len(answers)
        BY <1>1, <2>0, <2>1
      <3>2. answers'[i].at = now /\ answers'[i].ok = ok /\ answers'[i].by = asked
        BY <1>1, <2>1
      <3>3. ok
        BY <1>5, <2>0, <3>1, <3>2
      <3> QED
        BY <3>2, <3>3, Zenon
    <2>2. CASE i # Len(answers) + 1
      <3>1. i \in 2..Len(answers) /\ answers'[i] = answers[i]
        BY <1>1, <2>2
      <3> QED
        BY <1>5, <2>0, <3>1 DEF Lim!LimitHonest
    <2> QED
      BY <2>1, <2>2
  <1> QED
    BY <1>3, <1>4, <1>5, Zenon DEF Lim!LimitHonest


(* The last request was not made later than now.                           *)
LEMMA LastAnswer ==
  ASSUME Lim!TypeOK, AnswersOrdered, answers # <<>>
  PROVE  /\ Len(answers) \in DOMAIN answers /\ answers[Len(answers)].at \in Nat
         /\ answers[Len(answers)].at =< now
         /\ \A i \in DOMAIN answers : answers[i].at =< answers[Len(answers)].at
  <1>1. /\ DOMAIN answers = 1..Len(answers) /\ Len(answers) \in Nat
        /\ \A i \in DOMAIN answers : answers[i].at \in 0..LimitTime
    BY AnswerType DEF Lim!TypeOK
  <1>2. Len(answers) # 0
    BY DEF Lim!TypeOK
  <1>3. Len(answers) \in DOMAIN answers
    BY <1>1, <1>2
  <1>4. \A i \in DOMAIN answers : i = Len(answers) \/ i < Len(answers)
    BY <1>1
  <1> QED
    BY <1>1, <1>3, <1>4, LimitConstants DEF AnswersOrdered

(* Redis cannot be reached.                                                *)
LEMMA LimitRedisError ==
  ASSUME LimitInv, focus = "rate_limit", focus' = focus, Lim!RedisError PROVE LimitInv'
  <1>0. /\ Lim!TypeOK /\ IsFiniteSet(scores) /\ AnswersOrdered /\ Lim!LimitHonest
        /\ limit = "sliding" => MembersHonest
        /\ limit = "fixed" => CounterHonest
    BY DEF LimitInv
  <1>1. /\ Lim!Answer(FALSE, "error") /\ limit' = limit /\ now' = now /\ scores' = scores
        /\ count' = count /\ deadline' = deadline
    BY DEF Lim!RedisError
  <1>2. /\ answers' \in Seq([at : 0..LimitTime, ok : BOOLEAN, by : {"limit", "error"}])
        /\ Len(answers') = Len(answers) + 1 /\ DOMAIN answers' = 1..(Len(answers) + 1)
        /\ DOMAIN answers = 1..Len(answers)
        /\ \A i \in DOMAIN answers : answers'[i] = answers[i]
        /\ answers'[Len(answers) + 1] = [at |-> now, ok |-> FALSE, by |-> "error"]
        /\ AnswersOrdered'
        /\ \A a, b \in Int : /\ Lim!Admitted(a, b)' = Lim!Admitted(a, b)
                             /\ Since(a)' = Since(a)
    BY <1>0, <1>1, Answered
  <1>3. /\ now \in 0..LimitTime /\ deadline \in Nat /\ count \in Nat /\ Len(answers) \in Nat
        /\ \A i \in DOMAIN answers : answers[i].at \in 0..LimitTime
    BY <1>0, AnswerType, LimitConstants DEF Lim!TypeOK
  <1>4. Lim!TypeOK'
    <2>1. DOMAIN answers \subseteq DOMAIN answers'
      BY <1>2, <1>3
    <2>2. scores \subseteq [request : DOMAIN answers', score : 0..(LimitTime + Skew)]
      BY <1>0, <2>1 DEF Lim!TypeOK
    <2> QED
      BY <1>0, <1>1, <1>2, <2>2 DEF Lim!TypeOK
  <1>5. Lim!LimitHonest'
    BY <1>0, <1>1, AdmittedCarries
  <1>6. ASSUME limit = "sliding" PROVE MembersHonest'
    <2>1. MembersHonest /\ \A m \in scores : m.request \in DOMAIN answers
      BY <1>0, <1>6 DEF Lim!TypeOK
    <2>2. \A i \in DOMAIN answers' : i \in DOMAIN answers \/ i = Len(answers) + 1
      BY <1>2, <1>3
    <2> QED
      BY <1>1, <1>2, <2>1, <2>2, SMTT(30) DEF MembersHonest
  <1>7. ASSUME limit = "fixed" PROVE CounterHonest'
    <2>1. CounterHonest
      BY <1>0, <1>7
    <2>2. PICK d \in Int : d = deadline - Window
      BY <1>3, LimitConstants
    <2>3. Since(d)' = Since(d) /\ \A t \in 0..LimitTime : Lim!Admitted(t, d)' = Lim!Admitted(t, d)
      BY <1>2, <2>2
    <2>4. ASSUME count > 0
          PROVE  now < deadline /\ answers' # <<>> /\ deadline =< answers'[Len(answers')].at + Window
      <3>1. answers # <<>> /\ deadline =< answers[Len(answers)].at + Window /\ now < deadline
        BY <2>1, <2>4 DEF CounterHonest
      <3>2. answers[Len(answers)].at \in Nat /\ answers[Len(answers)].at =< now
        BY <1>0, <3>1, LastAnswer
      <3>3. answers'[Len(answers')].at = now /\ answers' # <<>>
        BY <1>2, <1>3
      <3> QED
        BY <1>3, <3>1, <3>2, <3>3, LimitConstants
    <2>5. \A i \in DOMAIN answers' : answers'[i].ok => answers'[i].at < deadline
      <3>1. \A i \in DOMAIN answers' : i \in DOMAIN answers \/ i = Len(answers) + 1
        BY <1>2, <1>3
      <3> QED
        BY <1>2, <2>1, <3>1 DEF CounterHonest
    <2> QED
      <3>1. count =< 2 * Len(answers')
        BY <1>2, <1>3, <2>1 DEF CounterHonest
      <3> QED
        BY <1>1, <2>1, <2>2, <2>3, <2>4, <2>5, <3>1 DEF CounterHonest, Since, Lim!Admitted
  <1> QED
    BY <1>0, <1>1, <1>2, <1>4, <1>5, <1>6, <1>7 DEF LimitInv

(* The sliding window: whoever was admitted in the last Window - Skew is   *)
(* counted, and nobody is whose last request is Window + Skew ago.         *)
LEMMA LimitCheck ==
  ASSUME LimitInv, focus = "rate_limit", focus' = focus, Lim!CheckRateLimit PROVE LimitInv'
  <1>0. /\ Lim!TypeOK /\ IsFiniteSet(scores) /\ AnswersOrdered /\ Lim!LimitHonest
        /\ limit = "sliding" /\ MembersHonest
    BY DEF LimitInv, Lim!CheckRateLimit
  <1>1. PICK t \in now..(now + Skew) :
          /\ scores' = Lim!Counted(t)
          /\ Lim!Answer(Lim!Cardinality(Lim!Counted(t)) =< Max, "limit")
    BY DEF Lim!CheckRateLimit
  <1>2. limit' = limit /\ now' = now /\ count' = count /\ deadline' = now + Window + 1
    BY DEF Lim!CheckRateLimit
  <1>3. /\ now \in 0..LimitTime /\ deadline \in Nat /\ count \in Nat /\ Len(answers) \in Nat
        /\ \A i \in DOMAIN answers : answers[i].at \in 0..LimitTime
        /\ answers \in Seq([at : 0..LimitTime, ok : BOOLEAN, by : {"limit", "error"}])
    BY <1>0, AnswerType, LimitConstants DEF Lim!TypeOK
  <1>18. t \in Nat /\ now =< t /\ t =< now + Skew
    BY <1>1, <1>3, LimitConstants
  <1> DEFINE new == [request |-> Len(answers) + 1, score |-> t]
  <1>4. PICK C : C = Lim!Counted(t)
    OBVIOUS
  <1>5. C = {m \in scores \cup {new} : m.score > t - Window}
    BY <1>4 DEF Lim!Counted
  <1>6. IsFiniteSet(C) /\ C \subseteq scores \cup {new}
    <2>1. IsFiniteSet(scores \cup {new})
      BY <1>0, FS_AddElement
    <2>2. C \in SUBSET (scores \cup {new})
      BY <1>5
    <2> QED
      BY <2>1, <2>2, FS_Subset
  <1>9. PICK ok \in BOOLEAN : ok = (Cardinality(C) =< Max)
    <2>1. Cardinality(C) \in Nat
      BY <1>6, FS_CardinalityType
    <2>2. (Cardinality(C) =< Max) \in BOOLEAN
      BY <2>1, LimitConstants
    <2> QED
      BY <2>2, Zenon
  <1>7. Lim!Answer(ok, "limit")
    <2>1. Lim!Cardinality(Lim!Counted(t)) = Cardinality(C)
      BY <1>4, LimitCardinality, Zenon
    <2> QED
      BY <1>1, <1>9, <2>1, Zenon
  <1>8. /\ answers' \in Seq([at : 0..LimitTime, ok : BOOLEAN, by : {"limit", "error"}])
        /\ Len(answers') = Len(answers) + 1 /\ DOMAIN answers' = 1..(Len(answers) + 1)
        /\ DOMAIN answers = 1..Len(answers)
        /\ \A i \in DOMAIN answers : answers'[i] = answers[i]
        /\ answers'[Len(answers) + 1] = [at |-> now, ok |-> ok, by |-> "limit"]
        /\ AnswersOrdered'
        /\ \A a, b \in Int :
             Lim!Admitted(a, b)' = IF ok /\ a =< now /\ now < b
                                   THEN Lim!Admitted(a, b) \cup {Len(answers) + 1}
                                   ELSE Lim!Admitted(a, b)
    BY <1>0, <1>2, <1>7, Answered
  <1>10. new \in C
    BY <1>5, <1>18, LimitConstants
  <1>11. \A m \in scores : m.request \in DOMAIN answers /\ m.score \in 0..(LimitTime + Skew)
    BY <1>0 DEF Lim!TypeOK
  <1>12. Lim!TypeOK'
    <2>1. DOMAIN answers \subseteq DOMAIN answers' /\ Len(answers) + 1 \in DOMAIN answers'
      BY <1>3, <1>8
    <2>2. new \in [request : DOMAIN answers', score : 0..(LimitTime + Skew)]
      BY <1>3, <2>1, LimitConstants
    <2>3. scores \subseteq [request : DOMAIN answers', score : 0..(LimitTime + Skew)]
      BY <1>0, <2>1 DEF Lim!TypeOK
    <2>4. C \subseteq [request : DOMAIN answers', score : 0..(LimitTime + Skew)]
      BY <1>6, <2>2, <2>3
    <2>5. deadline' \in 0..(LimitTime + Window + 1)
      BY <1>2, <1>3, LimitConstants
    <2> QED
      BY <1>0, <1>1, <1>2, <1>4, <1>8, <2>4, <2>5 DEF Lim!TypeOK
  <1>13. ASSUME NEW i \in DOMAIN answers, answers[i].ok, now < answers[i].at + Window - Skew
         PROVE  \E m \in C : m.request = i
    <2>1. PICK m \in scores : m.request = i
      BY <1>0, <1>13 DEF MembersHonest
    <2>2. answers[i].at =< m.score /\ m.score \in Nat
      BY <1>0, <1>11, <2>1, LimitConstants DEF MembersHonest
    <2>3. PICK x \in Nat : x = answers[i].at
      BY <1>3, LimitConstants
    <2>4. PICK y \in Nat : y = m.score
      BY <2>2
    <2>5. y > t - Window
      <3>1. x =< y /\ now < x + Window - Skew /\ now \in Nat
        BY <1>3, <1>13, <2>2, <2>3, <2>4
      <3> QED
        BY <1>18, <2>3, <2>4, <3>1, LimitConstants
    <2> QED
      BY <1>5, <2>1, <2>4, <2>5
  <1>14. MembersHonest'
    <2>1. ASSUME NEW m \in C
          PROVE  /\ answers'[m.request].by = "limit"
                 /\ answers'[m.request].at =< m.score
                 /\ m.score =< answers'[m.request].at + Skew
      <3>1. CASE m = new
        BY <1>3, <1>8, <1>18, <3>1, LimitConstants
      <3>2. CASE m \in scores
        BY <1>0, <1>8, <1>11, <3>2 DEF MembersHonest
      <3> QED
        BY <1>6, <3>1, <3>2
    <2>2. \A i \in DOMAIN answers' : i \in DOMAIN answers \/ i = Len(answers) + 1
      BY <1>3, <1>8
    <2>3. ASSUME NEW i \in DOMAIN answers', answers'[i].ok, now' < answers'[i].at + Window - Skew
          PROVE  \E m \in C : m.request = i
      <3>1. CASE i = Len(answers) + 1
        BY <1>10, <3>1
      <3>2. CASE i \in DOMAIN answers
        BY <1>2, <1>8, <1>13, <2>3, <3>2
      <3> QED
        BY <2>2, <3>1, <3>2
    <2>4. ASSUME NEW i \in DOMAIN answers'
          PROVE  answers'[i].at + Window < deadline'
      <3>1. CASE i = Len(answers) + 1
        BY <1>2, <1>3, <1>8, <3>1, LimitConstants
      <3>2. CASE i \in DOMAIN answers
        <4>1. PICK x \in Nat : x = answers[i].at
          BY <1>3, <3>2, LimitConstants
        <4>2. x =< now /\ answers'[i].at = x
          BY <1>0, <1>8, <3>2, <4>1 DEF AnswersOrdered
        <4>3. x + Window < now + Window + 1
          <5>1. now \in Nat /\ Window \in Nat
            BY <1>3, LimitConstants
          <5> QED
            BY <4>1, <4>2, <5>1
        <4> QED
          BY <1>2, <4>2, <4>3, Zenon
      <3> QED
        BY <2>2, <3>1, <3>2
    <2> QED
      BY <1>1, <1>4, <2>1, <2>3, <2>4, Zenon DEF MembersHonest
  <1>15. ASSUME NEW a \in 0..LimitTime, ok, a =< now, now < a + Window - Skew
         PROVE  Cardinality(Lim!Admitted(a, a + Window - Skew)') =< Max
    <2>0. a \in Int /\ a + Window - Skew \in Int
      BY LimitConstants
    <2>1. Lim!Admitted(a, a + Window - Skew)' = Lim!Admitted(a, a + Window - Skew) \cup {Len(answers) + 1}
      BY <1>8, <1>15, <2>0
    <2>2. ASSUME NEW i \in Lim!Admitted(a, a + Window - Skew)'
          PROVE  \E m \in C : m.request = i
      <3>1. CASE i = Len(answers) + 1
        BY <1>10, <3>1
      <3>2. CASE i \in Lim!Admitted(a, a + Window - Skew)
        <4>1. i \in DOMAIN answers /\ answers[i].ok /\ a =< answers[i].at
          BY <3>2 DEF Lim!Admitted
        <4>2. now < answers[i].at + Window - Skew
          BY <1>3, <1>15, <4>1, LimitConstants
        <4> QED
          BY <1>13, <4>1, <4>2
      <3> QED
        BY <2>1, <2>2, <3>1, <3>2
    <2>3. PICK A : A = Lim!Admitted(a, a + Window - Skew)'
      OBVIOUS
    <2>4. IsFiniteSet(A) /\ Cardinality(A) =< Cardinality(C)
      BY <1>6, <2>2, <2>3, RequestsOfMembers
    <2>5. Cardinality(A) \in Nat /\ Cardinality(C) \in Nat
      BY <1>6, <2>4, FS_CardinalityType
    <2>6. Cardinality(C) =< Max
      BY <1>9, <1>15
    <2> QED
      BY <2>3, <2>4, <2>5, <2>6, LimitConstants
  <1>16. ASSUME answers # <<>>, now - answers[Len(answers)].at >= Window + Skew
         PROVE  ok
    <2>1. /\ answers[Len(answers)].at \in Nat
          /\ \A i \in DOMAIN answers : answers[i].at =< answers[Len(answers)].at
      BY <1>0, <1>16, LastAnswer
    <2>2. ASSUME NEW m \in scores PROVE ~(m.score > t - Window)
      <3>1. m.request \in DOMAIN answers /\ m.score \in Nat /\ m.score =< answers[m.request].at + Skew
        BY <1>0, <1>11, LimitConstants DEF MembersHonest
      <3>2. answers[m.request].at \in Nat /\ answers[m.request].at =< answers[Len(answers)].at
        BY <1>3, <2>1, <3>1, LimitConstants
      <3>3. PICK x \in Nat : x = answers[m.request].at
        BY <3>2
      <3>4. PICK y \in Nat : y = m.score
        BY <3>1
      <3>5. PICK z \in Nat : z = answers[Len(answers)].at
        BY <2>1
      <3>6. y =< x + Skew /\ x =< z /\ now - z >= Window + Skew /\ now \in Nat
        BY <1>3, <1>16, <3>1, <3>2, <3>3, <3>4, <3>5
      <3>7. ~(y > t - Window)
        <4>1. y + Window =< now
          <5>1. \A n, a, b, c, w, k \in Nat : a =< b + k /\ b =< c /\ n - c >= w + k => a + w =< n
            OBVIOUS
          <5> QED
            BY <3>3, <3>4, <3>5, <3>6, <5>1, LimitConstants
        <4> QED
          BY <1>18, <3>4, <3>6, <4>1, LimitConstants
      <3> QED
        BY <3>4, <3>7
    <2>3. C = {new}
      BY <1>5, <1>10, <2>2
    <2>4. Cardinality(C) = 1
      BY <2>3, FS_Singleton
    <2> QED
      <3>1. Cardinality(C) =< Max
        BY <2>4, LimitConstants
      <3> QED
        BY <1>9, <3>1, Zenon
  <1>17. Lim!LimitHonest'
    BY <1>0, <1>2, <1>7, <1>15, <1>16, AdmittedCarries
  <1> QED
    BY <1>0, <1>1, <1>2, <1>4, <1>8, <1>6, <1>12, <1>14, <1>17 DEF LimitInv

(* The fixed window: requests of one life of the counter are no more than  *)
(* it counts, and no window meets more than two lives.                     *)
LEMMA LimitAllow ==
  ASSUME LimitInv, focus = "rate_limit", focus' = focus, Lim!Allow PROVE LimitInv'
  <1>0. /\ Lim!TypeOK /\ IsFiniteSet(scores) /\ AnswersOrdered /\ Lim!LimitHonest
        /\ limit = "fixed" /\ CounterHonest
    BY DEF LimitInv, Lim!Allow
  <1>1. PICK n \in {1, 2} : Lim!IncrWithTtl(n) /\ Lim!Answer(count + n =< Max, "limit")
    BY DEF Lim!Allow
  <1>2. /\ limit' = limit /\ now' = now /\ scores' = scores
        /\ count' = count + n /\ deadline' = IF count = 0 THEN now + Window ELSE deadline
    BY <1>1 DEF Lim!Allow, Lim!IncrWithTtl
  <1>3. /\ now \in 0..LimitTime /\ deadline \in 0..(LimitTime + Window + 1) /\ count \in 0..(2 * LimitRequests)
        /\ Len(answers) \in Nat
        /\ \A i \in DOMAIN answers : answers[i].at \in 0..LimitTime
        /\ answers \in Seq([at : 0..LimitTime, ok : BOOLEAN, by : {"limit", "error"}])
    BY <1>0, AnswerType, LimitConstants DEF Lim!TypeOK
  <1>4. PICK ok \in BOOLEAN : ok = (count + n =< Max)
    <2>1. (count + n =< Max) \in BOOLEAN
      BY <1>3, LimitConstants
    <2> QED
      BY <2>1, Zenon
  <1>5. Lim!Answer(ok, "limit")
    BY <1>1, <1>4, Zenon
  <1>6. /\ answers' \in Seq([at : 0..LimitTime, ok : BOOLEAN, by : {"limit", "error"}])
        /\ Len(answers') = Len(answers) + 1 /\ DOMAIN answers' = 1..(Len(answers) + 1)
        /\ DOMAIN answers = 1..Len(answers)
        /\ \A i \in DOMAIN answers : answers'[i] = answers[i]
        /\ answers'[Len(answers) + 1] = [at |-> now, ok |-> ok, by |-> "limit"]
        /\ AnswersOrdered'
        /\ \A a, b \in Int :
             /\ Lim!Admitted(a, b)' = IF ok /\ a =< now /\ now < b
                                      THEN Lim!Admitted(a, b) \cup {Len(answers) + 1}
                                      ELSE Lim!Admitted(a, b)
             /\ Since(a)' = IF ok /\ a =< now THEN Since(a) \cup {Len(answers) + 1} ELSE Since(a)
    BY <1>0, <1>2, <1>5, Answered
  <1>7. PICK c \in Nat : c = count
    BY <1>3, LimitConstants
  <1>8. PICK st \in Int : st = deadline - Window
    BY <1>3, LimitConstants
  <1>9. PICK new \in Int : new = deadline' - Window
    BY <1>2, <1>3, LimitConstants
  <1>10. c + n =< Max \/ ~ok
    BY <1>4, <1>7
  <1>11. now < deadline' /\ deadline' =< now + Window /\ new =< now
    <2>1. CASE count = 0
      BY <1>2, <1>3, <1>9, <2>1, LimitConstants
    <2>2. CASE count # 0
      <3>1. answers # <<>> /\ deadline =< answers[Len(answers)].at + Window /\ now < deadline
        BY <1>0, <1>3, <2>2 DEF CounterHonest
      <3>2. answers[Len(answers)].at \in Nat /\ answers[Len(answers)].at =< now
        BY <1>0, <3>1, LastAnswer
      <3> QED
        BY <1>2, <1>3, <1>9, <2>2, <3>1, <3>2, LimitConstants
    <2> QED
      BY <2>1, <2>2
  <1>12. Lim!TypeOK'
    <2>1. DOMAIN answers \subseteq DOMAIN answers'
      BY <1>3, <1>6
    <2>2. scores \subseteq [request : DOMAIN answers', score : 0..(LimitTime + Skew)]
      BY <1>0, <2>1 DEF Lim!TypeOK
    <2>3. deadline' \in 0..(LimitTime + Window + 1)
      BY <1>2, <1>3, LimitConstants
    <2>4. count' \in 0..(2 * LimitRequests)
      <3>1. Len(answers) < LimitRequests
        BY <1>5 DEF Lim!Answer
      <3>2. c =< 2 * Len(answers)
        BY <1>0, <1>7 DEF CounterHonest
      <3> QED
        BY <1>2, <1>3, <1>7, <3>1, <3>2, LimitConstants
    <2> QED
      BY <1>0, <1>2, <1>6, <2>2, <2>3, <2>4 DEF Lim!TypeOK
  <1>13. /\ c > 0 => Cardinality(Since(st)) =< c
         /\ Cardinality(Since(st)) =< Max
         /\ \A t \in 0..LimitTime : st < t + Window => Cardinality(Lim!Admitted(t, st)) =< Max
         /\ \A i \in DOMAIN answers : answers[i].ok => answers[i].at < deadline
         /\ c = 0 => deadline =< now
    BY <1>0, <1>7, <1>8 DEF CounterHonest
  <1>14. IsFiniteSet(Since(st)) /\ Cardinality(Since(st)) \in Nat
    BY <1>0, AdmittedFinite
  <1>15. Cardinality(Since(new)') =< Max /\ Cardinality(Since(new)') =< c + n
    <2>1. CASE c = 0
      <3>1. new = now
        BY <1>2, <1>3, <1>7, <1>9, <2>1, LimitConstants
      <3>2. ASSUME NEW i \in Since(new) PROVE FALSE
        <4>1. i \in DOMAIN answers /\ answers[i].ok /\ now =< answers[i].at
          BY <3>1, <3>2 DEF Since
        <4> QED
          BY <1>3, <1>13, <2>1, <4>1, LimitConstants
      <3>3. Since(new) = {}
        BY <3>2
      <3>4. CASE ok
        <4>1. Since(new)' = {Len(answers) + 1}
          BY <1>6, <1>11, <3>3, <3>4
        <4>2. Cardinality({Len(answers) + 1}) = 1
          BY FS_Singleton
        <4> QED
          BY <2>1, <4>1, <4>2, LimitConstants
      <3>5. CASE ~ok
        <4>1. Since(new)' = {}
          BY <1>6, <1>11, <3>3, <3>5
        <4>2. Cardinality({}) = 0
          BY FS_EmptySet
        <4> QED
          BY <2>1, <4>1, <4>2, LimitConstants
      <3> QED
        BY <3>4, <3>5
    <2>2. CASE c # 0
      <3>1. new = st
        BY <1>2, <1>7, <1>8, <1>9, <2>2
      <3>2. CASE ok
        <4>1. Since(new)' = Since(st) \cup {Len(answers) + 1}
          BY <1>6, <1>11, <3>1, <3>2
        <4>2. Cardinality(Since(st) \cup {Len(answers) + 1}) =< Cardinality(Since(st)) + 1
          <5>1. \/ Cardinality(Since(st) \cup {Len(answers) + 1}) = Cardinality(Since(st))
                \/ Cardinality(Since(st) \cup {Len(answers) + 1}) = Cardinality(Since(st)) + 1
            BY <1>14, FS_AddElement, Zenon
          <5> QED
            BY <1>14, <5>1
        <4>3. Cardinality(Since(st) \cup {Len(answers) + 1}) \in Nat
          BY <1>14, FS_AddElement, FS_CardinalityType
        <4>4. Cardinality(Since(st)) =< c /\ c + n =< Max
          BY <1>10, <1>13, <2>2, <3>2
        <4> QED
          BY <1>14, <4>1, <4>2, <4>3, <4>4, LimitConstants
      <3>3. CASE ~ok
        <4>1. Since(new)' = Since(st)
          BY <1>6, <1>11, <3>1, <3>3
        <4> QED
          BY <1>13, <1>14, <2>2, <4>1, LimitConstants
      <3> QED
        BY <3>2, <3>3
    <2> QED
      BY <2>1, <2>2
  <1>16. ASSUME NEW t \in 0..LimitTime, new < t + Window
         PROVE  Cardinality(Lim!Admitted(t, new)') =< Max
    <2>1. Lim!Admitted(t, new)' = Lim!Admitted(t, new)
      BY <1>3, <1>6, <1>11, LimitConstants
    <2>2. CASE c = 0
      <3>1. new = now /\ st =< t
        BY <1>2, <1>3, <1>7, <1>8, <1>9, <1>13, <1>16, <2>2, LimitConstants
      <3>2. Lim!Admitted(t, new) \in SUBSET Since(st)
        BY <1>3, <3>1, LimitConstants DEF Lim!Admitted, Since
      <3>3. Cardinality(Lim!Admitted(t, new)) =< Cardinality(Since(st))
        BY <1>14, <3>2, FS_Subset
      <3>4. Cardinality(Lim!Admitted(t, new)) \in Nat
        BY <1>14, <3>2, FS_Subset, FS_CardinalityType
      <3> QED
        BY <1>13, <1>14, <2>1, <3>3, <3>4, LimitConstants
    <2>3. CASE c # 0
      <3>1. new = st
        BY <1>2, <1>7, <1>8, <1>9, <2>3
      <3> QED
        BY <1>13, <1>16, <2>1, <3>1
    <2> QED
      BY <2>2, <2>3
  <1>17. ASSUME NEW t \in 0..LimitTime, t =< now, now < t + Window
         PROVE  Cardinality(Lim!Admitted(t, t + Window)') =< 2 * Max
    <2>1. new < t + Window /\ t + Window \in Int
      BY <1>3, <1>11, <1>17, LimitConstants
    <2>2. PICK S : S = Lim!Admitted(t, new)'
      OBVIOUS
    <2>3. PICK T : T = Since(new)'
      OBVIOUS
    <2>4. PICK U : U = Lim!Admitted(t, t + Window)'
      OBVIOUS
    <2>5. U \subseteq S \cup T
      <3>1. \A i \in DOMAIN answers' : answers'[i].at \in Int
        <4>1. \A i \in DOMAIN answers' : i = Len(answers) + 1 \/ i \in DOMAIN answers
          BY <1>3, <1>6
        <4>2. answers'[Len(answers) + 1].at \in Int
          BY <1>3, <1>6, LimitConstants
        <4>3. \A i \in DOMAIN answers : answers'[i].at \in Int
          BY <1>3, <1>6, LimitConstants
        <4> QED
          BY <4>1, <4>2, <4>3
      <3> QED
        BY <2>1, <2>2, <2>3, <2>4, <3>1, LimitConstants DEF Lim!Admitted, Since
    <2>6. S \subseteq DOMAIN answers' /\ T \subseteq DOMAIN answers'
      BY <2>2, <2>3 DEF Lim!Admitted, Since
    <2>7. IsFiniteSet(1..(Len(answers) + 1))
      <3>1. Len(answers) + 1 \in Int /\ 1 \in Int
        BY <1>3
      <3> QED
        BY <3>1, FS_Interval
    <2>8. IsFiniteSet(S) /\ IsFiniteSet(T)
      BY <1>6, <2>6, <2>7, FS_Subset
    <2>9. Cardinality(U) =< Cardinality(S) + Cardinality(T)
      BY <2>5, <2>8, AtMostBoth
    <2>10. Cardinality(S) =< Max /\ Cardinality(T) =< Max
      BY <1>15, <1>16, <2>1, <2>2, <2>3
    <2>11. /\ Cardinality(S) \in Nat /\ Cardinality(T) \in Nat /\ Cardinality(U) \in Nat
      <3>1. IsFiniteSet(S \cup T)
        BY <2>8, FS_Union
      <3>2. IsFiniteSet(U)
        BY <2>5, <3>1, FS_Subset
      <3> QED
        BY <2>8, <3>2, FS_CardinalityType
    <2> QED
      BY <2>4, <2>9, <2>10, <2>11, LimitConstants
  <1>18. ASSUME answers # <<>>, now - answers[Len(answers)].at >= Window
         PROVE  ok
    <2>1. PICK x \in Nat : x = answers[Len(answers)].at
      BY <1>0, <1>18, LastAnswer
    <2>2. c = 0
      <3>1. c > 0 => now < deadline /\ deadline =< x + Window
        BY <1>0, <1>7, <2>1 DEF CounterHonest
      <3>2. now - x >= Window
        BY <1>18, <2>1
      <3> QED
        BY <1>3, <2>1, <3>1, <3>2, LimitConstants
    <2>3. count + n =< Max
      BY <1>7, <2>2, LimitConstants
    <2> QED
      BY <1>4, <2>3, Zenon
  <1>19. Lim!LimitHonest'
    <2>1. limit # "sliding"
      BY <1>0
    <2>3. \A t \in 0..LimitTime :
            ok /\ t =< now =>
              /\ limit = "sliding" /\ now < t + Window - Skew =>
                   Cardinality(Lim!Admitted(t, t + Window - Skew)') =< Max
              /\ limit = "fixed" /\ now < t + Window =>
                   Cardinality(Lim!Admitted(t, t + Window)') =< 2 * Max
      BY <1>17, <2>1
    <2>4. answers # <<>>
            /\ now - answers[Len(answers)].at >= Window + (IF limit = "sliding" THEN Skew ELSE 0) => ok
      BY <1>18, <2>1, LimitConstants
    <2> QED
      BY <1>0, <1>2, <1>5, <2>3, <2>4, AdmittedCarries
  <1>20. CounterHonest'
    <2>1. count' > 0 /\ answers' # <<>> /\ answers'[Len(answers')].at = now
      BY <1>2, <1>3, <1>6, LimitConstants
    <2>2. ASSUME NEW i \in DOMAIN answers', answers'[i].ok PROVE answers'[i].at < deadline'
      <3>1. CASE i = Len(answers) + 1
        BY <1>6, <1>11, <3>1
      <3>2. CASE i \in DOMAIN answers
        <4>1. PICK x \in Nat : x = answers[i].at
          BY <1>3, <3>2, LimitConstants
        <4>2. x < deadline /\ answers'[i].at = x
          BY <1>6, <1>13, <2>2, <3>2, <4>1
        <4>3. deadline =< deadline'
          BY <1>2, <1>3, <1>7, <1>11, <1>13, LimitConstants
        <4> QED
          BY <1>2, <1>3, <4>1, <4>2, <4>3, LimitConstants
      <3> QED
        BY <1>3, <1>6, <3>1, <3>2
    <2>3. count' =< 2 * Len(answers')
      BY <1>0, <1>2, <1>3, <1>6, LimitConstants DEF CounterHonest
    <2>4. now' < deadline' /\ deadline' =< answers'[Len(answers')].at + Window
      BY <1>2, <1>11, <2>1
    <2>5. PICK S : S = Since(new)'
      OBVIOUS
    <2>6. S = {i \in DOMAIN answers' : answers'[i].ok /\ deadline' - Window =< answers'[i].at}
      BY <1>9, <2>5 DEF Since
    <2>7. Cardinality(S) =< count' /\ Cardinality(S) =< Max
      BY <1>2, <1>7, <1>15, <2>5
    <2>8. ASSUME NEW t \in 0..LimitTime, deadline' - Window < t + Window
          PROVE  Cardinality({i \in DOMAIN answers' : /\ answers'[i].ok /\ t =< answers'[i].at
                                                     /\ answers'[i].at < deadline' - Window}) =< Max
      <3>1. PICK T : T = Lim!Admitted(t, new)'
        OBVIOUS
      <3>2. T = {i \in DOMAIN answers' : /\ answers'[i].ok /\ t =< answers'[i].at
                                         /\ answers'[i].at < deadline' - Window}
        BY <1>9, <3>1 DEF Lim!Admitted
      <3> QED
        BY <1>9, <1>16, <2>8, <3>1, <3>2
    <2>9. ~(count' = 0)
      BY <1>2, <1>3, <2>1, LimitConstants
    <2> QED
      BY <2>1, <2>2, <2>3, <2>4, <2>6, <2>7, <2>8, <2>9, Zenon DEF CounterHonest, Since, Lim!Admitted
  <1>21. scores' = scores /\ limit' = limit /\ AnswersOrdered'
    BY <1>2, <1>6
  <1> QED
    BY <1>0, <1>12, <1>19, <1>20, <1>21 DEF LimitInv

(* Every step preserves the invariant.                                     *)
LEMMA LimitNext == LimitInv /\ [Next]_vars => LimitInv'
  <1> SUFFICES ASSUME LimitInv, [Next]_vars, focus' = "rate_limit"
               PROVE  LimitInv'
    BY DEF LimitInv
  <1>1. focus = "rate_limit" /\ focus' = focus
    BY FocusStays
  <1>2. CASE UNCHANGED limitVars
    BY <1>1, <1>2 DEF LimitInv, limitVars, Lim!TypeOK, AnswersOrdered, Lim!LimitHonest, Lim!Admitted,
       MembersHonest, CounterHonest, Since
  <1> QED
    BY <1>1, <1>2, LimitFollowed, LimitTick, LimitCheck, LimitAllow, LimitRedisError DEF Lim!Next

(* rate_limit.rs and IpRateLimiter: for every limit, window and skew of    *)
(* the clocks, no window lets more requests through than it says, and a    *)
(* client that waits a window is admitted.                                 *)
THEOREM LimitHonestHolds == Spec => []LimitHonest
  <1>1. LimitInv => LimitHonest
    BY DEF LimitInv, LimitHonest
  <1> QED
    BY <1>1, LimitInit, LimitNext, PTL DEF Spec
=============================================================================
