---------------------------- MODULE ApiDataProofs ----------------------------
(***************************************************************************)
(* Proofs about the parts of the API service that copy data between        *)
(* stores: the sync of blockchain events, whose cursor must not run ahead  *)
(* of what is stored, and the cache, whose lock and invalidation readers   *)
(* race with.                                                              *)
(***************************************************************************)
EXTENDS ApiProofs

-----------------------------------------------------------------------------
(* The sync of blockchain events *)

(* While the sync is followed, every step is one of Chain or leaves it     *)
(* alone.                                                                  *)
LEMMA ChainFollowed ==
  ASSUME [Next]_vars, focus = "chain"
  PROVE  Sync!Next \/ UNCHANGED <<chainVars, faults>>
  BY DEF Next, vars, RequestStep, LimitStep, KeyStep, NewsletterStep, WebhookStep,
         MigrationStep, WatchStep, ChainStep, CacheStep

ChainType ==
  /\ ledgers \in Seq(Nat) /\ forks \in Nat /\ top \in Nat /\ floor \in Nat
  /\ savedCursor \in Nat /\ checkpoint \in Nat /\ progress \in SUBSET Nat
  /\ cursor \in Nat /\ tip \in Nat
  /\ replay \in [step : {"idle", "fetch", "store"}, tip : Nat, batch : SUBSET (Nat \X Nat)]

(* Is x confirmed, as far as the chain has ever reached?                   *)
Below(x) == x = 0 \/ x + Lag =< top

(* The event of each ledger from a to x, below the lowest confirmed one    *)
(* that was replaced, is among S.                                          *)
Held(fork, low, a, x, S) == \A n \in a..x : n < low => <<n, fork[n]>> \in S

(* Confirmed ledgers that were never replaced are still there.             *)
ChainStands ==
  /\ Len(ledgers) =< top
  /\ \A n \in Nat \ {0} : n + Lag =< top /\ n < floor => n =< Len(ledgers)

(* Nothing that counts as covered, or is about to, is unconfirmed.         *)
TipsConfirmed ==
  /\ Below(cursor) /\ Below(savedCursor) /\ Below(checkpoint) /\ Below(tip) /\ Below(replay.tip)
  /\ \A t \in progress : Below(t)

(* What counts as covered is stored.                                       *)
CoveredHeld ==
  /\ Held(ledgers, floor, 1, cursor, stored)
  /\ Held(ledgers, floor, 1, savedCursor, stored)
  /\ Held(ledgers, floor, 1, checkpoint, stored)
  /\ \A t \in progress : Held(ledgers, floor, ReplayFrom, t, stored)

(* What is about to count is stored, or fetched.                           *)
WorkHeld ==
  /\ worker = "store" => Held(ledgers, floor, cursor + 1, tip, batch)
  /\ worker = "save_cursor" => Held(ledgers, floor, 1, tip, stored)
  /\ replay.step = "store" => Held(ledgers, floor, ReplayFrom, replay.tip, replay.batch)

ChainOrder == ChainType /\ ChainStands /\ TipsConfirmed /\ CoveredHeld /\ WorkHeld

ChainInv == focus = "chain" => ChainOrder

(* What the sync rests on: a lag, and a first ledger of a replay.          *)
LEMMA ChainConstants ==
  Lag \in Nat /\ MaxLedger \in Nat /\ ReplayFrom \in Nat /\ 1 =< ReplayFrom
  BY ApiAssumption DEF Sync!ChainAssumption

(* Init establishes it.                                                    *)
LEMMA ChainInit == Init => ChainInv
  <1> SUFFICES ASSUME Sync!Init PROVE ChainOrder
    BY DEF Init, ChainInv
  <1> USE ChainConstants DEF Sync!Init, Sync!NoReplay
  <1>1. ledgers \in Seq(Nat) /\ Len(ledgers) = 1
    OBVIOUS
  <1>2. ChainType
    BY <1>1 DEF ChainType
  <1>3. ChainStands
    BY <1>1 DEF ChainStands
  <1>4. TipsConfirmed /\ CoveredHeld /\ WorkHeld
    BY DEF TipsConfirmed, Below, CoveredHeld, Held, WorkHeld
  <1> QED
    BY <1>2, <1>3, <1>4 DEF ChainOrder

(* The chain grows, or loses ledgers: those that were confirmed, and below *)
(* the floor, stay what they are.                                          *)
LEMMA LedgerEffect ==
  ASSUME ChainType, ChainStands, Sync!LedgerStep
  PROVE  /\ ledgers' \in Seq(Nat) /\ forks' \in Nat /\ top' \in Nat /\ floor' \in Nat
         /\ ChainStands'
         /\ top =< top'
         /\ \A n \in Nat \ {0} : n + Lag =< top /\ n < floor' => n < floor /\ ledgers'[n] = ledgers[n]
  <1> USE ChainConstants
  <1>1. CASE Sync!CloseLedger
    <2>1. /\ ledgers' = Append(ledgers, forks)
          /\ top' = IF Len(ledgers') > top THEN Len(ledgers') ELSE top
          /\ forks' = forks /\ floor' = floor
      BY <1>1 DEF Sync!CloseLedger
    <2>2. /\ ledgers' \in Seq(Nat) /\ Len(ledgers') = Len(ledgers) + 1 /\ Len(ledgers) \in Nat
          /\ \A n \in 1..Len(ledgers) : ledgers'[n] = ledgers[n]
      BY <2>1 DEF ChainType
    <2>3. top' \in Nat /\ top =< top' /\ Len(ledgers') =< top'
      BY <2>1, <2>2 DEF ChainType
    <2>4. ASSUME NEW n \in Nat \ {0}, n + Lag =< top', n < floor'
          PROVE  n =< Len(ledgers')
      BY <2>1, <2>2, <2>4 DEF ChainType, ChainStands
    <2>5. ChainStands'
      BY <2>3, <2>4 DEF ChainStands
    <2>6. ASSUME NEW n \in Nat \ {0}, n + Lag =< top, n < floor'
          PROVE  n < floor /\ ledgers'[n] = ledgers[n]
      BY <2>1, <2>2, <2>6 DEF ChainStands
    <2> QED
      BY <2>1, <2>2, <2>3, <2>5, <2>6 DEF ChainType
  <1>2. ASSUME NEW m \in Sync!Ledgers, Sync!Rollback(m)
        PROVE  /\ ledgers' \in Seq(Nat) /\ forks' \in Nat /\ top' \in Nat /\ floor' \in Nat
               /\ ChainStands'
               /\ top =< top'
               /\ \A n \in Nat \ {0} : n + Lag =< top /\ n < floor' => n < floor /\ ledgers'[n] = ledgers[n]
    <2>1. /\ m \in Nat /\ 1 =< m /\ m < Len(ledgers) /\ top' = top /\ forks' = forks + 1
          /\ ledgers' = SubSeq(ledgers, 1, m)
          /\ floor' = IF m < top - Lag /\ m + 1 < floor THEN m + 1 ELSE floor
      BY <1>2 DEF Sync!Rollback, Sync!Ledgers
    <2>2. /\ ledgers' \in Seq(Nat) /\ Len(ledgers') = m
          /\ \A n \in 1..m : ledgers'[n] = ledgers[n]
      BY <2>1 DEF ChainType
    <2>3. floor' \in Nat /\ floor' =< floor
      BY <2>1 DEF ChainType
    <2>4. ASSUME NEW n \in Nat \ {0}, n + Lag =< top, n < floor'
          PROVE  n =< m /\ n < floor
      BY <2>1, <2>3, <2>4 DEF ChainType
    <2>5. ChainStands'
      BY <2>1, <2>2, <2>4 DEF ChainStands, ChainType
    <2> QED
      BY <2>1, <2>2, <2>3, <2>4, <2>5 DEF ChainType
  <1> QED
    BY <1>1, <1>2 DEF Sync!LedgerStep

(* So what was held, up to a confirmed ledger, is held.                    *)
LEMMA HeldKept ==
  ASSUME ChainType, ChainStands, Sync!LedgerStep,
         NEW a \in Nat, 1 =< a, NEW x \in Nat, Below(x), NEW S, Held(ledgers, floor, a, x, S)
  PROVE  Held(ledgers', floor', a, x, S) /\ Below(x)'
  <1> USE ChainConstants
  <1>1. Below(x)'
    BY LedgerEffect DEF Below, ChainType
  <1>2. ASSUME NEW n \in a..x, n < floor' PROVE <<n, ledgers'[n]>> \in S
    <2>1. n \in Nat \ {0} /\ n + Lag =< top
      BY DEF Below, ChainType
    <2>2. n < floor /\ ledgers'[n] = ledgers[n]
      BY <1>2, <2>1, LedgerEffect
    <2> QED
      BY <2>2 DEF Held
  <1> QED
    BY <1>1, <1>2 DEF Held

(* The chain's own steps preserve the invariant.                           *)
LEMMA LedgerKept ==
  ASSUME ChainOrder, Sync!LedgerStep
  PROVE  ChainOrder'
  <1> USE ChainConstants
  <1>0. /\ ChainType /\ ChainStands
        /\ UNCHANGED <<savedCursor, checkpoint, progress, worker, cursor, tip, batch, replay, stored>>
    BY DEF ChainOrder, Sync!LedgerStep, Sync!CloseLedger, Sync!Rollback, Sync!redisVars,
           Sync!workerVars, Sync!replayVars
  <1>1. ChainType' /\ ChainStands'
    BY <1>0, LedgerEffect DEF ChainType
  <1>2. TipsConfirmed'
    BY <1>0, LedgerEffect DEF ChainOrder, TipsConfirmed, Below, ChainType
  <1>3. CoveredHeld'
    <2>1. \A x \in {cursor, savedCursor, checkpoint} : Held(ledgers', floor', 1, x, stored)
      BY <1>0, HeldKept DEF ChainOrder, ChainType, TipsConfirmed, CoveredHeld
    <2>2. \A t \in progress : Held(ledgers', floor', ReplayFrom, t, stored)
      BY <1>0, HeldKept DEF ChainOrder, ChainType, TipsConfirmed, CoveredHeld
    <2> QED
      BY <1>0, <2>1, <2>2 DEF CoveredHeld
  <1>4. WorkHeld'
    <2>1. worker = "store" => Held(ledgers', floor', cursor + 1, tip, batch)
      <3>1. cursor + 1 \in Nat /\ 1 =< cursor + 1 /\ tip \in Nat
        BY <1>0 DEF ChainType
      <3> QED
        BY <1>0, <3>1, HeldKept DEF ChainOrder, TipsConfirmed, WorkHeld
    <2>2. worker = "save_cursor" => Held(ledgers', floor', 1, tip, stored)
      BY <1>0, HeldKept DEF ChainOrder, ChainType, TipsConfirmed, WorkHeld
    <2>3. replay.step = "store" => Held(ledgers', floor', ReplayFrom, replay.tip, replay.batch)
      BY <1>0, HeldKept DEF ChainOrder, ChainType, TipsConfirmed, WorkHeld
    <2> QED
      BY <1>0, <2>1, <2>2, <2>3 DEF WorkHeld
  <1> QED
    BY <1>1, <1>2, <1>3, <1>4 DEF ChainOrder

(* More stored events hold what fewer do.                                  *)
LEMMA HeldGrows ==
  ASSUME NEW fork, NEW low, NEW a, NEW x, NEW S, NEW T, S \subseteq T, Held(fork, low, a, x, S)
  PROVE  Held(fork, low, a, x, T)
  BY DEF Held

(* getEvents from a ledger on has all confirmed ones.                      *)
LEMMA FetchHeld ==
  ASSUME ChainType, ChainStands, NEW a \in Nat, 1 =< a, NEW x \in Nat, Below(x)
  PROVE  /\ Held(ledgers, floor, a, x, Sync!EventsSince(a))
         /\ Held(ledgers, floor, a, x, {e \in Sync!EventsSince(a) : e[1] <= x})
         /\ Sync!EventsSince(a) \subseteq Nat \X Nat
  <1> USE ChainConstants
  <1>1. ASSUME NEW n \in a..x, n < floor
        PROVE  <<n, ledgers[n]>> \in {e \in Sync!EventsSince(a) : e[1] <= x}
    <2>1. n \in Nat \ {0} /\ n + Lag =< top
      BY DEF Below, ChainType
    <2>2. n \in a..Len(ledgers)
      BY <1>1, <2>1 DEF ChainStands, ChainType
    <2> QED
      BY <2>2 DEF Sync!EventsSince
  <1>2. Sync!EventsSince(a) \subseteq Nat \X Nat
    BY DEF Sync!EventsSince, ChainType
  <1> QED
    BY <1>1, <1>2 DEF Held

(* The sync worker's steps preserve it: run_sync_loop resumes at a cursor  *)
(* that was saved, or from the beginning.                                  *)
LEMMA StartLoopKept == ASSUME ChainOrder, Sync!StartLoop PROVE ChainOrder'
  <1>1. /\ worker' = "poll" /\ cursor' \in {0, savedCursor, checkpoint}
        /\ UNCHANGED <<ledgers, forks, top, floor, savedCursor, checkpoint, progress, tip, batch, replay, stored>>
    BY DEF Sync!StartLoop, Sync!ResumeAt, Sync!ledgerVars, Sync!redisVars, Sync!replayVars
  <1>2. Held(ledgers, floor, 1, 0, stored) /\ Below(0)
    BY DEF Held, Below
  <1> QED
    BY <1>1, <1>2 DEF ChainOrder, ChainType, ChainStands, TipsConfirmed, Below, CoveredHeld,
                      WorkHeld

(* The tip of a round is confirmed; when the cursor stands in for the      *)
(* latest ledger, there is no round.                                       *)
LEMMA ChainPollKept ==
  ASSUME ChainOrder, NEW latest \in {Len(ledgers), cursor}, Sync!Poll(latest)
  PROVE  ChainOrder'
  <1> USE ChainConstants
  <1>0. /\ ledgers \in Seq(Nat) /\ top \in Nat /\ cursor \in Nat /\ latest \in Nat
        /\ Len(ledgers) =< top
    BY DEF ChainOrder, ChainType, ChainStands
  <1>1. /\ UNCHANGED <<ledgers, forks, top, floor, cursor, batch, replay, stored>>
        /\ savedCursor' \in {0, savedCursor} /\ checkpoint' \in {0, checkpoint}
        /\ progress' \subseteq progress
        /\ tip' = (IF Sync!Behind(Sync!ConfirmedTip(latest)) THEN Sync!ConfirmedTip(latest) ELSE 0)
        /\ worker' \in {"fetch", "poll"}
    BY DEF Sync!Poll, Sync!HandleReorg, Sync!Purge, Sync!ledgerVars
  <1>2. tip' \in Nat /\ Below(tip')
    <2>1. Sync!ConfirmedTip(latest) \in Nat
      BY <1>0 DEF Sync!ConfirmedTip, Sync!Saturating
    <2>2. CASE latest = Len(ledgers)
      <3>1. Sync!ConfirmedTip(latest) = 0 \/ Sync!ConfirmedTip(latest) + Lag =< top
        BY <1>0, <2>2 DEF Sync!ConfirmedTip, Sync!Saturating
      <3> QED
        BY <1>1, <2>1, <3>1 DEF Below
    <2>3. CASE latest = cursor
      <3>1. Sync!ConfirmedTip(latest) =< cursor
        BY <1>0, <2>3 DEF Sync!ConfirmedTip, Sync!Saturating
      <3> QED
        BY <1>0, <1>1, <2>1, <3>1 DEF Sync!Behind, Below
    <2> QED
      BY <2>2, <2>3
  <1>3. Held(ledgers, floor, 1, 0, stored) /\ Below(0)
    BY DEF Held, Below
  <1>7. ChainType' /\ ChainStands'
    <2>1. ChainStands'
      BY <1>1 DEF ChainOrder, ChainStands
    <2>2. savedCursor' \in Nat /\ checkpoint' \in Nat /\ progress' \in SUBSET Nat
      BY <1>1 DEF ChainOrder, ChainType
    <2> QED
      BY <1>1, <1>2, <2>1, <2>2 DEF ChainOrder, ChainType
  <1>8. WorkHeld'
    BY <1>1 DEF ChainOrder, WorkHeld
  <1>4. ChainType' /\ ChainStands' /\ WorkHeld'
    BY <1>7, <1>8
  <1>5. TipsConfirmed'
    BY <1>1, <1>2, <1>3 DEF ChainOrder, TipsConfirmed, Below
  <1>6. CoveredHeld'
    BY <1>1, <1>3 DEF ChainOrder, CoveredHeld
  <1> QED
    BY <1>4, <1>5, <1>6 DEF ChainOrder

(* The fetch has all that the round is about to cover.                     *)
LEMMA ChainFetchKept == ASSUME ChainOrder, Sync!Fetch PROVE ChainOrder'
  <1>1. /\ worker' = "store" /\ batch' = Sync!EventsSince(cursor + 1)
        /\ UNCHANGED <<ledgers, forks, top, floor, savedCursor, checkpoint, progress, cursor, tip, replay, stored>>
    BY DEF Sync!Fetch, Sync!ledgerVars, Sync!redisVars, Sync!replayVars
  <1>2. cursor + 1 \in Nat /\ 1 =< cursor + 1 /\ tip \in Nat /\ Below(tip)
    BY DEF ChainOrder, ChainType, TipsConfirmed
  <1>3. Held(ledgers, floor, cursor + 1, tip, batch')
    BY <1>1, <1>2, FetchHeld DEF ChainOrder
  <1> QED
    BY <1>1, <1>3 DEF ChainOrder, ChainType, ChainStands, TipsConfirmed, Below, CoveredHeld,
                      WorkHeld

(* What was fetched is stored before its tip counts.                       *)
LEMMA StoreEventsKept == ASSUME ChainOrder, Sync!StoreEvents PROVE ChainOrder'
  <1>1. /\ worker = "store" /\ worker' = "save_cursor" /\ stored' = stored \cup batch
        /\ UNCHANGED <<ledgers, forks, top, floor, savedCursor, checkpoint, progress, cursor, tip, replay>>
    BY DEF Sync!StoreEvents, Sync!ledgerVars, Sync!redisVars, Sync!replayVars
  <1>2. Held(ledgers, floor, 1, tip, stored')
    <2>1. Held(ledgers, floor, 1, cursor, stored) /\ Held(ledgers, floor, cursor + 1, tip, batch)
      BY <1>1 DEF ChainOrder, CoveredHeld, WorkHeld
    <2>2. cursor \in Nat /\ tip \in Nat
      BY DEF ChainOrder, ChainType
    <2> QED
      BY <1>1, <2>1, <2>2 DEF Held
  <1>3. CoveredHeld'
    BY <1>1, HeldGrows DEF ChainOrder, CoveredHeld
  <1> QED
    BY <1>1, <1>2, <1>3 DEF ChainOrder, ChainType, ChainStands, TipsConfirmed, Below, WorkHeld

(* The cursor in memory moves to the tip, its key and the checkpoint after *)
(* it.                                                                     *)
LEMMA SaveKept == ASSUME ChainOrder, Sync!SaveCursor \/ Sync!SaveCheckpoint PROVE ChainOrder'
  <1>1. CASE Sync!SaveCursor
    <2>1. /\ worker = "save_cursor" /\ worker' = "save_checkpoint" /\ cursor' = tip
          /\ savedCursor' \in {tip, savedCursor}
          /\ UNCHANGED <<ledgers, forks, top, floor, checkpoint, progress, tip, batch, replay, stored>>
      BY <1>1 DEF Sync!SaveCursor, Sync!ledgerVars, Sync!replayVars
    <2>2. ChainType' /\ ChainStands' /\ TipsConfirmed'
      BY <2>1 DEF ChainOrder, ChainType, ChainStands, TipsConfirmed, Below
    <2>3. CoveredHeld' /\ WorkHeld'
      BY <2>1 DEF ChainOrder, CoveredHeld, WorkHeld
    <2> QED
      BY <2>2, <2>3 DEF ChainOrder
  <1>2. CASE Sync!SaveCheckpoint
    <2>1. /\ worker' = "poll" /\ tip' = 0
          /\ checkpoint' \in {cursor, checkpoint}
          /\ UNCHANGED <<ledgers, forks, top, floor, savedCursor, cursor, progress, batch, replay, stored>>
      BY <1>2 DEF Sync!SaveCheckpoint, Sync!ledgerVars, Sync!replayVars
    <2>2. ChainType' /\ ChainStands' /\ TipsConfirmed'
      BY <2>1 DEF ChainOrder, ChainType, ChainStands, TipsConfirmed, Below
    <2>3. CoveredHeld' /\ WorkHeld'
      BY <2>1 DEF ChainOrder, CoveredHeld, WorkHeld
    <2> QED
      BY <2>2, <2>3 DEF ChainOrder
  <1> QED
    BY <1>1, <1>2

(* Failures, crashes and slips forget what counted as covered, or what  *)
(* was about to.                                                           *)
LEMMA FaultsKept == ASSUME ChainOrder, Sync!Faults PROVE ChainOrder'
  <1>0. Held(ledgers, floor, 1, 0, stored) /\ Below(0)
    BY DEF Held, Below
  <1>1. CASE Sync!PollFails
    <2>1. /\ savedCursor' \in {0, savedCursor} /\ checkpoint' \in {0, checkpoint}
          /\ progress' \subseteq progress
          /\ UNCHANGED <<ledgers, forks, top, floor, worker, cursor, tip, batch, replay, stored>>
      BY <1>1 DEF Sync!PollFails, Sync!Purge, Sync!ledgerVars, Sync!workerVars
    <2>2. savedCursor' \in Nat /\ checkpoint' \in Nat /\ progress' \in SUBSET Nat
      BY <2>1 DEF ChainOrder, ChainType
    <2>3. ChainType' /\ ChainStands'
      BY <2>1, <2>2 DEF ChainOrder, ChainType, ChainStands
    <2>4. TipsConfirmed'
      BY <1>0, <2>1 DEF ChainOrder, TipsConfirmed, Below
    <2>5. CoveredHeld' /\ WorkHeld'
      BY <1>0, <2>1 DEF ChainOrder, CoveredHeld, WorkHeld
    <2> QED
      BY <2>3, <2>4, <2>5 DEF ChainOrder
  <1>2. CASE Sync!Crash
    <2>1. /\ worker' = "down" /\ cursor' = 0 /\ tip' = 0 /\ replay' = Sync!NoReplay
          /\ UNCHANGED <<ledgers, forks, top, floor, savedCursor, checkpoint, progress, stored>>
      BY <1>2 DEF Sync!Crash, Sync!ledgerVars, Sync!redisVars
    <2> QED
      BY <1>0, <2>1 DEF ChainOrder, ChainType, ChainStands, TipsConfirmed, Below, CoveredHeld,
                        WorkHeld,
                        Sync!NoReplay
  <1>3. CASE Sync!Expire
    <2>1. /\ savedCursor' \in {0, savedCursor} /\ checkpoint' \in {0, checkpoint}
          /\ UNCHANGED <<ledgers, forks, top, floor, progress, worker, cursor, tip, batch, replay, stored>>
      BY <1>3 DEF Sync!Expire, Sync!ledgerVars, Sync!workerVars, Sync!replayVars
    <2> QED
      BY <1>0, <2>1 DEF ChainOrder, ChainType, ChainStands, TipsConfirmed, Below, CoveredHeld,
                        WorkHeld
  <1>4. ASSUME NEW n \in Sync!Ledgers, Sync!SyncFails(n) PROVE ChainOrder'
    <2>1. /\ worker' = "poll" /\ tip' = 0 /\ stored \subseteq stored'
          /\ UNCHANGED <<ledgers, forks, top, floor, savedCursor, checkpoint, progress, cursor, replay>>
      BY <1>4 DEF Sync!SyncFails, Sync!ledgerVars, Sync!redisVars, Sync!replayVars
    <2>2. CoveredHeld'
      BY <2>1, HeldGrows DEF ChainOrder, CoveredHeld
    <2> QED
      BY <2>1, <2>2 DEF ChainOrder, ChainType, ChainStands, TipsConfirmed, Below, WorkHeld
  <1> QED
    BY <1>1, <1>2, <1>3, <1>4 DEF Sync!Faults

(* replay_events: its tip is confirmed when it is read, and counts when    *)
(* all that was fetched up to it is stored.                                *)
LEMMA ReplayKept == ASSUME ChainOrder, Sync!Replay PROVE ChainOrder'
  <1> USE ChainConstants
  <1>1. CASE Sync!ReplayBegin
    <2>1. /\ replay' = [step |-> "fetch", tip |-> Sync!ConfirmedTip(Len(ledgers)), batch |-> {}]
          /\ UNCHANGED <<ledgers, forks, top, floor, savedCursor, checkpoint, worker, cursor, tip,
                         batch, progress, stored>>
      BY <1>1 DEF Sync!ReplayBegin, Sync!ledgerVars, Sync!redisVars, Sync!workerVars
    <2>2. /\ Sync!ConfirmedTip(Len(ledgers)) \in Nat
          /\ Below(Sync!ConfirmedTip(Len(ledgers)))
      BY DEF ChainOrder, ChainType, ChainStands, Sync!ConfirmedTip, Sync!Saturating, Below
    <2>3. replay'.tip = Sync!ConfirmedTip(Len(ledgers)) /\ replay'.step = "fetch" /\ ChainType'
      BY <2>1, <2>2 DEF ChainOrder, ChainType
    <2> QED
      BY <2>1, <2>2, <2>3 DEF ChainOrder, ChainStands, TipsConfirmed, Below, CoveredHeld, WorkHeld
  <1>2. CASE Sync!ReplayFetch
    <2>1. /\ replay' = [replay EXCEPT !.step = "store",
                          !.batch = {e \in Sync!EventsSince(ReplayFrom) : e[1] <= replay.tip}]
          /\ UNCHANGED <<ledgers, forks, top, floor, savedCursor, checkpoint, worker, cursor, tip,
                         batch, progress, stored>>
      BY <1>2 DEF Sync!ReplayFetch, Sync!ledgerVars, Sync!redisVars, Sync!workerVars
    <2>2. replay.tip \in Nat /\ Below(replay.tip)
      BY DEF ChainOrder, ChainType, TipsConfirmed
    <2>3. /\ Held(ledgers, floor, ReplayFrom, replay.tip, {e \in Sync!EventsSince(ReplayFrom) : e[1] <= replay.tip})
          /\ Sync!EventsSince(ReplayFrom) \subseteq Nat \X Nat
      BY <2>2, FetchHeld DEF ChainOrder
    <2>4. /\ replay'.tip = replay.tip
          /\ replay'.batch = {e \in Sync!EventsSince(ReplayFrom) : e[1] <= replay.tip}
          /\ ChainType'
      BY <2>1, <2>3 DEF ChainOrder, ChainType
    <2> QED
      BY <2>1, <2>2, <2>3, <2>4 DEF ChainOrder, ChainStands, TipsConfirmed, Below, CoveredHeld,
                                    WorkHeld
  <1>3. CASE Sync!ReplayStore
    <2>1. /\ replay.step = "store" /\ stored' = stored \cup replay.batch /\ progress' = {replay.tip}
          /\ replay' = Sync!NoReplay
          /\ UNCHANGED <<ledgers, forks, top, floor, savedCursor, checkpoint, worker, cursor, tip, batch>>
      BY <1>3 DEF Sync!ReplayStore, Sync!ledgerVars, Sync!redisVars, Sync!workerVars
    <2>2. Held(ledgers, floor, ReplayFrom, replay.tip, stored') /\ replay.tip \in Nat /\ Below(replay.tip)
      BY <2>1, HeldGrows DEF ChainOrder, WorkHeld, ChainType, TipsConfirmed
    <2>3. ChainType' /\ replay'.tip = 0 /\ replay'.step = "idle"
      BY <2>1, <2>2 DEF ChainOrder, ChainType, Sync!NoReplay
    <2>4. CoveredHeld'
      BY <2>1, <2>2, HeldGrows DEF ChainOrder, CoveredHeld
    <2>5. WorkHeld'
      BY <2>1, <2>3, HeldGrows DEF ChainOrder, WorkHeld
    <2> QED
      BY <2>1, <2>2, <2>3, <2>4, <2>5 DEF ChainOrder, ChainStands, TipsConfirmed, Below
  <1>4. ASSUME NEW n \in Sync!Ledgers, Sync!ReplayFails(n) PROVE ChainOrder'
    <2>1. /\ stored \subseteq stored' /\ replay' = Sync!NoReplay
          /\ UNCHANGED <<ledgers, forks, top, floor, savedCursor, checkpoint, worker, cursor, tip,
                         batch, progress>>
      BY <1>4 DEF Sync!ReplayFails, Sync!ledgerVars, Sync!redisVars, Sync!workerVars
    <2>2. ChainType' /\ replay'.tip = 0 /\ replay'.step = "idle"
      BY <2>1 DEF ChainOrder, ChainType, Sync!NoReplay
    <2>3. CoveredHeld' /\ WorkHeld'
      BY <2>1, <2>2, HeldGrows DEF ChainOrder, CoveredHeld, WorkHeld
    <2> QED
      BY <2>1, <2>2, <2>3 DEF ChainOrder, ChainStands, TipsConfirmed, Below
  <1>5. CASE Sync!ExpireProgress
    <2>1. /\ progress' = {}
          /\ UNCHANGED <<ledgers, forks, top, floor, savedCursor, checkpoint, worker, cursor, tip,
                         batch, replay, stored>>
      BY <1>5 DEF Sync!ExpireProgress, Sync!ledgerVars, Sync!redisVars, Sync!workerVars
    <2> QED
      BY <2>1 DEF ChainOrder, ChainType, ChainStands, TipsConfirmed, Below, CoveredHeld, WorkHeld
  <1> QED
    BY <1>1, <1>2, <1>3, <1>4, <1>5 DEF Sync!Replay

(* Every step preserves it.                                                *)
LEMMA ChainNext == ChainInv /\ [Next]_vars => ChainInv'
  <1> SUFFICES ASSUME ChainInv, [Next]_vars, focus' = "chain" PROVE ChainOrder'
    BY DEF ChainInv
  <1>0. focus = "chain" /\ ChainOrder
    BY FocusStays DEF ChainInv
  <1>1. CASE UNCHANGED <<chainVars, faults>>
    BY <1>0, <1>1
       DEF chainVars, ChainOrder, ChainType, ChainStands, TipsConfirmed, Below, CoveredHeld, WorkHeld
  <1> QED
    BY <1>0, <1>1, ChainFollowed, LedgerKept, StartLoopKept, ChainPollKept, ChainFetchKept,
       StoreEventsKept,
       SaveKept, FaultsKept, ReplayKept
       DEF Sync!Next, Sync!Sync

(* sync_once, run_sync_loop, replay_events: whatever fails, crashes,       *)
(* expires or is rolled back, no ledger counts as covered before its event *)
(* was stored, unless a rollback reached below the confirmation lag.       *)
THEOREM CoveredLedgersStoredHolds == Spec => []CoveredLedgersStored
  <1>1. ChainInv => CoveredLedgersStored
    <2> SUFFICES ASSUME ChainOrder, NEW n \in 1..Len(ledgers), Sync!Covered(n), n < floor
                 PROVE  <<n, ledgers[n]>> \in stored
      BY DEF ChainInv, CoveredLedgersStored, Sync!CoveredLedgersStored
    <2>1. n \in Nat /\ 1 =< n
      BY DEF ChainOrder, ChainType
    <2> QED
      BY <2>1, ChainConstants DEF ChainOrder, ChainType, CoveredHeld, Held, Sync!Covered
  <1> QED
    BY <1>1, ChainInit, ChainNext, PTL DEF Spec

-----------------------------------------------------------------------------
(* The cache *)

(* While the cache is followed, every step is one of Cache or leaves it    *)
(* alone.                                                                  *)
LEMMA CacheFollowed ==
  ASSUME [Next]_vars, focus = "cache"
  PROVE  Cached!Next \/ UNCHANGED <<db, value, fillLock, frame, resolver, faults, slips, quiet>>
  BY DEF Next, vars, cacheVars, RequestStep, LimitStep, KeyStep, NewsletterStep, WebhookStep,
         MigrationStep, WatchStep, ChainStep, CacheStep

Modes == {"none", "locked", "late", "bypass"}
FillCalls == [at : Cached!Labels, mode : Modes, got : Nat]

CacheType ==
  /\ db \in Nat
  /\ value \in [Cached!Keys -> [form : {"none", "entry", "plain"}, datum : Nat]]
  /\ fillLock \in [Cached!Keys -> Readers \cup {Cached!Free}]
  /\ frame \in [Readers -> [Cached!Keys -> FillCalls]]
  /\ resolver \in {Cached!Idle, <<Cached!Tags, "api", "dbq">>, <<"api", "dbq">>, <<"dbq">>}
  /\ slips \in [Cached!Keys -> Nat]
  /\ quiet \in {"no", "during", "after"}

(* A call that has not come to its fetcher has no mode yet; only a holder  *)
(* of the lock gets to its release; and the lower key is read only for an  *)
(* upper call that waits.                                                  *)
CallInOrder(f) ==
  /\ f.at \in {"idle", "lookup", "lock", "poll"} => f.mode = "none"
  /\ f.at = "release" => f.mode = "locked"

CallsInOrder ==
  \A r \in Readers :
    /\ CallInOrder(frame[r]["api"]) /\ CallInOrder(frame[r]["dbq"])
    /\ frame[r]["api"].at # "await" => frame[r]["dbq"].at = "idle"

Holders(k) == {r \in Readers : Cached!Holding(r, k)}

(* Beyond those that locks expired under, there is a holder only while the *)
(* lock is there and its own.                                              *)
Flight(k) ==
  /\ Cardinality(Holders(k)) =< 1 + slips[k]
  /\ fillLock[k] \notin Holders(k) => Cardinality(Holders(k)) =< slips[k]

(* While a quiet invalidation goes on nobody reads, and what it has passed *)
(* is gone; after it, what is there is current.                            *)
QuietInOrder ==
  /\ quiet = "during" =>
       /\ \A r \in Readers : frame[r]["api"].at = "idle" /\ frame[r]["dbq"].at = "idle"
       /\ resolver # Cached!Idle
       /\ resolver = <<"dbq">> => value["api"] = Cached!NoValue
  /\ quiet = "after" => resolver = Cached!Idle
  /\ Cached!QuietInvalidation

CacheOrder == CacheType /\ CallsInOrder /\ Flight("api") /\ Flight("dbq") /\ QuietInOrder

CacheInv == focus = "cache" => CacheOrder

(* What the cache rests on: finitely many readers.                         *)
LEMMA CacheConstants ==
  IsFiniteSet(Readers) /\ Cached!Free \notin Readers /\ MaxChanges \in Nat /\ OneFault \in Nat
  BY ApiAssumption DEF Cached!CacheAssumption, Cached!IsFiniteSet, IsFiniteSet

USE DEF Cached!Keys

(* Goto moves one call.                                                    *)
LEMMA GotoEffect ==
  ASSUME CacheType, NEW r \in Readers, NEW k \in Cached!Keys, NEW label \in Cached!Labels,
         Cached!Goto(r, k, label)
  PROVE  /\ frame' \in [Readers -> [Cached!Keys -> FillCalls]]
         /\ \A q \in Readers : q # r => frame'[q] = frame[q]
         /\ \A c \in Cached!Keys : c # k => frame'[r][c] = frame[r][c]
         /\ frame'[r][k].at = label /\ frame'[r][k].mode = frame[r][k].mode
         /\ frame'[r][k].got = frame[r][k].got
  BY DEF CacheType, FillCalls, Cached!Goto

(* A function of readers that differs from frame in one reader, and there  *)
(* in one call, has its type.                                              *)
LEMMA FrameTyped ==
  ASSUME CacheType, NEW r \in Readers, NEW k \in Cached!Keys, NEW f \in FillCalls, NEW g,
         g = [q \in Readers |-> g[q]],
         \A q \in Readers : q # r => g[q] = frame[q],
         g[r] = [c \in Cached!Keys |-> g[r][c]],
         \A c \in Cached!Keys : c # k => g[r][c] = frame[r][c],
         g[r][k] = f
  PROVE  g \in [Readers -> [Cached!Keys -> FillCalls]]
  <1>1. \A c \in Cached!Keys : g[r][c] \in FillCalls
    BY DEF CacheType
  <1>2. g[r] \in [Cached!Keys -> FillCalls]
    BY <1>1
  <1>3. \A q \in Readers : g[q] \in [Cached!Keys -> FillCalls]
    BY <1>2 DEF CacheType
  <1> QED
    BY <1>3

(* Return ends one call, and wakes the upper one that waits for it.        *)
LEMMA ReturnEffect ==
  ASSUME CacheType, NEW r \in Readers, NEW k \in Cached!Keys, NEW v \in Nat,
         Cached!Return(r, k, v)
  PROVE  /\ frame' \in [Readers -> [Cached!Keys -> FillCalls]]
         /\ \A q \in Readers : q # r => frame'[q] = frame[q]
         /\ frame'[r][k] = Cached!NoCall
         /\ \A c \in Cached!Keys : c # k =>
              \/ frame'[r][c] = frame[r][c]
              \/ /\ frame[r][c].at = "await" /\ c = "api"
                 /\ frame'[r][c] = [at |-> "store", mode |-> frame[r][c].mode, got |-> v]
  <1>0. Cached!NoCall \in FillCalls
    BY DEF Cached!NoCall, FillCalls, Modes, Cached!Labels
  <1>1. CASE k = "dbq" /\ Cached!At(r, "api", "await")
    <2>1. frame' = [frame EXCEPT ![r]["dbq"] = Cached!NoCall, ![r]["api"].at = "store", ![r]["api"].got = v]
      BY <1>1 DEF Cached!Return
    <2>2. frame[r]["api"] \in FillCalls /\ frame[r]["api"].at = "await"
      BY <1>1 DEF CacheType, Cached!At
    <2>3. frame'[r]["api"] = [at |-> "store", mode |-> frame[r]["api"].mode, got |-> v]
      BY <2>1, <2>2 DEF CacheType, FillCalls
    <2>4. frame'[r]["dbq"] = Cached!NoCall
      BY <2>1 DEF CacheType
    <2>5. \A q \in Readers : q # r => frame'[q] = frame[q]
      BY <2>1 DEF CacheType
    <2>6. frame' \in [Readers -> [Cached!Keys -> FillCalls]]
      <3>1. [at |-> "store", mode |-> frame[r]["api"].mode, got |-> v] \in FillCalls
        BY <2>2 DEF FillCalls, Cached!Labels
      <3> QED
        BY <1>0, <2>1, <2>3, <2>4, <3>1 DEF CacheType
    <2> QED
      BY <1>1, <2>2, <2>3, <2>4, <2>5, <2>6
  <1>2. CASE ~(k = "dbq" /\ Cached!At(r, "api", "await"))
    <2>1. frame' = [frame EXCEPT ![r][k] = Cached!NoCall]
      BY <1>2 DEF Cached!Return
    <2> QED
      BY <1>0, <2>1 DEF CacheType
  <1> QED
    BY <1>1, <1>2

(* Init establishes it.                                                    *)
LEMMA CacheInit == Init => CacheInv
  <1> SUFFICES ASSUME Cached!Init PROVE CacheOrder
    BY DEF Init, CacheInv
  <1> USE DEF Cached!Init, Cached!NoCall, Cached!NoValue
  <1>1. CacheType
    BY DEF CacheType, FillCalls, Modes, Cached!Labels
  <1>2. CallsInOrder
    BY DEF CallsInOrder, CallInOrder
  <1>3. Holders("api") = {} /\ Holders("dbq") = {}
    BY DEF Holders, Cached!Holding
  <1>4. Cardinality({}) = 0 /\ slips["api"] = 0 /\ slips["dbq"] = 0
    BY FS_EmptySet
  <1>6. Flight("api") /\ Flight("dbq")
    BY <1>3, <1>4 DEF Flight
  <1>5. QuietInOrder
    BY DEF QuietInOrder, Cached!QuietInvalidation
  <1> QED
    BY <1>1, <1>2, <1>5, <1>6 DEF CacheOrder

(* Sets of readers are finite, and a reader more or less counts one.       *)
LEMMA HolderCounts ==
  ASSUME NEW S \in SUBSET Readers, NEW r \in Readers
  PROVE  /\ Cardinality(S) \in Nat /\ Cardinality(S \ {r}) \in Nat
         /\ Cardinality(S \cup {r}) \in Nat
         /\ Cardinality(S \cup {r}) =< Cardinality(S) + 1
         /\ Cardinality(S \ {r}) =< Cardinality(S)
         /\ r \in S => Cardinality(S \ {r}) = Cardinality(S) - 1
  <1>1. IsFiniteSet(S)
    BY CacheConstants, FS_Subset
  <1>2. /\ IsFiniteSet(S \ {r}) /\ IsFiniteSet(S \cup {r})
        /\ r \in S => Cardinality(S \ {r}) = Cardinality(S) - 1
        /\ Cardinality(S \ {r}) =< Cardinality(S)
    BY <1>1, FS_RemoveElement, FS_AddElement, FS_Subset
  <1>3. Cardinality(S) \in Nat /\ Cardinality(S \ {r}) \in Nat /\ Cardinality(S \cup {r}) \in Nat
    BY <1>1, <1>2, FS_CardinalityType
  <1>4. Cardinality(S \cup {r}) =< Cardinality(S) + 1
    <2>1. CASE r \in S
      <3>1. S \cup {r} = S
        BY <2>1
      <3> QED
        BY <1>3, <3>1
    <2>2. CASE r \notin S
      <3>1. Cardinality(S \cup {r}) = Cardinality(S) + 1
        BY <1>1, <2>2, FS_AddElement
      <3> QED
        BY <1>3, <3>1
    <2> QED
      BY <2>1, <2>2
  <1> QED
    BY <1>2, <1>3, <1>4

(* A step that moves one reader and makes it no holder, and leaves the     *)
(* lock of k alone, keeps the count of k.                                  *)
LEMMA FlightKept ==
  ASSUME CacheType, NEW k \in Cached!Keys, Flight(k), NEW r \in Readers,
         \A q \in Readers : q # r => frame'[q] = frame[q],
         Cached!Holding(r, k)' => Cached!Holding(r, k),
         fillLock'[k] = fillLock[k], slips'[k] = slips[k]
  PROVE  Flight(k)'
  <1>1. Holders(k) \subseteq Readers /\ slips[k] \in Nat
    BY DEF Holders, CacheType
  <1>2. \/ Holders(k)' = Holders(k)
        \/ Holders(k)' = Holders(k) \ {r} /\ r \in Holders(k)
    BY DEF Holders, Cached!Holding
  <1>3. CASE Holders(k)' = Holders(k)
    BY <1>3 DEF Flight
  <1>4. CASE Holders(k)' = Holders(k) \ {r} /\ r \in Holders(k)
    <2>1. Cardinality(Holders(k)') = Cardinality(Holders(k)) - 1 /\ Cardinality(Holders(k)) \in Nat
      BY <1>1, <1>4, HolderCounts
    <2> QED
      BY <1>1, <1>4, <2>1 DEF Flight
  <1> QED
    BY <1>2, <1>3, <1>4

(* What a step of a reader r that reads has to keep for the invariant, but *)
(* for the counts.                                                         *)
LEMMA ReaderMoves ==
  ASSUME CacheOrder, NEW r \in Readers, NEW k \in Cached!Keys, frame[r][k].at # "idle",
         frame' \in [Readers -> [Cached!Keys -> FillCalls]],
         value' \in [Cached!Keys -> [form : {"none", "entry", "plain"}, datum : Nat]],
         fillLock' \in [Cached!Keys -> Readers \cup {Cached!Free}],
         UNCHANGED <<db, resolver, slips, quiet>>,
         \A q \in Readers : q # r => frame'[q] = frame[q],
         \A c \in Cached!Keys : CallInOrder(frame'[r][c]),
         frame'[r]["api"].at # "await" => frame'[r]["dbq"].at = "idle",
         quiet = "after" =>
           \A c \in Cached!Keys :
             /\ value'[c] = Cached!NoValue \/ value'[c].datum = db
             /\ frame'[r][c].at \in {"store", "release"} => frame'[r][c].got = db
  PROVE  CacheType' /\ CallsInOrder' /\ QuietInOrder'
  <1>1. CacheType'
    BY DEF CacheOrder, CacheType
  <1>2. CallsInOrder'
    BY DEF CacheOrder, CallsInOrder
  <1>3. quiet # "during"
    BY DEF CacheOrder, QuietInOrder
  <1>4. Cached!QuietInvalidation'
    BY DEF CacheOrder, QuietInOrder, Cached!QuietInvalidation, Cached!Current, Cached!At
  <1>5. QuietInOrder'
    BY <1>3, <1>4 DEF CacheOrder, QuietInOrder
  <1> QED
    BY <1>1, <1>2, <1>5

(* The same with the counts, for a step that leaves the locks alone.       *)
LEMMA ReaderKeeps ==
  ASSUME CacheOrder, NEW r \in Readers, NEW k \in Cached!Keys, frame[r][k].at # "idle",
         frame' \in [Readers -> [Cached!Keys -> FillCalls]],
         value' \in [Cached!Keys -> [form : {"none", "entry", "plain"}, datum : Nat]],
         UNCHANGED <<db, fillLock, resolver, slips, quiet>>,
         \A q \in Readers : q # r => frame'[q] = frame[q],
         \A c \in Cached!Keys : CallInOrder(frame'[r][c]),
         \A c \in Cached!Keys : Cached!Holding(r, c)' => Cached!Holding(r, c),
         frame'[r]["api"].at # "await" => frame'[r]["dbq"].at = "idle",
         quiet = "after" =>
           \A c \in Cached!Keys :
             /\ value'[c] = Cached!NoValue \/ value'[c].datum = db
             /\ frame'[r][c].at \in {"store", "release"} => frame'[r][c].got = db
  PROVE  CacheOrder'
  <1>1. CacheType' /\ CallsInOrder' /\ QuietInOrder'
    <2>1. fillLock' \in [Cached!Keys -> Readers \cup {Cached!Free}]
      BY DEF CacheOrder, CacheType
    <2> QED
      BY <2>1, ReaderMoves
  <1>2. Flight("api")' /\ Flight("dbq")'
    BY FlightKept DEF CacheOrder
  <1> QED
    BY <1>1, <1>2 DEF CacheOrder

(* What the invariant says of a reader in a call.                          *)
LEMMA CallFacts ==
  ASSUME CacheOrder, NEW r \in Readers
  PROVE  /\ CacheType
         /\ \A c \in Cached!Keys :
              /\ frame[r][c] \in FillCalls /\ CallInOrder(frame[r][c])
              /\ quiet = "after" =>
                   /\ value[c] = Cached!NoValue \/ value[c].datum = db
                   /\ frame[r][c].at \in {"store", "release"} => frame[r][c].got = db
         /\ frame[r]["api"].at # "await" => frame[r]["dbq"].at = "idle"
  BY DEF CacheOrder, CacheType, CallsInOrder, QuietInOrder, Cached!QuietInvalidation,
         Cached!Current, Cached!At

(* get_or_set_json: each step of a reader preserves the invariant.  First  *)
(* a call that ends with a datum, current after a quiet invalidation.      *)
LEMMA ReturnKept ==
  ASSUME CacheOrder, NEW r \in Readers, NEW k \in Cached!Keys, frame[r][k].at \notin {"idle", "await"},
         NEW v \in Nat, Cached!Return(r, k, v), quiet = "after" => v = db,
         value' \in [Cached!Keys -> [form : {"none", "entry", "plain"}, datum : Nat]],
         quiet = "after" =>
           \A c \in Cached!Keys : value'[c] = Cached!NoValue \/ value'[c].datum = db,
         UNCHANGED <<db, resolver, slips, quiet>>
  PROVE  /\ fillLock' = fillLock => CacheOrder'
         /\ fillLock' \in [Cached!Keys -> Readers \cup {Cached!Free}] =>
              CacheType' /\ CallsInOrder' /\ QuietInOrder'
  <1>1. CacheType
    BY DEF CacheOrder
  <1>2. /\ frame' \in [Readers -> [Cached!Keys -> FillCalls]]
        /\ \A q \in Readers : q # r => frame'[q] = frame[q]
        /\ frame'[r][k] = Cached!NoCall
        /\ \A c \in Cached!Keys : c # k =>
             \/ frame'[r][c] = frame[r][c]
             \/ /\ frame[r][c].at = "await" /\ c = "api"
                /\ frame'[r][c] = [at |-> "store", mode |-> frame[r][c].mode, got |-> v]
    BY <1>1, ReturnEffect
  <1>3. \A c \in Cached!Keys : CallInOrder(frame'[r][c])
    BY <1>2, CallFacts DEF CallInOrder, Cached!NoCall
  <1>4. \A c \in Cached!Keys : Cached!Holding(r, c)' => Cached!Holding(r, c)
    BY <1>2 DEF Cached!Holding, Cached!NoCall
  <1>5. frame'[r]["api"].at # "await" => frame'[r]["dbq"].at = "idle"
    BY <1>2, CallFacts DEF Cached!NoCall
  <1>6. quiet = "after" =>
          \A c \in Cached!Keys :
            /\ value'[c] = Cached!NoValue \/ value'[c].datum = db
            /\ frame'[r][c].at \in {"store", "release"} => frame'[r][c].got = db
    BY <1>2, CallFacts DEF Cached!NoCall
  <1>7. fillLock' = fillLock => CacheOrder'
    BY <1>2, <1>3, <1>4, <1>5, <1>6, ReaderKeeps
  <1>8. fillLock' \in [Cached!Keys -> Readers \cup {Cached!Free}] =>
          CacheType' /\ CallsInOrder' /\ QuietInOrder'
    BY <1>2, <1>3, <1>5, <1>6, ReaderMoves
  <1> QED
    BY <1>7, <1>8

(* A call that goes on without becoming a holder.                          *)
LEMMA GotoKept ==
  ASSUME CacheOrder, NEW r \in Readers, NEW k \in Cached!Keys,
         NEW label \in {"lock", "poll", "release"}, Cached!Goto(r, k, label),
         frame[r][k].at \notin {"idle", "await"},
         label = "release" => frame[r][k].mode = "locked" /\ frame[r][k].at = "store",
         label # "release" => frame[r][k].mode = "none",
         value' \in [Cached!Keys -> [form : {"none", "entry", "plain"}, datum : Nat]],
         quiet = "after" =>
           \A c \in Cached!Keys : value'[c] = Cached!NoValue \/ value'[c].datum = db,
         UNCHANGED <<db, fillLock, resolver, slips, quiet>>
  PROVE  CacheOrder'
  <1>1. CacheType /\ label \in Cached!Labels
    BY DEF CacheOrder, Cached!Labels
  <1>2. /\ frame' \in [Readers -> [Cached!Keys -> FillCalls]]
        /\ \A q \in Readers : q # r => frame'[q] = frame[q]
        /\ \A c \in Cached!Keys : c # k => frame'[r][c] = frame[r][c]
        /\ frame'[r][k].at = label /\ frame'[r][k].mode = frame[r][k].mode
        /\ frame'[r][k].got = frame[r][k].got
    BY <1>1, GotoEffect
  <1>3. \A c \in Cached!Keys : CallInOrder(frame'[r][c])
    BY <1>2, CallFacts DEF CallInOrder
  <1>4. \A c \in Cached!Keys : Cached!Holding(r, c)' => Cached!Holding(r, c)
    BY <1>2 DEF Cached!Holding
  <1>5. frame'[r]["api"].at # "await" => frame'[r]["dbq"].at = "idle"
    BY <1>2, CallFacts
  <1>6. quiet = "after" =>
          \A c \in Cached!Keys :
            /\ value'[c] = Cached!NoValue \/ value'[c].datum = db
            /\ frame'[r][c].at \in {"store", "release"} => frame'[r][c].got = db
    BY <1>2, CallFacts
  <1> QED
    BY <1>2, <1>3, <1>4, <1>5, <1>6, ReaderKeeps

(* A step that leaves the readers alone keeps their order; and the counts, *)
(* when it leaves the locks alone, too.                                    *)
LEMMA ReadersRest ==
  ASSUME CacheOrder, frame' = frame
  PROVE  /\ CallsInOrder'
         /\ \A k \in Cached!Keys : Holders(k)' = Holders(k)
         /\ UNCHANGED <<fillLock, slips>> => Flight("api")' /\ Flight("dbq")'
  BY DEF CacheOrder, CallsInOrder, CallInOrder, Holders, Cached!Holding, Flight

(* A lock goes while its holder, if there is one, goes on: that makes room *)
(* for one more.                                                           *)
LEMMA LockFreed ==
  ASSUME CacheOrder, NEW k \in Cached!Keys, UNCHANGED <<db, value, frame, resolver, quiet>>,
         fillLock' = [fillLock EXCEPT ![k] = Cached!Free],
         \/ slips' = [slips EXCEPT ![k] = @ + 1]
         \/ slips' = slips /\ fillLock[k] \notin Holders(k)
  PROVE  CacheOrder'
  <1>1. /\ fillLock' = [fillLock EXCEPT ![k] = Cached!Free]
        /\ UNCHANGED <<db, value, frame, resolver, quiet>> /\ CacheType
    BY DEF CacheOrder
  <1>2. \/ slips' = [slips EXCEPT ![k] = @ + 1]
        \/ slips' = slips /\ fillLock[k] \notin Holders(k)
    OBVIOUS
  <1>3. CacheType'
    BY <1>1, <1>2 DEF CacheType
  <1>4. QuietInOrder'
    BY <1>1 DEF CacheOrder, QuietInOrder, Cached!QuietInvalidation, Cached!Current, Cached!At
  <1>5. Flight(k)'
    <2>1. Holders(k)' = Holders(k) /\ Flight(k) /\ slips[k] \in Nat
      BY <1>1, ReadersRest DEF CacheOrder, CacheType
    <2>2. PICK h \in Nat : h = Cardinality(Holders(k))
      BY FS_Subset, FS_CardinalityType, CacheConstants DEF Holders
    <2>3. \/ slips'[k] = slips[k] + 1
          \/ slips'[k] = slips[k] /\ h =< slips[k]
      BY <1>1, <1>2, <2>1, <2>2 DEF CacheType, Flight
    <2>4. h =< 1 + slips[k] /\ Cardinality(Holders(k)') = h
      BY <2>1, <2>2 DEF Flight
    <2> QED
      BY <2>1, <2>3, <2>4 DEF Flight
  <1>6. ASSUME NEW c \in Cached!Keys, c # k PROVE Flight(c)'
    <2>1. Holders(c)' = Holders(c) /\ Flight(c)
      BY <1>1, ReadersRest DEF CacheOrder
    <2>2. fillLock'[c] = fillLock[c] /\ slips'[c] = slips[c]
      BY <1>1, <1>2, <1>6 DEF CacheType
    <2> QED
      BY <2>1, <2>2 DEF Flight
  <1> QED
    BY <1>1, <1>3, <1>4, <1>5, <1>6, ReadersRest DEF CacheOrder

(* The lookup.                                                             *)
LEMMA LookupKept ==
  ASSUME CacheOrder, NEW r \in Readers, NEW k \in Cached!Keys, Cached!Lookup(r, k)
  PROVE  CacheOrder'
  <1>0. /\ CacheType /\ frame[r][k].at = "lookup"
        /\ value[k].datum \in Nat
        /\ UNCHANGED <<db, value, fillLock, resolver, slips, quiet>>
    BY DEF Cached!Lookup, Cached!At, CacheOrder, CacheType
  <1>1. CASE value[k] # Cached!NoValue /\ Cached!Return(r, k, value[k].datum)
    BY <1>0, <1>1, CallFacts, ReturnKept DEF CacheType
  <1>2. CASE Cached!Goto(r, k, "lock")
    BY <1>0, <1>2, CallFacts, GotoKept DEF CacheType, CallInOrder
  <1> QED
    BY <1>1, <1>2 DEF Cached!Lookup

(* SET NX: whoever gets the lock, and its answer, becomes a holder.        *)
LEMMA TryLockKept ==
  ASSUME CacheOrder, NEW r \in Readers, NEW k \in Cached!Keys, Cached!TryLock(r, k)
  PROVE  CacheOrder'
  <1>0. /\ CacheType /\ frame[r][k].at = "lock" /\ frame[r][k].mode = "none"
        /\ frame[r][k] \in FillCalls
        /\ UNCHANGED <<db, value, resolver, slips, quiet>>
    BY CallFacts DEF Cached!TryLock, Cached!At, CallInOrder
  <1>1. CASE /\ fillLock[k] = Cached!Free /\ fillLock' = [fillLock EXCEPT ![k] = r]
             /\ frame' = [frame EXCEPT ![r][k].at = "fetch", ![r][k].mode = "locked"]
    <2>1. /\ \A q \in Readers : q # r => frame'[q] = frame[q]
          /\ \A c \in Cached!Keys : c # k => frame'[r][c] = frame[r][c]
          /\ frame'[r][k] = [at |-> "fetch", mode |-> "locked", got |-> frame[r][k].got]
      BY <1>0, <1>1 DEF CacheType, FillCalls
    <2>2. frame' \in [Readers -> [Cached!Keys -> FillCalls]]
      <3>1. [at |-> "fetch", mode |-> "locked", got |-> frame[r][k].got] \in FillCalls
        BY <1>0 DEF FillCalls, Modes, Cached!Labels
      <3>2. /\ frame' = [q \in Readers |-> frame'[q]]
            /\ frame'[r] = [c \in Cached!Keys |-> frame'[r][c]]
        BY <1>0, <1>1 DEF CacheType
      <3> QED
        BY <1>0, <2>1, <3>1, <3>2, FrameTyped
    <2>3. /\ \A c \in Cached!Keys : CallInOrder(frame'[r][c])
          /\ frame'[r]["api"].at # "await" => frame'[r]["dbq"].at = "idle"
      BY <1>0, <2>1, CallFacts DEF CallInOrder
    <2>4. quiet = "after" =>
            \A c \in Cached!Keys :
              /\ value'[c] = Cached!NoValue \/ value'[c].datum = db
              /\ frame'[r][c].at \in {"store", "release"} => frame'[r][c].got = db
      BY <1>0, <2>1, CallFacts
    <2>5. fillLock' \in [Cached!Keys -> Readers \cup {Cached!Free}]
      BY <1>0, <1>1 DEF CacheType
    <2>6. CacheType' /\ CallsInOrder' /\ QuietInOrder'
      BY <1>0, <2>1, <2>2, <2>3, <2>4, <2>5, ReaderMoves DEF CacheType
    <2>7. Flight(k)'
      <3>1. Holders(k)' = Holders(k) \cup {r}
        BY <1>0, <2>1 DEF Holders, Cached!Holding
      <3>2. fillLock[k] \notin Holders(k)
        BY <1>1, CacheConstants DEF Holders
      <3>3. Cardinality(Holders(k)) =< slips[k] /\ slips[k] \in Nat
        BY <1>0, <3>2 DEF CacheOrder, Flight, CacheType
      <3>4. /\ Cardinality(Holders(k)) \in Nat /\ Cardinality(Holders(k)') \in Nat
            /\ Cardinality(Holders(k)') =< Cardinality(Holders(k)) + 1
        BY <3>1, HolderCounts DEF Holders
      <3>5. fillLock'[k] \in Holders(k)'
        BY <1>0, <1>1, <3>1 DEF CacheType
      <3> QED
        BY <1>0, <3>3, <3>4, <3>5 DEF Flight
    <2>8. ASSUME NEW c \in Cached!Keys, c # k PROVE Flight(c)'
      <3>1. Flight(c) /\ fillLock'[c] = fillLock[c] /\ slips'[c] = slips[c]
        BY <1>0, <1>1, <2>8 DEF CacheOrder, CacheType
      <3>2. Cached!Holding(r, c)' => Cached!Holding(r, c)
        BY <2>1, <2>8 DEF Cached!Holding
      <3> QED
        BY <1>0, <2>1, <3>1, <3>2, FlightKept
    <2> QED
      BY <2>6, <2>7, <2>8 DEF CacheOrder
  <1>2. CASE Cached!Goto(r, k, "poll") /\ UNCHANGED fillLock
    BY <1>0, <1>2, CallFacts, GotoKept DEF CacheType
  <1>3. CASE /\ fillLock[k] = Cached!Free /\ fillLock' = [fillLock EXCEPT ![k] = r]
             /\ Cached!Goto(r, k, "poll")
    <2>1. /\ frame' \in [Readers -> [Cached!Keys -> FillCalls]]
          /\ \A q \in Readers : q # r => frame'[q] = frame[q]
          /\ \A c \in Cached!Keys : c # k => frame'[r][c] = frame[r][c]
          /\ frame'[r][k].at = "poll" /\ frame'[r][k].mode = "none"
      <3>1. "poll" \in Cached!Labels
        BY DEF Cached!Labels
      <3> QED
        BY <1>0, <1>3, <3>1, GotoEffect
    <2>2. /\ \A c \in Cached!Keys : CallInOrder(frame'[r][c])
          /\ frame'[r]["api"].at # "await" => frame'[r]["dbq"].at = "idle"
      BY <1>0, <2>1, CallFacts DEF CallInOrder
    <2>3. quiet = "after" =>
            \A c \in Cached!Keys :
              /\ value'[c] = Cached!NoValue \/ value'[c].datum = db
              /\ frame'[r][c].at \in {"store", "release"} => frame'[r][c].got = db
      BY <1>0, <2>1, CallFacts
    <2>4. fillLock' \in [Cached!Keys -> Readers \cup {Cached!Free}]
      BY <1>0, <1>3 DEF CacheType
    <2>5. CacheType' /\ CallsInOrder' /\ QuietInOrder'
      BY <1>0, <2>1, <2>2, <2>3, <2>4, ReaderMoves DEF CacheType
    <2>6. Flight(k)'
      <3>1. Holders(k)' = Holders(k)
        BY <1>0, <2>1 DEF Holders, Cached!Holding
      <3>2. fillLock[k] \notin Holders(k)
        BY <1>3, CacheConstants DEF Holders
      <3> QED
        BY <1>0, <3>1, <3>2 DEF CacheOrder, Flight, CacheType
    <2>7. ASSUME NEW c \in Cached!Keys, c # k PROVE Flight(c)'
      <3>1. Flight(c) /\ fillLock'[c] = fillLock[c] /\ slips'[c] = slips[c]
        BY <1>0, <1>3, <2>7 DEF CacheOrder, CacheType
      <3>2. Cached!Holding(r, c)' => Cached!Holding(r, c)
        BY <2>1, <2>7 DEF Cached!Holding
      <3> QED
        BY <1>0, <2>1, <3>1, <3>2, FlightKept
    <2> QED
      BY <2>5, <2>6, <2>7 DEF CacheOrder
  <1> QED
    BY <1>1, <1>2, <1>3 DEF Cached!TryLock

(* The wait for another reader's result.                                   *)
LEMMA PollKept ==
  ASSUME CacheOrder, NEW r \in Readers, NEW k \in Cached!Keys, Cached!Poll(r, k)
  PROVE  CacheOrder'
  <1>0. /\ CacheType /\ frame[r][k].at = "poll" /\ value[k].datum \in Nat
        /\ frame[r][k] \in FillCalls
        /\ UNCHANGED <<db, value, fillLock, resolver, slips, quiet>>
    BY CallFacts DEF Cached!Poll, Cached!At, CacheType
  <1>1. CASE value[k] # Cached!NoValue /\ Cached!Return(r, k, value[k].datum)
    BY <1>0, <1>1, CallFacts, ReturnKept DEF CacheType
  <1>2. CASE frame' = [frame EXCEPT ![r][k].at = "fetch", ![r][k].mode = "late"]
    <2>1. /\ \A q \in Readers : q # r => frame'[q] = frame[q]
          /\ \A c \in Cached!Keys : c # k => frame'[r][c] = frame[r][c]
          /\ frame'[r][k] = [at |-> "fetch", mode |-> "late", got |-> frame[r][k].got]
      BY <1>0, <1>2 DEF CacheType, FillCalls
    <2>2. frame' \in [Readers -> [Cached!Keys -> FillCalls]]
      <3>1. [at |-> "fetch", mode |-> "late", got |-> frame[r][k].got] \in FillCalls
        BY <1>0 DEF FillCalls, Modes, Cached!Labels
      <3>2. /\ frame' = [q \in Readers |-> frame'[q]]
            /\ frame'[r] = [c \in Cached!Keys |-> frame'[r][c]]
        BY <1>0, <1>2 DEF CacheType
      <3> QED
        BY <1>0, <2>1, <3>1, <3>2, FrameTyped
    <2>3. /\ \A c \in Cached!Keys : CallInOrder(frame'[r][c])
          /\ frame'[r]["api"].at # "await" => frame'[r]["dbq"].at = "idle"
      BY <1>0, <2>1, CallFacts DEF CallInOrder
    <2>4. quiet = "after" =>
            \A c \in Cached!Keys :
              /\ value'[c] = Cached!NoValue \/ value'[c].datum = db
              /\ frame'[r][c].at \in {"store", "release"} => frame'[r][c].got = db
      BY <1>0, <2>1, CallFacts
    <2>5. \A c \in Cached!Keys : Cached!Holding(r, c)' => Cached!Holding(r, c)
      BY <2>1 DEF Cached!Holding
    <2> QED
      BY <1>0, <2>1, <2>2, <2>3, <2>4, <2>5, ReaderKeeps DEF CacheType
  <1> QED
    BY <1>1, <1>2 DEF Cached!Poll

(* The fetcher: a query, or the call on the lower key; a query that fails  *)
(* ends every call of its reader.                                          *)
LEMMA FetchKept ==
  ASSUME CacheOrder, NEW r \in Readers, NEW k \in Cached!Keys, Cached!Fetch(r, k)
  PROVE  CacheOrder'
  <1>0. /\ CacheType /\ frame[r][k].at = "fetch"
        /\ frame[r][k] \in FillCalls /\ db \in Nat
        /\ UNCHANGED <<db, value, fillLock, resolver, slips, quiet>>
    BY CallFacts DEF Cached!Fetch, Cached!At, CacheType
  <1>1. CASE k = "dbq" /\ frame' = [frame EXCEPT ![r][k].at = "store", ![r][k].got = db]
    <2>1. /\ \A q \in Readers : q # r => frame'[q] = frame[q]
          /\ \A c \in Cached!Keys : c # k => frame'[r][c] = frame[r][c]
          /\ frame'[r][k] = [at |-> "store", mode |-> frame[r][k].mode, got |-> db]
      BY <1>0, <1>1 DEF CacheType, FillCalls
    <2>2. frame' \in [Readers -> [Cached!Keys -> FillCalls]]
      <3>1. [at |-> "store", mode |-> frame[r][k].mode, got |-> db] \in FillCalls
        BY <1>0 DEF FillCalls, Cached!Labels
      <3>2. /\ frame' = [q \in Readers |-> frame'[q]]
            /\ frame'[r] = [c \in Cached!Keys |-> frame'[r][c]]
        BY <1>0, <1>1 DEF CacheType
      <3> QED
        BY <1>0, <2>1, <3>1, <3>2, FrameTyped
    <2>3. /\ \A c \in Cached!Keys : CallInOrder(frame'[r][c])
          /\ frame'[r]["api"].at # "await" => frame'[r]["dbq"].at = "idle"
      <3>1. CallInOrder(frame'[r]["dbq"])
        BY <1>1, <2>1 DEF CallInOrder
      <3>2. frame'[r]["api"] = frame[r]["api"] /\ CallInOrder(frame[r]["api"])
        BY <1>1, <2>1, CallFacts
      <3>3. frame[r]["api"].at = "await"
        BY <1>0, <1>1, CallFacts
      <3> QED
        BY <3>1, <3>2, <3>3
    <2>4. quiet = "after" =>
            \A c \in Cached!Keys :
              /\ value'[c] = Cached!NoValue \/ value'[c].datum = db
              /\ frame'[r][c].at \in {"store", "release"} => frame'[r][c].got = db
      BY <1>0, <2>1, CallFacts
    <2>5. \A c \in Cached!Keys : Cached!Holding(r, c)' => Cached!Holding(r, c)
      BY <1>0, <2>1 DEF Cached!Holding
    <2> QED
      BY <1>0, <2>1, <2>2, <2>3, <2>4, <2>5, ReaderKeeps DEF CacheType
  <1>2. CASE k = "api" /\ frame' = [frame EXCEPT ![r]["api"].at = "await", ![r]["dbq"].at = "lookup"]
    <2>0. frame[r]["dbq"].at = "idle" /\ frame[r]["dbq"].mode = "none" /\ frame[r]["dbq"] \in FillCalls
      BY <1>0, <1>2, CallFacts DEF CallInOrder
    <2>1. /\ \A q \in Readers : q # r => frame'[q] = frame[q]
          /\ frame'[r]["api"] = [at |-> "await", mode |-> frame[r]["api"].mode, got |-> frame[r]["api"].got]
          /\ frame'[r]["dbq"] = [at |-> "lookup", mode |-> frame[r]["dbq"].mode, got |-> frame[r]["dbq"].got]
      BY <1>0, <1>2, <2>0 DEF CacheType, FillCalls
    <2>2. frame' \in [Readers -> [Cached!Keys -> FillCalls]]
      <3>1. frame'[r]["api"] \in FillCalls /\ frame'[r]["dbq"] \in FillCalls
        BY <1>0, <1>2, <2>0, <2>1 DEF FillCalls, Cached!Labels
      <3>2. /\ frame' = [q \in Readers |-> frame'[q]]
            /\ frame'[r] = [c \in Cached!Keys |-> frame'[r][c]]
        BY <1>0, <1>2 DEF CacheType
      <3>3. frame'[r] \in [Cached!Keys -> FillCalls]
        BY <3>1, <3>2
      <3>4. \A q \in Readers : frame'[q] \in [Cached!Keys -> FillCalls]
        BY <1>0, <2>1, <3>3 DEF CacheType
      <3> QED
        BY <3>2, <3>4
    <2>3. /\ \A c \in Cached!Keys : CallInOrder(frame'[r][c])
          /\ frame'[r]["api"].at # "await" => frame'[r]["dbq"].at = "idle"
      <3>1. CallInOrder(frame'[r]["dbq"])
        BY <2>0, <2>1 DEF CallInOrder
      <3>2. CallInOrder(frame'[r]["api"]) /\ frame'[r]["api"].at = "await"
        BY <2>1 DEF CallInOrder
      <3> QED
        BY <3>1, <3>2
    <2>4. quiet = "after" =>
            \A c \in Cached!Keys :
              /\ value'[c] = Cached!NoValue \/ value'[c].datum = db
              /\ frame'[r][c].at \in {"store", "release"} => frame'[r][c].got = db
      BY <1>0, <2>1, CallFacts
    <2>5. \A c \in Cached!Keys : Cached!Holding(r, c)' => Cached!Holding(r, c)
      <3>1. Cached!Holding(r, "api")' => Cached!Holding(r, "api")
        BY <1>0, <1>2, <2>1 DEF Cached!Holding
      <3>2. ~Cached!Holding(r, "dbq")'
        BY <2>0, <2>1 DEF Cached!Holding
      <3> QED
        BY <3>1, <3>2
    <2> QED
      BY <1>0, <2>1, <2>2, <2>3, <2>4, <2>5, ReaderKeeps DEF CacheType
  <1>3. CASE k = "dbq" /\ frame' = [frame EXCEPT ![r] = [c \in Cached!Keys |-> Cached!NoCall]]
    <2>0. Cached!NoCall \in FillCalls
      BY DEF Cached!NoCall, FillCalls, Modes, Cached!Labels
    <2>1. /\ \A q \in Readers : q # r => frame'[q] = frame[q]
          /\ \A c \in Cached!Keys : frame'[r][c] = Cached!NoCall
          /\ frame' \in [Readers -> [Cached!Keys -> FillCalls]]
      BY <1>0, <1>3, <2>0 DEF CacheType
    <2>3. /\ \A c \in Cached!Keys : CallInOrder(frame'[r][c])
          /\ frame'[r]["api"].at # "await" => frame'[r]["dbq"].at = "idle"
      BY <2>1 DEF CallInOrder, Cached!NoCall
    <2>4. quiet = "after" =>
            \A c \in Cached!Keys :
              /\ value'[c] = Cached!NoValue \/ value'[c].datum = db
              /\ frame'[r][c].at \in {"store", "release"} => frame'[r][c].got = db
      BY <1>0, <2>1, CallFacts DEF Cached!NoCall
    <2>5. \A c \in Cached!Keys : Cached!Holding(r, c)' => Cached!Holding(r, c)
      BY <2>1 DEF Cached!Holding, Cached!NoCall
    <2> QED
      BY <1>0, <2>1, <2>3, <2>4, <2>5, ReaderKeeps DEF CacheType
  <1> QED
    BY <1>1, <1>2, <1>3 DEF Cached!Fetch

(* The write of what was fetched.                                          *)
LEMMA StoreKept ==
  ASSUME CacheOrder, NEW r \in Readers, NEW k \in Cached!Keys, Cached!Store(r, k)
  PROVE  CacheOrder'
  <1>0. /\ CacheType /\ frame[r][k].at = "store" /\ frame[r][k].got \in Nat
        /\ UNCHANGED <<db, fillLock, resolver, slips, quiet>>
        /\ quiet = "after" => frame[r][k].got = db
    BY CallFacts DEF Cached!Store, Cached!At, FillCalls
  <1>1. \/ value' = value
        \/ \E form \in {"entry", "plain"} :
             value' = [value EXCEPT ![k] = [form |-> form, datum |-> frame[r][k].got]]
    BY DEF Cached!Store
  <1>2. /\ value' \in [Cached!Keys -> [form : {"none", "entry", "plain"}, datum : Nat]]
        /\ quiet = "after" =>
             \A c \in Cached!Keys : value'[c] = Cached!NoValue \/ value'[c].datum = db
    <2>1. CASE value' = value
      BY <1>0, <2>1, CallFacts DEF CacheType
    <2>2. ASSUME NEW form \in {"entry", "plain"},
                 value' = [value EXCEPT ![k] = [form |-> form, datum |-> frame[r][k].got]]
          PROVE  /\ value' \in [Cached!Keys -> [form : {"none", "entry", "plain"}, datum : Nat]]
                 /\ quiet = "after" =>
                      \A c \in Cached!Keys : value'[c] = Cached!NoValue \/ value'[c].datum = db
      BY <1>0, <2>2, CallFacts DEF CacheType
    <2> QED
      BY <1>1, <2>1, <2>2
  <1>3. CASE frame[r][k].mode = "locked" /\ Cached!Goto(r, k, "release")
    BY <1>0, <1>2, <1>3, GotoKept
  <1>4. CASE Cached!Return(r, k, frame[r][k].got)
    BY <1>0, <1>2, <1>4, ReturnKept
  <1>5. CASE frame' = frame
    BY <1>0, <1>2, <1>5, CallFacts, ReaderKeeps DEF CacheType, Cached!Holding
  <1> QED
    BY <1>3, <1>4, <1>5 DEF Cached!Store

(* DEL of the lock: its caller is no holder any more, whoever else is; or  *)
(* the answer is lost, and it stays to repeat the command.                 *)
LEMMA ReleaseKept ==
  ASSUME CacheOrder, NEW r \in Readers, NEW k \in Cached!Keys, Cached!Release(r, k)
  PROVE  CacheOrder'
  <1>0. /\ CacheType /\ frame[r][k].at = "release" /\ frame[r][k].got \in Nat
        /\ frame[r][k].mode = "locked"
        /\ UNCHANGED <<db, value, resolver, quiet>>
        /\ quiet = "after" => frame[r][k].got = db
    BY CallFacts DEF Cached!Release, Cached!At, FillCalls, CallInOrder
  <1>1. CASE /\ fillLock' = [fillLock EXCEPT ![k] = Cached!Free]
             /\ Cached!Return(r, k, frame[r][k].got) /\ UNCHANGED slips
    <2>1. fillLock' \in [Cached!Keys -> Readers \cup {Cached!Free}]
      BY <1>0, <1>1 DEF CacheType
    <2>2. CacheType' /\ CallsInOrder' /\ QuietInOrder'
      BY <1>0, <1>1, <2>1, CallFacts, ReturnKept DEF CacheType
    <2>3. /\ \A q \in Readers : q # r => frame'[q] = frame[q]
          /\ frame'[r][k] = Cached!NoCall
          /\ \A c \in Cached!Keys : c # k =>
               \/ frame'[r][c] = frame[r][c]
               \/ frame'[r][c].mode = frame[r][c].mode /\ frame[r][c].at = "await"
      <3>1. PICK v \in Nat : v = frame[r][k].got
        BY <1>0
      <3>2. Cached!Return(r, k, v)
        BY <1>0, <1>1, <3>1
      <3>3. /\ \A q \in Readers : q # r => frame'[q] = frame[q]
            /\ frame'[r][k] = Cached!NoCall
            /\ \A c \in Cached!Keys : c # k =>
                 \/ frame'[r][c] = frame[r][c]
                 \/ /\ frame[r][c].at = "await" /\ c = "api"
                    /\ frame'[r][c] = [at |-> "store", mode |-> frame[r][c].mode, got |-> v]
        BY <1>0, <3>2, ReturnEffect
      <3> QED
        BY <3>3
    <2>4. Flight(k)'
      <3>1. Holders(k)' = Holders(k) \ {r} /\ r \in Holders(k) /\ Holders(k) \subseteq Readers
        BY <1>0, <2>3 DEF Holders, Cached!Holding, Cached!NoCall
      <3>2. Cardinality(Holders(k)') = Cardinality(Holders(k)) - 1 /\ Cardinality(Holders(k)) \in Nat
        BY <3>1, HolderCounts
      <3>3. Cardinality(Holders(k)) =< 1 + slips[k] /\ slips[k] \in Nat
        BY <1>0 DEF CacheOrder, Flight, CacheType
      <3> QED
        BY <1>0, <1>1, <3>2, <3>3 DEF Flight
    <2>5. ASSUME NEW c \in Cached!Keys, c # k PROVE Flight(c)'
      <3>1. Flight(c) /\ fillLock'[c] = fillLock[c] /\ slips'[c] = slips[c]
        BY <1>0, <1>1, <2>5 DEF CacheOrder, CacheType
      <3>2. Cached!Holding(r, c)' => Cached!Holding(r, c)
        BY <2>3, <2>5 DEF Cached!Holding
      <3> QED
        BY <1>0, <2>3, <3>1, <3>2, FlightKept
    <2> QED
      BY <2>2, <2>4, <2>5 DEF CacheOrder
  <1>2. CASE UNCHANGED <<fillLock, slips>> /\ Cached!Return(r, k, frame[r][k].got)
    BY <1>0, <1>2, CallFacts, ReturnKept DEF CacheType
  <1>3. CASE /\ fillLock' = [fillLock EXCEPT ![k] = Cached!Free]
             /\ slips' = [slips EXCEPT ![k] = @ + 1] /\ UNCHANGED frame
    BY <1>0, <1>3, LockFreed
  <1> QED
    BY <1>1, <1>2, <1>3 DEF Cached!Release

(* A request begins.                                                       *)
LEMMA BeginKept ==
  ASSUME CacheOrder, NEW r \in Readers, Cached!Begin(r)
  PROVE  CacheOrder'
  <1>0. /\ CacheType /\ frame[r]["api"].at = "idle" /\ frame[r]["dbq"].at = "idle"
        /\ frame[r]["api"] \in FillCalls /\ frame[r]["api"].mode = "none"
        /\ UNCHANGED <<db, value, fillLock, resolver, slips>>
        /\ quiet' = IF quiet = "during" THEN "no" ELSE quiet
    BY CallFacts DEF Cached!Begin, Cached!Busy, Cached!At, CallInOrder
  <1>1. /\ frame' \in [Readers -> [Cached!Keys -> FillCalls]]
        /\ \A q \in Readers : q # r => frame'[q] = frame[q]
        /\ frame'[r]["dbq"] = frame[r]["dbq"]
        /\ \/ frame'[r]["api"].at = "lookup" /\ frame'[r]["api"].mode = "none"
           \/ frame'[r]["api"].at = "fetch" /\ frame'[r]["api"].mode = "bypass"
    <2>1. CASE Cached!Goto(r, "api", "lookup")
      <3>1. "lookup" \in Cached!Labels /\ "api" \in Cached!Keys
        BY DEF Cached!Labels
      <3>2. /\ frame' \in [Readers -> [Cached!Keys -> FillCalls]]
            /\ \A q \in Readers : q # r => frame'[q] = frame[q]
            /\ \A c \in Cached!Keys : c # "api" => frame'[r][c] = frame[r][c]
            /\ frame'[r]["api"].at = "lookup" /\ frame'[r]["api"].mode = frame[r]["api"].mode
        BY <1>0, <2>1, <3>1, GotoEffect
      <3> QED
        BY <1>0, <3>2
    <2>2. CASE frame' = [frame EXCEPT ![r]["api"] = [Cached!NoCall EXCEPT !.at = "fetch", !.mode = "bypass"]]
      <3> DEFINE f == [Cached!NoCall EXCEPT !.at = "fetch", !.mode = "bypass"]
      <3>1. f \in FillCalls /\ f.at = "fetch" /\ f.mode = "bypass"
        BY DEF Cached!NoCall, FillCalls, Modes, Cached!Labels
      <3>2. frame' = [frame EXCEPT ![r]["api"] = f]
        BY <2>2
      <3> HIDE DEF f
      <3> QED
        BY <1>0, <3>1, <3>2 DEF CacheType
    <2> QED
      BY <2>1, <2>2 DEF Cached!Begin
  <1>2. CacheType'
    BY <1>0, <1>1 DEF CacheType
  <1>3. CallsInOrder'
    BY <1>0, <1>1 DEF CacheOrder, CallsInOrder, CallInOrder
  <1>4. ASSUME NEW c \in Cached!Keys PROVE Flight(c)'
    <2>1. ~Cached!Holding(r, c)'
      BY <1>0, <1>1, CallFacts DEF Cached!Holding
    <2>2. Flight(c) /\ fillLock'[c] = fillLock[c] /\ slips'[c] = slips[c]
      BY <1>0 DEF CacheOrder
    <2> QED
      BY <1>0, <1>1, <2>1, <2>2, FlightKept
  <1>5. quiet' # "during" /\ (quiet' = "after" => quiet = "after")
    BY <1>0 DEF CacheType
  <1>6. Cached!QuietInvalidation'
    BY <1>0, <1>1, <1>5
       DEF CacheOrder, QuietInOrder, Cached!QuietInvalidation, Cached!Current, Cached!At
  <1>7. QuietInOrder'
    BY <1>0, <1>5, <1>6 DEF CacheOrder, QuietInOrder
  <1> QED
    BY <1>2, <1>3, <1>4, <1>7 DEF CacheOrder

(* A value expires.                                                        *)
LEMMA ExpireValueKept ==
  ASSUME CacheOrder, NEW k \in Cached!Keys, Cached!ExpireValue(k)
  PROVE  CacheOrder'
  <1>1. /\ value' = [value EXCEPT ![k] = Cached!NoValue]
        /\ UNCHANGED <<db, fillLock, frame, resolver, faults, slips, quiet>>
    BY DEF Cached!ExpireValue
  <1>2. CacheType'
    BY <1>1 DEF CacheOrder, CacheType, Cached!NoValue
  <1>3. \A c \in Cached!Keys : value'[c] = value[c] \/ value'[c] = Cached!NoValue
    BY <1>1 DEF CacheOrder, CacheType
  <1>4. QuietInOrder'
    BY <1>1, <1>3 DEF CacheOrder, QuietInOrder, Cached!QuietInvalidation, Cached!Current,
                      Cached!At
  <1> QED
    BY <1>1, <1>2, <1>4, ReadersRest DEF CacheOrder

(* A lock expires: under its holder that counts.                           *)
LEMMA ExpireLockKept ==
  ASSUME CacheOrder, NEW k \in Cached!Keys, Cached!ExpireLock(k)
  PROVE  CacheOrder'
  BY LockFreed DEF Cached!ExpireLock, Holders

(* resolve_market and its invalidation.                                    *)
LEMMA ResolverKept ==
  ASSUME CacheOrder, Cached!ResolveMarket \/ Cached!TagStoreInvalidate \/ Cached!Invalidate
  PROVE  CacheOrder'
  <1> USE DEF Cached!Idle, Cached!Tags
  <1>0. CacheType /\ UNCHANGED <<fillLock, frame, slips>>
    BY DEF CacheOrder, Cached!ResolveMarket, Cached!TagStoreInvalidate, Cached!Invalidate
  <1>1. CASE Cached!ResolveMarket
    <2>0. <<Cached!Tags>> \o <<"api", "dbq">> = <<Cached!Tags, "api", "dbq">>
      <3> DEFINE s == <<Cached!Tags>> \o <<"api", "dbq">>
                 t == <<Cached!Tags, "api", "dbq">>
      <3>1. s \in Seq({"tags", "api", "dbq"}) /\ Len(s) = 3
        OBVIOUS
      <3>2. t \in Seq({"tags", "api", "dbq"}) /\ Len(t) = 3
        OBVIOUS
      <3>3. s[1] = t[1] /\ s[2] = t[2] /\ s[3] = t[3]
        OBVIOUS
      <3> HIDE DEF s, t
      <3>4. \A i \in 1..3 : s[i] = t[i]
        BY <3>3
      <3>5. s = t
        BY <3>1, <3>2, <3>4
      <3> QED
        BY <3>5 DEF s, t
    <2>1. /\ resolver' = <<Cached!Tags, "api", "dbq">> /\ db' = db + 1 /\ value' = value
          /\ quiet' = "no" \/ (quiet' = "during" /\ \A r \in Readers : ~Cached!Busy(r))
      BY <1>1, <2>0 DEF Cached!ResolveMarket, Cached!UpdateRow, Cached!CacheKeys
    <2>2. CacheType'
      BY <1>0, <2>1 DEF CacheType
    <2>3. QuietInOrder'
      BY <1>0, <2>1 DEF QuietInOrder, Cached!QuietInvalidation, Cached!Busy, Cached!At
    <2> QED
      BY <1>0, <2>2, <2>3, ReadersRest DEF CacheOrder
  <1>2. CASE Cached!InvalidationFails /\ db' = db
    <2>1. resolver' = Cached!Idle /\ quiet' = "no" /\ value' = value
      BY <1>2 DEF Cached!InvalidationFails
    <2>2. CacheType' /\ QuietInOrder'
      BY <1>0, <1>2, <2>1 DEF CacheType, QuietInOrder, Cached!QuietInvalidation
    <2> QED
      BY <1>0, <2>2, ReadersRest DEF CacheOrder
  <1>3. CASE /\ resolver # Cached!Idle /\ Head(resolver) = Cached!Tags
             /\ resolver' = Tail(resolver) /\ UNCHANGED <<db, value, quiet>>
    <2>0. resolver = <<Cached!Tags, "api", "dbq">>
      BY <1>0, <1>3 DEF CacheType
    <2>1. resolver' = <<"api", "dbq">>
      BY <1>3, <2>0
    <2>3. CacheType'
      BY <1>0, <1>3, <2>1 DEF CacheType
    <2>4. resolver' # <<"dbq">> /\ resolver' # Cached!Idle
      BY <2>1
    <2>2. CacheType' /\ QuietInOrder'
      BY <1>0, <1>3, <2>0, <2>3, <2>4
         DEF CacheOrder, QuietInOrder, Cached!QuietInvalidation, Cached!Current, Cached!At
    <2> QED
      BY <1>0, <2>2, ReadersRest DEF CacheOrder
  <1>4. CASE /\ resolver # Cached!Idle /\ Head(resolver) # Cached!Tags
             /\ value' = [value EXCEPT ![Head(resolver)] = Cached!NoValue]
             /\ resolver' = IF Len(resolver) = 1 THEN Cached!Idle ELSE Tail(resolver)
             /\ quiet' = IF Len(resolver) = 1 /\ quiet = "during" THEN "after" ELSE quiet
             /\ db' = db
    <2>0. resolver \in {<<"api", "dbq">>, <<"dbq">>}
      BY <1>0, <1>4 DEF CacheType
    <2>1. CASE resolver = <<"api", "dbq">>
      <3>1. /\ value' = [value EXCEPT !["api"] = Cached!NoValue]
            /\ resolver' = <<"dbq">> /\ quiet' = quiet
        BY <1>4, <2>1
      <3>2. CacheType' /\ QuietInOrder'
        BY <1>0, <1>4, <2>1, <3>1
           DEF CacheType, CacheOrder, QuietInOrder, Cached!QuietInvalidation, Cached!NoValue
      <3> QED
        BY <1>0, <3>2, ReadersRest DEF CacheOrder
    <2>2. CASE resolver = <<"dbq">>
      <3>1. /\ value' = [value EXCEPT !["dbq"] = Cached!NoValue]
            /\ resolver' = Cached!Idle
            /\ quiet' = IF quiet = "during" THEN "after" ELSE quiet
        BY <1>4, <2>2
      <3>2. CacheType'
        BY <1>0, <1>4, <3>1 DEF CacheType, Cached!NoValue
      <3>3. quiet' # "during" /\ quiet # "after" /\ (quiet' = "after" => quiet = "during")
        BY <1>0, <2>2, <3>1 DEF CacheType, CacheOrder, QuietInOrder
      <3>4. quiet' = "after" => \A c \in Cached!Keys : value'[c] = Cached!NoValue
        BY <1>0, <2>2, <3>1, <3>3 DEF CacheType, CacheOrder, QuietInOrder
      <3>5. Cached!QuietInvalidation'
        BY <1>0, <3>3, <3>4 DEF CacheOrder, QuietInOrder, Cached!QuietInvalidation,
                                Cached!Current, Cached!At
      <3>6. QuietInOrder'
        BY <3>1, <3>3, <3>5 DEF QuietInOrder
      <3> QED
        BY <1>0, <3>2, <3>6, ReadersRest DEF CacheOrder
    <2> QED
      BY <2>0, <2>1, <2>2
  <1>5. CASE /\ resolver # Cached!Idle /\ Head(resolver) # Cached!Tags
             /\ value' = [value EXCEPT ![Head(resolver)] = Cached!NoValue]
             /\ UNCHANGED <<resolver, quiet, db>>
    <2>1. resolver = <<"api", "dbq">> \/ resolver = <<"dbq">>
      BY <1>0, <1>5 DEF CacheType
    <2>2. PICK k \in Cached!Keys : value' = [value EXCEPT ![k] = Cached!NoValue]
      <3>1. Head(<<"api", "dbq">>) = "api" /\ Head(<<"dbq">>) = "dbq"
        OBVIOUS
      <3>2. Head(resolver) \in Cached!Keys
        BY <2>1, <3>1 DEF Cached!Keys
      <3> QED
        BY <1>5, <3>2, Zenon
    <2>3. CacheType'
      BY <1>0, <1>5, <2>2 DEF CacheType, Cached!NoValue
    <2>4. \A c \in Cached!Keys : value'[c] = value[c] \/ value'[c] = Cached!NoValue
      BY <1>0, <2>2 DEF CacheType
    <2>5. QuietInOrder'
      BY <1>0, <1>5, <2>4 DEF CacheOrder, QuietInOrder, Cached!QuietInvalidation, Cached!Current,
                              Cached!At
    <2> QED
      BY <1>0, <2>3, <2>5, ReadersRest DEF CacheOrder
  <1> QED
    BY <1>1, <1>2, <1>3, <1>4, <1>5 DEF Cached!TagStoreInvalidate, Cached!Invalidate

(* Every step preserves it.                                                *)
LEMMA CacheNext == CacheInv /\ [Next]_vars => CacheInv'
  <1> SUFFICES ASSUME CacheInv, [Next]_vars, focus' = "cache" PROVE CacheOrder'
    BY DEF CacheInv
  <1>0. focus = "cache" /\ CacheOrder
    BY FocusStays DEF CacheInv
  <1>1. CASE UNCHANGED <<db, value, fillLock, frame, resolver, faults, slips, quiet>>
    BY <1>0, <1>1
       DEF CacheOrder, CacheType, CallsInOrder, CallInOrder, Flight, Holders, Cached!Holding,
           QuietInOrder, Cached!QuietInvalidation, Cached!Current, Cached!At
  <1>2. ASSUME NEW r \in Readers, Cached!ReaderStep(r) PROVE CacheOrder'
    BY <1>0, <1>2, LookupKept, TryLockKept, PollKept, FetchKept, StoreKept, ReleaseKept
       DEF Cached!ReaderStep
  <1> QED
    BY <1>0, <1>1, <1>2, CacheFollowed, BeginKept, ExpireValueKept, ExpireLockKept, ResolverKept
       DEF Cached!Next

(* get_or_set_json: among any number of readers, at most one holds the     *)
(* lock of a key and calls the fetcher under it, and one more for each     *)
(* lock that expired under its holder and each answer to a DEL of it that  *)
(* was lost, although a late holder, or a repeated DEL, deletes the lock   *)
(* of a successor.                                                         *)
THEOREM SingleFlightHolds == Spec => []SingleFlight
  <1>0. \A S : Cached!Cardinality(S) = Cardinality(S)
    BY DEF Cached!Cardinality, Cardinality, Cached!IsFiniteSet, IsFiniteSet
  <1>1. CacheInv => SingleFlight
    BY <1>0 DEF CacheInv, CacheOrder, Flight, Holders, SingleFlight, Cached!SingleFlight
  <1> QED
    BY <1>1, CacheInit, CacheNext, PTL DEF Spec

(* invalidate_tag: an invalidation that no reader overlaps leaves nothing  *)
(* old behind on either layer, and whatever is fetched, returned or stored *)
(* afterwards is current until the next resolution.                        *)
THEOREM QuietInvalidationHolds == Spec => []QuietInvalidation
  <1>1. CacheInv => QuietInvalidation
    BY DEF CacheInv, CacheOrder, QuietInOrder, QuietInvalidation
  <1> QED
    BY <1>1, CacheInit, CacheNext, PTL DEF Spec
==============================================================================
