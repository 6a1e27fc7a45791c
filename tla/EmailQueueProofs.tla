-------------------------- MODULE EmailQueueProofs --------------------------
(***************************************************************************)
(* What the email queue guarantees for every number of jobs and workers,   *)
(* every limit of attempts and any number of crashes and failing calls:    *)
(* how often an email is sent, and where a job can get lost.               *)
(***************************************************************************)
EXTENDS EmailQueue, SequenceTheorems, FiniteSetTheorems, TLAPS

One(b) == IF b THEN 1 ELSE 0

(* Where a worker is that may still send its job, or pass it on to retry   *)
(* or to the dead letters.                                                 *)
Bearing == {"popped", "held", "accepted", "post", "skip", "closing_skipped", "failing", "failed",
            "schedule", "bury"}
Bears(w, j) == job[w] = j /\ pc[w] \in Bearing
Hands(j) == {w \in Workers : Bears(w, j)}

(* The places outside the workers from which job j comes to be sent.       *)
Waiting(j) ==
  One(producer[j] # "done") + One(admin[j] \in {"taken", "reset", "pending"})
    + One(j \in queue) + One(j \in retry) + One(j \in dead)

SendTypeOK ==
  /\ pc \in [Workers -> Labels]
  /\ job \in [Workers -> Jobs \cup {NoJob}]
  /\ delivered \in [Jobs -> Nat] /\ doubts \in [Jobs -> Nat]
  /\ DOMAIN producer = Jobs /\ DOMAIN admin = Jobs

(* Every place where a job waits and every worker that bears it is one     *)
(* send to come.  Those to come and those that were exceed one by the      *)
(* doubts at most.                                                         *)
SendInv ==
  /\ SendTypeOK
  /\ \A j \in Jobs : delivered[j] + Waiting(j) + Cardinality(Hands(j)) =< 1 + doubts[j]

(* The places are a number.                                                *)
LEMMA WaitingNat == ASSUME NEW j PROVE Waiting(j) \in Nat /\ Waiting(j)' \in Nat
  BY DEF Waiting, One

(* A step of worker w changes how many bear the job by what w does.        *)
LEMMA HandsCount ==
  ASSUME NEW w \in Workers, NEW j, \A v \in Workers \ {w} : pc'[v] = pc[v] /\ job'[v] = job[v]
  PROVE  /\ Cardinality(Hands(j)) \in Nat /\ Cardinality(Hands(j))' \in Nat
         /\ Cardinality(Hands(j))' + One(Bears(w, j)) = Cardinality(Hands(j)) + One(Bears(w, j)')
<1> DEFINE before == Hands(j) \ {w}
<1>1. IsFiniteSet(Workers)
  BY EmailAssumption
<1>2. IsFiniteSet(before) /\ w \notin before
  BY <1>1, FS_Subset DEF Hands
<1>3. /\ IsFiniteSet(before \cup {w}) /\ Cardinality(before) \in Nat
      /\ Cardinality(before \cup {w}) = Cardinality(before) + 1
  BY <1>2, FS_AddElement, FS_CardinalityType
<1>4. Hands(j) = IF Bears(w, j) THEN before \cup {w} ELSE before
  BY DEF Hands
<1>5. \A v \in Workers \ {w} : Bears(v, j)' <=> Bears(v, j)
  BY DEF Bears
<1>6. Hands(j)' = IF Bears(w, j)' THEN before \cup {w} ELSE before
  BY <1>5 DEF Hands
<1> HIDE DEF before
<1>7. QED
  BY <1>3, <1>4, <1>6 DEF One

(* What a step of worker w may do: it makes no send more than it has       *)
(* doubts.                                                                 *)
Pays(w) ==
  /\ SendTypeOK'
  /\ \A v \in Workers \ {w} : pc'[v] = pc[v] /\ job'[v] = job[v]
  /\ \A j \in Jobs :
       delivered'[j] + Waiting(j)' + One(Bears(w, j)') + doubts[j]
         =< delivered[j] + Waiting(j) + One(Bears(w, j)) + doubts'[j]

LEMMA PaysKeeps ==
  ASSUME SendInv, NEW w \in Workers, Pays(w)
  PROVE  SendInv'
<1> SUFFICES ASSUME NEW j \in Jobs
             PROVE  delivered'[j] + Waiting(j)' + Cardinality(Hands(j))' =< 1 + doubts'[j]
  BY DEF SendInv, Pays
<1> DEFINE n == Cardinality(Hands(j))
           m == Cardinality(Hands(j))'
           a == One(Bears(w, j))
           b == One(Bears(w, j)')
<1>1. n \in Nat /\ m \in Nat /\ m + a = n + b
  BY HandsCount DEF Pays
<1>2. a \in Nat /\ b \in Nat
  BY DEF One
<1>3. Waiting(j) \in Nat /\ Waiting(j)' \in Nat
  BY WaitingNat
<1>4. delivered[j] \in Nat /\ delivered'[j] \in Nat /\ doubts[j] \in Nat /\ doubts'[j] \in Nat
  BY DEF SendInv, SendTypeOK, Pays
<1>5. delivered[j] + Waiting(j) + n =< 1 + doubts[j]
  BY DEF SendInv
<1>6. delivered'[j] + Waiting(j)' + b + doubts[j] =< delivered[j] + Waiting(j) + a + doubts'[j]
  BY DEF Pays
<1> HIDE DEF n, m, a, b
<1>7. delivered'[j] + Waiting(j)' + m =< 1 + doubts'[j]
  BY <1>1, <1>2, <1>3, <1>4, <1>5, <1>6
<1>8. QED
  BY <1>7 DEF m

(* A step that only moves one worker pays when the worker bears no job     *)
(* that it did not.                                                        *)
LEMMA MovesPay ==
  ASSUME SendInv, NEW w \in Workers, NEW label \in Labels, Goto(w, label),
         NEW k \in Jobs \cup {NoJob}, job' = [job EXCEPT ![w] = k],
         label \in Bearing => pc[w] \in Bearing /\ k = job[w],
         UNCHANGED <<queue, retry, dead, callers, delivered, doubts>>
  PROVE  SendInv'
<1>1. SendTypeOK' /\ pc'[w] = label /\ job'[w] = k
  BY DEF SendInv, SendTypeOK, Goto, callers
<1>2. \A v \in Workers \ {w} : pc'[v] = pc[v] /\ job'[v] = job[v]
  BY DEF SendInv, SendTypeOK, Goto
<1>3. ASSUME NEW j \in Jobs
      PROVE  delivered'[j] + Waiting(j)' + One(Bears(w, j)') + doubts[j]
               =< delivered[j] + Waiting(j) + One(Bears(w, j)) + doubts'[j]
  <2>1. Bears(w, j)' => Bears(w, j)
    BY <1>1 DEF Bears
  <2>2. Waiting(j)' = Waiting(j) /\ Waiting(j) \in Nat
    BY WaitingNat DEF Waiting, callers
  <2>3. delivered'[j] = delivered[j] /\ doubts'[j] = doubts[j]
        /\ delivered[j] \in Nat /\ doubts[j] \in Nat
    BY DEF SendInv, SendTypeOK
  <2>4. QED
    BY <2>1, <2>2, <2>3 DEF One
<1>4. QED
  BY <1>1, <1>2, <1>3, PaysKeeps DEF Pays

(* Keeping the job is writing it again.                                    *)
LEMMA SameJob ==
  ASSUME SendInv, NEW w \in Workers, UNCHANGED job
  PROVE  job[w] \in Jobs \cup {NoJob} /\ job' = [job EXCEPT ![w] = job[w]]
  BY DEF SendInv, SendTypeOK

(* LeaveTo moves a worker and may free it of its job.                      *)
LEMMA LeavePays ==
  ASSUME SendInv, NEW w \in Workers, NEW label \in Labels \ Bearing, LeaveTo(w, label),
         UNCHANGED <<queue, retry, dead, callers, delivered, doubts>>
  PROVE  SendInv'
<1>1. PICK k \in Jobs \cup {NoJob} : job' = [job EXCEPT ![w] = k]
  BY DEF LeaveTo, SendInv, SendTypeOK
<1>2. QED
  BY <1>1, MovesPay DEF LeaveTo

(* A step that leaves the sends alone keeps the invariant.                 *)
LEMMA IdleKeeps ==
  ASSUME SendInv, UNCHANGED <<pc, job, queue, retry, dead, callers, delivered, doubts>>
  PROVE  SendInv'
  BY DEF SendInv, SendTypeOK, Waiting, Hands, Bears, One, callers

(* What Doubt does to the count of one job.                                *)
LEMMA DoubtCounts ==
  ASSUME SendInv, NEW js, Doubt(js)
  PROVE  /\ doubts' \in [Jobs -> Nat]
         /\ \A j \in Jobs : doubts'[j] = doubts[j] + One(j \in js)
  BY DEF SendInv, SendTypeOK, Doubt, One

(* ZPOPMIN: the job leaves the queue for the hands of one worker.          *)
LEMMA PopPays ==
  ASSUME SendInv, NEW w \in Workers, NEW k \in Jobs, Pop(w, k)
  PROVE  SendInv'
<1>1. /\ pc' = [pc EXCEPT ![w] = "popped"] /\ job' = [job EXCEPT ![w] = k]
      /\ pc[w] = "dequeue" /\ k \in queue /\ queue' = queue \ {k}
      /\ UNCHANGED <<retry, dead, producer, admin, delivered, doubts>>
  BY DEF Pop, Goto, At, callers, history
<1>2. SendTypeOK' /\ \A v \in Workers \ {w} : pc'[v] = pc[v] /\ job'[v] = job[v]
  BY <1>1 DEF SendInv, SendTypeOK, Labels
<1>3. ASSUME NEW j \in Jobs
      PROVE  delivered'[j] + Waiting(j)' + One(Bears(w, j)') + doubts[j]
               =< delivered[j] + Waiting(j) + One(Bears(w, j)) + doubts'[j]
  <2>1. (Bears(w, j)' <=> j = k) /\ ~Bears(w, j)
    BY <1>1 DEF Bears, Bearing, SendInv, SendTypeOK
  <2>2. Waiting(j)' + One(j = k) = Waiting(j)
    BY <1>1 DEF Waiting, One
  <2>3. QED
    BY <1>1, <2>1, <2>2, WaitingNat DEF SendInv, SendTypeOK, One
<1>4. QED
  BY <1>2, <1>3, PaysKeeps DEF Pays

(* What is put back into the queue while it is nowhere else to be seen is  *)
(* a doubt each.                                                           *)
LEMMA PutBackPays ==
  ASSUME SendInv, NEW w \in Workers, RecoverOrphans(w) \/ MoveRetries(w)
  PROVE  SendInv'
<1>1. /\ pc' = [pc EXCEPT ![w] = "loop"] \/ pc' = [pc EXCEPT ![w] = "dequeue"]
      /\ queue' = queue \cup batch[w]
      /\ UNCHANGED <<job, dead, producer, admin, delivered>>
  BY DEF RecoverOrphans, MoveRetries, Goto, callers
<1>2. doubts' \in [Jobs -> Nat]
  BY DoubtCounts DEF RecoverOrphans, MoveRetries
<1>3. SendTypeOK' /\ \A v \in Workers \ {w} : pc'[v] = pc[v] /\ job'[v] = job[v]
  BY <1>1, <1>2 DEF SendInv, SendTypeOK, Labels
<1>4. ASSUME NEW j \in Jobs
      PROVE  delivered'[j] + Waiting(j)' + One(Bears(w, j)') + doubts[j]
               =< delivered[j] + Waiting(j) + One(Bears(w, j)) + doubts'[j]
  <2>1. ~Bears(w, j)'
    BY <1>1 DEF Bears, Bearing, SendInv, SendTypeOK
  <2>2. Waiting(j)' + doubts[j] =< Waiting(j) + doubts'[j]
    <3>1. doubts[j] \in Nat /\ doubts'[j] \in Nat
      BY <1>2 DEF SendInv, SendTypeOK
    <3>2. CASE RecoverOrphans(w)
      <4>1. doubts'[j] = doubts[j] + One(j \in batch[w] \ queue) /\ retry' = retry
        BY <3>2, DoubtCounts DEF RecoverOrphans
      <4>2. QED
        BY <1>1, <3>1, <4>1 DEF Waiting, One
    <3>3. CASE MoveRetries(w)
      <4>1. /\ doubts'[j] = doubts[j] + One(j \in batch[w] \ (queue \cup retry))
            /\ retry' = retry \ batch[w]
        BY <3>3, DoubtCounts DEF MoveRetries
      <4>2. QED
        BY <1>1, <3>1, <4>1 DEF Waiting, One
    <3>4. QED
      BY <3>2, <3>3
  <2>3. delivered'[j] = delivered[j] /\ delivered[j] \in Nat /\ One(Bears(w, j)) \in Nat
        /\ doubts[j] \in Nat /\ doubts'[j] \in Nat
    BY <1>1, <1>2 DEF SendInv, SendTypeOK, One
  <2>4. QED
    BY <2>1, <2>2, <2>3, WaitingNat DEF One
<1>5. QED
  BY <1>3, <1>4, PaysKeeps DEF Pays

(* SendGrid accepts: the worker that sent gives its send up, or a doubt    *)
(* lets it keep it.                                                        *)
LEMMA PostPays ==
  ASSUME SendInv, NEW w \in Workers, Post(w)
  PROVE  SendInv'
<1>1. /\ pc[w] = "post" /\ UNCHANGED <<job, queue, retry, dead, producer, admin>>
      /\ job[w] \in Jobs \cup {NoJob}
  BY DEF Post, At, redis, callers, SendInv, SendTypeOK
<1>2. CASE Goto(w, "failing") /\ UNCHANGED <<delivered, doubts>>
  BY <1>1, <1>2, SameJob, MovesPay DEF Labels, Bearing, callers
<1>3. ASSUME delivered' = [delivered EXCEPT ![job[w]] = @ + 1],
             \/ Goto(w, "sent") /\ UNCHANGED doubts
             \/ Goto(w, "failing") /\ Doubt({job[w]})
      PROVE  SendInv'
  <2>1. doubts' \in [Jobs -> Nat]
    BY <1>3, DoubtCounts DEF SendInv, SendTypeOK
  <2>2. \A j \in Jobs : delivered'[j] = delivered[j] + One(j = job[w])
    BY <1>3 DEF SendInv, SendTypeOK, One
  <2>3. delivered' \in [Jobs -> Nat]
    <3>1. \E g : delivered' = [delivered EXCEPT ![job[w]] = g]
      BY <1>3 DEF SendInv, SendTypeOK
    <3>2. DOMAIN delivered' = Jobs /\ delivered' = [j \in Jobs |-> delivered'[j]]
      BY <3>1 DEF SendInv, SendTypeOK
    <3>3. \A j \in Jobs : delivered'[j] \in Nat
      BY <2>2 DEF SendInv, SendTypeOK, One
    <3>4. QED
      BY <3>2, <3>3
  <2>4. SendTypeOK' /\ \A v \in Workers \ {w} : pc'[v] = pc[v] /\ job'[v] = job[v]
    BY <1>1, <1>3, <2>1, <2>3 DEF SendInv, SendTypeOK, Labels, Goto
  <2>5. ASSUME NEW j \in Jobs
        PROVE  delivered'[j] + Waiting(j)' + One(Bears(w, j)') + doubts[j]
                 =< delivered[j] + Waiting(j) + One(Bears(w, j)) + doubts'[j]
    <3>1. Bears(w, j) <=> j = job[w]
      BY <1>1 DEF Bears, Bearing
    <3>2. Waiting(j)' = Waiting(j) /\ Waiting(j) \in Nat
      BY <1>1, WaitingNat DEF Waiting
    <3>3. delivered[j] \in Nat /\ doubts[j] \in Nat
      BY DEF SendInv, SendTypeOK
    <3>4. CASE Goto(w, "sent") /\ UNCHANGED doubts
      <4>1. ~Bears(w, j)'
        BY <3>4 DEF Bears, Bearing, Goto, SendInv, SendTypeOK
      <4>2. QED
        BY <2>2, <3>1, <3>2, <3>3, <3>4, <4>1 DEF One
    <3>5. CASE Goto(w, "failing") /\ Doubt({job[w]})
      <4>1. Bears(w, j)' <=> j = job[w]
        BY <1>1, <3>5 DEF Bears, Bearing, Goto, SendInv, SendTypeOK
      <4>2. doubts'[j] = doubts[j] + One(j = job[w])
        BY <3>5, DoubtCounts DEF One
      <4>3. QED
        BY <2>2, <3>1, <3>2, <3>3, <4>1, <4>2 DEF One
    <3>6. QED
      BY <1>3, <3>4, <3>5
  <2>6. QED
    BY <2>4, <2>5, PaysKeeps DEF Pays
<1>4. QED
  BY <1>2, <1>3 DEF Post

(* After the email was sent an error is a doubt: the worker bears the job  *)
(* again.                                                                  *)
LEMMA FailsPays ==
  ASSUME SendInv, NEW w \in Workers, ProcessFails(w)
  PROVE  SendInv'
<1>1. /\ pc' = [pc EXCEPT ![w] = "failing"]
      /\ UNCHANGED <<job, queue, retry, dead, producer, admin, delivered>>
  BY DEF ProcessFails, Goto, redis, callers
<1>2. CASE UNCHANGED doubts /\ pc[w] \in Bearing
  BY <1>1, <1>2, SameJob, MovesPay DEF Labels, Bearing, callers, Goto
<1>3. CASE Doubt({job[w]})
  <2>1. doubts' \in [Jobs -> Nat]
    BY <1>3, DoubtCounts
  <2>2. SendTypeOK' /\ \A v \in Workers \ {w} : pc'[v] = pc[v] /\ job'[v] = job[v]
    BY <1>1, <2>1 DEF SendInv, SendTypeOK, Labels
  <2>3. ASSUME NEW j \in Jobs
        PROVE  delivered'[j] + Waiting(j)' + One(Bears(w, j)') + doubts[j]
                 =< delivered[j] + Waiting(j) + One(Bears(w, j)) + doubts'[j]
    <3>1. Bears(w, j)' => j = job[w]
      BY <1>1 DEF Bears
    <3>2. Waiting(j)' = Waiting(j) /\ Waiting(j) \in Nat
      BY <1>1, WaitingNat DEF Waiting
    <3>3. delivered'[j] = delivered[j] /\ delivered[j] \in Nat /\ doubts[j] \in Nat
      BY <1>1 DEF SendInv, SendTypeOK
    <3>4. doubts'[j] = doubts[j] + One(j = job[w])
      BY <1>3, DoubtCounts DEF One
    <3>5. QED
      BY <3>1, <3>2, <3>3, <3>4 DEF One
  <2>4. QED
    BY <2>2, <2>3, PaysKeeps DEF Pays
<1>4. QED
  BY <1>2, <1>3 DEF ProcessFails, Bearing

(* The worker passes its job on to retry or to the dead letters.           *)
LEMMA PassPays ==
  ASSUME SendInv, NEW w \in Workers, ScheduleRetry(w) \/ Bury(w)
  PROVE  SendInv'
<1>1. /\ pc[w] \in Bearing
      /\ pc' = [pc EXCEPT ![w] = "leaving"] \/ pc' = [pc EXCEPT ![w] = "persist"]
      /\ UNCHANGED <<job, queue, producer, admin, delivered, doubts>>
      /\ \/ retry' = retry \cup {job[w]} /\ dead' = dead
         \/ retry' = retry /\ dead' = dead \cup {job[w]}
  BY DEF ScheduleRetry, Bury, Goto, At, Bearing, callers, history
<1>2. SendTypeOK' /\ \A v \in Workers \ {w} : pc'[v] = pc[v] /\ job'[v] = job[v]
  BY <1>1 DEF SendInv, SendTypeOK, Labels
<1>3. ASSUME NEW j \in Jobs
      PROVE  delivered'[j] + Waiting(j)' + One(Bears(w, j)') + doubts[j]
               =< delivered[j] + Waiting(j) + One(Bears(w, j)) + doubts'[j]
  <2>1. ~Bears(w, j)' /\ (Bears(w, j) <=> j = job[w])
    BY <1>1 DEF Bears, Bearing, SendInv, SendTypeOK
  <2>2. Waiting(j)' =< Waiting(j) + One(j = job[w])
    BY <1>1 DEF Waiting, One
  <2>3. QED
    BY <1>1, <2>1, <2>2, WaitingNat DEF SendInv, SendTypeOK, One
<1>4. QED
  BY <1>2, <1>3, PaysKeeps DEF Pays

(* Producers, operators and webhooks move a job from one place to the next *)
(* and never to two.                                                       *)
LEMMA CallerPays ==
  ASSUME SendInv, NEW k \in Jobs, Caller(k)
  PROVE  SendInv'
<1>1. UNCHANGED <<pc, job, delivered, doubts>>
  BY DEF Caller, CreateJob, PublishJob, TakeFromDead, ResetJob, RequeueJob, RequeueFails,
         ForgetDead, Suppress, locals, history
<1>2. ASSUME NEW j \in Jobs PROVE Waiting(j)' =< Waiting(j)
  <2>0. CASE CreateJob(k)
    BY <2>0 DEF CreateJob, SendInv, SendTypeOK, Waiting, One, redis
  <2>1. CASE PublishJob(k)
    <3>1. /\ producer' = [producer EXCEPT ![k] = "done"] /\ producer[k] = "created"
          /\ queue' = queue \/ queue' = queue \cup {k}
          /\ UNCHANGED <<retry, dead, admin>> /\ DOMAIN producer = Jobs
      BY <2>1 DEF PublishJob, SendInv, SendTypeOK
    <3>2. One(producer'[j] # "done") + One(j \in queue') =< One(producer[j] # "done") + One(j \in queue)
      BY <3>1 DEF One
    <3>3. QED
      BY <3>1, <3>2 DEF Waiting, One
  <2>2. CASE TakeFromDead(k)
    BY <2>2 DEF TakeFromDead, SendInv, SendTypeOK, Waiting, One
  <2>3. CASE ResetJob(k)
    BY <2>3 DEF ResetJob, SendInv, SendTypeOK, Waiting, One, redis
  <2>4. CASE RequeueJob(k) \/ RequeueFails(k)
    BY <2>4 DEF RequeueJob, RequeueFails, SendInv, SendTypeOK, Waiting, One, redis
  <2>5. CASE ForgetDead(k) \/ Suppress(k)
    BY <2>5 DEF ForgetDead, Suppress, SendInv, SendTypeOK, Waiting, One, redis,
                    callers
  <2>6. QED
    BY <2>0, <2>1, <2>2, <2>3, <2>4, <2>5 DEF Caller
<1>3. SendTypeOK'
  <2>1. DOMAIN producer' = Jobs /\ DOMAIN admin' = Jobs
    BY DEF SendInv, SendTypeOK, Caller, CreateJob, PublishJob, TakeFromDead, ResetJob, RequeueJob,
           RequeueFails, ForgetDead, Suppress, callers
  <2>2. QED
    BY <1>1, <2>1 DEF SendInv, SendTypeOK
<1>4. ASSUME NEW j \in Jobs
      PROVE  delivered'[j] + Waiting(j)' + Cardinality(Hands(j))' =< 1 + doubts'[j]
  <2>1. Hands(j)' = Hands(j)
    BY <1>1 DEF Hands, Bears
  <2>2. Cardinality(Hands(j)) \in Nat
    BY EmailAssumption, FS_Subset, FS_CardinalityType DEF Hands
  <2>3. /\ delivered[j] \in Nat /\ doubts[j] \in Nat
        /\ delivered[j] + Waiting(j) + Cardinality(Hands(j)) =< 1 + doubts[j]
    BY DEF SendInv, SendTypeOK
  <2>4. QED
    BY <1>1, <1>2, <2>1, <2>2, <2>3, WaitingNat
<1>5. QED
  BY <1>3, <1>4 DEF SendInv

(* Every step of a worker keeps the count.                                 *)
LEMMA StepPays ==
  ASSUME SendInv, NEW w \in Workers, Step(w)
  PROVE  SendInv'
<1>1. CASE FindOrphans(w)
  BY <1>1, SameJob, MovesPay DEF FindOrphans, redis, history, Labels, Bearing
<1>2. CASE RecoverOrphans(w) \/ MoveRetries(w)
  BY <1>2, PutBackPays
<1>3. CASE FindRetries(w)
  BY <1>3, SameJob, MovesPay DEF FindRetries, redis, history, Labels, Bearing
<1>4. CASE SkipStep(w)
  <2>1. Goto(w, "loop") \/ Goto(w, "dequeue")
    BY <1>4 DEF SkipStep
  <2>2. QED
    BY <1>4, <2>1, SameJob, MovesPay DEF SkipStep, redis, history, Labels, Bearing
<1>5. CASE \E j \in Jobs : Pop(w, j)
  BY <1>5, PopPays
<1>6. CASE Enlist(w)
  <2>1. UNCHANGED <<queue, retry, dead, callers, delivered, doubts>> /\ pc[w] \in Bearing
    BY <1>6 DEF Enlist, At, Bearing
  <2>2. CASE Goto(w, "held") /\ UNCHANGED job
    BY <2>1, <2>2, SameJob, MovesPay DEF Labels
  <2>3. CASE Goto(w, "loop") /\ job' = [job EXCEPT ![w] = NoJob]
    BY <2>1, <2>3, MovesPay DEF Labels, Bearing
  <2>4. QED
    BY <1>6, <2>2, <2>3 DEF Enlist
<1>7. CASE CheckSuppression(w)
  BY <1>7, SameJob, MovesPay DEF CheckSuppression, At, redis, history, Labels, Bearing
<1>8. CASE StartProcessing(w)
  BY <1>8, SameJob, MovesPay DEF StartProcessing, At, redis, history, Labels, Bearing
<1>9. CASE Post(w)
  BY <1>9, PostPays
<1>10. CASE Complete(w)
  BY <1>10, SameJob, MovesPay DEF Complete, At, redis, Labels, Bearing
<1>11. CASE ListProcessing(w)
  <2>1. UNCHANGED <<queue, retry, dead, callers, delivered, doubts>>
    BY <1>11 DEF ListProcessing, redis, history
  <2>2. CASE Delisted(w)
    BY <2>1, <2>2, LeavePays DEF Delisted, Labels, Bearing
  <2>3. CASE UNCHANGED <<pc, job>>
    BY <2>1, <2>3, IdleKeeps
  <2>4. QED
    BY <1>11, <2>2, <2>3 DEF ListProcessing
<1>12. CASE RemoveFound(w)
  BY <1>12, LeavePays DEF RemoveFound, Delisted, Labels, Bearing
<1>13. CASE RecordEvent(w)
  BY <1>13, LeavePays DEF RecordEvent, redis, history, Labels, Bearing
<1>14. CASE ProcessFails(w)
  BY <1>14, FailsPays
<1>15. CASE ReadAttempts(w)
  BY <1>15, SameJob, MovesPay DEF ReadAttempts, At, redis, history, Labels, Bearing
<1>16. CASE CountFailure(w)
  <2>1. Goto(w, "schedule") \/ Goto(w, "bury")
    BY <1>16 DEF CountFailure
  <2>2. QED
    BY <1>16, <2>1, SameJob, MovesPay DEF CountFailure, At, redis, history, Labels, Bearing
<1>17. CASE ScheduleRetry(w) \/ Bury(w)
  BY <1>17, PassPays
<1>18. CASE PersistDead(w)
  BY <1>18, SameJob, MovesPay DEF PersistDead, redis, history, Labels, Bearing
<1>19. CASE MarkFailedFails(w)
  BY <1>19, LeavePays DEF MarkFailedFails, redis, history, Labels, Bearing
<1>20. QED
  BY <1>1, <1>2, <1>3, <1>4, <1>5, <1>6, <1>7, <1>8, <1>9, <1>10, <1>11, <1>12, <1>13,
     <1>14, <1>15, <1>16, <1>17, <1>18, <1>19 DEF Step

(* So does a crash: what the worker bore is gone.                          *)
LEMMA CrashPays ==
  ASSUME SendInv, NEW w \in Workers, Crash(w)
  PROVE  SendInv'
<1>1. /\ Goto(w, "start") /\ job' = [job EXCEPT ![w] = NoJob]
      /\ UNCHANGED <<queue, retry, dead, callers, delivered, doubts>>
  BY DEF Crash, Goto, redis
<1>2. QED
  BY <1>1, MovesPay DEF Labels, Bearing

(* At first nothing was sent and every job is its producer's.              *)
LEMMA InitPays == ASSUME Init PROVE SendInv
<1>1. SendTypeOK
  BY DEF Init, SendTypeOK, Labels
<1>2. ASSUME NEW j \in Jobs PROVE delivered[j] + Waiting(j) + Cardinality(Hands(j)) =< 1 + doubts[j]
  <2>1. Hands(j) = {}
    BY DEF Init, Hands, Bears, Bearing
  <2>2. Cardinality(Hands(j)) = 0
    BY <2>1, FS_EmptySet
  <2>3. QED
    BY <2>2 DEF Init, Waiting, One
<1>3. QED
  BY <1>1, <1>2 DEF SendInv

(* In every reachable state the sends that were and the sends to come      *)
(* exceed one by the doubts at most.                                       *)
THEOREM SendCounted == Spec => []SendInv
<1>1. Init => SendInv
  BY InitPays
<1>2. SendInv /\ [Next]_vars => SendInv'
  <2> SUFFICES ASSUME SendInv, [Next]_vars PROVE SendInv'
    OBVIOUS
  <2>1. CASE Next
    BY <2>1, CallerPays, StepPays, CrashPays DEF Next
  <2>2. CASE UNCHANGED vars
    BY <2>2, IdleKeeps DEF vars, locals, redis, history
  <2>3. QED
    BY <2>1, <2>2
<1>3. QED
  BY <1>1, <1>2, PTL DEF Spec

(* However many workers handle a job, and however often it is recovered,   *)
(* retried or requeued, every send after the first has a cause of its own. *)
THEOREM ResendsExplainedHolds == Spec => []ResendsExplained
<1>1. ASSUME SendInv PROVE ResendsExplained
  <2> SUFFICES ASSUME NEW j \in Jobs PROVE delivered[j] =< 1 + doubts[j]
    BY DEF ResendsExplained
  <2>1. Cardinality(Hands(j)) \in Nat
    BY EmailAssumption, FS_Subset, FS_CardinalityType DEF Hands
  <2>2. QED
    BY <1>1, <2>1, WaitingNat DEF SendInv, SendTypeOK
<1>2. QED
  BY <1>1, SendCounted, PTL
------------------------------------------------------------------------------
(* Lists of entries *)

(* A nonempty set of numbers has a smallest one.                           *)
LEMMA MinFacts ==
  ASSUME NEW B \in SUBSET Nat, B # {}
  PROVE  Min(B) \in B
<1> DEFINE R == {ss \in Nat \X Nat : ss[1] < ss[2]}
<1>1. IsWellFoundedOn(R, Nat)
  BY NatLessThanWellFounded, Zenon DEF OpToRel
<1>2. \A x, y \in Nat : y < x => <<y, x>> \in R
  OBVIOUS
<1> HIDE DEF R
<1>3. PICK n \in B : \A m \in B : ~(<<m, n>> \in R)
  BY <1>1, WFMin
<1>4. n \in Nat /\ \A m \in B : m \in Nat /\ ~(m < n)
  BY <1>2, <1>3
<1>5. \A m \in B : n =< m
  BY <1>4
<1>6. QED
  BY <1>3, <1>5 DEF Min

(* ZREM takes off the entry it names and no other.                         *)
LEMMA RemoveFacts ==
  ASSUME NEW T, NEW s \in Seq(T), NEW e
  PROVE  /\ RemoveFirst(s, e) \in Seq(T)
         /\ ToSet(RemoveFirst(s, e)) \subseteq ToSet(s)
         /\ ToSet(s) \ {e} \subseteq ToSet(RemoveFirst(s, e))
<1>1. CASE ~\E i \in 1..Len(s) : s[i] = e
  BY <1>1 DEF RemoveFirst
<1>2. CASE \E i \in 1..Len(s) : s[i] = e
  <2> DEFINE I == {i \in 1..Len(s) : s[i] = e}
  <2>1. Min(I) \in I
    <3>1. I # {} /\ I \in SUBSET Nat
      BY <1>2
    <3> HIDE DEF I
    <3>2. QED
      BY <3>1, MinFacts
  <2>2. PICK n \in 1..Len(s) : n = Min(I) /\ s[n] = e
    BY <2>1
  <2>3. RemoveFirst(s, e) = RemoveAt(s, n)
    BY <1>2, <2>2 DEF RemoveFirst, SelectInSeq
  <2>4. PICK t : t = RemoveFirst(s, e)
    OBVIOUS
  <2>5. /\ Len(s) \in Nat /\ DOMAIN s = 1..Len(s) /\ \A i \in 1..Len(s) : s[i] \in T
    OBVIOUS
  <2>6. PICK a, b : a = SubSeq(s, 1, n - 1) /\ b = SubSeq(s, n + 1, Len(s)) /\ t = a \o b
    BY <2>3, <2>4 DEF RemoveAt
  <2>7. /\ a \in Seq(T) /\ Len(a) = n - 1 /\ \A i \in 1..(n - 1) : a[i] = s[i]
    BY <2>5, <2>6, SubSeqProperties
  <2>8. /\ b \in Seq(T) /\ Len(b) = Len(s) - n /\ \A i \in 1..(Len(s) - n) : b[i] = s[n + i]
    <3>0. n \in Int /\ Len(s) \in Int /\ 1 =< n /\ n =< Len(s)
      BY <2>2, <2>5
    <3>1. PICK k \in Int, l \in Int : k = n + 1 /\ l = Len(s)
      BY <3>0
    <3>2. \A i \in k..l : s[i] \in T
      BY <2>5, <3>0, <3>1
    <3>3. /\ SubSeq(s, k, l) \in Seq(T)
          /\ Len(SubSeq(s, k, l)) = IF k =< l THEN l - k + 1 ELSE 0
          /\ \A i \in 1..(l - k + 1) : SubSeq(s, k, l)[i] = s[k + i - 1]
      BY <3>2, SubSeqProperties
    <3>4. b = SubSeq(s, k, l)
      BY <2>6, <3>1
    <3>5. Len(b) = Len(s) - n
      BY <3>0, <3>1, <3>3, <3>4
    <3>6. l - k + 1 = Len(s) - n /\ \A i \in 1..(Len(s) - n) : k + i - 1 = n + i
      BY <3>0, <3>1
    <3>7. \A i \in 1..(Len(s) - n) : b[i] = s[n + i]
      BY <3>3, <3>4, <3>6
    <3>8. QED
      BY <3>3, <3>4, <3>5, <3>7
  <2>9. /\ t \in Seq(T) /\ Len(t) = Len(s) - 1 /\ DOMAIN t = 1..(Len(s) - 1)
        /\ \A i \in 1..(n - 1) : t[i] = s[i]
        /\ \A i \in n..(Len(s) - 1) : t[i] = s[i + 1]
    <3>0. /\ t \in Seq(T) /\ Len(t) = Len(a) + Len(b)
          /\ \A i \in 1..(Len(a) + Len(b)) : t[i] = IF i =< Len(a) THEN a[i] ELSE b[i - Len(a)]
      <4>1. a \in Seq(T) /\ b \in Seq(T)
        BY <2>7, <2>8
      <4>2. /\ a \o b \in Seq(T) /\ Len(a \o b) = Len(a) + Len(b)
            /\ \A i \in 1..(Len(a) + Len(b)) : (a \o b)[i] = IF i =< Len(a) THEN a[i] ELSE b[i - Len(a)]
        BY <4>1, ConcatProperties, Zenon
      <4>3. QED
        BY <2>6, <4>2, Zenon
    <3>1. t \in Seq(T) /\ Len(t) = Len(s) - 1
      BY <2>5, <2>7, <2>8, <3>0
    <3>2. ASSUME NEW i \in 1..(n - 1) PROVE t[i] = s[i]
      <4>1. i \in 1..(Len(a) + Len(b)) /\ i =< Len(a)
        BY <2>5, <2>7, <2>8
      <4>2. QED
        BY <2>7, <3>0, <4>1
    <3>3. ASSUME NEW i \in n..(Len(s) - 1) PROVE t[i] = s[i + 1]
      <4>1. i - (n - 1) \in 1..(Len(s) - n) /\ i \in 1..(Len(a) + Len(b)) /\ ~(i =< Len(a))
        BY <2>5, <2>7, <2>8
      <4>2. t[i] = b[i - Len(a)]
        BY <3>0, <4>1
      <4>3. n + (i - (n - 1)) = i + 1
        BY <2>5
      <4>4. QED
        BY <2>7, <2>8, <4>1, <4>2, <4>3
    <3>4. QED
      BY <3>1, <3>2, <3>3
  <2>10. ASSUME NEW x \in ToSet(s), x # e PROVE x \in ToSet(t)
    <3>1. PICK i \in 1..Len(s) : x = s[i]
      BY <2>5 DEF ToSet
    <3>2. i # n
      BY <2>2, <2>10, <3>1
    <3>3. CASE i < n
      <4>1. i \in 1..(n - 1) /\ i \in DOMAIN t
        BY <2>5, <2>9, <3>1, <3>3
      <4>2. t[i] = s[i]
        BY <2>9, <4>1
      <4>3. QED
        BY <3>1, <4>1, <4>2 DEF ToSet
    <3>4. CASE i > n
      <4>1. i - 1 \in n..(Len(s) - 1) /\ i - 1 \in DOMAIN t /\ (i - 1) + 1 = i
        BY <2>5, <2>9, <3>1, <3>4
      <4>2. t[i - 1] = s[i]
        BY <2>9, <4>1
      <4>3. QED
        BY <3>1, <4>1, <4>2 DEF ToSet
    <3>5. QED
      BY <2>5, <3>2, <3>3, <3>4
  <2>11. ASSUME NEW x \in ToSet(t) PROVE x \in ToSet(s)
    <3>1. PICK i \in 1..(Len(s) - 1) : x = t[i]
      BY <2>9 DEF ToSet
    <3>2. t[i] = s[i] \/ t[i] = s[i + 1]
      BY <2>5, <2>9
    <3>3. QED
      BY <2>5, <3>1, <3>2 DEF ToSet
  <2>12. QED
    BY <2>4, <2>9, <2>10, <2>11
<1>3. QED
  BY <1>1, <1>2

(* ZADD puts one entry last.                                               *)
LEMMA AppendFacts ==
  ASSUME NEW T, NEW s \in Seq(T), NEW e \in T
  PROVE  Append(s, e) \in Seq(T) /\ ToSet(Append(s, e)) = ToSet(s) \cup {e}
<1>1. PICK t : t = Append(s, e)
  OBVIOUS
<1>2. /\ t \in Seq(T) /\ Len(s) \in Nat /\ DOMAIN s = 1..Len(s) /\ DOMAIN t = 1..(Len(s) + 1)
      /\ t[Len(s) + 1] = e /\ \A i \in 1..Len(s) : t[i] = s[i]
  BY <1>1, AppendProperties
<1>3. \A x \in ToSet(t) : x \in ToSet(s) \cup {e}
  BY <1>2 DEF ToSet
<1>4. \A x \in ToSet(s) \cup {e} : x \in ToSet(t)
  BY <1>2 DEF ToSet
<1>5. QED
  BY <1>1, <1>2, <1>3, <1>4
------------------------------------------------------------------------------
(* Where an unfinished job is *)

Entry == Workers \X Nat \X Jobs
Exist == {j \in Jobs : status[j] # "none"}
Idle == {"start", "recover", "loop", "moving", "dequeue"}

(* Worker w has put its job in retry or in the dead-letter set and is      *)
(* about to take off an entry of it.                                       *)
Passed(w) == pc[w] \in {"persist", "leaving"}

TrackType ==
  /\ status \in [Jobs -> {"none", "pending", "processing", "completed", "failed"}]
  /\ DOMAIN producer = Jobs /\ DOMAIN admin = Jobs
  /\ pc \in [Workers -> Labels] /\ job \in [Workers -> Jobs \cup {NoJob}]
  /\ DOMAIN batch = Workers /\ DOMAIN found = Workers
  /\ incarnation \in [Workers -> Nat]
  /\ processing \in Seq(Entry)

(* Only jobs of the table are anywhere.                                    *)
OnlyKnown ==
  /\ queue \subseteq Exist /\ retry \subseteq Exist /\ dead \subseteq Exist
  /\ \A e \in ToSet(processing) : e[3] \in Exist

(* A busy worker has a job of the table, a worker that closes a job has    *)
(* completed it, and an entry that was found is one of the job's.          *)
WorkerKnown(w) ==
  /\ batch[w] \subseteq Exist
  /\ job[w] \in Exist \cup {NoJob}
  /\ pc[w] \notin Idle => job[w] # NoJob
  /\ pc[w] \in {"closing", "closing_skipped", "recording"} => job[w] \in finished
  /\ found[w] # NoJob => Delisting(w) /\ found[w][3] = job[w]

CallerKnown(j) ==
  /\ producer[j] = "created" => j \in Exist
  /\ admin[j] # "idle" => j \in Exist

(* What keeps a job from being forgotten, whatever fails next: a set of    *)
(* Redis, an entry that nobody is about to take off, a caller, or a worker *)
(* between the two commands of dequeue.  The other places where a job may  *)
(* be, a batch that was read or a worker's hands, may end at any time      *)
(* without a trace.                                                        *)
Rests(e) == \A w \in Workers : Passed(w) => e # EntryOf(w, job[w])

Anchored(j) ==
  \/ j \in queue \cup retry \cup dead
  \/ \E e \in ToSet(processing) : e[3] = j /\ Rests(e)
  \/ producer[j] = "created" \/ admin[j] \in {"taken", "reset", "pending"}
  \/ \E w \in Workers : pc[w] = "popped" /\ job[w] = j

TrackInv ==
  /\ TrackType
  /\ OnlyKnown
  /\ \A w \in Workers : WorkerKnown(w)
  /\ \A j \in Jobs : CallerKnown(j)
  /\ \A j \in Exist : j \notin lost /\ j \notin finished => Anchored(j)

(* It is what the run checks.                                              *)
LEMMA TrackImplies == ASSUME TrackInv PROVE UnfinishedTracked
<1> SUFFICES ASSUME NEW j \in Jobs, status[j] \in {"pending", "processing"},
                    j \notin lost, j \notin finished
             PROVE  Tracked(j)
  BY DEF UnfinishedTracked
<1>1. Anchored(j)
  BY DEF TrackInv, Exist
<1>2. CASE \E e \in ToSet(processing) : e[3] = j
  BY <1>2 DEF Tracked, EntriesFor, ToSet
<1>3. QED
  BY <1>1, <1>2 DEF Anchored, Tracked

(* There is no job at first.                                               *)
LEMMA InitTrack == ASSUME Init PROVE TrackInv
<1>1. TrackType
  BY DEF Init, TrackType, Labels
<1>2. Exist = {} /\ ToSet(processing) = {}
  BY DEF Init, Exist, ToSet
<1>3. OnlyKnown /\ \A j \in Jobs : CallerKnown(j)
  BY <1>2 DEF Init, OnlyKnown, CallerKnown
<1>4. \A w \in Workers : WorkerKnown(w)
  BY DEF Init, WorkerKnown, Idle
<1>5. QED
  BY <1>1, <1>2, <1>3, <1>4 DEF TrackInv

(* What a step of worker w leaves true of types and tables.                *)
Moved(w) ==
  /\ TrackType'
  /\ \A v \in Workers \ {w} : /\ pc'[v] = pc[v] /\ job'[v] = job[v] /\ batch'[v] = batch[v]
                              /\ found'[v] = found[v] /\ incarnation'[v] = incarnation[v]
  /\ Exist' = Exist /\ lost \subseteq lost' /\ finished \subseteq finished'
  /\ UNCHANGED <<producer, admin>>
  /\ OnlyKnown'
  /\ WorkerKnown(w)'

(* The anchors of job j survive.                                           *)
Keeps(j) == Anchored(j) => Anchored(j)' \/ j \in lost' \/ j \in finished'

(* Such a step keeps the invariant when it keeps the anchors.              *)
LEMMA MovedTrack ==
  ASSUME TrackInv, NEW w \in Workers, Moved(w), \A j \in Exist : Keeps(j)
  PROVE  TrackInv'
<1>1. \A v \in Workers : WorkerKnown(v)'
  <2> SUFFICES ASSUME NEW v \in Workers, v # w PROVE WorkerKnown(v)'
    BY DEF Moved
  <2>1. WorkerKnown(v)
    BY DEF TrackInv
  <2>2. QED
    BY <2>1 DEF Moved, WorkerKnown, Delisting
<1>2. \A j \in Jobs : CallerKnown(j)'
  BY DEF TrackInv, Moved, CallerKnown
<1>3. \A j \in Exist' : j \notin lost' /\ j \notin finished' => Anchored(j)'
  BY DEF TrackInv, Moved, Keeps
<1>4. QED
  BY <1>1, <1>2, <1>3 DEF TrackInv, Moved

(* Most steps of a worker take no job from anywhere, and none that was     *)
(* popped; nor do they make the worker pass its job on.                    *)
Ordinary(w) ==
  /\ queue \cup retry \cup dead \subseteq queue' \cup retry' \cup dead'
  /\ ToSet(processing) \subseteq ToSet(processing')
  /\ pc[w] # "popped"
  /\ Passed(w)' => Passed(w) /\ EntryOf(w, job[w])' = EntryOf(w, job[w])

(* They keep every anchor.                                                 *)
LEMMA OrdinaryKeeps ==
  ASSUME TrackInv, NEW w \in Workers, Moved(w), Ordinary(w), NEW j \in Exist
  PROVE  Keeps(j)
<1> SUFFICES ASSUME Anchored(j) PROVE Anchored(j)'
  BY DEF Keeps
<1>1. CASE j \in queue \cup retry \cup dead
  BY <1>1 DEF Anchored, Ordinary
<1>2. ASSUME NEW e \in ToSet(processing), e[3] = j, Rests(e) PROVE Anchored(j)'
  <2>1. ASSUME NEW v \in Workers, Passed(v)' PROVE e # EntryOf(v, job[v])'
    <3>1. Passed(v) /\ EntryOf(v, job[v])' = EntryOf(v, job[v])
      BY <2>1 DEF Moved, Ordinary, Passed, EntryOf
    <3>2. QED
      BY <1>2, <3>1 DEF Rests
  <2>2. QED
    BY <1>2, <2>1 DEF Anchored, Rests, Ordinary
<1>3. CASE producer[j] = "created" \/ admin[j] \in {"taken", "reset", "pending"}
  BY <1>3 DEF Anchored, Moved
<1>4. CASE \E v \in Workers : pc[v] = "popped" /\ job[v] = j
  BY <1>4 DEF Anchored, Moved, Ordinary
<1>5. QED
  BY <1>1, <1>2, <1>3, <1>4 DEF Anchored

(* What the invariant says of one worker.                                  *)
LEMMA OfWorker ==
  ASSUME TrackInv, NEW w \in Workers
  PROVE  /\ TrackType /\ OnlyKnown /\ WorkerKnown(w)
         /\ pc[w] \notin Idle => job[w] \in Exist /\ job[w] \in Jobs
  BY DEF TrackInv, WorkerKnown, Exist

(* A row gets a new status, and no row appears.                            *)
LEMMA StatusStep ==
  ASSUME TrackType, NEW j \in Exist, NEW s \in {"pending", "processing", "completed", "failed"},
         status' = [status EXCEPT ![j] = s]
  PROVE  /\ status' \in [Jobs -> {"none", "pending", "processing", "completed", "failed"}]
         /\ Exist' = Exist
  BY DEF TrackType, Exist

(* What a worker's step does when it changes no other worker's state and   *)
(* leaves the incarnations, the callers and the entries alone.             *)
Walks(w) ==
  /\ pc' \in [Workers -> Labels] /\ job' \in [Workers -> Jobs \cup {NoJob}]
  /\ DOMAIN batch' = Workers /\ DOMAIN found' = Workers
  /\ \A v \in Workers \ {w} : /\ pc'[v] = pc[v] /\ job'[v] = job[v]
                              /\ batch'[v] = batch[v] /\ found'[v] = found[v]
  /\ UNCHANGED <<incarnation, producer, admin, processing>>
  /\ Exist' = Exist /\ status' \in [Jobs -> {"none", "pending", "processing", "completed", "failed"}]
  /\ lost \subseteq lost' /\ finished \subseteq finished'
  /\ queue' \subseteq Exist /\ retry' \subseteq Exist /\ dead' \subseteq Exist
  /\ WorkerKnown(w)'

(* Such a step is one that MovedTrack is about.                            *)
LEMMA WalksMoved ==
  ASSUME TrackInv, NEW w \in Workers, Walks(w)
  PROVE  Moved(w)
<1>1. TrackType
  BY DEF TrackInv
<1>2. TrackType'
  BY <1>1 DEF TrackType, Walks
<1>3. OnlyKnown'
  BY DEF TrackInv, OnlyKnown, Walks
<1>4. \A v \in Workers \ {w} : /\ pc'[v] = pc[v] /\ job'[v] = job[v] /\ batch'[v] = batch[v]
                                /\ found'[v] = found[v] /\ incarnation'[v] = incarnation[v]
  BY <1>1 DEF TrackType, Walks
<1>5. QED
  BY <1>2, <1>3, <1>4 DEF Moved, Walks

(* The steps of the loop before dequeue.                                   *)
LEMMA LoopWalks ==
  ASSUME TrackInv, NEW w \in Workers,
         \/ FindOrphans(w) \/ RecoverOrphans(w) \/ FindRetries(w) \/ MoveRetries(w) \/ SkipStep(w)
  PROVE  Walks(w) /\ Ordinary(w)
<1>1. /\ TrackType /\ OnlyKnown /\ WorkerKnown(w)
      /\ pc[w] \notin Idle => job[w] \in Exist /\ job[w] \in Jobs
  BY OfWorker
<1>2. CASE FindOrphans(w)
  <2> USE <1>1, <1>2 DEF FindOrphans
  <2>1. /\ Exist' = Exist
        /\ status' \in [Jobs -> {"none", "pending", "processing", "completed", "failed"}]
    BY DEF Exist, TrackType, db
  <2>2. WorkerKnown(w)'
    BY <2>1 DEF WorkerKnown, OnlyKnown, TrackType, Idle, Delisting, At, Goto, EntriesFor, db,
                redis, callers, history, locals
  <2>3. Walks(w)
    BY <2>1, <2>2 DEF Walks, WorkerKnown, OnlyKnown, TrackType, Labels, At, Goto, db, redis,
                      callers, history, locals
  <2>4. Ordinary(w)
    BY DEF Ordinary, Passed, EntryOf, TrackType, Delisting, At, Goto, db, redis, callers,
           history, locals
  <2>5. QED
    BY <2>3, <2>4
<1>3. CASE RecoverOrphans(w)
  <2> USE <1>1, <1>3 DEF RecoverOrphans
  <2>1. /\ Exist' = Exist
        /\ status' \in [Jobs -> {"none", "pending", "processing", "completed", "failed"}]
    BY DEF Exist, TrackType, db
  <2>2. WorkerKnown(w)'
    BY <2>1 DEF WorkerKnown, OnlyKnown, TrackType, Idle, Delisting, At, Goto, EntriesFor, db,
                redis, callers, history, locals
  <2>3. Walks(w)
    BY <2>1, <2>2 DEF Walks, WorkerKnown, OnlyKnown, TrackType, Labels, At, Goto, db, redis,
                      callers, history, locals
  <2>4. Ordinary(w)
    BY DEF Ordinary, Passed, EntryOf, TrackType, Delisting, At, Goto, db, redis, callers,
           history, locals
  <2>5. QED
    BY <2>3, <2>4
<1>4. CASE FindRetries(w)
  <2> USE <1>1, <1>4 DEF FindRetries
  <2>1. /\ Exist' = Exist
        /\ status' \in [Jobs -> {"none", "pending", "processing", "completed", "failed"}]
    BY DEF Exist, TrackType, db
  <2>2. WorkerKnown(w)'
    BY <2>1 DEF WorkerKnown, OnlyKnown, TrackType, Idle, Delisting, At, Goto, EntriesFor, db,
                redis, callers, history, locals
  <2>3. Walks(w)
    BY <2>1, <2>2 DEF Walks, WorkerKnown, OnlyKnown, TrackType, Labels, At, Goto, db, redis,
                      callers, history, locals
  <2>4. Ordinary(w)
    BY DEF Ordinary, Passed, EntryOf, TrackType, Delisting, At, Goto, db, redis, callers,
           history, locals
  <2>5. QED
    BY <2>3, <2>4
<1>5. CASE MoveRetries(w)
  <2> USE <1>1, <1>5 DEF MoveRetries
  <2>1. /\ Exist' = Exist
        /\ status' \in [Jobs -> {"none", "pending", "processing", "completed", "failed"}]
    BY DEF Exist, TrackType, db
  <2>2. WorkerKnown(w)'
    BY <2>1 DEF WorkerKnown, OnlyKnown, TrackType, Idle, Delisting, At, Goto, EntriesFor, db,
                redis, callers, history, locals
  <2>3. Walks(w)
    BY <2>1, <2>2 DEF Walks, WorkerKnown, OnlyKnown, TrackType, Labels, At, Goto, db, redis,
                      callers, history, locals
  <2>4. Ordinary(w)
    BY DEF Ordinary, Passed, EntryOf, TrackType, Delisting, At, Goto, db, redis, callers,
           history, locals
  <2>5. QED
    BY <2>3, <2>4
<1>6. CASE SkipStep(w)
  <2> USE <1>1, <1>6 DEF SkipStep
  <2>1. /\ Exist' = Exist
        /\ status' \in [Jobs -> {"none", "pending", "processing", "completed", "failed"}]
    BY DEF Exist, TrackType, db
  <2>2. WorkerKnown(w)'
    BY <2>1 DEF WorkerKnown, OnlyKnown, TrackType, Idle, Delisting, At, Goto, EntriesFor, db,
                redis, callers, history, locals
  <2>3. Walks(w)
    BY <2>1, <2>2 DEF Walks, WorkerKnown, OnlyKnown, TrackType, Labels, At, Goto, db, redis,
                      callers, history, locals
  <2>4. Ordinary(w)
    BY DEF Ordinary, Passed, EntryOf, TrackType, Delisting, At, Goto, db, redis, callers,
           history, locals
  <2>5. QED
    BY <2>3, <2>4
<1>7. QED
  BY <1>2, <1>3, <1>4, <1>5, <1>6

(* The steps of process_job and mark_completed, but for the entry.         *)
LEMMA ProcessWalks ==
  ASSUME TrackInv, NEW w \in Workers,
         \/ CheckSuppression(w) \/ StartProcessing(w) \/ Post(w)
         \/ Complete(w) \/ RecordEvent(w) \/ ProcessFails(w)
  PROVE  Walks(w) /\ Ordinary(w)
<1>1. /\ TrackType /\ OnlyKnown /\ WorkerKnown(w)
      /\ pc[w] \notin Idle => job[w] \in Exist /\ job[w] \in Jobs
  BY OfWorker
<1>2. CASE CheckSuppression(w)
  <2> USE <1>1, <1>2 DEF CheckSuppression
  <2>1. /\ Exist' = Exist
        /\ status' \in [Jobs -> {"none", "pending", "processing", "completed", "failed"}]
    BY DEF Exist, TrackType, db
  <2>2. WorkerKnown(w)'
    BY <2>1 DEF WorkerKnown, OnlyKnown, TrackType, Idle, Delisting, At, Goto, EntriesFor, db,
                redis, callers, history, locals
  <2>3. Walks(w)
    BY <2>1, <2>2 DEF Walks, WorkerKnown, OnlyKnown, TrackType, Labels, At, Goto, db, redis,
                      callers, history, locals
  <2>4. Ordinary(w)
    BY DEF Ordinary, Passed, EntryOf, TrackType, Delisting, At, Goto, db, redis, callers,
           history, locals
  <2>5. QED
    BY <2>3, <2>4
<1>3. CASE StartProcessing(w)
  <2> USE <1>1, <1>3 DEF StartProcessing
  <2>1. /\ Exist' = Exist
        /\ status' \in [Jobs -> {"none", "pending", "processing", "completed", "failed"}]
    BY StatusStep DEF At, Idle
  <2>2. WorkerKnown(w)'
    BY <2>1 DEF WorkerKnown, OnlyKnown, TrackType, Idle, Delisting, At, Goto, EntriesFor, db,
                redis, callers, history, locals
  <2>3. Walks(w)
    BY <2>1, <2>2 DEF Walks, WorkerKnown, OnlyKnown, TrackType, Labels, At, Goto, db, redis,
                      callers, history, locals
  <2>4. Ordinary(w)
    BY DEF Ordinary, Passed, EntryOf, TrackType, Delisting, At, Goto, db, redis, callers,
           history, locals
  <2>5. QED
    BY <2>3, <2>4
<1>4. CASE Post(w)
  <2> USE <1>1, <1>4 DEF Post
  <2>1. /\ Exist' = Exist
        /\ status' \in [Jobs -> {"none", "pending", "processing", "completed", "failed"}]
    BY DEF Exist, TrackType, db
  <2>2. WorkerKnown(w)'
    BY <2>1 DEF WorkerKnown, OnlyKnown, TrackType, Idle, Delisting, At, Goto, EntriesFor, db,
                redis, callers, history, locals
  <2>3. Walks(w)
    BY <2>1, <2>2 DEF Walks, WorkerKnown, OnlyKnown, TrackType, Labels, At, Goto, db, redis,
                      callers, history, locals
  <2>4. Ordinary(w)
    BY DEF Ordinary, Passed, EntryOf, TrackType, Delisting, At, Goto, db, redis, callers,
           history, locals
  <2>5. QED
    BY <2>3, <2>4
<1>5. CASE Complete(w)
  <2> USE <1>1, <1>5 DEF Complete
  <2>1. /\ Exist' = Exist
        /\ status' \in [Jobs -> {"none", "pending", "processing", "completed", "failed"}]
    BY StatusStep DEF At, Idle
  <2>2. WorkerKnown(w)'
    BY <2>1 DEF WorkerKnown, OnlyKnown, TrackType, Idle, Delisting, At, Goto, EntriesFor, db,
                redis, callers, history, locals
  <2>3. Walks(w)
    BY <2>1, <2>2 DEF Walks, WorkerKnown, OnlyKnown, TrackType, Labels, At, Goto, db, redis,
                      callers, history, locals
  <2>4. Ordinary(w)
    BY DEF Ordinary, Passed, EntryOf, TrackType, Delisting, At, Goto, db, redis, callers,
           history, locals
  <2>5. QED
    BY <2>3, <2>4
<1>6. CASE RecordEvent(w)
  <2> USE <1>1, <1>6 DEF RecordEvent
  <2>1. /\ Exist' = Exist
        /\ status' \in [Jobs -> {"none", "pending", "processing", "completed", "failed"}]
    BY DEF Exist, TrackType, db
  <2>2. WorkerKnown(w)'
    BY <2>1 DEF WorkerKnown, OnlyKnown, TrackType, Idle, Delisting, At, Goto, EntriesFor,
                LeaveTo, Delisted, db, redis, callers, history, locals
  <2>3. Walks(w)
    BY <2>1, <2>2 DEF Walks, WorkerKnown, OnlyKnown, TrackType, Labels, At, Goto, LeaveTo,
                      Delisted, db, redis, callers, history, locals
  <2>4. Ordinary(w)
    BY DEF Ordinary, Passed, EntryOf, TrackType, Delisting, At, Goto, LeaveTo, Delisted, db,
           redis, callers, history, locals
  <2>5. QED
    BY <2>3, <2>4
<1>7. CASE ProcessFails(w)
  <2> USE <1>1, <1>7 DEF ProcessFails
  <2>1. /\ Exist' = Exist
        /\ status' \in [Jobs -> {"none", "pending", "processing", "completed", "failed"}]
    BY DEF Exist, TrackType, db
  <2>2. WorkerKnown(w)'
    BY <2>1 DEF WorkerKnown, OnlyKnown, TrackType, Idle, Delisting, At, Goto, EntriesFor, db,
                redis, callers, history, locals
  <2>3. Walks(w)
    BY <2>1, <2>2 DEF Walks, WorkerKnown, OnlyKnown, TrackType, Labels, At, Goto, db, redis,
                      callers, history, locals
  <2>4. Ordinary(w)
    BY DEF Ordinary, Passed, EntryOf, TrackType, Delisting, At, Goto, db, redis, callers,
           history, locals
  <2>5. QED
    BY <2>3, <2>4
<1>8. QED
  BY <1>2, <1>3, <1>4, <1>5, <1>6, <1>7

(* The steps of mark_failed that put the job nowhere.                      *)
LEMMA FailureWalks ==
  ASSUME TrackInv, NEW w \in Workers,
         \/ ReadAttempts(w) \/ CountFailure(w) \/ PersistDead(w) \/ MarkFailedFails(w)
  PROVE  Walks(w) /\ Ordinary(w)
<1>1. /\ TrackType /\ OnlyKnown /\ WorkerKnown(w)
      /\ pc[w] \notin Idle => job[w] \in Exist /\ job[w] \in Jobs
  BY OfWorker
<1>2. CASE ReadAttempts(w)
  <2> USE <1>1, <1>2 DEF ReadAttempts
  <2>1. /\ Exist' = Exist
        /\ status' \in [Jobs -> {"none", "pending", "processing", "completed", "failed"}]
    BY DEF Exist, TrackType, db
  <2>2. WorkerKnown(w)'
    BY <2>1 DEF WorkerKnown, OnlyKnown, TrackType, Idle, Delisting, At, Goto, EntriesFor, db,
                redis, callers, history, locals
  <2>3. Walks(w)
    BY <2>1, <2>2 DEF Walks, WorkerKnown, OnlyKnown, TrackType, Labels, At, Goto, db, redis,
                      callers, history, locals
  <2>4. Ordinary(w)
    BY DEF Ordinary, Passed, EntryOf, TrackType, Delisting, At, Goto, db, redis, callers,
           history, locals
  <2>5. QED
    BY <2>3, <2>4
<1>3. CASE CountFailure(w)
  <2> USE <1>1, <1>3 DEF CountFailure
  <2>1. /\ Exist' = Exist
        /\ status' \in [Jobs -> {"none", "pending", "processing", "completed", "failed"}]
    BY StatusStep DEF At, Idle, TrackType, Exist
  <2>2. WorkerKnown(w)'
    BY <2>1 DEF WorkerKnown, OnlyKnown, TrackType, Idle, Delisting, At, Goto, EntriesFor, db,
                redis, callers, history, locals
  <2>3. Walks(w)
    BY <2>1, <2>2 DEF Walks, WorkerKnown, OnlyKnown, TrackType, Labels, At, Goto, db, redis,
                      callers, history, locals
  <2>4. Ordinary(w)
    BY DEF Ordinary, Passed, EntryOf, TrackType, Delisting, At, Goto, db, redis, callers,
           history, locals
  <2>5. QED
    BY <2>3, <2>4
<1>4. CASE PersistDead(w)
  <2> USE <1>1, <1>4 DEF PersistDead
  <2>1. /\ Exist' = Exist
        /\ status' \in [Jobs -> {"none", "pending", "processing", "completed", "failed"}]
    BY DEF Exist, TrackType, db
  <2>2. WorkerKnown(w)'
    BY <2>1 DEF WorkerKnown, OnlyKnown, TrackType, Idle, Delisting, At, Goto, EntriesFor, db,
                redis, callers, history, locals
  <2>3. Walks(w)
    BY <2>1, <2>2 DEF Walks, WorkerKnown, OnlyKnown, TrackType, Labels, At, Goto, db, redis,
                      callers, history, locals
  <2>4. Ordinary(w)
    BY DEF Ordinary, Passed, EntryOf, TrackType, Delisting, At, Goto, db, redis, callers,
           history, locals
  <2>5. QED
    BY <2>3, <2>4
<1>5. CASE MarkFailedFails(w)
  <2> USE <1>1, <1>5 DEF MarkFailedFails
  <2>1. /\ Exist' = Exist
        /\ status' \in [Jobs -> {"none", "pending", "processing", "completed", "failed"}]
    BY DEF Exist, TrackType, db
  <2>2. WorkerKnown(w)'
    BY <2>1 DEF WorkerKnown, OnlyKnown, TrackType, Idle, Delisting, At, Goto, EntriesFor,
                LeaveTo, Delisted, db, redis, callers, history, locals
  <2>3. Walks(w)
    BY <2>1, <2>2 DEF Walks, WorkerKnown, OnlyKnown, TrackType, Labels, At, Goto, LeaveTo,
                      Delisted, db, redis, callers, history, locals
  <2>4. Ordinary(w)
    BY DEF Ordinary, Passed, EntryOf, TrackType, Delisting, At, Goto, LeaveTo, Delisted, db,
           redis, callers, history, locals
  <2>5. QED
    BY <2>3, <2>4
<1>6. QED
  BY <1>2, <1>3, <1>4, <1>5

(* mark_completed and mark_failed list processing: what they find is an    *)
(* entry of the job.                                                       *)
LEMMA ListWalks ==
  ASSUME TrackInv, NEW w \in Workers, ListProcessing(w)
  PROVE  Walks(w) /\ Ordinary(w)
<1>1. /\ TrackType /\ OnlyKnown /\ WorkerKnown(w)
      /\ pc[w] \notin Idle => job[w] \in Exist /\ job[w] \in Jobs
  BY OfWorker
<1>2. /\ Exist' = Exist
      /\ status' \in [Jobs -> {"none", "pending", "processing", "completed", "failed"}]
  BY <1>1 DEF ListProcessing, Exist, TrackType, db
<1>3. CASE EntriesFor(job[w]) = {}
  <2>1. Delisted(w) /\ UNCHANGED found
    BY <1>3 DEF ListProcessing
  <2>2. WorkerKnown(w)'
    BY <1>1, <1>2, <2>1 DEF ListProcessing, WorkerKnown, OnlyKnown, TrackType, Idle, Delisting,
                            Delisted,
       LeaveTo, At, Goto, redis, callers, history
  <2>3. Walks(w)
    BY <1>1, <1>2, <2>1, <2>2 DEF ListProcessing, Walks, OnlyKnown, TrackType, Labels, Delisted,
       LeaveTo, At, Goto, redis, callers, history
  <2>4. Ordinary(w)
    BY <1>1, <2>1 DEF ListProcessing, Ordinary, Passed, TrackType, Delisting, Delisted, LeaveTo,
                      At,
       Goto, redis
  <2>5. QED
    BY <2>3, <2>4
<1>4. CASE EntriesFor(job[w]) # {}
  <2>1. Min(EntriesFor(job[w])) \in EntriesFor(job[w])
    <3>1. EntriesFor(job[w]) \in SUBSET Nat
      BY <1>1 DEF EntriesFor, TrackType
    <3>2. QED
      BY <1>4, <3>1, MinFacts
  <2>2. PICK e : e[3] = job[w] /\ found' = [found EXCEPT ![w] = e]
    BY <1>4, <2>1 DEF ListProcessing, EntriesFor
  <2>3. UNCHANGED <<pc, job>>
    BY <1>4 DEF ListProcessing
  <2>4. WorkerKnown(w)'
    BY <1>1, <1>2, <2>2, <2>3 DEF ListProcessing, WorkerKnown, TrackType, Delisting, redis,
                                  callers, history
  <2>5. Walks(w)
    BY <1>1, <1>2, <2>2, <2>3, <2>4 DEF ListProcessing, Walks, OnlyKnown, TrackType, redis,
                                        callers, history
  <2>6. Ordinary(w)
    BY <1>1, <2>3 DEF ListProcessing, Ordinary, Passed, EntryOf, Delisting, redis
  <2>7. QED
    BY <2>5, <2>6
<1>5. QED
  BY <1>3, <1>4

(* A worker that passes its job on has put it in retry or in the           *)
(* dead-letter set: the job's entry is no longer needed.                   *)
LEMMA PassesOn ==
  ASSUME TrackInv, NEW w \in Workers, ScheduleRetry(w) \/ Bury(w), NEW j \in Exist
  PROVE  Walks(w) /\ Keeps(j)
<1>1. /\ TrackType /\ OnlyKnown /\ WorkerKnown(w)
      /\ pc[w] \notin Idle => job[w] \in Exist /\ job[w] \in Jobs
  BY OfWorker
<1>2. /\ Exist' = Exist
      /\ status' \in [Jobs -> {"none", "pending", "processing", "completed", "failed"}]
  BY <1>1 DEF ScheduleRetry, Bury, Exist, TrackType, db
<1>3. WorkerKnown(w)'
  BY <1>1, <1>2 DEF ScheduleRetry, Bury, WorkerKnown, TrackType, Idle, Delisting, At, Goto,
                    callers, history
<1>4. Walks(w)
  <2>1. queue' \subseteq Exist /\ retry' \subseteq Exist /\ dead' \subseteq Exist
    BY <1>1 DEF ScheduleRetry, Bury, OnlyKnown, Idle, At
  <2>2. pc' \in [Workers -> Labels]
    BY <1>1 DEF ScheduleRetry, Bury, TrackType, Labels, Goto
  <2>3. QED
    BY <1>1, <1>2, <1>3, <2>1, <2>2 DEF ScheduleRetry, Bury, Walks, TrackType, Goto, callers,
                                        history
<1>5. Anchored(j) => Anchored(j)'
  <2> SUFFICES ASSUME Anchored(j) PROVE Anchored(j)'
    OBVIOUS
  <2>1. CASE j = job[w]
    BY <2>1 DEF ScheduleRetry, Bury, Anchored
  <2>2. CASE j \in queue \cup retry \cup dead
    BY <2>2 DEF ScheduleRetry, Bury, Anchored
  <2>3. ASSUME NEW e \in ToSet(processing), e[3] = j, Rests(e), j # job[w] PROVE Anchored(j)'
    <3>1. e \in ToSet(processing')
      BY <1>4 DEF Walks
    <3>2. ASSUME NEW v \in Workers, Passed(v)' PROVE e # EntryOf(v, job[v])'
      <4>1. EntryOf(v, job[v])' = EntryOf(v, job[v])
        BY <1>1 DEF ScheduleRetry, Bury, EntryOf
      <4>2. CASE v = w
        BY <2>3, <4>1, <4>2 DEF EntryOf
      <4>3. CASE v # w
        BY <1>4, <2>3, <3>2, <4>1, <4>3 DEF Walks, Passed, Rests
      <4>4. QED
        BY <4>2, <4>3
    <3>3. QED
      BY <2>3, <3>1, <3>2 DEF Anchored, Rests
  <2>4. CASE producer[j] = "created" \/ admin[j] \in {"taken", "reset", "pending"}
    BY <1>4, <2>4 DEF Anchored, Walks
  <2>5. CASE \E v \in Workers : pc[v] = "popped" /\ job[v] = j
    <3>1. PICK v \in Workers : pc[v] = "popped" /\ job[v] = j
      BY <2>5
    <3>2. pc'[v] = "popped" /\ job'[v] = j
      BY <1>1, <3>1 DEF ScheduleRetry, Bury, At, Goto, TrackType
    <3>3. QED
      BY <3>2 DEF Anchored
  <2>6. QED
    BY <2>1, <2>2, <2>3, <2>4, <2>5 DEF Anchored
<1>6. QED
  BY <1>4, <1>5 DEF Keeps

(* dequeue, ZPOPMIN: the job is in the worker's hands.                     *)
LEMMA PopTrack ==
  ASSUME TrackInv, NEW w \in Workers, NEW k \in Jobs, Pop(w, k), NEW j \in Exist
  PROVE  Walks(w) /\ Keeps(j)
<1>1. TrackType /\ OnlyKnown /\ WorkerKnown(w)
  BY OfWorker
<1>2. /\ Exist' = Exist
      /\ status' \in [Jobs -> {"none", "pending", "processing", "completed", "failed"}]
  BY <1>1 DEF Pop, Exist, TrackType, db
<1>3. k # NoJob
  BY EmailAssumption
<1>4. WorkerKnown(w)'
  BY <1>1, <1>2, <1>3 DEF Pop, WorkerKnown, OnlyKnown, TrackType, Idle, Delisting, At, Goto,
                          history
<1>5. Walks(w)
  BY <1>1, <1>2, <1>4 DEF Pop, Walks, OnlyKnown, TrackType, Labels, Goto, callers, history
<1>6. pc'[w] = "popped" /\ job'[w] = k
  BY <1>1 DEF Pop, Goto, TrackType
<1>7. Anchored(j) => Anchored(j)'
  <2> SUFFICES ASSUME Anchored(j) PROVE Anchored(j)'
    OBVIOUS
  <2>1. CASE j = k
    BY <1>6, <2>1 DEF Anchored
  <2>2. CASE j \in queue \cup retry \cup dead /\ j # k
    BY <2>2 DEF Pop, Anchored
  <2>3. ASSUME NEW e \in ToSet(processing), e[3] = j, Rests(e) PROVE Anchored(j)'
    <3>1. e \in ToSet(processing')
      BY <1>5 DEF Walks
    <3>2. \A v \in Workers : Passed(v)' => Passed(v) /\ EntryOf(v, job[v])' = EntryOf(v, job[v])
      BY <1>5, <1>6 DEF Walks, Passed, EntryOf
    <3>3. QED
      BY <2>3, <3>1, <3>2 DEF Anchored, Rests
  <2>4. CASE producer[j] = "created" \/ admin[j] \in {"taken", "reset", "pending"}
    BY <1>5, <2>4 DEF Anchored, Walks
  <2>5. CASE \E v \in Workers : pc[v] = "popped" /\ job[v] = j
    <3>1. PICK v \in Workers : pc[v] = "popped" /\ job[v] = j
      BY <2>5
    <3>2. pc'[v] = "popped" /\ job'[v] = j
      BY <1>1, <3>1 DEF Pop, At, Goto, TrackType
    <3>3. QED
      BY <3>2 DEF Anchored
  <2>6. QED
    BY <2>1, <2>2, <2>3, <2>4, <2>5 DEF Anchored
<1>8. QED
  BY <1>5, <1>7 DEF Keeps

(* An entry that rests keeps resting when no worker comes to pass its job  *)
(* on.                                                                     *)
LEMMA StillRests ==
  ASSUME NEW e, Rests(e),
         \A v \in Workers : Passed(v)' => Passed(v) /\ EntryOf(v, job[v])' = EntryOf(v, job[v])
  PROVE  Rests(e)'
  BY DEF Rests

(* dequeue, the entry of processing: the job has an entry that nobody is   *)
(* about to take off, or the command failed and the job is lost.           *)
LEMMA EnlistTrack ==
  ASSUME TrackInv, NEW w \in Workers, Enlist(w), NEW j \in Exist
  PROVE  Moved(w) /\ Keeps(j)
<1>1. /\ TrackType /\ OnlyKnown /\ WorkerKnown(w)
      /\ job[w] \in Exist /\ job[w] \in Jobs /\ pc[w] = "popped"
  BY OfWorker DEF Enlist, At, Idle
<1>2. /\ Exist' = Exist
      /\ status' \in [Jobs -> {"none", "pending", "processing", "completed", "failed"}]
  BY <1>1 DEF Enlist, Exist, TrackType, db
<1>0. PICK own : own = EntryOf(w, job[w])
  OBVIOUS
<1>3. own \in Entry /\ own[3] = job[w] /\ own[1] = w
  BY <1>0, <1>1 DEF Entry, EntryOf, TrackType
<1>4. \A v \in Workers : Passed(v)' => Passed(v) /\ EntryOf(v, job[v])' = EntryOf(v, job[v])
  BY <1>1 DEF Enlist, Passed, EntryOf, Goto, TrackType
<1>5. WorkerKnown(w)'
  BY <1>1, <1>2 DEF Enlist, WorkerKnown, TrackType, Idle, Delisting, Goto
<1>6. ASSUME NEW v \in Workers \ {w}
      PROVE  /\ pc'[v] = pc[v] /\ job'[v] = job[v] /\ batch'[v] = batch[v]
             /\ found'[v] = found[v] /\ incarnation'[v] = incarnation[v]
  BY <1>1 DEF Enlist, TrackType, Goto
<1>7. CASE pc' = [pc EXCEPT ![w] = "held"]
  <2>1. /\ processing' = Append(RemoveFirst(processing, own), own)
        /\ UNCHANGED <<lost, job>>
    <3>1. pc'[w] = "held"
      BY <1>1, <1>7 DEF TrackType
    <3>2. QED
      BY <1>0, <1>1, <3>1 DEF Enlist, Goto, TrackType
  <2>2. PICK r : r = RemoveFirst(processing, own)
    OBVIOUS
  <2>3. /\ r \in Seq(Entry) /\ ToSet(r) \subseteq ToSet(processing)
        /\ ToSet(processing) \ {own} \subseteq ToSet(r)
    BY <1>1, <2>2, RemoveFacts DEF TrackType
  <2>4. processing' \in Seq(Entry) /\ ToSet(processing') = ToSet(r) \cup {own}
    BY <1>3, <2>1, <2>2, <2>3, AppendFacts
  <2>5. ToSet(processing) \subseteq ToSet(processing') /\ own \in ToSet(processing')
    BY <2>3, <2>4
  <2>6. TrackType'
    BY <1>1, <1>2, <1>7, <2>1, <2>4 DEF Enlist, TrackType, Labels, callers
  <2>7. OnlyKnown'
    <3>1. \A e \in ToSet(processing') : e[3] \in Exist'
      BY <1>1, <1>2, <1>3, <2>3, <2>4 DEF OnlyKnown
    <3>2. QED
      BY <1>1, <1>2, <3>1 DEF Enlist, OnlyKnown
  <2>8. Moved(w)
    BY <1>2, <1>5, <1>6, <2>1, <2>6, <2>7 DEF Enlist, Moved, callers
  <2>9. Rests(own)'
    <3>1. ASSUME NEW v \in Workers, Passed(v)' PROVE own # EntryOf(v, job[v])'
      <4>1. v # w
        BY <1>1, <1>7, <3>1 DEF Passed, TrackType
      <4>2. QED
        BY <1>3, <4>1 DEF EntryOf
    <3>2. QED
      BY <3>1 DEF Rests
  <2>10. CASE j = job[w]
    BY <1>3, <2>5, <2>8, <2>9, <2>10 DEF Keeps, Anchored
  <2>11. ASSUME j # job[w], Anchored(j) PROVE Anchored(j)'
    <3>1. CASE \E e \in ToSet(processing) : e[3] = j /\ Rests(e)
      BY <1>4, <2>5, <3>1, StillRests DEF Anchored
    <3>2. CASE \E v \in Workers : pc[v] = "popped" /\ job[v] = j
      BY <1>6, <2>11, <3>2 DEF Anchored
    <3>3. QED
      BY <2>11, <3>1, <3>2 DEF Enlist, Anchored, callers
  <2>12. QED
    BY <2>8, <2>10, <2>11 DEF Keeps
<1>8. CASE pc' = [pc EXCEPT ![w] = "loop"]
  <2>1. /\ UNCHANGED processing /\ lost' = lost \cup {job[w]}
        /\ job' = [job EXCEPT ![w] = NoJob]
    <3>1. pc'[w] = "loop"
      BY <1>1, <1>8 DEF TrackType
    <3>2. QED
      BY <1>1, <3>1 DEF Enlist, Goto, TrackType
  <2>2. TrackType' /\ OnlyKnown'
    BY <1>1, <1>2, <1>8, <2>1 DEF Enlist, TrackType, OnlyKnown, Labels, callers
  <2>3. Moved(w)
    BY <1>2, <1>5, <1>6, <2>1, <2>2 DEF Enlist, Moved, callers
  <2>4. ASSUME j # job[w], Anchored(j) PROVE Anchored(j)'
    <3>1. CASE \E e \in ToSet(processing) : e[3] = j /\ Rests(e)
      BY <1>4, <2>1, <3>1, StillRests DEF Anchored
    <3>2. CASE \E v \in Workers : pc[v] = "popped" /\ job[v] = j
      BY <1>6, <2>4, <3>2 DEF Anchored
    <3>3. QED
      BY <2>4, <3>1, <3>2 DEF Enlist, Anchored, callers
  <2>5. QED
    BY <2>1, <2>3, <2>4 DEF Keeps
<1>9. QED
  BY <1>7, <1>8 DEF Enlist, Goto

(* The entry a worker found is taken off: its own, which nobody needs any  *)
(* more, or another one, and then its own stays behind, or the job is      *)
(* lost.                                                                   *)
LEMMA RemoveTrack ==
  ASSUME TrackInv, NEW w \in Workers, RemoveFound(w), NEW j \in Exist
  PROVE  Moved(w) /\ Keeps(j)
<1>1. /\ TrackType /\ OnlyKnown /\ WorkerKnown(w)
      /\ job[w] \in Exist /\ job[w] \in Jobs /\ Delisting(w) /\ found[w][3] = job[w]
  BY OfWorker DEF RemoveFound, WorkerKnown, Delisting, Idle
<1>2. /\ Exist' = Exist
      /\ status' \in [Jobs -> {"none", "pending", "processing", "completed", "failed"}]
  BY <1>1 DEF RemoveFound, Exist, TrackType, db
<1>0. PICK own : own = EntryOf(w, job[w])
  OBVIOUS
<1>3. own[3] = job[w] /\ own[1] = w
  BY <1>0 DEF EntryOf
<1>4. /\ pc' \in [Workers -> Labels] /\ job' \in [Workers -> Jobs \cup {NoJob}]
      /\ pc'[w] \in {"recording", "loop"}
      /\ \A v \in Workers \ {w} : pc'[v] = pc[v] /\ job'[v] = job[v]
  BY <1>1 DEF RemoveFound, Delisted, LeaveTo, Goto, TrackType, Labels
<1>5. \A v \in Workers : Passed(v)' =>
        v # w /\ Passed(v) /\ EntryOf(v, job[v])' = EntryOf(v, job[v])
  BY <1>4 DEF RemoveFound, Passed, EntryOf
<1>6. WorkerKnown(w)'
  BY <1>1, <1>2 DEF RemoveFound, WorkerKnown, TrackType, Idle, Delisting, Delisted, LeaveTo, At,
                    Goto
<1>7. /\ processing' \in Seq(Entry) /\ ToSet(processing') \subseteq ToSet(processing)
      /\ ToSet(processing) \ {found[w]} \subseteq ToSet(processing')
  <2>1. processing \in Seq(Entry) /\ processing' = RemoveFirst(processing, found[w])
    BY <1>1 DEF RemoveFound, TrackType
  <2>2. PICK f : f = found[w]
    OBVIOUS
  <2>3. /\ RemoveFirst(processing, f) \in Seq(Entry)
        /\ ToSet(RemoveFirst(processing, f)) \subseteq ToSet(processing)
        /\ ToSet(processing) \ {f} \subseteq ToSet(RemoveFirst(processing, f))
    BY <2>1, RemoveFacts
  <2>4. QED
    BY <2>1, <2>2, <2>3
<1>8. TrackType'
  BY <1>1, <1>2, <1>4, <1>7 DEF RemoveFound, TrackType, callers
<1>9. OnlyKnown'
  BY <1>1, <1>2, <1>7 DEF RemoveFound, OnlyKnown
<1>10. Moved(w)
  <2>1. \A v \in Workers \ {w} : /\ pc'[v] = pc[v] /\ job'[v] = job[v] /\ batch'[v] = batch[v]
                                  /\ found'[v] = found[v] /\ incarnation'[v] = incarnation[v]
    BY <1>1, <1>4 DEF RemoveFound, TrackType
  <2>2. lost \subseteq lost' /\ finished \subseteq finished' /\ UNCHANGED <<producer, admin>>
    BY DEF RemoveFound, callers
  <2>3. QED
    BY <1>2, <1>6, <1>8, <1>9, <2>1, <2>2 DEF Moved
<1>11. ASSUME Anchored(j), j \notin lost', j \notin finished' PROVE Anchored(j)'
  <2>1. ASSUME NEW e \in ToSet(processing), e[3] = j, Rests(e), e # found[w] PROVE Anchored(j)'
    <3>1. e \in ToSet(processing') /\ Rests(e)'
      BY <1>5, <1>7, <2>1, StillRests
    <3>2. QED
      BY <2>1, <3>1 DEF Anchored
  <2>2. ASSUME found[w] \in ToSet(processing), j = job[w], Rests(found[w]) PROVE Anchored(j)'
    <3>1. Passed(w)
      <4>1. j \notin finished
        BY <1>11 DEF RemoveFound
      <4>2. QED
        BY <1>1, <2>2, <4>1 DEF WorkerKnown, Delisting, Passed
    <3>2. own # found[w]
      BY <1>0, <2>2, <3>1 DEF Rests
    <3>3. own \in ToSet(processing)
      BY <1>0, <1>11, <2>2, <3>2 DEF RemoveFound, TakesAnothers
    <3>4. own \in ToSet(processing')
      BY <1>7, <3>2, <3>3
    <3>5. Rests(own)'
      <4>1. ASSUME NEW v \in Workers, Passed(v)' PROVE own # EntryOf(v, job[v])'
        BY <1>3, <1>5, <4>1 DEF EntryOf
      <4>2. QED
        BY <4>1 DEF Rests
    <3>6. QED
      BY <1>3, <2>2, <3>4, <3>5 DEF Anchored
  <2>3. CASE \E e \in ToSet(processing) : e[3] = j /\ Rests(e)
    BY <1>1, <2>1, <2>2, <2>3
  <2>4. CASE \E v \in Workers : pc[v] = "popped" /\ job[v] = j
    BY <1>1, <1>4, <2>4 DEF Anchored, Delisting
  <2>5. QED
    BY <1>11, <2>3, <2>4 DEF RemoveFound, Anchored, callers
<1>12. QED
  BY <1>10, <1>11 DEF Keeps

(* A crash leaves the job's entry behind, unless it comes between the two  *)
(* commands of dequeue.                                                    *)
LEMMA CrashTrack ==
  ASSUME TrackInv, NEW w \in Workers, Crash(w)
  PROVE  Moved(w) /\ \A j \in Exist : Keeps(j)
<1>1. TrackType /\ OnlyKnown /\ WorkerKnown(w)
  BY OfWorker
<1>2. /\ Exist' = Exist
      /\ status' \in [Jobs -> {"none", "pending", "processing", "completed", "failed"}]
  BY <1>1 DEF Crash, Exist, TrackType, db
<1>3. TrackType' /\ OnlyKnown'
  BY <1>1, <1>2 DEF Crash, TrackType, OnlyKnown, Labels, redis, callers
<1>4. WorkerKnown(w)'
  BY <1>1 DEF Crash, WorkerKnown, TrackType, Idle
<1>5. \A v \in Workers \ {w} : /\ pc'[v] = pc[v] /\ job'[v] = job[v] /\ batch'[v] = batch[v]
                                /\ found'[v] = found[v] /\ incarnation'[v] = incarnation[v]
  BY <1>1 DEF Crash, TrackType
<1>6. Moved(w)
  BY <1>2, <1>3, <1>4, <1>5 DEF Crash, Moved, callers
<1>7. \A v \in Workers : Passed(v)' => Passed(v) /\ EntryOf(v, job[v])' = EntryOf(v, job[v])
  BY <1>1, <1>5 DEF Crash, Passed, EntryOf, TrackType
<1>8. ASSUME NEW j \in Exist, Anchored(j), j \notin lost' PROVE Anchored(j)'
  <2>1. CASE \E e \in ToSet(processing) : e[3] = j /\ Rests(e)
    BY <1>7, <2>1, StillRests DEF Crash, Anchored, redis
  <2>2. CASE \E v \in Workers : pc[v] = "popped" /\ job[v] = j
    <3>1. PICK v \in Workers : pc[v] = "popped" /\ job[v] = j
      BY <2>2
    <3>2. v # w
      BY <1>8, <3>1 DEF Crash, At
    <3>3. QED
      BY <1>5, <3>1, <3>2 DEF Anchored
  <2>3. QED
    BY <1>8, <2>1, <2>2 DEF Crash, Anchored, redis, callers
<1>9. QED
  BY <1>6, <1>8 DEF Keeps

(* What enqueue, requeue_dead_letter and the webhook do for job j leaves   *)
(* the workers, the entries and the other jobs alone.                      *)
Called(j) ==
  /\ UNCHANGED <<pc, job, batch, found, incarnation, processing, finished>> /\ lost \subseteq lost'
  /\ status' \in [Jobs -> {"none", "pending", "processing", "completed", "failed"}]
  /\ Exist \subseteq Exist' /\ Exist' \subseteq Exist \cup {j}
  /\ DOMAIN producer' = Jobs /\ DOMAIN admin' = Jobs
  /\ \A k \in Jobs \ {j} : producer'[k] = producer[k] /\ admin'[k] = admin[k]
  /\ CallerKnown(j)'
  /\ queue' \subseteq Exist' /\ retry' \subseteq Exist' /\ dead' \subseteq Exist'
  /\ (queue \cup retry \cup dead) \ {j} \subseteq queue' \cup retry' \cup dead'

(* They keep the invariant when job j is anchored afterwards, or lost, or  *)
(* as it was.                                                              *)
LEMMA CalledTrack ==
  ASSUME TrackInv, NEW j \in Jobs, Called(j),
         j \in lost' \/ Anchored(j)' \/ (j \in Exist /\ (Anchored(j) => Anchored(j)')) \/ j \notin Exist'
  PROVE  TrackInv'
<1>1. TrackType /\ OnlyKnown /\ TrackType'
  BY DEF TrackInv, TrackType, Called
<1>2. OnlyKnown'
  BY <1>1 DEF OnlyKnown, Called
<1>3. \A w \in Workers : WorkerKnown(w)'
  <2> SUFFICES ASSUME NEW w \in Workers PROVE WorkerKnown(w)'
    OBVIOUS
  <2>1. WorkerKnown(w)
    BY DEF TrackInv
  <2>2. QED
    BY <2>1 DEF WorkerKnown, Called, Delisting
<1>4. \A k \in Jobs : CallerKnown(k)'
  <2> SUFFICES ASSUME NEW k \in Jobs, k # j PROVE CallerKnown(k)'
    BY DEF Called
  <2>1. CallerKnown(k)
    BY DEF TrackInv
  <2>2. QED
    BY <2>1 DEF CallerKnown, Called
<1>5. ASSUME NEW e PROVE Rests(e)' <=> Rests(e)
  BY DEF Called, Rests, Passed, EntryOf
<1>6. ASSUME NEW k \in Exist', k \notin lost', k \notin finished' PROVE Anchored(k)'
  <2>1. CASE k = j
    BY <1>6, <2>1 DEF TrackInv, Called
  <2>2. CASE k # j
    <3>1. k \in Jobs /\ k \in Exist /\ Anchored(k)
      BY <1>6, <2>2 DEF TrackInv, Called, Exist
    <3>2. CASE \E e \in ToSet(processing) : e[3] = k /\ Rests(e)
      BY <1>5, <3>2 DEF Called, Anchored
    <3>3. CASE k \in queue \cup retry \cup dead
      BY <2>2, <3>3 DEF Called, Anchored
    <3>4. QED
      BY <2>2, <3>1, <3>2, <3>3 DEF Called, Anchored
  <2>3. QED
    BY <2>1, <2>2
<1>7. QED
  BY <1>1, <1>2, <1>3, <1>4, <1>6 DEF TrackInv

(* The callers keep the invariant.                                         *)
LEMMA CallerTrack ==
  ASSUME TrackInv, NEW j \in Jobs, Caller(j)
  PROVE  TrackInv'
<1>1. TrackType /\ OnlyKnown /\ CallerKnown(j)
  BY DEF TrackInv
<1>2. ASSUME NEW e PROVE UNCHANGED locals => (Rests(e)' <=> Rests(e))
  BY DEF locals, Rests, Passed, EntryOf
<1>3. CASE CreateJob(j)
  <2>1. /\ status' \in [Jobs -> {"none", "pending", "processing", "completed", "failed"}]
        /\ Exist' = Exist \cup {j}
    BY <1>1, <1>3 DEF CreateJob, TrackType, Exist
  <2>2. Called(j) /\ Anchored(j)'
    BY <1>1, <1>3, <2>1 DEF CreateJob, Called, Anchored, CallerKnown, OnlyKnown, TrackType,
                            redis, locals, history
  <2>3. QED
    BY <2>2, CalledTrack
<1>4. ASSUME UNCHANGED status \/ ResetJob(j)
      PROVE  /\ status' \in [Jobs -> {"none", "pending", "processing", "completed", "failed"}]
             /\ Exist' = Exist
  <2>1. CASE UNCHANGED status
    BY <1>1, <2>1 DEF TrackType, Exist
  <2>2. CASE ResetJob(j) /\ ~UNCHANGED status
    <3>1. j \in Exist /\ status' = [status EXCEPT ![j] = "pending"]
      BY <1>1, <2>2 DEF ResetJob, CallerKnown
    <3>2. QED
      BY <1>1, <3>1, StatusStep
  <2>3. QED
    BY <1>4, <2>1, <2>2
<1>5. CASE PublishJob(j)
  <2>1. Called(j)
    BY <1>1, <1>4, <1>5 DEF PublishJob, Called, CallerKnown, OnlyKnown, TrackType, db, locals
  <2>2. j \in lost' \/ Anchored(j)'
    BY <1>5 DEF PublishJob, Anchored
  <2>3. QED
    BY <2>1, <2>2, CalledTrack
<1>6. CASE TakeFromDead(j)
  <2>1. Called(j) /\ Anchored(j)'
    BY <1>1, <1>4, <1>6 DEF TakeFromDead, Called, Anchored, CallerKnown, OnlyKnown, TrackType, db,
       locals, history
  <2>2. QED
    BY <2>1, CalledTrack
<1>7. CASE ResetJob(j)
  <2>1. Called(j) /\ Anchored(j)'
    BY <1>1, <1>4, <1>7 DEF ResetJob, Called, Anchored, CallerKnown, OnlyKnown, TrackType, redis,
       locals, history
  <2>2. QED
    BY <2>1, CalledTrack
<1>8. CASE RequeueJob(j)
  <2>1. Called(j) /\ Anchored(j)'
    BY <1>1, <1>4, <1>8 DEF RequeueJob, Called, Anchored, CallerKnown, OnlyKnown, TrackType, db,
       locals, history
  <2>2. QED
    BY <2>1, CalledTrack
<1>9. CASE RequeueFails(j)
  <2>1. Called(j) /\ j \in lost'
    BY <1>1, <1>4, <1>9 DEF RequeueFails, Called, CallerKnown, OnlyKnown, TrackType, db, redis,
                            locals
  <2>2. QED
    BY <2>1, CalledTrack
<1>10. CASE ForgetDead(j)
  <2>1. Called(j) /\ j \in Exist
    BY <1>1, <1>4, <1>10 DEF ForgetDead, Called, CallerKnown, OnlyKnown, TrackType, redis,
                             locals, history
  <2>2. Anchored(j) => Anchored(j)'
    BY <1>1, <1>2, <1>10 DEF ForgetDead, Anchored, TrackType, redis, locals
  <2>3. QED
    BY <2>1, <2>2, CalledTrack
<1>11. CASE Suppress(j)
  <2>1. Called(j) /\ j \in Exist
    BY <1>1, <1>4, <1>11 DEF Suppress, Called, CallerKnown, OnlyKnown, TrackType, Exist, redis,
                             locals,
       callers, history
  <2>2. Anchored(j) => Anchored(j)'
    BY <1>2, <1>11 DEF Suppress, Anchored, redis, locals, callers
  <2>3. QED
    BY <2>1, <2>2, CalledTrack
<1>12. QED
  BY <1>3, <1>5, <1>6, <1>7, <1>8, <1>9, <1>10, <1>11 DEF Caller

(* A worker keeps it too.                                                  *)
LEMMA WorkerTrack ==
  ASSUME TrackInv, NEW w \in Workers, Step(w) \/ Crash(w)
  PROVE  TrackInv'
<1>1. ASSUME Walks(w), \A j \in Exist : Keeps(j) PROVE TrackInv'
  BY <1>1, WalksMoved, MovedTrack
<1>2. ASSUME Walks(w), Ordinary(w) PROVE TrackInv'
  BY <1>2, WalksMoved, OrdinaryKeeps, MovedTrack
<1>3. CASE FindOrphans(w) \/ RecoverOrphans(w) \/ FindRetries(w) \/ MoveRetries(w) \/ SkipStep(w)
  BY <1>2, <1>3, LoopWalks
<1>4. CASE \/ CheckSuppression(w) \/ StartProcessing(w) \/ Post(w) \/ Complete(w)
           \/ RecordEvent(w) \/ ProcessFails(w)
  BY <1>2, <1>4, ProcessWalks
<1>5. CASE ReadAttempts(w) \/ CountFailure(w) \/ PersistDead(w) \/ MarkFailedFails(w)
  BY <1>2, <1>5, FailureWalks
<1>6. CASE ListProcessing(w)
  BY <1>2, <1>6, ListWalks
<1>7. CASE ScheduleRetry(w) \/ Bury(w)
  <2>1. CASE Exist = {}
    <3>1. job[w] \in Exist
      BY <1>7, OfWorker DEF ScheduleRetry, Bury, At, Idle
    <3>2. QED
      BY <2>1, <3>1
  <2>2. CASE Exist # {}
    BY <1>1, <1>7, <2>2, PassesOn
  <2>3. QED
    BY <2>1, <2>2
<1>8. CASE \E k \in Jobs : Pop(w, k)
  <2>1. PICK k \in Jobs : Pop(w, k)
    BY <1>8
  <2>2. k \in Exist
    BY <2>1, OfWorker DEF Pop, OnlyKnown
  <2>3. QED
    BY <1>1, <2>1, <2>2, PopTrack
<1>9. CASE Enlist(w)
  <2>1. job[w] \in Exist
    BY <1>9, OfWorker DEF Enlist, At, Idle
  <2>2. QED
    BY <1>9, <2>1, EnlistTrack, MovedTrack
<1>10. CASE RemoveFound(w)
  <2>1. job[w] \in Exist
    BY <1>10, OfWorker DEF RemoveFound, Delisting, Idle
  <2>2. QED
    BY <1>10, <2>1, RemoveTrack, MovedTrack
<1>11. CASE Crash(w)
  BY <1>11, CrashTrack, MovedTrack
<1>12. QED
  BY <1>3, <1>4, <1>5, <1>6, <1>7, <1>8, <1>9, <1>10, <1>11 DEF Step

(* The invariant holds, for any number of jobs, workers and failures.      *)
THEOREM TrackCorrect == Spec => []TrackInv
<1>1. Init => TrackInv
  BY InitTrack
<1>2. TrackInv /\ [Next]_vars => TrackInv'
  <2> SUFFICES ASSUME TrackInv, [Next]_vars PROVE TrackInv'
    OBVIOUS
  <2>1. CASE Next
    BY <2>1, CallerTrack, WorkerTrack DEF Next
  <2>2. CASE UNCHANGED vars
    BY <2>2 DEF TrackInv, TrackType, OnlyKnown, WorkerKnown, CallerKnown, Anchored, Rests, Passed,
       EntryOf, Exist, Delisting, vars, db, redis, locals, callers, history
  <2>3. QED
    BY <2>1, <2>2
<1>3. QED
  BY <1>1, <1>2, PTL DEF Spec

(* No failure, crash or race of workers drops a job nobody completed, but  *)
(* in the four places that `lost' names.                                   *)
THEOREM UnfinishedTrackedHolds == Spec => []UnfinishedTracked
<1>1. TrackInv => UnfinishedTracked
  BY TrackImplies
<1>2. QED
  BY <1>1, TrackCorrect, PTL
=============================================================================
