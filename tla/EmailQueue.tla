----------------------------- MODULE EmailQueue -----------------------------
(***************************************************************************)
(* services/api/src/email: the queue of outgoing emails, its workers, and  *)
(* how EmailService sends one.  The state is shared by all instances of    *)
(* the API: rows of PostgreSQL (status, attempts, dead_db, suppressed) and *)
(* keys of Redis (queue, processing, retry, dead).  One action is what     *)
(* happens up to the next await: one command of Redis, one statement of    *)
(* SQL or one request to SendGrid.  Every one of them may fail, and a      *)
(* worker may crash between any two.                                       *)
(*                                                                         *)
(* The program builds its EmailService without a cache, and gives that one *)
(* to the worker: the branches of send_email_idempotent that count the     *)
(* emails of a recipient and set the idempotency key are never taken, and  *)
(* what process_job does with the key it derives is to send.               *)
(*                                                                         *)
(* There is no clock.  Between two steps any time may pass, so a retry     *)
(* may be due or not, and an entry of processing may be stale or not; a    *)
(* worker that is between jobs renews its heartbeat and is never taken for *)
(* dead.  dequeue takes the lowest score whatever the score is, so scores  *)
(* only order the queue, and any order of it is considered.  A worker that *)
(* stops on shutdown is one that takes no more steps.                      *)
(***************************************************************************)
EXTENDS Integers, FiniteSets, SequencesExt

CONSTANTS Jobs, Workers,
          NoJob,          \* stands for no job
          MAX_ATTEMPTS,   \* email_jobs.max_attempts
          MaxFaults,      \* bound: crashes of workers and calls that fail
          MaxDoubts       \* bound: doubts about one job

VARIABLES
  status, attempts,       \* email_jobs
  dead_db,                \* email_dead_letter_jobs
  suppressed,             \* the jobs whose recipient is in email_suppressions
  queue, retry, dead,     \* email:queue, email:retry, email:dead_letter
  processing,             \* email:processing: <<worker, incarnation, job>>, oldest first
  producer, admin,        \* where enqueue and requeue_dead_letter of a job are
  pc, job, batch, found,  \* of each worker
  tries,                  \* of each worker: what mark_failed read, until it is used
  incarnation,            \* how often a worker crashed; part of its worker_id
  faults,                 \* how many crashes and failures there were
  delivered,              \* history: how often SendGrid accepted the email
  finished,               \* history: jobs some worker completed
  lost,                   \* history: jobs a step left without the entry they need
  doubts                  \* history: how often a job was taken up again, or kept,
                          \* while it may have been sent or be in other hands

db == <<status, attempts, dead_db, suppressed>>
redis == <<queue, retry, dead, processing>>
locals == <<pc, job, batch, tries, found, incarnation>>
callers == <<producer, admin>>
history == <<delivered, finished, lost, doubts>>
vars == <<db, redis, locals, callers, history, faults>>

ASSUME EmailAssumption ==
  /\ MAX_ATTEMPTS \in Nat \ {0} /\ MaxFaults \in Nat /\ MaxDoubts \in Nat
  /\ NoJob \notin Jobs /\ IsFiniteSet(Workers)

Init ==
  /\ status = [j \in Jobs |-> "none"] /\ attempts = [j \in Jobs |-> 0]
  /\ dead_db = {} /\ suppressed = {}
  /\ queue = {} /\ retry = {} /\ dead = {} /\ processing = <<>>
  /\ producer = [j \in Jobs |-> "idle"] /\ admin = [j \in Jobs |-> "idle"]
  /\ pc = [w \in Workers |-> "start"] /\ job = [w \in Workers |-> NoJob]
  /\ batch = [w \in Workers |-> {}] /\ tries = [w \in Workers |-> 0]
  /\ found = [w \in Workers |-> NoJob] /\ incarnation = [w \in Workers |-> 0]
  /\ delivered = [j \in Jobs |-> 0] /\ finished = {} /\ lost = {} /\ faults = 0
  /\ doubts = [j \in Jobs |-> 0]

EntryOf(w, j) == <<w, incarnation[w], j>>
EntriesFor(j) == {i \in DOMAIN processing : processing[i][3] = j}

Fault == faults < MaxFaults /\ faults' = faults + 1
NoFault == UNCHANGED faults

(* One more way to send each of the jobs js than there was. *)
Doubt(js) ==
  /\ doubts' = [j \in Jobs |-> IF j \in js THEN doubts[j] + 1 ELSE doubts[j]]
  /\ \A j \in js : doubts[j] < MaxDoubts

(* Where a worker is: the next call it makes. *)
Labels == {"start", "recover", "loop", "moving", "dequeue", "popped", "held", "accepted",
           "post", "sent", "skip", "closing", "closing_skipped", "recording",
           "failing", "failed", "schedule", "bury", "persist", "leaving"}

At(w, label) == pc[w] = label
Goto(w, label) == pc' = [pc EXCEPT ![w] = label]
------------------------------------------------------------------------------
(* enqueue: a row, then the queue *)
CreateJob(j) ==
  /\ NoFault
  /\ producer[j] = "idle"
  /\ status' = [status EXCEPT ![j] = "pending"]
  /\ producer' = [producer EXCEPT ![j] = "created"]
  /\ UNCHANGED <<attempts, dead_db, suppressed, redis, locals, admin, history>>

PublishJob(j) ==
  /\ producer[j] = "created"
  /\ producer' = [producer EXCEPT ![j] = "done"]
  /\ \/ NoFault /\ queue' = queue \cup {j} /\ UNCHANGED lost
     \/ Fault /\ lost' = lost \cup {j} /\ UNCHANGED queue
  /\ UNCHANGED <<db, retry, dead, processing, locals, admin, delivered, finished, doubts>>

(* requeue_dead_letter: out of the dead-letter set, attempts, status, into *)
(* the queue, and out of PostgreSQL                                        *)
TakeFromDead(j) ==
  /\ NoFault
  /\ admin[j] = "idle" /\ j \in dead
  /\ dead' = dead \ {j}
  /\ admin' = [admin EXCEPT ![j] = "taken"]
  /\ UNCHANGED <<db, queue, retry, processing, locals, producer, history>>

ResetJob(j) ==
  /\ NoFault
  /\ \/ /\ admin[j] = "taken"
        /\ attempts' = [attempts EXCEPT ![j] = 0]
        /\ admin' = [admin EXCEPT ![j] = "reset"]
        /\ UNCHANGED status
     \/ /\ admin[j] = "reset"
        /\ status' = [status EXCEPT ![j] = "pending"]
        /\ admin' = [admin EXCEPT ![j] = "pending"]
        /\ UNCHANGED attempts
  /\ UNCHANGED <<dead_db, suppressed, redis, locals, producer, history>>

RequeueJob(j) ==
  /\ NoFault
  /\ admin[j] = "pending"
  /\ queue' = queue \cup {j}
  /\ admin' = [admin EXCEPT ![j] = "queued"]
  /\ UNCHANGED <<db, retry, dead, processing, locals, producer, history>>

RequeueFails(j) ==
  /\ Fault
  /\ admin[j] \in {"taken", "reset", "pending"}
  /\ admin' = [admin EXCEPT ![j] = "idle"]
  /\ lost' = lost \cup {j}
  /\ UNCHANGED <<db, redis, locals, producer, delivered, finished, doubts>>

ForgetDead(j) ==
  /\ admin[j] = "queued"
  /\ \/ NoFault /\ dead_db' = dead_db \ {j}
     \/ Fault /\ UNCHANGED dead_db
  /\ admin' = [admin EXCEPT ![j] = "idle"]
  /\ UNCHANGED <<status, attempts, suppressed, redis, locals, producer, history>>

(* email_add_suppression, by the webhook of SendGrid *)
Suppress(j) ==
  /\ NoFault
  /\ status[j] # "none" /\ j \notin suppressed
  /\ suppressed' = suppressed \cup {j}
  /\ UNCHANGED <<status, attempts, dead_db, redis, locals, callers, history>>

Caller(j) ==
  \/ CreateJob(j) \/ PublishJob(j) \/ TakeFromDead(j) \/ ResetJob(j) \/ RequeueJob(j)
  \/ RequeueFails(j) \/ ForgetDead(j) \/ Suppress(j)
------------------------------------------------------------------------------
(* start_worker, recover_orphaned_jobs: entries are stale when their       *)
(* worker crashed or has been busy for long.                               *)
Stale(e) == e[2] < incarnation[e[1]] \/ pc[e[1]] \notin {"start", "loop", "moving", "dequeue"}

FindOrphans(w) ==
  /\ NoFault
  /\ At(w, "start")
  /\ \E s \in SUBSET {e \in ToSet(processing) : Stale(e)} :
       batch' = [batch EXCEPT ![w] = {e[3] : e \in s}]
  /\ Goto(w, "recover")
  /\ UNCHANGED <<db, redis, callers, history, job, tries, found, incarnation>>

(* A Redis script on what was found before: every job is queued.  The      *)
(* script means to remove an entry of each, but looks for it with a Lua    *)
(* pattern made of the job's UUID, whose hyphens are repetition operators  *)
(* and match no hyphen: it finds none, and the entries stay.               *)
RecoverOrphans(w) ==
  /\ NoFault
  /\ At(w, "recover")
  /\ queue' = queue \cup batch[w] /\ Doubt(batch[w] \ queue)
  /\ batch' = [batch EXCEPT ![w] = {}]
  /\ Goto(w, "loop")
  /\ UNCHANGED <<db, retry, dead, processing, callers, delivered, finished, lost, job, tries,
                 found, incarnation>>

(* process_retries: reads what is due, then moves it, in any case: also    *)
(* what another worker has moved meanwhile.                                *)
FindRetries(w) ==
  /\ NoFault
  /\ At(w, "loop")
  /\ \E due \in SUBSET retry : batch' = [batch EXCEPT ![w] = due]
  /\ Goto(w, "moving")
  /\ UNCHANGED <<db, redis, callers, history, job, tries, found, incarnation>>

(* Deviation: what is due is queued and stays in retry. *)
MoveRetries_Keeps(w) ==
  /\ NoFault
  /\ At(w, "moving")
  /\ queue' = queue \cup batch[w] /\ retry' = retry
  /\ Doubt(batch[w] \ (queue \cup retry))
  /\ batch' = [batch EXCEPT ![w] = {}]
  /\ Goto(w, "dequeue")
  /\ UNCHANGED <<db, dead, processing, callers, delivered, finished, lost, job, tries, found,
                 incarnation>>

MoveRetries(w) ==
  /\ NoFault
  /\ At(w, "moving")
  /\ queue' = queue \cup batch[w] /\ retry' = retry \ batch[w]
  /\ Doubt(batch[w] \ (queue \cup retry))
  /\ batch' = [batch EXCEPT ![w] = {}]
  /\ Goto(w, "dequeue")
  /\ UNCHANGED <<db, dead, processing, callers, delivered, finished, lost, job, tries, found,
                 incarnation>>

(* A command of recover_orphaned_jobs or process_retries fails, or there   *)
(* is nothing to dequeue: on with the loop.                                *)
SkipStep(w) ==
  /\ \/ Fault /\ pc[w] \in {"start", "recover"} /\ Goto(w, "loop")
     \/ Fault /\ pc[w] \in {"loop", "moving"} /\ Goto(w, "dequeue")
     \/ NoFault /\ At(w, "dequeue") /\ queue = {} /\ Goto(w, "loop")
  /\ batch' = [batch EXCEPT ![w] = {}]
  /\ UNCHANGED <<db, redis, callers, history, job, tries, found, incarnation>>

(* dequeue: ZPOPMIN, then an entry of processing.  When the second fails   *)
(* the job is nowhere.                                                     *)
Pop(w, j) ==
  /\ NoFault
  /\ At(w, "dequeue") /\ j \in queue
  /\ queue' = queue \ {j}
  /\ job' = [job EXCEPT ![w] = j]
  /\ Goto(w, "popped")
  /\ UNCHANGED <<db, retry, dead, processing, callers, history, batch, tries, found,
                 incarnation>>

Enlist(w) ==
  /\ At(w, "popped")
  /\ \/ /\ NoFault /\ Goto(w, "held") /\ UNCHANGED <<lost, job>>
        /\ processing' = Append(RemoveFirst(processing, EntryOf(w, job[w])), EntryOf(w, job[w]))
     \/ /\ Fault /\ lost' = lost \cup {job[w]}
        /\ job' = [job EXCEPT ![w] = NoJob]
        /\ Goto(w, "loop") /\ UNCHANGED processing
  /\ UNCHANGED <<db, queue, retry, dead, callers, delivered, finished, doubts,
                 batch, tries, found, incarnation>>
------------------------------------------------------------------------------
(* process_job: a suppressed recipient gets nothing *)
CheckSuppression(w) ==
  /\ NoFault
  /\ At(w, "held")
  /\ Goto(w, IF job[w] \in suppressed THEN "skip" ELSE "accepted")
  /\ UNCHANGED <<db, redis, callers, history, job, batch, tries, found, incarnation>>

StartProcessing(w) ==
  /\ NoFault
  /\ At(w, "accepted")
  /\ status' = [status EXCEPT ![job[w]] = "processing"]
  /\ Goto(w, "post")
  /\ UNCHANGED <<attempts, dead_db, suppressed, redis, callers, history, job, batch, tries, found,
                 incarnation>>

(* send_email_idempotent: SendGrid accepts the email, or refuses it for    *)
(* good (429 and 5xx, taken for refusals, are repeated twice first), or    *)
(* accepts it and the answer is lost, which ends the loop as a failure.    *)
Post(w) ==
  /\ At(w, "post")
  /\ \/ /\ NoFault /\ Goto(w, "sent") /\ UNCHANGED doubts
        /\ delivered' = [delivered EXCEPT ![job[w]] = @ + 1]
     \/ NoFault /\ Goto(w, "failing") /\ UNCHANGED <<delivered, doubts>>
     \/ /\ Fault /\ Goto(w, "failing") /\ Doubt({job[w]})
        /\ delivered' = [delivered EXCEPT ![job[w]] = @ + 1]
  /\ UNCHANGED <<db, redis, callers, finished, lost, job, batch, tries, found, incarnation>>

(* mark_completed: the row, an entry of processing, the event *)
Complete(w) ==
  /\ NoFault
  /\ pc[w] \in {"sent", "skip"}
  /\ status' = [status EXCEPT ![job[w]] = "completed"]
  /\ Goto(w, IF At(w, "sent") THEN "closing" ELSE "closing_skipped")
  /\ finished' = finished \cup {job[w]}
  /\ UNCHANGED <<attempts, dead_db, suppressed, redis, callers, delivered, lost, doubts, job,
                 batch, tries, found, incarnation>>

LeaveTo(w, label) ==
  Goto(w, label) /\ job' = [job EXCEPT ![w] = IF label = "loop" THEN NoJob ELSE @]

(* mark_completed and mark_failed list processing and then remove the      *)
(* first entry of the job they saw, whoever made it.                       *)
Delisting(w) == pc[w] \in {"closing", "closing_skipped", "leaving"}
Delisted(w) == LeaveTo(w, IF At(w, "closing") THEN "recording" ELSE "loop")

ListProcessing(w) ==
  /\ NoFault
  /\ Delisting(w) /\ found[w] = NoJob
  /\ IF EntriesFor(job[w]) = {}
     THEN Delisted(w) /\ UNCHANGED found
     ELSE /\ found' = [found EXCEPT ![w] = processing[Min(EntriesFor(job[w]))]]
          /\ UNCHANGED <<pc, job>>
  /\ UNCHANGED <<db, redis, callers, history, batch, tries, incarnation>>

(* The entry of another worker is taken instead of one's own, which is     *)
(* gone.                                                                   *)
TakesAnothers(w) ==
  EntryOf(w, job[w]) # found[w] /\ EntryOf(w, job[w]) \notin ToSet(processing)

RemoveFound(w) ==
  /\ NoFault
  /\ Delisting(w) /\ found[w] # NoJob
  /\ processing' = RemoveFirst(processing, found[w])
  /\ found' = [found EXCEPT ![w] = NoJob]
  /\ lost' = IF TakesAnothers(w) THEN lost \cup {job[w]} ELSE lost
  /\ Delisted(w)
  /\ UNCHANGED <<db, queue, retry, dead, callers, delivered, finished, doubts, batch,
                 tries, incarnation>>

RecordEvent(w) ==
  /\ NoFault
  /\ At(w, "recording")
  /\ LeaveTo(w, "loop")
  /\ UNCHANGED <<db, redis, callers, history, batch, tries, found, incarnation>>

(* process_job: any of its calls returns Err, also those of mark_completed *)
(* after the email was sent.                                               *)
ProcessFails(w) ==
  /\ Fault
  /\ \/ pc[w] \in {"held", "accepted", "skip", "closing_skipped"} /\ UNCHANGED doubts
     \/ pc[w] \in {"sent", "closing", "recording"} /\ Doubt({job[w]})
  /\ Goto(w, "failing") /\ found' = [found EXCEPT ![w] = NoJob]
  /\ UNCHANGED <<db, redis, callers, delivered, finished, lost, job, batch, tries, incarnation>>
------------------------------------------------------------------------------
(* mark_failed: what it read of attempts decides *)
ReadAttempts(w) ==
  /\ NoFault
  /\ At(w, "failing")
  /\ tries' = [tries EXCEPT ![w] = attempts[job[w]] + 1]
  /\ Goto(w, "failed")
  /\ UNCHANGED <<db, redis, callers, history, job, batch, found, incarnation>>

(* Deviation: the entry of processing goes before the job is in retry. *)
CountFailure_DelistsFirst(w) ==
  /\ NoFault
  /\ At(w, "failed")
  /\ IF tries[w] < MAX_ATTEMPTS
     THEN /\ attempts' = [attempts EXCEPT ![job[w]] = tries[w]] /\ UNCHANGED status
          /\ Goto(w, "schedule")
     ELSE /\ status' = [status EXCEPT ![job[w]] = "failed"] /\ UNCHANGED attempts
          /\ Goto(w, "bury")
  /\ processing' = RemoveFirst(processing, EntryOf(w, job[w]))
  /\ tries' = [tries EXCEPT ![w] = 0]
  /\ UNCHANGED <<dead_db, suppressed, queue, retry, dead, callers, history, job,
                 batch, found, incarnation>>

CountFailure(w) ==
  /\ NoFault
  /\ At(w, "failed")
  /\ IF tries[w] < MAX_ATTEMPTS
     THEN /\ attempts' = [attempts EXCEPT ![job[w]] = tries[w]] /\ UNCHANGED status
          /\ Goto(w, "schedule")
     ELSE /\ status' = [status EXCEPT ![job[w]] = "failed"] /\ UNCHANGED attempts
          /\ Goto(w, "bury")
  /\ tries' = [tries EXCEPT ![w] = 0]
  /\ UNCHANGED <<dead_db, suppressed, redis, callers, history, job, batch, found, incarnation>>

ScheduleRetry(w) ==
  /\ NoFault
  /\ At(w, "schedule")
  /\ retry' = retry \cup {job[w]}
  /\ Goto(w, "leaving")
  /\ UNCHANGED <<db, queue, dead, processing, callers, history, job, batch, tries, found,
                 incarnation>>

Bury(w) ==
  /\ NoFault
  /\ At(w, "bury")
  /\ dead' = dead \cup {job[w]}
  /\ Goto(w, "persist")
  /\ UNCHANGED <<db, queue, retry, processing, callers, history, job, batch, tries, found,
                 incarnation>>

PersistDead(w) ==
  /\ At(w, "persist")
  /\ \/ NoFault /\ dead_db' = dead_db \cup {job[w]}
     \/ Fault /\ UNCHANGED dead_db                   \* only logged
  /\ Goto(w, "leaving")
  /\ UNCHANGED <<status, attempts, suppressed, redis, callers, history, job, batch, tries, found,
                 incarnation>>

(* mark_failed returns Err, which start_worker ignores: the entry of       *)
(* processing stays.                                                       *)
MarkFailedFails(w) ==
  /\ Fault
  /\ pc[w] \in {"failing", "failed", "schedule", "bury", "leaving"}
  /\ LeaveTo(w, "loop") /\ found' = [found EXCEPT ![w] = NoJob]
  /\ tries' = [tries EXCEPT ![w] = 0]
  /\ UNCHANGED <<db, redis, callers, history, batch, incarnation>>

(* A panic or the end of the process; main restarts the worker with a new  *)
(* worker_id.                                                              *)
Crash(w) ==
  /\ Fault /\ pc[w] # "start"
  /\ incarnation' = [incarnation EXCEPT ![w] = @ + 1]
  /\ lost' = IF At(w, "popped") THEN lost \cup {job[w]} ELSE lost
  /\ pc' = [pc EXCEPT ![w] = "start"] /\ job' = [job EXCEPT ![w] = NoJob]
  /\ batch' = [batch EXCEPT ![w] = {}] /\ tries' = [tries EXCEPT ![w] = 0]
  /\ found' = [found EXCEPT ![w] = NoJob]
  /\ UNCHANGED <<db, redis, callers, delivered, finished, doubts>>

Step(w) ==
  \/ FindOrphans(w) \/ RecoverOrphans(w) \/ FindRetries(w) \/ MoveRetries(w) \/ SkipStep(w)
  \/ \E j \in Jobs : Pop(w, j)
  \/ Enlist(w) \/ CheckSuppression(w) \/ StartProcessing(w) \/ Post(w)
  \/ Complete(w) \/ ListProcessing(w) \/ RemoveFound(w) \/ RecordEvent(w) \/ ProcessFails(w)
  \/ ReadAttempts(w) \/ CountFailure(w) \/ ScheduleRetry(w) \/ Bury(w) \/ PersistDead(w)
  \/ MarkFailedFails(w)

Next ==
  \/ \E j \in Jobs : Caller(j)
  \/ \E w \in Workers : Step(w) \/ Crash(w)

Spec == Init /\ [][Next]_vars
------------------------------------------------------------------------------
(* Rows, sets and program counters have their types; no counter of         *)
(* attempts ever reaches max_attempts, and only jobs of the table are      *)
(* anywhere.                                                               *)
TypeOK ==
  /\ status \in [Jobs -> {"none", "pending", "processing", "completed", "failed"}]
  /\ attempts \in [Jobs -> 0..(MAX_ATTEMPTS - 1)]
  /\ dead_db \cup suppressed \cup queue \cup retry \cup dead \subseteq
       {j \in Jobs : status[j] # "none"}
  /\ ToSet(processing) \subseteq Workers \X (0..MaxFaults) \X Jobs
  /\ pc \in [Workers -> Labels]
  /\ job \in [Workers -> Jobs \cup {NoJob}] /\ batch \in [Workers -> SUBSET Jobs]
  /\ tries \in [Workers -> 0..MAX_ATTEMPTS] /\ incarnation \in [Workers -> 0..MaxFaults]
  /\ delivered \in [Jobs -> Nat] /\ doubts \in [Jobs -> 0..MaxDoubts]
  /\ faults \in 0..MaxFaults /\ finished \cup lost \subseteq Jobs

(* process_job: "retries never produce duplicate sends within the          *)
(* configured TTL window".                                                 *)
AtMostOnce == \A j \in Jobs : delivered[j] =< 1

(* What the queue guarantees without the key: every send of a job beyond   *)
(* the first has a cause of its own, which is a failure after SendGrid had *)
(* accepted the email, an orphan put back while its first worker may have  *)
(* sent it or still may, or two workers that move one retry.  Refusals,    *)
(* ordinary retries, dead letters, requeues and crashes before the request *)
(* never make a second email.                                              *)
ResendsExplained == \A j \in Jobs : delivered[j] =< 1 + doubts[j]

(* A job somebody will still come to: it is in one of the sets of Redis or *)
(* in the hands of a caller or a worker.                                   *)
Tracked(j) ==
  \/ j \in queue \cup retry \cup dead
  \/ EntriesFor(j) # {}
  \/ producer[j] = "created" \/ admin[j] \notin {"idle", "queued"}
  \/ \E w \in Workers : job[w] = j \/ j \in batch[w]

(* A job leaves every set of Redis unfinished only in the four places that *)
(* `lost' names: enqueue and requeue_dead_letter between their two stores, *)
(* dequeue between pop and entry, and a worker that others took for dead,  *)
(* whose own entry is gone and who takes off the entry of the one that     *)
(* took over.  No other failure, crash or race of two workers drops a job  *)
(* that nobody completed.                                                  *)
UnfinishedTracked ==
  \A j \in Jobs :
    status[j] \in {"pending", "processing"} =>
      Tracked(j) \/ j \in lost \/ j \in finished
=============================================================================
