----------------------------- MODULE Lifecycle -----------------------------
(***************************************************************************)
(* The life of the API process (services/api/src/main.rs, shutdown.rs and  *)
(* the supervisors in main.rs and blockchain.rs): it starts its background *)
(* workers, serves, and on a signal drains first the email worker, then    *)
(* the two blockchain workers, each under a coordinator with a timeout of  *)
(* its own, and last the HTTP requests still in flight.                    *)
(***************************************************************************)
EXTENDS Naturals, FiniteSets

CONSTANTS
    MaxRestarts,  \* MAX_EMAIL_WORKER_RESTARTS: crashes after which main gives up
    MaxCrashes,   \* bound: panics of the workers
    MaxRequests   \* bound: HTTP requests in flight at once

LifecycleAssumption == {MaxRestarts, MaxCrashes, MaxRequests} \subseteq Nat

Coordinators == {"email", "global"}
Workers(c) == IF c = "email" THEN {"mailer"} ELSE {"sync", "monitor"}
AllWorkers == UNION {Workers(c) : c \in Coordinators}
CoordinatorOf(w) == CHOOSE c \in Coordinators : w \in Workers(c)

VARIABLES
    production, \* APP_ENV=production
    phase,      \* how far main has come
    cancelled,  \* coordinators whose token is cancelled
    worker,     \* what each worker does
    read,       \* the count a worker read in worker_completed
    count,      \* the completion count each coordinator publishes
    result,     \* what each coordinator's shutdown returned
    restarts,   \* crashes of the email worker its supervisor counted
    crashes,
    requests    \* HTTP requests in flight

vars == <<production, phase, cancelled, worker, read, count, result, restarts, crashes, requests>>

Init ==
    /\ production \in BOOLEAN /\ phase = "config" /\ cancelled = {}
    /\ worker = [w \in AllWorkers |-> "off"]
    /\ read = [w \in AllWorkers |-> 0]
    /\ count = [c \in Coordinators |-> 0]
    /\ result = [c \in Coordinators |-> "none"]
    /\ restarts = 0 /\ crashes = 0 /\ requests = 0

StartupChecks == {"config", "redis", "database", "rpc", "passphrase", "email"}
Up == phase \notin StartupChecks \cup {"exited"}

----------------------------------------------------------------------------
(* main, up to axum::serve: each check passes, or fails and main returns the
   error if it is fatal and goes on with a warning if it is not. *)
Check(step, next, fatal) ==
    /\ phase = step
    /\ phase' \in {next, IF fatal THEN "exited" ELSE next}
    /\ UNCHANGED <<production, cancelled, worker, read, count, result, restarts, crashes, requests>>

ValidateConfig == Check("config", "redis", TRUE)

(* The pool is built; no connection is made, so a Redis that is down is found
   by the first command. *)
OpenRedis == Check("redis", "database", TRUE)

(* The first connection of the pool *)
ConnectDatabase == Check("database", "rpc", TRUE)

(* Any HTTP answer within five seconds passes. *)
ProbeRpc == Check("rpc", "passphrase", production)

(* Passes at once when no passphrase is configured; getNetwork must answer,
   and with that passphrase. *)
CheckPassphrase == Check("passphrase", "email", production)

StartEmail == Check("email", "starting", TRUE)

Startup ==
    ValidateConfig \/ OpenRedis \/ ConnectDatabase \/ ProbeRpc \/ CheckPassphrase \/ StartEmail

(* The watched transactions are loaded, the blockchain workers, the cleanups
   and the email worker spawned, each warning only. *)
StartWorkers ==
    /\ phase = "starting"
    /\ phase' = "warming"
    /\ worker' = [w \in AllWorkers |-> "running"]
    /\ UNCHANGED <<production, cancelled, read, count, result, restarts, crashes, requests>>

(* warm_critical_caches reads seven endpoints, whether they answer or not. *)
WarmCaches ==
    /\ phase = "warming"
    /\ phase' = "binding"
    /\ UNCHANGED <<production, cancelled, worker, read, count, result, restarts, crashes, requests>>

(* The listener binds, or main returns and the workers end with the runtime. *)
Bind ==
    /\ phase = "binding"
    /\ phase' \in {"serving", "exited"}
    /\ UNCHANGED <<production, cancelled, worker, read, count, result, restarts, crashes, requests>>

----------------------------------------------------------------------------
(* The workers. *)

(* A worker looks at its token between two tasks, never within one. *)
Stop(w) ==
    /\ Up /\ worker[w] = "running" /\ CoordinatorOf(w) \in cancelled
    /\ worker' = [worker EXCEPT ![w] = "stopped"]
    /\ UNCHANGED <<production, phase, cancelled, read, count, result, restarts, crashes, requests>>

(* worker_completed reads the published count and sends the next one: two
   workers that stop together may read the same count. *)
ReadCount(w) ==
    /\ Up /\ worker[w] = "stopped"
    /\ worker' = [worker EXCEPT ![w] = "completing"]
    /\ read' = [read EXCEPT ![w] = count[CoordinatorOf(w)]]
    /\ UNCHANGED <<production, phase, cancelled, count, result, restarts, crashes, requests>>

SendCount(w) ==
    /\ Up /\ worker[w] = "completing"
    /\ worker' = [worker EXCEPT ![w] = "completed"]
    /\ count' = [count EXCEPT ![CoordinatorOf(w)] = read[w] + 1]
    /\ read' = [read EXCEPT ![w] = 0]
    /\ UNCHANGED <<production, phase, cancelled, result, restarts, crashes, requests>>

(* What a panic leaves.  The supervisor of the sync worker restarts it until
   the token is cancelled, and then completes for it.  The one of the email
   worker restarts it, shutdown or not, and gives up without completing after
   MaxRestarts crashes.  The transaction monitor has no supervisor. *)
AfterPanic(w) ==
    CASE w = "sync" -> IF "global" \in cancelled THEN "stopped" ELSE "backoff"
      [] w = "mailer" -> IF restarts + 1 >= MaxRestarts THEN "dead" ELSE "backoff"
      [] OTHER -> "dead"

Panic(w) ==
    /\ Up /\ worker[w] = "running" /\ crashes < MaxCrashes
    /\ crashes' = crashes + 1
    /\ worker' = [worker EXCEPT ![w] = AfterPanic(w)]
    /\ restarts' = IF w = "mailer" THEN restarts + 1 ELSE restarts
    /\ UNCHANGED <<production, phase, cancelled, read, count, result, requests>>

(* The pause before a restart is over.  The sync supervisor looks at the token
   again before it starts the worker. *)
Restart(w) ==
    /\ Up /\ worker[w] = "backoff"
    /\ worker' = [worker EXCEPT ![w] =
                    IF w = "sync" /\ "global" \in cancelled THEN "stopped" ELSE "running"]
    /\ UNCHANGED <<production, phase, cancelled, read, count, result, restarts, crashes, requests>>

----------------------------------------------------------------------------
(* Shutdown. *)

(* wait_for_signal returns, and the email coordinator's token is cancelled. *)
Signal ==
    /\ phase = "serving"
    /\ phase' = "drain_email" /\ cancelled' = {"email"}
    /\ UNCHANGED <<production, worker, read, count, result, restarts, crashes, requests>>

Draining(c) == phase = IF c = "email" THEN "drain_email" ELSE "drain_global"

(* The drain of one coordinator is over: main logs how it ended and goes on. *)
Drained(c, how) ==
    /\ Draining(c)
    /\ result' = [result EXCEPT ![c] = how]
    /\ phase' = IF c = "email" THEN "drain_global" ELSE "drain_http"
    /\ cancelled' = Coordinators
    /\ UNCHANGED <<production, worker, read, count, restarts, crashes, requests>>

(* wait_for_completion sees the count of all workers. *)
Completes(c) == count[c] >= Cardinality(Workers(c)) /\ Drained(c, "clean")

(* Deviation: shutdown waits without a timeout. *)
TimesOut_Never(c) == FALSE /\ Drained(c, "timeout")
TimesOut(c) == Drained(c, "timeout")

(* Requests are taken until the shutdown future ends, so during the drains of
   the workers too; then the server waits for those in flight and main ends. *)
Accept ==
    /\ phase \in {"serving", "drain_email", "drain_global"}
    /\ requests < MaxRequests
    /\ requests' = requests + 1
    /\ UNCHANGED <<production, phase, cancelled, worker, read, count, result, restarts, crashes>>

Respond ==
    /\ Up /\ requests > 0
    /\ requests' = requests - 1
    /\ UNCHANGED <<production, phase, cancelled, worker, read, count, result, restarts, crashes>>

Exit ==
    /\ phase = "drain_http" /\ requests = 0
    /\ phase' = "exited"
    /\ UNCHANGED <<production, cancelled, worker, read, count, result, restarts, crashes, requests>>

----------------------------------------------------------------------------
WorkerStep(w) == Stop(w) \/ ReadCount(w) \/ SendCount(w) \/ Restart(w)
Drain == \E c \in Coordinators : Completes(c) \/ TimesOut(c)

Next ==
    \/ Startup \/ StartWorkers \/ WarmCaches \/ Bind
    \/ Signal \/ Drain \/ Accept \/ Respond \/ Exit
    \/ \E w \in AllWorkers : WorkerStep(w) \/ Panic(w)

Spec == Init /\ [][Next]_vars

(* The timer of a drain fires, and main runs on.  Nothing is assumed of the
   workers, nor of the requests: nothing limits how long a client may take for
   one, or Redis for a command of its handler, and the server waits for them
   all without a timeout. *)
FairSpec == Spec /\ WF_vars(Drain) /\ WF_vars(Exit)

----------------------------------------------------------------------------
(* What main logged of its drains is true: a coordinator that returned cleanly
   ("All workers completed graceful shutdown") had seen every one of its workers
   end its last task, whatever panicked and was restarted on the way
   (ShutdownCoordinator, its timeouts, the supervisors of main.rs and
   start_background_tasks). *)
DrainHonest ==
    \A c \in Coordinators :
        result[c] = "clean" => \A w \in Workers(c) : worker[w] = "completed"

(* After the signal no worker keeps the process alive, though it hang or panic
   or its completion be lost: the process ends, truthfully, unless one of the
   requests taken before the drains were over stays open for good (the drains of
   main and axum's graceful shutdown, which it awaits last). *)
ShutdownEnds ==
    phase = "drain_email" ~> [](DrainHonest /\ (phase = "exited" \/ requests > 0))
=============================================================================
