------------------------------ MODULE Migrations ------------------------------
(***************************************************************************)
(* migrations.rs, MigrationRunner::run, by several instances of the API at *)
(* once: the advisory lock of a database session, the check of the stored  *)
(* checksums, and one transaction for each pending version.  Version 000   *)
(* creates the tracking table, if it is not there, on every run and is     *)
(* never recorded; it is left out, and so is the dry run, which changes    *)
(* nothing.                                                                *)
(***************************************************************************)
EXTENDS Integers, Sequences, FiniteSets

CONSTANTS Instances,
          Binary,     \* the migrations each instance embeds: their checksums
          MaxFaults   \* bound: crashes, failures and lost sessions

VARIABLES
  lock,      \* the instance whose session holds the advisory lock, or Free
  runner,    \* where each instance is in run, and at which version
  schema,    \* schema_migrations: the checksum of each version, or None
  executed,  \* history: how often the SQL of each version was committed
  lapses,    \* history: how often a session ended under its runner
  faults

vars == <<lock, runner, schema, executed, lapses, faults>>

Free == "free"
None == "none"
Idle == [at |-> "idle", version |-> 0]
Versions == UNION {DOMAIN Binary[i] : i \in Instances}
Checksums == UNION {{Binary[i][v] : v \in DOMAIN Binary[i]} : i \in Instances}

MigrationsAssumption ==
  /\ MaxFaults \in Nat /\ Free \notin Instances /\ None \notin Checksums
  /\ IsFiniteSet(Instances) /\ Binary \in [Instances -> Seq(Checksums)]

Init ==
  /\ lock = Free
  /\ runner = [i \in Instances |-> Idle]
  /\ schema = [v \in Versions |-> None] /\ executed = [v \in Versions |-> 0]
  /\ lapses = 0 /\ faults = 0

Fault == faults < MaxFaults /\ faults' = faults + 1
Goto(i, at, v) == runner' = [runner EXCEPT ![i] = [at |-> at, version |-> v]]
-----------------------------------------------------------------------------
(* Deviation: the result of pg_try_advisory_lock is not looked at. *)
TryLock_Ignored(i) ==
  /\ runner[i] = Idle
  /\ lock' = IF lock = Free THEN i ELSE lock
  /\ Goto(i, "verify", 0)
  /\ UNCHANGED <<schema, executed, lapses, faults>>

(* pg_try_advisory_lock: an instance that does not get the lock gives up,  *)
(* and may be started again.                                               *)
TryLock(i) ==
  /\ runner[i] = Idle /\ lock = Free
  /\ lock' = i
  /\ Goto(i, "verify", 0)
  /\ UNCHANGED <<schema, executed, lapses, faults>>

Agrees(i) == \A v \in DOMAIN Binary[i] : schema[v] \in {None, Binary[i][v]}

(* verify_checksums: recorded versions that the binary does not have are   *)
(* skipped.                                                                *)
VerifyChecksums(i) ==
  /\ runner[i].at = "verify"
  /\ IF Agrees(i) THEN Goto(i, "check", 1) ELSE Goto(i, "unlock", 0)
  /\ UNCHANGED <<lock, schema, executed, lapses, faults>>

(* run_inner: is_applied for the next version *)
IsApplied(i) ==
  LET v == runner[i].version IN
  /\ runner[i].at = "check"
  /\ CASE v > Len(Binary[i])  -> Goto(i, "unlock", 0)
       [] v =< Len(Binary[i]) /\ schema[v] # None -> Goto(i, "check", v + 1)
       [] OTHER               -> Goto(i, "apply", v)
  /\ UNCHANGED <<lock, schema, executed, lapses, faults>>

(* apply: the SQL and its record are one transaction, ON CONFLICT DO       *)
(* NOTHING; or it is rolled back and the run ends.                         *)
Apply(i) ==
  LET v == runner[i].version IN
  /\ runner[i].at = "apply"
  /\ \/ /\ executed' = [executed EXCEPT ![v] = @ + 1]
        /\ schema' = [schema EXCEPT ![v] = IF @ = None THEN Binary[i][v] ELSE @]
        /\ Goto(i, "check", v + 1) /\ UNCHANGED faults
     \/ Fault /\ Goto(i, "unlock", 0) /\ UNCHANGED <<executed, schema>>
  /\ UNCHANGED <<lock, lapses>>

(* pg_advisory_unlock releases what this session holds; an error leaves    *)
(* the lock with the session, which goes back to the pool.                 *)
Unlock(i) ==
  /\ runner[i].at = "unlock"
  /\ \/ lock' = (IF lock = i THEN Free ELSE lock) /\ UNCHANGED faults
     \/ Fault /\ UNCHANGED lock
  /\ Goto(i, "idle", 0)
  /\ UNCHANGED <<schema, executed, lapses>>

(* The process ends, and its sessions with it; an open transaction is      *)
(* rolled back.                                                            *)
Crash(i) ==
  /\ Fault
  /\ lock' = (IF lock = i THEN Free ELSE lock)
  /\ Goto(i, "idle", 0)
  /\ UNCHANGED <<schema, executed, lapses>>

(* The session that holds the lock ends (a restart of the server, a broken *)
(* connection, a pooled session that is closed), not so the run, which     *)
(* uses other ones.                                                        *)
SessionEnds(i) ==
  /\ lock = i /\ Fault
  /\ lock' = Free
  /\ lapses' = IF runner[i] = Idle THEN lapses ELSE lapses + 1
  /\ UNCHANGED <<runner, schema, executed>>

Next ==
  \E i \in Instances :
    \/ TryLock(i) \/ VerifyChecksums(i) \/ IsApplied(i) \/ Apply(i) \/ Unlock(i)
    \/ Crash(i) \/ SessionEnds(i)

Spec == Init /\ [][Next]_vars
-----------------------------------------------------------------------------
TypeOK ==
  /\ lock \in Instances \cup {Free}
  /\ runner \in [Instances -> [at : {"idle", "verify", "check", "apply", "unlock"}, version : Nat]]
  /\ schema \in [Versions -> Checksums \cup {None}] /\ executed \in [Versions -> Nat]
  /\ {lapses, faults} \subseteq 0..MaxFaults

(* The SQL of a version runs once, however instances start together, crash  *)
(* and start again: once more only for each session that ended under its    *)
(* runner.  Versions are recorded in their order, and no version runs       *)
(* without being recorded.  And while no session has ended under its        *)
(* runner, whoever applies migrations embeds what the recorded ones were    *)
(* (verify_checksums: "a manually edited migration file is caught before it *)
(* can run").                                                               *)
AppliedOnce ==
  /\ \A v \in Versions : executed[v] =< 1 + lapses /\ (executed[v] > 0 <=> schema[v] # None)
  /\ \A v \in Versions : schema[v] # None => \A w \in 1..(v - 1) : schema[w] # None
  /\ lapses = 0 => \A i \in Instances : runner[i].at \in {"check", "apply"} => Agrees(i)
=============================================================================
