------------------------------- MODULE Cache -------------------------------
(***************************************************************************)
(* cache/mod.rs, get_or_set_json and invalidate_tag, as the API uses them: *)
(* the platform statistics are cached twice, as api:v1:statistics ("api"), *)
(* filled from db.statistics_cached, which is itself a get_or_set_json on  *)
(* dbq:v1:statistics ("dbq"), filled from PostgreSQL; resolve_market       *)
(* changes the database and then deletes both keys.  A datum is the number *)
(* of resolutions it has seen.                                             *)
(*                                                                         *)
(* One action is one command of Redis or one query.  A command may fail,   *)
(* after its retries or because the circuit breaker (RedisBreaker) is      *)
(* open; or it is carried out and its answer is lost, and exec sends it    *)
(* again.  There is no clock: a key may expire, and a waiting reader may   *)
(* give up, at any time.                                                   *)
(***************************************************************************)
EXTENDS Integers, Sequences, FiniteSets

CONSTANTS Readers,      \* requests that read statistics
          MaxChanges,   \* bound: resolutions
          MaxFaults     \* bound: failing commands and queries, lost answers, locks
                        \* that expire under their holder

VARIABLES
  db,         \* how many markets the database has seen resolved
  value,      \* the key of Redis: its form and datum, or NoValue
  lock,       \* stampede_lock:<key>; the holder is history, the code stores "1"
  frame,      \* each reader's call of get_or_set_json on each key
  resolver,   \* resolve_market: the keys still to delete, or Idle
  faults,     \* how many faults there were
  slips,      \* history: how many locks of each key expired under their holder,
              \* and how many answers to the DEL of one were lost
  quiet       \* history: did a reader overlap the last invalidation?

vars == <<db, value, lock, frame, resolver, faults, slips, quiet>>

Keys == {"api", "dbq"}
NoValue == [form |-> "none", datum |-> 0]
Free == "free"
Idle == <<"idle">>
Tags == "tags"    \* the metadata of an invalidation tag, before its keys

(* A call that is not made. *)
NoCall == [at |-> "idle", mode |-> "none", got |-> 0]

Labels == {"idle", "lookup", "lock", "poll", "fetch", "await", "store", "release"}

CacheAssumption ==
  /\ {MaxChanges, MaxFaults} \subseteq Nat
  /\ Free \notin Readers /\ IsFiniteSet(Readers)

Init ==
  /\ db = 0
  /\ value = [k \in Keys |-> NoValue] /\ lock = [k \in Keys |-> Free]
  /\ frame = [r \in Readers |-> [k \in Keys |-> NoCall]]
  /\ resolver = Idle /\ faults = 0 /\ slips = [k \in Keys |-> 0] /\ quiet = "no"

At(r, k, label) == frame[r][k].at = label
Goto(r, k, label) == frame' = [frame EXCEPT ![r][k].at = label]
Busy(r) == \E k \in Keys : ~At(r, k, "idle")

Fault == faults < MaxFaults /\ faults' = faults + 1
NoFault == UNCHANGED faults
-----------------------------------------------------------------------------
(* The call on k returns the datum v: to the handler, or to the call on    *)
(* the upper key that waits for it.                                        *)
Return(r, k, v) ==
  IF k = "dbq" /\ At(r, "api", "await")
  THEN frame' = [frame EXCEPT ![r].dbq = NoCall, ![r].api.at = "store", ![r].api.got = v]
  ELSE frame' = [frame EXCEPT ![r][k] = NoCall]

(* statistics calls on the upper key.  With an open circuit the call goes  *)
(* straight to its fetcher.                                                *)
Begin(r) ==
  /\ ~Busy(r)
  /\ \/ Goto(r, "api", "lookup") /\ NoFault
     \/ Fault /\ frame' = [frame EXCEPT ![r].api = [NoCall EXCEPT !.at = "fetch", !.mode = "bypass"]]
  /\ quiet' = IF quiet = "during" THEN "no" ELSE quiet
  /\ UNCHANGED <<db, value, lock, resolver, slips>>

(* get_json::<CachedEntry>, then get_json::<T> for what set_json wrote     *)
(* after a lock timeout: a value is served, an entry may be refreshed      *)
(* early (xfetch_should_refresh).  The two GETs are one step: what changes *)
(* between them leads where one GET before or after the change leads.      *)
Lookup(r, k) ==
  /\ At(r, k, "lookup")
  /\ \/ value[k] # NoValue /\ Return(r, k, value[k].datum) /\ NoFault
     \/ value[k].form # "plain" /\ Goto(r, k, "lock") /\ NoFault
     \/ Fault /\ Goto(r, k, "lock")
  /\ UNCHANGED <<db, value, lock, resolver, slips, quiet>>

(* Deviation: SET EX without NX. *)
TryLock_Overwrites(r, k) ==
  /\ At(r, k, "lock")
  /\ lock' = [lock EXCEPT ![k] = r]
  /\ frame' = [frame EXCEPT ![r][k].at = "fetch", ![r][k].mode = "locked"]
  /\ NoFault
  /\ UNCHANGED <<db, value, resolver, slips, quiet>>

(* SET NX EX 10.  When the answer is lost the repeated command finds the   *)
(* key, which nobody will delete: the reader polls like any other.         *)
TryLock(r, k) ==
  /\ At(r, k, "lock")
  /\ \/ /\ lock[k] = Free
        /\ lock' = [lock EXCEPT ![k] = r]
        /\ frame' = [frame EXCEPT ![r][k].at = "fetch", ![r][k].mode = "locked"]
        /\ NoFault
     \/ lock[k] # Free /\ Goto(r, k, "poll") /\ NoFault /\ UNCHANGED lock
     \/ /\ Fault /\ Goto(r, k, "poll")
        /\ \/ UNCHANGED lock
           \/ lock[k] = Free /\ lock' = [lock EXCEPT ![k] = r]
  /\ UNCHANGED <<db, value, resolver, slips, quiet>>

(* The other reader's result is there; or the wait ends (after 20 polls,   *)
(* or because the circuit opened) and this reader fetches without a lock.  *)
Poll(r, k) ==
  /\ At(r, k, "poll")
  /\ \/ value[k] # NoValue /\ Return(r, k, value[k].datum)
     \/ frame' = [frame EXCEPT ![r][k].at = "fetch", ![r][k].mode = "late"]
  /\ UNCHANGED <<db, value, lock, resolver, faults, slips, quiet>>

(* The fetcher: a query for the lower key, the lower key for the upper     *)
(* one.  When the query fails every call of the request ends, and a lock   *)
(* it holds stays.                                                         *)
Fetch(r, k) ==
  /\ At(r, k, "fetch")
  /\ \/ /\ k = "dbq"
        /\ frame' = [frame EXCEPT ![r][k].at = "store", ![r][k].got = db] /\ NoFault
     \/ /\ k = "api"
        /\ frame' = [frame EXCEPT ![r].api.at = "await", ![r].dbq.at = "lookup"] /\ NoFault
     \/ k = "dbq" /\ Fault /\ frame' = [frame EXCEPT ![r] = [c \in Keys |-> NoCall]]
  /\ UNCHANGED <<db, value, lock, resolver, slips, quiet>>

(* set_entry under the lock, set_json after a lock timeout, nothing when   *)
(* the cache is bypassed.  A write that fails is only logged; one whose    *)
(* answer is lost is repeated later.                                       *)
Store(r, k) ==
  LET f == frame[r][k]
      form == IF f.mode = "locked" THEN "entry" ELSE "plain"
      written == [value EXCEPT ![k] = [form |-> form, datum |-> f.got]]
      Done == IF f.mode = "locked" THEN Goto(r, k, "release") ELSE Return(r, k, f.got)
  IN
  /\ At(r, k, "store")
  /\ \/ f.mode # "bypass" /\ NoFault /\ value' = written /\ Done
     \/ f.mode # "bypass" /\ Fault /\ UNCHANGED value /\ Done
     \/ f.mode # "bypass" /\ Fault /\ value' = written /\ UNCHANGED frame
     \/ f.mode = "bypass" /\ NoFault /\ UNCHANGED value /\ Done
  /\ UNCHANGED <<db, lock, resolver, slips, quiet>>

(* DEL of the lock, whoever holds it by now.  One whose answer is lost is  *)
(* repeated, and then frees what was locked in between.                    *)
Release(r, k) ==
  /\ At(r, k, "release")
  /\ \/ /\ lock' = [lock EXCEPT ![k] = Free] /\ NoFault
        /\ Return(r, k, frame[r][k].got) /\ UNCHANGED slips
     \/ /\ Fault /\ UNCHANGED <<lock, slips>>
        /\ Return(r, k, frame[r][k].got)
     \/ /\ Fault /\ lock' = [lock EXCEPT ![k] = Free]
        /\ slips' = [slips EXCEPT ![k] = @ + 1] /\ UNCHANGED frame
  /\ UNCHANGED <<db, value, resolver, quiet>>

ReaderStep(r) ==
  \E k \in Keys :
    \/ Lookup(r, k) \/ TryLock(r, k) \/ Poll(r, k)
    \/ Fetch(r, k) \/ Store(r, k) \/ Release(r, k)

(* Deviation: an entry written after a lock timeout has no TTL. *)
ExpireValue_EntriesOnly(k) ==
  /\ value[k].form = "entry"
  /\ value' = [value EXCEPT ![k] = NoValue]
  /\ UNCHANGED <<db, lock, frame, resolver, faults, slips, quiet>>

(* SETEX: every value has a TTL. *)
ExpireValue(k) ==
  /\ value[k] # NoValue
  /\ value' = [value EXCEPT ![k] = NoValue]
  /\ UNCHANGED <<db, lock, frame, resolver, faults, slips, quiet>>

Holding(r, k) == frame[r][k].mode = "locked" /\ frame[r][k].at # "idle"

(* The ten seconds of a lock are over, or it belongs to a request that is  *)
(* gone.                                                                   *)
ExpireLock(k) ==
  /\ lock[k] # Free
  /\ lock' = [lock EXCEPT ![k] = Free]
  /\ IF \E r \in Readers : lock[k] = r /\ Holding(r, k)
     THEN Fault /\ slips' = [slips EXCEPT ![k] = @ + 1]
     ELSE NoFault /\ UNCHANGED slips
  /\ UNCHANGED <<db, value, frame, resolver, quiet>>
-----------------------------------------------------------------------------
(* Deviation: the keys of the database layer are forgotten. *)
CacheKeys_ApiOnly == <<"api">>

(* InvalidationTag::cache_keys, in its order *)
CacheKeys == <<"api", "dbq">>

(* db.resolve_market changes the row of an active market. *)
UpdateRow == db < MaxChanges /\ db' = db + 1

(* resolve_market: the database first *)
ResolveMarket ==
  /\ resolver = Idle /\ UpdateRow
  /\ resolver' = <<Tags>> \o CacheKeys
  /\ quiet' = IF \E r \in Readers : Busy(r) THEN "no" ELSE "during"
  /\ UNCHANGED <<value, lock, frame, faults, slips>>

(* The first failure, or the end of the process, ends the invalidation;    *)
(* resolve_market then reports cache_invalidated = false.                  *)
InvalidationFails == Fault /\ resolver' = Idle /\ quiet' = "no" /\ UNCHANGED value

(* tag_store_invalidate writes metadata that nothing reads. *)
TagStoreInvalidate ==
  /\ resolver # Idle /\ Head(resolver) = Tags
  /\ \/ resolver' = Tail(resolver) /\ NoFault /\ UNCHANGED <<value, quiet>>
     \/ InvalidationFails
  /\ UNCHANGED <<db, lock, frame, slips>>

(* invalidate_tag deletes one key after the other; a DEL whose answer is   *)
(* lost is repeated.                                                       *)
Invalidate ==
  /\ resolver # Idle /\ Head(resolver) # Tags
  /\ \/ /\ value' = [value EXCEPT ![Head(resolver)] = NoValue]
        /\ resolver' = IF Len(resolver) = 1 THEN Idle ELSE Tail(resolver)
        /\ quiet' = IF Len(resolver) = 1 /\ quiet = "during" THEN "after" ELSE quiet
        /\ NoFault
     \/ /\ Fault /\ value' = [value EXCEPT ![Head(resolver)] = NoValue]
        /\ UNCHANGED <<resolver, quiet>>
     \/ InvalidationFails
  /\ UNCHANGED <<db, lock, frame, slips>>

Next ==
  \/ \E r \in Readers : ReaderStep(r) \/ Begin(r)
  \/ \E k \in Keys : ExpireValue(k) \/ ExpireLock(k)
  \/ ResolveMarket \/ TagStoreInvalidate \/ Invalidate

Spec == Init /\ [][Next]_vars

(* Requests go on once begun, and Redis expires what has a TTL. *)
Fairness ==
  /\ \A r \in Readers : WF_vars(ReaderStep(r))
  /\ \A k \in Keys : WF_vars(ExpireValue(k))
  /\ WF_vars(TagStoreInvalidate \/ Invalidate)

FairSpec == Spec /\ Fairness
-----------------------------------------------------------------------------
TypeOK ==
  /\ db \in 0..MaxChanges
  /\ value \in [Keys -> [form : {"none", "entry", "plain"}, datum : 0..MaxChanges]]
  /\ lock \in [Keys -> Readers \cup {Free}]
  /\ frame \in [Readers -> [Keys -> [at : Labels, got : 0..MaxChanges,
                                     mode : {"none", "locked", "late", "bypass"}]]]
  /\ resolver \in {Idle, <<Tags, "api", "dbq">>, <<"api", "dbq">>, <<"dbq">>}
  /\ faults \in 0..MaxFaults /\ slips \in [Keys -> 0..MaxFaults]
  /\ quiet \in {"no", "during", "after"}

Current(v) == v = NoValue \/ v.datum = db

(* An invalidation that no reader overlaps leaves nothing old behind:      *)
(* whatever is cached or read afterwards, on either layer, is current      *)
(* until the next resolution.                                              *)
QuietInvalidation ==
  quiet = "after" =>
    /\ \A k \in Keys : Current(value[k])
    /\ \A r \in Readers, k \in Keys : At(r, k, "store") \/ At(r, k, "release") => frame[r][k].got = db

(* get_or_set_json: the lock "ensures only one request calls the fetcher": *)
(* it does as long as no lock expires and every DEL of one is answered.    *)
(* Each lock that expires under its holder and each such answer that is    *)
(* lost makes room for one more, although a late holder, or a repeated     *)
(* DEL, releases the lock of a successor.                                  *)
SingleFlight ==
  \A k \in Keys : Cardinality({r \in Readers : Holding(r, k)}) =< 1 + slips[k]

(* When no more markets are resolved, whatever old data overlapping reads  *)
(* and failed invalidations have left behind goes away for good.           *)
EventuallyFresh == <>[](\A k \in Keys : Current(value[k]))
=============================================================================
