------------------------------- MODULE ApiKeys -------------------------------
(***************************************************************************)
(* The table api_keys for one label: rotate_api_key (handlers.rs), the     *)
(* queries of db.rs it makes one after the other without a transaction,    *)
(* the check of a key and the hourly cleanup.                              *)
(*                                                                         *)
(* Expiry dates are days ahead: there is no clock, an expiring key expires *)
(* at some time.  revoked_at is never set.                                 *)
(***************************************************************************)
EXTENDS Integers, FiniteSets

CONSTANTS KeyHashes,      \* keys that rotations may generate
          Admins,    \* concurrent calls of rotate_api_key
          MaxFaults  \* bound: queries that fail

VARIABLES
  keys,      \* the row of each key: its expires_at
  rotation,  \* each call of rotate_api_key
  failed,    \* history: a rotation failed after it had marked a key
  faults

vars == <<keys, rotation, failed, faults>>

Absent == "absent"       \* no row
Lasting == "lasting"     \* expires_at is null
Expiring == "expiring"   \* expires_at > NOW()
Expired == "expired"     \* expires_at <= NOW()

Idle == [at |-> "idle", mark |-> {}]

ApiKeysAssumption == MaxFaults \in Nat

Init ==
  /\ keys = [k \in KeyHashes |-> Absent]
  /\ rotation = [a \in Admins |-> Idle]
  /\ failed = FALSE /\ faults = 0

Fault == faults < MaxFaults /\ faults' = faults + 1

(* api_key_validate, api_key_list_active *)
Accepted == {k \in KeyHashes : keys[k] \in {Lasting, Expiring}}

(* api_key_set_expires, api_key_insert: what becomes of a row *)
MarkRow(k) == keys' = [keys EXCEPT ![k] = IF @ = Absent THEN Absent ELSE Expiring]
InsertRow(k) == keys[k] = Absent /\ keys' = [keys EXCEPT ![k] = Lasting]

(* rotate_api_key: the active keys of the label *)
ListActive(a) ==
  /\ rotation[a] = Idle
  /\ rotation' = [rotation EXCEPT ![a] = [at |-> "mark", mark |-> Accepted]]
  /\ UNCHANGED <<keys, failed, faults>>

(* Deviation: the rotation gives up when the row is gone. *)
SetExpires_GivesUp(a) ==
  /\ rotation[a].at = "mark"
  /\ \E k \in rotation[a].mark :
       /\ MarkRow(k)
       /\ rotation' = [rotation EXCEPT ![a] = IF keys[k] = Absent THEN Idle
                                              ELSE [@ EXCEPT !.mark = @ \ {k}]]
  /\ UNCHANGED <<failed, faults>>

(* api_key_set_expires: also for a key that another rotation marked, which *)
(* gets a new date, or that has expired meanwhile, which is valid again    *)
(* unless its row is gone.                                                 *)
SetExpires(a) ==
  /\ rotation[a].at = "mark"
  /\ \E k \in rotation[a].mark :
       /\ MarkRow(k)
       /\ rotation' = [rotation EXCEPT ![a].mark = @ \ {k}]
  /\ UNCHANGED <<failed, faults>>

(* api_key_insert, with a key nobody else has *)
Insert(a) ==
  /\ rotation[a].at = "mark" /\ rotation[a].mark = {}
  /\ \E k \in KeyHashes : InsertRow(k)
  /\ rotation' = [rotation EXCEPT ![a] = Idle]
  /\ UNCHANGED <<failed, faults>>

(* A query fails: the handler returns, what is marked stays marked. *)
RotationFails(a) ==
  /\ rotation[a].at = "mark" /\ Fault
  /\ failed' = TRUE
  /\ rotation' = [rotation EXCEPT ![a] = Idle]
  /\ UNCHANGED keys

Expire(k) ==
  /\ keys[k] = Expiring
  /\ keys' = [keys EXCEPT ![k] = Expired]
  /\ UNCHANGED <<rotation, failed, faults>>

(* api_key_delete_expired.  The model reuses the freed name for a new key. *)
DeleteExpired ==
  /\ \E k \in KeyHashes : keys[k] = Expired
  /\ keys' = [k \in KeyHashes |-> IF keys[k] = Expired THEN Absent ELSE keys[k]]
  /\ UNCHANGED <<rotation, failed, faults>>

Next ==
  \/ \E a \in Admins : ListActive(a) \/ SetExpires(a) \/ Insert(a) \/ RotationFails(a)
  \/ \E k \in KeyHashes : Expire(k)
  \/ DeleteExpired

Spec == Init /\ [][Next]_vars
-----------------------------------------------------------------------------
TypeOK ==
  /\ keys \in [KeyHashes -> {Absent, Lasting, Expiring, Expired}]
  /\ rotation \in [Admins -> [at : {"idle", "mark"}, mark : SUBSET KeyHashes]]
  /\ failed \in BOOLEAN /\ faults \in 0..MaxFaults

(* rotate_api_key: clients "can migrate without downtime".  However        *)
(* rotations overlap, a label with an expiring or expired key has a key    *)
(* that lasts, or a rotation that will insert one is under way; only a     *)
(* rotation that failed half-way leaves none.                              *)
KeySuccessor ==
  (\E k \in KeyHashes : keys[k] \in {Expiring, Expired}) =>
    \/ \E k \in KeyHashes : keys[k] = Lasting
    \/ \E a \in Admins : rotation[a].at = "mark"
    \/ failed
=============================================================================
