------------------------------ MODULE Newsletter ------------------------------
(***************************************************************************)
(* The row of one address in newsletter_subscribers: the handlers of       *)
(* /api/v1/newsletter (handlers.rs) over the queries of db.rs, and the     *)
(* hourly cleanup of main.rs.  Only newsletter_subscribe makes more than   *)
(* one query; the token it generates is named after the call.              *)
(*                                                                         *)
(* Bad addresses, missing secrets and rate limits end a handler before it  *)
(* does anything.                                                          *)
(***************************************************************************)
EXTENDS Integers, FiniteSets

CONSTANTS Calls,      \* calls of newsletter_subscribe
          MaxErasures \* bound: calls of newsletter_gdpr_delete

VARIABLES
  row,       \* the row, or NoRow
  call,      \* where each call of newsletter_subscribe is
  overlap,   \* history: calls that looked the address up before it was confirmed
  mailed,    \* the confirmation tokens that were enqueued for the address
  gdpr,      \* is a GDPR verification token of the address valid?
  by,        \* history: the query that changed the row last
  erasures

vars == <<row, call, overlap, mailed, gdpr, by, erasures>>

NoToken == "none"

(* fresh: the TTL of the confirmation token has not passed *)
Rows == [confirmed : BOOLEAN, unsubscribed : BOOLEAN, token : Calls \cup {NoToken}, fresh : BOOLEAN]
NoRow == [confirmed |-> FALSE, unsubscribed |-> FALSE, token |-> NoToken, fresh |-> FALSE]

NewsletterAssumption == NoToken \notin Calls /\ MaxErasures \in Nat

Init ==
  /\ row = NoRow
  /\ call = [c \in Calls |-> "new"] /\ overlap = {}
  /\ mailed = {} /\ gdpr = FALSE
  /\ by = "none" /\ erasures = 0

(* already_active *)
AlreadyActive(r) == r.confirmed /\ ~r.unsubscribed

(* What the queries of db.rs find and leave *)
GetByEmail == row
PendingRow(token) == [confirmed |-> FALSE, unsubscribed |-> FALSE, token |-> token, fresh |-> TRUE]
ConfirmedRow == [row EXCEPT !.confirmed = TRUE, !.unsubscribed = FALSE, !.token = NoToken]
UnsubscribedRow == [row EXCEPT !.confirmed = FALSE, !.unsubscribed = TRUE]

(* check_gdpr_token: signed for this address, and not expired *)
GdprTokenAccepted == gdpr
-----------------------------------------------------------------------------
(* Deviation: the address is not looked up. *)
Subscribe_Always(c) ==
  /\ call[c] = "new"
  /\ call' = [call EXCEPT ![c] = "upsert"]
  /\ UNCHANGED <<row, overlap, mailed, gdpr, by, erasures>>

(* newsletter_get_by_email: an active subscriber is left alone. *)
Subscribe(c) ==
  /\ call[c] = "new"
  /\ call' = [call EXCEPT ![c] = IF AlreadyActive(GetByEmail) THEN "done" ELSE "upsert"]
  /\ UNCHANGED <<row, overlap, mailed, gdpr, by, erasures>>

(* newsletter_upsert_pending: whatever the row is by now *)
UpsertPending(c) ==
  /\ call[c] = "upsert"
  /\ row' = PendingRow(c)
  /\ call' = [call EXCEPT ![c] = "enqueue"]
  /\ by' = "subscribe"
  /\ UNCHANGED <<overlap, mailed, gdpr, erasures>>

(* The confirmation is enqueued (EmailQueue), or is not and the request    *)
(* fails; the row stays.                                                   *)
Enqueue(c) ==
  /\ call[c] = "enqueue"
  /\ mailed' \in {mailed, mailed \cup {c}}
  /\ call' = [call EXCEPT ![c] = "done"]
  /\ UNCHANGED <<row, overlap, gdpr, by, erasures>>

Confirms ==
  /\ overlap' = overlap \cup {c \in Calls : call[c] = "upsert"}
  /\ by' = "confirm"

(* newsletter_confirm_by_token: also for a row that was unsubscribed while *)
(* its token was pending.                                                  *)
Confirm(t) ==
  /\ t \in mailed
  /\ row.token = t /\ row.fresh
  /\ row' = ConfirmedRow
  /\ Confirms
  /\ UNCHANGED <<call, mailed, gdpr, erasures>>

(* newsletter_unsubscribe, from the signed link in any mail *)
Unsubscribe ==
  /\ row # NoRow /\ mailed # {}
  /\ row' = UnsubscribedRow
  /\ by' = "unsubscribe"
  /\ UNCHANGED <<call, overlap, mailed, gdpr, erasures>>

(* newsletter_gdpr_request_token: the mail may fail, or its 15 minutes be  *)
(* over.                                                                   *)
RequestToken ==
  /\ \/ row # NoRow /\ gdpr' = TRUE
     \/ gdpr' = FALSE
  /\ gdpr' # gdpr
  /\ UNCHANGED <<row, call, overlap, mailed, by, erasures>>

(* newsletter_gdpr_delete; the token stays valid. *)
GdprDelete ==
  /\ GdprTokenAccepted /\ erasures < MaxErasures
  /\ row' = NoRow /\ erasures' = erasures + 1
  /\ by' = "gdpr_delete"
  /\ UNCHANGED <<call, overlap, mailed, gdpr>>

Age ==
  /\ row.fresh /\ row' = [row EXCEPT !.fresh = FALSE]
  /\ UNCHANGED <<call, overlap, mailed, gdpr, by, erasures>>

(* newsletter_delete_expired_pending: what is not confirmed and older than *)
(* the TTL, unsubscribed rows too                                          *)
DeleteExpiredPending ==
  /\ row # NoRow /\ ~row.confirmed /\ ~row.fresh
  /\ row' = NoRow
  /\ by' = "cleanup"
  /\ UNCHANGED <<call, overlap, mailed, gdpr, erasures>>

Next ==
  \/ \E c \in Calls : Subscribe(c) \/ UpsertPending(c) \/ Enqueue(c) \/ Confirm(c)
  \/ Unsubscribe \/ RequestToken \/ GdprDelete \/ Age \/ DeleteExpiredPending

Spec == Init /\ [][Next]_vars
-----------------------------------------------------------------------------
TypeOK ==
  /\ row \in Rows
  /\ call \in [Calls -> {"new", "upsert", "enqueue", "done"}]
  /\ {overlap, mailed} \subseteq SUBSET Calls
  /\ gdpr \in BOOLEAN /\ erasures \in 0..MaxErasures
  /\ by \in {"none", "subscribe", "confirm", "unsubscribe", "gdpr_delete", "cleanup"}

(* A step that ends an active subscription is its owner's (a link or a     *)
(* GDPR request), or that of a call which had looked the address up before *)
(* it was confirmed.                                                       *)
KeepsActive ==
  AlreadyActive(row) /\ ~AlreadyActive(row') =>
    \/ by' \in {"unsubscribe", "gdpr_delete"}
    \/ \E c \in overlap : call[c] = "upsert" /\ call'[c] = "enqueue"

(* newsletter_subscribe: "for already-confirmed active subscribers we skip *)
(* the DB write".  A subscription that is active ends by the owner's wish  *)
(* only, or by a call that overlapped the confirmation.                    *)
ActiveKept == [][KeepsActive]_vars
=============================================================================
