------------------------------- MODULE Webhook -------------------------------
(***************************************************************************)
(* email/webhook.rs, process_event, for one event of SendGrid (a bounce, a *)
(* complaint or an unsubscription) that is delivered any number of times,  *)
(* also while an earlier delivery is still at work: the nonce in Redis,    *)
(* the check for the stored event, the event, the suppression of the       *)
(* address and the counter, one query after the other.                     *)
(*                                                                         *)
(* The middleware (sendgrid_webhook_middleware) lets a delivery in or      *)
(* refuses it before anything happens; the answer is 200 whatever comes of *)
(* the events, so nothing here makes SendGrid deliver again.               *)
(***************************************************************************)
EXTENDS Integers, FiniteSets

CONSTANTS Deliveries,  \* deliveries of the event
          MaxFaults    \* bound: failing commands and queries, nonces that expire

VARIABLES
  at,          \* where each delivery is
  nonce,       \* webhook_nonce:<message>:<type>:<email>, 0 when absent
  events,      \* rows of email_events for the event
  suppressed,  \* is the address in email_suppressions?
  counted,     \* by how much the counter of email_analytics went up
  passed,      \* history: deliveries that the nonce let pass
  faults       \* history: the faults, by kind

vars == <<at, nonce, events, suppressed, counted, passed, faults>>

Labels == {"new", "parse", "nonce", "exists", "create", "suppress", "count", "done"}
Kinds == {"nonce", "retry", "query"}

WebhookAssumption == MaxFaults \in Nat /\ IsFiniteSet(Deliveries)

Init ==
  /\ at = [d \in Deliveries |-> "new"]
  /\ nonce = 0 /\ events = 0 /\ suppressed = FALSE /\ counted = 0
  /\ passed = {} /\ faults = [k \in Kinds |-> 0]

Goto(d, label) == at' = [at EXCEPT ![d] = label]

Fault(k) ==
  /\ faults["nonce"] + faults["retry"] + faults["query"] < MaxFaults
  /\ faults' = [faults EXCEPT ![k] = @ + 1]
-----------------------------------------------------------------------------
(* The signature covers the timestamp, which must be neither in the future *)
(* nor older than the replay window; without a secret, which production    *)
(* does not allow, everything is let in.                                   *)
Deliver(d) ==
  /\ at[d] = "new"
  /\ \E verified \in BOOLEAN : Goto(d, IF verified THEN "parse" ELSE "done")
  /\ UNCHANGED <<nonce, events, suppressed, counted, passed, faults>>

(* One malformed event refuses the batch it came with; otherwise its       *)
(* events are processed side by side.                                      *)
Parse(d) ==
  /\ at[d] = "parse"
  /\ \E wellformed \in BOOLEAN : Goto(d, IF wellformed THEN "nonce" ELSE "done")
  /\ UNCHANGED <<nonce, events, suppressed, counted, passed, faults>>

(* Deviation: one repetition is let through. *)
Replayed_OffByOne(seen) == seen > 2

Replayed(seen) == seen > 1

(* The nonce says seen *)
NonceSays(d, seen) ==
  IF Replayed(seen) THEN Goto(d, "done") /\ UNCHANGED passed
  ELSE Goto(d, "exists") /\ passed' = passed \cup {d}

(* incr_with_ttl(..).unwrap_or(1).  When the answer of an attempt is lost, *)
(* exec runs the script again; when Redis fails for good the event counts  *)
(* as new.                                                                 *)
CheckNonce(d) ==
  /\ at[d] = "nonce"
  /\ \/ nonce' = nonce + 1 /\ NonceSays(d, nonce') /\ UNCHANGED faults
     \/ Fault("retry") /\ nonce' = nonce + 2 /\ NonceSays(d, nonce')
     \/ Fault("nonce") /\ nonce' \in {nonce, nonce + 1} /\ NonceSays(d, 1)
  /\ UNCHANGED <<events, suppressed, counted>>

(* replay_window_secs are over. *)
ExpireNonce ==
  /\ nonce > 0 /\ Fault("nonce")
  /\ nonce' = 0
  /\ UNCHANGED <<at, events, suppressed, counted, passed>>

(* email_event_exists *)
EventExists == events > 0

(* When the query fails the event is skipped, too. *)
CheckExists(d) ==
  /\ at[d] = "exists"
  /\ \/ Goto(d, IF EventExists THEN "done" ELSE "create") /\ UNCHANGED faults
     \/ Fault("query") /\ Goto(d, "done")
  /\ UNCHANGED <<nonce, events, suppressed, counted, passed>>

(* A query of the rest fails: `?` ends process_event. *)
QueryFails(d) ==
  /\ at[d] \in {"create", "suppress", "count"}
  /\ Fault("query") /\ Goto(d, "done")
  /\ UNCHANGED <<nonce, events, suppressed, counted, passed>>

(* email_create_event *)
CreateEvent(d) ==
  /\ at[d] = "create"
  /\ events' = events + 1
  /\ Goto(d, "suppress")
  /\ UNCHANGED <<nonce, suppressed, counted, passed, faults>>

(* handle_bounce, handle_complaint, handle_unsubscribe:                    *)
(* email_add_suppression, then the counter                                 *)
Suppress(d) ==
  /\ at[d] = "suppress"
  /\ suppressed' = TRUE
  /\ Goto(d, "count")
  /\ UNCHANGED <<nonce, events, counted, passed, faults>>

Count(d) ==
  /\ at[d] = "count"
  /\ counted' = counted + 1
  /\ Goto(d, "done")
  /\ UNCHANGED <<nonce, events, suppressed, passed, faults>>

Next ==
  \/ \E d \in Deliveries : Deliver(d) \/ Parse(d) \/ CheckNonce(d) \/ CheckExists(d) \/ QueryFails(d)
                           \/ CreateEvent(d) \/ Suppress(d) \/ Count(d)
  \/ ExpireNonce

Spec == Init /\ [][Next]_vars
-----------------------------------------------------------------------------
TypeOK ==
  /\ at \in [Deliveries -> Labels]
  /\ nonce \in Nat /\ events \in Nat /\ counted \in Nat /\ suppressed \in BOOLEAN
  /\ passed \subseteq Deliveries /\ faults \in [Kinds -> 0..MaxFaults]

(* However often an event is delivered, and however the deliveries overlap, *)
(* it is handled once.  At most: it is counted once, and once more for      *)
(* every nonce that was lost.  At least: when all deliveries are done, one  *)
(* got past the nonce, unless the script that counts it was run again; and  *)
(* then the address is suppressed and counted, unless a query failed.       *)
HandledOnce ==
  /\ counted =< 1 + faults["nonce"]
  /\ counted > 0 => suppressed /\ events > 0
  /\ (\A d \in Deliveries : at[d] = "done") =>
       /\ passed # {} => (suppressed /\ counted > 0) \/ faults["query"] > 0
       /\ nonce > 0 => passed # {} \/ faults["retry"] > 0
=============================================================================
