---------------------------- MODULE MarketStatus ----------------------------
(***************************************************************************)
(* What the contract promises about the life of a market, without clocks,  *)
(* money, oracles or indexes: which status follows which, when the winner  *)
(* is fixed, and that an identifier is used for one market only.  Markets  *)
(* implements this specification.                                          *)
(***************************************************************************)
EXTENDS Integers

CONSTANTS Ids,      \* market identifiers, handed out in increasing order
          Winners,  \* what an oracle or the admin can name as the winner
          NoWinner

VARIABLES st, win

vars == <<st, win>>

Open == {"Active", "PendingResolution", "Disputed"}
Settled == {"Resolved", "Cancelled"}

StatusTypeOK ==
  /\ st \in [Ids -> Open \cup Settled \cup {"Unused", "Pruned"}]
  /\ win \in [Ids -> Winners \cup {NoWinner}]

Init ==
  /\ st = [m \in Ids |-> "Unused"]
  /\ win = [m \in Ids |-> NoWinner]

Move(m, status, winner) ==
  /\ st' = [st EXCEPT ![m] = status]
  /\ win' = [win EXCEPT ![m] = winner]

MoveOnly(m, status) ==
  /\ st' = [st EXCEPT ![m] = status]
  /\ UNCHANGED win

(* The next identifier in order becomes a market. *)
Create(m) ==
  /\ \A k \in Ids : st[k] = "Unused" <=> k >= m
  /\ Move(m, "Active", NoWinner)

(* The oracle names a winner, which waits for objections. *)
Propose(m, w) == st[m] = "Active" /\ Move(m, "PendingResolution", w)

(* Someone objects.  The winner named stays on record. *)
Dispute(m) == st[m] = "PendingResolution" /\ MoveOnly(m, "Disputed")

(* Nobody objected: the winner named is the winner. *)
Accept(m) == st[m] = "PendingResolution" /\ MoveOnly(m, "Resolved")

(* The admin decides, at any time before the market is settled. *)
Decide(m, w) == st[m] \in Open /\ Move(m, "Resolved", w)

Cancel(m) == st[m] \in Open /\ MoveOnly(m, "Cancelled")

Prune(m) == st[m] = "Resolved" /\ Move(m, "Pruned", NoWinner)

Next ==
  \E m \in Ids :
    \/ Create(m) \/ Dispute(m) \/ Accept(m) \/ Cancel(m) \/ Prune(m)
    \/ \E w \in Winners : Propose(m, w) \/ Decide(m, w)

Spec == Init /\ [][Next]_vars
=============================================================================
