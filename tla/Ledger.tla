------------------------------- MODULE Ledger -------------------------------
(***************************************************************************)
(* The Soroban host as the predict-iq contract uses it: a ledger clock     *)
(* (e.ledger().timestamp()) and, for every token, the balance held by the  *)
(* contract's own address.  The host is not part of the repository; this   *)
(* module says only what the contract relies on.                           *)
(*                                                                         *)
(* The host undoes every write of an entrypoint that returns Err, so in    *)
(* all the contract modules a step is a call that returns Ok.  The         *)
(* balances of users are not modelled: a transfer into the contract may    *)
(* succeed or fail at any time, a transfer out fails when the contract     *)
(* does not hold the amount.                                               *)
(***************************************************************************)
EXTENDS Integers

CONSTANTS Tokens,       \* token contract addresses
          MaxTime,      \* bound: the last ledger timestamp considered
          MaxReceived   \* bound: how much of each token users ever pay in

VARIABLES now,          \* the ledger timestamp
          held,         \* held[t]: the contract's balance of token t
          received      \* history: received[t] is all that users ever paid in

ledgerVars == <<now, held, received>>

(* None stands for Rust's Option::None where the value is an integer. *)
None == -1

ASSUME LedgerAssumption == MaxTime \in Nat /\ MaxReceived \in Nat

LedgerTypeOK ==
  /\ now \in 0..MaxTime
  /\ held \in [Tokens -> Int]
  /\ received \in [Tokens -> Int]

LedgerInit ==
  /\ now = 0
  /\ held = [t \in Tokens |-> 0]
  /\ received = [t \in Tokens |-> 0]

(* Rust integer division truncates towards zero, \div rounds down. *)
TruncDiv(a, b) == IF a >= 0 THEN a \div b ELSE -((-a) \div b)

(* What is left in storage of a call that found it as before and left it   *)
(* as after.                                                               *)
Commit(result, before, after) == IF result = "Ok" THEN after ELSE before

(* A later ledger closes. *)
AdvanceClock == now < MaxTime /\ now' = now + 1

(* token.transfer(user, contract, amount) *)
Receive(t, amount) ==
  /\ received[t] + amount =< MaxReceived
  /\ held' = [held EXCEPT ![t] = @ + amount]
  /\ received' = [received EXCEPT ![t] = @ + amount]

(* token.transfer(contract, user, amount) *)
Pay(t, amount) ==
  /\ held[t] >= amount
  /\ held' = [held EXCEPT ![t] = @ - amount]
  /\ UNCHANGED received
=============================================================================
