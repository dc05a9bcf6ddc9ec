---------------------------- MODULE PaymentLedger ----------------------------
(***************************************************************************)
(* What the gateway promises about every transaction of its accounts, with *)
(* no database, no connection and no concurrency: a transaction is open    *)
(* until it is decided, it is decided once, and a transaction that pays a  *)
(* charge is announced to the merchant in the very step that credits it.   *)
(*                                                                         *)
(* ChargeService (the READ COMMITTED transaction of ChargeService.process  *)
(* and the single insert of TONDaemon.markAsProcessed) implements it.      *)
(***************************************************************************)
EXTENDS Naturals

CONSTANT TxIds          \* transaction hashes

VARIABLES
  verdict,              \* [TxIds -> Verdicts]
  announced             \* [TxIds -> Nat], webhooks queued for the transaction

Verdicts == {"open", "credited", "rejected"}

ledgerVars == <<verdict, announced>>

Init ==
  /\ verdict = [t \in TxIds |-> "open"]
  /\ announced = [t \in TxIds |-> 0]

\* The payment is attached to a charge and one "payment:new" webhook is queued.
Credit(t) ==
  /\ verdict[t] = "open"
  /\ verdict' = [verdict EXCEPT ![t] = "credited"]
  /\ announced' = [announced EXCEPT ![t] = @ + 1]

\* The transaction is noted as one that pays nothing, for good.
Reject(t) ==
  /\ verdict[t] = "open"
  /\ verdict' = [verdict EXCEPT ![t] = "rejected"]
  /\ UNCHANGED announced

Next == \E t \in TxIds : Credit(t) \/ Reject(t)

Spec == Init /\ [][Next]_ledgerVars
=============================================================================
