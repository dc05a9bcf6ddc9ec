---------------------------- MODULE TransactionRow ----------------------------
(***************************************************************************)
(* The processed_transaction row of one transaction, as the handlePage     *)
(* methods of the daemons see it: isProcessed, markAsProcessed and         *)
(* ChargeService.process, each one await that returns or throws.  Inside   *)
(* they are the statements of module ChargeService; here a call is the     *)
(* one step that decides the transaction there, or a step that does not.   *)
(***************************************************************************)
EXTENDS Naturals

CONSTANT MaxFaults   \* bound: how often the database or the API fails

ASSUME FaultAssumption == MaxFaults \in Nat

VARIABLES
  note,              \* what the row says, or Absent; "null" is a credit
  hasCharge,         \* there is a charge with the transaction's memo
  faults             \* how often something has failed

Absent == "absent"

OneMoreFault ==
  /\ faults < MaxFaults
  /\ faults' = faults + 1

\* A charge may be created at any time, and stays.
CreateCharge ==
  /\ ~hasCharge
  /\ hasCharge' = TRUE
  /\ UNCHANGED <<note, faults>>

-----------------------------------------------------------------------------
\* markAsProcessed

MarkReturns(text) ==
  /\ note = Absent
  /\ note' = text
  /\ UNCHANGED <<hasCharge, faults>>

\* The unique index refuses it, or the database fails, before or after the fact.
MarkThrows(text) ==
  /\ \/ note # Absent /\ UNCHANGED <<note, faults>>
     \/ OneMoreFault /\ UNCHANGED note
     \/ OneMoreFault /\ note = Absent /\ note' = text
  /\ UNCHANGED hasCharge

-----------------------------------------------------------------------------
\* ChargeService.process, with parameters its schema accepts.  findable says
\* whether the memo is one a charge could have: the query for the charge of any
\* other is an error, each time, as long as the transaction has no row.

Verdict == IF hasCharge THEN "null" ELSE "no associated charge"

ProcessReturns(findable) ==
  /\ note # Absent \/ findable
  /\ note' = IF note = Absent THEN Verdict ELSE note
  /\ UNCHANGED <<hasCharge, faults>>

\* The memo is out of range, or the database fails, before or after the fact.
ProcessThrows(findable) ==
  /\ \/ note = Absent /\ ~findable /\ UNCHANGED <<note, faults>>
     \/ OneMoreFault /\ UNCHANGED note
     \/ OneMoreFault /\ note = Absent /\ findable /\ note' = Verdict
  /\ UNCHANGED hasCharge
=============================================================================
