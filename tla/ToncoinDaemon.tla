----------------------------- MODULE ToncoinDaemon -----------------------------
(***************************************************************************)
(* src/gateway/ton/toncoin.daemon.ts: what handlePage does with one        *)
(* transaction of the account, pass after pass until it has a row.         *)
(***************************************************************************)
EXTENDS TransactionRow, TokenUnits, Integers

CONSTANT MaxCoins   \* bound: the most coins a transaction carries

ASSUME CoinsAssumption == MaxCoins \in Nat

VARIABLES
  tx,        \* the transaction
  pc         \* the await the daemon is at; "idle" between two passes

vars == <<note, hasCharge, faults, tx, pc>>

\* What handlePage and process() look at.  op and comment are what the body
\* holds: no 32 bits, the text opcode 0 or another one; then a comment: a number
\* a charge can have as its memo, a huge one, which z.coerce.bigint().positive()
\* accepts too but no bigint column holds, or anything else.
Transactions ==
  [internal : BOOLEAN, hasOut : BOOLEAN, toUs : BOOLEAN,
   op : {"none", "text", "other"}, memo : {"number", "huge", "junk"},
   coins : 0..MaxCoins]

\* The notes of toncoin.daemon.ts, and those of charge.service.ts.
Notes == {"not interested transaction", "incorrect address in dest",
          "unexpected opcode", "memo isn't exists", "invalid memo",
          "null", "no associated charge"}

TypeOK ==
  /\ tx \in Transactions
  /\ note \in Notes \cup {Absent}
  /\ hasCharge \in BOOLEAN
  /\ faults \in 0..MaxFaults
  /\ pc \in {"idle", "check", "mark", "process", "catch"}

Init ==
  /\ tx \in Transactions
  /\ note = Absent
  /\ hasCharge \in BOOLEAN /\ (hasCharge => tx.memo = "number")
  /\ faults = 0
  /\ pc = "idle"

\* Only what comes in from a contract and sends nothing on can be a payment.
Interesting == tx.internal /\ ~tx.hasOut

\* Mutant of Reason: the destination is not looked at.
ReasonAnyDest ==
  CASE ~Interesting                    -> "not interested transaction"
    [] Interesting /\ tx.op = "other"  -> "unexpected opcode"
    [] Interesting /\ tx.op = "none"   -> "memo isn't exists"
    [] OTHER                           -> "none"

\* The note of the first check that fails.
Reason ==
  CASE ~Interesting                                -> "not interested transaction"
    [] Interesting /\ ~tx.toUs                     -> "incorrect address in dest"
    [] Interesting /\ tx.toUs /\ tx.op = "other"   -> "unexpected opcode"
    [] Interesting /\ tx.toUs /\ tx.op = "none"    -> "memo isn't exists"
    [] OTHER                                       -> "none"

Goto(step) == pc' = step

\* The next pass reaches the transaction.
Visit ==
  /\ pc = "idle"
  /\ Goto("check")
  /\ UNCHANGED <<note, hasCharge, faults, tx>>

\* isProcessed, and the synchronous checks behind it.
Check ==
  /\ pc = "check"
  /\ \/ note # Absent /\ Goto("idle")
     \/ note = Absent /\ Reason # "none" /\ Goto("mark")
     \/ note = Absent /\ Reason = "none" /\ Goto("process")
  /\ UNCHANGED <<note, hasCharge, faults, tx>>

CheckFails ==
  /\ pc = "check"
  /\ OneMoreFault
  /\ Goto("idle")
  /\ UNCHANGED <<note, hasCharge, tx>>

\* A throw leaves handlePage; the next pass comes back to the transaction.
Mark ==
  /\ pc = "mark"
  /\ MarkReturns(Reason) \/ MarkThrows(Reason)
  /\ Goto("idle")
  /\ UNCHANGED tx

\* Mutant of ParamsValid: the smallest amount is taken for nothing.
MoreThanOneCoin == tx.memo # "junk" /\ tx.coins > 1

\* validateComment, then the schema of process(): the amount is positive.
ParamsValid == tx.memo # "junk" /\ tx.coins > 0

\* Mutant of Findable: a memo beyond bigint is searched for, and not found.
AnyNumber == tx.memo # "junk"

\* The query for the charge of the memo is no error.
Findable == tx.memo = "number"

\* Mutant of Process: an error of process() leaves handlePage uncaught.
ProcessUncaught ==
  /\ pc = "process"
  /\ \/ ~ParamsValid /\ Goto("idle") /\ UNCHANGED <<note, hasCharge, faults>>
     \/ ParamsValid /\ ProcessReturns(Findable) /\ Goto("idle")
     \/ ParamsValid /\ ProcessThrows(Findable) /\ Goto("idle")
  /\ UNCHANGED tx

\* The try block: whatever it throws, the catch block follows.
Process ==
  /\ pc = "process"
  /\ \/ ~ParamsValid /\ Goto("catch") /\ UNCHANGED <<note, hasCharge, faults>>
     \/ ParamsValid /\ ProcessReturns(Findable) /\ Goto("idle")
     \/ ParamsValid /\ ProcessThrows(Findable) /\ Goto("catch")
  /\ UNCHANGED tx

Catch ==
  /\ pc = "catch"
  /\ MarkReturns("invalid memo") \/ MarkThrows("invalid memo")
  /\ Goto("idle")
  /\ UNCHANGED tx

\* The backend dies and starts again.
Restart ==
  /\ pc # "idle"
  /\ OneMoreFault
  /\ Goto("idle")
  /\ UNCHANGED <<note, hasCharge, tx>>

Handle == Visit \/ Check \/ Mark \/ Process \/ Catch

Next ==
  \/ Handle
  \/ CheckFails
  \/ Restart
  \/ tx.memo = "number" /\ CreateCharge /\ UNCHANGED <<tx, pc>>

Spec == Init /\ [][Next]_vars

\* Passes are repeated and every await settles.
FairSpec == Spec /\ WF_vars(Handle)

-----------------------------------------------------------------------------
\* Properties

IsPayment ==
  /\ tx.internal /\ ~tx.hasOut /\ tx.toUs
  /\ tx.op = "text" /\ tx.memo = "number" /\ tx.coins > 0

Paid == {"null", "no associated charge"}

\* Only a payment gets a verdict of the charges, whatever fails on the way to it:
\* a transaction is credited, or noted as one without a charge, only if it passed
\* every check of handlePage and of the schema of process() and its memo could be
\* searched for, and credited only if its charge exists.
CreditOnlyPayments ==
  /\ note \in Paid => IsPayment
  /\ note = "null" => hasCharge

\* A payment, with a memo a charge can have, is given up only because something
\* failed while it was handled: in particular no order of the checks, the
\* statements and the retries does it.
PaymentLostOnlyByFault ==
  (IsPayment /\ note \notin Paid \cup {Absent}) => faults > 0

\* data.amount of the webhook that announces the credit.
Told == Format(tx.coins)

\* The merchant is told what was paid: the number in the webhook is no further
\* from the amount than one part in 2^Bits, and below ExactBelow (8388608 TON,
\* less than the 2^53 units one might expect) parse() gives back every coin.
ToldIsPaid ==
  note = "null" =>
    /\ tx.coins < ExactBelow => Parse(Told) = tx.coins
    /\ (Told * One - tx.coins * Grid) * Power(2)[Bits] \in
         (-tx.coins * Grid)..(tx.coins * Grid)

\* Each transaction gets its row some day: a pass that fails leaves it to the
\* next one, and no transaction makes every pass fail.
EventuallyNoted == <>(note # Absent)

\* toncoin.daemon.ts:78 logs "Transaction has invalid memo in payload" where
\* line 81 notes "invalid memo".  So the transaction was no payment.
InvalidMemoMeansNoPayment == note = "invalid memo" => ~IsPayment

-----------------------------------------------------------------------------
\* The inductive invariant

\* Why only payments reach the charges, and no payment is given up without a
\* fault: each await is reached through its checks, and the catch block through a
\* failure, unless the parameters or the range of the memo led there.
DaemonInv ==
  /\ TypeOK
  /\ pc = "mark" => Reason # "none"
  /\ pc \in {"process", "catch"} => Reason = "none"
  /\ pc = "catch" => ~ParamsValid \/ ~Findable \/ faults > 0
  /\ CreditOnlyPayments
  /\ PaymentLostOnlyByFault
=============================================================================
