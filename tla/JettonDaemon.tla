----------------------------- MODULE JettonDaemon -----------------------------
(***************************************************************************)
(* src/gateway/ton/jetton/jetton.daemon.ts: what handlePage does with one  *)
(* transaction of the jetton wallet, pass after pass until it has a row.   *)
(* It differs from the Toncoin daemon in the call of get_wallet_data,      *)
(* outside any try block, and in two nested try blocks, whose catch blocks *)
(* both note the transaction.                                              *)
(***************************************************************************)
EXTENDS TransactionRow

VARIABLES
  tx,        \* the transaction
  pc         \* the await the daemon is at; "idle" between two passes

vars == <<note, hasCharge, faults, tx, pc>>

\* What handlePage and process() look at.  wallet is what get_wallet_data of
\* the sender answers: our jetton's master, another one, or nothing, for a
\* contract without that method.  The body is a well-formed transfer or not;
\* memo is the comment of its forward payload: a number a
\* charge can have as its memo, a huge one, which z.coerce.bigint().positive()
\* accepts too but no bigint column holds, something else, or no comment; and
\* carried says where that payload is: in a cell the body refers to, or inline.
Transactions ==
  [internal : BOOLEAN, transfer : BOOLEAN, toUs : BOOLEAN,
   wallet : {"ours", "other", "none"}, wellFormed : BOOLEAN,
   memo : {"number", "huge", "junk", "none"}, carried : {"ref", "inline"},
   amount : {0, 1}]

\* The notes of jetton.daemon.ts, and those of charge.service.ts.
Notes == {"not interested transaction", "unexpected opcode",
          "Incorrect address in dest", "scam transaction, wrong jetton master",
          "memo isn't exists", "invalid memo",
          "Invalid transaction, parsing error", "null", "no associated charge"}

TypeOK ==
  /\ tx \in Transactions
  /\ note \in Notes \cup {Absent}
  /\ hasCharge \in BOOLEAN
  /\ faults \in 0..MaxFaults
  /\ pc \in {"idle", "check", "mark", "wallet", "markMaster", "parse",
             "markNoMemo", "process", "catch", "outerCatch"}

Init ==
  /\ tx \in Transactions
  /\ note = Absent
  /\ hasCharge \in BOOLEAN /\ (hasCharge => tx.memo = "number")
  /\ faults = 0
  /\ pc = "idle"

\* The note of the first check that fails, of those before the first await.
Reason ==
  CASE ~tx.internal                                 -> "not interested transaction"
    [] tx.internal /\ ~tx.transfer                  -> "unexpected opcode"
    [] tx.internal /\ tx.transfer /\ ~tx.toUs       -> "Incorrect address in dest"
    [] OTHER                                        -> "none"

Goto(step) == pc' = step

\* A synchronous step: the daemon goes on, or the pass ends.
GoOn(step) ==
  /\ Goto(step)
  /\ UNCHANGED <<note, hasCharge, faults, tx>>

\* The next pass reaches the transaction.
Visit == pc = "idle" /\ GoOn("check")

\* Mutant of Check: a transaction that passes the checks is noted like one that
\* does not.
CheckMarksAll ==
  /\ pc = "check"
  /\ \/ note # Absent /\ GoOn("idle")
     \/ note = Absent /\ GoOn("mark")

\* isProcessed, and the synchronous checks behind it.
Check ==
  /\ pc = "check"
  /\ \/ note # Absent /\ GoOn("idle")
     \/ note = Absent /\ Reason # "none" /\ GoOn("mark")
     \/ note = Absent /\ Reason = "none" /\ GoOn("wallet")

\* markAsProcessed outside the try blocks: a throw leaves handlePage.
MarkOutside(text) ==
  /\ MarkReturns(text) \/ MarkThrows(text)
  /\ Goto("idle")
  /\ UNCHANGED tx

Mark == pc = "mark" /\ MarkOutside(Reason)

\* Mutant of Wallet: the answer of get_wallet_data is not compared.
WalletUnchecked ==
  /\ pc = "wallet"
  /\ \/ tx.wallet = "none" /\ GoOn("idle")
     \/ tx.wallet # "none" /\ GoOn("parse")

\* runMethod: a contract without get_wallet_data makes handlePage throw.
Wallet ==
  /\ pc = "wallet"
  /\ \/ tx.wallet = "none" /\ GoOn("idle")
     \/ tx.wallet = "other" /\ GoOn("markMaster")
     \/ tx.wallet = "ours" /\ GoOn("parse")

MarkMaster ==
  pc = "markMaster" /\ MarkOutside("scam transaction, wrong jetton master")

\* A call of the API or the database outside the try blocks fails.
CallFails ==
  /\ pc \in {"check", "wallet"}
  /\ OneMoreFault
  /\ Goto("idle")
  /\ UNCHANGED <<note, hasCharge, tx>>

\* The code looks for a comment in the cell the body refers to, nowhere else.
HasComment == tx.carried = "ref" /\ tx.memo # "none"

\* The outer try block: the body is read up to the comment.
Parse ==
  /\ pc = "parse"
  /\ \/ ~tx.wellFormed /\ GoOn("outerCatch")
     \/ tx.wellFormed /\ ~HasComment /\ GoOn("markNoMemo")
     \/ tx.wellFormed /\ HasComment /\ GoOn("process")

\* markAsProcessed inside the outer try block: when it throws, the outer catch
\* block notes the transaction once more.
MarkInside(text) ==
  /\ \/ MarkReturns(text) /\ Goto("idle")
     \/ MarkThrows(text) /\ Goto("outerCatch")
  /\ UNCHANGED tx

MarkNoMemo == pc = "markNoMemo" /\ MarkInside("memo isn't exists")

\* Mutant of ParamsValid: the smallest amount is taken for nothing.
MoreThanOneUnit == tx.memo \in {"number", "huge"} /\ tx.amount > 1

\* validateComment, then the schema of process(): the amount is positive.
ParamsValid == tx.memo \in {"number", "huge"} /\ tx.amount > 0

\* The query for the charge of the memo is no error.
Findable == tx.memo = "number"

\* The inner try block: whatever it throws, its catch block follows.
Process ==
  /\ pc = "process"
  /\ \/ ~ParamsValid /\ Goto("catch") /\ UNCHANGED <<note, hasCharge, faults>>
     \/ ParamsValid /\ ProcessReturns(Findable) /\ Goto("idle")
     \/ ParamsValid /\ ProcessThrows(Findable) /\ Goto("catch")
  /\ UNCHANGED tx

Catch == pc = "catch" /\ MarkInside("invalid memo")

\* Mutant of OuterCatch: the error is logged, and the transaction is left.
OuterCatchLogs == pc = "outerCatch" /\ GoOn("idle")

OuterCatch ==
  pc = "outerCatch" /\ MarkOutside("Invalid transaction, parsing error")

\* The backend dies and starts again.
Restart ==
  /\ pc # "idle"
  /\ OneMoreFault
  /\ Goto("idle")
  /\ UNCHANGED <<note, hasCharge, tx>>

Handle ==
  \/ Visit \/ Check \/ Mark \/ Wallet \/ MarkMaster \/ Parse
  \/ MarkNoMemo \/ Process \/ Catch \/ OuterCatch

Next ==
  \/ Handle
  \/ CallFails
  \/ Restart
  \/ tx.memo = "number" /\ CreateCharge /\ UNCHANGED <<tx, pc>>

Spec == Init /\ [][Next]_vars

\* Passes are repeated and every await settles.
FairSpec == Spec /\ WF_vars(Handle)

-----------------------------------------------------------------------------
\* Properties

IsPayment ==
  /\ tx.internal /\ tx.transfer /\ tx.toUs /\ tx.wallet = "ours"
  /\ tx.wellFormed /\ tx.memo = "number" /\ tx.amount > 0

Paid == {"null", "no associated charge"}

\* Only a jetton payment gets a verdict of the charges, whatever fails on the way
\* to it: every check of handlePage and of the schema of process() lies between,
\* the answer of get_wallet_data included, and the search for its memo; and a
\* credit needs an existing charge.
CreditOnlyPayments ==
  /\ note \in Paid => IsPayment
  /\ note = "null" => hasCharge

\* A payment, with a memo a charge can have, is given up only because something
\* failed while it was handled, or its memo is inline, and a transaction that can
\* be read has the note of a parsing error only because something failed: the
\* nested catch blocks never replace a verdict on their own.
WrongNoteOnlyByFault ==
  /\ (IsPayment /\ note \notin Paid \cup {Absent}) =>
       faults > 0 \/ tx.carried = "inline"
  /\ (tx.wellFormed /\ note = "Invalid transaction, parsing error") => faults > 0

\* Each transaction gets its row some day, unless it passes the first checks and
\* comes from a contract without get_wallet_data: that one alone makes every
\* pass that reaches it fail.
EventuallyNoted ==
  (Reason = "none" /\ tx.wallet = "none") \/ <>(note # Absent)

-----------------------------------------------------------------------------
\* The inductive invariant

\* What has been found out of the transaction when the daemon is at an await.
PassedChecks ==
  /\ pc = "mark" => Reason # "none"
  /\ pc \in {"wallet", "markMaster", "parse"} => Reason = "none"
  /\ pc = "markMaster" => tx.wallet = "other"
  /\ pc = "parse" => tx.wallet = "ours"
  /\ pc \in {"markNoMemo", "process", "catch"} =>
       Reason = "none" /\ tx.wallet = "ours" /\ tx.wellFormed
  /\ pc = "markNoMemo" => ~HasComment
  /\ pc \in {"process", "catch"} => HasComment

\* Why only payments reach the charges, and none is given up without a fault: a
\* catch block is reached through a failure, through a row that was there
\* already, or by a transaction that is none, the range of its memo included.
DaemonInv ==
  /\ TypeOK
  /\ PassedChecks
  /\ pc = "catch" => ~ParamsValid \/ ~Findable \/ faults > 0
  /\ pc = "outerCatch" => ~tx.wellFormed \/ faults > 0 \/ note # Absent
  /\ CreditOnlyPayments
  /\ WrongNoteOnlyByFault
=============================================================================
