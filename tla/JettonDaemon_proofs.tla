------------------------- MODULE JettonDaemon_proofs -------------------------
(***************************************************************************)
(* Theorems about JettonDaemon, however often calls fail and the backend   *)
(* restarts.                                                               *)
(***************************************************************************)
EXTENDS JettonDaemon, TransactionRow_proofs, TLAPS

USE FaultAssumption

LEMMA InitInv == Init => DaemonInv
  BY DEF Init, DaemonInv, TypeOK, PassedChecks, CreditOnlyPayments,
         WrongNoteOnlyByFault, Paid, Absent

\* What the checks, the schema and the range of bigint leave over is exactly a
\* payment.
LEMMA PaymentShape ==
  ASSUME TypeOK
  PROVE  /\ IsPayment => /\ Reason = "none" /\ tx.wallet = "ours" /\ tx.wellFormed
                         /\ ParamsValid /\ Findable /\ tx.memo = "number"
         /\ Reason = "none" /\ tx.wallet = "ours" /\ tx.wellFormed
              /\ ParamsValid /\ Findable
              => IsPayment
  BY DEF TypeOK, Transactions, IsPayment, Reason, ParamsValid, Findable

ParsingError == "Invalid transaction, parsing error"

\* The texts the daemon itself may note.
LEMMA Reasons ==
  ASSUME TypeOK
  PROVE  /\ Reason # "none" => Reason \in Notes \ (Paid \cup {ParsingError})
         /\ {"scam transaction, wrong jetton master", "memo isn't exists",
             "invalid memo", ParsingError} \subseteq Notes \ Paid
         /\ {"scam transaction, wrong jetton master", "memo isn't exists",
             "invalid memo"} \cap {ParsingError} = {}
         /\ {Reason, "scam transaction, wrong jetton master", "memo isn't exists",
             "invalid memo", ParsingError} \cap {Absent} = {}
  BY DEF TypeOK, Transactions, Reason, Notes, Paid, Absent, ParsingError

\* A note that may be written, with so many faults so far.
RightText(text, f) ==
  /\ text \in Notes
  /\ text \in Paid => IsPayment
  /\ IsPayment /\ text \notin Paid => f > 0 \/ tx.carried = "inline"
  /\ tx.wellFormed /\ text = ParsingError => f > 0

\* Credit and loss, after a step that writes no note or a right one.
LEMMA RightNote ==
  ASSUME DaemonInv, tx' = tx, faults' \in 0..MaxFaults, faults' >= faults,
         hasCharge => hasCharge',
         note' = note \/ (RightText(note', faults') /\ (note' = "null" => hasCharge'))
  PROVE  /\ note' \in Notes \cup {Absent}
         /\ CreditOnlyPayments' /\ WrongNoteOnlyByFault'
  <1>1. IsPayment' = IsPayment /\ TypeOK
    BY DEF IsPayment, DaemonInv
  <1>2. note' \in Notes \cup {Absent}
    BY <1>1 DEF TypeOK, RightText
  <1>3. CreditOnlyPayments'
    BY <1>1 DEF DaemonInv, CreditOnlyPayments, RightText
  <1>4. faults \in Nat /\ faults' \in Nat
    BY <1>1 DEF TypeOK
  <1>5. ASSUME IsPayment, note' \notin Paid \cup {Absent}
        PROVE  faults' > 0 \/ tx.carried = "inline"
    <2>1. CASE note' = note
      <3>1. faults > 0 \/ tx.carried = "inline"
        BY <1>5, <2>1 DEF DaemonInv, WrongNoteOnlyByFault
      <3> QED BY <3>1, <1>4
    <2>2. CASE note' # note
      BY <1>5, <2>2 DEF RightText
    <2> QED BY <2>1, <2>2
  <1>6. ASSUME tx.wellFormed, note' = ParsingError PROVE faults' > 0
    <2>1. CASE note' = note
      <3>1. faults > 0
        BY <1>6, <2>1 DEF DaemonInv, WrongNoteOnlyByFault, ParsingError
      <3> QED BY <3>1, <1>4
    <2>2. CASE note' # note
      BY <1>6, <2>2 DEF RightText
    <2> QED BY <2>1, <2>2
  <1>7. WrongNoteOnlyByFault'
    BY <1>1, <1>5, <1>6 DEF WrongNoteOnlyByFault, Paid, ParsingError
  <1> QED BY <1>2, <1>3, <1>7

Pcs == {"idle", "check", "mark", "wallet", "markMaster", "parse",
        "markNoMemo", "process", "catch", "outerCatch"}

\* The invariant, from where the step leads and the note it leaves.
LEMMA StepInv ==
  ASSUME DaemonInv, tx' = tx, faults' \in 0..MaxFaults, faults' >= faults,
         hasCharge' \in BOOLEAN, hasCharge => hasCharge',
         note' = note \/ (RightText(note', faults') /\ (note' = "null" => hasCharge')),
         pc' \in Pcs,
         pc' = "mark" => Reason # "none",
         pc' \in {"wallet", "markMaster", "parse"} => Reason = "none",
         pc' = "markMaster" => tx.wallet = "other",
         pc' = "parse" => tx.wallet = "ours",
         pc' \in {"markNoMemo", "process", "catch"} =>
           Reason = "none" /\ tx.wallet = "ours" /\ tx.wellFormed,
         pc' = "markNoMemo" => ~HasComment,
         pc' \in {"process", "catch"} => HasComment,
         pc' = "catch" => ~ParamsValid \/ ~Findable \/ faults' > 0,
         pc' = "outerCatch" => ~tx.wellFormed \/ faults' > 0 \/ note' # Absent
  PROVE  DaemonInv'
  <1>1. note' \in Notes \cup {Absent} /\ CreditOnlyPayments' /\ WrongNoteOnlyByFault'
    BY RightNote
  <1>2. TypeOK'
    BY <1>1 DEF DaemonInv, TypeOK, Pcs
  <1>3. /\ Reason' = Reason /\ HasComment' = HasComment
        /\ ParamsValid' = ParamsValid /\ Findable' = Findable
    BY DEF Reason, HasComment, ParamsValid, Findable
  <1>4. PassedChecks'
    BY <1>3 DEF PassedChecks
  <1> QED BY <1>1, <1>2, <1>3, <1>4 DEF DaemonInv

\* A markAsProcessed of a right text: afterwards the row is there, or something
\* has failed.
LEMMA MarkText ==
  ASSUME TypeOK, NEW text, text # Absent, RightText(text, faults), text # "null",
         MarkReturns(text) \/ MarkThrows(text)
  PROVE  /\ note' = note \/ (RightText(note', faults') /\ note' # "null")
         /\ faults' \in 0..MaxFaults /\ faults' >= faults
         /\ hasCharge' = hasCharge
         /\ note' # Absent \/ faults' > 0
  <1>1. faults \in 0..MaxFaults /\ faults \in Nat
    BY DEF TypeOK
  <1>2. /\ note' = note \/ (note = Absent /\ note' = text)
        /\ faults' \in 0..MaxFaults /\ faults' >= faults
        /\ hasCharge' = hasCharge
    BY <1>1, MarkStep
  <1>3. note' # Absent \/ faults' > 0
    BY <1>1 DEF MarkReturns, MarkThrows, OneMoreFault
  <1>4. RightText(text, faults')
    <2>1. faults' \in Nat /\ (faults > 0 => faults' > 0)
      BY <1>1, <1>2
    <2> QED BY <2>1 DEF RightText
  <1> QED BY <1>2, <1>3, <1>4

LEMMA NextInv == ASSUME DaemonInv, [Next]_vars PROVE DaemonInv'
  <1>0. /\ TypeOK
        /\ faults \in 0..MaxFaults /\ faults >= faults
        /\ hasCharge \in BOOLEAN
        /\ pc \in Pcs
        /\ PassedChecks
        /\ pc = "catch" => ~ParamsValid \/ ~Findable \/ faults > 0
        /\ pc = "outerCatch" => ~tx.wellFormed \/ faults > 0 \/ note # Absent
    BY DEF DaemonInv, TypeOK, Pcs
  <1>1. CASE UNCHANGED vars
    BY <1>0, <1>1, StepInv DEF vars, PassedChecks
  <1>2. CASE Visit \/ Check
    BY <1>0, <1>2, StepInv DEF Visit, Check, GoOn, Goto, Pcs
  <1>3. CASE Wallet
    BY <1>0, <1>3, StepInv DEF Wallet, GoOn, Goto, Pcs, PassedChecks
  <1>4. CASE Parse
    BY <1>0, <1>4, StepInv DEF Parse, GoOn, Goto, Pcs, PassedChecks
  <1>5. ASSUME NEW text, text # Absent, RightText(text, faults), text # "null",
               MarkOutside(text)
        PROVE  DaemonInv'
    <2>1. MarkReturns(text) \/ MarkThrows(text)
      BY <1>5 DEF MarkOutside
    <2>2. pc' = "idle" /\ tx' = tx
      BY <1>5 DEF MarkOutside, Goto
    <2> QED BY <1>0, <1>5, <2>1, <2>2, MarkText, StepInv DEF Pcs
  <1>6. ASSUME NEW text, text # Absent, RightText(text, faults), text # "null",
               MarkInside(text)
        PROVE  DaemonInv'
    <2>1. MarkReturns(text) \/ MarkThrows(text)
      BY <1>6 DEF MarkInside
    <2>2. pc' \in {"idle", "outerCatch"} /\ tx' = tx
      BY <1>6 DEF MarkInside, Goto
    <2> QED BY <1>0, <1>6, <2>1, <2>2, MarkText, StepInv DEF Pcs
  <1>7. CASE Mark
    <2>1. Reason # Absent /\ Reason # "null" /\ RightText(Reason, faults)
      BY <1>0, <1>7, Reasons, PaymentShape DEF Mark, PassedChecks, RightText, Paid
    <2> QED BY <1>5, <1>7, <2>1 DEF Mark
  <1>8. CASE MarkMaster
    <2> DEFINE text == "scam transaction, wrong jetton master"
    <2>1. text # Absent /\ text # "null" /\ RightText(text, faults)
      BY <1>0, <1>8, Reasons, PaymentShape
         DEF MarkMaster, PassedChecks, RightText, Paid
    <2> QED BY <1>5, <1>8, <2>1 DEF MarkMaster
  <1>9. CASE MarkNoMemo
    <2> DEFINE text == "memo isn't exists"
    <2>1. IsPayment => tx.carried = "inline"
      BY <1>0, <1>9, PaymentShape
         DEF MarkNoMemo, PassedChecks, HasComment, TypeOK, Transactions
    <2>2. text # Absent /\ text # "null" /\ RightText(text, faults)
      BY <1>0, <2>1, Reasons DEF RightText, Paid
    <2> QED BY <1>6, <1>9, <2>2 DEF MarkNoMemo
  <1>10. CASE Catch
    <2> DEFINE text == "invalid memo"
    <2>1. IsPayment => faults > 0
      BY <1>0, <1>10, PaymentShape DEF Catch
    <2>2. text # Absent /\ text # "null" /\ RightText(text, faults)
      BY <1>0, <2>1, Reasons DEF RightText, Paid
    <2> QED BY <1>6, <1>10, <2>2 DEF Catch
  <1>11. CASE OuterCatch
    <2>1. CASE note # Absent
      <3>1. note' = note /\ faults' \in 0..MaxFaults /\ faults' >= faults
              /\ hasCharge' = hasCharge /\ tx' = tx /\ pc' = "idle"
        BY <1>0, <1>11, <2>1, MarkStep DEF OuterCatch, MarkOutside, Goto
      <3> QED BY <1>0, <3>1, StepInv DEF Pcs
    <2>2. CASE note = Absent
      <3>1. tx.wellFormed => faults > 0
        BY <1>0, <1>11, <2>2 DEF OuterCatch
      <3>2. IsPayment => faults > 0
        BY <1>0, <3>1, PaymentShape
      <3>3. /\ ParsingError # Absent /\ ParsingError # "null"
            /\ RightText(ParsingError, faults)
        BY <1>0, <3>1, <3>2, Reasons DEF RightText, Paid
      <3> QED BY <1>5, <1>11, <3>3 DEF OuterCatch, ParsingError
    <2> QED BY <2>1, <2>2
  <1>12. CASE Process
    <2>1. tx' = tx /\ Reason = "none" /\ tx.wallet = "ours" /\ tx.wellFormed
            /\ HasComment
      BY <1>0, <1>12 DEF Process, PassedChecks
    <2>2. CASE ~ParamsValid
      <3>1. pc' = "catch" /\ UNCHANGED <<note, hasCharge, faults>>
        BY <1>12, <2>2 DEF Process, Goto
      <3> QED BY <1>0, <2>1, <2>2, <3>1, StepInv DEF Pcs
    <2>3. CASE ParamsValid
      <3>1. Findable => IsPayment
        BY <1>0, <2>1, <2>3, PaymentShape
      <3>2. /\ Findable => RightText(Verdict, faults')
            /\ Verdict = "null" => hasCharge
        BY <3>1 DEF Verdict, RightText, Paid, Notes, ParsingError
      <3>3. /\ \/ ProcessReturns(Findable) /\ pc' = "idle"
               \/ ProcessThrows(Findable) /\ pc' = "catch"
            /\ Findable \in BOOLEAN
        BY <1>12, <2>3 DEF Process, Goto, Findable
      <3>4. /\ note' = note \/ (note' = Verdict /\ Findable)
            /\ faults' \in 0..MaxFaults /\ faults' >= faults
            /\ pc' = "catch" => ~Findable \/ faults' > 0
            /\ pc' \in {"idle", "catch"}
            /\ hasCharge' = hasCharge
        BY <1>0, <3>3, ProcessStep
      <3> QED BY <1>0, <2>1, <3>2, <3>4, StepInv DEF Pcs
    <2> QED BY <2>2, <2>3
  <1>13. CASE CallFails \/ Restart
    <2>1. /\ note' = note /\ hasCharge' = hasCharge /\ tx' = tx /\ pc' = "idle"
          /\ faults' \in 0..MaxFaults /\ faults' >= faults
      BY <1>0, <1>13 DEF CallFails, Restart, OneMoreFault, Goto
    <2> QED BY <1>0, <2>1, StepInv DEF Pcs
  <1>14. CASE CreateCharge /\ UNCHANGED <<tx, pc>>
    BY <1>0, <1>14, StepInv DEF CreateCharge, PassedChecks
  <1> QED BY <1>1, <1>2, <1>3, <1>4, <1>7, <1>8, <1>9, <1>10, <1>11, <1>12,
       <1>13, <1>14 DEF Next, Handle

-----------------------------------------------------------------------------
\* The theorems

\* At every await the daemon has found out what leads there.
THEOREM Safety == Spec => []DaemonInv
  <1> QED BY InitInv, NextInv, PTL DEF Spec

\* Only what passed every check, get_wallet_data included, and has a memo within
\* bigint, gets a verdict of the charges.
THEOREM OnlyPaymentsCredited == Spec => []CreditOnlyPayments
  <1>1. DaemonInv => CreditOnlyPayments
    BY DEF DaemonInv
  <1> QED BY <1>1, Safety, PTL

\* No payment whose memo a charge can have is given up, and no readable transaction noted as unreadable,
\* without a fault or an inline memo.
THEOREM NoPaymentLost == Spec => []WrongNoteOnlyByFault
  <1>1. DaemonInv => WrongNoteOnlyByFault
    BY DEF DaemonInv
  <1> QED BY <1>1, Safety, PTL
===============================================================================
