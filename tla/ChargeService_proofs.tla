------------------------ MODULE ChargeService_proofs ------------------------
(***************************************************************************)
(* Theorems about ChargeService, for every number of workers and payments. *)
(***************************************************************************)
EXTENDS ChargeService, TLAPS

USE NoTxAssumption, PaymentAssumption, BoundAssumption

\* The names the actions mention are in the sets the type invariant mentions.
LEMMA Names ==
  /\ \A s \in TxSteps : s \in Steps
  /\ \A s \in {"checkProcessed", "findCharge", "insertUnmatched", "findTx",
               "insertDuplicate", "insertTx", "insertProcessed",
               "insertWebhook", "commit"} : s \in TxSteps
  /\ \A s \in {"idle", "mark", "returned", "threw"} : s \in Steps /\ s \notin TxSteps
  /\ \A table \in {"processed_transaction", "charge_transaction", "webhook"} :
       table \in Tables
  /\ NoCharge \in Nat
  BY DEF Steps, TxSteps, Tables, NoCharge

LEMMA InitInv == Init => LedgerInv
  BY DEF Init, LedgerInv, TypeOK, AnnouncedExactlyOnce, CreditAgreesWithNote,
         PendingRowsAreUnique, RowsFollowSteps, ReturnMeansDecided, Credited,
         MustWait, Absent, NoCharge, Notes, Tables, Steps, TxSteps

LEMMA CreateInv ==
  ASSUME LedgerInv, Create PROVE LedgerInv'
  <1> USE DEF LedgerInv, Create, conns
  <1>1. TypeOK'
    <2>1. memoSeq \in Nat /\ memoSeq' = memoSeq + 1 /\ memoSeq < MaxMemo
      BY DEF TypeOK
    <2>2. 1..memoSeq \subseteq 1..memoSeq' /\ memoSeq' \in 1..memoSeq' /\ memoSeq' \in 0..MaxMemo
      BY <2>1
    <2>3. charges' \subseteq 1..memoSeq'
      BY <2>2 DEF TypeOK
    <2> QED BY <2>2, <2>3 DEF TypeOK
  <1>2. AnnouncedExactlyOnce'
    BY DEF AnnouncedExactlyOnce, Credited
  <1>3. CreditAgreesWithNote'
    BY DEF CreditAgreesWithNote, Credited
  <1>4. PendingRowsAreUnique'
    BY DEF PendingRowsAreUnique, MustWait
  <1>5. RowsFollowSteps'
    BY DEF RowsFollowSteps, Credited
  <1>6. ReturnMeansDecided'
    BY DEF ReturnMeansDecided
  <1> QED BY <1>1, <1>2, <1>3, <1>4, <1>5, <1>6

LEMMA ProcessInv ==
  ASSUME LedgerInv, NEW w \in Workers, NEW t \in TxIds, Process(w, t) PROVE LedgerInv'
  <1> USE DEF LedgerInv, Process, Goto, tables
  <1>1. TypeOK'
    BY Names DEF TypeOK
  <1>2. AnnouncedExactlyOnce'
    BY DEF AnnouncedExactlyOnce, Credited
  <1>3. CreditAgreesWithNote'
    BY DEF CreditAgreesWithNote, Credited
  <1>4. PendingRowsAreUnique'
    BY Names DEF PendingRowsAreUnique, RowsFollowSteps, MustWait, TypeOK
  <1>5. RowsFollowSteps'
    BY Names DEF RowsFollowSteps, Credited, TypeOK
  <1>6. ReturnMeansDecided'
    BY DEF ReturnMeansDecided, TypeOK
  <1> QED BY <1>1, <1>2, <1>3, <1>4, <1>5, <1>6

LEMMA MarkInv ==
  ASSUME LedgerInv, NEW w \in Workers, NEW t \in TxIds, Mark(w, t) PROVE LedgerInv'
  <1> USE DEF LedgerInv, Mark, Goto, tables
  <1>1. TypeOK'
    BY Names DEF TypeOK
  <1>2. AnnouncedExactlyOnce'
    BY DEF AnnouncedExactlyOnce, Credited
  <1>3. CreditAgreesWithNote'
    BY DEF CreditAgreesWithNote, Credited
  <1>4. PendingRowsAreUnique'
    BY Names DEF PendingRowsAreUnique, RowsFollowSteps, MustWait, TypeOK
  <1>5. RowsFollowSteps'
    BY Names DEF RowsFollowSteps, Credited, TypeOK
  <1>6. ReturnMeansDecided'
    BY DEF ReturnMeansDecided, TypeOK
  <1> QED BY <1>1, <1>2, <1>3, <1>4, <1>5, <1>6

LEMMA RollbackInv ==
  ASSUME LedgerInv, NEW w \in Workers, pc[w] \in TxSteps, Rollback(w) PROVE LedgerInv'
  <1> USE DEF LedgerInv, Rollback, Goto, Release, tables
  <1>1. TypeOK'
    BY Names DEF TypeOK
  <1>2. AnnouncedExactlyOnce'
    BY DEF AnnouncedExactlyOnce, Credited
  <1>3. CreditAgreesWithNote'
    BY DEF CreditAgreesWithNote, Credited
  <1>4. PendingRowsAreUnique'
    BY DEF PendingRowsAreUnique, MustWait, TypeOK
  <1>5. RowsFollowSteps'
    BY Names DEF RowsFollowSteps, Credited, TypeOK
  <1>6. ReturnMeansDecided'
    BY DEF ReturnMeansDecided, TypeOK
  <1> QED BY <1>1, <1>2, <1>3, <1>4, <1>5, <1>6

LEMMA CheckProcessedInv ==
  ASSUME LedgerInv, NEW w \in Workers, CheckProcessed(w) PROVE LedgerInv'
  <1> USE DEF LedgerInv, CheckProcessed, Goto, Lock, tables
  <1>1. TypeOK'
    BY Names DEF TypeOK
  <1>2. AnnouncedExactlyOnce'
    BY DEF AnnouncedExactlyOnce, Credited
  <1>3. CreditAgreesWithNote'
    BY DEF CreditAgreesWithNote, Credited
  <1>4. PendingRowsAreUnique'
    BY DEF PendingRowsAreUnique, MustWait, TypeOK
  <1>5. RowsFollowSteps'
    BY Names DEF RowsFollowSteps, Credited, TypeOK
  <1>6. ReturnMeansDecided'
    BY DEF ReturnMeansDecided, TypeOK
  <1> QED BY <1>1, <1>2, <1>3, <1>4, <1>5, <1>6

LEMMA FindTxInv ==
  ASSUME LedgerInv, NEW w \in Workers, FindTx(w) PROVE LedgerInv'
  <1> USE DEF LedgerInv, FindTx, Goto, Lock, tables
  <1>1. TypeOK'
    BY Names DEF TypeOK
  <1>2. AnnouncedExactlyOnce'
    BY DEF AnnouncedExactlyOnce, Credited
  <1>3. CreditAgreesWithNote'
    BY DEF CreditAgreesWithNote, Credited
  <1>4. PendingRowsAreUnique'
    BY DEF PendingRowsAreUnique, MustWait, TypeOK
  <1>5. RowsFollowSteps'
    BY Names DEF RowsFollowSteps, Credited, TypeOK
  <1>6. ReturnMeansDecided'
    BY DEF ReturnMeansDecided, TypeOK
  <1> QED BY <1>1, <1>2, <1>3, <1>4, <1>5, <1>6

LEMMA MarkFailInv ==
  ASSUME LedgerInv, NEW w \in Workers, MarkFail(w) PROVE LedgerInv'
  <1> USE DEF LedgerInv, MarkFail, Goto, tables
  <1>1. TypeOK'
    BY Names DEF TypeOK
  <1>2. AnnouncedExactlyOnce'
    BY DEF AnnouncedExactlyOnce, Credited
  <1>3. CreditAgreesWithNote'
    BY DEF CreditAgreesWithNote, Credited
  <1>4. PendingRowsAreUnique'
    BY DEF PendingRowsAreUnique, MustWait, TypeOK
  <1>5. RowsFollowSteps'
    BY Names DEF RowsFollowSteps, Credited, TypeOK
  <1>6. ReturnMeansDecided'
    BY DEF ReturnMeansDecided, TypeOK
  <1> QED BY <1>1, <1>2, <1>3, <1>4, <1>5, <1>6

LEMMA ReturnInv ==
  ASSUME LedgerInv, NEW w \in Workers, Return(w) PROVE LedgerInv'
  <1> USE DEF LedgerInv, Return, Goto, tables
  <1>1. TypeOK'
    BY Names DEF TypeOK
  <1>2. AnnouncedExactlyOnce'
    BY DEF AnnouncedExactlyOnce, Credited
  <1>3. CreditAgreesWithNote'
    BY DEF CreditAgreesWithNote, Credited
  <1>4. PendingRowsAreUnique'
    BY Names DEF PendingRowsAreUnique, RowsFollowSteps, MustWait, TypeOK, TxSteps
  <1>5. RowsFollowSteps'
    BY Names DEF RowsFollowSteps, Credited, TypeOK
  <1>6. ReturnMeansDecided'
    BY DEF ReturnMeansDecided, TypeOK
  <1> QED BY <1>1, <1>2, <1>3, <1>4, <1>5, <1>6

LEMMA CrashInv ==
  ASSUME LedgerInv, Crash PROVE LedgerInv'
  <1> USE DEF LedgerInv, Crash, tables
  <1>1. TypeOK'
    BY Names DEF TypeOK
  <1>2. AnnouncedExactlyOnce'
    BY DEF AnnouncedExactlyOnce, Credited
  <1>3. CreditAgreesWithNote'
    BY DEF CreditAgreesWithNote, Credited
  <1>4. PendingRowsAreUnique'
    BY DEF PendingRowsAreUnique, MustWait, TypeOK
  <1>5. RowsFollowSteps'
    BY Names DEF RowsFollowSteps, Credited, TypeOK
  <1>6. ReturnMeansDecided'
    BY DEF ReturnMeansDecided, TypeOK
  <1> QED BY <1>1, <1>2, <1>3, <1>4, <1>5, <1>6

LEMMA MarkInsertInv ==
  ASSUME LedgerInv, NEW w \in Workers, MarkInsert(w) PROVE LedgerInv'
  <1> USE DEF LedgerInv, MarkInsert, Goto
  <1>0. /\ "rejected" \in Notes /\ "rejected" # "null"
        /\ "rejected" # Absent /\ "null" # Absent
    BY DEF Notes, Absent
  <1>1. TypeOK'
    BY <1>0, Names DEF TypeOK
  <1>2. AnnouncedExactlyOnce'
    BY DEF AnnouncedExactlyOnce, Credited
  <1>3. CreditAgreesWithNote'
    BY <1>0 DEF CreditAgreesWithNote, Credited, TypeOK
  <1>4. PendingRowsAreUnique'
    BY DEF PendingRowsAreUnique, RowsFollowSteps, MustWait, TypeOK
  <1>5. RowsFollowSteps'
    BY <1>0, Names DEF RowsFollowSteps, Credited, TypeOK
  <1>6. ReturnMeansDecided'
    BY <1>0 DEF ReturnMeansDecided, TypeOK
  <1> QED BY <1>1, <1>2, <1>3, <1>4, <1>5, <1>6

\* A row is inserted only when no other worker has one pending for the txid, so
\* every conjunct but RowsFollowSteps, which depends on the statement, is kept.
LEMMA InsertInv ==
  ASSUME LedgerInv, NEW w \in Workers, NEW table \in Tables,
         NEW next \in TxSteps, Insert(w, table, next), pc[w] \in TxSteps,
         table = "processed_transaction" =>
           processed[arg[w]] = Absent /\ ~MustWait(w, "processed_transaction"),
         table = "charge_transaction" =>
           chargeTxs[arg[w]] = NoCharge /\ ~MustWait(w, "charge_transaction"),
         RowsFollowSteps'
  PROVE  LedgerInv'
  <1> USE DEF LedgerInv, Insert, Goto, tables
  <1>1. TypeOK'
    BY Names DEF TypeOK
  <1>2. AnnouncedExactlyOnce'
    BY DEF AnnouncedExactlyOnce, Credited
  <1>3. CreditAgreesWithNote'
    BY DEF CreditAgreesWithNote, Credited
  <1>4. PendingRowsAreUnique'
    BY DEF PendingRowsAreUnique, MustWait, TypeOK
  <1>5. ReturnMeansDecided'
    BY Names DEF ReturnMeansDecided, TypeOK
  <1> QED BY <1>1, <1>2, <1>3, <1>4, <1>5

LEMMA InsertUnmatchedInv ==
  ASSUME LedgerInv, NEW w \in Workers, InsertUnmatched(w) PROVE LedgerInv'
  <1> USE DEF InsertUnmatched, InsertProcessedRow
  <1>1. CASE Rollback(w)
    BY <1>1, RollbackInv, Names
  <1>2. CASE /\ processed[arg[w]] = Absent
             /\ Insert(w, "processed_transaction", "commit")
    <2>1. RowsFollowSteps'
      BY <1>2, Names DEF Insert, Goto, LedgerInv, RowsFollowSteps, Credited,
                         TypeOK, tables
    <2> QED BY <1>2, <2>1, InsertInv, Names
  <1> QED BY <1>1, <1>2

\* The insert itself never succeeds here: a transaction that has its
\* charge_transaction row also has its processed_transaction row.
LEMMA InsertDuplicateInv ==
  ASSUME LedgerInv, NEW w \in Workers, InsertDuplicate(w) PROVE LedgerInv'
  <1>1. arg[w] \in TxIds /\ Credited(arg[w])
    BY Names DEF InsertDuplicate, LedgerInv, TypeOK, RowsFollowSteps
  <1>2. processed[arg[w]] # Absent
    BY <1>1 DEF LedgerInv, CreditAgreesWithNote, Absent
  <1>3. Rollback(w)
    BY <1>2 DEF InsertDuplicate, InsertProcessedRow
  <1> QED BY <1>3, RollbackInv, Names DEF InsertDuplicate

LEMMA InsertProcessedInv ==
  ASSUME LedgerInv, NEW w \in Workers, InsertProcessed(w) PROVE LedgerInv'
  <1> USE DEF InsertProcessed, InsertProcessedRow
  <1>1. CASE Rollback(w)
    BY <1>1, RollbackInv, Names
  <1>2. CASE /\ processed[arg[w]] = Absent
             /\ Insert(w, "processed_transaction", "insertWebhook")
    <2>1. RowsFollowSteps'
      BY <1>2, Names DEF Insert, Goto, LedgerInv, RowsFollowSteps, Credited,
                         TypeOK, tables
    <2> QED BY <1>2, <2>1, InsertInv, Names
  <1> QED BY <1>1, <1>2

LEMMA InsertTxInv ==
  ASSUME LedgerInv, NEW w \in Workers, InsertTx(w) PROVE LedgerInv'
  <1> USE DEF InsertTx
  <1>1. CASE Rollback(w)
    BY <1>1, RollbackInv, Names
  <1>2. CASE /\ chargeTxs[arg[w]] = NoCharge
             /\ Insert(w, "charge_transaction", "insertProcessed")
    <2>1. RowsFollowSteps'
      BY <1>2, Names DEF Insert, Goto, LedgerInv, RowsFollowSteps, Credited,
                         TypeOK, tables
    <2> QED BY <1>2, <2>1, InsertInv, Names
  <1> QED BY <1>1, <1>2

LEMMA InsertWebhookInv ==
  ASSUME LedgerInv, NEW w \in Workers, InsertWebhook(w) PROVE LedgerInv'
  <1>1. inserted[w] \cup {"webhook"} = Tables /\ charge[w] # NoCharge
    BY DEF InsertWebhook, LedgerInv, RowsFollowSteps, Tables
  <1>2. RowsFollowSteps'
    BY <1>1, Names DEF InsertWebhook, Insert, Goto, LedgerInv, RowsFollowSteps,
                       Credited, TypeOK, tables
  <1> QED BY <1>2, InsertInv, Names DEF InsertWebhook

LEMMA FindChargeInv ==
  ASSUME LedgerInv, NEW w \in Workers, FindCharge(w) PROVE LedgerInv'
  <1> USE DEF FindCharge
  <1>1. CASE Rollback(w)
    BY <1>1, RollbackInv, Names
  <1>2. CASE /\ MemoOf[arg[w]] \in charges
             /\ charge' = [charge EXCEPT ![w] = MemoOf[arg[w]]]
             /\ Goto(w, "findTx")
             /\ UNCHANGED <<tables, arg, inserted, locked>>
    <2> USE <1>2 DEF LedgerInv, Goto, tables
    <2>1. MemoOf[arg[w]] \in Nat /\ MemoOf[arg[w]] # NoCharge
      <3>1. /\ memoSeq \in Nat /\ charges \subseteq 1..memoSeq
            /\ MemoOf[arg[w]] \in charges
        BY DEF TypeOK
      <3>2. MemoOf[arg[w]] \in 1..memoSeq
        BY <3>1
      <3> HIDE DEF LedgerInv
      <3> QED BY <3>1, <3>2 DEF NoCharge
    <2>2. TypeOK'
      BY <2>1, Names DEF TypeOK
    <2>3. AnnouncedExactlyOnce' /\ CreditAgreesWithNote'
      BY DEF AnnouncedExactlyOnce, CreditAgreesWithNote, Credited
    <2>4. PendingRowsAreUnique'
      BY DEF PendingRowsAreUnique, MustWait
    <2>5. RowsFollowSteps'
      BY <2>1, Names DEF RowsFollowSteps, Credited, TypeOK
    <2>6. ReturnMeansDecided'
      BY Names DEF ReturnMeansDecided, TypeOK
    <2> QED BY <2>2, <2>3, <2>4, <2>5, <2>6
  <1>3. CASE /\ MemoOf[arg[w]] <= MaxBigint
             /\ Goto(w, "insertUnmatched")
             /\ UNCHANGED <<tables, arg, charge, inserted, locked>>
    <2> USE <1>3 DEF LedgerInv, Goto, tables
    <2>1. TypeOK'
      BY Names DEF TypeOK
    <2>2. AnnouncedExactlyOnce' /\ CreditAgreesWithNote'
      BY DEF AnnouncedExactlyOnce, CreditAgreesWithNote, Credited
    <2>3. PendingRowsAreUnique'
      BY DEF PendingRowsAreUnique, MustWait
    <2>4. RowsFollowSteps'
      BY Names DEF RowsFollowSteps, Credited, TypeOK
    <2>5. ReturnMeansDecided'
      BY Names DEF ReturnMeansDecided, TypeOK
    <2> QED BY <2>1, <2>2, <2>3, <2>4, <2>5
  <1> QED BY <1>1, <1>2, <1>3

\* What a worker can publish at COMMIT: nothing, because another worker has
\* decided the transaction; a rejection; or a credit with its webhook.
CommitsNothing(w) ==
  /\ inserted[w] = {}
  /\ charge[w] = NoCharge
  /\ processed[arg[w]] # Absent
  /\ UNCHANGED <<processed, chargeTxs, webhooks>>

CommitsRejection(w) ==
  /\ inserted[w] = {"processed_transaction"}
  /\ charge[w] = NoCharge
  /\ processed[arg[w]] = Absent
  /\ chargeTxs[arg[w]] = NoCharge
  /\ webhooks[arg[w]] = 0
  /\ MemoOf[arg[w]] <= MaxBigint
  /\ processed' = [processed EXCEPT ![arg[w]] = "no associated charge"]
  /\ UNCHANGED <<chargeTxs, webhooks>>

CommitsCredit(w) ==
  /\ inserted[w] = Tables
  /\ charge[w] # NoCharge
  /\ charge[w] = MemoOf[arg[w]]
  /\ charge[w] \in charges
  /\ processed[arg[w]] = Absent
  /\ chargeTxs[arg[w]] = NoCharge
  /\ webhooks[arg[w]] = 0
  /\ processed' = [processed EXCEPT ![arg[w]] = "null"]
  /\ chargeTxs' = [chargeTxs EXCEPT ![arg[w]] = charge[w]]
  /\ webhooks' = [webhooks EXCEPT ![arg[w]] = 1]

LEMMA CommitCases ==
  ASSUME LedgerInv, NEW w \in Workers, Commit(w)
  PROVE  CommitsNothing(w) \/ CommitsRejection(w) \/ CommitsCredit(w)
  <1>1. arg[w] \in TxIds /\ webhooks \in [TxIds -> Nat]
    BY DEF Commit, LedgerInv, TypeOK
  <1>2. "processed_transaction" \in inserted[w] =>
          /\ processed[arg[w]] = Absent
          /\ chargeTxs[arg[w]] = NoCharge
          /\ webhooks[arg[w]] = 0
    BY <1>1 DEF LedgerInv, PendingRowsAreUnique, CreditAgreesWithNote,
                AnnouncedExactlyOnce, Credited, Absent
  <1>3. charge[w] # NoCharge =>
          charge[w] = MemoOf[arg[w]] /\ charge[w] \in charges
    BY DEF LedgerInv, RowsFollowSteps
  <1>4. CASE /\ inserted[w] = {}
             /\ charge[w] = NoCharge
             /\ processed[arg[w]] # Absent
    BY <1>4 DEF Commit, Publish, CommitsNothing
  <1>5. CASE /\ inserted[w] = {"processed_transaction"}
             /\ charge[w] = NoCharge
             /\ MemoOf[arg[w]] <= MaxBigint
    BY <1>2, <1>5 DEF Commit, Publish, NoteOf, CommitsRejection
  <1>6. CASE inserted[w] = Tables /\ charge[w] # NoCharge
    <2>1. /\ processed' = [processed EXCEPT ![arg[w]] = "null"]
          /\ chargeTxs' = [chargeTxs EXCEPT ![arg[w]] = charge[w]]
          /\ webhooks' = [webhooks EXCEPT ![arg[w]] = @ + 1]
      BY <1>6, Names DEF Commit, Publish, NoteOf
    <2>2. webhooks' = [webhooks EXCEPT ![arg[w]] = 1]
      <3>1. webhooks[arg[w]] = 0
        BY <1>2, <1>6, Names
      <3> QED BY <2>1, <3>1
    <2> QED BY <1>2, <1>3, <1>6, <2>1, <2>2, Names DEF CommitsCredit
  <1> QED BY <1>4, <1>5, <1>6 DEF Commit, LedgerInv, RowsFollowSteps

LEMMA CommitInv ==
  ASSUME LedgerInv, NEW w \in Workers, Commit(w) PROVE LedgerInv'
  <1> USE DEF LedgerInv
  <1> DEFINE decided == \/ CommitsNothing(w)
                        \/ CommitsRejection(w)
                        \/ CommitsCredit(w)
  <1>1. /\ arg[w] \in TxIds /\ charge[w] \in Nat
        /\ "null" \in Notes /\ "no associated charge" \in Notes
        /\ "null" # "no associated charge"
        /\ "null" # Absent /\ "no associated charge" # Absent
    BY DEF Commit, TypeOK, Notes, Absent
  <1>2. /\ UNCHANGED <<charges, memoSeq, arg>>
        /\ pc' = [pc EXCEPT ![w] = "returned"] \/ pc' = [pc EXCEPT ![w] = "threw"]
        /\ charge' = [charge EXCEPT ![w] = NoCharge]
        /\ inserted' = [inserted EXCEPT ![w] = {}]
        /\ locked' = [locked EXCEPT ![w] = {}]
    BY DEF Commit, Goto, Release
  <1>3. decided
    BY CommitCases
  <1>4. /\ processed' \in [TxIds -> Notes \cup {Absent}]
        /\ chargeTxs' \in [TxIds -> Nat]
        /\ webhooks' \in [TxIds -> Nat]
    <2> USE <1>1 DEF TypeOK
    <2>1. CASE CommitsNothing(w)
      BY <2>1 DEF CommitsNothing
    <2>2. CASE CommitsRejection(w)
      BY <2>2 DEF CommitsRejection
    <2>3. CASE CommitsCredit(w)
      BY <2>3 DEF CommitsCredit
    <2> QED BY <1>3, <2>1, <2>2, <2>3
  <1>5. TypeOK'
    <2>1. /\ charge' \in [Workers -> Nat]
          /\ inserted' \in [Workers -> SUBSET Tables]
          /\ locked' \in [Workers -> SUBSET Tables]
      BY <1>2, Names DEF TypeOK
    <2>2. pc' \in [Workers -> Steps]
      BY <1>1, <1>2, Names DEF TypeOK
    <2>3. ASSUME NEW v \in Workers, pc'[v] # "idle"
          PROVE  arg'[v] \in TxIds
      <3>1. pc[w] # "idle"
        BY DEF Commit
      <3>2. pc[v] # "idle"
        BY <1>2, <2>3, <3>1 DEF TypeOK
      <3> QED BY <1>2, <3>2 DEF TypeOK
    <2> QED BY <1>2, <1>4, <2>1, <2>2, <2>3 DEF TypeOK
  <1>6. AnnouncedExactlyOnce'
    BY <1>1, <1>2, <1>3 DEF AnnouncedExactlyOnce, Credited, TypeOK,
       CommitsNothing, CommitsRejection, CommitsCredit
  <1>7. CreditAgreesWithNote'
    BY <1>1, <1>2, <1>3 DEF CreditAgreesWithNote, Credited, TypeOK,
       CommitsNothing, CommitsRejection, CommitsCredit
  <1>8. PendingRowsAreUnique'
    <2>1. ASSUME NEW v \in Workers, v # w, arg[v] = arg[w],
                 \/ "processed_transaction" \in inserted[v]
                 \/ "charge_transaction" \in inserted[v]
          PROVE  ~CommitsCredit(w)
      BY <2>1, Names DEF PendingRowsAreUnique, MustWait, CommitsCredit
    <2>2. ASSUME NEW v \in Workers, v # w, arg[v] = arg[w],
                 "processed_transaction" \in inserted[v]
          PROVE  CommitsNothing(w)
      BY <1>3, <2>1, <2>2 DEF PendingRowsAreUnique, MustWait, CommitsRejection
    <2>3. \A v, u \in Workers :
            /\ arg'[v] = arg[v]
            /\ inserted'[v] = IF v = w THEN {} ELSE inserted[v]
      BY <1>2 DEF TypeOK
    <2> HIDE DEF decided
    <2>4. ASSUME NEW v \in Workers, inserted[v] # {}
          PROVE  arg[v] \in TxIds
      BY <2>4, Names DEF RowsFollowSteps, TypeOK
    <2>5. ASSUME NEW v \in Workers, "processed_transaction" \in inserted'[v]
          PROVE  /\ processed'[arg'[v]] = Absent
                 /\ \A u \in Workers \ {v} : arg'[u] = arg'[v] =>
                      "processed_transaction" \notin inserted'[u]
      <3>1. v # w /\ "processed_transaction" \in inserted[v]
        BY <2>3, <2>5
      <3>2. processed[arg[v]] = Absent
        BY <3>1 DEF PendingRowsAreUnique
      <3>3. arg[v] \in TxIds
        BY <2>4, <3>1
      <3>4. processed'[arg[v]] = processed[arg[v]]
        <4>1. CASE arg[v] # arg[w]
          BY <1>1, <1>3, <3>3, <4>1
             DEF decided, CommitsNothing, CommitsRejection, CommitsCredit, TypeOK
        <4>2. CASE arg[v] = arg[w]
          BY <1>3, <2>2, <3>1, <4>2
             DEF decided, CommitsNothing, CommitsRejection
        <4> QED BY <4>1, <4>2
      <3> QED BY <2>3, <3>1, <3>2, <3>4 DEF PendingRowsAreUnique, MustWait
    <2>6. ASSUME NEW v \in Workers, "charge_transaction" \in inserted'[v]
          PROVE  /\ chargeTxs'[arg'[v]] = NoCharge
                 /\ \A u \in Workers \ {v} : arg'[u] = arg'[v] =>
                      "charge_transaction" \notin inserted'[u]
      <3>1. v # w /\ "charge_transaction" \in inserted[v]
        BY <2>3, <2>6
      <3>2. chargeTxs[arg[v]] = NoCharge
        BY <3>1 DEF PendingRowsAreUnique
      <3>3. arg[v] \in TxIds
        BY <2>4, <3>1
      <3>4. chargeTxs'[arg[v]] = chargeTxs[arg[v]]
        <4>1. CASE arg[v] # arg[w]
          BY <1>1, <1>3, <3>3, <4>1
             DEF decided, CommitsNothing, CommitsRejection, CommitsCredit, TypeOK
        <4>2. CASE arg[v] = arg[w]
          BY <1>3, <2>1, <3>1, <4>2
             DEF decided, CommitsNothing, CommitsRejection
        <4> QED BY <4>1, <4>2
      <3> QED BY <2>3, <3>1, <3>2, <3>4 DEF PendingRowsAreUnique, MustWait
    <2> QED BY <2>5, <2>6 DEF PendingRowsAreUnique, MustWait
  <1>9. RowsFollowSteps'
    <2>1. ASSUME NEW t \in TxIds
          PROVE  /\ processed[t] # Absent => processed'[t] # Absent
                 /\ chargeTxs[t] # NoCharge => chargeTxs'[t] # NoCharge
      BY <1>1, <1>3, <2>1
         DEF CommitsNothing, CommitsRejection, CommitsCredit, TypeOK
    <2>2. ASSUME NEW v \in Workers, v # w
          PROVE  /\ pc'[v] = pc[v] /\ arg'[v] = arg[v] /\ charge'[v] = charge[v]
                 /\ inserted'[v] = inserted[v] /\ locked'[v] = locked[v]
      BY <1>2, <2>2 DEF TypeOK
    <2>3. /\ pc'[w] \in {"returned", "threw"} /\ charge'[w] = NoCharge
          /\ inserted'[w] = {} /\ locked'[w] = {} /\ charges' = charges
      BY <1>2 DEF TypeOK
    <2>4. \A v \in Workers : pc[v] \in {"insertDuplicate", "commit"} =>
            arg[v] \in TxIds
      BY DEF TypeOK
    <2> QED BY <2>1, <2>2, <2>3, <2>4, Names DEF RowsFollowSteps, Credited
  <1>10. ReturnMeansDecided'
    <2>1. processed'[arg[w]] # Absent
      BY <1>1, <1>3 DEF CommitsNothing, CommitsRejection, CommitsCredit, TypeOK
    <2>2. ASSUME NEW t \in TxIds, processed[t] # Absent
          PROVE  processed'[t] # Absent
      BY <1>1, <1>3, <2>2
         DEF CommitsNothing, CommitsRejection, CommitsCredit, TypeOK
    <2> QED BY <1>2, <2>1, <2>2 DEF ReturnMeansDecided, TypeOK
  <1> QED BY <1>5, <1>6, <1>7, <1>8, <1>9, <1>10

LEMMA NextInv ==
  ASSUME LedgerInv, [Next]_vars PROVE LedgerInv'
  <1>1. CASE Create
    BY <1>1, CreateInv
  <1>2. ASSUME NEW w \in Workers, NEW t \in TxIds, Process(w, t) \/ Mark(w, t)
        PROVE  LedgerInv'
    BY <1>2, ProcessInv, MarkInv
  <1>3. ASSUME NEW w \in Workers, Step(w) PROVE LedgerInv'
    BY <1>3, CheckProcessedInv, FindChargeInv, InsertUnmatchedInv, FindTxInv,
       InsertDuplicateInv, InsertTxInv, InsertProcessedInv, InsertWebhookInv,
       CommitInv, MarkInsertInv, ReturnInv DEF Step
  <1>4. ASSUME NEW w \in Workers, Fail(w) \/ MarkFail(w) PROVE LedgerInv'
    BY <1>4, RollbackInv, MarkFailInv DEF Fail
  <1>5. CASE Crash
    BY <1>5, CrashInv
  <1>6. CASE UNCHANGED vars
    BY <1>6 DEF vars, LedgerInv, TypeOK, AnnouncedExactlyOnce, Credited,
       CreditAgreesWithNote, PendingRowsAreUnique, MustWait, RowsFollowSteps,
       ReturnMeansDecided
  <1> QED BY <1>1, <1>2, <1>3, <1>4, <1>5, <1>6 DEF Next

\* The three tables agree and every call that returns has decided its
\* transaction: the statements of process() and markAsProcessed keep the
\* invariant, in any interleaving, failing or crashing anywhere.
THEOREM Safety == Spec => []LedgerInv
  BY InitInv, NextInv, PTL DEF Spec

\* A credited payment has one webhook and no other transaction has any
\* (charge.service.ts inserts the webhook on the transaction's own manager).
THEOREM Announcement == Spec => []AnnouncedExactlyOnce
  <1>1. LedgerInv => AnnouncedExactlyOnce
    BY DEF LedgerInv
  <1> QED BY <1>1, Safety, PTL

\* A payment is credited, and to the charge its memo names, if and only if its
\* processed_transaction row has the null note.
THEOREM Agreement == Spec => []CreditAgreesWithNote
  <1>1. LedgerInv => CreditAgreesWithNote
    BY DEF LedgerInv
  <1> QED BY <1>1, Safety, PTL

\* process() and markAsProcessed return only once the transaction is decided.
THEOREM Decision == Spec => []ReturnMeansDecided
  <1>1. LedgerInv => ReturnMeansDecided
    BY DEF LedgerInv
  <1> QED BY <1>1, Safety, PTL

\* WaitsFor is what the statements wait on: none runs while its worker waits.
LEMMA OnlyUnblockedRun ==
  ASSUME NEW w \in Workers, Step(w) PROVE \A v \in Workers : ~WaitsFor(w, v)
  BY DEF Step, WaitsFor, CheckProcessed, FindCharge, InsertUnmatched, FindTx,
     InsertDuplicate, InsertTx, InsertProcessed, InsertProcessedRow, InsertWebhook,
     Commit, MarkInsert, Return, MustWait, RowLocked

\* Who has a processed_transaction row pending, or holds a row lock, waits for
\* nobody: what it still has to insert is in no unique index, or is committed.
LEMMA HoldersWaitForNobody ==
  ASSUME LedgerInv, NEW v \in Workers,
         "processed_transaction" \in inserted[v] \/ locked[v] # {}
  PROVE  \A u \in Workers : ~WaitsFor(v, u)
  <1>1. pc[v] \in {"insertWebhook", "insertDuplicate", "commit"}
    BY DEF LedgerInv, RowsFollowSteps
  <1>2. ASSUME pc[v] = "insertDuplicate", NEW u \in Workers, arg[u] = arg[v]
        PROVE  "processed_transaction" \notin inserted[u]
    <2>1. arg[v] \in TxIds /\ Credited(arg[v])
      BY <1>2 DEF LedgerInv, TypeOK, RowsFollowSteps
    <2>2. processed[arg[v]] # Absent
      BY <2>1 DEF LedgerInv, CreditAgreesWithNote, Absent
    <2> QED BY <1>2, <2>2 DEF LedgerInv, PendingRowsAreUnique
  <1> QED BY <1>1, <1>2 DEF WaitsFor

\* A charge_transaction row is pending only from its insert to the commit, and
\* who has one waits for nobody but the holder of a processed_transaction row.
LEMMA ChargeTxHolders ==
  ASSUME LedgerInv, NEW v \in Workers, NEW u \in Workers,
         "charge_transaction" \in inserted[v], WaitsFor(v, u)
  PROVE  "processed_transaction" \in inserted[u]
  <1>1. pc[v] \in {"insertProcessed", "insertWebhook", "commit"}
    BY DEF LedgerInv, RowsFollowSteps
  <1> QED BY <1>1 DEF WaitsFor

\* Any number of concurrent calls of process() and markAsProcessed never
\* deadlocks: a chain of waiting workers has at most three of them, whose last
\* has its processed_transaction row inserted or holds a row lock.
THEOREM DeadlockFreedom == Spec => []NoDeadlock
  <1>1. ASSUME LedgerInv, NEW S \in SUBSET Workers, S # {}
        PROVE  \E w \in S : \A v \in S : ~WaitsFor(w, v)
    <2>1. SUFFICES ASSUME \A w \in S : \E v \in S : WaitsFor(w, v) PROVE FALSE
      OBVIOUS
    <2>2. ASSUME NEW v \in S
          PROVE  "processed_transaction" \notin inserted[v] /\ locked[v] = {}
      BY <1>1, <2>1, HoldersWaitForNobody
    <2>3. ASSUME NEW v \in S PROVE "charge_transaction" \notin inserted[v]
      BY <1>1, <2>1, <2>2, ChargeTxHolders
    <2>4. \A w, v \in S : ~WaitsFor(w, v)
      BY <2>2, <2>3 DEF WaitsFor
    <2> QED BY <1>1, <2>1, <2>4
  <1>2. LedgerInv => NoDeadlock
    BY <1>1 DEF NoDeadlock
  <1> QED BY <1>2, Safety, PTL

\* Only two statements change what is committed about a transaction: a COMMIT
\* and the single insert of markAsProcessed.
LEMMA OnlyCommitsPublish ==
  ASSUME [Next]_vars
  PROVE  \/ UNCHANGED <<processed, chargeTxs, webhooks>>
         \/ \E w \in Workers : Commit(w) \/ MarkInsert(w)
  BY DEF Next, vars, Create, Process, Mark, Step, Fail, MarkFail, Crash, Return,
     CheckProcessed, FindCharge, InsertUnmatched, InsertDuplicate,
     InsertProcessed, InsertProcessedRow, FindTx, InsertTx, InsertWebhook,
     Insert, Rollback, tables

\* Each step decides at most one transaction, one that was undecided, and either
\* credits it with its webhook or notes it.
LEMMA StepDecidesOne ==
  ASSUME LedgerInv, [Next]_vars
  PROVE  \/ UNCHANGED <<processed, chargeTxs, webhooks>>
         \/ \E t \in TxIds :
              /\ processed[t] = Absent /\ chargeTxs[t] = NoCharge
              /\ \/ /\ \E note \in {"no associated charge", "rejected"} :
                         processed' = [processed EXCEPT ![t] = note]
                    /\ UNCHANGED <<chargeTxs, webhooks>>
                 \/ /\ processed' = [processed EXCEPT ![t] = "null"]
                    /\ \E memo \in Nat \ {NoCharge} :
                         chargeTxs' = [chargeTxs EXCEPT ![t] = memo]
                    /\ webhooks[t] = 0
                    /\ webhooks' = [webhooks EXCEPT ![t] = 1]
  <1>1. ASSUME NEW w \in Workers, MarkInsert(w),
               ~UNCHANGED <<processed, chargeTxs, webhooks>>
        PROVE  /\ arg[w] \in TxIds
               /\ processed[arg[w]] = Absent /\ chargeTxs[arg[w]] = NoCharge
               /\ processed' = [processed EXCEPT ![arg[w]] = "rejected"]
               /\ UNCHANGED <<chargeTxs, webhooks>>
    <2>1. arg[w] \in TxIds
      BY <1>1 DEF MarkInsert, LedgerInv, TypeOK
    <2>2. /\ processed[arg[w]] = Absent
          /\ processed' = [processed EXCEPT ![arg[w]] = "rejected"]
          /\ UNCHANGED <<chargeTxs, webhooks>>
      BY <1>1 DEF MarkInsert
    <2> QED BY <2>1, <2>2 DEF LedgerInv, CreditAgreesWithNote, Credited, Absent
  <1>2. ASSUME NEW w \in Workers, Commit(w)
        PROVE  /\ arg[w] \in TxIds /\ charge[w] \in Nat
               /\ CommitsNothing(w) \/ CommitsRejection(w) \/ CommitsCredit(w)
    BY <1>2, CommitCases DEF Commit, LedgerInv, TypeOK
  <1>3. ASSUME NEW w \in Workers, Commit(w),
               ~UNCHANGED <<processed, chargeTxs, webhooks>>
        PROVE  \E t \in TxIds :
                 /\ processed[t] = Absent /\ chargeTxs[t] = NoCharge
                 /\ \/ /\ \E note \in {"no associated charge", "rejected"} :
                            processed' = [processed EXCEPT ![t] = note]
                       /\ UNCHANGED <<chargeTxs, webhooks>>
                    \/ /\ processed' = [processed EXCEPT ![t] = "null"]
                       /\ \E memo \in Nat \ {NoCharge} :
                            chargeTxs' = [chargeTxs EXCEPT ![t] = memo]
                       /\ webhooks[t] = 0
                       /\ webhooks' = [webhooks EXCEPT ![t] = 1]
    BY <1>2, <1>3 DEF CommitsNothing, CommitsRejection, CommitsCredit
  <1> QED BY <1>1, <1>3, OnlyCommitsPublish

\* A decided transaction never changes: neither its note, nor its credit, nor
\* the number of its webhooks.
THEOREM Finality == Spec => DecisionIsFinal
  <1>1. ASSUME LedgerInv, [Next]_vars, NEW t \in TxIds, processed[t] # Absent
        PROVE  /\ processed'[t] = processed[t]
               /\ chargeTxs'[t] = chargeTxs[t]
               /\ webhooks'[t] = webhooks[t]
    BY <1>1, StepDecidesOne DEF LedgerInv, TypeOK
  <1>2. LedgerInv /\ [Next]_vars =>
          [\A t \in TxIds : processed[t] # Absent =>
             /\ processed'[t] = processed[t]
             /\ chargeTxs'[t] = chargeTxs[t]
             /\ webhooks'[t] = webhooks[t]]_vars
    BY <1>1
  <1> QED BY <1>2, Safety, PTL DEF Spec, DecisionIsFinal

\* The interleaved, failing statements implement the ledger that decides each
\* transaction in one atomic step.
THEOREM Refinement == Spec => ImplementsLedger
  <1>1. Init => Ledger!Init
    BY DEF Init, Ledger!Init, Verdict, Credited
  <1>2. ASSUME LedgerInv, [Next]_vars PROVE [Ledger!Next]_(Ledger!ledgerVars)
    <2>1. CASE UNCHANGED <<processed, chargeTxs, webhooks>>
      BY <2>1 DEF Verdict, Credited, Ledger!ledgerVars
    <2>2. ASSUME NEW t \in TxIds, NEW note \in {"no associated charge", "rejected"},
                 processed[t] = Absent, chargeTxs[t] = NoCharge,
                 processed' = [processed EXCEPT ![t] = note],
                 UNCHANGED <<chargeTxs, webhooks>>
          PROVE  Ledger!Reject(t)
      <3>1. Verdict' = [Verdict EXCEPT ![t] = "rejected"]
        BY <1>2, <2>2 DEF Verdict, Credited, LedgerInv, TypeOK, Absent
      <3>2. Verdict[t] = "open"
        BY <2>2 DEF Verdict, Credited
      <3> QED BY <2>2, <3>1, <3>2 DEF Ledger!Reject
    <2>3. ASSUME NEW t \in TxIds, NEW memo \in Nat \ {NoCharge},
                 processed[t] = Absent, chargeTxs[t] = NoCharge,
                 processed' = [processed EXCEPT ![t] = "null"],
                 chargeTxs' = [chargeTxs EXCEPT ![t] = memo],
                 webhooks[t] = 0,
                 webhooks' = [webhooks EXCEPT ![t] = 1]
          PROVE  Ledger!Credit(t)
      <3>1. Verdict' = [Verdict EXCEPT ![t] = "credited"]
        BY <1>2, <2>3 DEF Verdict, Credited, LedgerInv, TypeOK
      <3>2. Verdict[t] = "open"
        BY <2>3 DEF Verdict, Credited
      <3>3. webhooks' = [webhooks EXCEPT ![t] = webhooks[t] + 1]
        BY <2>3
      <3> QED BY <3>1, <3>2, <3>3 DEF Ledger!Credit
    <2> QED BY <1>2, <2>1, <2>2, <2>3, StepDecidesOne DEF Ledger!Next
  <1> QED BY <1>1, <1>2, Safety, PTL DEF Spec, Ledger!Spec, ImplementsLedger
=============================================================================
