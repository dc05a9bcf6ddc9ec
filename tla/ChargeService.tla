---------------------------- MODULE ChargeService ----------------------------
(***************************************************************************)
(* src/gateway/charge/charge.service.ts and the tables it shares with the  *)
(* daemons.  A worker is one flow of control that calls ChargeService.     *)
(* process or TONDaemon.markAsProcessed over its own pooled connection:    *)
(* the three daemons of one backend, or the daemons of two backends on one *)
(* database.  One action is one SQL statement of the READ COMMITTED        *)
(* transaction, so the statements of different workers interleave; what a  *)
(* worker inserted stays invisible to the others until its COMMIT, except  *)
(* to the unique indexes, on which a second insert of the same txid waits. *)
(***************************************************************************)
EXTENDS Naturals

CONSTANTS
  Workers,    \* concurrent callers
  TxIds,      \* transaction hashes
  NoTx,       \* "no transaction": the argument of an idle worker
  MemoOf,     \* [TxIds -> Nat]: the memo in the transaction's comment
  AmountOf,   \* [TxIds -> Nat]: the coins it carries; 0 is a legal transfer
  MaxMemo,    \* bound: how often the memo sequence is drawn from
  MaxBigint   \* the largest value of a Postgres bigint

ASSUME NoTxAssumption == NoTx \notin TxIds
ASSUME PaymentAssumption == MemoOf \in [TxIds -> Nat] /\ AmountOf \in [TxIds -> Nat]
ASSUME BoundAssumption == MaxMemo \in Nat /\ MaxBigint \in Nat

VARIABLES
  \* Committed rows.
  charges,    \* memos of the rows of "charge"; the sequence starts at 1
  memoSeq,    \* last value drawn from the memo sequence
  processed,  \* [TxIds -> notes of "processed_transaction", or Absent]
  chargeTxs,  \* [TxIds -> charge of its "charge_transaction" row, or NoCharge]
  webhooks,   \* [TxIds -> number of "webhook" rows announcing it]
  \* Connections.
  pc,         \* [Workers -> the statement to run next]
  arg,        \* [Workers -> the txid of the call]
  charge,     \* [Workers -> the charge findOne returned, or NoCharge]
  inserted,   \* [Workers -> tables it holds an uncommitted row of]
  locked      \* [Workers -> tables it holds a FOR UPDATE row lock in]

tables == <<charges, memoSeq, processed, chargeTxs, webhooks>>
conns == <<pc, arg, charge, inserted, locked>>
vars == <<charges, memoSeq, processed, chargeTxs, webhooks,
          pc, arg, charge, inserted, locked>>

Absent == "absent"
NoCharge == 0

\* The notes that matter: the null note of process(), its "no associated
\* charge", and any note a daemon gives through markAsProcessed.
Notes == {"null", "no associated charge", "rejected"}

Tables == {"processed_transaction", "charge_transaction", "webhook"}

\* Statements of process() that run inside its database transaction.
TxSteps == {"checkProcessed", "findCharge", "insertUnmatched", "findTx",
            "insertDuplicate", "insertTx", "insertProcessed",
            "insertWebhook", "commit"}

Steps == TxSteps \cup {"idle", "mark", "returned", "threw"}

TypeOK ==
  /\ charges \subseteq 1..memoSeq
  /\ memoSeq \in 0..MaxMemo
  /\ processed \in [TxIds -> Notes \cup {Absent}]
  /\ chargeTxs \in [TxIds -> Nat]
  /\ webhooks \in [TxIds -> Nat]
  /\ pc \in [Workers -> Steps]
  /\ arg \in [Workers -> TxIds \cup {NoTx}]
  /\ charge \in [Workers -> Nat]
  /\ inserted \in [Workers -> SUBSET Tables]
  /\ locked \in [Workers -> SUBSET Tables]
  /\ \A w \in Workers : pc[w] # "idle" => arg[w] \in TxIds

\* The tables as the migration creates them, and no call under way.
Init ==
  /\ charges = {}
  /\ memoSeq = 0
  /\ processed = [t \in TxIds |-> Absent]
  /\ chargeTxs = [t \in TxIds |-> NoCharge]
  /\ webhooks = [t \in TxIds |-> 0]
  /\ pc = [w \in Workers |-> "idle"]
  /\ arg = [w \in Workers |-> NoTx]
  /\ charge = [w \in Workers |-> NoCharge]
  /\ inserted = [w \in Workers |-> {}]
  /\ locked = [w \in Workers |-> {}]

-----------------------------------------------------------------------------
\* Connections

Goto(w, step) == pc' = [pc EXCEPT ![w] = step]

\* Mutant of MustWait: the unique index lets a second insert through.
NeverWaits(w, table) == FALSE

\* Another worker's uncommitted row has w's txid: w's insert waits for it.
MustWait(w, table) ==
  \E v \in Workers \ {w} : arg[v] = arg[w] /\ table \in inserted[v]

\* Another worker holds FOR UPDATE on the row of w's txid.
RowLocked(w, table) ==
  \E v \in Workers \ {w} : arg[v] = arg[w] /\ table \in locked[v]

\* A row of the table is inserted, uncommitted, and the next statement follows.
Insert(w, table, next) ==
  /\ inserted' = [inserted EXCEPT ![w] = @ \cup {table}]
  /\ Goto(w, next)
  /\ UNCHANGED <<tables, arg, charge, locked>>

Lock(w, table) == locked' = [locked EXCEPT ![w] = @ \cup {table}]

\* The connection goes back to the pool with no rows and no locks.
Release(w) ==
  /\ charge' = [charge EXCEPT ![w] = NoCharge]
  /\ inserted' = [inserted EXCEPT ![w] = {}]
  /\ locked' = [locked EXCEPT ![w] = {}]

\* Mutant of Rollback: the transaction is retried until it succeeds.
RetryForever(w) ==
  /\ Goto(w, "checkProcessed")
  /\ Release(w)
  /\ UNCHANGED <<tables, arg>>

\* Mutant of Rollback: the connection is pooled in the middle of its transaction.
RollbackKeepsRows(w) ==
  /\ Goto(w, "threw")
  /\ charge' = [charge EXCEPT ![w] = NoCharge]
  /\ UNCHANGED <<tables, arg, inserted, locked>>

\* ROLLBACK, and the error reaches the caller.
Rollback(w) ==
  /\ Goto(w, "threw")
  /\ Release(w)
  /\ UNCHANGED <<tables, arg>>

-----------------------------------------------------------------------------
\* ChargeService.create

\* One INSERT in its own transaction.  The statement may fail after it drew a
\* memo (the payload's 255 characters, a lost connection): sequences are not
\* rolled back, so the memo is spent.
Create ==
  /\ memoSeq < MaxMemo
  /\ memoSeq' = memoSeq + 1
  /\ \/ charges' = charges \cup {memoSeq'}
     \/ UNCHANGED charges
  /\ UNCHANGED <<processed, chargeTxs, webhooks, conns>>

-----------------------------------------------------------------------------
\* ChargeService.process

\* The zod schema: amount and memo are positive.
ValidParams(t) == AmountOf[t] > 0 /\ MemoOf[t] > 0

Process(w, t) ==
  /\ pc[w] = "idle"
  /\ arg' = [arg EXCEPT ![w] = t]
  /\ Goto(w, IF ValidParams(t) THEN "checkProcessed" ELSE "threw")
  /\ UNCHANGED <<tables, charge, inserted, locked>>

\* SELECT EXISTS (... FOR UPDATE): the committed row of the txid, if there is
\* one, is locked and the call returns; a row not yet committed is not seen.
CheckProcessed(w) ==
  /\ pc[w] = "checkProcessed"
  /\ \/ /\ processed[arg[w]] = Absent
        /\ Goto(w, "findCharge")
        /\ UNCHANGED locked
     \/ /\ processed[arg[w]] # Absent
        /\ ~RowLocked(w, "processed_transaction")
        /\ Lock(w, "processed_transaction")
        /\ Goto(w, "commit")
  /\ UNCHANGED <<tables, arg, charge, inserted>>

\* A memo beyond the bigint range is an error of the query, not a miss.
FindCharge(w) ==
  /\ pc[w] = "findCharge"
  /\ \/ /\ MemoOf[arg[w]] > MaxBigint
        /\ Rollback(w)
     \/ /\ MemoOf[arg[w]] \in charges
        /\ MemoOf[arg[w]] <= MaxBigint
        /\ charge' = [charge EXCEPT ![w] = MemoOf[arg[w]]]
        /\ Goto(w, "findTx")
        /\ UNCHANGED <<tables, arg, inserted, locked>>
     \/ /\ MemoOf[arg[w]] \notin charges
        /\ MemoOf[arg[w]] <= MaxBigint
        /\ Goto(w, "insertUnmatched")
        /\ UNCHANGED <<tables, arg, charge, inserted, locked>>

\* Mutant of InsertProcessedRow: INSERT ... ON CONFLICT DO NOTHING.
InsertOrIgnore(w, next) ==
  /\ ~MustWait(w, "processed_transaction")
  /\ \/ /\ processed[arg[w]] # Absent
        /\ Goto(w, next)
        /\ UNCHANGED <<tables, arg, charge, inserted, locked>>
     \/ /\ processed[arg[w]] = Absent
        /\ Insert(w, "processed_transaction", next)

\* Mutant of InsertProcessedRow: INSERT ... ON CONFLICT DO UPDATE.
InsertOrUpdate(w, next) ==
  /\ ~MustWait(w, "processed_transaction")
  /\ Insert(w, "processed_transaction", next)

\* INSERT INTO processed_transaction, whose txid is unique.
InsertProcessedRow(w, next) ==
  /\ ~MustWait(w, "processed_transaction")
  /\ \/ /\ processed[arg[w]] # Absent
        /\ Rollback(w)
     \/ /\ processed[arg[w]] = Absent
        /\ Insert(w, "processed_transaction", next)

\* Mutant of InsertUnmatched: return without noting the transaction.
LeaveUnmatched(w) ==
  /\ pc[w] = "insertUnmatched"
  /\ Goto(w, "commit")
  /\ UNCHANGED <<tables, arg, charge, inserted, locked>>

\* note: "no associated charge"
InsertUnmatched(w) ==
  /\ pc[w] = "insertUnmatched"
  /\ InsertProcessedRow(w, "commit")

\* SELECT ... FOR UPDATE on the charge_transaction of the txid.
FindTx(w) ==
  /\ pc[w] = "findTx"
  /\ \/ /\ chargeTxs[arg[w]] = NoCharge
        /\ Goto(w, "insertTx")
        /\ UNCHANGED locked
     \/ /\ chargeTxs[arg[w]] # NoCharge
        /\ ~RowLocked(w, "charge_transaction")
        /\ Lock(w, "charge_transaction")
        /\ Goto(w, "insertDuplicate")
  /\ UNCHANGED <<tables, arg, charge, inserted>>

\* The transaction already has its row: only note it, with a null note.
InsertDuplicate(w) ==
  /\ pc[w] = "insertDuplicate"
  /\ InsertProcessedRow(w, "commit")

\* INSERT INTO charge_transaction, whose txid is unique too.
InsertTx(w) ==
  /\ pc[w] = "insertTx"
  /\ ~MustWait(w, "charge_transaction")
  /\ \/ /\ chargeTxs[arg[w]] # NoCharge
        /\ Rollback(w)
     \/ /\ chargeTxs[arg[w]] = NoCharge
        /\ Insert(w, "charge_transaction", "insertProcessed")

InsertProcessed(w) ==
  /\ pc[w] = "insertProcessed"
  /\ InsertProcessedRow(w, "insertWebhook")

\* WebhookService.create, on the manager of this transaction.
InsertWebhook(w) ==
  /\ pc[w] = "insertWebhook"
  /\ Insert(w, "webhook", "commit")

\* The note w's row carries: null once a charge was found.
NoteOf(w) == IF charge[w] = NoCharge THEN "no associated charge" ELSE "null"

\* Mutant of Publish: the webhook goes out although nothing was credited.
PublishAlways(w) ==
  /\ processed' = IF "processed_transaction" \in inserted[w]
                    THEN [processed EXCEPT ![arg[w]] = NoteOf(w)] ELSE processed
  /\ chargeTxs' = IF "charge_transaction" \in inserted[w]
                    THEN [chargeTxs EXCEPT ![arg[w]] = charge[w]] ELSE chargeTxs
  /\ webhooks' = [webhooks EXCEPT ![arg[w]] = @ + 1]

\* Every row w inserted becomes visible at once.
Publish(w) ==
  /\ processed' = IF "processed_transaction" \in inserted[w]
                    THEN [processed EXCEPT ![arg[w]] = NoteOf(w)] ELSE processed
  /\ chargeTxs' = IF "charge_transaction" \in inserted[w]
                    THEN [chargeTxs EXCEPT ![arg[w]] = charge[w]] ELSE chargeTxs
  /\ webhooks' = IF "webhook" \in inserted[w]
                   THEN [webhooks EXCEPT ![arg[w]] = @ + 1] ELSE webhooks

\* COMMIT.  Its acknowledgement may be lost: the rows stay, the caller sees an
\* error.
Commit(w) ==
  /\ pc[w] = "commit"
  /\ Publish(w)
  /\ Release(w)
  /\ \/ Goto(w, "returned")
     \/ Goto(w, "threw")
  /\ UNCHANGED <<charges, memoSeq, arg>>

\* A statement fails (connection lost, server restarted): nothing is kept.
Fail(w) ==
  /\ pc[w] \in TxSteps
  /\ Rollback(w)

-----------------------------------------------------------------------------
\* TONDaemon.markAsProcessed

Mark(w, t) ==
  /\ pc[w] = "idle"
  /\ arg' = [arg EXCEPT ![w] = t]
  /\ Goto(w, "mark")
  /\ UNCHANGED <<tables, charge, inserted, locked>>

\* One autocommitted INSERT: done, done without the caller learning of it, or
\* refused because the txid has a row.
MarkInsert(w) ==
  /\ pc[w] = "mark"
  /\ ~MustWait(w, "processed_transaction")
  /\ \/ /\ processed[arg[w]] # Absent
        /\ Goto(w, "threw")
        /\ UNCHANGED processed
     \/ /\ processed[arg[w]] = Absent
        /\ processed' = [processed EXCEPT ![arg[w]] = "rejected"]
        /\ \/ Goto(w, "returned")
           \/ Goto(w, "threw")
  /\ UNCHANGED <<charges, memoSeq, chargeTxs, webhooks,
                 arg, charge, inserted, locked>>

MarkFail(w) ==
  /\ pc[w] = "mark"
  /\ Goto(w, "threw")
  /\ UNCHANGED <<tables, arg, charge, inserted, locked>>

-----------------------------------------------------------------------------
\* The caller takes the result and is free for another call.
Return(w) ==
  /\ pc[w] \in {"returned", "threw"}
  /\ Goto(w, "idle")
  /\ arg' = [arg EXCEPT ![w] = NoTx]
  /\ UNCHANGED <<tables, charge, inserted, locked>>

\* The backend dies (docker restarts it): the server rolls every connection
\* back; the committed rows, and what the sequence has spent, stay.
Crash ==
  /\ pc' = [w \in Workers |-> "idle"]
  /\ arg' = [w \in Workers |-> NoTx]
  /\ charge' = [w \in Workers |-> NoCharge]
  /\ inserted' = [w \in Workers |-> {}]
  /\ locked' = [w \in Workers |-> {}]
  /\ UNCHANGED tables

\* The next statement of the call w is in.
Step(w) ==
  \/ CheckProcessed(w) \/ FindCharge(w) \/ InsertUnmatched(w)
  \/ FindTx(w) \/ InsertDuplicate(w) \/ InsertTx(w) \/ InsertProcessed(w)
  \/ InsertWebhook(w) \/ Commit(w) \/ MarkInsert(w) \/ Return(w)

Next ==
  \/ Create
  \/ \E w \in Workers, t \in TxIds : Process(w, t) \/ Mark(w, t)
  \/ \E w \in Workers : Step(w) \/ Fail(w) \/ MarkFail(w)
  \/ Crash

Spec == Init /\ [][Next]_vars

\* The database answers, and serves the waiters of a lock in turn: a statement
\* that can run again and again is eventually run.
FairSpec == Spec /\ \A w \in Workers : SF_vars(Step(w))

-----------------------------------------------------------------------------
\* Properties

Credited(t) == chargeTxs[t] # NoCharge

\* A credited payment has exactly one webhook and a transaction that was not
\* credited has none, whatever the callers of process() do concurrently: the
\* webhook table has no unique index, only the transaction keeps it in step.
AnnouncedExactlyOnce ==
  \A t \in TxIds : webhooks[t] = IF Credited(t) THEN 1 ELSE 0

\* A payment is credited if and only if its processed_transaction row has the
\* null note, and then it is credited to an existing charge, the one with the
\* payment's memo: no note of a daemon stands next to a credit.  And a payment is
\* said to have no charge only after the charges were searched for its memo: a
\* query that fails, as it does on a memo beyond bigint, is not taken for a miss.
CreditAgreesWithNote ==
  \A t \in TxIds :
    /\ Credited(t) <=> processed[t] = "null"
    /\ Credited(t) => chargeTxs[t] = MemoOf[t] /\ MemoOf[t] \in charges
    /\ processed[t] = "no associated charge" => MemoOf[t] <= MaxBigint

\* A call that returns normally leaves its transaction decided: the daemon that
\* goes on to the next transaction leaves none behind.
ReturnMeansDecided ==
  \A w \in Workers : pc[w] = "returned" => processed[arg[w]] # Absent

\* The next statement of w has to wait until v commits or rolls back.
WaitsFor(w, v) ==
  /\ v # w
  /\ arg[v] = arg[w]
  /\ \/ /\ pc[w] = "checkProcessed"
        /\ processed[arg[w]] # Absent
        /\ "processed_transaction" \in locked[v]
     \/ /\ pc[w] = "findTx"
        /\ chargeTxs[arg[w]] # NoCharge
        /\ "charge_transaction" \in locked[v]
     \/ /\ pc[w] = "insertTx"
        /\ "charge_transaction" \in inserted[v]
     \/ /\ pc[w] \in {"insertUnmatched", "insertDuplicate", "insertProcessed",
                     "mark"}
        /\ "processed_transaction" \in inserted[v]

\* No set of workers waits for one another, however many call at a time: in
\* every set of them is one whose next statement none of the others holds up.
\* process() always inserts into charge_transaction before processed_transaction,
\* and what it inserts under a row lock has been committed before.
NoDeadlock ==
  \A S \in SUBSET Workers : S # {} => \E w \in S : \A v \in S : ~WaitsFor(w, v)

\* A decided transaction stays as it is: no later call, retry or restart turns a
\* credit into a rejection, a rejection into a credit, or announces it again.
DecisionIsFinal ==
  [][\A t \in TxIds : processed[t] # Absent =>
       /\ processed'[t] = processed[t]
       /\ chargeTxs'[t] = chargeTxs[t]
       /\ webhooks'[t] = webhooks[t]]_vars

\* The rows seen as the abstract ledger.
Verdict ==
  [t \in TxIds |-> IF Credited(t) THEN "credited"
                   ELSE IF processed[t] # Absent THEN "rejected" ELSE "open"]

Ledger == INSTANCE PaymentLedger WITH verdict <- Verdict, announced <- webhooks

\* The statements of process() and markAsProcessed, interleaved and failing,
\* implement the ledger: each transaction is decided by one atomic step.
ImplementsLedger == Ledger!Spec

\* Every call ends, by a return or a throw: no two callers wait for each other's
\* uncommitted rows or row locks, and no error sends a call round again.
EveryCallReturns == \A w \in Workers : (pc[w] # "idle") ~> (pc[w] = "idle")

-----------------------------------------------------------------------------
\* The inductive invariant

\* At most one worker holds an uncommitted row of a txid in a unique index, and
\* none while the committed table has the txid.
PendingRowsAreUnique ==
  /\ \A w \in Workers : "processed_transaction" \in inserted[w] =>
       /\ processed[arg[w]] = Absent
       /\ ~MustWait(w, "processed_transaction")
  /\ \A w \in Workers : "charge_transaction" \in inserted[w] =>
       /\ chargeTxs[arg[w]] = NoCharge
       /\ ~MustWait(w, "charge_transaction")

\* What a worker has inserted and found, statement by statement.
RowsFollowSteps ==
  \A w \in Workers :
    /\ charge[w] # NoCharge =>
         charge[w] = MemoOf[arg[w]] /\ charge[w] \in charges
    /\ pc[w] \in {"findTx", "insertDuplicate", "insertTx", "insertProcessed",
                  "insertWebhook"} => charge[w] # NoCharge
    /\ pc[w] \in {"checkProcessed", "findCharge", "insertUnmatched"} =>
         charge[w] = NoCharge
    /\ pc[w] = "insertUnmatched" => MemoOf[arg[w]] <= MaxBigint
    /\ pc[w] = "insertDuplicate" => Credited(arg[w])
    /\ pc[w] = "insertProcessed" => inserted[w] = {"charge_transaction"}
    /\ pc[w] = "insertWebhook" =>
         inserted[w] = {"charge_transaction", "processed_transaction"}
    /\ pc[w] = "commit" =>
         \/ inserted[w] = {} /\ charge[w] = NoCharge
                             /\ processed[arg[w]] # Absent
         \/ inserted[w] = {"processed_transaction"} /\ charge[w] = NoCharge
                             /\ MemoOf[arg[w]] <= MaxBigint
         \/ inserted[w] = Tables /\ charge[w] # NoCharge
    /\ pc[w] \notin {"insertProcessed", "insertWebhook", "commit"} =>
         inserted[w] = {}
    /\ pc[w] \notin TxSteps => charge[w] = NoCharge
    /\ locked[w] # {} => pc[w] \in {"insertDuplicate", "commit"}

\* Why the ledger is right: the three tables agree, and what is pending can
\* only be published by one worker.
LedgerInv ==
  /\ TypeOK
  /\ AnnouncedExactlyOnce
  /\ CreditAgreesWithNote
  /\ PendingRowsAreUnique
  /\ RowsFollowSteps
  /\ ReturnMeansDecided
=============================================================================
