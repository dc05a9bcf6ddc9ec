CONSTANTS
  w1 = w1
  w2 = w2
  t1 = t1
  t2 = t2
  t3 = t3
  Workers = {w1, w2}
  TxIds = {t1, t2, t3}
  NoTx = NoTx
  MemoOf <- MCMemoOf
  AmountOf <- MCAmountOf
  MaxMemo = 2
  MaxBigint = 2
SPECIFICATION FairSpec
INVARIANTS
  AnnouncedExactlyOnce
  CreditAgreesWithNote
  NoDeadlock
  LedgerInv
PROPERTIES
  DecisionIsFinal
  ImplementsLedger
  EveryCallReturns
