--------------------------- MODULE MCChargeService ---------------------------
(* The instance of ChargeService for TLC. *)
EXTENDS ChargeService, TLC

CONSTANTS w1, w2, t1, t2, t3

\* t1 pays the first memo, before or after it is handed out; the memo of t2 is
\* beyond MaxBigint; t3 carries no coins.
MCMemoOf == t1 :> 1 @@ t2 :> 3 @@ t3 :> 1
MCAmountOf == t1 :> 1 @@ t2 :> 5 @@ t3 :> 0
=============================================================================
