------------------------ MODULE TransactionRow_proofs ------------------------
(***************************************************************************)
(* Lemmas about TransactionRow that the proofs of both daemons rest on.    *)
(***************************************************************************)
EXTENDS TransactionRow, TLAPS

\* A step of the row: it stays, or it appears with the text the daemon asks for.
LEMMA MarkStep ==
  ASSUME faults \in 0..MaxFaults, NEW text, MarkReturns(text) \/ MarkThrows(text)
  PROVE  /\ note' = note \/ (note = Absent /\ note' = text)
         /\ faults' \in 0..MaxFaults /\ faults' >= faults
         /\ hasCharge' = hasCharge
  BY FaultAssumption DEF MarkReturns, MarkThrows, OneMoreFault

\* So it is with process(), which throws without a failure only if no charge can
\* have the memo, and credits or rejects only a memo one can have.
LEMMA ProcessStep ==
  ASSUME faults \in 0..MaxFaults, NEW findable \in BOOLEAN,
         ProcessReturns(findable) \/ ProcessThrows(findable)
  PROVE  /\ note' = note \/ (note = Absent /\ note' = Verdict /\ findable)
         /\ faults' \in 0..MaxFaults /\ faults' >= faults
         /\ ProcessThrows(findable) => ~findable \/ faults' > 0
         /\ hasCharge' = hasCharge
  BY FaultAssumption DEF ProcessReturns, ProcessThrows, OneMoreFault
=============================================================================
