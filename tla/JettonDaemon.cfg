CONSTANT
  MaxFaults = 3
SPECIFICATION FairSpec
INVARIANTS
  CreditOnlyPayments
  WrongNoteOnlyByFault
  DaemonInv
PROPERTIES
  EventuallyNoted
