\* Two transfers that overlap and share a file name; the receiver is started twice.
CONSTANTS
  t1 = t1  t2 = t2  photo = photo  notes = notes
  Transfers <- MCTransfers
  Names <- MCNames
  Entries <- MCEntries
  NoTransfer = NoTransfer
  Fragile <- MCFragile
  MaxStarts = 2
SPECIFICATION OrderedSpec
CHECK_DEADLOCK FALSE
INVARIANTS
  TypeOK
  WaitIsServed
  ReportedIsSaved
  SuccessIsHandled
PROPERTIES
  OutcomeShown
  KeepsPromise
  EveryTransferEnds
