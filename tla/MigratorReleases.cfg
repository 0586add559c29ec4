CONSTANTS
  old = old
  new = new
  Processes <- Both
  Scenarios <- Releases
  Repeatable = {"m0", "m1"}
  ProbeReliable = TRUE
  MaxRuns = 2
  Dialects = {"sqlite", "postgres"}
  MayFail = TRUE
SPECIFICATION Spec
INVARIANTS
  TypeOK
  AppliedOnceAndRecorded
  LedgerIsHistory
  OkMeansApplied
PROPERTIES
  HistoryKept
  AllSetsTogether
