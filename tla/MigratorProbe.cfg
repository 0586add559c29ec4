CONSTANTS
  old = old
  new = new
  Processes <- Both
  Scenarios <- NamedOnly
  Repeatable = {}
  ProbeReliable = FALSE
  MaxRuns = 2
  Dialects = {"sqlite"}
  MayFail = FALSE
SPECIFICATION Spec
PROPERTIES
  HistoryKept
