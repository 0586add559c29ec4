CONSTANTS
  c1 = c1
  c2 = c2
  Clients <- OneClient
  MaxCalls = 4
  Dialects = {"postgres"}
  MayFail = TRUE
  Exclusive = TRUE
  Propagate = FALSE
  Cancellable = {}
  Faults = {}
SPECIFICATION Spec
INVARIANTS
  CommitPersists
