CONSTANTS
  c1 = c1
  c2 = c2
  Clients <- TwoClients
  MaxCalls = 3
  Dialects = {"sqlite"}
  MayFail = FALSE
  Exclusive = FALSE
  Propagate = TRUE
  Cancellable = {}
  Faults = {}
SPECIFICATION Spec
INVARIANTS
  DropUndoes
