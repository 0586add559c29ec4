CONSTANTS
  c1 = c1
  c2 = c2
  Clients <- TwoClients
  MaxCalls = 3
  Dialects = {"postgres"}
  MayFail = TRUE
  Exclusive = FALSE
  Propagate = FALSE
  Cancellable = {}
  Faults = {"lost", "stopped"}
SPECIFICATION FairSpec
PROPERTIES
  EveryCallReturns
  TransactionsEnd
