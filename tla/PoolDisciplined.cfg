CONSTANTS
  c1 = c1
  c2 = c2
  Clients <- TwoClients
  MaxCalls = 4
  Dialects = {"sqlite", "postgres"}
  MayFail = TRUE
  Exclusive = TRUE
  Propagate = TRUE
  Cancellable = {"write", "commit"}
  Faults = {"lost", "stopped"}
SPECIFICATION Spec
SYMMETRY ClientSymmetry
INVARIANTS
  NoOrphanTransaction
  ActiveIsOpen
  CommitPersists
  AutocommitPersists
  DropUndoes
PROPERTIES
  ImplementsStore
