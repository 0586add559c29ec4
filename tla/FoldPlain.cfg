CONSTANTS
  TableNames = {"users", "posts"}
  Idents = {"id", "name"}
  Overrides = {}
  MaxItems = 4
  MaxActions = 2
SPECIFICATION Spec
INVARIANTS
  TypeOK
  TypedMatchesDatabase
  AcceptedCompiles
