CONSTANTS
  TableNames = {"users", "posts"}
  Idents = {"id", "name"}
  Overrides = {"full_name"}
  MaxItems = 2
  MaxActions = 2
SPECIFICATION Spec
INVARIANTS
  TypedMatchesDatabase
