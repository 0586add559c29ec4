CONSTANTS
  Dialects = {"sqlite", "postgres"}
  Kinds = {"select", "select_cols", "search", "insert", "update", "delete"}
  Atoms <- SomeAtoms
  MaxDepth = 2
  Predicates <- SomePredicates
  Columns = {"age", "name"}
  Values = {3, 4}
  Limits = {0, 1, 2, 5, 7}
  Offsets = {0, 1, 2}
  Half = 4
  Rows = 3
  MaxCalls = 3
SPECIFICATION Spec
INVARIANTS
  ConditionIsAsked
  AssignmentIsAsked
  WindowIsAsked
  NothingUnfiltered
  AcceptedOrKnown
