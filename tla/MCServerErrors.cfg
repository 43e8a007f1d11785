SPECIFICATION Spec
CONSTANTS
  Query = {a}
  MaxCommands = 2
  MaxImages = 2
  NULL = NULL
INVARIANT
  NeverStoresErrors
