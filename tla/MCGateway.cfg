SPECIFICATION Spec
CONSTANTS
  Databases <- MCDatabases
  NULL = NULL
  MaxFailures = 1
  MaxEdits = 2
INVARIANTS StaleTopologyRefused OverrunOnlyWhenDisturbed LookupFindsRow NothingHeldAtReturn
PROPERTY AppEnds
