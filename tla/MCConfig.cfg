SPECIFICATION ConfSpec
CONSTANTS
  Files <- MCFiles
  Paths <- MCPaths
  Defaults <- MCDefaults
  NULL = NULL
  INT_MAX = 15
  MaxEdits = 2
INVARIANTS NothingLeaked AnswerFromEntered
