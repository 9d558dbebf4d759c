SPECIFICATION FsmSpec
CONSTANTS
  States = {a, b, c}
  NoState = NoState
  MaxDispatches = 3
INVARIANTS CurrentEnteredLast EntryExitPaired
