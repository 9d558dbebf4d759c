SPECIFICATION BusSpec
CONSTANTS
  Keys = {k1, k2}
  Callbacks = {c1, c2}
  Data = {d1, d2, d3, d4}
  MAX_SUBS = 3
  MaxPublishes = 2
  MaxOps = 2
INVARIANT NobodyCalledTwice
PROPERTIES MissedOnlyThroughGaps PublishReturns
