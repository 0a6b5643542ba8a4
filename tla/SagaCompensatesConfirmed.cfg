\* Violated: a compensation deletes a confirmed subscription.
SPECIFICATION Spec
CONSTANTS
  s1 = s1
  s2 = s2
  ann = ann
  bob = bob
  repo = repo
  Sagas = {s1, s2}
  Pairs <- OnePair
  PairOf <- SamePair
  Handlers = {h1}
  Mailers = {m1}
  Workers = {w1}
  Faults = {}
  MaxAttempts = 2
  MaxCopies = 1
  MaxSubId = 3
CHECK_DEADLOCK FALSE
PROPERTIES
  CompensationDeletesPendingOnly
