\* One subscription, every kind of fault, two subscription instances, fair consumers and relay.
SPECIFICATION FairSpec
CONSTANTS
  s1 = s1
  s2 = s2
  ann = ann
  bob = bob
  repo = repo
  Sagas = {s1}
  Pairs <- OnePair
  PairOf <- SamePair
  Handlers = {h1}
  Mailers = {m1}
  Workers = {w1, w2}
  Faults = {"request", "relay", "smtp", "reply", "worker"}
  MaxAttempts = 2
  MaxCopies = 2
  MaxSubId = 3
CHECK_DEADLOCK FALSE
INVARIANTS
  OutcomeIsEarned
  NoSagaForgotten
PROPERTIES
  SagaIsDecided
