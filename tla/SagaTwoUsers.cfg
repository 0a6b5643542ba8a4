\* Two users of one repository; two subscription instances.
SPECIFICATION Spec
CONSTANTS
  s1 = s1
  s2 = s2
  ann = ann
  bob = bob
  repo = repo
  Sagas = {s1, s2}
  Pairs <- TwoPairs
  PairOf <- OwnPair
  Handlers = {h1, h2}
  Mailers = {m1}
  Workers = {w1, w2}
  Faults = {"smtp", "worker"}
  MaxAttempts = 2
  MaxCopies = 1
  MaxSubId = 3
SYMMETRY Symmetry
CHECK_DEADLOCK FALSE
INVARIANTS
  CompensationStaysInPair
  IInv
