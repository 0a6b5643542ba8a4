\* One user subscribes to one repository twice; links, mails and replies of both attempts mix.
SPECIFICATION Spec
CONSTANTS
  s1 = s1
  s2 = s2
  ann = ann
  bob = bob
  repo = repo
  Sagas = {s1, s2}
  Pairs <- OnePair
  PairOf <- SamePair
  Handlers = {h1, h2}
  Mailers = {m1}
  Workers = {w1}
  Faults = {"request", "smtp", "reply", "worker"}
  MaxAttempts = 2
  MaxCopies = 1
  MaxSubId = 3
SYMMETRY SagaSymmetry
CHECK_DEADLOCK FALSE
INVARIANTS
  TypeOK
  DoubleOptIn
  CompensationRollsBack
  ConfirmedIsAnnounced
  GhostsComeFromCompensation
