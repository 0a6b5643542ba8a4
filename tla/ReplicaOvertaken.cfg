\* Violated: an unsubscription overtakes the activation before it.
SPECIFICATION Spec
CONSTANTS
  ann = ann
  bob = bob
  repo = repo
  tool = tool
  Pairs <- TwoRepos
  Activators = {a1}
  Unsubscribers = {u1}
  Resolvers = {g1}
  Fickle = {}
  Faults = {}
  MaxEvents = 2
  MaxRepeats = 0
  MaxRepoId = 4
CHECK_DEADLOCK FALSE
INVARIANTS
  UnsubscribedIsRemoved
