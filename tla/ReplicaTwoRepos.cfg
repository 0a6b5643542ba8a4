\* One subscriber of two repositories that are deleted and registered again
\* while handlers hold their ids; under fair consumers every event is settled.
SPECIFICATION FairSpec
CONSTANTS
  ann = ann
  bob = bob
  repo = repo
  tool = tool
  Pairs <- TwoRepos
  Activators = {a1}
  Unsubscribers = {u1}
  Resolvers = {g1}
  Fickle = {tool}
  Faults = {}
  MaxEvents = 2
  MaxRepeats = 0
  MaxRepoId = 7
CHECK_DEADLOCK FALSE
INVARIANTS
  RowsAreActivated
PROPERTIES
  EventsAreSettled
