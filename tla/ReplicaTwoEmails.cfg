\* Two subscribers of one repository, two tracking instances; handlers abort and deliveries repeat.
SPECIFICATION Spec
CONSTANTS
  ann = ann
  bob = bob
  repo = repo
  tool = tool
  Pairs <- TwoEmails
  Activators = {a1, a2}
  Unsubscribers = {u1, u2}
  Resolvers = {g1}
  Fickle = {repo}
  Faults = {"abort", "repeat"}
  MaxEvents = 2
  MaxRepeats = 1
  MaxRepoId = 4
CHECK_DEADLOCK FALSE
SYMMETRY Symmetry
INVARIANTS
  TypeOK
  ReplicaConverges
  IInv
