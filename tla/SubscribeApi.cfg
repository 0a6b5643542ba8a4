\* One HTTP and one gRPC client beside the scanner, every fault, one at a time.
SPECIFICATION FairSpec
CONSTANTS
  q1 = q1
  q2 = q2
  ann = ann
  Scanner = Scanner
  Requests = {q1, q2}
  Callers = {q1, q2, Scanner}
  Others = {Scanner}
  MaxActive = 1
  MaxAmiss = 1
  Transport <- BothTransports
  Emails = {ann}
  EmailOf <- SameUser
  Faults = {"github", "redis", "db", "tracking", "others"}
  Threshold = 1
  MaxRequests = 1
INVARIANTS
  TypeOK
  NotFoundIsHonest
  ErrorsAreExplained
  AcceptedIsRegistered
  GrpcIsDrained
  IInv
PROPERTIES
  RecoversWithGitHub
