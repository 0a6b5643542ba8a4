\* Both consumers of the notification service, one outage, one end of the process.
SPECIFICATION FairSpec
CONSTANTS
  n1 = n1
  n2 = n2
  c1 = c1
  NoMail = NoMail
  Goroutines = {"notifications", "confirmations"}
  Mail = {n1, n2, c1}
  QueueOf <- ThreeMails
  Undeliverable = {n2}
  MaxOutages = 1
  MaxBreaks = 1
  MaxEnds = 1
INVARIANTS
  TypeOK
  OneConnection
  NothingLost
  DuplicatesAreAccounted
  IInv
PROPERTIES
  ShutdownCompletes
  MailGetsThrough
