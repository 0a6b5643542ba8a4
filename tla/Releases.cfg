\* One tracking instance, two subscribers, a repository that is registered
\* again: nobody is passed over, the copy is explained, releases are seen.
SPECIFICATION FairSpec
CONSTANTS
  Emails = {ann, bob}
  Scanners = {s1}
  Callers = {c1}
  Faults = {"redis", "report"}
  MaxTag = 2
  MaxRepoId = 3
  MaxAborts = 1
  MaxTold = 1
CHECK_DEADLOCK FALSE
INVARIANTS
  TypeOK
  RecordedIsTold
  CopyIsExplained
  IInv
PROPERTIES
  ReleaseIsSeen
