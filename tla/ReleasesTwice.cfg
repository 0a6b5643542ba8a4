\* Two tracking instances, no faults: a subscriber is told twice.
SPECIFICATION Spec
CONSTANTS
  Emails = {ann}
  Scanners = {s1, s2}
  Callers = {c1}
  Faults = {}
  MaxTag = 2
  MaxRepoId = 2
  MaxAborts = 0
  MaxTold = 2
CHECK_DEADLOCK FALSE
SYMMETRY Symmetry
INVARIANTS
  ToldOnce
