\* Two relays with batches of two share a table of three rows; every kind of fault;
\* the relays keep the promise of AtLeastOnce.
SPECIFICATION FairSpec
CONSTANTS
  MaxId = 3
  Relays = {r1, r2}
  BatchSize = 2
  MaxAttempts = 2
  MaxRollbacks = 1
  Faults = {"nack", "lostconfirm", "rollback"}
CHECK_DEADLOCK FALSE
INVARIANTS
  TypeOK
  PublishedIsCommitted
  DuplicatesAreAccounted
  IInv
PROPERTIES
  KeepsPromise
  PendingIsProcessed
