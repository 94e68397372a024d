\* Two permits: a writer has to collect more than one.  The calls outnumber the
\* queue, so some are rejected.
CONSTANTS
  Reads = {r1, r2, r3}
  Writes = {w1, w2}
  MaxWorkers = 2
  MaxQueueSize = 4
  Nobody = Nobody
SPECIFICATION FairSpec
INVARIANTS
  TypeOK
  WriteExclusive
  PermitsConserved
  AdmittedExact
  ThreadForEveryPermit
PROPERTIES
  ArrivalOrder
  EveryCallLeaves
