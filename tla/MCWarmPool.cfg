SPECIFICATION FairSpec
CONSTANTS
  PoolSize = 1
  MaxJobs = 2
  Vms = {v1, v2}
  NoSlot = NoSlot
INVARIANTS TypeOK SlotsAccounted PopulationKept CountIsExact
PROPERTIES NeverEmptyForGood ShutdownEnds
