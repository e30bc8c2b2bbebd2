SPECIFICATION FairSpec
CONSTANTS
  Vms = {v1, v2}
  MaxJobs = 2
INVARIANTS TypeOK OneJobPerVm
PROPERTY LostVmEnds
