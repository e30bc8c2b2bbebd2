SPECIFICATION FairSpec
CONSTANTS
  MaxJobs = 2
  Vms = {v1, v2}
  NoVm = NoVm
  NoSlot = NoSlot
INVARIANTS TypeOK  TapIsMine
PROPERTY ExecuteReturns
