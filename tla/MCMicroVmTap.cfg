SPECIFICATION Spec
CONSTANTS
  MaxJobs = 2
  Vms = {v1, v2}
  NoVm = NoVm
  NoSlot = NoSlot
INVARIANT TapIsAlwaysMine
