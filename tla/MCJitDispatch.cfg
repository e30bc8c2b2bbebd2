SPECIFICATION FairSpec
CONSTANTS
  r1 = r1
  w1 = w1
  j1 = j1
  j2 = j2
  Repos = {r1}
  Runs = {w1}
  Jobs = {j1, j2}
  Tasks = {t1, t2, t3}
  RepoOf <- MCRepoOf
  RunOf <- MCRunOf
  LabelsOf <- MCLabelsOf
  RunnerLabels <- MCRunnerLabels
  MaxJobs = 2
  NoJob = NoJob
  NoSlot = NoSlot
INVARIANTS TypeOK SlotsPartitioned PermitMeansSlot SeenIsInFlight IdleExitLeavesNoVm PsIsExact
PROPERTIES LeaseSpec SeenIsForgotten ShutdownEnds
