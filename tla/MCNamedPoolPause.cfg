SPECIFICATION FairSpec
CONSTANTS
  ra = ra
  rb = rb
  PoolSizes <- MCPoolSizes
  Me = 2
  MaxJobs = 5
  Repos <- MCRepos
  MinReady = 3
  Scales = {1, 3}
  Vms = {v1, v2}
  NoSlot = NoSlot
PROPERTY ResumeRefills
