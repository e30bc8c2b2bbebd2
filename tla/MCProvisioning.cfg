SPECIFICATION FairSpec
CONSTANTS
  Images = {a}
  Versions = {v1, v2}
  Cloud = Cloud
  NoFile = NoFile
INVARIANTS TypeOK  SquashFollowsRootfs FilterIsConfigured
PROPERTY ComesUp
