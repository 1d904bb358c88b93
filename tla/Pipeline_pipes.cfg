SPECIFICATION FairSpec
CONSTANTS
  MaxJobs = 2
  MaxCmds = 3
  MaxFd = 7
  FailAt = {0, 2}
INVARIANTS
  TypeOK
  Wiring
PROPERTY PipelineEnds
