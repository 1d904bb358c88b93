SPECIFICATION Spec
CONSTANTS
  MaxJobs = 2
  MaxCmds = 3
  MaxFd = 7
  FailAt = {0, 1}
INVARIANT Wiring
