SPECIFICATION Spec
CONSTANTS
  MaxJobs = 2
  MaxCmds = 2
  MaxFd = 4
  FailAt = {0, 1}
INVARIANT NoLeak
