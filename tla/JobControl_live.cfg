SPECIFICATION FairSpec
CONSTANTS
  Pids = {p1, p2}
  Shell = sh
  TtyModes = {sane, raw}
  ShellTty = sane
  ReusePids = FALSE
  MAXJOBS = 2
  MaxCmds = 2
  Unset = unset
INVARIANTS
  ShellOwnsPrompt
  NeverStoppedByTerminal
PROPERTIES
  ZombiesAreReaped
  WaitReturns
