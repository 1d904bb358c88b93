SPECIFICATION Spec
CONSTANTS
  Pids = {p1, p2, p3}
  Shell = sh
  TtyModes = {sane}
  ShellTty = sane
  ReusePids = FALSE
  MAXJOBS = 2
  MaxCmds = 3
  Unset = unset
SYMMETRY Symmetry
INVARIANTS
  AliveCount
  NoLostWakeup
  ForegroundOwnsTerminal
