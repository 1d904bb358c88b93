SPECIFICATION Spec
CONSTANTS
  Pids = {p1, p2}
  Shell = sh
  TtyModes = {sane}
  ShellTty = sane
  ReusePids = FALSE
  MAXJOBS = 2
  MaxCmds = 2
  Unset = unset
PROPERTY DeleteOnlyWhenDead
