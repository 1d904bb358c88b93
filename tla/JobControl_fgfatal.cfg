SPECIFICATION Spec
CONSTANTS
  Pids = {p1}
  Shell = sh
  TtyModes = {sane}
  ShellTty = sane
  ReusePids = FALSE
  MAXJOBS = 2
  MaxCmds = 1
  Unset = unset
INVARIANT FgNeverFatal
