SPECIFICATION CheckSpec
CONSTANTS
  Pids = {p1, p2}
  Shell = sh
  TtyModes = {sane}
  ShellTty = sane
  ReusePids = FALSE
  MAXJOBS = 3
  MaxCmds = 2
  Unset = unset
SYMMETRY Symmetry
INVARIANTS
  TypeOK
  AliveCount
  NoLostWakeup
  WaitNeverFails
  NoLostSigchld
  OneLiveForeground
  ForegroundOwnsTerminal
  DoneMeansDone
  AcceptedIsForeground
PROPERTIES
  SweepDeletesDead
