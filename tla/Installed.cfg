SPECIFICATION FairSpec
CONSTANTS
  Pid = {p1, p2, p3}
  NoPid = NoPid
  NoFile = NoFile
  EmptyFile = EmptyFile
  p1 = p1
  p2 = p2
  p3 = p3
  Commands = {"start", "install", "uninstall"}
  Sudo = {TRUE}
  Patient = TRUE
  MaxCommands = 1
  Timeouts = TRUE
  PidReuse = TRUE
  MaxFaults = 2
PROPERTY UninstallCleans
PROPERTY KeptAliveUnlessWedged
PROPERTY UninstallStops
