SPECIFICATION FairSpec
CONSTANTS
  Pid = {p1, p2, p3}
  NoPid = NoPid
  NoFile = NoFile
  EmptyFile = EmptyFile
  p1 = p1
  p2 = p2
  p3 = p3
  Commands = {"install"}
  Sudo = {TRUE}
  Patient = TRUE
  MaxCommands = 1
  Timeouts = FALSE
  PidReuse = FALSE
  MaxFaults = 1
PROPERTY KeptAlive
