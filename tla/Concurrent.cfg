SPECIFICATION FairSpec
CONSTANTS
  Pid = {p1, p2, p3}
  NoPid = NoPid
  NoFile = NoFile
  EmptyFile = EmptyFile
  p1 = p1
  p2 = p2
  p3 = p3
  Commands = {"start", "stop"}
  Sudo = {TRUE}
  Patient = FALSE
  MaxCommands = 2
  Timeouts = FALSE
  PidReuse = FALSE
  MaxFaults = 0
PROPERTY FatalTerm
PROPERTY ServesOrDies
