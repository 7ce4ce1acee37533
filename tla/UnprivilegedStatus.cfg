SPECIFICATION Spec
CONSTANTS
  Pid = {p1, p2, p3, p4}
  NoPid = NoPid
  NoFile = NoFile
  EmptyFile = EmptyFile
  p1 = p1
  p2 = p2
  p3 = p3
  p4 = p4
  Commands = {"start", "status"}
  Sudo = {TRUE, FALSE}
  Patient = TRUE
  MaxCommands = 1
  Timeouts = FALSE
  PidReuse = FALSE
  MaxFaults = 0
SYMMETRY Symmetry
PROPERTY OnlyStaleRemoved
