SPECIFICATION FairSpec
CONSTANTS
  Pid = {p1, p2, p3, p4}
  NoPid = NoPid
  NoFile = NoFile
  EmptyFile = EmptyFile
  p1 = p1
  p2 = p2
  p3 = p3
  p4 = p4
  Commands = {"start", "foreground", "stop", "status"}
  Sudo = {TRUE}
  Patient = TRUE
  MaxCommands = 1
  Timeouts = TRUE
  PidReuse = TRUE
  MaxFaults = 2
INVARIANT TypeOK
INVARIANT Exclusive
INVARIANT Tracked
INVARIANT SignalsItsDaemon
PROPERTY OnlyStaleRemoved
PROPERTY TruthfulVerdict
PROPERTY StartBringsUp
PROPERTY ForegroundServes
PROPERTY StopFrees
PROPERTY ImplementsOneDaemon
