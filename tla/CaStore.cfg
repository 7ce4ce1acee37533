SPECIFICATION Spec
CONSTANTS
  Proc = {p1, p2, p3, p4}
  p1 = p1
  p2 = p2
  p3 = p3
  p4 = p4
  Ca = {k1, k2, k3, k4, k5}
  k1 = k1
  k2 = k2
  k3 = k3
  k4 = k4
  k5 = k5
  NoProc = NoProc
  NoCa = NoCa
  Absent = Absent
  Empty = Empty
  Sudo = {TRUE, FALSE}
  SudoUninstall = {TRUE}
  MaxCrashes = 3
SYMMETRY Symmetry
INVARIANT TypeOK
INVARIANT ServedIsTrusted
INVARIANT OnePair
PROPERTY Reused
INVARIANT AppsAreTheUsers
