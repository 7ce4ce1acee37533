SPECIFICATION Spec
CONSTANTS
  Proc = {p1, p2}
  p1 = p1
  p2 = p2
  Ca = {k1, k2, k3, k4}
  k1 = k1
  k2 = k2
  k3 = k3
  k4 = k4
  NoProc = NoProc
  NoCa = NoCa
  Absent = Absent
  Empty = Empty
  Sudo = {TRUE}
  SudoUninstall = {TRUE, FALSE}
  MaxCrashes = 0
SYMMETRY Symmetry
INVARIANT ServedIsTrusted
