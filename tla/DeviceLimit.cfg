SPECIFICATION Spec
CONSTANTS
  Tasks = {t1, t2}
  Users = {ann}
  Keys = {p1, p2}
  Hosts = {1, 2, 3}
  DeviceLimit = 1
  Ops = {"new", "remove"}
  MaxFaults = 0
  NULL = NULL
SYMMETRY MCSymmetry
INVARIANT
  LimitKept
