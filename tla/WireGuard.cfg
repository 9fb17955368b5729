SPECIFICATION Spec
CONSTANTS
  Tasks = {t1, t2}
  Users = {ann}
  Keys = {p1, p2}
  Hosts = {1, 2, 3}
  DeviceLimit = 1
  Ops = {"new", "download", "add", "remove", "disable", "enable"}
  MaxFaults = 1
  NULL = NULL
SYMMETRY MCSymmetry
INVARIANTS
  TypeOK
  InterfaceFollowsTable
  NoSharedAddress
