SPECIFICATION Spec
CONSTANTS
  Peers = {p1, p2}
  Prefixes = {net, host}
  Hosts = {host}
  Configured = {net}
  NULL = NULL
  MaxCalls = 2
  MaxFlaps = 3
  Families <- MCFamilies
  MaxLength <- MCMaxLength
  Size <- MCSize
  Bogons <- MCBogons
  Accepted <- MCAccepted
INVARIANTS
  TypeOK
  PeersHaveRoutes
PROPERTY
  StoppedWithdraws
CHECK_DEADLOCK FALSE
