SPECIFICATION Spec
CONSTANTS
  ann = ann
  NULL = NULL
  Subscribers <- MCSubscribers
  Tariffs <- MCTariffs
  Addresses <- MCAddresses
  SubTariff <- MCSubTariff
  PoolTariff <- MCPoolTariff
  Sessions = {s1}
  SessUser <- MCSessUser
  Kinds = {"access", "start", "interim", "stop"}
  MaxCopies = 1
  MaxResends = 0
  MaxFaults = 0
  MaxRestarts = 0
INVARIANT
  SessionsInSync
CHECK_DEADLOCK FALSE
