SPECIFICATION Spec
CONSTANTS
  ann = ann
  NULL = NULL
  Subscribers <- MCSubscribers
  Tariffs <- MCTariffs
  Addresses <- MCAddresses
  SubTariff <- MCSubTariff
  PoolTariff <- MCPoolTariff
  Sessions = {s1, s2}
  SessUser <- MCSessUser
  Kinds = {"access", "start", "stop"}
  MaxCopies = 1
  MaxResends = 0
  MaxFaults = 1
  MaxRestarts = 1
INVARIANT
  AddressLeakBounded
PROPERTY
  StoreDrains
CHECK_DEADLOCK FALSE
