SPECIFICATION Spec
CONSTANTS
  ann = ann
  NULL = NULL
  Subscribers <- MCSubscribers
  Tariffs <- MCTariffs
  Addresses <- MCAddresses
  SubTariff <- MCSubTariff
  PoolTariff <- MCPoolTariff
  Sessions = {s1}
  SessUser <- MCSessUser
  Kinds = {"access", "start", "interim", "stop"}
  MaxCopies = 2
  MaxResends = 1
  MaxFaults = 1
  MaxRestarts = 1
INVARIANTS
  TypeOK
  BilledByStops
  AckedStartIsVisible
  OrderlyStopClears
  AddressLeakBounded
  OrderlyInSync
CHECK_DEADLOCK FALSE
