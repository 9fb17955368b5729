SPECIFICATION Spec
CONSTANTS
  ann = ann
  bob = bob
  dan = dan
  eve = eve
  NULL = NULL
  Subscribers <- MCSubscribers
  Tariffs <- MCTariffs
  Addresses <- MCAddresses
  SubTariff <- MCSubTariff
  PoolTariff <- MCPoolTariff
  Tasks = {k1, k2, k3}
  MaxConns = 2
  Serialised = {}
PROPERTY
  NoTakeover
