SPECIFICATION Spec
CONSTANTS
  ann = ann
  bob = bob
  Users = {ann, bob}
  Sessions = {ann1, ann2}
  Owner <- SmallOwner
  Addresses = {a1}
  NULL = NULL
  Word = 2
  MaxFlows = 2
  MaxChanges = 2
  MaxFaults = 1
INVARIANTS
  TypeOK
  BytesConserved
  SnapshotAwaited
  
PROPERTIES
  CountersDrain
  MapCatchesUp
