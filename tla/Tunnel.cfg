SPECIFICATION Spec
CONSTANTS
  MaxConns = 2
  MaxFrames = 2
  MaxFaults = 1
INVARIANTS
  TypeOK
  UsedSocketsReleased
  WholeUnlessTorn
  NothingForgotten
PROPERTIES
  NothingAfterLoss
  ChannelSpec
  Reconnects
  FramesArrive
CHECK_DEADLOCK FALSE
