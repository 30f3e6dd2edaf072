CONSTANTS
  None = None
  s1 = s1
  s2 = s2
  Stream = {s1, s2}
  Worker = {w1, w2}
  StreamIds = {1, 2}
  Selected <- Types
  Signals <- Kinds
  Domains = {"linear"}
  Lengths <- LengthsOf
  Parts <- PartsOf
  MaxPackets <- Packets
  MaxConnections <- Connections
  MaxEvents <- Events
  MaxWrites <- Writes
  StatusParts = {2}
  MaxStatusFrames = 2
SPECIFICATION Spec
SYMMETRY Symmetry
CONSTRAINT Bounded
INVARIANTS
  TypeOK
  EveryNumberOnce
  OwnFramesInOrder
  ConfiguredFramesFit
CHECK_DEADLOCK FALSE
