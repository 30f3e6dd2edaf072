CONSTANTS
  None = None
  Block = {b1, b2}
  DeviceIds = {0, 1}
  infoA = infoA
  infoB = infoB
  Infos = {infoA, infoB}
  NoInfo = NoInfo
  Garbled = Garbled
  Frames <- AllFrames
  MaxFrames = 3
  Updated = {b1, b2}
SPECIFICATION Spec
SYMMETRY Symmetry
CONSTRAINT Bounded
INVARIANTS
  TypeOK
  ListShowsStatus
  AddedIsTheOneSeen
  ReceiversExist
  GarbledByMisread
PROPERTY StatusReachesBlocks
