CONSTANTS
  None = None
  Block = {b1, b2}
  DeviceIds = {0, 1}
  infoA = infoA
  infoB = infoB
  Infos = {infoA, infoB}
  NoInfo = NoInfo
  Garbled = Garbled
  Frames <- AllFrames
  MaxFrames = 3
  Updated = {}
SPECIFICATION Spec
SYMMETRY Symmetry
INVARIANT OwnEndpoint
