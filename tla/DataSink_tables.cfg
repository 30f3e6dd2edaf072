CONSTANTS
  NoFb = NoFb
  Capture = {c1, c2, c3}
  Interface = {i1, i2}
  Stream = {s1, s2}
  DeviceIds = {0, 1}
  MaxInterfaceId = 1
  MaxStreamId = 1
  Updated = {c1, c2, c3, i1, i2}
SPECIFICATION Spec
SYMMETRY Symmetry
CONSTRAINT Bounded
INVARIANTS
  TypeOK
  NoStaleDataEntry
  NoStaleCaptureEntry
  DataRoutingExact
  CaptureRoutingExact
  FreshIds
  NoLeakedId
PROPERTY OthersStaySubscribed
