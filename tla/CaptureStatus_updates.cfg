CONSTANTS
  None = None
  Interface = {i1, i2}
  Stream = {}
  DeviceIds = {0, 1}
  DeviceInfos = {info, info2}
  DefaultInfo = info
  PayloadTypes = {undefined, analog}
  Undefined = undefined
  MaxInterfaceId = 1
  MaxStreamId = 0
  Updated = {i1}
  UpdatesCapture = TRUE
SPECIFICATION Spec
CHECK_DEADLOCK FALSE
INVARIANTS
  UniqueIds
  PacketsOldOrNew
  VendorDataAnnounced
  DeviceAnnounced
PROPERTY StopEnds
