CONSTANTS
  None = None
  Interface = {i1}
  Stream = {}
  DeviceIds = {0}
  DeviceInfos = {info}
  DefaultInfo = info
  PayloadTypes = {undefined, analog}
  Undefined = undefined
  MaxInterfaceId = 2
  MaxStreamId = 0
  Updated = {i1}
  UpdatesCapture = FALSE
SPECIFICATION Spec
CHECK_DEADLOCK FALSE
INVARIANT InterfacePacketsConsistent
