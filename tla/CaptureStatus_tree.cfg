CONSTANTS
  None = None
  Interface = {i1, i2}
  Stream = {s1, s2, s3}
  DeviceIds = {0}
  DeviceInfos = {info}
  DefaultInfo = info
  PayloadTypes = {undefined, analog}
  Undefined = undefined
  MaxInterfaceId = 2
  MaxStreamId = 1
  Updated = {}
  UpdatesCapture = FALSE
SPECIFICATION Spec
SYMMETRY Symmetry
CHECK_DEADLOCK FALSE
INVARIANTS
  TypeOK
  UniqueIds
  InterfacesAnnounced
  StreamsAnnounced
  StreamsFollowPayloadType
