CONSTANTS
  Sink = {k1, k2}
  Sender = {n1}
  None = None
  DeviceCount = 3
SPECIFICATION Spec
INVARIANTS
  TypeOK
  CallbacksHaveModules
  ShownIsActive
  SinksCapture
