SPECIFICATION Spec
SYMMETRY Symmetry
CONSTANTS
  Configurator = {c1, c2, c3}
  StatusThread = {st}
  Worker = {w1}
  CaptureThread = {rx}
  Stream = {s1, s2}
INVARIANTS
  StuckInKnownWays
  StuckInPairs
CHECK_DEADLOCK FALSE
