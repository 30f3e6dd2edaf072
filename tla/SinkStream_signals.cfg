CONSTANTS
  Intervals = {d1, d2}
  Scalings = {r1, r2}
  Misread = Misread
  None = None
  Batches <- AllBatches
SPECIFICATION Spec
INVARIANTS
  TypeOK
  SentFits
  DescriptorsFollowType
