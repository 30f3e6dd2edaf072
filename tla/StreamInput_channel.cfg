CONSTANTS
  None = None
  s1 = s1
  s2 = s2
  Stream = {s1, s2}
  Worker = {w1, w2}
  StreamIds = {1}
  Selected <- ChannelTypes
  Signals <- ChannelKinds
  Domains = {"linear"}
  Lengths <- LengthsOf
  Parts <- ChannelParts
  MaxPackets <- Packets
  MaxConnections <- Connections
  MaxEvents <- ChannelEvents
  MaxWrites <- ChannelWrites
  StatusParts = {1}
  MaxStatusFrames = 1
SPECIFICATION FairSpec
CONSTRAINT Bounded
PROPERTIES
  StreamsAreChannels
  QueuesDrain
CHECK_DEADLOCK FALSE
