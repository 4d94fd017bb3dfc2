SPECIFICATION Spec
CONSTANTS
  Versions <- AllVersions
  Values <- Samples
  CutVersions <- MCCutVersions
  MaxCut = 48
  Receivers <- MCReceivers
  Packets <- MCPackets
  MaxSent = 2
  Junk = {83, 255}
  Attribute <- MCAttribute
  Setting <- MCSetting
  Cuts = {2, 7, 12, 17, 30}
  MaxCalls = 2
INVARIANTS
  DecodedIsWritten
  RelayKeepsAll
  CutNeverMisread
  FramesKeepPackets
  AttributesKept
\* A message that has been read, and packets that have all been received, are
\* the end of a behaviour.
CHECK_DEADLOCK FALSE
