SPECIFICATION FairSpec
CONSTANTS
  DataSize = 26
  HdrLen = 8
  LenField = 4
  BodyLens <- MCBodyLens
  MaxFrames = 4
INVARIANT RingSafe
PROPERTIES RefinesFifo AllDelivered WriteReturns
