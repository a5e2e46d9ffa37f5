\* Frames are read whole; three checkpoint numbers.
CONSTANTS
  CkIds = {c1, c2, c3}
  NoCk = NoCk
  EventCap <- ShortQueue
  MaxShared <- TwoAtOnce
  MaxCount <- ThreeArrivals
  Prompt = TRUE
SPECIFICATION FairSpec
INVARIANT TypeOK
INVARIANT NoFalsePark
INVARIANT RestoreSeesParks
PROPERTY ImplementsSession
