\* Frames are cut and delayed anywhere.
CONSTANTS
  CkIds = {c1, c2}
  NoCk = NoCk
  EventCap <- ShortQueue
  MaxShared <- TwoAtOnce
  MaxCount <- ThreeArrivals
  Prompt = FALSE
SPECIFICATION FairSpec
INVARIANT IdleTruth
PROPERTY WaitTruth
PROPERTY RunUntilExact
PROPERTY TenureEnds
PROPERTY RunsAgain
PROPERTY DeathEnds
