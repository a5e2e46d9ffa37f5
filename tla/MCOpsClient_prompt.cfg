\* Operations one after the other, every frame read as soon as it is sent.
CONSTANTS
  CkIds = {c1, c2, c3, c4}
  User = c1
  NoCk = NoCk
  EventCap <- ShortQueue
  MaxShared <- TwoAtOnce
  MaxCount = 1
  MaxFrames = 2
  Prompt = TRUE
SPECIFICATION OpsFairSpec
INVARIANT FiredParked
INVARIANT FiredStays
INVARIANT HoldSteady
PROPERTY OpEnds
