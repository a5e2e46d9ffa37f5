\* monitor.py:259 against a STOPPED left over from a step.
CONSTANTS
  CkIds = {c1}
  NoCk = NoCk
  EventCap <- ShortQueue
  MaxShared <- TwoAtOnce
  MaxCount = 1
  Prompt = TRUE
SPECIFICATION Spec
PROPERTY FinishWaits
