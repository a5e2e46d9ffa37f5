\* ops.py:161 against a temporary breakpoint that fires with nobody attached.
CONSTANTS
  CkIds = {c1}
  User = c1
  NoCk = NoCk
  EventCap <- ShortQueue
  MaxShared <- TwoAtOnce
  MaxCount = 1
  MaxFrames = 2
  Prompt = TRUE
SPECIFICATION OpsSpec
PROPERTY WaitSeesParks
