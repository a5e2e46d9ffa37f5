\* Two clients that start and stop the session at the same time.
CONSTANTS
  Owner = a
  Client = {a, b}
  Commands <- StartAndStop
  Emu = {e1, e2}
  Daemon = {d1, d2}
  Prog = {p1}
  None = None
  Attempts = 2
  Crashes = TRUE
  Prompt = FALSE
SPECIFICATION Spec
SYMMETRY Symmetry
PROPERTY FailedLaunchClean
INVARIANT StopStops
