\* Two clients that start and stop the session, under the fairness of FairSpec.
CONSTANTS
  Owner = a
  Client = {a, b}
  Commands <- OwnerStarts
  Emu = {e1}
  Daemon = {d1, d2}
  Prog = {p1}
  None = None
  Attempts = 1
  Crashes = FALSE
  Prompt = FALSE
SPECIFICATION FairSpec
PROPERTY StopEndsAll
PROPERTY CommandEnds
