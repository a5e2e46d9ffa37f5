\* Two clients that ensure the session.
CONSTANTS
  Owner = a
  Client = {a, b}
  Commands <- EnsureOnly
  Emu = {e1, e2}
  Daemon = {d1, d2}
  Prog = {p1}
  None = None
  Attempts = 1
  Crashes = FALSE
  Prompt = TRUE
SPECIFICATION Spec
INVARIANT OnePet
