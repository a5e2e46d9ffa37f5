\* Two clients that give every command, one at a time, and may be killed where
\* that does no harm; emulators and daemons that may die at any moment.
CONSTANTS
  Owner = a
  Client = {a, b}
  Commands <- AllCommands
  Emu = {e1, e2}
  Daemon = {d1, d2, d3}
  Prog = {p1, p2}
  None = None
  Attempts = 2
  Crashes = TRUE
  Prompt = TRUE
SPECIFICATION TurnsSpec
SYMMETRY Symmetry
INVARIANT Findable
INVARIANT OwnVice
INVARIANT Reachable
INVARIANT RecordsProgram
