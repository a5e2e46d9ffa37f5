\* Two clients that find the daemon down again and again.
CONSTANTS
  Client = {a, b}
  Limit = 3
  Window = 4
  Grain = 2
  MaxTime = 8
  MaxRespawns = 4
SPECIFICATION Spec
SYMMETRY Symmetry
INVARIANT TypeOK
PROPERTY RefusesBursts
PROPERTY SeesBursts
