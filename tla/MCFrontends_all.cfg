\* Every command and test of one process beside another that runs, writes or stops.
CONSTANTS
  Main = a
  Other = b
  Client = {a, b}
  Repertoire <- OneOfEach
  MaxSlices = 1
  AddressSpace = 7
  Values = {0, 1}
  Patterns <- SmallPatterns
  Limits = {0, 1, 2}
  LabelMaps <- SmallMaps
  Addends <- Few
  Addresses = {0, 2, 3, 255, 256, 258, 259, 300}
  Traps = {0, 1, 256, 828, 65535}
SPECIFICATION FairSpec
INVARIANT TypeOK
INVARIANT ChecksSuffice
INVARIANT FindsAll
INVARIANT RefsAddUp
INVARIANT RoutinesReturn
PROPERTY Undisturbed
PROPERTY OwnAnswer
PROPERTY TestsCleanUp
PROPERTY CommandEnds
