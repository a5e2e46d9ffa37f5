\* Two calls and events, the stream cut anywhere.
CONSTANTS
  Kinds = {"plain", "list", "exit"}
  Header = 2
  QueueSize = 2
  MaxCalls = 2
  MaxEvents = 3
  MaxInfos = 2
SPECIFICATION Spec
INVARIANT TypeOK
INVARIANT InStep
INVARIANT OwnResponse
INVARIANT WholeLists
INVARIANT QueueIsSuffix
INVARIANT NoLeftovers
