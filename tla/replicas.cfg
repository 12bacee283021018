\* Two servers that execute updates in the same order, until two things go wrong.
SPECIFICATION Spec
CONSTANTS
  c1 = c1
  c2 = c2
  s1 = s1
  s2 = s2
  Servers = {s1, s2}
  host1 = s1
  host2 = s2
  Ips = {c1, c2}
  RootUid = root
  Paths <- MCPaths
  Modes <- MCModes
  Umask <- MCUmask
  Inodes <- MCInodes
  Fds <- MCFds
  Blocks = {x}
  MaxLen = 0
  None = None
  Targets = {}
  Calls <- TwoNames
  Uses = {"read", "write", "release"}
  Mounted = {c1, c2}
  MaxCalls = 3
  MaxFaults = 2
INVARIANTS TypeOK ReplicasInStep EqualSinceRestored AckedUpdatesKeepOrder
PROPERTY HeardIsOnceDone
CHECK_DEADLOCK FALSE
VIEW MCView
SYMMETRY MCSymmetry
