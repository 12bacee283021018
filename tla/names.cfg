\* Who may change which directory, and what a failed request leaves.
SPECIFICATION Spec
CONSTANTS
  Servers = {server}
  Ips = {c1, c2}
  RootUid = root
  Paths <- MCPaths
  Modes <- MCModes
  Umask <- MCUmask
  Fds <- FewFds
  Inodes <- MCInodes
  Blocks = {x}
  MaxLen = 1
  None = None
  Targets <- NameTargets
  Calls <- NameCalls
  MaxHandles = 0
  MaxRestarts = 1
PROPERTY FailedCallChangesNothing
PROPERTY DirectoriesChangeByRight
SYMMETRY MCSymmetry
PROPERTY OwnersAsAsked
PROPERTY ImplementsAtomicFS
CHECK_DEADLOCK FALSE
VIEW MCView
