\* Descriptors and locks, while clients hold files open.
SPECIFICATION Spec
CONSTANTS
  Servers = {server}
  Ips = {c1, c2}
  RootUid = root
  Paths <- MCPaths
  Modes <- MCModes
  Umask <- MCUmask
  Fds <- MoreFds
  Inodes <- MCInodes
  Blocks = {x}
  MaxLen = 1
  None = None
  Targets = {}
  Calls <- OpenCalls
  MaxHandles = 2
  MaxRestarts = 0
INVARIANT TypeOK
INVARIANT HandleIntegrity
PROPERTY LocksComeFromRename
PROPERTY AbandonedLockStays
PROPERTY HangsOnlyOnAbandonedLock
SYMMETRY MCSymmetry
CHECK_DEADLOCK FALSE
