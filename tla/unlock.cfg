\* Does every request unlock what it locked?
SPECIFICATION Spec
CONSTANTS
  Servers = {server}
  Ips = {c1, c2}
  RootUid = root
  Paths <- MCPaths
  Modes <- MCModes
  Umask <- MCUmask
  Fds <- FewFds
  Inodes <- MCInodes
  Blocks = {x}
  MaxLen = 1
  None = None
  Targets = {}
  Calls <- OpenCalls
  MaxHandles = 0
  MaxRestarts = 0
INVARIANT NoLockLeftBehind
CHECK_DEADLOCK FALSE
