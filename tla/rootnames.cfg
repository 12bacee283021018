\* A client renames a file of another client in the root directory.
SPECIFICATION Spec
CONSTANTS
  Servers = {server}
  Ips = {c1, c2}
  RootUid = root
  Paths <- MCPaths
  Modes <- MCModes
  Umask <- MCUmask
  Fds <- FewFds
  Inodes <- MCInodes
  Blocks = {x}
  MaxLen = 1
  None = None
  Targets = {}
  Calls <- NameCalls
  MaxHandles = 0
  MaxRestarts = 0
PROPERTY OnlyOwnersMoveInRoot
SYMMETRY MCSymmetry
CHECK_DEADLOCK FALSE
VIEW MCView
