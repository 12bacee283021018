\* Contents of two files that change names, while clients hold them open.
SPECIFICATION Spec
CONSTANTS
  Servers = {server}
  Ips = {c1, c2}
  RootUid = root
  Paths <- FilePaths
  Modes <- FileModes
  Umask <- MCUmask
  Fds <- MoreFds
  Inodes <- MCInodes
  Blocks = {x}
  MaxLen = 1
  None = None
  Targets <- FileTargets
  Calls <- FileCalls
  MaxHandles = 2
  MaxRestarts = 0
INVARIANT LeaksAreKnown
PROPERTY WritesLandWhereMeant
 
CHECK_DEADLOCK FALSE
VIEW MCView
SYMMETRY MCSymmetry
