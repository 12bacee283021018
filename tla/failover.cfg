\* A client that fails over writes through the number of another process.
SPECIFICATION Spec
CONSTANTS
  c1 = c1
  c2 = c2
  s1 = s1
  s2 = s2
  Servers = {s1, s2}
  host1 = s1
  host2 = s2
  Ips = {c1, c2}
  RootUid = root
  Paths <- MCPaths
  Modes <- MCModes
  Umask <- MCUmask
  Inodes <- MCInodes
  Fds <- MCFds
  Blocks = {x}
  MaxLen = 1
  None = None
  Targets = {}
  Calls <- TwoFiles
  Uses = {"write"}
  Mounted = {c1, c2}
  MaxCalls = 5
  MaxFaults = 1
PROPERTY WritesGoToOpenFile
VIEW MCView
CHECK_DEADLOCK FALSE
