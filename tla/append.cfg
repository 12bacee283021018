\* Copied writes land elsewhere than the writes they copy.
SPECIFICATION Spec
CONSTANTS
  c1 = c1
  c2 = c2
  s1 = s1
  s2 = s2
  Servers = {s1, s2}
  host1 = s1
  host2 = s2
  Ips = {c1}
  RootUid = root
  Paths <- MCPaths
  Modes <- MCModes
  Umask <- MCUmask
  Inodes <- MCInodes
  Fds <- MCFds
  Blocks = {x}
  MaxLen = 2
  None = None
  Targets = {}
  Calls <- OneFile
  Uses = {"read", "write", "release"}
  Mounted = {}
  MaxCalls = 4
  MaxFaults = 1
INVARIANT ReplicasAgree
CHECK_DEADLOCK FALSE
