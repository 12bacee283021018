\* Reads and writes cut into remote calls, while others use the file.
SPECIFICATION FairSpec
CONSTANTS
  MaxSize = 2
  Wrap = 6
  Bytes = {zero, x}
  Zero = zero
  Junk = junk
  None = None
  MaxLen = 3
  Sizes <- MCSizes
  Writings <- MCWritings
  Offsets <- ClientOffsets
  MaxChanges = 1
  MaxShorts = 2
INVARIANTS TypeOK ReadGoesForward ShortOnlyAtEnd WriteLandsWhole
PROPERTIES ReadEnds WriteEnds
CHECK_DEADLOCK FALSE
