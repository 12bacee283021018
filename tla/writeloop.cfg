\* Does a write of the client always return?
SPECIFICATION FairSpec
CONSTANTS
  MaxSize = 2
  Wrap = 6
  Bytes = {zero, x}
  Zero = zero
  Junk = junk
  None = None
  MaxLen = 3
  Sizes = {}
  Writings <- MCWritings
  Offsets <- ClientOffsets
  MaxChanges = 0
  MaxShorts = 0
PROPERTY WriteReturns
CHECK_DEADLOCK FALSE
