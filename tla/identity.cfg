\* Two hosts of one network share an identity.
SPECIFICATION Spec
CONSTANTS
  Hosts = {h1, h2}
  Octets = {10, 204}
  None = None
INVARIANT DistinctIdentities
