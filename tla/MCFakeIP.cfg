CONSTANTS
  a = a
  b = b
  c = c
  Nil = Nil
  Hosts <- ThreeHosts
  Keys <- HostsAndOffsets
  Span = 3
  Size = 2
  Bases <- SmallBases
  maxSize = 4
  maxAge = 0
  updateAgeOnGet = FALSE
  staleReturn = FALSE
VIEW View
SPECIFICATION Spec
INVARIANTS MutuallyInverse
