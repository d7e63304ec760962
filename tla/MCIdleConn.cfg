CONSTANTS
  g1 = g1
  g2 = g2
  Copiers <- TwoCopiers
  zeroCopy = TRUE
  Timeout = 8
  Delay = 1
  MaxTime = 11
SYMMETRY Symmetry
SPECIFICATION IdleSpec
INVARIANTS NeverEarly IdleEnds
CHECK_DEADLOCK FALSE
