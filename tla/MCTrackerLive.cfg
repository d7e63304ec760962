CONSTANTS
  c1 = c1
  u1 = u1
  a1 = a1
  sw = sw
  Tcp <- OneTcp
  Udp <- NoUdp
  Apis <- ApiSet
  Sweeper = sw
SPECIFICATION FairSpec
PROPERTIES TeardownPropagates FailuresCollected
