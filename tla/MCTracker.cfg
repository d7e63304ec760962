CONSTANTS
  c1 = c1
  u1 = u1
  a1 = a1
  sw = sw
  Tcp <- OneTcp
  Udp <- OneUdp
  Apis <- ApiSet
  Sweeper = sw
SPECIFICATION Spec
INVARIANTS SocketsReleased ListedAfterwardsIsMarked OpenIsListed
