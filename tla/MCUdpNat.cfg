CONSTANTS
  p1 = p1
  p2 = p2
  r1 = r1
  k1 = k1
  None = None
  Packets <- MCPackets
  Conns <- MCWithRelay
  Keys <- MCKeys
  KeyOf <- MCKeyOf
  QueueCap = 1
  Requested <- MCRequested
  DefaultMaxConns = 2
  TopLimit = 2
SPECIFICATION Spec
INVARIANTS
  SingleDialer
  NoLeakedSocket
  CounterExact
  BreakerBound
