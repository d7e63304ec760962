CONSTANTS
  r1 = r1
  r2 = r2
  k1 = k1
  k2 = k2
  pa = pa
  pb = pb
  a1 = a1
  h1 = h1
  f1 = f1
  f2 = f2
  f3 = f3
  ka = ka
  kb = kb
  p = p
  q = q
  BadLength = BadLength
  BadParse = BadParse
  Absent = Absent
  None = None
  Rules <- MCRules
  DbKeys <- MCKeys
  KeyOrder <- MCKeyOrder
  KeyOf <- MCKeyOf
  PayloadOf <- MCPayloadOf
  StoredAs <- MCStoredAs
  Configs <- MCConfigs
  InitialDb <- MCAnyDb
  Clients <- MCClients
  MaxRules = 1
  Handlers <- MCHandlers
  Flows <- MCFlows
  InfoKeys <- MCInfoKeys
  InfoKey <- MCInfoKey
  IpFrom <- MCIpFrom
  Udp <- MCUdp
  HostMatches <- MCHostMatches
  IpMatches <- MCIpMatches
  ShouldResolve <- MCShouldResolve
  Names <- MCNames
  Adapter <- MCAdapter
  UdpNames <- MCUdpNames
  NamesIn <- MCNamesIn
  MaxGen = 1
  Modes <- MCAllModes
SPECIFICATION RSpec
INVARIANTS
  RepairedCanonical
  RoutedByMatchingRule
  CacheFollowsRules
