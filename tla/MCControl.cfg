SPECIFICATION Spec
CONSTANTS
  RawConfigs <- MCRawConfigs
  Plans <- MCPlans
  PatchPlans <- MCPatchPlans
  Puts = {a1, a2}
  Patches = {b1}
  MaxFails = 1
  MaxCalls = 3
  Patterns <- MCPatterns
  DomainNames <- MCDomainNames
  RuleLists <- MCRuleLists
  Metas <- MCMetas
  HostsIp <- MCHostsIp
  DnsIp <- MCDnsIp
  ProxyNames = {"p", "q"}
  UdpProxies = {"q"}
  Hosts = {"a", "b", "h", "g"}
  V4 = {"1", "2"}
  V6 = {"6"}
  HostsTable <- MCHostsTable
  ADGurdRules = {"g"}
  Upstream <- MCUpstream
  MapSize = 2
  QueueSize = 1
  Queries = {"x", "y"}
  MaxAsks = 2
  MaxEpochs = 2
  MaxRestarts = 1
INVARIANTS  AcceptedIsUsable ListensWhereAsked OneConfiguration TrieFinds  
 
CHECK_DEADLOCK FALSE
