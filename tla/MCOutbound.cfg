SPECIFICATION Spec
CONSTANTS
  Codecs = {"chunk", "aead", "gun", "mux", "obfshttp", "obfstls", "http", "ws", "trojan"}
  chunkSize = 3
  Overhead = 1
  maxLength = 2
  CountWidth = 1
  Addrs = {0, 1}
  MaxSent = 4
  MaxBuf = 3
  Targets <- MCTargets
  Logins <- MCLogins
  UserSets <- MCUserSets
  MaxData = 1
  Families = {"v4", "v6"}
  Nodes = {"p", "q"}
  Inner <- MCInner
  NodeLists <- MCNodeLists
  Dialers = {"f", "g"}
  Delays = {0, 1, 2}
  MaxShifts = 2
  Members = {"p"}
  Flows = {"f"}
  Lazy = {FALSE, TRUE}
  SemSize = 1
  Concurrency = 1
  Probes = 2
  HistoryMax = 1
  MaxChanges = 1
INVARIANTS  AdmittedIsKnown
PROPERTIES   HandshakesEnd RaceEndsClean PicksSettle 
CHECK_DEADLOCK FALSE
