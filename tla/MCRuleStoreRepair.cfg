CONSTANTS
  r1 = r1
  r2 = r2
  r3 = r3
  k1 = k1
  k2 = k2
  k3 = k3
  pa = pa
  pb = pb
  a1 = a1
  BadLength = BadLength
  BadParse = BadParse
  Absent = Absent
  Rules <- MCRules
  DbKeys <- MCKeys
  KeyOrder <- MCKeyOrder
  KeyOf <- MCKeyOf
  PayloadOf <- MCPayloadOf
  StoredAs <- MCStoredAsIs
  Configs <- MCEmptyConfig
  InitialDb <- MCAnyDb
  Clients <- MCNoClient
  MaxRules = 1
SPECIFICATION Spec
INVARIANT
  RepairKeepsRules
