CONSTANTS
  c1 = c1
  c2 = c2
  bad = bad
  api1 = api1
  Torn = Torn
  Nil = Nil
  Contents = {c1, c2, bad}
  Bad = {bad}
  Apis = {api1}
  MaxCrashes = 1
SPECIFICATION Spec
INVARIANTS OneContent
PROPERTIES Converges LoopEnds
