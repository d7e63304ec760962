CONSTANTS
  a = a
  c1 = c1
  c2 = c2
  m1 = m1
  m2 = m2
  f1 = f1
  p1 = p1
  Nil = Nil
  Keys = {a}
  IPKeys = {a}
  Callers = {c1, c2}
  Main = {m1, m2}
  Fallback = {f1}
  PolicyServers = {p1}
  queueSize = 2
  MaxAnswers = 2
  Configs <- MCConfigs
SPECIFICATION Spec
INVARIANTS   SoleOwner
 
