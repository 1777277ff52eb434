\* Two processes, three threads.
SPECIFICATION Spec
CONSTANTS
  p1 = p1
  p2 = p2
  t1 = t1
  t2 = t2
  t3 = t3
  v1 = v1
  Procs = {p1, p2}
  Threads = {t1, t2, t3}
  Home <- TwoAndOne
  Values = {v1, v2}
  Nothing = Nothing
  Defaults <- SomeDefaults
INVARIANTS
  TypeOK
  StaleIsExplained
PROPERTIES
  StaleHeals
