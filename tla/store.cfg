SPECIFICATION FairSpec
CONSTANTS
  c1 = c1
  c2 = c2
  r1 = r1
  r2 = r2
  f1 = f1
  f2 = f2
  s1 = s1
  s2 = s2
  a1 = a1
  a2 = a2
  a3 = a3
  a4 = a4
  Collector = Collector
  NoRef = NoRef
  NoCloud = NoCloud
  NoSnapshot = NoSnapshot
  NoAnswer = NoAnswer
  Failed = Failed
  Free = Free
  Clouds = {c1, c2}
  Readers = {r1}
  Families = {f1}
  Services = {s1}
  Refs = {a1, a2, a3, a4}
INVARIANTS TypeOK OnlyCollectorWrites MapGuarded
PROPERTIES ImplementsStore RequestsAnswered
