CONSTANTS
  r1 = r1  r2 = r2  m1 = m1  m2 = m2  c1 = c1  c2 = c2
  Runs = {r1, r2}
  Messages = {m1, m2}
  Convs = {c1, c2}
  Items <- MCItems
  ConvOf <- MCConvOf
  Nameless = {c1}
  Eligible = {m2}
  Full = {r1, r2}
  Workers = {w1}
  Configs = {k1, k2}
  NoOne = NoOne
  Gone = Gone
  NoItem = NoItem
  NoConfig = NoConfig
  NoRun = NoRun
  NoConv = NoConv
  MaxAttempts = 1
  MaxEvents = 1
SPECIFICATION Spec
INVARIANT FinishedMeansEveryMessage
