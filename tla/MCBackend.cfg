SPECIFICATION Spec
CONSTANTS
  Requests = {q1, q2}
  Deciders = {d1, d2}
  Handlers = {h1, h2}
  Payloads <- MCPayloads
  Warnings <- MCWarnings
  Cooldown = 1
  MaxTime = 1
  Callers = {c1, c2, c3}
  Clients = {x1, x2, x3}
  NoClient = NoClient
  RetryAfter = 1
  MaxSeconds = 1
  MaxOverlaps = 1
  Overviews = {o1, o2}
  Ttl = 1
  Soon = 1
  TooLong = 1
  Backoff <- MCBackoff
  MaxTick = 2
  MaxTraffic = 1
  MaxBoots = 2
SYMMETRY MCSymmetry
INVARIANT DecisionsFit AlertsFit ClientsFit ReadingsFit
CHECK_DEADLOCK FALSE
