SPECIFICATION Spec
CONSTANTS
  s1 = s1
  s2 = s2
  s3 = s3
  u1 = u1
  u2 = u2
  Sockets <- MCSockets
  Users <- MCUsers
  Owner <- MCOwner
  Broadcasters = {b1, b2}
  MAX_CONNECTIONS_PER_USER = 1
  Greets = TRUE
INVARIANTS
  StructuresAgree
  LimitUnlessOverlap
  NoDoubleSend
  EachRemovalSkipsAtMostOne
  LiveClientsTracked
PROPERTY
  DeadClientsForgotten
