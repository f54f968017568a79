SPECIFICATION Spec
CONSTANTS
  w1 = w1
  w2 = w2
  a = a
  b = b
  c = c
  s1 = s1
  s2 = s2
  s3 = s3
  Nobody = Nobody
  Workspaces = {w1}
  People = {a, b}
  SessionIds = {s1, s2, s3}
  Roles = {"admin", "operator"}
  LegacyUsers = {}
  MaySuspend = {}
  MayDeactivate = {}
  MaxExpired = 0
  MaxLogouts = 0
  MaxSeeded = 0
PROPERTY SessionCreationAuthorized
