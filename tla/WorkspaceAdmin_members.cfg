\* The only administrator may be deactivated and no session id be left: the system may stop.
SPECIFICATION Spec
CHECK_DEADLOCK FALSE
CONSTANTS
  w1 = w1
  w2 = w2
  a = a
  b = b
  c = c
  s1 = s1
  s2 = s2
  s3 = s3
  Nobody = Nobody
  Workspaces = {w1, w2}
  People = {a, b, c}
  SessionIds = {s1, s2, s3}
  Roles = {"admin", "operator"}
  LegacyUsers = {c}
  MaySuspend = {w2}
  MayDeactivate = {b}
  MaxExpired = 1
  MaxLogouts = 1
  MaxSeeded = 1
CONSTRAINT OneOrTwo
SYMMETRY Symmetry
INVARIANTS TypeOK AuditReplays NeverOrphaned RequestedApprovalsAwaitUnknown BlockedOnlyByOperator
PROPERTIES AdminRetained GainsAreGranted LastMembershipEndsSessions
