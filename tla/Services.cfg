\* Each of the nine services by itself.  Registrations end and bounds are
\* reached, so a service may stop.
SPECIFICATION Spec
CONSTANTS
  Parts = {"login", "registration", "two factor", "keys", "alerts", "limits", "bus", "sockets", "instruments"}
  r1 = r1
  r2 = r2
  r3 = r3
  lower = lower
  upper = upper
  Nobody = Nobody
  Requests = {r1, r2}
  LockAt = 2
  MaxNow = 1
  MaxFails = 3
  MaxPass = 2
  Registrations = {r1, r2, r3}
  Spellings = {lower, upper}
  Spelling <- OneApart
  Clients = {r1, r2}
  MaxSets = 2
  Keys = {k1, k2}
  Admins = {a1, a2}
  Alerts = {b1, b2}
  Acknowledgers = {u1, u2}
  Callers = {c1, c2}
  Limit = 1
  Weights = {1, 2}
  MaxRows = 3
  Publishers = {p1, p2}
  Subscribers = {s1, s2}
  MaxMsg = 4
  Consumers = {d1}
  Groups = {g1, g2, g3}
  Updates = {m1, m2}
  Syncs = {n1, n2}
  Editors = {e1}
  UpdateTries = 2
  SyncTries = 1
  MaxVersion = 2
INVARIANTS
  TypeOK
  LockIsEarned
  TokenIsUsedOnce
  ProfilesAreExplained
  TwinsOverlapped
  CodesAreSpent
  LimitIsForgotten
  OnlyReplacingLoses
  GroupsAreRemembered
PROPERTIES
  UndoneByStaleSave
  RevokedStaysGone
  AcknowledgedOnce
  LossIsExplained
SYMMETRY TaskSymmetry
CHECK_DEADLOCK FALSE
