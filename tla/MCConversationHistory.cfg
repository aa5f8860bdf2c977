CONSTANTS
  Requests = {r1, r2, r3}
  Browsers = {b1, b2}
  Users = {u1, u2}
  Guest = guest
  GuestBrowser = b1
  Nobody = nobody
  TurnIds = {t1, t2}
  MaxTurns = 2
SYMMETRY Symmetry
SPECIFICATION Spec
INVARIANTS HistoryIsWhole OwnerIsolation
PROPERTY RenameSurvives
CHECK_DEADLOCK FALSE
