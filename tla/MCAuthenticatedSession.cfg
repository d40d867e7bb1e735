SPECIFICATION Spec
CONSTANTS
  Fetchers = {f1, f2}
  Credentials = {c1, c2}
  None = None
  MaxFetches = 3
CHECK_DEADLOCK FALSE
INVARIANTS
  OwnAccount
  RefusedWithNewLogin
PROPERTIES
  FreshLoginKept
