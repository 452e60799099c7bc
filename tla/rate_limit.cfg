SPECIFICATION FairSpec
CONSTANTS
  ip = ip
  ident = ident
  Keys = {ip, ident}
  Workers = {w1, w2}
  Chains <- LoginAndRoute
  Limit <- SmallLimits
  Window <- SmallWindows
  MaxFailures = 1
  None = None
INVARIANTS TypeOK TwiceTheLimit
PROPERTIES LockoutEnds
