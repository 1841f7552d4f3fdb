SPECIFICATION Spec
CONSTANTS
  h1 = h1
  r1 = r1
  r2 = r2
  gw = gw
  t1 = t1
  s1 = s1
  s2 = s2
  n1 = n1
  n2 = n2
  nobody = nobody
  other = other
  None = None
  Gateway = gw
  Admissions <- NoTokens
  AllowLocal = TRUE
  Hubs = {h1}
  RouteOf <- OneRoute
  Offers <- NoOffers
  Attempts <- Twice
  Requests = {}
  Queries = {}
INVARIANT NameIsFreed
CHECK_DEADLOCK FALSE
