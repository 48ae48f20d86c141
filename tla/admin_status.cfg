CONSTANTS
  p1 = p1
  p2 = p2
  a1 = a1
  c1 = c1
  c2 = c2
  b1 = b1
  b2 = b2
  s0 = s0
  s1 = s1
  w1 = w1
  w2 = w2
  None = None
  Providers = {p1, p2}
  Admins = {a1}
  Clients = {c1, c2}
  Passwords = {w1, w2}
  PasswordOf <- MCPasswordOf
  Lifetime = 2
  AdminLifetime = 1
  MaxNow = 2
  MaxIssued = 3
  Bookings = {b1, b2}
  OwnerOf <- MCOwnerOf
  FirstVersion <- MCFirstVersion
  Filters <- MCFilters
  Changes <- MCChanges
  Slugs = {s0, s1}
  DefaultSlug = s0
  FirstRow <- MCFirstRow
  MaxSteps = 3
  MaxFaults = 0
SPECIFICATION Spec
INVARIANT SignedInAdminIsLetIn
CHECK_DEADLOCK FALSE
