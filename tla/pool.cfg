CONSTANTS
  move = move
  cancel = cancel
  first = first
  late = late
  b0 = b0
  b1 = b1
  b2 = b2
  b3 = b3
  s0 = s0
  s1 = s1
  None = None
  MaxUnderway = 3
  Connections = {x1, x2, x3}
  Requests = {move, cancel, first, late}
  Bookings = {b0, b1, b2, b3}
  Slots = {s0, s1}
  KindOf <- MCKindOf
  BookingOf <- MCBookingOf
  TargetOf <- MCTargetOf
  MovedTo <- MCMovedTo
  PlaceOf <- MCPlaceOf
  FirstStatus <- MCFirstStatus
SPECIFICATION FairSpec
INVARIANTS
  TypeOK
  AllOrNothing
  ConnectionIsItsOwn
  PoolIsWholeAtRest
PROPERTY EveryRequestEnds
CHECK_DEADLOCK FALSE
