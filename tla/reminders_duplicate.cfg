\* Two instances, one fault.
SPECIFICATION Spec
CONSTANTS
  None = None
  b1 = b1
  Bookings = {b1}
  Reminders = {r1}
  Instances = {p1, p2}
  BookingOf <- MCBookingOf
  Fire <- MCFire
  RetryWindow = 0
  Attempts = 2
  MaxStalled = 1
  MaxFaults = 1
  MaxCrashes = 0
  MaxNow = 2
CHECK_DEADLOCK FALSE
SYMMETRY Symmetry
INVARIANTS AtMostOneMail
