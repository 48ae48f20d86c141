\* One instance that crashes once; the provider may refuse.
SPECIFICATION FairSpec
CONSTANTS
  None = None
  b1 = b1
  Bookings = {b1}
  Reminders = {r1}
  Instances = {p1, p2}
  BookingOf <- MCBookingOf
  Fire <- MCFire
  RetryWindow = 0
  Attempts = 2
  MaxStalled = 1
  MaxFaults = 0
  MaxCrashes = 1
  MaxNow = 2
CHECK_DEADLOCK FALSE
PROPERTIES ScheduledIsTakenUp ClaimIsSettled
