\* Two instances with one crash and one fault, one reminder.
SPECIFICATION Spec
CONSTANTS
  None = None
  b1 = b1
  Bookings = {b1}
  Reminders = {r1}
  Instances = {p1, p2}
  BookingOf <- MCBookingOf
  Fire <- MCFire
  RetryWindow = 0
  Attempts = 2
  MaxStalled = 1
  MaxFaults = 1
  MaxCrashes = 1
  MaxNow = 2
CHECK_DEADLOCK FALSE
SYMMETRY Symmetry
INVARIANTS TypeOK MailsWithinFaults EndedEarlyIsNotMailed ScheduledHasKeeper SentIsRecorded
