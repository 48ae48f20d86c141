\* Materialization, bookings and time zone changes side by side.
SPECIFICATION Spec
CONSTANTS
  None = None
  r1 = r1
  r2 = r2
  Runs = {r1, r2}
  Zones <- MCZones
  Rules <- MCRules
  Open = 540
  Close = 600
  Ahead = 0
  Horizon = 1
  FirstDay = 2
  MaxDays = 1
  MaxMoves = 1
  MaxAsked = 1
  MaxBooked = 2
SYMMETRY Symmetry
INVARIANTS TypeOK ProviderIsNotDoubleBooked ReturnedCallIsComplete BatchHasNoOverlap BatchStartsInWorkingHours
PROPERTIES RerunKeepsSlots
