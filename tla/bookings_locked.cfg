\* The endpoints that lock the booking they change.
SPECIFICATION Spec
CONSTANTS
  None = None
  Slots = {1, 2}
  Bookings = {b1, b2, b3}
  Clients = {c1}
  Keys = {}
  Handlers = {h1, h2, h3}
  Offsets = {1}
  SlotStart <- MCSlotStart
  Notice = 1
  Window = 1
  RequestWindows = {0, 1}
  Ops = {"create", "reschedule", "confirm", "decline"}
  MaxVersion = 3
  MaxNow = 2
SYMMETRY Symmetry
INVARIANT OpenSlotIsFree
PROPERTY TerminalIsFinal
