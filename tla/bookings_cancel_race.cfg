\* A cancel that read the booking before it was completed.
SPECIFICATION Spec
CONSTANTS
  None = None
  Slots = {1, 2}
  Bookings = {b1}
  Clients = {c1}
  Keys = {}
  Handlers = {h1, h2}
  Offsets = {1}
  SlotStart <- MCSlotStart
  Notice = 1
  Window = 1
  RequestWindows = {0}
  Ops = {"create", "cancel", "confirm"}
  MaxVersion = 3
  MaxNow = 1
SYMMETRY Symmetry
PROPERTY TerminalIsFinal
