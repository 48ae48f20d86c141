\* A create repeated under its idempotency key.
SPECIFICATION Spec
CONSTANTS
  None = None
  Slots = {1, 2}
  Bookings = {b1}
  Clients = {c1}
  Keys = {k1}
  Handlers = {h1}
  Offsets = {1}
  SlotStart <- MCSlotStart
  Notice = 1
  Window = 1
  RequestWindows = {0}
  Ops = {"create"}
  MaxVersion = 2
  MaxNow = 1
SYMMETRY Symmetry
INVARIANT ReplayEmitsNoEvent
