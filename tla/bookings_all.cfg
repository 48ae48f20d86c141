\* Every endpoint, with an idempotency key.
SPECIFICATION Spec
CONSTANTS
  None = None
  Slots = {1, 2}
  Bookings = {b1, b2}
  Clients = {c1}
  Keys = {k1}
  Handlers = {h1, h2}
  Offsets = {1}
  SlotStart <- MCSlotStart
  Notice = 1
  Window = 1
  RequestWindows = {0}
  Ops = {"create", "reschedule", "cancel", "confirm", "decline", "status"}
  MaxVersion = 2
  MaxNow = 1
SYMMETRY Symmetry
INVARIANTS TypeOK OneLiveBookingPerSlot CreatedNamesRequest
PROPERTY KeyIsBoundOnce
