\* The client cancel, with its unlocked read, against the other client endpoints.
SPECIFICATION Spec
CONSTANTS
  None = None
  Slots = {1, 2}
  Bookings = {b1, b2, b3}
  Clients = {c1}
  Keys = {}
  Handlers = {h1, h2}
  Offsets = {1}
  SlotStart <- MCSlotStart
  Notice = 1
  Window = 1
  RequestWindows = {0, 1}
  Ops = {"create", "reschedule", "cancel", "confirm"}
  MaxVersion = 3
  MaxNow = 2
SYMMETRY Symmetry
INVARIANTS BookedSlotIsHeld OneLivePerAppointment OneReminderSetPerAppointment
PROPERTY ImplementsCalendar
