------------------------- MODULE ChronosSlotsProofs -------------------------
(***************************************************************************)
(* Theorems about what goes with the bookings table: the statuses of the   *)
(* slots, the reminder rows, and the answers of POST /bookings.            *)
(***************************************************************************)
EXTENDS ChronosBookingsProofs

------------------------------------------------------------------------------
(* The ways a step changes slots, bookings and reminders together. *)

\* Reminder rows are cancelled, and nothing else happens to them.
RemindersFade ==
  \A b \in Bookings, o \in Offsets :
    \/ reminders'[b][o] = reminders[b][o]
    \/ reminders[b][o] = "scheduled" /\ reminders'[b][o] = "cancelled"

TakesSlot ==
  \E b \in Fresh, s \in Slots, c \in Clients : \E t :
    /\ slots[s] = "open"
    /\ slots' = [slots EXCEPT ![s] = "booked"]
    /\ bookings' = [bookings EXCEPT ![b] = NewRow(s, c, 1, b)]
    /\ reminders' = [reminders EXCEPT ![b] = Scheduled(s, t)]

\* The bookings once o has been moved to slot s under the id b.
MovedTo(b, o, s) ==
  [bookings EXCEPT
     ![o].status = "cancelled",
     ![b] = NewRow(s, bookings[o].client, bookings[o].version + 1, bookings[o].origin)]

\* The rows of o cancelled and those of b, a booking of slot s, inserted.
RemindersMoved(b, o, s) ==
  \E t : reminders' = [reminders EXCEPT ![o] = RowsCancelled(o), ![b] = Scheduled(s, t)]

MovesSlot ==
  \E b \in Fresh, o \in Bookings, s \in Slots :
    /\ bookings[o].status = "booked" /\ slots[s] = "open"
    /\ slots' = SlotsMoved(s, bookings[o].slot)
    /\ bookings' = MovedTo(b, o, s)
    /\ RemindersMoved(b, o, s)

OpensSlot ==
  \E b \in Bookings :
    /\ "cancel" \in Ops /\ Exists(b)
    /\ slots' = [slots EXCEPT ![bookings[b].slot] = "open"]
    /\ bookings' = [bookings EXCEPT ![b].status = "cancelled"]
    /\ RemindersFade

\* Without PATCH, a booked booking is completed, or declined and its slot left as it is.
UpdatesOne ==
  \E b \in Bookings, st \in BookingStatus :
    /\ Exists(b) /\ bookings' = Updated(b, st)
    /\ \/ "status" \in Ops
       \/ bookings[b].status = "booked" /\ (st = "completed" \/ "decline" \in Ops)

KeepsSlots ==
  /\ slots' = slots /\ RemindersFade
  /\ UNCHANGED bookings \/ UpdatesOne

TableStep == TakesSlot \/ MovesSlot \/ OpensSlot \/ KeepsSlots

LEMMA SameRemindersFade ==
  ASSUME UNCHANGED reminders PROVE RemindersFade
BY DEF RemindersFade

LEMMA UnscheduledFade ==
  ASSUME NEW x, reminders' = Unscheduled(x) PROVE RemindersFade
BY DEF RemindersFade, Unscheduled

\* Every step of every endpoint is one of the four.
LEMMA TableSteps ==
  ASSUME TypeOK, Next
  PROVE  TableStep
<1> USE SameRemindersFade DEF TableStep
<1>1. CASE UNCHANGED db
  BY <1>1 DEF KeepsSlots, db
<1>2. ASSUME NEW h \in Handlers, CreateBook(h)
      PROVE  TableStep
  <2>1. handlers[h].slot \in Slots /\ handlers[h].client \in Clients /\ now \in Nat
    BY <1>2 DEF CreateBook, TypeOK, HandlerOK
  <2>2. CASE ~UNCHANGED db
    <3>1. PICK b \in Fresh :
            /\ slots[handlers[h].slot] = "open"
            /\ slots' = [slots EXCEPT ![handlers[h].slot] = "booked"]
            /\ bookings' = [bookings EXCEPT
                              ![b] = NewRow(handlers[h].slot, handlers[h].client, 1, b)]
            /\ reminders' = [reminders EXCEPT ![b] = Scheduled(handlers[h].slot, now)]
      BY <1>2, <2>2 DEF CreateBook, Bookable
    <3>q. QED
      BY <2>1, <3>1 DEF TakesSlot
  <2>q. QED
    BY <1>1, <2>2
<1>3. ASSUME NEW h \in Handlers, RescheduleMove(h)
      PROVE  TableStep
  <2>1. handlers[h].slot \in Slots /\ handlers[h].booking \in Bookings
    BY <1>3 DEF RescheduleMove, TypeOK, HandlerOK
  <2>2. CASE ~UNCHANGED db
    <3>1. PICK b \in Fresh :
            /\ MoveVerdict(handlers[h]) = 201
            /\ slots' = SlotsMoved(handlers[h].slot, bookings[handlers[h].booking].slot)
            /\ bookings' = MovedTo(b, handlers[h].booking, handlers[h].slot)
            /\ RemindersMoved(b, handlers[h].booking, handlers[h].slot)
      BY <1>3, <2>2 DEF RescheduleMove, MovedTo, RemindersMoved
    <3>2. /\ bookings[handlers[h].booking].status = "booked"
          /\ slots[handlers[h].slot] = "open"
      BY <3>1 DEF MoveVerdict
    <3>q. QED
      BY <2>1, <3>1, <3>2 DEF MovesSlot
  <2>q. QED
    BY <1>1, <2>2
<1>4. ASSUME NEW h \in Handlers, CancelWrite(h)
      PROVE  OpensSlot
  <2> DEFINE q == handlers[h]
  <2>1. /\ q \in Handler /\ q.op = "cancel" /\ q.booking \in Bookings /\ Exists(q.booking)
        /\ q.slot = bookings[q.booking].slot
    BY <1>4 DEF CancelWrite, TypeOK, HandlerOK
  <2>2. "cancel" \in Ops
    BY <2>1, IdsAssumption DEF Handler, Endpoints
  <2>3. RemindersFade
    BY <1>4, UnscheduledFade DEF CancelWrite
  <2>q. QED
    BY <1>4, <2>1, <2>2, <2>3 DEF CancelWrite, OpensSlot
<1>5. ASSUME NEW h \in Handlers, NEW c \in Clients, NEW b \in Bookings,
             Confirm(h, c, b) \/ Decline(h, c, b)
      PROVE  KeepsSlots
  BY <1>5 DEF Confirm, Decline, LockVerdict, OwnerVerdict, KeepsSlots, UpdatesOne, BookingStatus
<1>6. ASSUME NEW h \in Handlers, NEW c \in Clients, NEW b \in Bookings,
             NEW st \in StatusRequests, SetStatus(h, c, b, st)
      PROVE  KeepsSlots
  BY <1>6 DEF SetStatus, StatusVerdict, OwnerVerdict, KeepsSlots, UpdatesOne, BookingStatus
<1>7. ASSUME NEW h \in Handlers, Unschedule(h)
      PROVE  KeepsSlots
  BY <1>7, UnscheduledFade DEF Unschedule, KeepsSlots
<1>8. ASSUME NEW h \in Handlers, Create(h) \/ Cancel(h) \/ Reschedule(h) \/ Update(h)
      PROVE  TableStep
  BY <1>1, <1>2, <1>3, <1>4, <1>5, <1>6, <1>7, <1>8
     DEF Create, CreateLookup, CreateFinish, Cancel, CancelRead, Reschedule, RescheduleCheck,
         Update
<1>q. QED
  BY <1>1, <1>8 DEF Next, Restart, Tick

------------------------------------------------------------------------------
(* Slots and the bookings that hold them. *)

\* The row of an existing booking has a slot.
LEMMA SlotOfBooking ==
  ASSUME TypeOK, NEW b \in Bookings, Exists(b) PROVE bookings[b].slot \in Slots
BY DEF TypeOK, Exists, Row, NoRow

\* What the four kinds of steps make of the single rows.
LEMMA TakenRows ==
  ASSUME TypeOK, NEW b \in Fresh, NEW s \in Slots, NEW c \in Clients,
         bookings' = [bookings EXCEPT ![b] = NewRow(s, c, 1, b)]
  PROVE  /\ b \in Bookings /\ ~Live(b) /\ Live(b)' /\ bookings'[b].slot = s
         /\ \A x \in Bookings \ {b} : bookings'[x] = bookings[x]
BY DEF TypeOK, Fresh, Exists, Live, NewRow

LEMMA MovedRows ==
  ASSUME TypeOK, NEW b \in Fresh, NEW o \in Bookings, NEW s \in Slots,
         bookings[o].status = "booked",
         bookings' = MovedTo(b, o, s)
  PROVE  /\ b \in Bookings /\ b # o /\ Live(b)' /\ bookings'[b].slot = s
         /\ Live(o) /\ ~Live(o)'
         /\ \A x \in Bookings \ {b, o} : bookings'[x] = bookings[x]
<1>1. b \in Bookings /\ b # o
  BY DEF Fresh, Exists
<1>q. QED
  BY <1>1 DEF TypeOK, Live, MovedTo, NewRow, Row, NoRow

LEMMA UpdatedRows ==
  ASSUME TypeOK, NEW b \in Bookings, NEW st, Exists(b), bookings' = Updated(b, st)
  PROVE  /\ bookings'[b].slot = bookings[b].slot /\ bookings'[b].status = st
         /\ \A x \in Bookings \ {b} : bookings'[x] = bookings[x]
BY DEF TypeOK, Updated, Exists, Row, NoRow

LEMMA CancelledRows ==
  ASSUME TypeOK, NEW b \in Bookings, Exists(b),
         bookings' = [bookings EXCEPT ![b].status = "cancelled"]
  PROVE  /\ ~Live(b)'
         /\ \A x \in Bookings \ {b} : bookings'[x] = bookings[x]
BY DEF TypeOK, Exists, Live, Row, NoRow

LEMMA MovedSlots ==
  ASSUME TypeOK, NEW s \in Slots, NEW old \in Slots, slots' = SlotsMoved(s, old)
  PROVE  \A t \in Slots :
           slots'[t] = IF t = old THEN "open" ELSE IF t = s THEN "booked" ELSE slots[t]
BY DEF TypeOK, SlotsMoved

LEMMA OpenSlotStep ==
  ASSUME "cancel" \notin Ops, "status" \notin Ops,
         TypeOK, OneLiveBookingPerSlot, OpenSlotIsFree, Next
  PROVE  OpenSlotIsFree'
<1>1. CASE TakesSlot
  <2> PICK b \in Fresh, s \in Slots, c \in Clients :
        /\ slots' = [slots EXCEPT ![s] = "booked"]
        /\ bookings' = [bookings EXCEPT ![b] = NewRow(s, c, 1, b)]
    BY <1>1 DEF TakesSlot
  <2>1. slots'[s] = "booked" /\ \A t \in Slots \ {s} : slots'[t] = slots[t]
    BY DEF TypeOK
  <2>2. ASSUME NEW x \in Bookings \ {b}, Live(x)
        PROVE  slots'[bookings[x].slot] = "booked"
    BY <2>1, <2>2, SlotOfBooking DEF OpenSlotIsFree, Live, Exists
  <2>3. /\ b \in Bookings /\ bookings'[b].slot = s
        /\ \A x \in Bookings \ {b} : bookings'[x] = bookings[x]
    BY TakenRows
  <2>4. \A x \in Bookings \ {b} : Live(x)' => Live(x)
    BY <2>3 DEF Live
  <2>5. ASSUME NEW x \in Bookings, Live(x)'
        PROVE  slots'[bookings'[x].slot] = "booked"
    <3>1. CASE x = b
      BY <2>1, <2>3, <3>1
    <3>2. CASE x # b
      BY <2>2, <2>3, <2>4, <2>5, <3>2
    <3>q. QED
      BY <3>1, <3>2
  <2>q. QED
    BY <2>5 DEF OpenSlotIsFree
<1>2. CASE MovesSlot
  <2> PICK b \in Fresh, o \in Bookings, s \in Slots :
        /\ bookings[o].status = "booked" /\ slots[s] = "open"
        /\ slots' = SlotsMoved(s, bookings[o].slot)
        /\ bookings' = MovedTo(b, o, s)
    BY <1>2 DEF MovesSlot
  <2>1. Live(o) /\ bookings[o].slot \in Slots
    BY SlotOfBooking DEF Live, Exists
  <2>2. s # bookings[o].slot
    BY <2>1 DEF OpenSlotIsFree
  <2>3. slots'[s] = "booked"
    BY <2>1, <2>2, MovedSlots
  <2>4. ASSUME NEW x \in Bookings \ {b, o}, Live(x)
        PROVE  slots'[bookings[x].slot] = "booked"
    <3>1. bookings[x].slot # bookings[o].slot
      BY <2>1, <2>4 DEF OneLiveBookingPerSlot
    <3>2. bookings[x].slot \in Slots /\ slots[bookings[x].slot] = "booked"
      BY <2>4, SlotOfBooking DEF OpenSlotIsFree, Live, Exists
    <3>q. QED
      BY <2>1, <3>1, <3>2, MovedSlots
  <2>5. /\ b \in Bookings /\ bookings'[b].slot = s /\ ~Live(o)'
        /\ \A x \in Bookings \ {b, o} : bookings'[x] = bookings[x]
    BY MovedRows
  <2>6. \A x \in Bookings \ {b, o} : Live(x)' => Live(x)
    BY <2>5 DEF Live
  <2>7. ASSUME NEW x \in Bookings, Live(x)'
        PROVE  slots'[bookings'[x].slot] = "booked"
    <3>1. CASE x = b
      BY <2>3, <2>5, <3>1
    <3>2. CASE x # b
      <4>1. x # o
        BY <2>5, <2>7
      <4>q. QED
        BY <2>4, <2>5, <2>6, <2>7, <3>2, <4>1
    <3>q. QED
      BY <3>1, <3>2
  <2>q. QED
    BY <2>7 DEF OpenSlotIsFree
<1>3. CASE KeepsSlots
  <2>1. CASE UNCHANGED bookings
    BY <1>3, <2>1 DEF KeepsSlots, OpenSlotIsFree, Live
  <2>2. CASE UpdatesOne
    <3> PICK b \in Bookings, st \in BookingStatus :
          Exists(b) /\ bookings' = Updated(b, st) /\ bookings[b].status = "booked"
      BY <2>2 DEF UpdatesOne
    <3>q. QED
      BY <1>3, UpdatedRows DEF KeepsSlots, OpenSlotIsFree, Live
  <2>q. QED
    BY <1>3, <2>1, <2>2 DEF KeepsSlots
<1>q. QED
  BY <1>1, <1>2, <1>3, TableSteps DEF TableStep, OpensSlot

\* With the endpoints that lock the booking they change, a slot offered as open is not
\* taken, however creates, reschedules, confirmations and declines interleave.
THEOREM OpenSlotsAreFree ==
  ASSUME "cancel" \notin Ops, "status" \notin Ops
  PROVE  Spec => []OpenSlotIsFree
<1>1. Init => OpenSlotIsFree
  BY DEF Init, OpenSlotIsFree, Live, NoRow
<1>2. TypeOK /\ OneLiveBookingPerSlot /\ OpenSlotIsFree /\ [Next]_vars => OpenSlotIsFree'
  <2>1. CASE Next
    BY <2>1, OpenSlotStep
  <2>2. CASE UNCHANGED vars
    BY <2>2 DEF vars, OpenSlotIsFree, Live
  <2>q. QED
    BY <2>1, <2>2
<1>q. QED
  BY <1>1, <1>2, TypeCorrect, NoDoubleBooking, PTL DEF Spec

LEMMA BookedSlotStep ==
  ASSUME "decline" \notin Ops, "status" \notin Ops, TypeOK, BookedSlotIsHeld, Next
  PROVE  BookedSlotIsHeld'
<1> SUFFICES ASSUME NEW t \in Slots, slots'[t] = "booked"
             PROVE  \E x \in Bookings : Live(x)' /\ bookings'[x].slot = t
  BY DEF BookedSlotIsHeld
<1>1. CASE TakesSlot
  <2> PICK b \in Fresh, s \in Slots, c \in Clients :
        /\ slots' = [slots EXCEPT ![s] = "booked"]
        /\ bookings' = [bookings EXCEPT ![b] = NewRow(s, c, 1, b)]
    BY <1>1 DEF TakesSlot
  <2>1. CASE t = s
    BY <2>1, TakenRows
  <2>2. CASE t # s
    <3>1. PICK x \in Bookings : Live(x) /\ bookings[x].slot = t
      BY <2>2 DEF TypeOK, BookedSlotIsHeld
    <3>q. QED
      BY <3>1, TakenRows DEF Live
  <2>q. QED
    BY <2>1, <2>2
<1>2. CASE MovesSlot
  <2> PICK b \in Fresh, o \in Bookings, s \in Slots :
        /\ bookings[o].status = "booked"
        /\ slots' = SlotsMoved(s, bookings[o].slot)
        /\ bookings' = MovedTo(b, o, s)
    BY <1>2 DEF MovesSlot
  <2>1. bookings[o].slot \in Slots
    BY SlotOfBooking DEF Exists
  <2>2. t # bookings[o].slot /\ (t = s \/ slots[t] = "booked")
    BY <2>1, MovedSlots
  <2>3. /\ b \in Bookings /\ Live(b)' /\ bookings'[b].slot = s
        /\ \A x \in Bookings \ {b, o} : bookings'[x] = bookings[x]
    BY MovedRows
  <2>4. CASE t = s
    BY <2>3, <2>4
  <2>5. CASE t # s
    <3>1. PICK x \in Bookings : Live(x) /\ bookings[x].slot = t
      BY <2>2, <2>5 DEF BookedSlotIsHeld
    <3>2. x # o /\ x # b
      BY <2>2, <3>1 DEF Fresh, Exists, Live
    <3>q. QED
      BY <2>3, <3>1, <3>2 DEF Live
  <2>q. QED
    BY <2>4, <2>5
<1>3. CASE OpensSlot
  <2> PICK b \in Bookings :
        /\ Exists(b)
        /\ slots' = [slots EXCEPT ![bookings[b].slot] = "open"]
        /\ bookings' = [bookings EXCEPT ![b].status = "cancelled"]
    BY <1>3 DEF OpensSlot
  <2>1. t # bookings[b].slot /\ slots[t] = "booked"
    BY SlotOfBooking DEF TypeOK
  <2>2. PICK x \in Bookings : Live(x) /\ bookings[x].slot = t
    BY <2>1 DEF BookedSlotIsHeld
  <2>q. QED
    BY <2>1, <2>2, CancelledRows DEF Live
<1>4. CASE KeepsSlots
  <2>1. PICK x \in Bookings : Live(x) /\ bookings[x].slot = t
    BY <1>4 DEF KeepsSlots, BookedSlotIsHeld
  <2>2. CASE UNCHANGED bookings
    BY <2>1, <2>2 DEF Live
  <2>3. CASE UpdatesOne
    <3> PICK b \in Bookings : Exists(b) /\ bookings' = Updated(b, "completed")
      BY <2>3 DEF UpdatesOne
    <3>q. QED
      BY <2>1, UpdatedRows DEF Live
  <2>q. QED
    BY <1>4, <2>2, <2>3 DEF KeepsSlots
<1>q. QED
  BY <1>1, <1>2, <1>3, <1>4, TableSteps DEF TableStep

\* Without decline and PATCH, which free a booking and leave its slot, no slot is lost to
\* the calendar: not by the reads of a cancel that are stale when it writes, and not by a
\* reschedule that swaps two slots.
THEOREM BookedSlotsAreHeld ==
  ASSUME "decline" \notin Ops, "status" \notin Ops
  PROVE  Spec => []BookedSlotIsHeld
<1>1. Init => BookedSlotIsHeld
  BY DEF Init, BookedSlotIsHeld
<1>2. TypeOK /\ BookedSlotIsHeld /\ [Next]_vars => BookedSlotIsHeld'
  <2>1. CASE Next
    BY <2>1, BookedSlotStep
  <2>2. CASE UNCHANGED vars
    BY <2>2 DEF vars, BookedSlotIsHeld, Live
  <2>q. QED
    BY <2>1, <2>2
<1>q. QED
  BY <1>1, <1>2, TypeCorrect, PTL DEF Spec

------------------------------------------------------------------------------
(* What a 201 of POST /bookings names. *)

Names(b, s, c) ==
  b \in Bookings /\ Exists(b) /\ bookings[b].slot = s /\ bookings[b].client = c

\* A create about to answer, and a stored key of a create, name a booking as requested.
EnqueuesName ==
  \A h \in Handlers : handlers[h].pc = "enqueue" =>
    Names(handlers[h].booking, handlers[h].slot, handlers[h].client)
KeysName ==
  \A c \in Clients, k \in Keys : keys[<<c, k>>].op = "create" =>
    Names(keys[<<c, k>>].booking, keys[<<c, k>>].slot, c)

NamesInv == EnqueuesName /\ KeysName /\ CreatedNamesRequest

\* A booking keeps its slot and its client for good.
LEMMA NamesStay ==
  ASSUME TypeOK, Next, NEW b, NEW s, NEW c, Names(b, s, c)
  PROVE  Names(b, s, c)'
<1> USE DEF Names
<1>1. CASE TakesSlot
  BY <1>1 DEF TakesSlot, Fresh, Exists, NewRow, TypeOK
<1>2. CASE MovesSlot
  BY <1>2 DEF MovesSlot, MovedTo, Fresh, Exists, NewRow, TypeOK, Row, NoRow
<1>3. CASE OpensSlot
  BY <1>3 DEF OpensSlot, Exists, TypeOK, Row, NoRow
<1>4. CASE KeepsSlots
  <2>1. CASE UNCHANGED bookings
    BY <2>1 DEF Exists
  <2>2. CASE UpdatesOne
    <3>1. PICK x \in Bookings, st \in BookingStatus : Exists(x) /\ bookings' = Updated(x, st)
      BY <2>2 DEF UpdatesOne
    <3>2. CASE x = b
      BY <3>1, <3>2 DEF Updated, Exists, TypeOK, Row, NoRow, BookingStatus
    <3>3. CASE x # b
      BY <3>1, <3>3 DEF Updated, Exists, TypeOK
    <3>q. QED
      BY <3>2, <3>3
  <2>q. QED
    BY <1>4, <2>1, <2>2 DEF KeepsSlots
<1>q. QED
  BY <1>1, <1>2, <1>3, <1>4, TableSteps DEF TableStep

\* The steps that neither get a create past its COMMIT, nor store a key, nor answer one.
NoCreate ==
  /\ \A h \in Handlers : handlers'[h] = handlers[h] \/ handlers'[h].pc # "enqueue"
  /\ keys' = keys
  /\ last'.op # "create"

LEMMA NoCreateStep ==
  ASSUME TypeOK, NamesInv, Next, NoCreate
  PROVE  NamesInv'
<1>1. EnqueuesName'
  BY NamesStay DEF NamesInv, EnqueuesName, NoCreate, Names, Exists
<1>2. KeysName'
  BY NamesStay DEF NamesInv, KeysName, NoCreate, Names, Exists
<1>3. CreatedNamesRequest'
  BY DEF CreatedNamesRequest, NoCreate
<1>q. QED
  BY <1>1, <1>2, <1>3 DEF NamesInv

LEMMA NoCreateEnd ==
  ASSUME TypeOK, NEW h \in Handlers, End(h), UNCHANGED keys PROVE NoCreate
BY IdsAssumption DEF TypeOK, End, Succeed, Idle, NoAnswer, NoCreate, Endpoints

LEMMA NoCreateContinue ==
  ASSUME TypeOK, NEW h \in Handlers, NEW q, q.pc # "enqueue", Continue(h, q), UNCHANGED keys
  PROVE  NoCreate
BY IdsAssumption DEF TypeOK, Continue, NoAnswer, NoCreate, Endpoints

LEMMA CreateLookupNames ==
  ASSUME TypeOK, NamesInv, Next,
         NEW h \in Handlers, NEW c \in Clients, NEW s \in Slots, NEW k \in Keys \cup {None},
         CreateLookup(h, c, s, k)
  PROVE  NamesInv'
<1>1. UNCHANGED keys
  BY DEF CreateLookup, db
<1>2. CASE End(h)
  BY <1>1, <1>2, NoCreateEnd, NoCreateStep
<1>3. CASE /\ KeyTaken(c, k) /\ SameRequest(keys[<<c, k>>], s)
           /\ Created(h, c, s, keys[<<c, k>>].booking, TRUE)
  <2>1. k \in Keys /\ Names(keys[<<c, k>>].booking, s, c)
    BY <1>3 DEF KeyTaken, SameRequest, NamesInv, KeysName
  <2>2. Names(keys[<<c, k>>].booking, s, c)'
    BY <1>1, <2>1, NamesStay DEF Names
  <2>3. CreatedNamesRequest'
    BY <1>1, <1>3, <2>2 DEF Created, Succeed, CreatedNamesRequest, Names
  <2>4. EnqueuesName' /\ KeysName'
    BY <1>1, <1>3, NamesStay DEF Created, Succeed, Idle, TypeOK, NamesInv, EnqueuesName, KeysName
  <2>q. QED
    BY <2>3, <2>4 DEF NamesInv
<1>4. CASE Continue(h, [Idle EXCEPT !.pc = "book", !.op = "create", !.client = c,
                                    !.slot = s, !.key = k, !.at = now])
  BY <1>1, <1>4, NoCreateContinue, NoCreateStep DEF Idle
<1>q. QED
  BY <1>2, <1>3, <1>4 DEF CreateLookup

LEMMA CreateBookNames ==
  ASSUME TypeOK, NamesInv, Next, NEW h \in Handlers, CreateBook(h)
  PROVE  NamesInv'
<1> DEFINE q == handlers[h]
<1>1. CASE End(h) /\ UNCHANGED db
  BY <1>1, NoCreateEnd, NoCreateStep DEF db
<1>2. CASE ~(End(h) /\ UNCHANGED db)
  <2>1. PICK b \in Fresh :
          /\ bookings' = [bookings EXCEPT ![b] = NewRow(q.slot, q.client, 1, b)]
          /\ keys' = KeyStored(q.client, q.key, "create", q.slot, b)
          /\ Continue(h, [q EXCEPT !.pc = "enqueue", !.booking = b])
    BY <1>2 DEF CreateBook
  <2>2. q \in Handler
    BY DEF TypeOK, HandlerOK
  <2>3. /\ b \in Bookings /\ bookings'[b].status # "none"
        /\ bookings'[b].slot = q.slot /\ bookings'[b].client = q.client
    BY <2>1 DEF Fresh, NewRow, TypeOK
  <2>4. EnqueuesName'
    BY <2>1, <2>2, <2>3, NamesStay
       DEF Continue, TypeOK, NamesInv, EnqueuesName, Handler, Names, Exists
  <2>5. KeysName'
    <3> SUFFICES ASSUME NEW c \in Clients, NEW k \in Keys, keys'[<<c, k>>].op = "create"
                 PROVE  Names(keys[<<c, k>>].booking, keys[<<c, k>>].slot, c)'
      BY DEF KeysName
    <3>1. CASE keys'[<<c, k>>] = keys[<<c, k>>]
      BY <3>1, NamesStay DEF NamesInv, KeysName, Names, Exists
    <3>2. CASE keys'[<<c, k>>] # keys[<<c, k>>]
      <4>1. /\ c = q.client
            /\ keys'[<<c, k>>] = [op |-> "create", slot |-> q.slot, booking |-> b]
        BY <2>1, <3>2 DEF KeyStored, TypeOK
      <4>q. QED
        BY <2>3, <4>1 DEF Names, Exists
    <3>q. QED
      BY <3>1, <3>2
  <2>6. CreatedNamesRequest'
    BY <2>1, IdsAssumption DEF Continue, NoAnswer, CreatedNamesRequest, Endpoints
  <2>q. QED
    BY <2>4, <2>5, <2>6 DEF NamesInv
<1>q. QED
  BY <1>1, <1>2

LEMMA CreateFinishNames ==
  ASSUME TypeOK, NamesInv, Next, NEW h \in Handlers, CreateFinish(h)
  PROVE  NamesInv'
<1> DEFINE q == handlers[h]
<1>1. UNCHANGED <<bookings, keys>>
  BY DEF CreateFinish, db
<1>2. CASE End(h)
  BY <1>1, <1>2, NoCreateEnd, NoCreateStep
<1>3. CASE Created(h, q.client, q.slot, q.booking, FALSE)
  <2>1. Names(q.booking, q.slot, q.client)
    BY DEF CreateFinish, NamesInv, EnqueuesName
  <2>2. CreatedNamesRequest'
    BY <1>1, <1>3, <2>1 DEF Created, Succeed, CreatedNamesRequest, Names, Exists
  <2>3. EnqueuesName' /\ KeysName'
    BY <1>1, <1>3, NamesStay DEF Created, Succeed, Idle, TypeOK, NamesInv, EnqueuesName, KeysName
  <2>q. QED
    BY <2>2, <2>3 DEF NamesInv
<1>q. QED
  BY <1>2, <1>3 DEF CreateFinish

LEMMA RescheduleMoveNames ==
  ASSUME TypeOK, NamesInv, Next, NEW h \in Handlers, RescheduleMove(h)
  PROVE  NamesInv'
<1> DEFINE q == handlers[h]
<1>1. \/ UNCHANGED keys
      \/ \E b \in Fresh : keys' = KeyStored(q.client, q.key, "reschedule", q.slot, b)
  BY DEF RescheduleMove, db
<1>2. KeysName'
  BY <1>1, NamesStay DEF KeyStored, TypeOK, NamesInv, KeysName
<1>3. EnqueuesName'
  BY NamesStay DEF RescheduleMove, End, Succeed, Idle, TypeOK, NamesInv, EnqueuesName
<1>4. CreatedNamesRequest'
  BY IdsAssumption
     DEF RescheduleMove, End, Succeed, NoAnswer, CreatedNamesRequest, Endpoints
<1>q. QED
  BY <1>2, <1>3, <1>4 DEF NamesInv

LEMMA NamesStep ==
  ASSUME TypeOK, NamesInv, Next
  PROVE  NamesInv'
<1>1. ASSUME NEW h \in Handlers, Create(h)
      PROVE  NamesInv'
  BY <1>1, CreateLookupNames, CreateBookNames, CreateFinishNames DEF Create
<1>2. ASSUME NEW h \in Handlers, RescheduleMove(h)
      PROVE  NamesInv'
  BY <1>2, RescheduleMoveNames
<1>3. ASSUME NEW h \in Handlers, Cancel(h) PROVE NoCreate
  <2>1. ASSUME NEW c \in Clients, NEW b \in Bookings, NEW v, CancelRead(h, c, b, v)
        PROVE  NoCreate
    BY <2>1, NoCreateEnd, NoCreateContinue DEF CancelRead, Idle, db
  <2>2. ASSUME CancelWrite(h) PROVE NoCreate
    BY <2>2 DEF CancelWrite, Succeed, Idle, NoAnswer, NoCreate, TypeOK
  <2>q. QED
    BY <1>3, <2>1, <2>2 DEF Cancel
<1>4. ASSUME NEW h \in Handlers, NEW c \in Clients, NEW b \in Bookings, NEW s \in Slots,
             NEW k \in Keys \cup {None}, NEW v, NEW w, RescheduleCheck(h, c, b, s, k, v, w)
      PROVE  NoCreate
  BY <1>4, NoCreateEnd, NoCreateContinue DEF RescheduleCheck, Idle, db
<1>5. ASSUME NEW h \in Handlers, Update(h) PROVE NoCreate
  BY <1>5, NoCreateEnd, NoCreateContinue
     DEF Update, Confirm, Decline, SetStatus, Unschedule, Unscheduling, Idle
<1>6. ASSUME Restart \/ Tick PROVE NoCreate
  BY <1>6, IdsAssumption DEF Restart, Tick, Idle, NoAnswer, NoCreate, Endpoints, db
<1>q. QED
  BY <1>1, <1>2, <1>3, <1>4, <1>5, <1>6, NoCreateStep DEF Next, Reschedule

\* A 201 of POST /bookings names a booking of the caller for the slot asked for, first
\* answer or replay, whatever happened to the booking in between.
THEOREM CreatesNameTheirRequest == Spec => []CreatedNamesRequest
<1>1. Init => NamesInv
  BY IdsAssumption
     DEF Init, NamesInv, EnqueuesName, KeysName, CreatedNamesRequest, Idle, NoKey, NoAnswer, Endpoints
<1>2. TypeOK /\ NamesInv /\ [Next]_vars => NamesInv'
  <2>1. CASE Next
    BY <2>1, NamesStep
  <2>2. CASE UNCHANGED vars
    BY <2>2 DEF vars, NamesInv, EnqueuesName, KeysName, CreatedNamesRequest, Names, Exists
  <2>q. QED
    BY <2>1, <2>2
<1>3. NamesInv => CreatedNamesRequest
  BY DEF NamesInv
<1>q. QED
  BY <1>1, <1>2, <1>3, TypeCorrect, PTL DEF Spec

------------------------------------------------------------------------------
(* Which of the bookings of an appointment has reminders. *)

Announced(b) == \E o \in Offsets : reminders[b][o] = "scheduled"

\* A booking with scheduled reminders exists, and the other bookings of its appointment are
\* no longer booked, so that no reschedule can start from them, and have no reminders.
AnnouncedAlone ==
  \A x \in Bookings : Announced(x) =>
    /\ Exists(x)
    /\ \A y \in Bookings \ {x} : bookings[y].origin = bookings[x].origin =>
         bookings[y].status # "booked" /\ ~Announced(y)

LEMMA FadeAnnounces ==
  ASSUME RemindersFade, NEW x \in Bookings, Announced(x)' PROVE Announced(x)
BY DEF RemindersFade, Announced

\* Where reminders fade and no booking becomes booked, the invariant stays.
LEMMA FadeStep ==
  ASSUME AnnouncedAlone, RemindersFade,
         \A x \in Bookings :
           /\ bookings'[x].origin = bookings[x].origin
           /\ Exists(x) => Exists(x)'
           /\ bookings'[x].status = "booked" => bookings[x].status = "booked"
  PROVE  AnnouncedAlone'
<1> SUFFICES ASSUME NEW x \in Bookings, Announced(x)'
             PROVE  /\ Exists(x)'
                    /\ \A y \in Bookings \ {x} : bookings'[y].origin = bookings'[x].origin =>
                         bookings'[y].status # "booked" /\ ~Announced(y)'
  BY DEF AnnouncedAlone
<1>1. Announced(x)
  BY FadeAnnounces
<1>2. Exists(x)'
  BY <1>1 DEF AnnouncedAlone
<1>3. ASSUME NEW y \in Bookings \ {x}, bookings'[y].origin = bookings'[x].origin
      PROVE  bookings'[y].status # "booked" /\ ~Announced(y)'
  <2>1. bookings[y].status # "booked" /\ ~Announced(y)
    BY <1>1, <1>3 DEF AnnouncedAlone
  <2>q. QED
    BY <2>1, FadeAnnounces
<1>q. QED
  BY <1>2, <1>3

LEMMA TakeAnnounces ==
  ASSUME TypeOK, OriginsExist, AnnouncedAlone, TakesSlot
  PROVE  AnnouncedAlone'
<1>1. PICK b \in Fresh, s \in Slots, c \in Clients :
        /\ bookings' = [bookings EXCEPT ![b] = NewRow(s, c, 1, b)]
        /\ \E t : reminders' = [reminders EXCEPT ![b] = Scheduled(s, t)]
  BY DEF TakesSlot
<1>2. b \in Bookings /\ ~Exists(b) /\ Exists(b)' /\ bookings'[b].origin = b
  BY <1>1 DEF Fresh, Exists, NewRow, TypeOK
<1>3. \A x \in Bookings \ {b} :
        /\ bookings'[x] = bookings[x] /\ Exists(x)' = Exists(x)
        /\ Announced(x)' = Announced(x)
  BY <1>1, <1>2 DEF Exists, Announced, TypeOK
<1>4. \A x \in Bookings \ {b} : bookings[x].origin # b
  BY <1>2, IdsAssumption DEF OriginsExist, Exists, NoRow, Row, BookingStatus, TypeOK
<1>q. QED
  BY <1>2, <1>3, <1>4 DEF AnnouncedAlone

LEMMA MoveAnnounces ==
  ASSUME TypeOK, OneLivePerAppointment, AnnouncedAlone, MovesSlot
  PROVE  AnnouncedAlone'
<1>1. PICK b \in Fresh, o \in Bookings, s \in Slots :
        /\ bookings[o].status = "booked"
        /\ bookings' = MovedTo(b, o, s)
        /\ RemindersMoved(b, o, s)
  BY DEF MovesSlot
<1>2. b \in Bookings /\ b # o /\ ~Exists(b) /\ Live(o)
  BY <1>1 DEF Fresh, Exists, Live
<1>3. /\ Exists(b)' /\ Exists(o)' /\ bookings'[o].status = "cancelled"
      /\ bookings'[b].origin = bookings[o].origin
      /\ bookings'[o].origin = bookings[o].origin
  BY <1>1, <1>2 DEF MovedTo, NewRow, Exists, TypeOK, Row, NoRow
<1>4. ~Announced(o)'
  BY <1>1, <1>2 DEF RemindersMoved, Announced, RowsCancelled, TypeOK
<1>5. \A x \in Bookings \ {b, o} :
        /\ bookings'[x] = bookings[x] /\ Exists(x)' = Exists(x)
        /\ Announced(x)' = Announced(x)
  BY <1>1, <1>2 DEF MovedTo, RemindersMoved, Exists, Announced, TypeOK
<1>6. \A x \in Bookings \ {b, o} : bookings[x].origin = bookings[o].origin =>
        bookings[x].status # "booked" /\ ~Announced(x)
  <2>1. ASSUME NEW x \in Bookings \ {b, o}, bookings[x].origin = bookings[o].origin
        PROVE  bookings[x].status # "booked"
    BY <1>2, <2>1 DEF OneLivePerAppointment, Live
  <2>2. ASSUME NEW x \in Bookings \ {b, o}, bookings[x].origin = bookings[o].origin
        PROVE  ~Announced(x)
    BY <1>1, <2>2 DEF AnnouncedAlone
  <2>q. QED
    BY <2>1, <2>2
<1>7. ASSUME NEW x \in Bookings \ {b, o}, Announced(x)'
      PROVE  /\ Exists(x)'
             /\ \A y \in Bookings \ {x} : bookings'[y].origin = bookings'[x].origin =>
                  bookings'[y].status # "booked" /\ ~Announced(y)'
  <2>1. Announced(x) /\ bookings[x].origin # bookings[o].origin
    BY <1>5, <1>6, <1>7
  <2>q. QED
    BY <1>3, <1>5, <2>1 DEF AnnouncedAlone
<1>8. \A y \in Bookings \ {b} : bookings'[y].origin = bookings'[b].origin =>
        bookings'[y].status # "booked" /\ ~Announced(y)'
  BY <1>3, <1>4, <1>5, <1>6
<1>q. QED
  BY <1>3, <1>4, <1>7, <1>8 DEF AnnouncedAlone

LEMMA AnnounceStep ==
  ASSUME "status" \notin Ops,
         TypeOK, OriginsExist, OneLivePerAppointment, AnnouncedAlone, Next
  PROVE  AnnouncedAlone'
<1>1. CASE OpensSlot
  BY <1>1, FadeStep DEF OpensSlot, Exists, TypeOK, Row, NoRow
<1>2. CASE KeepsSlots
  <2>1. CASE UNCHANGED bookings
    BY <1>2, <2>1, FadeStep DEF KeepsSlots, Exists
  <2>2. CASE UpdatesOne
    <3>1. PICK b \in Bookings, st \in BookingStatus :
            /\ Exists(b) /\ bookings' = Updated(b, st)
            /\ bookings[b].status = "booked"
      BY <2>2 DEF UpdatesOne
    <3>2. \A x \in Bookings :
            /\ bookings'[x].origin = bookings[x].origin
            /\ Exists(x) => Exists(x)'
            /\ bookings'[x].status = "booked" => bookings[x].status = "booked"
      BY <3>1 DEF Updated, Exists, TypeOK, Row, NoRow, BookingStatus
    <3>q. QED
      BY <1>2, <3>2, FadeStep DEF KeepsSlots
  <2>q. QED
    BY <1>2, <2>1, <2>2 DEF KeepsSlots
<1>q. QED
  BY <1>1, <1>2, TakeAnnounces, MoveAnnounces, TableSteps DEF TableStep

\* Without PATCH, which can make a cancelled booking booked again, the scheduled reminders
\* of an appointment belong to one of its bookings, wherever it has been moved and even
\* where a stale cancel overwrites a row.
THEOREM AppointmentsAnnouncedOnce ==
  ASSUME "status" \notin Ops
  PROVE  Spec => []OneReminderSetPerAppointment
<1> DEFINE IInv == OriginsExist /\ OneLivePerAppointment /\ AnnouncedAlone
<1>1. Init => IInv
  BY DEF Init, OriginsExist, OneLivePerAppointment, AnnouncedAlone, Announced, Exists, Live,
         NoRow
<1>2. TypeOK /\ IInv /\ [Next]_vars => IInv'
  <2>1. CASE Next
    BY <2>1, OriginsStep, AppointmentStep, AnnounceStep
  <2>2. CASE UNCHANGED vars
    BY <2>2 DEF vars, OriginsExist, OneLivePerAppointment, AnnouncedAlone, Announced, Exists,
                Live
  <2>q. QED
    BY <2>1, <2>2
<1>3. IInv => OneReminderSetPerAppointment
  BY DEF AnnouncedAlone, Announced, OneReminderSetPerAppointment
<1>q. QED
  BY <1>1, <1>2, <1>3, TypeCorrect, PTL DEF Spec
==============================================================================
