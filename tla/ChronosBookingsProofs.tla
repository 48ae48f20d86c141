------------------------ MODULE ChronosBookingsProofs ------------------------
(***************************************************************************)
(* Theorems about ChronosBookings for all slots, bookings, clients, keys,  *)
(* handlers, times and bounds.                                             *)
(***************************************************************************)
EXTENDS ChronosBookings, TLAPS

\* The tables' part of TypeOK.
TablesOK ==
  /\ slots \in [Slots -> {"open", "booked"}]
  /\ bookings \in [Bookings -> Row \cup {NoRow}]
  /\ reminders \in [Bookings -> [Offsets -> {"none", "scheduled", "cancelled"}]]
  /\ keys \in [Clients \X Keys -> KeyRow \cup {NoKey}]
  /\ now \in Nat

\* A row of bookings, once inserted, keeps its slot.
RowsPersist ==
  \A b \in Bookings :
    Exists(b) => Exists(b)' /\ bookings'[b].slot = bookings[b].slot

\* At most one request moves on, and what it carries is well formed.
OneHandlerMoves ==
  \/ UNCHANGED handlers
  \/ handlers' = [h \in Handlers |-> Idle]
  \/ \E h \in Handlers, r \in Handler : HandlerOK(r)' /\ handlers' = [handlers EXCEPT ![h] = r]

LEMMA IdleOK == HandlerOK(Idle)
BY DEF HandlerOK, Handler, Idle

LEMMA TypeStep ==
  ASSUME TypeOK, TablesOK', RowsPersist, OneHandlerMoves
  PROVE  TypeOK'
<1>1. DOMAIN handlers' = Handlers
  BY DEF TypeOK, OneHandlerMoves
<1>2. ASSUME NEW q, HandlerOK(q)
      PROVE  HandlerOK(q)'
  BY <1>2 DEF RowsPersist, HandlerOK, Handler, Exists
<1>3. ASSUME NEW h \in Handlers
      PROVE  \E q : q = handlers'[h] /\ HandlerOK(q)'
  <2>1. CASE handlers' = handlers
    BY <1>2, <2>1 DEF TypeOK
  <2>2. CASE handlers' = [x \in Handlers |-> Idle]
    BY <1>2, <2>2, IdleOK
  <2>3. CASE \E x \in Handlers, r \in Handler :
               HandlerOK(r)' /\ handlers' = [handlers EXCEPT ![x] = r]
    BY <1>2, <2>3 DEF TypeOK
  <2>q. QED
    BY <2>1, <2>2, <2>3 DEF OneHandlerMoves
<1>4. ASSUME NEW h \in Handlers
      PROVE  HandlerOK(handlers[h])'
  BY <1>3 DEF HandlerOK, Exists
<1>q. QED
  BY <1>1, <1>4 DEF TypeOK, TablesOK

\* What every action has to establish for TypeStep.
Keeps == TablesOK' /\ RowsPersist /\ OneHandlerMoves

\* A handler that ends, or that goes on without touching the tables, keeps the types.
LEMMA QuietStep ==
  ASSUME TypeOK, UNCHANGED <<db, now>>, OneHandlerMoves
  PROVE  Keeps
BY DEF TypeOK, TablesOK, Keeps, RowsPersist, Exists, db

LEMMA EndMoves ==
  ASSUME NEW h \in Handlers, handlers' = [handlers EXCEPT ![h] = Idle]
  PROVE  OneHandlerMoves
<1>1. Idle \in Handler /\ HandlerOK(Idle)'
  BY DEF HandlerOK, Handler, Idle
<1>q. QED
  BY <1>1 DEF OneHandlerMoves

LEMMA CreateLookupKeeps ==
  ASSUME TypeOK, NEW h \in Handlers, NEW c \in Clients, NEW s \in Slots,
         NEW k \in Keys \cup {None}, CreateLookup(h, c, s, k)
  PROVE  Keeps
<1>1. UNCHANGED <<db, now>>
  BY DEF CreateLookup
<1>2. CASE handlers' = [handlers EXCEPT ![h] = Idle]
  BY <1>1, <1>2, EndMoves, QuietStep
<1>3. CASE "create" \in Ops /\
           handlers' = [handlers EXCEPT ![h] =
              [Idle EXCEPT !.pc = "book", !.op = "create", !.client = c,
                           !.slot = s, !.key = k, !.at = now]]
  <2> PICK r : r = [Idle EXCEPT !.pc = "book", !.op = "create", !.client = c,
                                !.slot = s, !.key = k, !.at = now]
    OBVIOUS
  <2>1. r \in Handler /\ HandlerOK(r)'
    BY <1>3 DEF HandlerOK, Handler, Idle, TypeOK
  <2>2. OneHandlerMoves
    BY <2>1, <1>3 DEF OneHandlerMoves
  <2>q. QED
    BY <1>1, <2>2, QuietStep
<1>q. QED
  BY <1>2, <1>3 DEF CreateLookup, Created, Succeed, End, Continue

LEMMA CreateBookKeeps ==
  ASSUME TypeOK, NEW h \in Handlers, CreateBook(h)
  PROVE  Keeps
<1> DEFINE q == handlers[h]
<1>1. CASE End(h) /\ UNCHANGED <<db, now>>
  BY <1>1, EndMoves, QuietStep DEF End, Succeed
<1>2. ASSUME NEW b \in Fresh,
             q.pc = "book",
             slots' = [slots EXCEPT ![q.slot] = "booked"],
             bookings' = [bookings EXCEPT ![b] = NewRow(q.slot, q.client, 1, b)],
             reminders' = [reminders EXCEPT ![b] = Scheduled(q.slot, now)],
             keys' = KeyStored(q.client, q.key, "create", q.slot, b),
             Continue(h, [q EXCEPT !.pc = "enqueue", !.booking = b]),
             UNCHANGED now
      PROVE  Keeps
  <2> b \in Bookings /\ ~Exists(b) /\ q \in Handler /\ q.client \in Clients /\ q.slot \in Slots
    BY <1>2 DEF Fresh, TypeOK, HandlerOK
  <2>1. NewRow(q.slot, q.client, 1, b) \in Row
    BY DEF NewRow, Row, BookingStatus
  <2>2. TablesOK'
    <3>1. Scheduled(q.slot, now) \in [Offsets -> {"none", "scheduled", "cancelled"}]
      BY DEF Scheduled
    <3>2. keys' \in [Clients \X Keys -> KeyRow \cup {NoKey}]
      BY <1>2 DEF KeyStored, KeyRow, TypeOK
    <3>q. QED
      BY <1>2, <2>1, <3>1, <3>2 DEF TablesOK, TypeOK
  <2>3. RowsPersist
    BY <1>2, <2>1 DEF RowsPersist, Exists, TypeOK
  <2>4. OneHandlerMoves
    <3> PICK r : r = [q EXCEPT !.pc = "enqueue", !.booking = b]
      OBVIOUS
    <3>1. r \in Handler
      BY DEF Handler
    <3>2. r.pc = "enqueue" /\ r.client = q.client /\ r.slot = q.slot /\ r.booking = b
      BY DEF Handler
    <3>3. Exists(b)'
      BY <1>2 DEF Exists, NewRow, TypeOK
    <3>4. HandlerOK(r)'
      BY <3>1, <3>2, <3>3 DEF HandlerOK
    <3>q. QED
      BY <1>2, <3>1, <3>4 DEF OneHandlerMoves, Continue
  <2>q. QED
    BY <2>2, <2>3, <2>4 DEF Keeps
<1>q. QED
  BY <1>1, <1>2 DEF CreateBook

LEMMA CreateFinishKeeps ==
  ASSUME TypeOK, NEW h \in Handlers, CreateFinish(h)
  PROVE  Keeps
BY EndMoves, QuietStep DEF CreateFinish, Created, Succeed, End

LEMMA CancelReadKeeps ==
  ASSUME TypeOK, NEW h \in Handlers, NEW c \in Clients, NEW b \in Bookings,
         NEW v \in 1..MaxVersion, CancelRead(h, c, b, v)
  PROVE  Keeps
<1>1. UNCHANGED <<db, now>>
  BY DEF CancelRead
<1>2. CASE End(h)
  BY <1>1, <1>2, EndMoves, QuietStep DEF End, Succeed
<1>3. CASE CancelVerdict(c, b, v) = 204 /\ ~End(h)
  <2> PICK r : r = [Idle EXCEPT !.pc = "write", !.op = "cancel", !.client = c,
                                !.slot = bookings[b].slot, !.booking = b]
    OBVIOUS
  <2>1. handlers' = [handlers EXCEPT ![h] = r] /\ "cancel" \in Ops
    BY <1>3 DEF CancelRead, Continue
  <2>2. Exists(b) /\ bookings[b] \in Row /\ bookings' = bookings
    BY <1>1, <1>3 DEF CancelVerdict, Exists, TypeOK, db, NoRow
  <2>3. bookings[b].slot \in Slots
    BY <2>2 DEF Row
  <2>4. r \in Handler
    BY <2>1, <2>3 DEF Handler, Idle
  <2>5. r.pc = "write" /\ r.op = "cancel" /\ r.booking = b /\ r.slot = bookings[b].slot
    BY DEF Idle
  <2>6. HandlerOK(r)'
    BY <2>2, <2>3, <2>4, <2>5 DEF HandlerOK, Exists
  <2>q. QED
    BY <1>1, <2>1, <2>4, <2>6, QuietStep DEF OneHandlerMoves
<1>q. QED
  BY <1>2, <1>3 DEF CancelRead

LEMMA CancelWriteKeeps ==
  ASSUME TypeOK, NEW h \in Handlers, CancelWrite(h)
  PROVE  Keeps
<1> DEFINE q == handlers[h]
<1>1. q.booking \in Bookings /\ Exists(q.booking) /\ q.slot \in Slots
  BY DEF CancelWrite, TypeOK, HandlerOK
<1>2. [bookings[q.booking] EXCEPT !.status = "cancelled"] \in Row
  <2> PICK row : row = bookings[q.booking]
    OBVIOUS
  <2>1. row \in Row
    BY <1>1 DEF TypeOK, Exists, NoRow
  <2>q. QED
    BY <2>1 DEF Row, BookingStatus
<1>3. Unscheduled(SelectedId) \in [Bookings -> [Offsets -> {"none", "scheduled", "cancelled"}]]
  BY DEF Unscheduled, TypeOK
<1>4. TablesOK'
  BY <1>1, <1>2, <1>3 DEF CancelWrite, TablesOK, TypeOK
<1>5. RowsPersist
  BY <1>1, <1>2 DEF CancelWrite, RowsPersist, Exists, TypeOK, Row, NoRow, BookingStatus
<1>6. OneHandlerMoves
  BY EndMoves DEF CancelWrite, Succeed
<1>q. QED
  BY <1>4, <1>5, <1>6 DEF Keeps

LEMMA RescheduleCheckKeeps ==
  ASSUME TypeOK, NEW h \in Handlers, NEW c \in Clients, NEW b \in Bookings, NEW s \in Slots,
         NEW k \in Keys \cup {None}, NEW v \in 1..MaxVersion, NEW w \in RequestWindows,
         RescheduleCheck(h, c, b, s, k, v, w)
  PROVE  Keeps
<1>1. UNCHANGED <<db, now>>
  BY DEF RescheduleCheck
<1>2. CASE End(h)
  BY <1>1, <1>2, EndMoves, QuietStep DEF End, Succeed
<1>3. CASE CheckVerdict(c, b, v, w) = 200 /\ ~End(h)
  <2> PICK r : r = [Idle EXCEPT !.pc = "move", !.op = "reschedule", !.client = c,
                         !.slot = s, !.booking = b, !.key = k, !.version = v, !.at = now]
    OBVIOUS
  <2>1. handlers' = [handlers EXCEPT ![h] = r] /\ "reschedule" \in Ops
    BY <1>3 DEF RescheduleCheck, Continue
  <2>2. Exists(b) /\ bookings' = bookings
    BY <1>1, <1>3 DEF CheckVerdict, db
  <2>3. v \in Nat /\ now \in Nat
    BY TimesAssumption DEF TypeOK
  <2>4. r \in Handler
    BY <2>1, <2>3 DEF Handler, Idle
  <2>5. r.pc = "move" /\ r.client = c /\ r.slot = s /\ r.booking = b
    BY DEF Idle
  <2>6. HandlerOK(r)'
    BY <2>2, <2>4, <2>5 DEF HandlerOK, Exists
  <2>q. QED
    BY <1>1, <2>1, <2>4, <2>6, QuietStep DEF OneHandlerMoves
<1>q. QED
  BY <1>2, <1>3 DEF RescheduleCheck

LEMMA RescheduleMoveKeeps ==
  ASSUME TypeOK, NEW h \in Handlers, RescheduleMove(h)
  PROVE  Keeps
<1> DEFINE q == handlers[h]
           old == bookings[q.booking]
<1>1. OneHandlerMoves
  BY EndMoves DEF RescheduleMove, End, Succeed
<1>2. CASE UNCHANGED db
  BY <1>1, <1>2, QuietStep DEF RescheduleMove
<1>3. ASSUME NEW b \in Fresh,
             slots' = SlotsMoved(q.slot, old.slot),
             bookings' = [bookings EXCEPT
                  ![q.booking].status = "cancelled",
                  ![b] = NewRow(q.slot, old.client, old.version + 1, old.origin)],
             reminders' = [reminders EXCEPT
                  ![q.booking] = RowsCancelled(q.booking),
                  ![b] = Scheduled(q.slot, q.at)],
             keys' = KeyStored(q.client, q.key, "reschedule", q.slot, b),
             q.pc = "move", UNCHANGED now
      PROVE  Keeps
  <2>1. /\ b \in Bookings /\ ~Exists(b) /\ q.booking \in Bookings /\ Exists(q.booking)
        /\ q.slot \in Slots /\ q.client \in Clients /\ old \in Row /\ q.booking # b
    BY <1>3 DEF Fresh, TypeOK, HandlerOK, Exists, NoRow
  <2>2. NewRow(q.slot, old.client, old.version + 1, old.origin) \in Row
    BY <2>1 DEF NewRow, Row, BookingStatus
  <2>3. [old EXCEPT !.status = "cancelled"] \in Row
    BY <2>1 DEF Row, BookingStatus
  <2>4. bookings' \in [Bookings -> Row \cup {NoRow}]
    BY <1>3, <2>1, <2>2, <2>3 DEF TypeOK
  <2>5. slots' \in [Slots -> {"open", "booked"}]
    BY <1>3, <2>1 DEF TypeOK, SlotsMoved
  <2>6. /\ Scheduled(q.slot, q.at) \in [Offsets -> {"none", "scheduled", "cancelled"}]
        /\ RowsCancelled(q.booking) \in [Offsets -> {"none", "scheduled", "cancelled"}]
    BY DEF Scheduled, RowsCancelled
  <2>7. reminders' \in [Bookings -> [Offsets -> {"none", "scheduled", "cancelled"}]]
    BY <1>3, <2>6 DEF TypeOK
  <2>8. keys' \in [Clients \X Keys -> KeyRow \cup {NoKey}]
    BY <1>3, <2>1 DEF KeyStored, KeyRow, TypeOK
  <2>9. RowsPersist
    BY <1>3, <2>1, <2>2, <2>3 DEF RowsPersist, Exists, TypeOK, Row, BookingStatus
  <2>q. QED
    BY <1>1, <1>3, <2>4, <2>5, <2>7, <2>8, <2>9 DEF Keeps, TablesOK, TypeOK
<1>q. QED
  BY <1>2, <1>3 DEF RescheduleMove

\* The row the locking endpoints write, and the request that goes on to the reminders.
LEMMA UpdatedKeeps ==
  ASSUME TypeOK, NEW b \in Bookings, Exists(b), NEW st \in BookingStatus,
         bookings' = Updated(b, st), UNCHANGED <<slots, reminders, keys, now>>
  PROVE  TablesOK' /\ RowsPersist /\ Exists(b)'
<1>1. bookings[b] \in Row
  BY DEF TypeOK, Exists, NoRow
<1>2. [bookings[b] EXCEPT !.status = st, !.version = bookings[b].version + 1] \in Row
  <2>1. bookings[b].version + 1 \in Nat
    BY <1>1 DEF Row
  <2>q. QED
    BY <1>1, <2>1 DEF Row
<1>3. bookings' \in [Bookings -> Row \cup {NoRow}]
  BY <1>2 DEF TypeOK, Updated
<1>4. RowsPersist /\ Exists(b)'
  BY <1>1, <1>2 DEF RowsPersist, Exists, TypeOK, Updated, Row, BookingStatus
<1>q. QED
  BY <1>3, <1>4 DEF TablesOK, TypeOK

LEMMA UnschedulingMoves ==
  ASSUME NEW h \in Handlers, NEW op \in Ops, NEW c \in Clients, NEW b \in Bookings,
         Exists(b)', Unscheduling(h, op, c, b)
  PROVE  OneHandlerMoves
<1> PICK r : r = [Idle EXCEPT !.pc = "unschedule", !.op = op, !.client = c, !.booking = b]
  OBVIOUS
<1>1. handlers' = [handlers EXCEPT ![h] = r]
  BY DEF Unscheduling, Continue
<1>2. r \in Handler
  BY DEF Handler, Idle
<1>3. r.pc = "unschedule" /\ r.booking = b
  BY DEF Idle
<1>4. HandlerOK(r)'
  BY <1>2, <1>3 DEF HandlerOK
<1>q. QED
  BY <1>1, <1>2, <1>4 DEF OneHandlerMoves

LEMMA ConfirmKeeps ==
  ASSUME TypeOK, NEW h \in Handlers, NEW c \in Clients, NEW b \in Bookings, Confirm(h, c, b)
  PROVE  Keeps
<1>1. OneHandlerMoves
  BY EndMoves DEF Confirm, End, Succeed
<1>2. CASE LockVerdict(c, b) = 200
  <2>1. Exists(b) /\ bookings' = Updated(b, "completed") /\ "completed" \in BookingStatus
    BY <1>2 DEF Confirm, LockVerdict, OwnerVerdict, BookingStatus
  <2>q. QED
    BY <1>1, <2>1, UpdatedKeeps DEF Confirm, Keeps
<1>3. CASE LockVerdict(c, b) # 200
  BY <1>1, <1>3, QuietStep DEF Confirm, db
<1>q. QED
  BY <1>2, <1>3

LEMMA DeclineKeeps ==
  ASSUME TypeOK, NEW h \in Handlers, NEW c \in Clients, NEW b \in Bookings, Decline(h, c, b)
  PROVE  Keeps
<1>1. CASE LockVerdict(c, b) = 200
  <2>1. Exists(b) /\ bookings' = Updated(b, "cancelled") /\ "cancelled" \in BookingStatus
    BY <1>1 DEF Decline, LockVerdict, OwnerVerdict, BookingStatus
  <2>2. TablesOK' /\ RowsPersist /\ Exists(b)'
    BY <2>1, UpdatedKeeps DEF Decline
  <2>3. OneHandlerMoves
    BY <1>1, <2>2, UnschedulingMoves DEF Decline
  <2>q. QED
    BY <2>2, <2>3 DEF Keeps
<1>2. CASE LockVerdict(c, b) # 200
  BY <1>2, EndMoves, QuietStep DEF Decline, End, Succeed, db
<1>q. QED
  BY <1>1, <1>2

LEMMA SetStatusKeeps ==
  ASSUME TypeOK, NEW h \in Handlers, NEW c \in Clients, NEW b \in Bookings,
         NEW st \in StatusRequests, SetStatus(h, c, b, st)
  PROVE  Keeps
<1>1. CASE StatusVerdict(c, b, st) = 200
  <2>1. Exists(b) /\ bookings' = Updated(b, st) /\ st \in BookingStatus
    BY <1>1 DEF SetStatus, StatusVerdict, OwnerVerdict
  <2>2. TablesOK' /\ RowsPersist /\ Exists(b)'
    BY <2>1, UpdatedKeeps DEF SetStatus
  <2>3. OneHandlerMoves
    BY <1>1, <2>2, UnschedulingMoves, EndMoves DEF SetStatus, End, Succeed
  <2>q. QED
    BY <2>2, <2>3 DEF Keeps
<1>2. CASE StatusVerdict(c, b, st) # 200
  BY <1>2, EndMoves, QuietStep DEF SetStatus, End, Succeed, db
<1>q. QED
  BY <1>1, <1>2

LEMMA UnscheduleKeeps ==
  ASSUME TypeOK, NEW h \in Handlers, Unschedule(h)
  PROVE  Keeps
<1>1. OneHandlerMoves
  BY EndMoves DEF Unschedule, End, Succeed
<1>2. Unscheduled(handlers[h].booking)
        \in [Bookings -> [Offsets -> {"none", "scheduled", "cancelled"}]]
  BY DEF Unscheduled, TypeOK
<1>q. QED
  BY <1>1, <1>2 DEF Unschedule, Keeps, TablesOK, RowsPersist, TypeOK, Exists

LEMMA EnvironmentKeeps ==
  ASSUME TypeOK, Restart \/ Tick
  PROVE  Keeps
<1>1. CASE Restart
  BY <1>1, QuietStep DEF Restart, OneHandlerMoves
<1>2. CASE Tick
  BY <1>2 DEF Tick, Keeps, OneHandlerMoves, RowsPersist, TablesOK, TypeOK, Exists, db
<1>q. QED
  BY <1>1, <1>2

LEMMA NextKeeps ==
  ASSUME TypeOK, Next
  PROVE  Keeps
<1>1. ASSUME NEW h \in Handlers, Create(h)
      PROVE  Keeps
  BY <1>1, CreateLookupKeeps, CreateBookKeeps, CreateFinishKeeps DEF Create
<1>2. ASSUME NEW h \in Handlers, Cancel(h)
      PROVE  Keeps
  BY <1>2, CancelReadKeeps, CancelWriteKeeps DEF Cancel
<1>3. ASSUME NEW h \in Handlers, Reschedule(h)
      PROVE  Keeps
  BY <1>3, RescheduleCheckKeeps, RescheduleMoveKeeps DEF Reschedule
<1>4. ASSUME NEW h \in Handlers, Update(h)
      PROVE  Keeps
  BY <1>4, ConfirmKeeps, DeclineKeeps, SetStatusKeeps, UnscheduleKeeps DEF Update
<1>q. QED
  BY <1>1, <1>2, <1>3, <1>4, EnvironmentKeeps DEF Next

\* Type correctness: whatever the endpoints, races and restarts do, the tables hold rows of
\* their types and no request carries a booking that is not in the table.
THEOREM TypeCorrect == Spec => []TypeOK
<1>1. Init => TypeOK
  BY IdleOK DEF Init, TypeOK, NoRow, NoKey, Row, KeyRow
<1>2. TypeOK /\ [Next]_vars => TypeOK'
  <2>1. ASSUME TypeOK, Next PROVE TypeOK'
    BY <2>1, NextKeeps, TypeStep DEF Keeps
  <2>2. ASSUME TypeOK, UNCHANGED vars PROVE TypeOK'
    BY <2>2, QuietStep, TypeStep DEF vars, db, OneHandlerMoves, Keeps
  <2>q. QED
    BY <2>1, <2>2
<1>q. QED
  BY <1>1, <1>2, PTL DEF Spec

------------------------------------------------------------------------------
(* The ways a step changes the bookings table. *)

Inserts ==
  \E b \in Fresh, s \in Slots, c \in Clients :
    /\ IndexAdmits(s, None)
    /\ bookings' = [bookings EXCEPT ![b] = NewRow(s, c, 1, b)]

Moves ==
  \E b \in Fresh, o \in Bookings, s \in Slots :
    /\ bookings[o].status = "booked" /\ IndexAdmits(s, o)
    /\ bookings' = [bookings EXCEPT
         ![o].status = "cancelled",
         ![b] = NewRow(s, bookings[o].client, bookings[o].version + 1, bookings[o].origin)]

\* Only the client cancel writes over a status it has not just locked.
Cancels ==
  \E b \in Bookings :
    /\ "cancel" \in Ops /\ Exists(b)
    /\ bookings' = [bookings EXCEPT ![b].status = "cancelled"]

\* Only PATCH updates a booking that is not booked, and the index has to admit what it makes
\* live.
Updates ==
  \E b \in Bookings, st \in BookingStatus :
    /\ Exists(b) /\ bookings' = Updated(b, st)
    /\ \/ bookings[b].status = "booked"
       \/ "status" \in Ops /\ (st = "cancelled" \/ IndexAdmits(bookings[b].slot, b))

LEMMA BookingSteps ==
  ASSUME TypeOK, Next
  PROVE  UNCHANGED bookings \/ Inserts \/ Moves \/ Cancels \/ Updates
<1>1. ASSUME NEW h \in Handlers, CreateBook(h)
      PROVE  UNCHANGED bookings \/ Inserts
  <2>1. handlers[h].slot \in Slots /\ handlers[h].client \in Clients
    BY <1>1 DEF CreateBook, TypeOK, HandlerOK
  <2>q. QED
    BY <1>1, <2>1 DEF CreateBook, Inserts, db
<1>2. ASSUME NEW h \in Handlers, RescheduleMove(h)
      PROVE  UNCHANGED bookings \/ Moves
  <2>1. handlers[h].slot \in Slots /\ handlers[h].booking \in Bookings
    BY <1>2 DEF RescheduleMove, TypeOK, HandlerOK
  <2>q. QED
    BY <1>2, <2>1 DEF RescheduleMove, MoveVerdict, Moves, db
<1>3. ASSUME NEW h \in Handlers, CancelWrite(h)
      PROVE  Cancels
  <2> DEFINE q == handlers[h]
  <2>1. q \in Handler /\ q.op = "cancel" /\ q.booking \in Bookings /\ Exists(q.booking)
    BY <1>3 DEF CancelWrite, TypeOK, HandlerOK
  <2>2. "cancel" \in Ops
    BY <2>1, IdsAssumption DEF Handler, Endpoints
  <2>q. QED
    BY <1>3, <2>1, <2>2 DEF CancelWrite, Cancels
<1>4. ASSUME NEW h \in Handlers, NEW c \in Clients, NEW b \in Bookings,
             Confirm(h, c, b) \/ Decline(h, c, b)
      PROVE  UNCHANGED bookings \/ Updates
  BY <1>4 DEF Confirm, Decline, LockVerdict, OwnerVerdict, Updates, BookingStatus
<1>5. ASSUME NEW h \in Handlers, NEW c \in Clients, NEW b \in Bookings,
             NEW st \in StatusRequests, SetStatus(h, c, b, st)
      PROVE  UNCHANGED bookings \/ Updates
  BY <1>5 DEF SetStatus, StatusVerdict, OwnerVerdict, Updates, BookingStatus
<1>6. ASSUME NEW h \in Handlers, Create(h) \/ Cancel(h) \/ Reschedule(h) \/ Update(h)
      PROVE  UNCHANGED bookings \/ Inserts \/ Moves \/ Cancels \/ Updates
  BY <1>1, <1>2, <1>3, <1>4, <1>5, <1>6
     DEF Create, CreateLookup, CreateFinish, Cancel, CancelRead, Reschedule, RescheduleCheck,
         Update, Unschedule, db
<1>q. QED
  BY <1>6 DEF Next, Restart, Tick, db

------------------------------------------------------------------------------
(* No double booking. *)

\* A step after which only n may be live that was not live on its slot before, and shares
\* its slot with nobody.
LEMMA Newcomer ==
  ASSUME OneLiveBookingPerSlot, NEW n \in Bookings,
         \A x \in Bookings \ {n} : Live(x)' => Live(x) /\ bookings'[x].slot = bookings[x].slot,
         \A x \in Bookings \ {n} : Live(x)' /\ Live(n)' => bookings'[x].slot # bookings'[n].slot
  PROVE  OneLiveBookingPerSlot'
BY DEF OneLiveBookingPerSlot, Live

LEMMA OneLiveStep ==
  ASSUME TypeOK, OneLiveBookingPerSlot, Next
  PROVE  OneLiveBookingPerSlot'
<1>1. CASE UNCHANGED bookings
  BY <1>1 DEF OneLiveBookingPerSlot, Live
<1>2. CASE Inserts
  <2> PICK b \in Fresh, s \in Slots, c \in Clients :
        /\ IndexAdmits(s, None)
        /\ bookings' = [bookings EXCEPT ![b] = NewRow(s, c, 1, b)]
    BY <1>2 DEF Inserts
  <2>1. b \in Bookings /\ None \notin Bookings
    BY IdsAssumption DEF Fresh
  <2>2. bookings'[b].slot = s
    BY <2>1 DEF TypeOK, NewRow
  <2>3. \A x \in Bookings \ {b} : bookings'[x] = bookings[x]
    BY <2>1 DEF TypeOK
  <2>q. QED
    BY <2>1, <2>2, <2>3, Newcomer DEF IndexAdmits, Live
<1>3. CASE Moves
  <2> PICK b \in Fresh, o \in Bookings, s \in Slots :
        /\ bookings[o].status = "booked" /\ IndexAdmits(s, o)
        /\ bookings' = [bookings EXCEPT
             ![o].status = "cancelled",
             ![b] = NewRow(s, bookings[o].client, bookings[o].version + 1, bookings[o].origin)]
    BY <1>3 DEF Moves
  <2>1. b \in Bookings /\ o # b
    BY DEF Fresh, Exists
  <2>2. bookings'[b].slot = s
    BY <2>1 DEF TypeOK, NewRow
  <2>3. \A x \in Bookings \ {b, o} : bookings'[x] = bookings[x]
    BY <2>1 DEF TypeOK
  <2>4. ~Live(o)'
    BY <2>1 DEF TypeOK, Live, Row, NoRow
  <2>5. \A x \in Bookings \ {b} : Live(x)' => Live(x) /\ bookings'[x].slot = bookings[x].slot
    BY <2>3, <2>4 DEF Live
  <2>6. \A x \in Bookings \ {b} : Live(x)' => bookings'[x].slot # s
    <3>1. \A x \in Bookings \ {o} : Live(x) => bookings[x].slot # s
      BY DEF IndexAdmits
    <3>2. \A x \in Bookings \ {b} : Live(x)' => x # o
      BY <2>4
    <3>q. QED
      BY <2>5, <3>1, <3>2
  <2>7. \A x \in Bookings \ {b} : Live(x)' /\ Live(b)' => bookings'[x].slot # bookings'[b].slot
    BY <2>2, <2>6
  <2>q. QED
    BY <2>1, <2>5, <2>7, Newcomer
<1>4. CASE Cancels
  <2> PICK b \in Bookings : bookings' = [bookings EXCEPT ![b].status = "cancelled"]
    BY <1>4 DEF Cancels
  <2>1. ~Live(b)'
    BY DEF TypeOK, Live, Row, NoRow
  <2>2. \A x \in Bookings \ {b} : bookings'[x] = bookings[x]
    BY DEF TypeOK
  <2>q. QED
    BY <2>1, <2>2, Newcomer DEF Live
<1>5. CASE Updates
  <2> PICK b \in Bookings, st \in BookingStatus :
        /\ Exists(b) /\ bookings' = Updated(b, st)
        /\ \/ bookings[b].status = "booked"
           \/ "status" \in Ops /\ (st = "cancelled" \/ IndexAdmits(bookings[b].slot, b))
    BY <1>5 DEF Updates
  <2>1. bookings'[b].slot = bookings[b].slot /\ bookings'[b].status = st
    BY DEF TypeOK, Updated, Row, NoRow
  <2>2. \A x \in Bookings \ {b} : bookings'[x] = bookings[x]
    BY DEF TypeOK, Updated
  <2>3. CASE st = "cancelled"
    BY <2>1, <2>2, <2>3, Newcomer DEF Live
  <2>4. CASE bookings[b].status = "booked"
    BY <2>1, <2>2, <2>4 DEF OneLiveBookingPerSlot, Live
  <2>5. CASE IndexAdmits(bookings[b].slot, b)
    BY <2>1, <2>2, <2>5, Newcomer DEF IndexAdmits, Live
  <2>q. QED
    BY <2>3, <2>4, <2>5
<1>q. QED
  BY <1>1, <1>2, <1>3, <1>4, <1>5, BookingSteps

\* No double booking: whatever creates, moves, cancellations and status changes race, and
\* wherever the process restarts, two live bookings never share a slot.
THEOREM NoDoubleBooking == Spec => []OneLiveBookingPerSlot
<1>1. Init => OneLiveBookingPerSlot
  BY DEF Init, OneLiveBookingPerSlot, Live, NoRow
<1>2. TypeOK /\ OneLiveBookingPerSlot /\ [Next]_vars => OneLiveBookingPerSlot'
  BY OneLiveStep DEF vars, OneLiveBookingPerSlot, Live
<1>q. QED
  BY <1>1, <1>2, TypeCorrect, PTL DEF Spec

------------------------------------------------------------------------------
(* Final statuses, keys and appointments. *)

\* Completed and cancelled are final as long as every change of a booking decides on the row
\* it has locked: without the client cancel and PATCH.
THEOREM LockedTerminalIsFinal ==
  ASSUME "cancel" \notin Ops, "status" \notin Ops
  PROVE  Spec => TerminalIsFinal
<1> DEFINE Final ==
      \A b \in Bookings :
        bookings[b].status \in {"completed", "cancelled"} =>
          bookings'[b].status = bookings[b].status
<1>1. TypeOK /\ [Next]_vars => Final
  <2> SUFFICES ASSUME TypeOK, Next \/ UNCHANGED vars PROVE Final
    OBVIOUS
  <2>1. CASE UNCHANGED bookings
    BY <2>1
  <2>2. CASE Inserts
    BY <2>2 DEF Inserts, Fresh, Exists, TypeOK
  <2>3. CASE Moves
    BY <2>3 DEF Moves, Fresh, Exists, TypeOK
  <2>4. CASE Updates
    BY <2>4 DEF Updates, Updated, TypeOK
  <2>q. QED
    BY <2>1, <2>2, <2>3, <2>4, BookingSteps DEF Cancels, vars
<1>2. TypeOK /\ [Next]_vars => [Final]_vars
  BY <1>1
<1>q. QED
  BY <1>2, TypeCorrect, PTL DEF Spec, TerminalIsFinal

\* A stored idempotency key keeps its booking: both transactions that store keys meet the
\* primary key first.
THEOREM KeysStay == Spec => KeyIsBoundOnce
<1> DEFINE Bound == \A ck \in Clients \X Keys : keys[ck] # NoKey => keys'[ck] = keys[ck]
<1>1. ASSUME TypeOK, NEW c \in Clients, NEW k \in Keys \cup {None}, NEW op, NEW s, NEW b,
             ~KeyConflict(c, k), keys' = KeyStored(c, k, op, s, b)
      PROVE  Bound
  BY <1>1 DEF KeyConflict, KeyTaken, KeyStored, TypeOK
<1>2. TypeOK /\ [Next]_vars => Bound
  <2> SUFFICES ASSUME TypeOK, Next \/ UNCHANGED vars PROVE Bound
    OBVIOUS
  <2>1. CASE UNCHANGED keys
    BY <2>1
  <2>2. ASSUME NEW h \in Handlers, CreateBook(h)
        PROVE  Bound
    <3>1. handlers[h].client \in Clients /\ handlers[h].key \in Keys \cup {None}
      BY <2>2 DEF CreateBook, TypeOK, HandlerOK, Handler
    <3>2. CASE UNCHANGED db
      BY <3>2, <2>1 DEF db
    <3>3. ASSUME NEW b \in Fresh,
                 ~KeyConflict(handlers[h].client, handlers[h].key),
                 keys' = KeyStored(handlers[h].client, handlers[h].key, "create",
                                   handlers[h].slot, b)
          PROVE  Bound
      BY <1>1, <3>1, <3>3
    <3>q. QED
      BY <2>2, <3>2, <3>3 DEF CreateBook
  <2>3. ASSUME NEW h \in Handlers, RescheduleMove(h)
        PROVE  Bound
    <3>1. handlers[h].client \in Clients /\ handlers[h].key \in Keys \cup {None}
      BY <2>3 DEF RescheduleMove, TypeOK, HandlerOK, Handler
    <3>2. CASE UNCHANGED db
      BY <3>2, <2>1 DEF db
    <3>3. CASE MoveVerdict(handlers[h]) = 201
      <4>1. ~KeyConflict(handlers[h].client, handlers[h].key)
        BY <3>3 DEF MoveVerdict
      <4>q. QED
        BY <1>1, <2>1, <2>3, <3>1, <4>1 DEF RescheduleMove, db
    <3>q. QED
      BY <2>3, <3>2, <3>3 DEF RescheduleMove
  <2>4. ASSUME NEW h \in Handlers, Create(h) \/ Cancel(h) \/ Reschedule(h) \/ Update(h)
        PROVE  Bound
    BY <2>1, <2>2, <2>3, <2>4
       DEF Create, CreateLookup, CreateFinish, Cancel, CancelRead, CancelWrite, Reschedule,
           RescheduleCheck, Update, Confirm, Decline, SetStatus, Unschedule, db
  <2>q. QED
    BY <2>1, <2>4 DEF Next, Restart, Tick, db, vars
<1>3. TypeOK /\ [Next]_vars => [Bound]_vars
  BY <1>2
<1>q. QED
  BY <1>3, TypeCorrect, PTL DEF Spec, KeyIsBoundOnce

\* A booking descends from one that exists, so a fresh id starts an appointment of its own.
OriginsExist ==
  \A b \in Bookings : Exists(b) => Exists(bookings[b].origin)

LEMMA OriginsInBookings ==
  ASSUME TypeOK
  PROVE  \A b \in Bookings : Exists(b) => bookings[b].origin \in Bookings
BY DEF TypeOK, Exists, NoRow, Row

LEMMA OriginsStep ==
  ASSUME TypeOK, OriginsExist, Next
  PROVE  OriginsExist'
<1> USE DEF OriginsExist
<1>1. CASE UNCHANGED bookings
  BY <1>1 DEF Exists
<1>2. CASE Inserts
  <2> PICK b \in Fresh, s \in Slots, c \in Clients :
        bookings' = [bookings EXCEPT ![b] = NewRow(s, c, 1, b)]
    BY <1>2 DEF Inserts
  <2>1. b \in Bookings /\ Exists(b)' /\ bookings'[b].origin = b
    BY DEF Fresh, TypeOK, NewRow, Exists
  <2>2. \A x \in Bookings \ {b} : bookings'[x] = bookings[x]
    BY DEF TypeOK
  <2>3. \A x \in Bookings : Exists(x) => Exists(x)'
    BY <2>1, <2>2 DEF Exists
  <2>q. QED
    BY <2>1, <2>2, <2>3, OriginsInBookings DEF Exists
<1>3. CASE Moves
  <2> PICK b \in Fresh, o \in Bookings, s \in Slots :
        /\ bookings[o].status = "booked"
        /\ bookings' = [bookings EXCEPT
             ![o].status = "cancelled",
             ![b] = NewRow(s, bookings[o].client, bookings[o].version + 1, bookings[o].origin)]
    BY <1>3 DEF Moves
  <2>1. b \in Bookings /\ o # b /\ Exists(o)
    BY DEF Fresh, Exists
  <2>2. Exists(b)' /\ bookings'[b].origin = bookings[o].origin
    BY <2>1 DEF TypeOK, NewRow, Exists
  <2>3. \A x \in Bookings \ {b, o} : bookings'[x] = bookings[x]
    BY <2>1 DEF TypeOK
  <2>4. Exists(o)' /\ bookings'[o].origin = bookings[o].origin
    BY <2>1 DEF TypeOK, Exists, Row, NoRow
  <2>5. \A x \in Bookings : Exists(x) => Exists(x)'
    BY <2>2, <2>3, <2>4 DEF Exists
  <2>q. QED
    BY <2>1, <2>2, <2>3, <2>4, <2>5, OriginsInBookings DEF Exists
<1>4. CASE Cancels
  <2> PICK b \in Bookings : Exists(b) /\ bookings' = [bookings EXCEPT ![b].status = "cancelled"]
    BY <1>4 DEF Cancels
  <2>1. Exists(b)' /\ bookings'[b].origin = bookings[b].origin
    BY DEF TypeOK, Exists, Row, NoRow
  <2>2. \A x \in Bookings \ {b} : bookings'[x] = bookings[x]
    BY DEF TypeOK
  <2>3. \A x \in Bookings : Exists(x) => Exists(x)'
    BY <2>1, <2>2 DEF Exists
  <2>q. QED
    BY <2>1, <2>2, <2>3, OriginsInBookings DEF Exists
<1>5. CASE Updates
  <2> PICK b \in Bookings, st \in BookingStatus : Exists(b) /\ bookings' = Updated(b, st)
    BY <1>5 DEF Updates
  <2>1. Exists(b)' /\ bookings'[b].origin = bookings[b].origin
    BY DEF TypeOK, Updated, Exists, Row, NoRow, BookingStatus
  <2>2. \A x \in Bookings \ {b} : bookings'[x] = bookings[x]
    BY DEF TypeOK, Updated
  <2>3. \A x \in Bookings : Exists(x) => Exists(x)'
    BY <2>1, <2>2 DEF Exists
  <2>q. QED
    BY <2>1, <2>2, <2>3, OriginsInBookings DEF Exists
<1>q. QED
  BY <1>1, <1>2, <1>3, <1>4, <1>5, BookingSteps

LEMMA AppointmentStep ==
  ASSUME "status" \notin Ops, TypeOK, OriginsExist, OneLivePerAppointment, Next
  PROVE  OneLivePerAppointment'
<1>1. CASE UNCHANGED bookings
  BY <1>1 DEF OneLivePerAppointment, Live
<1>2. CASE Inserts
  <2> PICK b \in Fresh, s \in Slots, c \in Clients :
        bookings' = [bookings EXCEPT ![b] = NewRow(s, c, 1, b)]
    BY <1>2 DEF Inserts
  <2>1. b \in Bookings /\ bookings'[b].origin = b
    BY DEF Fresh, TypeOK, NewRow
  <2>2. \A x \in Bookings \ {b} : bookings'[x] = bookings[x]
    BY DEF TypeOK
  <2>3. \A x \in Bookings \ {b} : Live(x) => bookings[x].origin # b
    BY DEF OriginsExist, Fresh, Exists, Live
  <2>q. QED
    BY <2>1, <2>2, <2>3 DEF OneLivePerAppointment, Live
<1>3. CASE Moves
  <2> PICK b \in Fresh, o \in Bookings, s \in Slots :
        /\ bookings[o].status = "booked"
        /\ bookings' = [bookings EXCEPT
             ![o].status = "cancelled",
             ![b] = NewRow(s, bookings[o].client, bookings[o].version + 1, bookings[o].origin)]
    BY <1>3 DEF Moves
  <2>1. b \in Bookings /\ o # b
    BY DEF Fresh, Exists
  <2>2. bookings'[b].origin = bookings[o].origin
    BY <2>1 DEF TypeOK, NewRow
  <2>3. \A x \in Bookings \ {b, o} : bookings'[x] = bookings[x]
    BY <2>1 DEF TypeOK
  <2>4. ~Live(o)'
    BY <2>1 DEF TypeOK, Live, Row, NoRow
  <2>5. \A x \in Bookings \ {b, o} : Live(x) => bookings[x].origin # bookings[o].origin
    BY DEF OneLivePerAppointment, Live
  <2>6. \A x \in Bookings \ {b} :
           Live(x)' => Live(x) /\ bookings'[x].origin = bookings[x].origin /\ x # o
    BY <2>3, <2>4 DEF Live
  <2>7. \A x \in Bookings \ {b} : Live(x)' => bookings'[x].origin # bookings'[b].origin
    BY <2>2, <2>5, <2>6
  <2>q. QED
    BY <2>1, <2>6, <2>7 DEF OneLivePerAppointment
<1>4. CASE Cancels
  <2> PICK b \in Bookings : bookings' = [bookings EXCEPT ![b].status = "cancelled"]
    BY <1>4 DEF Cancels
  <2>1. ~Live(b)'
    BY DEF TypeOK, Live, Row, NoRow
  <2>2. \A x \in Bookings \ {b} : bookings'[x] = bookings[x]
    BY DEF TypeOK
  <2>q. QED
    BY <2>1, <2>2 DEF OneLivePerAppointment, Live
<1>5. CASE Updates
  <2> PICK b \in Bookings, st \in BookingStatus :
        bookings[b].status = "booked" /\ bookings' = Updated(b, st)
    BY <1>5 DEF Updates
  <2>1. bookings'[b].origin = bookings[b].origin /\ Live(b)
    BY DEF TypeOK, Updated, Row, NoRow, Live
  <2>2. \A x \in Bookings \ {b} : bookings'[x] = bookings[x]
    BY DEF TypeOK, Updated
  <2>q. QED
    BY <2>1, <2>2 DEF OneLivePerAppointment, Live
<1>q. QED
  BY <1>1, <1>2, <1>3, <1>4, <1>5, BookingSteps

\* However many reschedules of an appointment race with each other, with a client cancel or
\* with a confirm, at most one of its bookings is live.  PATCH, which revives bookings, is
\* excluded.
THEOREM AppointmentsStayWhole ==
  ASSUME "status" \notin Ops
  PROVE  Spec => []OneLivePerAppointment
<1>1. Init => OriginsExist /\ OneLivePerAppointment
  BY DEF Init, OriginsExist, OneLivePerAppointment, Exists, Live, NoRow
<1>2. TypeOK /\ OriginsExist /\ OneLivePerAppointment /\ [Next]_vars
        => OriginsExist' /\ OneLivePerAppointment'
  <2>1. CASE Next
    BY <2>1, OriginsStep, AppointmentStep
  <2>2. CASE UNCHANGED vars
    BY <2>2 DEF vars, OriginsExist, OneLivePerAppointment, Exists, Live
  <2>q. QED
    BY <2>1, <2>2
<1>q. QED
  BY <1>1, <1>2, TypeCorrect, PTL DEF Spec

------------------------------------------------------------------------------
(* The tables implement the calendar. *)

Holding == [b \in Bookings |-> IF Live(b) THEN bookings[b].slot ELSE None]
Used == {b \in Bookings : Exists(b)}

LEMMA CalendarStep ==
  ASSUME "status" \notin Ops, TypeOK, Next
  PROVE  Calendar!Next \/ UNCHANGED <<Holding, Used>>
<1>1. CASE UNCHANGED bookings
  BY <1>1 DEF Holding, Used, Live, Exists
<1>2. CASE Inserts
  <2> PICK b \in Fresh, s \in Slots, c \in Clients :
        IndexAdmits(s, None) /\ bookings' = [bookings EXCEPT ![b] = NewRow(s, c, 1, b)]
    BY <1>2 DEF Inserts
  <2>1. b \in Bookings /\ None \notin Bookings /\ s # None /\ b \notin Used
    BY IdsAssumption DEF Fresh, Used
  <2>2. bookings'[b].slot = s /\ Live(b)' /\ Exists(b)'
    BY <2>1 DEF TypeOK, NewRow, Live, Exists
  <2>3. \A x \in Bookings \ {b} : bookings'[x] = bookings[x]
    BY DEF TypeOK
  <2>4. Holding' = [Holding EXCEPT ![b] = s]
    <3>1. \A x \in Bookings : Holding'[x] = IF x = b THEN s ELSE Holding[x]
      BY <2>1, <2>2, <2>3 DEF Holding, Live
    <3>q. QED
      BY <2>1, <3>1 DEF Holding
  <2>5. Used' = Used \cup {b}
    BY <2>1, <2>2, <2>3 DEF Used, Exists
  <2>6. \A x \in Bookings \ {b} : Holding[x] # s
    BY <2>1 DEF Holding, IndexAdmits, Live
  <2>q. QED
    BY <2>1, <2>4, <2>5, <2>6
       DEF Calendar!Next, Calendar!Take, Calendar!FreeBut, Holding, Used
<1>3. CASE Moves
  <2> PICK b \in Fresh, o \in Bookings, s \in Slots :
        /\ bookings[o].status = "booked" /\ IndexAdmits(s, o)
        /\ bookings' = [bookings EXCEPT
             ![o].status = "cancelled",
             ![b] = NewRow(s, bookings[o].client, bookings[o].version + 1, bookings[o].origin)]
    BY <1>3 DEF Moves
  <2>1. b \in Bookings /\ b # o /\ s # None /\ b \notin Used
    BY IdsAssumption DEF Fresh, Used, Exists
  <2>2. bookings'[b].slot = s /\ Live(b)' /\ Exists(b)'
    BY <2>1 DEF TypeOK, NewRow, Live, Exists
  <2>3. \A x \in Bookings \ {b, o} : bookings'[x] = bookings[x]
    BY DEF TypeOK
  <2>4. ~Live(o)' /\ Exists(o)' /\ Exists(o)
    BY <2>1 DEF TypeOK, Live, Exists, Row, NoRow
  <2>5. Holding' = [Holding EXCEPT ![o] = None, ![b] = s]
    <3>1. \A x \in Bookings :
             Holding'[x] = IF x = b THEN s ELSE IF x = o THEN None ELSE Holding[x]
      <4>1. Holding'[b] = s /\ Holding'[o] = None
        BY <2>1, <2>2, <2>4 DEF Holding
      <4>2. \A x \in Bookings \ {b, o} : Holding'[x] = Holding[x]
        <5> SUFFICES ASSUME NEW x \in Bookings \ {b, o}
                     PROVE  Holding'[x] = Holding[x]
          OBVIOUS
        <5>1. bookings'[x] = bookings[x]
          BY <2>3
        <5>q. QED
          BY <5>1 DEF Holding, Live
      <4>q. QED
        BY <4>1, <4>2
    <3>q. QED
      BY <2>1, <3>1 DEF Holding
  <2>6. Used' = Used \cup {b}
    BY <2>1, <2>2, <2>3, <2>4 DEF Used, Exists
  <2>7. Holding[o] # None
    <3>1. bookings[o].slot \in Slots
      BY DEF TypeOK, Row, NoRow
    <3>q. QED
      BY <3>1, IdsAssumption DEF Holding, Live
  <2>8. \A x \in Bookings \ {o} : Holding[x] # s
    BY <2>1 DEF Holding, IndexAdmits
  <2>q. QED
    BY <2>1, <2>5, <2>6, <2>7, <2>8
       DEF Calendar!Next, Calendar!Move, Calendar!FreeBut, Holding, Used
<1>4. ASSUME NEW b \in Bookings, Exists(b), Exists(b)',
             \A x \in Bookings \ {b} : bookings'[x] = bookings[x],
             ~Live(b)' \/ (Live(b) /\ Live(b)' /\ bookings'[b].slot = bookings[b].slot)
      PROVE  Calendar!Next \/ UNCHANGED <<Holding, Used>>
  <2>1. Used' = Used
    BY <1>4 DEF Used, Exists
  <2>2. CASE Live(b) /\ ~Live(b)'
    <3>1. Holding' = [Holding EXCEPT ![b] = None]
      BY <1>4, <2>2 DEF Holding, Live
    <3>2. Holding[b] # None
      <4>1. bookings[b].slot \in Slots
        BY <1>4 DEF TypeOK, Row, NoRow, Exists
      <4>q. QED
        BY <2>2, <4>1, IdsAssumption DEF Holding
    <3>q. QED
      BY <2>1, <3>1, <3>2 DEF Calendar!Next, Calendar!Release, Holding, Used
  <2>3. CASE ~Live(b) /\ ~Live(b)'
    BY <1>4, <2>1, <2>3 DEF Holding, Live
  <2>4. CASE Live(b) /\ Live(b)' /\ bookings'[b].slot = bookings[b].slot
    BY <1>4, <2>1, <2>4 DEF Holding, Live
  <2>q. QED
    BY <1>4, <2>2, <2>3, <2>4
<1>5. CASE Cancels
  <2> PICK b \in Bookings : Exists(b) /\ bookings' = [bookings EXCEPT ![b].status = "cancelled"]
    BY <1>5 DEF Cancels
  <2>1. ~Live(b)' /\ Exists(b)' /\ \A x \in Bookings \ {b} : bookings'[x] = bookings[x]
    BY DEF TypeOK, Live, Exists, Row, NoRow
  <2>q. QED
    BY <1>4, <2>1
<1>6. CASE Updates
  <2> PICK b \in Bookings, st \in BookingStatus :
        /\ Exists(b) /\ bookings' = Updated(b, st)
        /\ bookings[b].status = "booked"
    BY <1>6 DEF Updates
  <2>1. bookings'[b].slot = bookings[b].slot /\ bookings'[b].status = st
    BY DEF TypeOK, Updated, Row, NoRow
  <2>2. \A x \in Bookings \ {b} : bookings'[x] = bookings[x]
    BY DEF TypeOK, Updated
  <2>q. QED
    BY <1>4, <2>1, <2>2 DEF Live, Exists, BookingStatus
<1>q. QED
  BY <1>1, <1>2, <1>3, <1>5, <1>6, BookingSteps

\* Without PATCH, the tables implement the calendar: a booking id holds its slot for one
\* stretch, alone, and a reschedule swaps slots in one step.
THEOREM TablesImplementCalendar ==
  ASSUME "status" \notin Ops
  PROVE  Spec => ImplementsCalendar
<1>1. Init => Calendar!Init
  BY DEF Init, Calendar!Init, Live, Exists, NoRow
<1>2. TypeOK /\ [Next]_vars => [Calendar!Next]_(Calendar!calVars)
  <2>1. ASSUME TypeOK, Next
        PROVE  [Calendar!Next]_(Calendar!calVars)
    BY <2>1, CalendarStep DEF Calendar!calVars, Holding, Used
  <2>2. ASSUME UNCHANGED vars
        PROVE  UNCHANGED Calendar!calVars
    BY <2>2 DEF vars, Calendar!calVars, Live, Exists
  <2>q. QED
    BY <2>1, <2>2
<1>q. QED
  BY <1>1, <1>2, TypeCorrect, PTL DEF Spec, ImplementsCalendar, Calendar!Spec
==============================================================================
