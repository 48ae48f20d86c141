--------------------------- MODULE ChronosBookings ---------------------------
(***************************************************************************)
(* The booking lifecycle of the Chronos API: the HTTP handlers of          *)
(* apps/api/src/bookings over the tables slots, bookings, reminder_jobs    *)
(* and idempotency_keys.                                                   *)
(*                                                                         *)
(* A handler is one request in flight.  It runs to its next await that     *)
(* reads or writes the database, so what it read before may be stale when  *)
(* it writes.  A BEGIN .. COMMIT block whose statements lock every row     *)
(* they decide on is one step (Postgres READ COMMITTED, one connection);   *)
(* what a handler does before BEGIN and after COMMIT is a step of its own. *)
(***************************************************************************)
EXTENDS Integers, FiniteSets

CONSTANTS
  Slots, Bookings, Clients, Keys, Handlers,
  Offsets,         \* reminder offsets, in hours (the code's 1440 and 60 minutes)
  SlotStart,       \* slot_start_utc of each slot, in hours
  Notice,          \* providers.minimum_booking_notice
  Window,          \* providers.cancellation_window_hours
  RequestWindows,  \* the cancellationWindowHours a reschedule body may carry
  Ops,             \* the endpoints a run exercises
  MaxVersion,      \* bound: bookings.version
  MaxNow,          \* bound: the clock
  None

Endpoints == {"create", "reschedule", "cancel", "confirm", "decline", "status"}

ASSUME TimesAssumption ==
  /\ SlotStart \in [Slots -> Nat]
  /\ Offsets \subseteq Nat /\ RequestWindows \subseteq Nat
  /\ {Notice, Window, MaxVersion, MaxNow} \subseteq Nat
ASSUME IdsAssumption ==
  /\ None \notin Slots \cup Bookings \cup Clients \cup Keys
  /\ None \notin Endpoints
  /\ Ops \subseteq Endpoints

VARIABLES
  slots,      \* slots.status
  bookings,   \* rows of bookings; NoRow where the id is not in use yet
  reminders,  \* reminder_jobs.status by booking and offset
  keys,       \* idempotency_keys by client and key
  now,        \* the clock
  handlers,   \* the requests in flight
  last        \* the success POST /bookings or a cancel answered in the last step, or NoAnswer

db == <<slots, bookings, reminders, keys>>
vars == <<slots, bookings, reminders, keys, now, handlers, last>>

BookingStatus == {"booked", "completed", "cancelled"}
NoRow == [status |-> "none", slot |-> None, client |-> None, version |-> 0, origin |-> None]
NoKey == [op |-> None, slot |-> None, booking |-> None]
Idle == [pc |-> "idle", op |-> None, client |-> None, slot |-> None, booking |-> None,
         key |-> None, version |-> 0, at |-> 0]
NoAnswer == [op |-> None, client |-> None, slot |-> None, booking |-> None,
             replay |-> FALSE, notified |-> FALSE]

------------------------------------------------------------------------------
(* The tables and the conditions the statements test. *)

Exists(b) == bookings[b].status # "none"
Fresh == {b \in Bookings : ~Exists(b)}

\* The rows the partial index bookings_one_live_per_slot covers.
Live(b) == bookings[b].status \in {"booked", "completed"}
NoIndex(s, except) == TRUE  \* mutant: the index is missing
IndexAdmits(s, except) ==
  \A b \in Bookings \ {except} : Live(b) => bookings[b].slot # s

NewRow(s, c, v, o) ==
  [status |-> "booked", slot |-> s, client |-> c, version |-> v, origin |-> o]

\* reminder_jobs rows of a booking of slot s made at time t: past offsets are skipped.
Scheduled(s, t) ==
  [o \in Offsets |-> IF SlotStart[s] > t + o THEN "scheduled" ELSE "none"]

\* cancelForBooking(x): a null x matches no row.
Unscheduled(x) ==
  [b \in Bookings |-> [o \in Offsets |->
     IF b = x /\ reminders[b][o] = "scheduled" THEN "cancelled" ELSE reminders[b][o]]]

\* The primary key (client_id, key), as the lookup before BEGIN sees it and as the INSERT
\* inside the transaction meets it.
KeyTaken(c, k) == k # None /\ keys[<<c, k>>] # NoKey
NoConflict(c, k) == FALSE  \* mutant: the insert overwrites
KeyConflict(c, k) == KeyTaken(c, k)
KeyStored(c, k, op, s, b) ==
  [ck \in DOMAIN keys |->
     IF k # None /\ ck = <<c, k>> THEN [op |-> op, slot |-> s, booking |-> b] ELSE keys[ck]]

WindowClosed(s, w, t) == t + w > SlotStart[s]

\* A handler goes on as request r, answers success with a, or ends with nothing to record.
Continue(h, r) == handlers' = [handlers EXCEPT ![h] = r] /\ last' = NoAnswer
Succeed(h, a) == handlers' = [handlers EXCEPT ![h] = Idle] /\ last' = a
End(h) == Succeed(h, NoAnswer)

------------------------------------------------------------------------------
(* POST /bookings *)

\* A 201 of the create endpoint.  The new_booking notification is inserted, best effort,
\* whatever the outcome: after a replay, and after a refusal too (without a booking).
Created(h, c, s, b, replay) ==
  \E notified \in BOOLEAN :
    Succeed(h, [op |-> "create", client |-> c, slot |-> s, booking |-> b,
                replay |-> replay, notified |-> notified])

\* The stored request_hash is that of a create of slot s.
AnyRequest(row, s) == TRUE  \* mutant: the hash is not compared
SameRequest(row, s) == row.op = "create" /\ row.slot = s

\* Up to BEGIN: event type check (400) and idempotency lookup (replay, or 422 for another
\* request under the same key), outside the transaction.
CreateLookup(h, c, s, k) ==
  /\ "create" \in Ops /\ handlers[h] = Idle
  /\ \/ End(h)
     \/ /\ KeyTaken(c, k)
        /\ IF SameRequest(keys[<<c, k>>], s)
           THEN Created(h, c, s, keys[<<c, k>>].booking, TRUE)
           ELSE End(h)
     \/ /\ ~KeyTaken(c, k)
        /\ Continue(h, [Idle EXCEPT !.pc = "book", !.op = "create", !.client = c,
                                   !.slot = s, !.key = k, !.at = now])
  /\ UNCHANGED <<db, now>>

\* The compare-and-set on the slot: open, and not before the notice period ends.
Bookable(s, t) == slots[s] = "open" /\ SlotStart[s] >= t + Notice

\* BEGIN .. COMMIT: slot, booking, reminders and key together; or, refused (409) or stopped
\* by an error (400), nothing.
CreateBook(h) ==
  LET q == handlers[h]
      admitted == /\ Bookable(q.slot, q.at)
                  /\ IndexAdmits(q.slot, None)
                  /\ ~KeyConflict(q.client, q.key)
  IN
  /\ q.pc = "book"
  /\ UNCHANGED now
  /\ \/ /\ End(h)
        /\ UNCHANGED db
     \/ /\ admitted
        /\ \E b \in Fresh :
             /\ slots' = [slots EXCEPT ![q.slot] = "booked"]
             /\ bookings' = [bookings EXCEPT ![b] = NewRow(q.slot, q.client, 1, b)]
             /\ reminders' = [reminders EXCEPT ![b] = Scheduled(q.slot, now)]
             /\ keys' = KeyStored(q.client, q.key, "create", q.slot, b)
             /\ Continue(h, [q EXCEPT !.pc = "enqueue", !.booking = b])

\* After COMMIT: the jobs of the scheduled rows go to BullMQ; if that fails, the catch
\* block answers 400 although the booking stands.
CreateFinish(h) ==
  LET q == handlers[h]
      due == \E o \in Offsets : reminders[q.booking][o] = "scheduled"
  IN
  /\ q.pc = "enqueue"
  /\ \/ Created(h, q.client, q.slot, q.booking, FALSE)
     \/ due /\ End(h)
  /\ UNCHANGED <<db, now>>

------------------------------------------------------------------------------
(* POST /bookings/:id/cancel *)

CancelVerdict(c, b, v) ==
  IF ~Exists(b) THEN 404
  ELSE IF bookings[b].client # c THEN 403
  ELSE IF bookings[b].version # v THEN 412
  ELSE IF bookings[b].status # "booked" \/ WindowClosed(bookings[b].slot, Window, now)
  THEN 409 ELSE 204

\* The unlocked reads and evaluateCancellation.
CancelRead(h, c, b, v) ==
  LET code == CancelVerdict(c, b, v) IN
  /\ "cancel" \in Ops /\ handlers[h] = Idle
  /\ IF code = 204
     THEN Continue(h, [Idle EXCEPT !.pc = "write", !.op = "cancel", !.client = c,
                                  !.slot = bookings[b].slot, !.booking = b])
     ELSE End(h)
  /\ UNCHANGED <<db, now>>

\* The reads do not select the id column, so cancelForBooking gets an undefined id.
SelectedId == None

\* BEGIN .. COMMIT: both updates are unconditional.
CancelWrite(h) ==
  LET q == handlers[h] IN
  /\ q.pc = "write"
  /\ bookings' = [bookings EXCEPT ![q.booking].status = "cancelled"]
  /\ slots' = [slots EXCEPT ![q.slot] = "open"]
  /\ reminders' = Unscheduled(SelectedId)
  /\ Succeed(h, [NoAnswer EXCEPT !.op = "cancel", !.client = q.client, !.slot = q.slot,
                                  !.booking = q.booking])
  /\ UNCHANGED <<keys, now>>

------------------------------------------------------------------------------
(* POST /bookings/:id/reschedule *)

CheckVerdict(c, b, v, w) ==
  IF ~Exists(b) THEN 404
  ELSE IF bookings[b].client # c THEN 403
  ELSE IF bookings[b].version # v THEN 412
  ELSE IF bookings[b].status # "booked" \/ WindowClosed(bookings[b].slot, w, now)
  THEN 409 ELSE 200

\* Ownership, then the first transaction (locked, then released) and the window of
\* the current slot, whose width the request chooses.
RescheduleCheck(h, c, b, s, k, v, w) ==
  /\ "reschedule" \in Ops /\ handlers[h] = Idle
  /\ IF CheckVerdict(c, b, v, w) = 200
     THEN Continue(h, [Idle EXCEPT !.pc = "move", !.op = "reschedule", !.client = c,
                         !.slot = s, !.booking = b, !.key = k, !.version = v, !.at = now])
     ELSE End(h)
  /\ UNCHANGED <<db, now>>

\* The slots a move leaves: the new one booked, then the old one opened.
KeepOldSlot(new, old) == [slots EXCEPT ![new] = "booked"]  \* mutant: the old slot leaks
OpenNewSlot(new, old) == [slots EXCEPT ![new] = "open"]    \* mutant: the wrong slot is opened
SlotsMoved(new, old) == [slots EXCEPT ![new] = "booked", ![old] = "open"]

\* Every reminder row of the booking moved away from becomes cancelled.
KeepRows(b) == reminders[b]  \* mutant: the old rows stay scheduled
RowsCancelled(b) ==
  [o \in Offsets |-> IF reminders[b][o] = "none" THEN "none" ELSE "cancelled"]

\* The second transaction re-reads the booking FOR UPDATE.
MoveUnchecked(q) ==  \* mutant: the re-read status is not looked at
  IF slots[q.slot] # "open" \/ SlotStart[q.slot] <= q.at THEN 409 ELSE 201
MoveVerdict(q) ==
  IF bookings[q.booking].version # q.version THEN 412
  ELSE IF \/ bookings[q.booking].status # "booked"
          \/ slots[q.slot] # "open" \/ SlotStart[q.slot] <= q.at
          \/ ~IndexAdmits(q.slot, q.booking)
          \/ KeyConflict(q.client, q.key)
  THEN 409 ELSE 201

\* Old booking cancelled and its slot opened, new slot and booking taken, reminders
\* replaced, key stored: one transaction; or, refused or stopped by an error, nothing (a
\* slot_start_utc that arrives as a Date stops it at subtractElapsed).  What follows COMMIT
\* touches no table here.
RescheduleMove(h) ==
  LET q == handlers[h]
      old == bookings[q.booking]
  IN
  /\ q.pc = "move"
  /\ End(h)
  /\ UNCHANGED now
  /\ \/ UNCHANGED db
     \/ /\ MoveVerdict(q) = 201 /\ old.version < MaxVersion
        /\ \E b \in Fresh :
             /\ slots' = SlotsMoved(q.slot, old.slot)
             /\ bookings' = [bookings EXCEPT
                  ![q.booking].status = "cancelled",
                  ![b] = NewRow(q.slot, old.client, old.version + 1, old.origin)]
             /\ reminders' = [reminders EXCEPT
                  ![q.booking] = RowsCancelled(q.booking),
                  ![b] = Scheduled(q.slot, q.at)]
             /\ keys' = KeyStored(q.client, q.key, "reschedule", q.slot, b)

------------------------------------------------------------------------------
(* POST /bookings/:id/confirm, /decline and PATCH /bookings/:id/status: one
   transaction that locks the booking. *)

OwnerVerdict(c, b) ==
  IF ~Exists(b) THEN 404 ELSE IF bookings[b].client # c THEN 403 ELSE 200

\* Confirm and decline also require a booking that is still booked.
LockUnchecked(c, b) == OwnerVerdict(c, b)  \* mutant: any status will do
LockVerdict(c, b) ==
  IF OwnerVerdict(c, b) = 200 /\ bookings[b].status # "booked" THEN 409
  ELSE OwnerVerdict(c, b)

Updated(b, st) ==
  [bookings EXCEPT ![b].status = st, ![b].version = bookings[b].version + 1]

Unscheduling(h, op, c, b) ==
  Continue(h, [Idle EXCEPT !.pc = "unschedule", !.op = op, !.client = c, !.booking = b])

Confirm(h, c, b) ==
  /\ "confirm" \in Ops /\ handlers[h] = Idle
  /\ End(h)
  /\ IF LockVerdict(c, b) = 200
     THEN bookings[b].version < MaxVersion /\ bookings' = Updated(b, "completed")
     ELSE UNCHANGED bookings
  /\ UNCHANGED <<slots, reminders, keys, now>>

\* The slot of a declined booking is not reopened.
Decline(h, c, b) ==
  /\ "decline" \in Ops /\ handlers[h] = Idle
  /\ IF LockVerdict(c, b) = 200
     THEN /\ bookings[b].version < MaxVersion /\ bookings' = Updated(b, "cancelled")
          /\ Unscheduling(h, "decline", c, b)
     ELSE End(h) /\ UNCHANGED bookings
  /\ UNCHANGED <<slots, reminders, keys, now>>

\* Any status of the allow list is written over any other: 422 outside the list, 500
\* where a constraint of the table refuses the update.
StatusRequests == BookingStatus \cup {"confirmed", "declined", "other"}
StatusUnchecked(c, b, st) ==  \* mutant: no CHECK constraint on bookings.status
  IF OwnerVerdict(c, b) # 200 THEN OwnerVerdict(c, b)
  ELSE IF st \in BookingStatus /\ st # "cancelled" /\ ~IndexAdmits(bookings[b].slot, b)
  THEN 500 ELSE 200
StatusVerdict(c, b, st) ==
  IF OwnerVerdict(c, b) # 200 THEN OwnerVerdict(c, b)
  ELSE IF st = "other" THEN 422
  ELSE IF \/ st \notin BookingStatus
          \/ st # "cancelled" /\ ~IndexAdmits(bookings[b].slot, b)
  THEN 500 ELSE 200

SetStatus(h, c, b, st) ==
  LET code == StatusVerdict(c, b, st) IN
  /\ "status" \in Ops /\ handlers[h] = Idle
  /\ IF code = 200
     THEN bookings[b].version < MaxVersion /\ bookings' = Updated(b, st)
     ELSE UNCHANGED bookings
  /\ IF code = 200 /\ st = "cancelled" THEN Unscheduling(h, "status", c, b)
     ELSE End(h)
  /\ UNCHANGED <<slots, reminders, keys, now>>

\* cancelForBooking after the commit of a decline or a status change.
Unschedule(h) ==
  LET q == handlers[h] IN
  /\ q.pc = "unschedule"
  /\ reminders' = Unscheduled(q.booking)
  /\ End(h)
  /\ UNCHANGED <<slots, bookings, keys, now>>

------------------------------------------------------------------------------
(* The environment. *)

\* The API process restarts: requests in flight are lost, open transactions roll back.
Restart ==
  /\ \E h \in Handlers : handlers[h] # Idle
  /\ handlers' = [h \in Handlers |-> Idle]
  /\ last' = NoAnswer
  /\ UNCHANGED <<db, now>>

Tick ==
  /\ now < MaxNow
  /\ now' = now + 1
  /\ last' = NoAnswer
  /\ UNCHANGED <<db, handlers>>

Init ==
  /\ slots = [s \in Slots |-> "open"]
  /\ bookings = [b \in Bookings |-> NoRow]
  /\ reminders = [b \in Bookings |-> [o \in Offsets |-> "none"]]
  /\ keys = [ck \in Clients \X Keys |-> NoKey]
  /\ now = 0
  /\ handlers = [h \in Handlers |-> Idle]
  /\ last = NoAnswer

Create(h) ==
  \/ \E c \in Clients, s \in Slots, k \in Keys \cup {None} : CreateLookup(h, c, s, k)
  \/ CreateBook(h)
  \/ CreateFinish(h)

Cancel(h) ==
  \/ \E c \in Clients, b \in Bookings, v \in 1..MaxVersion : CancelRead(h, c, b, v)
  \/ CancelWrite(h)

Reschedule(h) ==
  \/ \E c \in Clients, b \in Bookings, s \in Slots, k \in Keys \cup {None},
        v \in 1..MaxVersion, w \in RequestWindows : RescheduleCheck(h, c, b, s, k, v, w)
  \/ RescheduleMove(h)

Update(h) ==
  \/ \E c \in Clients, b \in Bookings : Confirm(h, c, b) \/ Decline(h, c, b)
  \/ \E c \in Clients, b \in Bookings, st \in StatusRequests : SetStatus(h, c, b, st)
  \/ Unschedule(h)

Next ==
  \/ \E h \in Handlers : Create(h) \/ Cancel(h) \/ Reschedule(h) \/ Update(h)
  \/ Restart
  \/ Tick

Spec == Init /\ [][Next]_vars

------------------------------------------------------------------------------
(* Properties. *)

Row == [status : BookingStatus, slot : Slots, client : Clients, version : Nat, origin : Bookings]
KeyRow == [op : {"create", "reschedule"}, slot : Slots, booking : Bookings]
Handler ==
  [pc : {"idle", "book", "enqueue", "write", "move", "unschedule"}, op : Ops \cup {None},
   client : Clients \cup {None}, slot : Slots \cup {None}, booking : Bookings \cup {None},
   key : Keys \cup {None}, version : Nat, at : Nat]

\* What the handlers carry from one step to the next.
HandlerOK(q) ==
  /\ q \in Handler
  /\ q.pc \in {"book", "enqueue", "move"} => q.client \in Clients /\ q.slot \in Slots
  /\ q.pc = "write" => q.slot \in Slots
  /\ q.pc \in {"enqueue", "write", "move", "unschedule"} =>
       q.booking \in Bookings /\ Exists(q.booking)
  /\ q.pc = "write" => q.op = "cancel" /\ q.slot = bookings[q.booking].slot

\* Type invariant: the tables hold rows of their types, and a handler that has read a
\* booking names an existing one.
TypeOK ==
  /\ slots \in [Slots -> {"open", "booked"}]
  /\ bookings \in [Bookings -> Row \cup {NoRow}]
  /\ reminders \in [Bookings -> [Offsets -> {"none", "scheduled", "cancelled"}]]
  /\ keys \in [Clients \X Keys -> KeyRow \cup {NoKey}]
  /\ now \in Nat
  /\ DOMAIN handlers = Handlers
  /\ \A h \in Handlers : HandlerOK(handlers[h])

\* No two bookings that are not cancelled share a slot, whatever endpoints race
\* (PRD FR4; the CAS and index behind createBooking, rescheduleBooking and updateStatus).
OneLiveBookingPerSlot ==
  \A x, y \in Bookings :
    Live(x) /\ Live(y) /\ bookings[x].slot = bookings[y].slot => x = y

\* A slot offered as open is not taken: booking it cannot fail on the unique index.
OpenSlotIsFree ==
  \A b \in Bookings : Live(b) => slots[bookings[b].slot] = "booked"

\* A slot withheld as booked is held by a booking: no slot is lost to the calendar.
BookedSlotIsHeld ==
  \A s \in Slots :
    slots[s] = "booked" => \E b \in Bookings : Live(b) /\ bookings[b].slot = s

\* However many reschedules of an appointment race, at most one of its bookings is live.
OneLivePerAppointment ==
  \A x, y \in Bookings :
    Live(x) /\ Live(y) /\ bookings[x].origin = bookings[y].origin => x = y

\* A moved appointment is not announced twice: scheduled reminders belong to one of its
\* bookings (rescheduleBooking cancels the old rows and inserts the new in one transaction).
OneReminderSetPerAppointment ==
  \A x, y \in Bookings : \A i, j \in Offsets :
    /\ reminders[x][i] = "scheduled" /\ reminders[y][j] = "scheduled"
    /\ bookings[x].origin = bookings[y].origin
    => x = y

\* A 201 of POST /bookings, replayed or not, names a booking of the caller for the slot
\* the request asked for.
CreatedNamesRequest ==
  last.op = "create" =>
    /\ Exists(last.booking)
    /\ bookings[last.booking].slot = last.slot
    /\ bookings[last.booking].client = last.client

\* An idempotency key, once stored, names the same booking forever: requests racing past
\* the lookup cannot both succeed under it.
KeyIsBoundOnce ==
  [][\A ck \in Clients \X Keys : keys[ck] # NoKey => keys'[ck] = keys[ck]]_vars

\* Completed and cancelled are final (PRD FR5; lifecycle.service.ts VALID_TRANSITIONS).
TerminalIsFinal ==
  [][\A b \in Bookings :
       bookings[b].status \in {"completed", "cancelled"} =>
         bookings'[b].status = bookings[b].status]_vars

\* A replayed create emits no second new_booking notification.
ReplayEmitsNoEvent == last.replay => ~last.notified

\* The calendar the tables implement.
Calendar == INSTANCE SlotCalendar WITH
  holding <- [b \in Bookings |-> IF Live(b) THEN bookings[b].slot ELSE None],
  used <- {b \in Bookings : Exists(b)}

\* Every step of the handlers is a step of the calendar: a booking id holds its slot for one
\* stretch, and a reschedule swaps slots atomically.
ImplementsCalendar == Calendar!Spec
==============================================================================
