# Chronos: a verification project

Chronos is an appointment scheduling platform: a NestJS API (`apps/api`), a Next.js front end
(`apps/web`), Postgres (`packages/db`), a time library (`packages/time`) and BullMQ jobs for
reminders and slot materialization. This directory holds TLA+ models of its core, the TLC
instances that check them and the theorems TLAPS proves about them.

## 1. The system

| Part | State | Operations | What makes it correct |
|---|---|---|---|
| Booking endpoints (`apps/api/src/bookings`) | `slots`, `bookings`, `reminder_jobs`, `idempotency_keys` | create, cancel, reschedule, confirm, decline, PATCH status | one live booking per slot; open slots are free and booked ones are held; final statuses stay final; an appointment never splits; a key means one booking |
| Reminder queue (`reminders/reminder.queue.ts`) | `reminder_jobs`, BullMQ delayed jobs | enqueueForBooking, cancelForBooking, reconcileScheduledReminders | every scheduled row has a job; cancelled bookings send nothing |
| Reminder worker, e-mail gateway (`reminders/reminder.worker.ts`, `email/`) | `reminder_jobs`, what the mail provider accepted | process, processReminder, mark* | a reminder goes out once, retries on transient errors end |
| Materializer (`packages/db/src/materializer.ts`, `materialize/`) | `slots` | materializeProvider, materialize, run again and concurrently | no minute booked twice, a call that returns is complete, published slots stay |
| Time library (`packages/time`) | none (pure) | resolveWallClock, generateSlots, isCancellable, reminderFireTimes | right across DST: slots start in the working hours and do not overlap |
| Sessions (`auth/`) | `provider_sessions`, `admin_sessions`, cookies | sign-in, guard, sign-out, expiry | a cookie stands for who signed in with it, and for nobody once the session has ended |
| Connection pool (use of `pg.Pool`) | connections, waiters, open transactions, row locks | connect, query, release | a transaction stays on one connection; a connection has one owner; requests end |
| Provider's pages (`apps/web`) with the list, search and settings endpoints behind them | what is on the screen, requests under way, `providers` | load, filter, search, confirm, decline, cancel, save | no spinner without a request, an action that was done is shown, a save reaches its own row |
| Analytics, reports, billing, notifications | reads and append-only inserts | | display |

The endpoints share nothing but the database, its connections and the queue: they interact through
rows, row locks and constraints. The pages reach them over HTTP, with a cookie. Several requests run at a time in one Node process and interleave at every
`await`. What is hard here:

* **Interleaving and stale reads.** `cancelBooking` decides on an unlocked read; `createBooking`
  looks its idempotency key up before `BEGIN`; `rescheduleBooking` locks, unlocks and locks again.
* **Partial failure and restarts.** The answer, the notification and the BullMQ jobs come after
  `COMMIT`.
* **Redelivery and retries** of reminder jobs; **time**: windows, notice, DST.
* **Shared connections.** `BEGIN` and `COMMIT` go through `pool.query`, and a reschedule releases its
  first connection twice.
* **Late answers.** The pages start a load for every change of a filter and cancel none; cookies are
  set, cleared and expire while requests are under way.

The full list, line by line, is in `PROJECT.json` under `hazards`.

## 2. Modules

| Module | Models |
|---|---|
| `SlotCalendar` | abstract specification: which booking id holds which slot; taking, releasing and moving are atomic |
| `ChronosBookings` | the booking endpoints over the four tables; its properties; refinement of `SlotCalendar` |
| `ChronosReminders` | rows of `reminder_jobs`, BullMQ, queue manager, worker, gateway and mail provider on several API instances |
| `WallClock` | `resolveWallClock`, `generateSlots` and the overlap of two slots, in minutes |
| `SlotMaterializer` | rows of `slots`: calls of the materializer, bookings, time zone changes; extends `WallClock` |
| `ProviderSessions` | cookies of one browser, the two session tables, guards |
| `ProviderConsole` | the pages of that browser, the requests under way and the tables behind them; extends `ProviderSessions` |
| `PooledTransactions` | the statements of create, cancel and reschedule on the connections of one pool |
| `MCChronosBookings`, `MCChronosReminders`, `MCSlotMaterializer`, `MCProviderConsole`, `MCPooledTransactions` | small instances for TLC |
| `ChronosBookingsProofs`, `ChronosSlotsProofs`, `ChronosRemindersProofs`, `SlotMaterializerProofs`, `ProviderSessionsProofs`, `ProviderConsoleProofs`, `ConsoleScreenProofs`, `PooledTransactionsProofs` | theorems, checked by TLAPS |

`SlotMaterializer` says where the slots of `ChronosBookings` come from; `PooledTransactions` says when
its transactions may be taken as single steps; `ChronosReminders` follows the rows it leaves behind;
`ProviderConsole` looks at it from the other side of the HTTP interface.

### ChronosBookings

*State.* `slots`, `bookings`, `reminders`, `keys` are the tables, restricted to the columns the
decisions read. `now` is the clock. `handlers[h]` is a request in flight: which step comes next
(`pc`), the body it was sent, and what it remembers of its reads (`slot`, `version`, `at`, the time
of its first clock reading). `last` is the success answer of the last step. `origin`, a column the
table does not have, records the first booking of a chain of reschedules, so that the properties can
speak of one appointment.

*Steps.* A request runs from one database access that matters to the next. A `BEGIN .. COMMIT` block
is one action when each statement locks the rows it depends on: Postgres then serializes it against
the other blocks on those rows. Reads outside of such a block are actions of their own and what they
return may be stale when it is used.

| Action | Code |
|---|---|
| `CreateLookup`, `CreateBook`, `CreateFinish` | `bookings.service.ts` `createBooking` before `BEGIN`, its transaction, and what follows `COMMIT`, with the notification of the controller |
| `CancelRead`, `CancelWrite` | `bookings.controller.ts` `cancelBooking`: the unlocked reads with `evaluateCancellation`; the unconditional updates |
| `RescheduleCheck`, `RescheduleMove` | `reschedule.service.ts`: the first lock, released, with the window check; the transaction |
| `Confirm`, `Decline`, `SetStatus` | one locked transaction each |
| `Unschedule` | `cancelForBooking` after the commit of decline or PATCH |
| `Restart`, `Tick` | the API process stops (requests in flight are gone, open transactions roll back); time passes |

*Abstractions.* One provider. Time is in hours; reminder offsets, notice, window and slot starts are
constants. `request_hash` is compared through the slot id, the only field of the request the model
keeps. A transaction may also end without effect for any other reason (an error, ROLLBACK): with the
driver's default type parsers `slot_start_utc` is a `Date` and `rescheduleBooking` stops at
`subtractElapsed`; the safety properties hold whether it does or not. Transactions issued through
`pool.query` (create and cancel) are taken to keep their connection, which the pool grants as long as
it is not saturated: see `PooledTransactions`. Reminder rows only take the statuses the endpoints write; the
worker is not part of this module. The jobs, activity rows and notifications a reschedule produces
after its commit change none of the four tables and are left out.

*Fairness.* `Spec` states safety only; nothing is assumed to be scheduled.

### SlotCalendar

`holding` maps a booking id to the slot it has, `used` is the set of ids handed out. `ImplementsCalendar`
maps a live row of `bookings` to its slot. That a booking id holds at most one stretch is what
fails once PATCH may revive a cancelled booking; the run that checks the refinement leaves PATCH out.

### ChronosReminders

The booking module says which reminder rows the endpoints write; this one follows a reminder from its
row to the mail.

*State.* `bookings` (status only) and `optedOut` stand for the tables the reminders depend on, `rows`
for `reminder_jobs.status`, `jobs` for the BullMQ job of each reminder (its `jobId` is a function of
booking and offset) with the attempts made, the times it stalled and the holder of its lock.
`enqueues` and `cancels` are the calls of `enqueueForBooking` and `cancelForBooking` under way,
`workers[p]` is how far the worker of instance `p` is. `up` and `starting` are the instances that run
and those that have not yet read the rows to reconcile. `mails` counts what the provider accepted;
`faults` and `endedAt` are history for the properties.

| Action | Code |
|---|---|
| `CreateBooking`, `EndQuietly`, `EndAndCancel`, `Unsubscribe` | what the endpoints do to reminders. `EndQuietly` includes the client cancel, whose `cancelForBooking` gets an undefined id |
| `FindRow`, `AddJob`, `EnqueueFails` | one round of the loop of `enqueueForBooking`: skip or look the row up, then `queue.add`; a failure ends a create's loop, the reconciliation goes on |
| `Reconcile` | the SELECT of `reconcileScheduledReminders`; the server listens when its rounds are over (`Serving`) |
| `ReadRows`, `RemoveJob`, `CancelRows`, `CancelFails` | the awaits of `cancelForBooking` |
| `Take`, `Claim`, `Check`, `Load`, `LoadBooking`, `Send`, `Mark`, `WorkerFails` | `process`, `processReminder`, `mark*`; a step from one await to the next |
| `Promote`, `LoseLock`, `Redeliver`, `Expire` | BullMQ (external): delay or backoff over, lock not renewed, stalled job handed out again, finished job removed |
| `Crash`, `Restart`, `Tick` | environment |

*Mail provider.* It accepts and answers; or accepts and the answer is lost; or refuses with one of
the errors of `EmailGateway.send`, which `IsTransientError` classifies as `isTransientError` does. A second send of the same reminder counts
as a second mail: the key is put into the headers of the e-mail itself (`email.gateway.ts:79-81`), not
given to the client as the request's idempotency key.

*Abstractions.* Each booking has reminders with fixed due ticks; the two offsets are independent, so
the order of the loop is left open. Booking and client are read in one step: what happens between
these reads could as well happen between that step and `Send`. A status the CHECK does not list
(`suppressed`, for a client who opted out) makes the update and with it the attempt fail. A
rescheduled booking is `moved`; the new booking is one more `CreateBooking`. PATCH back to `booked`,
and clients without an e-mail address, are left out.

*Fairness.* `FairSpec` makes time pass, running instances work, stopped ones restart, and BullMQ
promote due jobs and redeliver the jobs of dead workers: that is what a supervised process, the event
loop and the stalled check of BullMQ do. Nothing makes a booking end, the provider accept a mail, or
a finished job expire.

### WallClock and SlotMaterializer

*Time.* Instants are minutes, days are numbered from 0, and a zone is `[offset, at, shift]`: its clock
is `offset` minutes ahead until the local minute `at`, and jumps by `shift` there. One change is enough
for a horizon of days. `Resolve` is the `compatible` reading of `resolveWallClock`: a skipped minute is
moved by the gap, a repeated one is the first. `GenerateSlots` is `generateSlots` as a set.

*State.* `slots` is the table, `runs[r]` a call of `materializeProvider` with the INSERTs it has still
to make, `finished` (history) the arguments of the calls that returned, `answer` what
`MaterializerService.materialize` generated last, `zone` and `today` the provider's zone and the clock.

| Action | Code |
|---|---|
| `Call`, `InsertNext`, `Return`, `Crash` | `packages/db/src/materializer.ts`: the list, one `INSERT .. ON CONFLICT DO NOTHING` at a time, the end, or a stop in between |
| `Materialize` | `materializer.service.ts`: one rule per weekday (`ByDow`), `Batch`. Its statement carries an unquoted JSON literal, which the database cannot parse: nothing is stored |
| `Book`, `Reopen`, `UpdateTimezone`, `NextDay` | what bookings, `PATCH /providers/me` and time do to slots and zone |

*Constraints.* `UniqueStart` and `NoOverlap` are `slots_provider_start_uniq` and the exclusion
constraint `slots_no_overlap`; `ON CONFLICT` without a target passes over a row that either refuses.

### ProviderSessions and ProviderConsole

*Sessions.* Random values are numbers that are drawn once. `jar` holds the three cookies with their
expiry, `sessions` and `adminSessions` are the tables. A token is raw or escaped: `res.cookie` escapes
base64, the provider's guard and sign-out decode it, the administrator's do not. `ProviderHash` has a
fixed salt. `AdminHash` draws one at every call, so `FindByToken` finds nothing: whoever signs in as
an administrator is turned away by the guard afterwards, and a sign-out deletes no row. `refused`
(history) holds the cookies turned away and when; the run `admin_status` shows one of a session that is
stored and has not expired, which `PHASE_6_ADMIN_AUTH_DESIGN.md:18` and `PHASE_6_EVIDENCE.md:13` deny.

*Console.* `page` and `view` are the page on the screen and its React state, `net` the requests under
way, the loads oldest first, each with the cookie it was sent with and the page that waits for it. `bookings`
and `rows` are the tables the endpoints read and write.

| Action | Code |
|---|---|
| `Open`, `LogIn`, `LogOut` | links and reloads through `middleware.ts`, the sign-in page, the sign-out of `AppShell`. `Public` paths are prefixes: `/book` lets `/bookings` through without a cookie, to load, be answered 401 and show the error |
| `SetFilter`, `SetSearch`, `Retry`, `HandleRetry` | the controls of the lists; on the appointments page each starts a load |
| `OpenDrawer`, `CloseDrawer`, `Click`, `Press` | the drawer of the appointments page and its buttons; the buttons of the dashboard |
| `Type`, `HandleSearch`, `EditSlug`, `ChooseNotice`, `Save` | the search box with its delay, settings and availability |
| `Serve` | the endpoint: the lists (with the proxy's mapping of statuses), search, profile, confirm, decline, cancel |
| `Admit`, `UpdateMe` | a save: the guard's look-up, then the UPDATE |
| `Fail` | a request or an answer that is lost |
| `Deliver` | the page's handler of an answer, in any order |
| `Elsewhere`, `Session` | other people's changes of a booking; sign-ins, sign-outs and time of `ProviderSessions` |

*Abstractions.* An item of a list is a booking and its status; a search text matches one client. The
client cookie is the client's id, so it needs no table. `version` is kept because the page's cancel
sends none and the endpoint assumes 1. Handlers of a page that was left by a link still run (React
keeps the closures), those of a reloaded document do not.

### PooledTransactions

*State.* `pool` is pg-pool: the stack of idle connections, the queue of waiting requests, who uses
which connection. `todo[r]` is the list of statements request `r` has still to send, each with the way
it goes (`pool.query`, or the variable that holds a connection) and the variables that are released
after it. `conn[c]` is the transaction open on a connection: its locks and uncommitted writes. `db` is
what is committed. `held`, `visible` and `saturated` are the request's variables and two histories.

*Steps.* One statement, with everything the request does until its next await: the connection of a
`pool.query` goes back first, then `release()` calls, then the next connection is asked for. That
order is why `BEGIN .. COMMIT` through the pool stays on one connection: what was given back last is
given out first, unless somebody is waiting.

| Action | Code |
|---|---|
| `Begin`, `Commit`, `Rollback` | the statements of that name; `Begin` on a connection of its own stores it in `clientPre` or `client` |
| `Check`, `Window`, `Read` | reads that decide whether a cancel or a reschedule goes on, and the last reads |
| `Lock`, `Take`, `Update`, `Insert` | `SELECT .. FOR UPDATE`, the compare-and-set of the slot, updates by id, the INSERT under the unique index |
| `EndDeadlock` | PostgreSQL (external): a statement of a deadlock fails |

*Abstractions.* Consecutive SELECTs of a request are one; reminder rows, keys and events are left out; `confirm` and `decline` take one
connection and release it once, so they add nothing. A failed `pool.query` costs the pool that
connection, which counts as given back, for a new one takes its place.

*Fairness.* `FairSpec`: the database answers statements that wait for no lock and ends deadlocks
(`deadlock_timeout`). Requests need not arrive.

## 3. Runs

| Run | Instance | Shows |
|---|---|---|
| `bookings_locked` | 3 concurrent requests, 3 booking ids, 2 slots; create, reschedule, confirm, decline | `OpenSlotIsFree`, `TerminalIsFinal` |
| `bookings_cancel` | 2 requests, 3 booking ids, 2 slots; create, reschedule, confirm, cancel | `BookedSlotIsHeld`, `OneLivePerAppointment`, `OneReminderSetPerAppointment`, `ImplementsCalendar` |
| `bookings_all` | 2 requests, 2 booking ids, one key, 2 slots; all six endpoints | `TypeOK`, `OneLiveBookingPerSlot`, `CreatedNamesRequest`, `KeyIsBoundOnce` |
| `bookings_cancel_race` | violation | a cancel overwrites `completed`: `TerminalIsFinal` |
| `bookings_replay_event` | violation | a replayed create notifies again: `ReplayEmitsNoEvent` |
| `reminders_safety` | 2 instances, 1 reminder, a crash and a fault | `TypeOK`, `MailsWithinFaults`, `EndedEarlyIsNotMailed`, `ScheduledHasKeeper`, `SentIsRecorded` |
| `reminders_live` | the same with a crash and no other fault, under `FairSpec` | `ScheduledIsTakenUp`, `ClaimIsSettled` |
| `slots` | 2 calls, 3 rules, 4 zones, a day passes, one change of zone | `TypeOK`, `ProviderIsNotDoubleBooked`, `ReturnedCallIsComplete`, `BatchHasNoOverlap`, `BatchStartsInWorkingHours`, `RerunKeepsSlots` |
| `console` | 2 providers, an administrator, 2 clients, 2 bookings, 4 user steps, one lost message | `TypeOK`, `GuardIsVouched`, `LoadingHasRequest`, `OwnActionShown`, `SavedByItsProvider` |
| `admin_status` | violation | a signed-in administrator is answered 401: `SignedInAdminIsLetIn` |
| `pool` | a reschedule, 2 cancels, a create, 3 connections, under `FairSpec` | `TypeOK`, `AllOrNothing`, `ConnectionIsItsOwn`, `PoolIsWholeAtRest`, `EveryRequestEnds` |
| `reminders_duplicate` | violation | one fault suffices for a second mail: `AtMostOneMail` |

*Bounds.* Two slots are what a reschedule needs (the old and the new); three booking ids allow a
booking, its successor and a rival. Slots start at hours 2 and 3, notice, window and the reminder
offset are one hour and the clock runs to hour 2 (1 in `bookings_all`), so that each of the limits
lies on both sides of the clock, equality included. `MaxVersion` is the number of updates and moves
a chain of bookings sees. Two requests reach every stale read of one request; three let a third
request rebook what the second has freed. Booking ids and requests are symmetric.

For reminders, two instances are what a race between a reconciliation and a create, or between a
redelivered job and its late first worker, needs; reminders do not interact except in a failing create,
so one is enough. The reminder is due at tick 1 of 2, with a retry window of 0, so that early, timely
and late processing all occur. Two attempts show the retry and the exhaustion; the fault and the crash
may hit the same reminder, which gives up to three mails. `MaxStalled` is BullMQ's default.
Deadlock is not checked: a system whose bookings have ended and whose jobs have expired has nothing
left to do.

`ScheduledIsTakenUp` and `ClaimIsSettled` are checked without faults other than crashes. After a failed
`queue.add` a row does wait for the next restart (`ScheduledHasKeeper` says when that may be), and
when the last attempt has failed the row stays in `sending`: `ClaimIsSettled` allows both that and a
row left by a crash in the middle of a cancellation.

For `slots`, a call looks at one day of one hour (two half-hour slots), so that two calls in zones a
quarter of an hour apart conflict in every way two slots can; the service looks at two days, one of
them the Sunday on which Auckland skips an hour and New York repeats one, with an early window and a
late one on that day and a window up to midnight before it. `MaxBooked` 2 is what a double booking
needs.

For `console`, the browser starts signed in, as a client and as provider `p1`; two lifetimes and a
clock of two ticks let every cookie expire; three random values are a session, its successor and an
administrator's. Four steps of users and other people reach, for instance, a filter changed while a
load is under way, an action, and a change by somebody else; answers, the guard and the UPDATE are not
counted. One message may be lost.

`OwnActionShown` speaks of lists that no later answer had replaced before they arrived (`~view.late`):
that an older list overwrites a newer one is what the pages do, and nothing in the repository says they
may not. `SavedByItsProvider` is about whose row a save reaches and with what it carried; that it may
carry a page's default, sent before the profile arrived, is in the model and no property's subject.

`admin_status` is the same instance with three steps and no lost message: a sign-in and a request.

For `pool`, `b0` is moved to `s1` while it is cancelled, and `b3`, which is in `s1`, is cancelled
while a create tries `s1`. That `s1` is open although `b3` is in it is a state PATCH leaves behind
(cancel, then PATCH to booked); it makes the INSERT fail. At most three of the four requests are under
way at a time (`MaxUnderway`), and the reschedule wants two connections, so that the pool is saturated
in some behaviours and not in others.

Of a saturated pool only the bookkeeping (`TypeOK`) is claimed. There the code does not keep what its
comments say: with all connections (ten by default) in use, the COMMIT of a create may run on another
connection than its BEGIN; the second release of a reschedule may take the connection from a request
that has just got it; and reschedules may wait for each other for ever, each with a connection in
hand. The properties say `~saturated` for that reason. Also without saturation a reschedule that
committed ends in the exception of the second release, so that its client is told 500 (`threw`).

*Why the properties are split.* Each run contains the endpoints under which its properties hold.
`OpenSlotIsFree` fails with the client cancel (a late cancel opens a slot that was taken again) and
with PATCH. `BookedSlotIsHeld` fails with decline and PATCH, which free a booking without opening its
slot. `TerminalIsFinal` fails with the client cancel, which is one of the findings. A client's cancel
also leaves the reminders scheduled, although `PHASE_4_EVIDENCE.md:14` says otherwise: it hands
`cancelForBooking` an id that its SELECT (`bookings.controller.ts:165`) never fetched. `CancelWrite` and
`EndQuietly` have it that way, and `EndedEarlyIsNotMailed` says that none of these that comes due afterwards is sent. The double booking
that matters to the user, `OneLiveBookingPerSlot`, holds with all six: the index is what saves it.

## 4. Theorems

`ChronosBookingsProofs`, for every value of the constants that satisfies `TimesAssumption` and
`IdsAssumption`:

| Theorem | States | Assumes of `Ops` |
|---|---|---|
| `TypeCorrect` | `Spec => []TypeOK` | |
| `NoDoubleBooking` | `Spec => []OneLiveBookingPerSlot` | |
| `KeysStay` | `Spec => KeyIsBoundOnce` | |
| `LockedTerminalIsFinal` | `Spec => TerminalIsFinal` | no client cancel, no PATCH |
| `AppointmentsStayWhole` | `Spec => []OneLivePerAppointment` | no PATCH |
| `TablesImplementCalendar` | `Spec => ImplementsCalendar` | no PATCH |

The argument for `TypeCorrect` is that every action *keeps* three things: the tables' types
(`TablesOK`), rows that exist go on existing with their slot (`RowsPersist`), and at most one request
moves, to a well-formed state (`OneHandlerMoves`). `TypeStep` turns these into `TypeOK'`, since what a
request remembers about a row can only be invalidated by a row that vanishes or changes slot. There is
a lemma per action. `BookingSteps` then sorts all actions by what they do to the bookings table, and
the safety theorems go through those five kinds of step.

`AppointmentsStayWhole` needs `OriginsExist` beside the types: the origin of a booking is an id that
exists, so a new row starts a chain of its own. `TablesImplementCalendar` is a step simulation: each
of the five kinds of step takes, releases or moves one id of `holding`, or stutters, and the unique
index (`IndexAdmits`) gives the guard of `SlotCalendar`'s actions.

`ChronosSlotsProofs` extends it, under the same assumptions, to what goes with the bookings table:

| Theorem | States | Assumes of `Ops` |
|---|---|---|
| `OpenSlotsAreFree` | `Spec => []OpenSlotIsFree` | no client cancel, no PATCH |
| `BookedSlotsAreHeld` | `Spec => []BookedSlotIsHeld` | no decline, no PATCH |
| `CreatesNameTheirRequest` | `Spec => []CreatedNamesRequest` | |
| `AppointmentsAnnouncedOnce` | `Spec => []OneReminderSetPerAppointment` | no PATCH |

`TableSteps` sorts the actions by what they do to slots, bookings and reminders together: a slot is
taken, swapped for another or opened, or stays as it is. `OpenSlotIsFree` needs
`OneLiveBookingPerSlot`, since the slot a reschedule opens must not belong to a third booking.
`CreatedNamesRequest` needs `NamesInv`: a create between COMMIT and its answer, and each stored key of
a create, already name such a booking, and a booking keeps slot and client (`NamesStay`).
`OneReminderSetPerAppointment` is not inductive: a booking that is still booked could be moved and
announce its successor beside the reminders of another. `AnnouncedAlone` excludes it: beside a booking
with scheduled reminders no other of the appointment is booked; it rests on `OriginsExist` and
`OneLivePerAppointment`.

`ChronosRemindersProofs`, for any bookings, reminders, fire times, faults and crashes, any finite number
of instances, and at least one attempt per job (`RemindersAssumption`):

| Theorem | States |
|---|---|
| `RemindersTypeCorrect` | `Spec => []TypeOK` |
| `RemindersMailsWithinFaults` | `Spec => []MailsWithinFaults` |
| `RemindersEndedEarlyIsNotMailed` | `Spec => []EndedEarlyIsNotMailed` |
| `RemindersScheduledHasKeeper` | `Spec => []ScheduledHasKeeper` |
| `RemindersSentIsRecorded` | `Spec => []SentIsRecorded` |

They share one inductive invariant, `RemindersInv`, of named parts:

* `TInv`: types, and what tables, queue and workers know of each other. A locked job is active and its
  owner is a worker that is busy with it; a job that may be processed has attempts left;
  `cancelForBooking` runs for bookings that have ended; a row is there before anything handles it.
* `DueInv`: jobs, workers and mails wait for `fire_at`, and a booking whose worker is about to send had
  not ended before it. With the clock this gives `EndedEarlyIsNotMailed`.
* `KeeperInv`: past the claim a row has been taken up, and without a fault a job neither ends before
  that nor loses its owner while it is active. `ScheduledHasKeeper` is inductive beside it:
  `RemoveJob` only removes jobs of bookings that are over, `Reconcile` picks up every other row.
* `SentInv`: without a fault a reminder has one worker, which owns the job, and a mail is on record or
  its worker is about to write the record. A second claim therefore finds nothing sent.
* `CountInv`: `mails[r] + |Threads(r)| + Unowned(r) <= 1 + faults[r]`. A thread is a worker that may still
  have a mail accepted; a job without owner may bring another thread as long as the row is open. Each
  step that adds to the left side takes as much from it, or is a fault.

What a worker does is first summed up in `WorkerStep` (it stays on its job or leaves it, and touches
no row, job or mails but its reminder's), with a lemma per action; the invariants go through that.

`SlotMaterializerProofs`, for all zones, rules and horizons that satisfy the three assumptions of
`SlotMaterializer`:

| Theorem | States |
|---|---|
| `ResolveIsCompatible` | what `Resolve` returns for a minute that exists, and for one that is skipped |
| `TypeCorrect` | `Spec => []TypeOK` |
| `NeverDoubleBooked` | `Spec => []ProviderIsNotDoubleBooked` |
| `RerunsKeepSlots` | `Spec => RerunKeepsSlots` |
| `ReturnedCallsAreComplete` | `Spec => []ReturnedCallIsComplete` |
| `BatchesHaveNoOverlap` | `Spec => []BatchHasNoOverlap` |
| `BatchesStartInWorkingHours` | `Spec => []BatchStartsInWorkingHours` |

`NeverDoubleBooked` needs `RowsApart`: no two rows overlap, booked or not, since an open row may be
booked later. `ReturnedCallsAreComplete` needs `CompleteInv`: of what a call was asked for, each slot
is either still to do or covered by a row (`CallsProgress`), and rows are not empty, so that a row
covers itself. The two about batches are arithmetic: `Resolve` moves by at least as much as two slots
of a day are apart (`ResolveAdvances`, for 60 minutes because no zone skips more), and the overnight
case is `ResolveAdvancesOvernight`.

`ProviderSessionsProofs` and `ProviderConsoleProofs`, for any users, passwords and lifetimes:

| Theorem | States |
|---|---|
| `CookiesAreVouched` | `SessionSpec => []GuardIsVouched` |
| `ConsoleCookiesAreVouched` | the same for the pages and the sessions together |
| `AdminsAreTurnedAway` | `SessionSpec => []AdminIsTurnedAway`: no cookie finds a row, so what `admin_status` shows is so in every instance |
| `SavesAreTheirProviders` | `Spec => SavedByItsProvider` |

`SessionInv` says that numbers are drawn before they are used, that a cookie is empty or an escaped
number, that each row of `provider_sessions` is what some sign-in stored and no sign-out deleted
(`RowsVouched`), and that salts were drawn. `GuardIsVouched` follows because the hash is injective for
a fixed salt; `AdminIsTurnedAway` because a salt drawn now is in no row. `StepIsSessionStep` shows that
every step of the console is a step of `ProviderSessions` or leaves its variables alone, which carries
the invariant over.

`PooledTransactionsProofs`, for any finite number of connections, any requests, bookings and slots that
satisfy `PoolAssumption` (bookings are not slots, rows start with a status of their table):

| Theorem | States |
|---|---|
| `PoolTypeCorrect` | `Spec => []TypeOK` |
| `PoolConnectionIsItsOwn` | `Spec => []ConnectionIsItsOwn` |
| `PoolAllOrNothing` | `Spec => []AllOrNothing` |
| `PoolWholeAtRest` | `Spec => []PoolIsWholeAtRest` |

The inductive invariant is `PoolInv`: `BaseInv` always, and `CalmInv` until a request has had to wait
(`~saturated`).

* `BaseInv`: types; the books of the pool (`Books`: a connection is idle once or somebody has it); what
  a request has still to send is a tail of its statements, described by which statement may follow
  which (`Program`), and the variables it will use are set (`Assigned`).
* `CalmInv`: nobody waits, idle connections are outside transactions, and each request has its
  `Turn`: the connection it is on is its only one, or, in the read after a reschedule, one of two
  (`Alone`), and the transaction on it holds exactly the writes of the statements sent so far, none of
  them committed, or all of them once it has sent `COMMIT` (`Stage`).

The argument: idle connections are a stack, and a request that goes on puts its connection on top and
takes it off again in the same step (`ReturnAndTake`), so it stays on one connection for its lifetime.
For a reschedule that makes `clientPre` and `client` names of one connection: the second release follows
`client.release()` of that connection in the same step, finds it idle and throws, and takes nothing from
anybody. `AllOrNothing` is then read off `Stage`, and `PoolIsWholeAtRest` off `Books` and `CalmInv`. A
step keeps the request's connections (`StaysCalm`), borrows one (`GetsCalm`) or gives all back
(`LeavesCalm`); above these there is a lemma per action.

`ConsoleScreenProofs`, for any bookings, clients, filters and any number of requests under way.
`ConsoleAssumption` says of the constants that other people set a booking to `booked`, `completed` or
`cancelled`, the statuses that `updateStatus` allows and the table's CHECK lets through:

| Theorem | States |
|---|---|
| `ConsoleTypeCorrect` | `Spec => []TypeOK` |
| `LoadingPagesWait` | `Spec => []LoadingHasRequest` |
| `OwnActionsAreShown` | `Spec => []OwnActionShown` |

`LoadingHasRequest` is inductive with the types. `OwnActionShown` is not: an out-of-date list may be on
its way when the page is told of its action. `ScreenInv` adds two facts:

* `DoneIsDone`: a booking with an action that was carried out, heard of or not, is not active in the
  table unless it was reopened, so a list read from now on is fresh.
* `StaleIsOvertaken`: behind every stale list under way there is, later in `net`, a load that is not
  stale, unless the list is marked as late already; and if the list on the screen is stale, it is late,
  an error covers it, or a fresh load is under way.

The action's own handler starts a fresh load at the end of `net` when it hears the answer
(`RefreshKeeps`), or mounts the page anew (`MountKeeps`), which is what makes the second fact true. An
answer that replaces the list marks the loads before it as late (`LoadKeeps`). The other steps append a
request (`AppendKeeps`), answer one (`ReplyKeeps`), take one out (`RemoveKeeps`) or change the view
alone (`ViewKeeps`); each action is an instance of one of these lemmas. Requests are a sequence, and
what they need of `Append`, `RemoveAt`, concatenation and `SetToSeq` is proved first, from the
library's facts about sequences and finite sets.

Only model-checked: the liveness properties, `EveryRequestEnds` among them, since fairness and ENABLED
are beyond the prover. That the assumptions on `Ops` are needed is not proved; section 3 says which
endpoint breaks which property.

## 5. Plan

1. *Done*: `SlotCalendar`, `ChronosBookings`, its runs and theorems; `ChronosReminders` and its runs;
   `WallClock` and `SlotMaterializer`; `ProviderSessions` and `ProviderConsole`, with their theorems;
   `PooledTransactions`.
2. *Done*: the theorems of `ChronosReminders`, `PooledTransactions` and `ProviderConsole`; every
   invariant and every action property that a passing run checks is a theorem.
3. `evaluateCancellation` against `isCancellable`; the form that books without an idempotency key.

## 6. Not modelled

Analytics, reports, billing, event types and the dashboard's summary read and aggregate for display;
observability, seeds and e-mail templates keep no state of the lifecycle. On the web side
`NewAppointmentForm`, `NotificationPanel` (dead code), the pages of the endpoints just named, avatars
and toasts are left out, and so is the PATCH of `api/appointments/route.ts`, which no page calls. The
Prisma `LifecycleService` and the copies in `packages/contracts` are not reachable from a route.
Cryptography (passwords, HMAC) is taken as injective and unguessable. `claimDue`, `handleJob`,
`cancelReminderJob` and `cleanupExpired` have no caller. Lost database connections and the pools of
the other services are left out of `PooledTransactions`.
