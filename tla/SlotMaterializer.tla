-------------------------- MODULE SlotMaterializer --------------------------
(***************************************************************************)
(* How a provider's working hours become rows of the slots table.          *)
(*                                                                         *)
(* materializeProvider (packages/db) generates a list and stores it one    *)
(* INSERT at a time: calls overlap, crash half-way and are repeated, while *)
(* clients book and cancel and the provider moves to another time zone.    *)
(* MaterializerService (apps/api) derives its list from the weekly rules   *)
(* and sends it as one statement, which the database cannot parse.         *)
(*                                                                         *)
(* One provider; time is the UTC day number, for the clock moves in days   *)
(* between the things modelled here.                                       *)
(***************************************************************************)
EXTENDS WallClock, FiniteSets

CONSTANTS
  Runs,      \* concurrent calls of materializeProvider
  Zones,     \* time zones the provider may choose
  Rules,     \* the active availability rules: [dow, open, close]
  Open, Close,      \* the 09:00 and 17:00 of materializeProvider
  Ahead,     \* days a call of materializeProvider looks ahead
  Horizon,   \* days the service looks ahead (the code's 60)
  FirstDay,  \* the day the model starts on
  MaxDays,   \* bound: days that pass
  MaxMoves,  \* bound: changes of the time zone
  MaxAsked,  \* bound: calls of the service, which keeps nothing between them
  MaxBooked, \* bound: slots booked at the same time
  None

\* No zone skips a minute within one shift of midnight, none skips over an hour.
ASSUME ZonesAssumption ==
  \A z \in Zones : /\ {z.offset, z.at, z.shift} \subseteq Int
                   /\ z.shift <= 60
                   /\ z.shift > 0 => (z.at % Day) + 2 * z.shift <= Day

ASSUME RulesAssumption ==
  \A r \in Rules : /\ {r.dow, r.open, r.close} \subseteq Nat
                   /\ r.close <= Day

ASSUME HorizonAssumption ==
  {Open, Close, Ahead, Horizon, FirstDay, MaxDays, MaxMoves, MaxAsked, MaxBooked}
    \subseteq Nat

VARIABLES
  zone,      \* providers.timezone
  slots,     \* the table: [start, end, status]
  runs,      \* the calls under way
  finished,  \* history: the arguments of the calls that returned
  answer,    \* what the last call of the service generated
  asked, moves, today

vars == <<zone, slots, runs, finished, answer, asked, moves, today>>

Span(s) == [start |-> s.start, end |-> s.end]
Spans(S) == {Span(s) : s \in S}

(***************************************************************************)
(* The constraints of the slots table.                                     *)
(***************************************************************************)
UniqueStart(s) == \A t \in slots : t.start # s.start
NoOverlap(s) == \A t \in slots : ~Overlap(s, t)
UniqueOnly(s) == UniqueStart(s)  \* mutant: no exclusion constraint
Admits(s) == UniqueStart(s) /\ NoOverlap(s)

Fresh(s) == [start |-> s.start, end |-> s.end, status |-> "open"]

Upserted(s) == {t \in slots : ~Overlap(s, t)} \cup {Fresh(s)}  \* mutant: the old rows are replaced

\* INSERT ... ON CONFLICT DO NOTHING: no conflict target, so a row that any of
\* the constraints refuses is passed over.
Stored(s) == IF Admits(s) THEN slots \cup {Fresh(s)} ELSE slots

(***************************************************************************)
(* materializeProvider                                                     *)
(***************************************************************************)
Idle == [zone |-> None, from |-> 0, todo |-> {}]

\* 30-minute slots on every day of the week.
Wanted(z, from) ==
  Spans(GenerateSlots(z, 30, 1 .. 7, Open, Close, from, from + Ahead))

Call(r) ==
  /\ runs[r] = Idle
  /\ runs' = [runs EXCEPT ![r] =
       [zone |-> zone, from |-> today, todo |-> Wanted(zone, today)]]
  /\ UNCHANGED <<zone, slots, finished, answer, asked, moves, today>>

InsertUntilConflict(r) ==  \* mutant: the first conflict ends the loop
  /\ \E s \in runs[r].todo :
       /\ \A t \in runs[r].todo : s.start <= t.start
       /\ slots' = Stored(s)
       /\ runs' = [runs EXCEPT ![r].todo = IF Admits(s) THEN @ \ {s} ELSE {}]
  /\ UNCHANGED <<zone, finished, answer, asked, moves, today>>

\* The list is sorted by start.
InsertNext(r) ==
  /\ \E s \in runs[r].todo :
       /\ \A t \in runs[r].todo : s.start <= t.start
       /\ slots' = Stored(s)
       /\ runs' = [runs EXCEPT ![r].todo = @ \ {s}]
  /\ UNCHANGED <<zone, finished, answer, asked, moves, today>>

Return(r) ==
  /\ runs[r] # Idle /\ runs[r].todo = {}
  /\ finished' = finished \cup {[zone |-> runs[r].zone, from |-> runs[r].from]}
  /\ runs' = [runs EXCEPT ![r] = Idle]
  /\ UNCHANGED <<zone, slots, answer, asked, moves, today>>

\* The process stops, or its connection fails, between two INSERTs.
Crash(r) ==
  /\ runs[r].todo # {}
  /\ runs' = [runs EXCEPT ![r] = Idle]
  /\ UNCHANGED <<zone, slots, finished, answer, asked, moves, today>>

(***************************************************************************)
(* MaterializerService.materialize                                         *)
(***************************************************************************)
\* byDow: one rule per weekday that has any, the one that starts first (of two
\* that start together, the one the database returned first).
ByDow(windows) ==
  /\ \A r \in windows, q \in Rules : q.dow = r.dow => r.open <= q.open
  /\ \A r, q \in windows : r.dow = q.dow => r = q
  /\ \A q \in Rules : \E r \in windows : r.dow = q.dow

HalfHours == 30  \* mutant: shorter than the hour some zones skip
defaultSlotMinutes == 60

\* One list per weekday, merged.
Batch(windows) ==
  UNION {GenerateSlots(zone, defaultSlotMinutes, {r.dow}, r.open, r.close,
                       today, today + Horizon) : r \in windows}

NoAnswer == [zone |-> None, batch |-> {}]

\* The JSON in the statement is not quoted, so the statement is a syntax error
\* (not P2002, a conflict): every slot is counted as an error, none is stored.
Materialize ==
  /\ asked < MaxAsked /\ asked' = asked + 1
  /\ \E windows \in SUBSET Rules :
       /\ ByDow(windows)
       /\ answer' = [zone |-> zone, batch |-> Batch(windows)]
  /\ UNCHANGED <<zone, slots, runs, finished, moves, today>>

(***************************************************************************)
(* The rest of the system, as far as it touches slots and time zones.      *)
(***************************************************************************)
\* A booking takes an open slot that has not started.
Book(s) ==
  /\ Cardinality({t \in slots : t.status = "booked"}) < MaxBooked
  /\ s.status = "open" /\ s.start > today * Day
  /\ slots' = (slots \ {s}) \cup {[s EXCEPT !.status = "booked"]}
  /\ UNCHANGED <<zone, runs, finished, answer, asked, moves, today>>

\* A cancellation opens it again.
Reopen(s) ==
  /\ s.status = "booked"
  /\ slots' = (slots \ {s}) \cup {[s EXCEPT !.status = "open"]}
  /\ UNCHANGED <<zone, runs, finished, answer, asked, moves, today>>

ForgetTimezone(z) ==  \* mutant: no COALESCE, a request without a time zone clears it
  /\ moves < MaxMoves /\ z # zone
  /\ zone' = None /\ moves' = moves + 1
  /\ UNCHANGED <<slots, runs, finished, answer, asked, today>>

\* PATCH /providers/me with another (valid) time zone; the slots stay.
UpdateTimezone(z) ==
  /\ moves < MaxMoves /\ z # zone
  /\ zone' = z /\ moves' = moves + 1
  /\ UNCHANGED <<slots, runs, finished, answer, asked, today>>

NextDay ==
  /\ today < FirstDay + MaxDays
  /\ today' = today + 1
  /\ UNCHANGED <<zone, slots, runs, finished, answer, asked, moves>>

Init ==
  /\ zone \in Zones
  /\ slots = {} /\ finished = {} /\ answer = NoAnswer
  /\ runs = [r \in Runs |-> Idle]
  /\ asked = 0 /\ moves = 0 /\ today = FirstDay

Next ==
  \/ \E r \in Runs : Call(r) \/ InsertNext(r) \/ Return(r) \/ Crash(r)
  \/ \E s \in slots : Book(s) \/ Reopen(s)
  \/ \E z \in Zones : UpdateTimezone(z)
  \/ Materialize \/ NextDay

Spec == Init /\ [][Next]_vars

(***************************************************************************)
(* Properties                                                              *)
(***************************************************************************)
Rows == [start : Int, end : Int, status : {"open", "booked"}]

\* The shape of the table, the calls and the clock.
TypeOK ==
  /\ zone \in Zones
  /\ slots \subseteq Rows
  /\ DOMAIN runs = Runs
  /\ \A r \in Runs : Spans(runs[r].todo) \subseteq [start : Int, end : Int]
  /\ {asked, moves, today} \subseteq Nat

\* A provider is never booked twice for the same minute, whatever calls
\* overlapped or crashed and whichever time zones the slots were cut in: the
\* exclusion constraint is what "no overlapping slots per provider" rests on.
ProviderIsNotDoubleBooked ==
  \A s, t \in slots : s.status = "booked" /\ t.status = "booked" /\ Overlap(s, t) => s = t

\* A call that returned has left nothing out: each slot it was asked for is in
\* the table, or some row already holds part of that time.  Crashes of other
\* calls, and conflicts in the middle of the list, do not cut it short.
ReturnedCallIsComplete ==
  \A f \in finished : \A s \in Wanted(f.zone, f.from) : \E t \in slots : Overlap(s, t)

\* Materializing again neither moves, removes nor reopens a published slot:
\* "slot IDs stable once published".
RerunKeepsSlots == [][runs' # runs => slots \subseteq slots']_vars

\* The slots the service generates never overlap, across the change of the
\* clocks and across days.
BatchHasNoOverlap ==
  \A s, t \in answer.batch : Overlap(s, t) => s = t

\* The local clock at an instant.
LocalOf(z, u) == u + z.offset + (IF u < z.at - z.offset THEN 0 ELSE z.shift)

\* When a client arrives for a generated slot, the clock on the provider's wall
\* is within a working window of that weekday, also on the day the clocks change
\* and when the weekday has several windows.
BatchStartsInWorkingHours ==
  \A s \in answer.batch :
     \E r \in Rules : /\ r.dow = Weekday(s.day)
                      /\ LocalOf(answer.zone, s.start) - s.day * Day \in r.open .. (r.close - 1)
=============================================================================
