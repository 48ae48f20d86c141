------------------------- MODULE PooledTransactions -------------------------
(***************************************************************************)
(* The statements of the booking requests on the connections of one pool.  *)
(*                                                                         *)
(* createBooking and cancelBooking send BEGIN, their updates and COMMIT    *)
(* with pool.query, which borrows a connection for each statement, while   *)
(* reschedule holds a connection of its own, and releases its first one    *)
(* twice. ChronosBookings takes each transaction as one step: this module  *)
(* says when that is so. confirm and decline, which take one connection    *)
(* and release it once, are left to ChronosBookings.                       *)
(*                                                                         *)
(* A step is a statement with everything the request does until its next   *)
(* await. The database ends a deadlock by failing a statement of it; lost  *)
(* connections are left out.                                               *)
(***************************************************************************)
EXTENDS Integers, FiniteSets, SequencesExt

CONSTANTS
  Connections, Requests, Bookings, Slots,
  KindOf,      \* [Requests -> Kinds]
  BookingOf,   \* the booking a request is about, or the one a create inserts
  TargetOf,    \* the slot that create and reschedule take
  MovedTo,     \* the booking a reschedule inserts
  PlaceOf,     \* [Bookings -> Slots]
  FirstStatus, \* [Bookings \cup Slots -> status]
  MaxUnderway, \* bound: requests at a time
  None

Kinds == {"create", "cancel", "reschedule"}
BookingStatus == {"none", "booked", "cancelled"}
SlotStatus == {"open", "booked"}

ASSUME PoolAssumption ==
  /\ IsFiniteSet(Connections) /\ Connections # {}
  /\ None \notin Connections \cup Requests
  /\ Bookings \cap Slots = {}
  /\ KindOf \in [Requests -> Kinds]
  /\ BookingOf \in [Requests -> Bookings] /\ MovedTo \in [Requests -> Bookings]
  /\ TargetOf \in [Requests -> Slots] /\ PlaceOf \in [Bookings -> Slots]
  /\ FirstStatus \in [Bookings \cup Slots -> BookingStatus \cup SlotStatus]
  /\ \A b \in Bookings : FirstStatus[b] \in BookingStatus
  /\ \A s \in Slots : FirstStatus[s] \in SlotStatus

VARIABLES
  pool,      \* idle connections, waiting requests, who has which connection
  held,      \* the variables clientPre and client of each request
  todo,      \* the statements each request has still to send
  conn,      \* each connection's transaction
  db,        \* the committed rows
  visible,   \* history: the writes that were committed
  saturated  \* history: a request has had to wait for a connection

vars == <<pool, held, todo, conn, db, visible, saturated>>

Writes == {"take", "open", "insert", "cancel"}

(***************************************************************************)
(* What the requests send                                                  *)
(***************************************************************************)
On(via, do) == [via |-> via, do |-> do, free |-> <<>>]
Query(do) == On("pool", do)
\* A statement after which the request releases what is in these variables.
Freeing(statement, names) == [statement EXCEPT !.free = names]

CreateStatements ==
  <<Query("begin"), Query("take"), Query("insert"), Query("commit"), Query("read")>>

UnwrappedCancel ==
  <<Query("check"), Query("cancel"), Query("open"), Query("commit")>>  \* mutant: no BEGIN
CancelStatements ==
  <<Query("check"), Query("begin"), Query("cancel"), Query("open"), Query("commit")>>

MoveStatements ==
  <<Query("window"),
    On("client", "begin"), On("client", "lock"), On("client", "take"),
    On("client", "cancel"), On("client", "open"), On("client", "insert"),
    On("client", "commit"),
    Freeing(Query("read"), <<"client", "pre">>)>>

ReleasedEarly ==
  <<On("pre", "begin"), Freeing(On("pre", "lock"), <<"pre">>), On("pre", "commit")>>
    \o MoveStatements  \* mutant: released before the COMMIT
RescheduleStatements ==
  <<On("pre", "begin"), On("pre", "lock"), Freeing(On("pre", "commit"), <<"pre">>)>>
    \o MoveStatements

Statements(kind) ==
  CASE kind = "create"     -> CreateStatements
    [] kind = "cancel"     -> CancelStatements
    [] kind = "reschedule" -> RescheduleStatements

\* What the finally blocks of a reschedule release when it leaves from variable via.
Finally(via) == <<via, "pre">>

NotReleased(via) == <<On(via, "rollback")>>  \* mutant: a return without release
\* mutant: a return without ROLLBACK
NotRolledBack(via) ==
  <<Freeing(On(via, "read"), IF via = "pool" THEN <<>> ELSE Finally(via))>>
RollbackOf(via) ==
  IF via = "pool" THEN <<Query("rollback")>> ELSE <<Freeing(On(via, "rollback"), Finally(via))>>

(***************************************************************************)
(* The pool: idle connections are a stack, waiting requests a queue.       *)
(***************************************************************************)
Released(p, c) ==
  IF p.queue = <<>>
  THEN [p EXCEPT !.idle = Append(@, c), !.uses[c] = None]
  ELSE [p EXCEPT !.queue = Tail(@), !.uses[c] = Head(p.queue), !.got[Head(p.queue)] = c]

Requested(p, r) ==
  IF p.idle = <<>>
  THEN [p EXCEPT !.queue = Append(@, r)]
  ELSE [p EXCEPT !.idle = Front(@), !.uses[Last(p.idle)] = r, !.got[r] = Last(p.idle)]

\* A connection has one release function at a time, that of whoever has it now. Once
\* it is released, calling it throws.
FreedAgain(p, r, name) == Released(p, held[r][name])  \* mutant: no check
Freed(p, r, name) ==
  LET c == held[r][name]
  IN IF p.uses[c] = None THEN [p EXCEPT !.threw = @ \cup {r}] ELSE Released(p, c)

\* What a request releases, one after the other: no more than two.
FreedAll(p, r, names) ==
  CASE Len(names) = 0 -> p
    [] Len(names) = 1 -> Freed(p, r, names[1])
    [] OTHER -> Freed(Freed(p, r, names[1]), r, names[2])

Statement(r) == Head(todo[r])
Borrows(statement) == statement.via = "pool" \/ statement.do = "begin"
ConnectionOf(r) ==
  IF Borrows(Statement(r)) THEN pool.got[r] ELSE held[r][Statement(r).via]

\* pool.query calls the release function where an exception ends the process.
QueryDone(p, c) == IF p.uses[c] = None THEN [p EXCEPT !.down = TRUE] ELSE Released(p, c)

\* The connection of a query goes back first, then those the request releases; then the
\* request asks for the connection of its next statement.
Proceed(r, names, rest) ==
  LET s == Statement(r)
      taken == [pool EXCEPT !.got[r] = IF Borrows(s) THEN None ELSE @]
      given == IF s.via = "pool" THEN QueryDone(taken, ConnectionOf(r)) ELSE taken
      freed == FreedAll(given, r, names)
      next == IF r \in freed.threw THEN <<>> ELSE rest
  IN /\ todo' = [todo EXCEPT ![r] = next]
     /\ pool' = IF next # <<>> /\ Borrows(Head(next)) THEN Requested(freed, r) ELSE freed
     /\ saturated' = (saturated \/ pool'.queue # <<>>)

GoesOn(r) == Proceed(r, Statement(r).free, Tail(todo[r]))
RollsBack(r) == Proceed(r, <<>>, RollbackOf(Statement(r).via))

(***************************************************************************)
(* The database                                                            *)
(***************************************************************************)
NoTransaction == [open |-> FALSE, locks |-> {}, writes |-> <<>>, marks |-> {}]

Seen(c, row) == IF row \in DOMAIN conn[c].writes THEN conn[c].writes[row] ELSE db[row]

Inserted(r) == IF KindOf[r] = "create" THEN BookingOf[r] ELSE MovedTo[r]
Rivals(r) == {b \in Bookings \ {Inserted(r)} : PlaceOf[b] = PlaceOf[Inserted(r)]}

\* The row that a statement locks. UPDATE slots ... WHERE status = 'open' does not wait
\* for a row that is not open.
RowsLocked(r) ==
  CASE Statement(r).do \in {"lock", "cancel"} -> {BookingOf[r]}
    [] Statement(r).do = "open" -> {PlaceOf[BookingOf[r]]}
    [] Statement(r).do = "take" -> {s \in {TargetOf[r]} : Seen(ConnectionOf(r), s) = "open"}
    [] OTHER -> {}

\* The connections whose transactions a statement waits for: those that hold its row; to
\* insert a booking, those that write a live booking of its slot (the unique index).
WaitsFor(r) ==
  {d \in Connections \ {ConnectionOf(r)} :
     \/ conn[d].locks \cap RowsLocked(r) # {}
     \/ /\ Statement(r).do = "insert"
        /\ \E b \in Rivals(r) \cap DOMAIN conn[d].writes :
             "booked" \in {db[b], conn[d].writes[b]}}

Write(r, row, status) ==
  LET c == ConnectionOf(r)
      mark == <<r, Statement(r).do>>
  IN IF conn[c].open
     THEN /\ conn' = [conn EXCEPT ![c].writes = [x \in DOMAIN @ \cup {row} |->
                                                   IF x = row THEN status ELSE @[x]],
                                  ![c].locks = @ \cup {row}, ![c].marks = @ \cup {mark}]
          /\ UNCHANGED <<db, visible>>
     ELSE /\ db' = [db EXCEPT ![row] = status]
          /\ visible' = visible \cup {mark}
          /\ UNCHANGED conn

\* An UPDATE of one row by its id.
Update(r, do, row, status) ==
  /\ Statement(r).do = do
  /\ Write(r, row, status) /\ GoesOn(r)
  /\ UNCHANGED held

Begin(r) ==
  LET c == ConnectionOf(r) IN
  /\ Statement(r).do = "begin"
  /\ conn' = [conn EXCEPT ![c].open = TRUE]
  /\ held' = IF Statement(r).via = "pool" THEN held
             ELSE [held EXCEPT ![r][Statement(r).via] = c]
  /\ GoesOn(r)
  /\ UNCHANGED <<db, visible>>

Commit(r) ==
  LET t == conn[ConnectionOf(r)] IN
  /\ Statement(r).do = "commit"
  /\ db' = [row \in DOMAIN db |-> Seen(ConnectionOf(r), row)]
  /\ visible' = visible \cup t.marks
  /\ conn' = [conn EXCEPT ![ConnectionOf(r)] = NoTransaction]
  /\ GoesOn(r)
  /\ UNCHANGED held

Rollback(r) ==
  /\ Statement(r).do = "rollback"
  /\ conn' = [conn EXCEPT ![ConnectionOf(r)] = NoTransaction]
  /\ GoesOn(r)
  /\ UNCHANGED <<held, db, visible>>

\* The SELECT of cancelBooking, which goes on with a booked booking only.
Check(r) ==
  /\ Statement(r).do = "check"
  /\ IF Seen(ConnectionOf(r), BookingOf[r]) = "booked" THEN GoesOn(r)
     ELSE Proceed(r, <<>>, <<>>)
  /\ UNCHANGED <<held, conn, db, visible>>

\* The cancellation window of a reschedule is open, or has closed.
Window(r) ==
  /\ Statement(r).do = "window"
  /\ GoesOn(r) \/ Proceed(r, <<"pre">>, <<>>)
  /\ UNCHANGED <<held, conn, db, visible>>

Read(r) ==
  /\ Statement(r).do = "read"
  /\ GoesOn(r)
  /\ UNCHANGED <<held, conn, db, visible>>

\* SELECT ... FOR UPDATE, and the status it finds.
Lock(r) ==
  LET c == ConnectionOf(r)
      b == BookingOf[r]
  IN
  /\ Statement(r).do = "lock"
  /\ conn' = [conn EXCEPT ![c].locks = @ \cup {b}]
  /\ IF Seen(c, b) = "booked" THEN GoesOn(r) ELSE RollsBack(r)
  /\ UNCHANGED <<held, db, visible>>

Take(r) ==
  LET c == ConnectionOf(r)
      s == TargetOf[r]
  IN
  /\ Statement(r).do = "take"
  /\ \/ /\ Seen(c, s) = "open"
        /\ Write(r, s, "booked") /\ GoesOn(r)
     \/ /\ Seen(c, s) # "open"
        /\ RollsBack(r) /\ UNCHANGED <<conn, db, visible>>
  /\ UNCHANGED held

\* A failed statement ends its transaction, and costs the pool the connection it was
\* sent on. cancelBooking catches nothing; the others roll back.
Fails(r) ==
  /\ conn' = [conn EXCEPT ![ConnectionOf(r)] =
                [NoTransaction EXCEPT !.open = Statement(r).via # "pool"]]
  /\ IF KindOf[r] = "cancel" THEN Proceed(r, <<>>, <<>>) ELSE RollsBack(r)
  /\ UNCHANGED <<held, db, visible>>

\* There can be one live booking of a slot.
Insert(r) ==
  /\ Statement(r).do = "insert"
  /\ IF \A b \in Rivals(r) : Seen(ConnectionOf(r), b) # "booked"
     THEN Write(r, Inserted(r), "booked") /\ GoesOn(r) /\ UNCHANGED held
     ELSE Fails(r)

Underway(r) == todo[r] # <<>> /\ Statement(r).do # "arrive"

Sent(r) == Underway(r) /\ ConnectionOf(r) # None

Execute(r) ==
  /\ Sent(r) /\ WaitsFor(r) = {}
  /\ \/ Begin(r) \/ Commit(r) \/ Rollback(r)
     \/ Check(r) \/ Window(r) \/ Read(r) \/ Lock(r) \/ Take(r) \/ Insert(r)
     \/ Update(r, "cancel", BookingOf[r], "cancelled")
     \/ Update(r, "open", PlaceOf[BookingOf[r]], "open")

\* Connections that wait for each other, and for no smaller set of connections.
Blocked(S) ==
  \A c \in S : \E r \in Requests :
    Sent(r) /\ ConnectionOf(r) = c /\ WaitsFor(r) \cap S # {}
Deadlocked(S) == S # {} /\ Blocked(S) /\ \A T \in (SUBSET S) \ {S, {}} : ~Blocked(T)

\* The database ends a deadlock by failing one of its statements.
EndDeadlock(r) ==
  /\ Sent(r) /\ WaitsFor(r) # {}
  /\ \E S \in SUBSET Connections : ConnectionOf(r) \in S /\ Deadlocked(S)
  /\ Fails(r)

Arrive(r) ==
  /\ todo[r] # <<>> /\ Statement(r).do = "arrive"
  /\ Cardinality({q \in Requests : Underway(q)}) < MaxUnderway
  /\ GoesOn(r)
  /\ UNCHANGED <<held, conn, db, visible>>

Init ==
  /\ pool = [idle |-> SetToSeq(Connections), queue |-> <<>>,
             uses |-> [c \in Connections |-> None], got |-> [r \in Requests |-> None],
             threw |-> {}, down |-> FALSE]
  /\ held = [r \in Requests |-> [pre |-> None, client |-> None]]
  /\ todo = [r \in Requests |-> <<On("none", "arrive")>> \o Statements(KindOf[r])]
  /\ conn = [c \in Connections |-> NoTransaction]
  /\ db = FirstStatus
  /\ visible = {} /\ saturated = FALSE

Next == ~pool.down /\ \E r \in Requests : Arrive(r) \/ Execute(r) \/ EndDeadlock(r)

Spec == Init /\ [][Next]_vars

\* The database answers every statement that waits for no lock, and ends deadlocks.
\* Requests need not arrive.
FairSpec ==
  Spec /\ \A r \in Requests : WF_vars(~pool.down /\ (Execute(r) \/ EndDeadlock(r)))

(***************************************************************************)
(* Properties                                                              *)
(***************************************************************************)
Ended(r) == todo[r] = <<>>
AtRest == \A r \in Requests : ~Underway(r)

\* Types, and the books of the pool: a connection is idle once or somebody has it, also
\* after a release under its holder.
TypeOK ==
  /\ \A c \in Connections :
       /\ pool.uses[c] \in Requests \cup {None}
       /\ (pool.uses[c] = None) = (Cardinality({i \in DOMAIN pool.idle : pool.idle[i] = c}) = 1)
  /\ Len(pool.idle) <= Cardinality(Connections)
  /\ \A r \in Requests : {pool.got[r], held[r].pre, held[r].client} \subseteq Connections \cup {None}
  /\ \A b \in Bookings : db[b] \in BookingStatus
  /\ \A s \in Slots : db[s] \in SlotStatus

\* As long as nobody has waited for a connection, the statements that create and cancel
\* send through the pool are one transaction, like those of the requests with a
\* connection of their own: all of a request's writes are committed together, or none.
AllOrNothing ==
  ~saturated =>
    \A r \in Requests :
      LET all == {<<r, do>> : do \in
                    {s.do : s \in Range(Statements(KindOf[r]))} \cap Writes}
      IN visible \cap all \in {{}, all}

\* Until somebody has waited, the connection a request sends its next statement on is its
\* own, although reschedule releases clientPre again when it may be another's by then.
ConnectionIsItsOwn ==
  ~saturated =>
    \A r \in Requests :
      Underway(r) => pool.uses[ConnectionOf(r)] = r

\* Between requests, if nobody has waited, no connection is missing from the pool and none
\* is left inside a transaction, whatever was refused, rolled back or released twice.
PoolIsWholeAtRest ==
  AtRest /\ ~saturated =>
    /\ Range(pool.idle) = Connections
    /\ \A c \in Connections : conn[c] = NoTransaction

\* Row locks alone keep nobody waiting for ever: a request is answered unless the pool has
\* been saturated, which can stop reschedules for good (they query the pool while they hold
\* a connection of it).
EveryRequestEnds ==
  \A r \in Requests : Underway(r) ~> (Ended(r) \/ saturated)
=============================================================================
