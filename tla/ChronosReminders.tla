--------------------------- MODULE ChronosReminders ---------------------------
(***************************************************************************)
(* The life of a reminder: the rows of reminder_jobs, the BullMQ queue,    *)
(* the queue manager and the worker that every API instance runs, and the  *)
(* mail provider.                                                          *)
(*                                                                         *)
(* An instance interleaves its background work at every await.  Instances  *)
(* crash and restart; BullMQ redelivers the job of a worker that lost its  *)
(* lock; the provider may accept a mail and the answer be lost.            *)
(***************************************************************************)
EXTENDS Integers, FiniteSets

CONSTANTS
  Bookings, Reminders, Instances,
  BookingOf,    \* the booking of a reminder (one reminder per booking and offset)
  Fire,         \* fire_at_utc
  RetryWindow,  \* RETRY_WINDOW_MS, as a number of clock ticks
  Attempts,     \* attempts of a BullMQ job (the code's 5)
  MaxStalled,   \* BullMQ's maxStalledCount (its default is 1)
  MaxFaults,    \* bound: faults per reminder
  MaxCrashes,   \* bound: crashes of instances
  MaxNow,       \* bound: the clock
  None

ASSUME RemindersAssumption ==
  /\ BookingOf \in [Reminders -> Bookings]
  /\ Fire \in [Reminders -> Nat]
  /\ {RetryWindow, Attempts, MaxStalled, MaxFaults, MaxCrashes, MaxNow} \subseteq Nat
  /\ Attempts > 0
  /\ IsFiniteSet(Instances)
  /\ None \notin Reminders \cup Instances

VARIABLES
  bookings,  \* bookings.status; "moved" is a booking cancelled by a reschedule
  endedAt,   \* history: when a booking stopped being booked
  optedOut,  \* bookings whose client has unsubscribed
  rows,      \* reminder_jobs.status
  jobs,      \* the BullMQ job of each reminder
  enqueues,  \* enqueueForBooking calls under way, one element per reminder
  cancels,   \* cancelForBooking calls under way
  workers,   \* the job each instance's worker is processing, and how far it is
  up,        \* running instances
  starting,  \* running instances that have not read the rows to reconcile
  mails,     \* mails the provider accepted for each reminder
  faults,    \* history: lost answers, failed calls, lost locks and crashes, per reminder
  crashes, now

tables == <<bookings, endedAt, optedOut>>
process == <<up, starting, crashes>>
counts == <<mails, faults>>
vars == <<tables, rows, jobs, enqueues, cancels, workers, process, counts, now>>

RowStatus ==
  {"none", "scheduled", "sending", "sent", "cancelled", "skipped", "failed"}

NoJob == [state |-> "none", made |-> 0, stalls |-> 0, owner |-> None]
NewJob == [NoJob EXCEPT !.state = "delayed"]
Free == [pc |-> "free", r |-> None, status |-> None, then |-> None]

Of(b) == {r \in Reminders : BookingOf[r] = b}
Scheduled(R) == {r \in R : rows[r] = "scheduled"}
Unsettled(R) == {r \in R : rows[r] \in {"scheduled", "sending"}}

\* Something goes wrong for the reminders R.
Hit(R) == faults' = [r \in Reminders |-> IF r \in R THEN faults[r] + 1 ELSE faults[r]]
Fault(R) == (\A r \in R : faults[r] < MaxFaults) /\ Hit(R)

\* The rounds of enqueueForBooking for the reminders R, with the clock reading it is given.
Rounds(p, from, R) == {[by |-> p, from |-> from, r |-> r, at |-> now, pc |-> "find"] : r \in R}

\* The HTTP server listens once the reconciliation of onModuleInit is over.
Serving(p) ==
  /\ p \in up \ starting
  /\ \A e \in enqueues : e.by = p => e.from = "create"

------------------------------------------------------------------------------
(* What the booking endpoints do to reminders (see ChronosBookings). *)

\* createBooking: rows for the offsets still ahead, enqueued after the commit.
CreateBooking(p, b) ==
  LET ahead == {r \in Of(b) : Fire[r] > now} IN
  /\ Serving(p) /\ bookings[b] = "none"
  /\ bookings' = [bookings EXCEPT ![b] = "booked"]
  /\ rows' = [r \in Reminders |-> IF r \in ahead THEN "scheduled" ELSE rows[r]]
  /\ enqueues' = enqueues \cup Rounds(p, "create", ahead)
  /\ UNCHANGED <<endedAt, optedOut, jobs, cancels, workers, process, counts, now>>

End(b, status) ==
  /\ bookings[b] = "booked"
  /\ bookings' = [bookings EXCEPT ![b] = status]
  /\ endedAt' = [endedAt EXCEPT ![b] = now]
  /\ UNCHANGED optedOut

\* Confirm, and the client cancel with its undefined id, leave the reminders alone.
EndQuietly(b) ==
  /\ \E st \in {"completed", "cancelled"} : End(b, st)
  /\ UNCHANGED <<rows, jobs, enqueues, cancels, workers, process, counts, now>>

\* Decline and PATCH call cancelForBooking after their commit; the reschedule has cancelled
\* every row of the booking in its transaction by then.
EndAndCancel(p, b) ==
  /\ Serving(p)
  /\ cancels' = cancels \cup {[by |-> p, b |-> b, pc |-> "read", left |-> {}]}
  /\ \/ End(b, "cancelled") /\ UNCHANGED rows
     \/ /\ End(b, "moved")
        /\ rows' = [r \in Reminders |->
             IF BookingOf[r] = b /\ rows[r] # "none" THEN "cancelled" ELSE rows[r]]
  /\ UNCHANGED <<jobs, enqueues, workers, process, counts, now>>

\* GET /unsubscribe/reminders with a valid token.
Unsubscribe(b) ==
  /\ b \notin optedOut
  /\ optedOut' = optedOut \cup {b}
  /\ UNCHANGED <<bookings, endedAt, rows, jobs, enqueues, cancels, workers, process, counts, now>>

------------------------------------------------------------------------------
(* The queue manager. *)

\* queue.add under a deterministic jobId: a job that is still there, whatever its state,
\* makes it a no-op.
AddedAgain(r) == NewJob  \* mutant: a second job instead
Added(r) == IF jobs[r].state = "none" THEN NewJob ELSE jobs[r]

\* A round of enqueueForBooking: a reminder that is due is skipped; otherwise its row is
\* looked up, and its job added if the row is scheduled.
FindRow(e) ==
  LET due == Fire[e.r] <= e.at IN
  /\ e.pc = "find"
  /\ rows' = [rows EXCEPT ![e.r] = IF due /\ @ = "scheduled" THEN "skipped" ELSE @]
  /\ enqueues' = (enqueues \ {e}) \cup
       {[e EXCEPT !.pc = "add"] : r \in {r \in Scheduled({e.r}) : ~due}}
  /\ UNCHANGED <<tables, jobs, cancels, workers, process, counts, now>>

AddJob(e) ==
  /\ e.pc = "add"
  /\ enqueues' = enqueues \ {e}
  /\ jobs' = [jobs EXCEPT ![e.r] = Added(e.r)]
  /\ UNCHANGED <<tables, rows, cancels, workers, process, counts, now>>

\* queue.add fails.  createBooking gives up (its caller is answered 400); the reconciliation
\* goes on with the next row.
EnqueueFails(e) ==
  LET dropped == IF e.from = "reconcile" THEN {e}
                 ELSE {x \in enqueues : x.by = e.by /\ x.from = "create"
                                         /\ BookingOf[x.r] = BookingOf[e.r]}
  IN
  /\ Fault({x.r : x \in dropped})
  /\ enqueues' = enqueues \ dropped
  /\ UNCHANGED <<tables, rows, jobs, cancels, workers, process, mails, now>>

NothingToDo == {}  \* mutant: no reconciliation
Reconcilable == {r \in Scheduled(Reminders) : bookings[BookingOf[r]] = "booked"}

\* reconcileScheduledReminders reads the rows it will enqueue.
Reconcile(p) ==
  /\ p \in starting
  /\ starting' = starting \ {p}
  /\ enqueues' = enqueues \cup Rounds(p, "reconcile", Reconcilable)
  /\ UNCHANGED <<tables, rows, jobs, cancels, workers, up, crashes, counts, now>>

\* cancelForBooking: read the rows, remove their jobs one by one, update the rows.
ReadRows(c) ==
  /\ c.pc = "read"
  /\ cancels' = (cancels \ {c}) \cup {[c EXCEPT !.pc = "remove", !.left = Unsettled(Of(c.b))]}
  /\ UNCHANGED <<tables, rows, jobs, enqueues, workers, process, counts, now>>

\* A locked job cannot be removed; the error is caught.
RemoveJob(c, r) ==
  /\ c.pc = "remove" /\ r \in c.left
  /\ cancels' = (cancels \ {c}) \cup {[c EXCEPT !.left = c.left \ {r}]}
  /\ jobs' = [jobs EXCEPT ![r] = IF @.state = "active" THEN @ ELSE NoJob]
  /\ UNCHANGED <<tables, rows, enqueues, workers, process, counts, now>>

CancelsAll(b) == Of(b)  \* mutant: whatever the status
Cancellable(b) == Unsettled(Of(b))
CancelRows(c) ==
  /\ c.pc = "remove" /\ c.left = {}
  /\ cancels' = cancels \ {c}
  /\ rows' = [r \in Reminders |-> IF r \in Cancellable(c.b) THEN "cancelled" ELSE rows[r]]
  /\ UNCHANGED <<tables, jobs, enqueues, workers, process, counts, now>>

\* A query of cancelForBooking fails; its callers swallow the exception.
CancelFails(c) ==
  /\ cancels' = cancels \ {c}
  /\ UNCHANGED <<tables, rows, jobs, enqueues, workers, process, counts, now>>

------------------------------------------------------------------------------
(* The worker of instance p. *)

At(p, pc) == p \in up /\ workers[p].pc = pc
Goto(p, pc) == workers' = [workers EXCEPT ![p].pc = pc] /\ UNCHANGED jobs

\* The processor returns or throws.  BullMQ heeds it only from the owner of the lock: a
\* job that returned is completed, one that threw waits for its next attempt or has failed.
Return(p) ==
  LET r == workers[p].r IN
  /\ workers' = [workers EXCEPT ![p] = Free]
  /\ jobs' = [jobs EXCEPT ![r] =
       IF @.owner = p THEN [@ EXCEPT !.state = "done", !.owner = None] ELSE @]

Throw(p) ==
  LET r == workers[p].r IN
  /\ workers' = [workers EXCEPT ![p] = Free]
  /\ jobs' = [jobs EXCEPT ![r] =
       IF @.owner = p
       THEN [@ EXCEPT !.made = jobs[r].made + 1, !.owner = None,
                      !.state = IF jobs[r].made + 1 < Attempts THEN "delayed" ELSE "failed"]
       ELSE @]

Take(p, r) ==
  /\ At(p, "free") /\ jobs[r].state = "waiting"
  /\ jobs' = [jobs EXCEPT ![r].state = "active", ![r].owner = p]
  /\ workers' = [workers EXCEPT ![p] = [Free EXCEPT !.pc = "claim", !.r = r]]
  /\ UNCHANGED <<tables, rows, enqueues, cancels, process, counts, now>>

\* process: the conditional update from scheduled to sending.
Claim(p) ==
  LET r == workers[p].r IN
  /\ At(p, "claim")
  /\ IF rows[r] = "scheduled"
     THEN rows' = [rows EXCEPT ![r] = "sending"] /\ Goto(p, "load")
     ELSE UNCHANGED rows /\ Goto(p, "check")
  /\ UNCHANGED <<tables, enqueues, cancels, process, counts, now>>

\* A row already in sending is processed again, locked_until notwithstanding.
NeverAgain(r) == FALSE  \* mutant: a row in sending is left to its first claimer
Resumable(r) == rows[r] = "sending"
Check(p) ==
  /\ At(p, "check")
  /\ IF Resumable(workers[p].r) THEN Goto(p, "load") ELSE Return(p)
  /\ UNCHANGED <<tables, rows, enqueues, cancels, process, counts, now>>

\* processReminder: the row, then booking and client.
Load(p) ==
  /\ At(p, "load")
  /\ IF rows[workers[p].r] = "sending" THEN Goto(p, "booking") ELSE Throw(p)
  /\ UNCHANGED <<tables, rows, enqueues, cancels, process, counts, now>>

\* The worker goes on to write a status, and then returns or throws.
Marking(p, status, then) ==
  /\ workers' = [workers EXCEPT ![p].pc = "mark", ![p].status = status, ![p].then = then]
  /\ UNCHANGED jobs

StillSent(r) == FALSE  \* mutant: the booking is not looked at
Ended(r) == bookings[BookingOf[r]] # "booked"
Late(r) == now - Fire[r] > RetryWindow
OptedOut(r) == BookingOf[r] \in optedOut

\* What processReminder decides before it sends.
LoadBooking(p) ==
  LET r == workers[p].r IN
  /\ At(p, "booking")
  /\ \/ Ended(r) /\ Marking(p, "cancelled", "return")
     \/ ~Ended(r) /\ Late(r) /\ Marking(p, "failed", "throw")
     \/ ~Ended(r) /\ ~Late(r) /\ OptedOut(r) /\ Marking(p, "suppressed", "return")
     \/ ~Ended(r) /\ ~Late(r) /\ ~OptedOut(r) /\ Goto(p, "send")
  /\ UNCHANGED <<tables, rows, enqueues, cancels, process, counts, now>>

\* EmailGateway.send: what can go wrong between the gateway and the provider, and whether the
\* mail may have been accepted all the same.  A 429 or 5xx answer, a refused or timed out
\* connection are listed as transient; what is not listed, a connection cut off included, is
\* permanent.  (Every send of an instance without a key ends like one that was rejected.)
SendErrors == {"overloaded", "timed out", "cut off", "rejected"}
AnswerLost(e) == e # "rejected"
IsTransientError(e) == e \in {"overloaded", "timed out"}

\* A transient error is thrown to BullMQ as a NetworkError, a permanent one is final.
SendFails(p, e) ==
  IF IsTransientError(e) THEN Throw(p) ELSE Marking(p, "failed", "return")

Send(p) ==
  LET r == workers[p].r
      accepted == mails' = [mails EXCEPT ![r] = @ + 1]
  IN
  /\ At(p, "send")
  /\ \/ accepted /\ UNCHANGED faults /\ Marking(p, "sent", "return")
     \/ \E e \in SendErrors :
          /\ (AnswerLost(e) /\ accepted /\ Fault({r})) \/ UNCHANGED counts
          /\ SendFails(p, e)
  /\ UNCHANGED <<tables, rows, enqueues, cancels, process, now>>

\* The CHECK of reminder_jobs.status, which does not know "suppressed".
AnyStatus(status) == TRUE  \* mutant: no CHECK
Admitted(status) == status \in RowStatus

\* markSent, markFailed, markCancelled, markSuppressed: unconditional updates.
Mark(p) ==
  LET q == workers[p] IN
  /\ At(p, "mark")
  /\ IF Admitted(q.status)
     THEN /\ rows' = [rows EXCEPT ![q.r] = q.status]
          /\ IF q.then = "throw" THEN Throw(p) ELSE Return(p)
     ELSE UNCHANGED rows /\ Throw(p)
  /\ UNCHANGED <<tables, enqueues, cancels, process, counts, now>>

\* A query of the worker fails: the exception reaches BullMQ.
WorkerFails(p) ==
  /\ workers[p].pc # "free"
  /\ Fault({workers[p].r}) /\ Throw(p)
  /\ UNCHANGED <<tables, rows, enqueues, cancels, process, mails, now>>

------------------------------------------------------------------------------
(* BullMQ and the environment. *)

\* The delay until fire_at, or the backoff of a retry, is over.
Promote(r) ==
  /\ jobs[r].state = "delayed" /\ now >= Fire[r]
  /\ jobs' = [jobs EXCEPT ![r].state = "waiting"]
  /\ UNCHANGED <<tables, rows, enqueues, cancels, workers, process, counts, now>>

\* A worker that lives loses the lock of its job because it is late to renew it.
LoseLock(r) ==
  /\ jobs[r].owner \in up
  /\ Fault({r})
  /\ jobs' = [jobs EXCEPT ![r].owner = None]
  /\ UNCHANGED <<tables, rows, enqueues, cancels, workers, process, mails, now>>

\* An active job without lock is given out again, maxStalledCount times.
Redeliver(r) ==
  /\ jobs[r].state = "active" /\ jobs[r].owner = None
  /\ jobs' = [jobs EXCEPT ![r].stalls = @ + 1,
                          ![r].state = IF jobs[r].stalls < MaxStalled THEN "waiting" ELSE "failed"]
  /\ UNCHANGED <<tables, rows, enqueues, cancels, workers, process, counts, now>>

\* removeOnComplete and removeOnFail.
Expire(r) ==
  /\ jobs[r].state \in {"done", "failed"}
  /\ jobs' = [jobs EXCEPT ![r] = NoJob]
  /\ UNCHANGED <<tables, rows, enqueues, cancels, workers, process, counts, now>>

Crash(p) ==
  /\ p \in up /\ crashes < MaxCrashes
  /\ up' = up \ {p}
  /\ starting' = starting \ {p}
  /\ crashes' = crashes + 1
  /\ Hit({workers[p].r})
  /\ workers' = [workers EXCEPT ![p] = Free]
  /\ jobs' = [r \in Reminders |-> IF jobs[r].owner = p THEN [jobs[r] EXCEPT !.owner = None] ELSE jobs[r]]
  /\ enqueues' = {e \in enqueues : e.by # p}
  /\ cancels' = {c \in cancels : c.by # p}
  /\ UNCHANGED <<tables, rows, mails, now>>

Restart(p) ==
  /\ p \notin up
  /\ up' = up \cup {p}
  /\ starting' = starting \cup {p}
  /\ UNCHANGED <<tables, rows, jobs, enqueues, cancels, workers, crashes, counts, now>>

Tick ==
  /\ now < MaxNow
  /\ now' = now + 1
  /\ UNCHANGED <<tables, rows, jobs, enqueues, cancels, workers, process, counts>>

Init ==
  /\ bookings = [b \in Bookings |-> "none"]
  /\ endedAt = [b \in Bookings |-> None]
  /\ optedOut = {}
  /\ rows = [r \in Reminders |-> "none"]
  /\ jobs = [r \in Reminders |-> NoJob]
  /\ enqueues = {} /\ cancels = {}
  /\ workers = [p \in Instances |-> Free]
  /\ up = Instances /\ starting = Instances
  /\ mails = [r \in Reminders |-> 0]
  /\ faults = [r \in Reminders |-> 0]
  /\ crashes = 0 /\ now = 0

Worker(p) ==
  \/ \E r \in Reminders : Take(p, r)
  \/ Claim(p) \/ Check(p) \/ Load(p) \/ LoadBooking(p) \/ Send(p) \/ Mark(p)

Manager(p) ==
  \/ Reconcile(p)
  \/ \E e \in enqueues : e.by = p /\ (FindRow(e) \/ AddJob(e))
  \/ \E c \in cancels :
       c.by = p /\ (ReadRows(c) \/ CancelRows(c) \/ \E r \in c.left : RemoveJob(c, r))

Endpoint ==
  \E b \in Bookings :
    \/ EndQuietly(b) \/ Unsubscribe(b)
    \/ \E p \in Instances : CreateBooking(p, b) \/ EndAndCancel(p, b)

Trouble ==
  \/ \E e \in enqueues : EnqueueFails(e)
  \/ \E c \in cancels : CancelFails(c)
  \/ \E p \in Instances : WorkerFails(p) \/ Crash(p)
  \/ \E r \in Reminders : LoseLock(r)

Next ==
  \/ Endpoint \/ Trouble \/ Tick
  \/ \E p \in Instances : Worker(p) \/ Manager(p) \/ Restart(p)
  \/ \E r \in Reminders : Promote(r) \/ Redeliver(r) \/ Expire(r)

Spec == Init /\ [][Next]_vars

\* Instances are restarted and make progress, time passes, BullMQ promotes delayed jobs and
\* finds the jobs of dead workers.  Faults and expiry need not happen.
Fairness ==
  /\ WF_vars(Tick)
  /\ \A p \in Instances : WF_vars(Worker(p)) /\ WF_vars(Manager(p)) /\ WF_vars(Restart(p))
  /\ \A r \in Reminders :
       WF_vars(Promote(r)) /\ WF_vars(Redeliver(r))
FairSpec == Spec /\ Fairness
------------------------------------------------------------------------------
(* Properties. *)

Waiting(r) == \E e \in enqueues : e.r = r
Over(r) == bookings[BookingOf[r]] # "booked"
Alive(r) == jobs[r].state \in {"delayed", "waiting", "active"}

\* Types; a row only ever has a status that the CHECK of reminder_jobs lists.
TypeOK ==
  /\ bookings \in [Bookings -> {"none", "booked", "completed", "cancelled", "moved"}]
  /\ endedAt \in [Bookings -> (0..MaxNow) \cup {None}]
  /\ optedOut \subseteq Bookings
  /\ rows \in [Reminders -> RowStatus]
  /\ jobs \in [Reminders ->
       [state : {"none", "delayed", "waiting", "active", "done", "failed"},
        made : 0..Attempts, stalls : Nat, owner : Instances \cup {None}]]
  /\ enqueues \subseteq [by : up, from : {"create", "reconcile"}, r : Reminders,
                        at : 0..MaxNow, pc : {"find", "add"}]
  /\ cancels \subseteq [by : up, b : Bookings, pc : {"read", "remove"}, left : SUBSET Reminders]
  /\ workers \in [Instances ->
       [pc : {"free", "claim", "check", "load", "booking", "send", "mark"},
        r : Reminders \cup {None}, then : {None, "return", "throw"},
        status : {None, "cancelled", "failed", "suppressed", "sent"}]]
  /\ starting \subseteq up /\ up \subseteq Instances
  /\ mails \in [Reminders -> Nat] /\ faults \in [Reminders -> Nat]
  /\ crashes \in 0..MaxCrashes /\ now \in 0..MaxNow

\* Two instances, reconciliations and retries never multiply a reminder by themselves: each
\* mail beyond the first has a lost answer, lock or write, or a crash, of its own.
MailsWithinFaults == \A r \in Reminders : mails[r] <= 1 + faults[r]

\* What prd.md promises: retries and duplicate triggers send no duplicates.
AtMostOneMail == \A r \in Reminders : mails[r] <= 1

\* A client whose booking ended before a reminder was due never gets it, although confirm
\* and the client cancel leave row and job in place and cancellation does not stop a worker.
EndedEarlyIsNotMailed ==
  \A r \in Reminders : LET t == endedAt[BookingOf[r]] IN
    t # None => (mails[r] = 0 \/ t >= Fire[r])

\* The row of a booked reminder that waits in scheduled always has somebody to act on it:
\* its job, a round of enqueueForBooking, or the reconciliation of an instance that starts.
\* Only a failed enqueue or a crash under it can leave it alone.
ScheduledHasKeeper ==
  \A r \in Scheduled(Reminders) :
    \/ Alive(r) \/ Waiting(r) \/ Over(r)
    \/ Instances \ up # {} \/ starting # {} \/ faults[r] > 0

\* Once the job of a mailed reminder is done and nothing failed, its row says sent: neither
\* cancelForBooking nor another worker loses the record.  (The reschedule transaction
\* overwrites it.)
SentIsRecorded ==
  \A r \in Reminders :
    jobs[r].state = "done" /\ mails[r] > 0 /\ faults[r] = 0 /\ bookings[BookingOf[r]] # "moved"
      => rows[r] = "sent"

\* No scheduled reminder of a standing booking is forgotten, crashes of its instance between
\* COMMIT and enqueue included: it is claimed, skipped, or the booking ends.
ScheduledIsTakenUp ==
  \A r \in Reminders :
    (rows[r] = "scheduled" /\ ~Over(r)) ~> (rows[r] # "scheduled" \/ Over(r))

\* A claimed reminder of a standing booking reaches a final status or uses up the attempts of
\* its job, whatever crashes: the job is redelivered and takes the row in sending up again.
ClaimIsSettled ==
  \A r \in Reminders :
    (rows[r] = "sending" /\ Alive(r))
      ~> (rows[r] # "sending" \/ jobs[r].state = "failed" \/ Over(r))
==============================================================================
