----------------------- MODULE ChronosRemindersProofs -----------------------
(***************************************************************************)
(* Theorems about the life of a reminder: its row, its job, the workers    *)
(* that handle it and the mails it leads to.                               *)
(***************************************************************************)
EXTENDS ChronosReminders, FiniteSetTheorems, TLAPS

------------------------------------------------------------------------------
(* What the tables, the queue and the workers know of each other. *)

Busy(p) == workers[p].pc # "free"

\* A worker that is not free has a reminder, and a status where it is about to write one.
WorkersOK ==
  \A p \in Instances :
    /\ Busy(p) => workers[p].r \in Reminders /\ p \in up
    /\ workers[p].pc = "mark" =>
         /\ workers[p].status \in {"cancelled", "failed", "suppressed", "sent"}
         /\ workers[p].status = "sent" => workers[p].then = "return"

\* A locked job is active and in the hands of the worker that locked it; a job that may be
\* processed has attempts left.
JobsOK ==
  \A r \in Reminders :
    /\ jobs[r].owner # None =>
         /\ jobs[r].state = "active"
         /\ Busy(jobs[r].owner) /\ workers[jobs[r].owner].r = r
    /\ Alive(r) => jobs[r].made < Attempts

\* cancelForBooking is called for bookings that have ended, and handles their reminders.
CancelsOK ==
  \A c \in cancels :
    /\ bookings[c.b] \notin {"none", "booked"}
    /\ c.left \subseteq Of(c.b)

\* The rows of a reminder are there before anything handles it.
RowsOK ==
  \A r \in Reminders :
    /\ bookings[BookingOf[r]] = "none" => rows[r] = "none"
    /\ rows[r] = "none" =>
         /\ jobs[r].state = "none"
         /\ \A p \in Instances : Busy(p) => workers[p].r # r
         /\ \A e \in enqueues : e.pc = "add" => e.r # r

TInv == TypeOK /\ WorkersOK /\ JobsOK /\ CancelsOK /\ RowsOK

------------------------------------------------------------------------------
(* The steps of a worker: it stays on its job, or leaves it. *)

Job == [state : {"none", "delayed", "waiting", "active", "done", "failed"},
        made : 0..Attempts, stalls : Nat, owner : Instances \cup {None}]
WorkerState ==
  [pc : {"free", "claim", "check", "load", "booking", "send", "mark"},
   r : Reminders \cup {None}, then : {None, "return", "throw"},
   status : {None, "cancelled", "failed", "suppressed", "sent"}]

\* The worker of p goes on to pc; where that is to write a status, its status and what it does then
\* are as given.
StaysOnJob(p) ==
  /\ jobs' = jobs
  /\ \E w \in WorkerState :
       /\ workers' = [workers EXCEPT ![p] = w]
       /\ w.r = workers[p].r /\ w.pc # "free"
       /\ w.pc = "mark" => /\ w.status \in {"cancelled", "failed", "suppressed", "sent"}
                           /\ w.status = "sent" => w.then = "return"

\* The worker of p is free again. If it owned its job, the job is now in one of the states st.
LeavesJob(p, st) ==
  LET r == workers[p].r IN
  /\ workers' = [workers EXCEPT ![p] = Free]
  /\ \E j \in Job :
       /\ jobs' = [jobs EXCEPT ![r] = j]
       /\ IF jobs[r].owner = p
          THEN j.owner = None /\ j.state \in st /\ (j.state = "delayed" => j.made < Attempts)
          ELSE j = jobs[r]

WorkerMoves(p) == StaysOnJob(p) \/ LeavesJob(p, {"done", "delayed", "failed"})

LEMMA FreeIsWorkerState == Free \in WorkerState /\ Free.pc = "free"
BY DEF Free, WorkerState

LEMMA GotoStays ==
  ASSUME TInv, NEW p \in Instances, Busy(p),
         NEW pc \in {"claim", "check", "load", "booking", "send"}, Goto(p, pc)
  PROVE  StaysOnJob(p) /\ workers'[p].pc = pc /\ workers'[p].r = workers[p].r
<1>1. workers[p] \in WorkerState
  BY DEF TInv, TypeOK, WorkerState
<1>2. PICK w : w = [workers[p] EXCEPT !.pc = pc]
  OBVIOUS
<1>3. workers' = [workers EXCEPT ![p] = w] /\ jobs' = jobs
  BY <1>1, <1>2 DEF Goto, TInv, TypeOK
<1>4. w \in WorkerState /\ w.pc = pc /\ w.r = workers[p].r /\ w.status = workers[p].status
      /\ w.then = workers[p].then
  BY <1>1, <1>2 DEF WorkerState
<1>q. QED
  BY <1>3, <1>4 DEF StaysOnJob, TInv, WorkersOK, TypeOK

LEMMA MarkingStays ==
  ASSUME TInv, NEW p \in Instances, Busy(p),
         NEW status \in {"cancelled", "failed", "suppressed", "sent"},
         NEW then \in {"return", "throw"}, status = "sent" => then = "return",
         Marking(p, status, then)
  PROVE  /\ StaysOnJob(p) /\ workers'[p].pc = "mark" /\ workers'[p].r = workers[p].r
         /\ workers'[p].status = status
<1>1. workers[p] \in WorkerState
  BY DEF TInv, TypeOK, WorkerState
<1>2. PICK w : w = [workers[p] EXCEPT !.pc = "mark", !.status = status, !.then = then]
  OBVIOUS
<1>3. workers' = [workers EXCEPT ![p] = w] /\ jobs' = jobs
  BY <1>1, <1>2 DEF Marking, TInv, TypeOK
<1>4. w \in WorkerState /\ w.pc = "mark" /\ w.r = workers[p].r /\ w.status = status
      /\ w.then = then
  BY <1>1, <1>2 DEF WorkerState
<1>5. \E x \in WorkerState :
        /\ workers' = [workers EXCEPT ![p] = x]
        /\ x.r = workers[p].r /\ x.pc # "free"
        /\ x.pc = "mark" => /\ x.status \in {"cancelled", "failed", "suppressed", "sent"}
                            /\ x.status = "sent" => x.then = "return"
  BY <1>3, <1>4
<1>q. QED
  BY <1>3, <1>4, <1>5 DEF StaysOnJob, TInv, TypeOK

LEMMA ReturnLeaves ==
  ASSUME TInv, NEW p \in Instances, Busy(p), Return(p)
  PROVE  LeavesJob(p, {"done"})
<1> DEFINE r == workers[p].r
<1>1. r \in Reminders /\ jobs[r] \in Job
  BY DEF TInv, TypeOK, WorkersOK, Job
<1>2. CASE jobs[r].owner = p
  <2>1. PICK j : j = [jobs[r] EXCEPT !.state = "done", !.owner = None]
    OBVIOUS
  <2>2. jobs' = [jobs EXCEPT ![r] = j]
    BY <1>1, <1>2, <2>1 DEF Return, TInv, TypeOK
  <2>3. j \in Job /\ j.owner = None /\ j.state = "done"
    BY <1>1, <2>1 DEF Job
  <2>q. QED
    BY <1>2, <2>2, <2>3 DEF LeavesJob, Return
<1>3. CASE jobs[r].owner # p
  <2>1. jobs' = [jobs EXCEPT ![r] = jobs[r]]
    BY <1>1, <1>3 DEF Return, TInv, TypeOK
  <2>q. QED
    BY <1>1, <1>3, <2>1 DEF LeavesJob, Return
<1>q. QED
  BY <1>2, <1>3

LEMMA ThrowLeaves ==
  ASSUME TInv, NEW p \in Instances, Busy(p), Throw(p)
  PROVE  LeavesJob(p, {"delayed", "failed"})
<1> DEFINE r == workers[p].r
<1>1. r \in Reminders /\ jobs[r] \in Job
  BY DEF TInv, TypeOK, WorkersOK, Job
<1>2. CASE jobs[r].owner = p
  <2>1. PICK j : j = [jobs[r] EXCEPT !.made = jobs[r].made + 1, !.owner = None,
                        !.state = IF jobs[r].made + 1 < Attempts THEN "delayed" ELSE "failed"]
    OBVIOUS
  <2>2. jobs' = [jobs EXCEPT ![r] = j]
    BY <1>1, <1>2, <2>1 DEF Throw, TInv, TypeOK
  <2>3. jobs[r].made \in 0..Attempts /\ jobs[r].made < Attempts
    BY <1>1, <1>2, RemindersAssumption DEF TInv, JobsOK, Alive, Job
  <2>4. /\ j \in Job /\ j.owner = None /\ j.made = jobs[r].made + 1
        /\ j.state = IF jobs[r].made + 1 < Attempts THEN "delayed" ELSE "failed"
    <3>1. /\ j.owner = None /\ j.made = jobs[r].made + 1
          /\ j.state = IF jobs[r].made + 1 < Attempts THEN "delayed" ELSE "failed"
      BY <1>1, <2>1 DEF Job
    <3>2. jobs[r].made + 1 \in 0..Attempts
      BY <2>3, RemindersAssumption
    <3>3. j \in Job
      BY <1>1, <2>1, <3>2 DEF Job
    <3>q. QED
      BY <3>1, <3>3
  <2>q. QED
    BY <1>2, <2>2, <2>4 DEF LeavesJob, Throw
<1>3. CASE jobs[r].owner # p
  <2>1. jobs' = [jobs EXCEPT ![r] = jobs[r]]
    BY <1>1, <1>3 DEF Throw, TInv, TypeOK
  <2>q. QED
    BY <1>1, <1>3, <2>1 DEF LeavesJob, Throw
<1>q. QED
  BY <1>2, <1>3

\* What a worker does with its job, its row and the mails of its reminder.
WorkerStep(p) ==
  LET r == workers[p].r IN
  /\ Busy(p) /\ WorkerMoves(p)
  /\ UNCHANGED <<tables, enqueues, cancels, process, now>>
  /\ rows' = rows \/ \E st \in RowStatus \ {"none", "scheduled"} : rows' = [rows EXCEPT ![r] = st]
  /\ mails' = mails \/ mails' = [mails EXCEPT ![r] = @ + 1]
  /\ faults' = faults \/ Hit({r})

\* The worker leaves r's row, mails and faults alone.
NothingElse == rows' = rows /\ mails' = mails /\ faults' = faults

LEMMA LeavingFrees ==
  ASSUME TInv, NEW p \in Instances, NEW st, LeavesJob(p, st)
  PROVE  workers'[p].pc = "free"
BY DEF LeavesJob, Free, TInv, TypeOK

LEMMA ClaimSteps ==
  ASSUME TInv, NEW p \in Instances, Claim(p)
  PROVE  /\ WorkerStep(p) /\ mails' = mails /\ faults' = faults
         /\ \/ /\ rows[workers[p].r] = "scheduled" /\ workers'[p].pc = "load"
               /\ rows' = [rows EXCEPT ![workers[p].r] = "sending"]
            \/ rows[workers[p].r] # "scheduled" /\ rows' = rows /\ workers'[p].pc = "check"
<1>1. Busy(p)
  BY DEF Claim, At, Busy
<1>2. StaysOnJob(p) /\ workers'[p].pc = IF rows[workers[p].r] = "scheduled" THEN "load" ELSE "check"
  BY <1>1, GotoStays DEF Claim
<1>3. WorkerStep(p)
  BY <1>1, <1>2 DEF Claim, WorkerStep, WorkerMoves, counts, RowStatus
<1>q. QED
  BY <1>2, <1>3 DEF Claim, counts

LEMMA CheckSteps ==
  ASSUME TInv, NEW p \in Instances, Check(p)
  PROVE  /\ WorkerStep(p) /\ NothingElse
         /\ \/ rows[workers[p].r] = "sending" /\ workers'[p].pc = "load"
            \/ rows[workers[p].r] # "sending" /\ workers'[p].pc = "free"
<1>1. Busy(p)
  BY DEF Check, At, Busy
<1>2. \/ rows[workers[p].r] = "sending" /\ StaysOnJob(p) /\ workers'[p].pc = "load"
      \/ rows[workers[p].r] # "sending" /\ LeavesJob(p, {"done"}) /\ workers'[p].pc = "free"
  BY <1>1, GotoStays, ReturnLeaves, LeavingFrees DEF Check, Resumable
<1>3. WorkerStep(p)
  BY <1>1, <1>2 DEF Check, WorkerStep, WorkerMoves, LeavesJob, counts
<1>q. QED
  BY <1>2, <1>3 DEF Check, NothingElse, counts

LEMMA LoadSteps ==
  ASSUME TInv, NEW p \in Instances, Load(p)
  PROVE  /\ WorkerStep(p) /\ NothingElse
         /\ \/ rows[workers[p].r] = "sending" /\ workers'[p].pc = "booking"
            \/ workers'[p].pc = "free"
<1>1. Busy(p)
  BY DEF Load, At, Busy
<1>2. \/ rows[workers[p].r] = "sending" /\ StaysOnJob(p) /\ workers'[p].pc = "booking"
      \/ LeavesJob(p, {"delayed", "failed"}) /\ workers'[p].pc = "free"
  BY <1>1, GotoStays, ThrowLeaves, LeavingFrees DEF Load
<1>3. WorkerStep(p)
  BY <1>1, <1>2 DEF Load, WorkerStep, WorkerMoves, LeavesJob, counts
<1>q. QED
  BY <1>2, <1>3 DEF Load, NothingElse, counts

LEMMA LoadBookingSteps ==
  ASSUME TInv, NEW p \in Instances, LoadBooking(p)
  PROVE  /\ WorkerStep(p) /\ NothingElse
         /\ \/ workers'[p].pc = "send" /\ ~Ended(workers[p].r)
            \/ workers'[p].pc = "mark" /\ workers'[p].status # "sent"
<1>1. Busy(p)
  BY DEF LoadBooking, At, Busy
<1>2. StaysOnJob(p) /\ \/ workers'[p].pc = "send" /\ ~Ended(workers[p].r)
                       \/ workers'[p].pc = "mark" /\ workers'[p].status # "sent"
  BY <1>1, GotoStays, MarkingStays DEF LoadBooking
<1>3. WorkerStep(p)
  BY <1>1, <1>2 DEF LoadBooking, WorkerStep, WorkerMoves, counts
<1>q. QED
  BY <1>2, <1>3 DEF LoadBooking, NothingElse, counts

\* Whether a mail that could not be sent was accepted or not, the worker writes "failed" or
\* throws.
LEMMA SendFailsSteps ==
  ASSUME TInv, NEW p \in Instances, Busy(p), NEW e, SendFails(p, e)
  PROVE  \/ /\ StaysOnJob(p) /\ workers'[p].pc = "mark" /\ workers'[p].r = workers[p].r
            /\ workers'[p].status = "failed"
         \/ LeavesJob(p, {"delayed", "failed"}) /\ workers'[p].pc = "free"
BY MarkingStays, ThrowLeaves, LeavingFrees DEF SendFails

\* A mail is accepted without a fault only if the worker goes on to write "sent".
LEMMA SendSteps ==
  ASSUME TInv, NEW p \in Instances, Send(p)
  PROVE  /\ WorkerStep(p) /\ rows' = rows
         /\ \/ /\ workers'[p].pc = "mark" /\ workers'[p].status = "sent" /\ faults' = faults
               /\ mails' = [mails EXCEPT ![workers[p].r] = @ + 1]
            \/ /\ \/ workers'[p].pc = "mark" /\ workers'[p].status = "failed"
                  \/ workers'[p].pc = "free"
               /\ \/ mails' = [mails EXCEPT ![workers[p].r] = @ + 1] /\ Hit({workers[p].r})
                  \/ mails' = mails /\ faults' = faults
<1>1. Busy(p)
  BY DEF Send, At, Busy
<1>2. \/ /\ StaysOnJob(p) /\ workers'[p].pc = "mark" /\ workers'[p].status = "sent"
         /\ faults' = faults /\ mails' = [mails EXCEPT ![workers[p].r] = @ + 1]
      \/ /\ \/ StaysOnJob(p) /\ workers'[p].pc = "mark" /\ workers'[p].status = "failed"
            \/ LeavesJob(p, {"delayed", "failed"}) /\ workers'[p].pc = "free"
         /\ \/ mails' = [mails EXCEPT ![workers[p].r] = @ + 1] /\ Hit({workers[p].r})
            \/ mails' = mails /\ faults' = faults
  <2>1. CASE /\ mails' = [mails EXCEPT ![workers[p].r] = @ + 1] /\ UNCHANGED faults
             /\ Marking(p, "sent", "return")
    BY <1>1, <2>1, MarkingStays
  <2>2. ASSUME NEW e \in SendErrors, SendFails(p, e),
               \/ mails' = [mails EXCEPT ![workers[p].r] = @ + 1] /\ Fault({workers[p].r})
               \/ UNCHANGED counts
        PROVE  /\ \/ StaysOnJob(p) /\ workers'[p].pc = "mark" /\ workers'[p].status = "failed"
                  \/ LeavesJob(p, {"delayed", "failed"}) /\ workers'[p].pc = "free"
               /\ \/ mails' = [mails EXCEPT ![workers[p].r] = @ + 1] /\ Hit({workers[p].r})
                  \/ mails' = mails /\ faults' = faults
    BY <1>1, <2>2, SendFailsSteps DEF Fault, counts
  <2>q. QED
    BY <2>1, <2>2 DEF Send
<1>3. WorkerStep(p)
  BY <1>1, <1>2 DEF Send, WorkerStep, WorkerMoves, LeavesJob
<1>q. QED
  BY <1>2, <1>3 DEF Send

LEMMA MarkSteps ==
  ASSUME TInv, NEW p \in Instances, Mark(p)
  PROVE  /\ WorkerStep(p) /\ mails' = mails /\ faults' = faults /\ workers'[p].pc = "free"
         /\ \/ rows' = [rows EXCEPT ![workers[p].r] = workers[p].status]
            \/ rows' = rows /\ workers[p].status # "sent"
         /\ workers[p].status \notin {"none", "scheduled", "sending"}
<1>1. Busy(p)
  BY DEF Mark, At, Busy
<1>2. /\ LeavesJob(p, {"done"}) \/ LeavesJob(p, {"delayed", "failed"})
      /\ workers'[p].pc = "free"
  BY <1>1, ReturnLeaves, ThrowLeaves, LeavingFrees DEF Mark
<1>3. workers[p].status \notin {"none", "scheduled", "sending"}
  BY DEF Mark, At, TInv, WorkersOK
<1>4. \/ /\ rows' = [rows EXCEPT ![workers[p].r] = workers[p].status]
         /\ workers[p].status \in RowStatus
      \/ rows' = rows /\ workers[p].status # "sent"
  BY DEF Mark, Admitted, RowStatus
<1>5. WorkerStep(p)
  BY <1>1, <1>2, <1>3, <1>4 DEF Mark, WorkerStep, WorkerMoves, LeavesJob, counts
<1>q. QED
  BY <1>2, <1>3, <1>4, <1>5 DEF Mark, counts

LEMMA WorkerFailsSteps ==
  ASSUME TInv, NEW p \in Instances, WorkerFails(p)
  PROVE  /\ WorkerStep(p) /\ rows' = rows /\ mails' = mails /\ Hit({workers[p].r})
         /\ workers'[p].pc = "free"
<1>1. Busy(p)
  BY DEF WorkerFails, Busy
<1>2. LeavesJob(p, {"delayed", "failed"}) /\ workers'[p].pc = "free"
  BY <1>1, ThrowLeaves, LeavingFrees DEF WorkerFails
<1>3. WorkerStep(p)
  BY <1>1, <1>2 DEF WorkerFails, Fault, WorkerStep, WorkerMoves, LeavesJob, counts
<1>q. QED
  BY <1>2, <1>3 DEF WorkerFails, Fault

\* Only the job, the row and the mails of the worker's own reminder are touched, the job only if
\* the worker owns it and leaves it.
LEMMA WorkerMoved ==
  ASSUME TInv, NEW p \in Instances, WorkerStep(p)
  PROVE  /\ \A q \in Instances : q # p => workers'[q] = workers[q]
         /\ workers'[p].pc # "free" => workers'[p].r = workers[p].r /\ jobs' = jobs
         /\ workers'[p].pc = "free" => jobs'[workers[p].r].owner # p
         /\ \A x \in Reminders :
              \/ jobs'[x] = jobs[x]
              \/ /\ x = workers[p].r /\ jobs[x].owner = p /\ jobs'[x].owner = None
                 /\ jobs'[x].state \in {"done", "delayed", "failed"}
<1> DEFINE r == workers[p].r
<1>1. r \in Reminders /\ p # None
  BY RemindersAssumption DEF WorkerStep, TInv, WorkersOK
<1>2. CASE StaysOnJob(p)
  BY <1>2 DEF StaysOnJob, TInv, TypeOK
<1>3. CASE LeavesJob(p, {"done", "delayed", "failed"})
  <2>1. workers' = [workers EXCEPT ![p] = Free]
    BY <1>3 DEF LeavesJob
  <2>2. PICK j \in Job :
       /\ jobs' = [jobs EXCEPT ![r] = j]
       /\ IF jobs[r].owner = p
          THEN j.owner = None /\ j.state \in {"done", "delayed", "failed"}
          ELSE j = jobs[r]
    BY <1>3 DEF LeavesJob
  <2>q. QED
    BY <1>1, <2>1, <2>2, FreeIsWorkerState DEF TInv, TypeOK
<1>q. QED
  BY <1>2, <1>3 DEF WorkerStep, WorkerMoves

\* The steps of workers keep the worker, its job and its row in order.
LEMMA WorkerStepKeeps ==
  ASSUME TInv, NEW p \in Instances, WorkerStep(p)
  PROVE  TInv'
<1> DEFINE r == workers[p].r
<1>1. r \in Reminders /\ rows[r] # "none" /\ p # None
  BY RemindersAssumption DEF WorkerStep, TInv, WorkersOK, RowsOK
<1>2. rows' \in [Reminders -> RowStatus] /\ mails' \in [Reminders -> Nat]
  <2>1. rows' \in [Reminders -> RowStatus]
    BY <1>1 DEF WorkerStep, TInv, TypeOK
  <2>2. mails' \in [Reminders -> Nat]
    BY <1>1 DEF WorkerStep, TInv, TypeOK
  <2>q. QED
    BY <2>1, <2>2
<1>3. faults' \in [Reminders -> Nat]
  BY <1>1 DEF WorkerStep, Hit, TInv, TypeOK
<1>4. \A x \in Reminders : (rows'[x] = "none") = (rows[x] = "none")
  BY <1>1 DEF WorkerStep, TInv, TypeOK
<1>5. PICK w \in WorkerState :
        /\ workers' = [workers EXCEPT ![p] = w]
        /\ w.pc # "free" => w.r = r
        /\ w.pc = "mark" => /\ w.status \in {"cancelled", "failed", "suppressed", "sent"}
                            /\ w.status = "sent" => w.then = "return"
        /\ w.pc = "free" => \E j \in Job :
             /\ jobs' = [jobs EXCEPT ![r] = j]
             /\ IF jobs[r].owner = p
                THEN /\ j.owner = None /\ j.state \in {"done", "delayed", "failed"}
                     /\ j.state = "delayed" => j.made < Attempts
                ELSE j = jobs[r]
        /\ w.pc # "free" => jobs' = jobs
  <2>1. CASE StaysOnJob(p)
    BY <2>1 DEF StaysOnJob
  <2>2. CASE LeavesJob(p, {"done", "delayed", "failed"})
    BY <2>2, FreeIsWorkerState DEF LeavesJob
  <2>q. QED
    BY <2>1, <2>2 DEF WorkerStep, WorkerMoves
<1>6. UNCHANGED <<bookings, endedAt, optedOut, enqueues, cancels, up, starting, crashes, now>>
  BY DEF WorkerStep, tables, process
<1>7. workers' \in [Instances -> WorkerState] /\ jobs' \in [Reminders -> Job]
  BY <1>1, <1>5 DEF TInv, TypeOK, WorkerState, Job
<1>8. TypeOK'
  BY <1>2, <1>3, <1>6, <1>7 DEF TInv, TypeOK, WorkerState, Job
<1>9. WorkersOK'
  <2> SUFFICES ASSUME NEW y \in Instances
               PROVE  /\ Busy(y)' => workers'[y].r \in Reminders /\ y \in up'
                      /\ workers'[y].pc = "mark" =>
                           /\ workers'[y].status \in {"cancelled", "failed", "suppressed", "sent"}
                           /\ workers'[y].status = "sent" => workers'[y].then = "return"
    BY DEF WorkersOK
  <2>1. CASE y = p
    <3>1. workers'[y] = w
      BY <1>5, <2>1 DEF TInv, TypeOK
    <3>2. p \in up
      BY DEF WorkerStep, TInv, WorkersOK
    <3>q. QED
      BY <1>1, <1>5, <1>6, <2>1, <3>1, <3>2 DEF Busy
  <2>2. CASE y # p
    <3>1. workers'[y] = workers[y]
      BY <1>5, <2>2 DEF TInv, TypeOK
    <3>q. QED
      BY <1>6, <3>1 DEF TInv, WorkersOK, Busy
  <2>q. QED
    BY <2>1, <2>2
<1>10. JobsOK'
  <2> SUFFICES ASSUME NEW x \in Reminders
               PROVE  /\ jobs'[x].owner # None =>
                           /\ jobs'[x].state = "active"
                           /\ Busy(jobs[x].owner)' /\ workers'[jobs'[x].owner].r = x
                      /\ Alive(x)' => jobs'[x].made < Attempts
    BY DEF JobsOK
  <2>1. CASE w.pc # "free"
    BY <1>1, <1>5, <2>1 DEF TInv, TypeOK, JobsOK, Busy, Alive
  <2>2. CASE w.pc = "free"
    <3>1. PICK j \in Job :
             /\ jobs' = [jobs EXCEPT ![r] = j]
             /\ IF jobs[r].owner = p
                THEN /\ j.owner = None /\ j.state \in {"done", "delayed", "failed"}
                     /\ j.state = "delayed" => j.made < Attempts
                ELSE j = jobs[r]
      BY <1>5, <2>2
    <3>2. CASE x = r /\ jobs[r].owner = p
      BY <1>1, <3>1, <3>2 DEF TInv, TypeOK, Alive
    <3>3. CASE x # r \/ jobs[r].owner # p
      <4>1. jobs'[x] = jobs[x] /\ jobs[x].owner # p
        BY <1>1, <3>1, <3>3 DEF TInv, TypeOK, JobsOK
      <4>q. QED
        BY <1>5, <4>1 DEF TInv, TypeOK, JobsOK, Busy, Alive
    <3>q. QED
      BY <3>2, <3>3
  <2>q. QED
    BY <2>1, <2>2
<1>11. CancelsOK'
  BY <1>6 DEF TInv, CancelsOK, Of
<1>12. RowsOK'
  <2> SUFFICES ASSUME NEW x \in Reminders
               PROVE  /\ bookings'[BookingOf[x]] = "none" => rows'[x] = "none"
                      /\ rows'[x] = "none" =>
                           /\ jobs'[x].state = "none"
                           /\ \A y \in Instances : Busy(y)' => workers'[y].r # x
                           /\ \A e \in enqueues' : e.pc = "add" => e.r # x
    BY DEF RowsOK
  <2>1. rows[x] = "none" => x # r
    BY <1>1
  <2>2. rows[x] = "none" => jobs'[x] = jobs[x]
    BY <1>1, <1>5, <2>1 DEF TInv, TypeOK
  <2>3. rows[x] = "none" => \A y \in Instances : Busy(y)' => workers'[y].r # x
    BY <1>1, <1>5, <2>1 DEF TInv, TypeOK, RowsOK, Busy
  <2>q. QED
    BY <1>4, <1>6, <2>2, <2>3 DEF TInv, RowsOK
<1>q. QED
  BY <1>8, <1>9, <1>10, <1>11, <1>12 DEF TInv

------------------------------------------------------------------------------
(* The other steps keep the tables, the queue and the workers in order. *)

Round(instances) == [by : instances, from : {"create", "reconcile"}, r : Reminders,
                     at : 0..MaxNow, pc : {"find", "add"}]
CancelCall(instances) ==
  [by : instances, b : Bookings, pc : {"read", "remove"}, left : SUBSET Reminders]

LEMMA FindRowKeeps ==
  ASSUME TInv, NEW e \in enqueues, FindRow(e)
  PROVE  TInv'
<1> DEFINE f == [e EXCEPT !.pc = "add"]
<1>1. e \in Round(up)
  BY DEF TInv, TypeOK, Round
<1>2. PICK g : g = f
  OBVIOUS
<1>3. g \in Round(up) /\ g.r = e.r
  BY <1>1, <1>2 DEF Round
<1>4. e.r \in Reminders
  BY <1>1 DEF Round
<1>5. rows' \in [Reminders -> RowStatus]
  BY <1>4 DEF FindRow, TInv, TypeOK, RowStatus
<1>6. \A x \in enqueues' : x \in enqueues \/ (x = g /\ rows[e.r] = "scheduled")
  BY <1>2 DEF FindRow, Scheduled
<1>7. \A x \in Reminders : (rows'[x] = "none") = (rows[x] = "none")
  BY <1>4 DEF FindRow, TInv, TypeOK
<1>8. enqueues' \subseteq Round(up)
  BY <1>3, <1>6 DEF TInv, TypeOK, Round
<1>9. TypeOK'
  BY <1>5, <1>8 DEF FindRow, TInv, TypeOK, Round, tables, process, counts
<1>10. WorkersOK' /\ JobsOK' /\ CancelsOK'
  BY DEF FindRow, TInv, WorkersOK, JobsOK, CancelsOK, Busy, Alive, Of, tables, process, counts
<1>11. RowsOK'
  <2>1. UNCHANGED <<bookings, jobs, workers>>
    BY DEF FindRow, tables
  <2>2. \A x \in enqueues' : x.pc = "add" => x \in enqueues \/ (x.r = e.r /\ rows[e.r] # "none")
    BY <1>3, <1>6
  <2>q. QED
    BY <1>7, <2>1, <2>2 DEF TInv, RowsOK, Busy
<1>q. QED
  BY <1>9, <1>10, <1>11 DEF TInv

LEMMA AddJobKeeps ==
  ASSUME TInv, NEW e \in enqueues, AddJob(e)
  PROVE  TInv'
<1>1. e.r \in Reminders /\ rows[e.r] # "none"
  BY DEF AddJob, TInv, TypeOK, RowsOK
<1>2. Added(e.r) \in Job /\ (jobs[e.r].state # "none" => Added(e.r) = jobs[e.r])
      /\ (jobs[e.r].state = "none" => Added(e.r) = NewJob)
  BY <1>1, RemindersAssumption DEF Added, NewJob, NoJob, Job, TInv, TypeOK
<1>3. NewJob.owner = None /\ NewJob.made = 0
  BY DEF NewJob, NoJob
<1>4. jobs' \in [Reminders -> Job]
  BY <1>1, <1>2 DEF AddJob, TInv, TypeOK, Job
<1>5. TypeOK'
  BY <1>4 DEF AddJob, TInv, TypeOK, Job, tables, process, counts
<1>6. WorkersOK' /\ CancelsOK'
  BY DEF AddJob, TInv, WorkersOK, CancelsOK, Busy, Of, tables, process, counts
<1>7. JobsOK'
  BY <1>1, <1>2, <1>3, RemindersAssumption
     DEF AddJob, TInv, TypeOK, JobsOK, Busy, Alive, tables, process, counts
<1>8. RowsOK'
  <2>1. UNCHANGED <<bookings, rows, workers>> /\ enqueues' \subseteq enqueues
    BY DEF AddJob, tables
  <2>2. \A x \in Reminders : rows[x] = "none" => jobs'[x] = jobs[x]
    BY <1>1 DEF AddJob, TInv, TypeOK
  <2>q. QED
    BY <2>1, <2>2 DEF TInv, RowsOK, Busy
<1>q. QED
  BY <1>5, <1>6, <1>7, <1>8 DEF TInv

LEMMA ReadRowsKeeps ==
  ASSUME TInv, NEW c \in cancels, ReadRows(c)
  PROVE  TInv'
<1>1. c \in CancelCall(up)
  BY DEF TInv, TypeOK, CancelCall
<1>2. PICK d : d = [c EXCEPT !.pc = "remove", !.left = Unsettled(Of(c.b))]
  OBVIOUS
<1>3. Unsettled(Of(c.b)) \subseteq Of(c.b) /\ Of(c.b) \subseteq Reminders
  BY DEF Unsettled, Of
<1>4. d \in CancelCall(up) /\ d.b = c.b /\ d.left \subseteq Of(c.b)
  BY <1>1, <1>2, <1>3 DEF CancelCall
<1>5. cancels' = (cancels \ {c}) \cup {d}
  BY <1>2 DEF ReadRows
<1>6. UNCHANGED <<bookings, endedAt, optedOut, rows, jobs, enqueues, workers, up, starting,
                  crashes, mails, faults, now>>
  BY DEF ReadRows, tables, process, counts
<1>7. TypeOK'
  BY <1>4, <1>5, <1>6 DEF TInv, TypeOK, CancelCall
<1>8. WorkersOK' /\ JobsOK' /\ RowsOK'
  BY <1>6 DEF TInv, WorkersOK, JobsOK, RowsOK, Busy, Alive
<1>9. CancelsOK'
  BY <1>4, <1>5, <1>6 DEF TInv, CancelsOK, Of
<1>q. QED
  BY <1>7, <1>8, <1>9 DEF TInv

LEMMA RemoveJobKeeps ==
  ASSUME TInv, NEW c \in cancels, NEW r \in c.left, RemoveJob(c, r)
  PROVE  TInv'
<1>1. c \in CancelCall(up)
  BY DEF TInv, TypeOK, CancelCall
<1>2. PICK d : d = [c EXCEPT !.left = c.left \ {r}]
  OBVIOUS
<1>3. d \in CancelCall(up) /\ d.b = c.b /\ d.left \subseteq c.left
  BY <1>1, <1>2 DEF CancelCall
<1>4. cancels' = (cancels \ {c}) \cup {d}
  BY <1>2 DEF RemoveJob
<1>5. r \in Reminders
  BY DEF TInv, CancelsOK, Of
<1>6. PICK j \in Job : /\ jobs' = [jobs EXCEPT ![r] = j]
                       /\ j = jobs[r] \/ j = NoJob
  <2>1. jobs[r] \in Job /\ NoJob \in Job
    BY <1>5, RemindersAssumption DEF NoJob, Job, TInv, TypeOK
  <2>2. CASE jobs[r].state = "active"
    BY <2>1, <2>2 DEF RemoveJob
  <2>3. CASE jobs[r].state # "active"
    BY <2>1, <2>3 DEF RemoveJob
  <2>q. QED
    BY <2>2, <2>3
<1>7. UNCHANGED <<bookings, endedAt, optedOut, rows, enqueues, workers, up, starting,
                  crashes, mails, faults, now>>
  BY DEF RemoveJob, tables, process, counts
<1>8. TypeOK'
  BY <1>3, <1>4, <1>6, <1>7 DEF TInv, TypeOK, CancelCall, Job
<1>9. WorkersOK'
  BY <1>7 DEF TInv, WorkersOK, Busy
<1>10. JobsOK' /\ RowsOK'
  BY <1>5, <1>6, <1>7 DEF NoJob, TInv, TypeOK, JobsOK, RowsOK, Busy, Alive
<1>11. CancelsOK'
  BY <1>3, <1>4, <1>7 DEF TInv, CancelsOK, Of
<1>q. QED
  BY <1>8, <1>9, <1>10, <1>11 DEF TInv

LEMMA EndAndCancelKeeps ==
  ASSUME TInv, NEW p \in Instances, NEW b \in Bookings, EndAndCancel(p, b)
  PROVE  TInv'
<1>1. rows' \in [Reminders -> RowStatus]
      /\ \A x \in Reminders : (rows'[x] = "none") = (rows[x] = "none")
  BY DEF EndAndCancel, RowStatus, TInv, TypeOK
<1>2. PICK st \in {"cancelled", "moved"} : End(b, st)
  BY DEF EndAndCancel
<1>3. UNCHANGED <<jobs, enqueues, workers, up, starting, crashes, mails, faults, now, optedOut>>
  BY <1>2 DEF EndAndCancel, End, process, counts
<1>4. cancels' = cancels \cup {[by |-> p, b |-> b, pc |-> "read", left |-> {}]} /\ p \in up
  BY DEF EndAndCancel, Serving
<1>5. TypeOK'
  BY <1>1, <1>2, <1>3, <1>4 DEF End, TInv, TypeOK
<1>6. WorkersOK' /\ JobsOK'
  BY <1>3 DEF TInv, WorkersOK, JobsOK, Busy, Alive
<1>7. CancelsOK'
  BY <1>2, <1>4 DEF End, TInv, TypeOK, CancelsOK, Of
<1>8. RowsOK'
  BY <1>1, <1>2, <1>3, RemindersAssumption DEF End, TInv, TypeOK, RowsOK, Busy
<1>q. QED
  BY <1>5, <1>6, <1>7, <1>8 DEF TInv

LEMMA LoseLockKeeps ==
  ASSUME TInv, NEW r \in Reminders, LoseLock(r)
  PROVE  TInv'
<1>1. PICK j : j = [jobs[r] EXCEPT !.owner = None]
  OBVIOUS
<1>2. jobs[r] \in Job
  BY DEF TInv, TypeOK, Job
<1>3. j \in Job /\ j.owner = None /\ j.state = jobs[r].state /\ j.made = jobs[r].made
  BY <1>1, <1>2 DEF Job
<1>4. jobs' = [jobs EXCEPT ![r] = j]
  BY <1>1 DEF LoseLock
<1>5. UNCHANGED <<bookings, endedAt, optedOut, rows, enqueues, cancels, workers, up, starting,
                  crashes, mails, now>>
  BY DEF LoseLock, tables, process
<1>6. faults' \in [Reminders -> Nat]
  BY DEF LoseLock, Fault, Hit, TInv, TypeOK
<1>7. TypeOK'
  BY <1>3, <1>4, <1>5, <1>6 DEF TInv, TypeOK, Job
<1>8. WorkersOK' /\ CancelsOK'
  BY <1>5 DEF TInv, WorkersOK, CancelsOK, Busy, Of
<1>9. \A x \in Reminders :
        /\ jobs'[x].state = jobs[x].state /\ jobs'[x].made = jobs[x].made
        /\ jobs'[x].owner \in {jobs[x].owner, None}
  BY <1>3, <1>4 DEF TInv, TypeOK
<1>10. JobsOK' /\ RowsOK'
  BY <1>5, <1>9 DEF TInv, JobsOK, RowsOK, Alive, Busy
<1>q. QED
  BY <1>7, <1>8, <1>10 DEF TInv

\* Every step of the system keeps the tables, the queue and the workers in order.
LEMMA TInvStep ==
  ASSUME TInv, [Next]_vars
  PROVE  TInv'
<1> USE RemindersAssumption
    DEF TInv, TypeOK, WorkersOK, JobsOK, CancelsOK, RowsOK, Busy, Alive, tables, process, counts
<1>1. ASSUME NEW p \in Instances, NEW b \in Bookings, CreateBooking(p, b) PROVE TInv'
  BY <1>1 DEF CreateBooking, Rounds, Serving, RowStatus, Of
<1>2. ASSUME NEW b \in Bookings, EndQuietly(b) PROVE TInv'
  BY <1>2 DEF EndQuietly, End, Of
<1>3. ASSUME NEW p \in Instances, NEW b \in Bookings, EndAndCancel(p, b) PROVE TInv'
  BY <1>3, EndAndCancelKeeps
<1>4. ASSUME NEW b \in Bookings, Unsubscribe(b) PROVE TInv'
  BY <1>4 DEF Unsubscribe, Of
<1>5. ASSUME NEW e \in enqueues, FindRow(e) PROVE TInv'
  BY <1>5, FindRowKeeps
<1>6. ASSUME NEW e \in enqueues, AddJob(e) PROVE TInv'
  BY <1>6, AddJobKeeps
<1>7. ASSUME NEW e \in enqueues, EnqueueFails(e) PROVE TInv'
  BY <1>7 DEF EnqueueFails, Fault, Hit, Of
<1>8. ASSUME NEW p \in Instances, Reconcile(p) PROVE TInv'
  BY <1>8 DEF Reconcile, Rounds, Reconcilable, Scheduled, Of
<1>9. ASSUME NEW c \in cancels, ReadRows(c) PROVE TInv'
  BY <1>9, ReadRowsKeeps
<1>10. ASSUME NEW c \in cancels, NEW r \in c.left, RemoveJob(c, r) PROVE TInv'
  BY <1>10, RemoveJobKeeps
<1>11. ASSUME NEW c \in cancels, CancelRows(c) PROVE TInv'
  BY <1>11 DEF CancelRows, Cancellable, Unsettled, RowStatus, Of
<1>12. ASSUME NEW c \in cancels, CancelFails(c) PROVE TInv'
  BY <1>12 DEF CancelFails, Of
<1>13. ASSUME NEW p \in Instances, NEW r \in Reminders, Take(p, r) PROVE TInv'
  BY <1>13 DEF Take, At, Free, Of
<1>14. ASSUME NEW p \in Instances, Claim(p) PROVE TInv'
  BY <1>14, ClaimSteps, WorkerStepKeeps
<1>15. ASSUME NEW p \in Instances, Check(p) PROVE TInv'
  BY <1>15, CheckSteps, WorkerStepKeeps
<1>16. ASSUME NEW p \in Instances, Load(p) PROVE TInv'
  BY <1>16, LoadSteps, WorkerStepKeeps
<1>17. ASSUME NEW p \in Instances, LoadBooking(p) PROVE TInv'
  BY <1>17, LoadBookingSteps, WorkerStepKeeps
<1>18. ASSUME NEW p \in Instances, Send(p) PROVE TInv'
  BY <1>18, SendSteps, WorkerStepKeeps
<1>19. ASSUME NEW p \in Instances, Mark(p) PROVE TInv'
  BY <1>19, MarkSteps, WorkerStepKeeps
<1>20. ASSUME NEW p \in Instances, WorkerFails(p) PROVE TInv'
  BY <1>20, WorkerFailsSteps, WorkerStepKeeps
<1>21. ASSUME NEW r \in Reminders, Promote(r) PROVE TInv'
  <2>1. jobs' \in [Reminders -> Job]
    BY <1>21 DEF Promote, Job
  <2>2. JobsOK' /\ RowsOK'
    BY <1>21 DEF Promote
  <2>q. QED
    BY <1>21, <2>1, <2>2 DEF Promote, Of, Job
<1>22. ASSUME NEW r \in Reminders, LoseLock(r) PROVE TInv'
  BY <1>22, LoseLockKeeps
<1>23. ASSUME NEW r \in Reminders, Redeliver(r) PROVE TInv'
  BY <1>23 DEF Redeliver, Of
<1>24. ASSUME NEW r \in Reminders, Expire(r) PROVE TInv'
  BY <1>24 DEF Expire, NoJob, Of
<1>25. ASSUME NEW p \in Instances, Crash(p) PROVE TInv'
  BY <1>25 DEF Crash, Hit, Free, Of
<1>26. ASSUME NEW p \in Instances, Restart(p) PROVE TInv'
  BY <1>26 DEF Restart, Of
<1>27. ASSUME Tick PROVE TInv'
  BY <1>27 DEF Tick, Of
<1>28. CASE UNCHANGED vars
  BY <1>28 DEF vars, Of
<1>q. QED
  BY <1>1, <1>2, <1>3, <1>4, <1>5, <1>6, <1>7, <1>8, <1>9, <1>10, <1>11, <1>12, <1>13, <1>14,
     <1>15, <1>16, <1>17, <1>18, <1>19, <1>20, <1>21, <1>22, <1>23, <1>24, <1>25, <1>26, <1>27,
     <1>28
     DEF Next, Endpoint, Trouble, Worker, Manager

------------------------------------------------------------------------------
(* No mail before its time, and none for a booking that ended before. *)

\* Jobs, workers and mails wait for fire_at; a booking has ended once only; a worker sends
\* only what was due when the booking ended.
DueInv ==
  /\ \A r \in Reminders :
       /\ jobs[r].state \in {"waiting", "active"} => Fire[r] <= now
       /\ mails[r] > 0 => Fire[r] <= now
  /\ \A p \in Instances : Busy(p) => Fire[workers[p].r] <= now
  /\ \A b \in Bookings : endedAt[b] # None => bookings[b] \notin {"none", "booked"}
  /\ \A p \in Instances : workers[p].pc = "send" =>
       LET t == endedAt[BookingOf[workers[p].r]] IN t = None \/ t >= Fire[workers[p].r]

\* A worker that goes on to send has seen the booking booked; a mail is accepted from a
\* worker that sends.
LEMMA WorkerStepKeepsDue ==
  ASSUME TInv, DueInv, EndedEarlyIsNotMailed, NEW p \in Instances, WorkerStep(p),
         workers'[p].pc = "send" => ~Ended(workers[p].r),
         mails' = mails \/ workers[p].pc = "send"
  PROVE  DueInv' /\ EndedEarlyIsNotMailed'
<1> DEFINE r == workers[p].r
<1>1. r \in Reminders /\ Fire[r] <= now /\ Fire[r] \in Nat /\ BookingOf[r] \in Bookings
  BY RemindersAssumption DEF WorkerStep, TInv, WorkersOK, DueInv
<1>2. UNCHANGED <<bookings, endedAt, now>>
  BY DEF WorkerStep, tables
<1>3. /\ \A q \in Instances : q # p => workers'[q] = workers[q]
      /\ workers'[p].pc # "free" => workers'[p].r = r
      /\ \A x \in Reminders : jobs'[x] = jobs[x] \/ jobs'[x].state \notin {"waiting", "active"}
  BY WorkerMoved
<1>4. \A x \in Reminders : mails'[x] = mails[x] \/ (x = r /\ workers[p].pc = "send")
  BY <1>1 DEF WorkerStep, TInv, TypeOK
<1>5. endedAt[BookingOf[r]] = None \/ endedAt[BookingOf[r]] >= Fire[r]
      \/ (workers[p].pc # "send" /\ workers'[p].pc # "send")
  BY <1>1 DEF DueInv, Ended
<1>6. \A x \in Reminders : /\ jobs'[x].state \in {"waiting", "active"} => Fire[x] <= now
                           /\ mails'[x] > 0 => Fire[x] <= now
  BY <1>1, <1>3, <1>4 DEF DueInv
<1>7. \A q \in Instances : workers'[q].pc # "free" => Fire[workers'[q].r] <= now
  BY <1>1, <1>3 DEF DueInv, Busy
<1>8. \A q \in Instances : workers'[q].pc = "send" =>
        LET t == endedAt[BookingOf[workers'[q].r]] IN t = None \/ t >= Fire[workers'[q].r]
  BY <1>1, <1>3, <1>5 DEF DueInv
<1>9. DueInv'
  BY <1>2, <1>6, <1>7, <1>8 DEF DueInv, Busy
<1>10. EndedEarlyIsNotMailed'
  BY <1>1, <1>2, <1>4, <1>5 DEF EndedEarlyIsNotMailed
<1>q. QED
  BY <1>9, <1>10

LEMMA DueStep ==
  ASSUME TInv, DueInv, EndedEarlyIsNotMailed, [Next]_vars
  PROVE  DueInv' /\ EndedEarlyIsNotMailed'
<1> DEFINE G == DueInv' /\ EndedEarlyIsNotMailed'
<1> USE RemindersAssumption
    DEF TInv, TypeOK, WorkersOK, DueInv, EndedEarlyIsNotMailed, Busy, tables, process, counts
<1>1. ASSUME NEW p \in Instances, NEW b \in Bookings, CreateBooking(p, b) PROVE G
  BY <1>1 DEF CreateBooking, Rounds, Serving
<1>2. ASSUME NEW b \in Bookings, EndQuietly(b) PROVE G
  BY <1>2 DEF EndQuietly, End
<1>3. ASSUME NEW p \in Instances, NEW b \in Bookings, EndAndCancel(p, b) PROVE G
  <2>1. PICK st \in {"cancelled", "moved"} : End(b, st)
    BY <1>3 DEF EndAndCancel
  <2>q. QED
    BY <1>3, <2>1 DEF EndAndCancel, End
<1>4. ASSUME NEW b \in Bookings, Unsubscribe(b) PROVE G
  BY <1>4 DEF Unsubscribe
<1>5. ASSUME NEW e \in enqueues, FindRow(e) PROVE G
  BY <1>5 DEF FindRow, Scheduled
<1>6. ASSUME NEW e \in enqueues, AddJob(e) PROVE G
  BY <1>6 DEF AddJob, Added, NewJob, NoJob
<1>7. ASSUME NEW e \in enqueues, EnqueueFails(e) PROVE G
  BY <1>7 DEF EnqueueFails, Fault, Hit
<1>8. ASSUME NEW p \in Instances, Reconcile(p) PROVE G
  BY <1>8 DEF Reconcile, Rounds, Reconcilable, Scheduled
<1>9. ASSUME NEW c \in cancels, ReadRows(c) PROVE G
  BY <1>9 DEF ReadRows
<1>10. ASSUME NEW c \in cancels, NEW r \in c.left, RemoveJob(c, r) PROVE G
  BY <1>10 DEF RemoveJob, NoJob
<1>11. ASSUME NEW c \in cancels, CancelRows(c) PROVE G
  BY <1>11 DEF CancelRows, Cancellable, Unsettled
<1>12. ASSUME NEW c \in cancels, CancelFails(c) PROVE G
  BY <1>12 DEF CancelFails
<1>13. ASSUME NEW p \in Instances, NEW r \in Reminders, Take(p, r) PROVE G
  BY <1>13 DEF Take, At, Free
<1>14. ASSUME NEW p \in Instances, Claim(p) PROVE G
  BY <1>14, ClaimSteps, WorkerStepKeepsDue DEF Claim, At, NothingElse
<1>15. ASSUME NEW p \in Instances, Check(p) PROVE G
  BY <1>15, CheckSteps, WorkerStepKeepsDue DEF Check, At, NothingElse
<1>16. ASSUME NEW p \in Instances, Load(p) PROVE G
  BY <1>16, LoadSteps, WorkerStepKeepsDue DEF Load, At, NothingElse
<1>17. ASSUME NEW p \in Instances, LoadBooking(p) PROVE G
  BY <1>17, LoadBookingSteps, WorkerStepKeepsDue DEF LoadBooking, At, NothingElse
<1>18. ASSUME NEW p \in Instances, Send(p) PROVE G
  BY <1>18, SendSteps, WorkerStepKeepsDue DEF Send, At, NothingElse
<1>19. ASSUME NEW p \in Instances, Mark(p) PROVE G
  BY <1>19, MarkSteps, WorkerStepKeepsDue DEF Mark, At, NothingElse
<1>20. ASSUME NEW p \in Instances, WorkerFails(p) PROVE G
  BY <1>20, WorkerFailsSteps, WorkerStepKeepsDue DEF WorkerFails, At, NothingElse
<1>21. ASSUME NEW r \in Reminders, Promote(r) PROVE G
  BY <1>21 DEF Promote
<1>22. ASSUME NEW r \in Reminders, LoseLock(r) PROVE G
  BY <1>22 DEF LoseLock, Fault, Hit
<1>23. ASSUME NEW r \in Reminders, Redeliver(r) PROVE G
  BY <1>23 DEF Redeliver
<1>24. ASSUME NEW r \in Reminders, Expire(r) PROVE G
  BY <1>24 DEF Expire, NoJob
<1>25. ASSUME NEW p \in Instances, Crash(p) PROVE G
  BY <1>25 DEF Crash, Hit, Free
<1>26. ASSUME NEW p \in Instances, Restart(p) PROVE G
  BY <1>26 DEF Restart
<1>27. ASSUME Tick PROVE G
  BY <1>27 DEF Tick
<1>28. CASE UNCHANGED vars
  BY <1>28 DEF vars
<1>q. QED
  BY <1>1, <1>2, <1>3, <1>4, <1>5, <1>6, <1>7, <1>8, <1>9, <1>10, <1>11, <1>12, <1>13, <1>14,
     <1>15, <1>16, <1>17, <1>18, <1>19, <1>20, <1>21, <1>22, <1>23, <1>24, <1>25, <1>26, <1>27, <1>28
     DEF Next, Endpoint, Trouble, Worker, Manager

------------------------------------------------------------------------------
(* A scheduled row has a keeper. *)

Taken(status) == status \notin {"none", "scheduled"}

\* Past the claim, the row has been taken up.  A job ends without that, or has no owner while
\* it is active, only by a fault.
KeeperInv ==
  /\ \A p \in Instances : workers[p].pc \notin {"free", "claim"} => Taken(rows[workers[p].r])
  /\ \A r \in Reminders :
       /\ jobs[r].state \in {"done", "failed"} => Taken(rows[r]) \/ faults[r] > 0
       /\ jobs[r].state = "active" /\ jobs[r].owner = None => faults[r] > 0

\* A worker leaves the row to nobody: it has taken it up, or failed.
LEMMA WorkerStepKeepsKeeper ==
  ASSUME TInv, KeeperInv, ScheduledHasKeeper, NEW p \in Instances, WorkerStep(p),
         workers[p].pc = "claim" /\ workers'[p].pc # "free" => Taken(rows'[workers[p].r]),
         workers[p].pc = "claim" /\ workers'[p].pc = "free" => Hit({workers[p].r})
  PROVE  KeeperInv' /\ ScheduledHasKeeper'
<1> DEFINE r == workers[p].r
<1>1. r \in Reminders
  BY DEF WorkerStep, TInv, WorkersOK
<1>2. /\ \A q \in Instances : q # p => workers'[q] = workers[q]
      /\ workers'[p].pc # "free" => workers'[p].r = r /\ jobs' = jobs
      /\ \A x \in Reminders :
           \/ jobs'[x] = jobs[x]
           \/ x = r /\ jobs'[x].state \in {"done", "delayed", "failed"}
  BY WorkerMoved
<1>3. \A x \in Reminders : Taken(rows[x]) => Taken(rows'[x])
  BY <1>1 DEF WorkerStep, Taken, TInv, TypeOK
<1>4. \A x \in Reminders : faults'[x] \in Nat /\ faults[x] \in Nat /\ faults'[x] >= faults[x]
  BY <1>1 DEF WorkerStep, Hit, TInv, TypeOK
<1>5. workers'[p].pc = "free" => Taken(rows'[r]) \/ faults'[r] > 0
  <2>1. CASE workers[p].pc # "claim"
    BY <1>1, <1>3, <2>1 DEF WorkerStep, Busy, KeeperInv
  <2>2. CASE workers[p].pc = "claim"
    BY <1>1, <1>4, <2>2 DEF Hit, TInv, TypeOK
  <2>q. QED
    BY <2>1, <2>2
<1>6. workers'[p].pc # "free" => Taken(rows'[workers[p].r])
  <2>1. CASE workers[p].pc # "claim"
    BY <1>1, <1>3, <2>1 DEF WorkerStep, Busy, KeeperInv
  <2>q. QED
    BY <2>1
<1>7. \A x \in Reminders : jobs'[x] = jobs[x] \/ Taken(rows'[x]) \/ faults'[x] > 0
  <2>1. CASE workers'[p].pc = "free"
    BY <1>2, <1>5, <2>1
  <2>2. CASE workers'[p].pc # "free"
    BY <1>2, <2>2
  <2>q. QED
    BY <2>1, <2>2
<1>8. KeeperInv'
  <2>1. \A q \in Instances : workers'[q].pc \notin {"free", "claim"} => Taken(rows'[workers'[q].r])
    <3> SUFFICES ASSUME NEW q \in Instances, workers'[q].pc \notin {"free", "claim"}
                 PROVE  Taken(rows'[workers'[q].r])
      OBVIOUS
    <3>1. CASE q = p
      BY <1>2, <1>6, <3>1 DEF Taken
    <3>2. CASE q # p
      <4>1. workers'[q] = workers[q] /\ workers[q].r \in Reminders /\ Taken(rows[workers[q].r])
        BY <1>2, <3>2 DEF TInv, WorkersOK, Busy, KeeperInv
      <4>2. rows'[workers[q].r] \notin {"none", "scheduled"}
        BY <1>3, <4>1 DEF Taken
      <4>q. QED
        BY <4>1, <4>2 DEF Taken
    <3>q. QED
      BY <3>1, <3>2
  <2>2. \A x \in Reminders :
          /\ jobs'[x].state \in {"done", "failed"} => Taken(rows'[x]) \/ faults'[x] > 0
          /\ jobs'[x].state = "active" /\ jobs'[x].owner = None => faults'[x] > 0
    BY <1>2, <1>3, <1>4, <1>7 DEF KeeperInv
  <2>q. QED
    BY <2>1, <2>2 DEF KeeperInv
<1>9. ScheduledHasKeeper'
  <2> SUFFICES ASSUME NEW x \in Reminders, rows'[x] = "scheduled"
               PROVE  \/ Alive(x)' \/ Waiting(x)' \/ Over(x)'
                      \/ Instances \ up' # {} \/ starting' # {} \/ faults'[x] > 0
    BY DEF ScheduledHasKeeper, Scheduled
  <2>1. UNCHANGED <<bookings, enqueues, up, starting>>
    BY DEF WorkerStep, tables, process
  <2>2. ~Taken(rows'[x]) /\ x \in Scheduled(Reminders)
    BY <1>1 DEF Taken, Scheduled, WorkerStep, TInv, TypeOK
  <2>3. jobs'[x] = jobs[x] \/ faults'[x] > 0
    BY <1>7, <2>2
  <2>4. \/ Alive(x) \/ Waiting(x) \/ Over(x)
        \/ Instances \ up # {} \/ starting # {} \/ faults[x] > 0
    BY <2>2 DEF ScheduledHasKeeper
  <2>q. QED
    BY <1>4, <2>1, <2>3, <2>4 DEF Alive, Waiting, Over
<1>q. QED
  BY <1>8, <1>9

LEMMA CreateBookingKeepsKeeper ==
  ASSUME TInv, ScheduledHasKeeper, NEW p \in Instances, NEW b \in Bookings, CreateBooking(p, b)
  PROVE  ScheduledHasKeeper'
<1> DEFINE ahead == {r \in Of(b) : Fire[r] > now}
<1>1. ahead \subseteq Of(b) /\ Of(b) \subseteq Reminders
  BY DEF Of
<1>2. /\ rows' = [r \in Reminders |-> IF r \in ahead THEN "scheduled" ELSE rows[r]]
      /\ enqueues' = enqueues \cup Rounds(p, "create", ahead)
      /\ bookings' = [bookings EXCEPT ![b] = "booked"] /\ bookings[b] = "none"
      /\ UNCHANGED <<jobs, up, starting, faults>>
  BY DEF CreateBooking, process, counts
<1> SUFFICES ASSUME NEW x \in Reminders, rows'[x] = "scheduled"
             PROVE  \/ Alive(x)' \/ Waiting(x)' \/ Over(x)'
                    \/ Instances \ up' # {} \/ starting' # {} \/ faults'[x] > 0
  BY DEF ScheduledHasKeeper, Scheduled
<1>3. CASE x \in ahead
  <2>1. [by |-> p, from |-> "create", r |-> x, at |-> now, pc |-> "find"] \in enqueues'
    BY <1>2, <1>3 DEF Rounds
  <2>q. QED
    BY <2>1 DEF Waiting
<1>4. CASE x \notin ahead
  <2>1. rows[x] = "scheduled"
    BY <1>2, <1>4
  <2>2. BookingOf[x] # b /\ BookingOf[x] \in Bookings
    BY <1>2, <2>1, RemindersAssumption DEF TInv, RowsOK
  <2>3. Over(x) => Over(x)'
    BY <1>2, <2>2 DEF Over, TInv, TypeOK
  <2>q. QED
    BY <1>2, <2>1, <2>3 DEF ScheduledHasKeeper, Scheduled, Alive, Waiting
<1>q. QED
  BY <1>3, <1>4

LEMMA FindRowKeepsKeeper ==
  ASSUME TInv, ScheduledHasKeeper, NEW e \in enqueues, FindRow(e)
  PROVE  ScheduledHasKeeper'
<1>1. e \in Round(up) /\ e.r \in Reminders
  BY DEF TInv, TypeOK, Round
<1>2. PICK g : g = [e EXCEPT !.pc = "add"]
  OBVIOUS
<1>3. g.r = e.r
  BY <1>1, <1>2 DEF Round
<1>4. enqueues' = (enqueues \ {e}) \cup {g : r \in {r \in Scheduled({e.r}) : ~(Fire[e.r] <= e.at)}}
  BY <1>2 DEF FindRow
<1> SUFFICES ASSUME NEW x \in Reminders, rows'[x] = "scheduled"
             PROVE  \/ Alive(x)' \/ Waiting(x)' \/ Over(x)'
                    \/ Instances \ up' # {} \/ starting' # {} \/ faults'[x] > 0
  BY DEF ScheduledHasKeeper, Scheduled
<1>5. rows[x] = "scheduled" /\ (x = e.r => ~(Fire[e.r] <= e.at))
  BY <1>1 DEF FindRow, TInv, TypeOK
<1>6. Waiting(x) => Waiting(x)'
  <2>1. CASE x = e.r
    <3>1. x \in {r \in Scheduled({e.r}) : ~(Fire[e.r] <= e.at)}
      BY <1>5, <2>1 DEF Scheduled
    <3>2. g \in enqueues'
      BY <1>4, <3>1
    <3>q. QED
      BY <1>3, <2>1, <3>2 DEF Waiting
  <2>2. CASE x # e.r
    BY <1>4, <2>2 DEF Waiting
  <2>q. QED
    BY <2>1, <2>2
<1>q. QED
  BY <1>5, <1>6 DEF FindRow, ScheduledHasKeeper, Scheduled, Alive, Over, tables, process, counts

LEMMA ReconcileKeepsKeeper ==
  ASSUME TInv, ScheduledHasKeeper, NEW p \in Instances, Reconcile(p)
  PROVE  ScheduledHasKeeper'
<1> SUFFICES ASSUME NEW x \in Reminders, rows'[x] = "scheduled"
             PROVE  Waiting(x)' \/ Over(x)'
  BY DEF ScheduledHasKeeper, Scheduled
<1>1. CASE x \in Reconcilable
  <2>1. [by |-> p, from |-> "reconcile", r |-> x, at |-> now, pc |-> "find"] \in enqueues'
    BY <1>1 DEF Reconcile, Rounds
  <2>q. QED
    BY <2>1 DEF Waiting
<1>2. CASE x \notin Reconcilable
  BY <1>2 DEF Reconcile, Reconcilable, Scheduled, Over, tables
<1>q. QED
  BY <1>1, <1>2

\* The jobs that cancelForBooking removes are those of a booking that is over.
LEMMA RemoveJobKeepsKeeper ==
  ASSUME TInv, ScheduledHasKeeper, NEW c \in cancels, NEW r \in c.left, RemoveJob(c, r)
  PROVE  ScheduledHasKeeper'
<1>1. r \in Reminders /\ Over(r)
  BY DEF TInv, CancelsOK, Of, Over
<1>2. \A x \in Reminders : x # r => jobs'[x] = jobs[x]
  BY <1>1 DEF RemoveJob, TInv, TypeOK
<1>3. UNCHANGED <<bookings, rows, enqueues, up, starting, faults>>
  BY DEF RemoveJob, tables, process, counts
<1>q. QED
  BY <1>1, <1>2, <1>3 DEF ScheduledHasKeeper, Scheduled, Alive, Waiting, Over

\* Steps of the queue: a job stays alive unless its row was taken up or something failed.
LEMMA QueueStepKeepsKeeper ==
  ASSUME TInv, KeeperInv, ScheduledHasKeeper,
         UNCHANGED <<bookings, rows, enqueues, workers, up, starting>>,
         \A r \in Reminders :
           /\ faults'[r] \in Nat /\ faults'[r] >= faults[r]
           /\ \/ faults'[r] > 0
              \/ jobs'[r].owner = jobs[r].owner /\ jobs'[r].state = jobs[r].state
              \/ jobs'[r].state \in {"delayed", "waiting"}
              \/ jobs[r].state \in {"done", "failed"} /\ jobs'[r].state = "none"
  PROVE  KeeperInv' /\ ScheduledHasKeeper'
<1>1. \A r \in Reminders : faults[r] \in Nat
  BY DEF TInv, TypeOK
<1>2. KeeperInv'
  BY <1>1 DEF KeeperInv
<1>3. ASSUME NEW r \in Reminders, rows[r] = "scheduled"
      PROVE  \/ Alive(r)' \/ Waiting(r)' \/ Over(r)'
             \/ Instances \ up' # {} \/ starting' # {} \/ faults'[r] > 0
  <2>1. Alive(r) \/ Waiting(r) \/ Over(r) \/ Instances \ up # {} \/ starting # {} \/ faults[r] > 0
    BY <1>3 DEF ScheduledHasKeeper, Scheduled
  <2>2. Alive(r) => Alive(r)' \/ faults'[r] > 0
    BY DEF Alive
  <2>3. faults[r] > 0 => faults'[r] > 0
    BY <1>1
  <2>q. QED
    BY <2>1, <2>2, <2>3 DEF Waiting, Over
<1>q. QED
  BY <1>2, <1>3 DEF ScheduledHasKeeper, Scheduled

LEMMA KeeperStep ==
  ASSUME TInv, KeeperInv, ScheduledHasKeeper, [Next]_vars
  PROVE  KeeperInv' /\ ScheduledHasKeeper'
<1> DEFINE G == KeeperInv' /\ ScheduledHasKeeper'
<1> USE RemindersAssumption
    DEF TInv, TypeOK, WorkersOK, JobsOK, RowsOK, KeeperInv, Taken, ScheduledHasKeeper, Busy,
        Alive, Waiting,
        Over, Scheduled, tables, process, counts
<1>1. ASSUME NEW p \in Instances, NEW b \in Bookings, CreateBooking(p, b) PROVE G
  <2>1. ScheduledHasKeeper'
    BY <1>1, CreateBookingKeepsKeeper
  <2>2. KeeperInv'
    BY <1>1 DEF CreateBooking, Rounds, Of, Serving
  <2>q. QED
    BY <2>1, <2>2
<1>2. ASSUME NEW b \in Bookings, EndQuietly(b) PROVE G
  BY <1>2 DEF EndQuietly, End
<1>3. ASSUME NEW p \in Instances, NEW b \in Bookings, EndAndCancel(p, b) PROVE G
  <2>1. PICK st \in {"cancelled", "moved"} : End(b, st)
    BY <1>3 DEF EndAndCancel
  <2>2. KeeperInv'
    BY <1>3, <2>1 DEF EndAndCancel, End
  <2>3. \A r \in Reminders : Over(r) => Over(r)'
    BY <2>1 DEF End
  <2>4. ScheduledHasKeeper'
    BY <1>3, <2>3 DEF EndAndCancel
  <2>q. QED
    BY <2>2, <2>4
<1>4. ASSUME NEW b \in Bookings, Unsubscribe(b) PROVE G
  BY <1>4 DEF Unsubscribe
<1>5. ASSUME NEW e \in enqueues, FindRow(e) PROVE G
  <2>1. ScheduledHasKeeper'
    BY <1>5, FindRowKeepsKeeper
  <2>2. KeeperInv'
    BY <1>5 DEF FindRow
  <2>q. QED
    BY <2>1, <2>2
<1>6. ASSUME NEW e \in enqueues, AddJob(e) PROVE G
  <2>1. KeeperInv'
    BY <1>6 DEF AddJob, Added, NewJob, NoJob
  <2>2. ScheduledHasKeeper'
    BY <1>6 DEF AddJob, Added, NewJob, NoJob
  <2>q. QED
    BY <2>1, <2>2
<1>7. ASSUME NEW e \in enqueues, EnqueueFails(e) PROVE G
  <2>1. \A x \in Reminders : faults'[x] \in Nat /\ faults'[x] >= faults[x]
    BY <1>7 DEF EnqueueFails, Fault, Hit
  <2>2. \A x \in enqueues : x \in enqueues' \/ faults'[x.r] > 0
    BY <1>7 DEF EnqueueFails, Fault, Hit
  <2>3. UNCHANGED <<bookings, rows, jobs, workers, up, starting>>
    BY <1>7 DEF EnqueueFails
  <2>4. KeeperInv'
    BY <2>1, <2>3
  <2>5. ScheduledHasKeeper'
    BY <2>1, <2>2, <2>3
  <2>q. QED
    BY <2>4, <2>5
<1>8. ASSUME NEW p \in Instances, Reconcile(p) PROVE G
  <2>1. ScheduledHasKeeper'
    BY <1>8, ReconcileKeepsKeeper
  <2>2. KeeperInv'
    BY <1>8 DEF Reconcile, Rounds, Reconcilable
  <2>q. QED
    BY <2>1, <2>2
<1>9. ASSUME NEW c \in cancels, ReadRows(c) PROVE G
  BY <1>9 DEF ReadRows
<1>10. ASSUME NEW c \in cancels, NEW r \in c.left, RemoveJob(c, r) PROVE G
  <2>1. ScheduledHasKeeper'
    BY <1>10, RemoveJobKeepsKeeper
  <2>2. KeeperInv'
    BY <1>10 DEF RemoveJob, NoJob
  <2>q. QED
    BY <2>1, <2>2
<1>11. ASSUME NEW c \in cancels, CancelRows(c) PROVE G
  BY <1>11 DEF CancelRows, Cancellable, Unsettled, Of
<1>12. ASSUME NEW c \in cancels, CancelFails(c) PROVE G
  <2>1. KeeperInv'
    BY <1>12 DEF CancelFails
  <2>2. ScheduledHasKeeper'
    BY <1>12 DEF CancelFails
  <2>q. QED
    BY <2>1, <2>2
<1>13. ASSUME NEW p \in Instances, NEW r \in Reminders, Take(p, r) PROVE G
  <2>1. KeeperInv'
    BY <1>13 DEF Take, At, Free
  <2>2. ScheduledHasKeeper'
    BY <1>13 DEF Take, At, Free
  <2>q. QED
    BY <2>1, <2>2
<1>14. ASSUME NEW p \in Instances, Claim(p) PROVE G
  <2>1. workers[p].r \in Reminders /\ rows[workers[p].r] # "none" /\ workers[p].pc = "claim"
    BY <1>14 DEF Claim, At
  <2>2. WorkerStep(p) /\ Taken(rows'[workers[p].r]) /\ workers'[p].pc # "free"
    BY <1>14, <2>1, ClaimSteps
  <2>q. QED
    BY <2>2, WorkerStepKeepsKeeper
<1>15. ASSUME NEW p \in Instances, Check(p) PROVE G
  BY <1>15, CheckSteps, WorkerStepKeepsKeeper DEF Check, At, NothingElse
<1>16. ASSUME NEW p \in Instances, Load(p) PROVE G
  BY <1>16, LoadSteps, WorkerStepKeepsKeeper DEF Load, At, NothingElse
<1>17. ASSUME NEW p \in Instances, LoadBooking(p) PROVE G
  BY <1>17, LoadBookingSteps, WorkerStepKeepsKeeper DEF LoadBooking, At, NothingElse
<1>18. ASSUME NEW p \in Instances, Send(p) PROVE G
  BY <1>18, SendSteps, WorkerStepKeepsKeeper DEF Send, At, NothingElse
<1>19. ASSUME NEW p \in Instances, Mark(p) PROVE G
  BY <1>19, MarkSteps, WorkerStepKeepsKeeper DEF Mark, At, NothingElse
<1>20. ASSUME NEW p \in Instances, WorkerFails(p) PROVE G
  BY <1>20, WorkerFailsSteps, WorkerStepKeepsKeeper DEF WorkerFails, At, NothingElse
<1>21. ASSUME NEW r \in Reminders, Promote(r) PROVE G
  <2>1. \A x \in Reminders :
          /\ faults'[x] \in Nat /\ faults'[x] >= faults[x]
          /\ \/ faults'[x] > 0
             \/ jobs'[x].owner = jobs[x].owner /\ jobs'[x].state = jobs[x].state
             \/ jobs'[x].state \in {"delayed", "waiting"}
             \/ jobs[x].state \in {"done", "failed"} /\ jobs'[x].state = "none"
    BY <1>21 DEF Promote
  <2>q. QED
    BY <1>21, <2>1, QueueStepKeepsKeeper DEF Promote
<1>22. ASSUME NEW r \in Reminders, LoseLock(r) PROVE G
  <2>1. \A x \in Reminders :
          /\ faults'[x] \in Nat /\ faults'[x] >= faults[x]
          /\ \/ faults'[x] > 0
             \/ jobs'[x].owner = jobs[x].owner /\ jobs'[x].state = jobs[x].state
             \/ jobs'[x].state \in {"delayed", "waiting"}
             \/ jobs[x].state \in {"done", "failed"} /\ jobs'[x].state = "none"
    BY <1>22 DEF LoseLock, Fault, Hit
  <2>q. QED
    BY <1>22, <2>1, QueueStepKeepsKeeper DEF LoseLock
<1>23. ASSUME NEW r \in Reminders, Redeliver(r) PROVE G
  <2>1. \A x \in Reminders :
          /\ faults'[x] \in Nat /\ faults'[x] >= faults[x]
          /\ \/ faults'[x] > 0
             \/ jobs'[x].owner = jobs[x].owner /\ jobs'[x].state = jobs[x].state
             \/ jobs'[x].state \in {"delayed", "waiting"}
             \/ jobs[x].state \in {"done", "failed"} /\ jobs'[x].state = "none"
    BY <1>23 DEF Redeliver
  <2>q. QED
    BY <1>23, <2>1, QueueStepKeepsKeeper DEF Redeliver
<1>24. ASSUME NEW r \in Reminders, Expire(r) PROVE G
  <2>1. \A x \in Reminders :
          /\ faults'[x] \in Nat /\ faults'[x] >= faults[x]
          /\ \/ faults'[x] > 0
             \/ jobs'[x].owner = jobs[x].owner /\ jobs'[x].state = jobs[x].state
             \/ jobs'[x].state \in {"delayed", "waiting"}
             \/ jobs[x].state \in {"done", "failed"} /\ jobs'[x].state = "none"
    BY <1>24 DEF Expire, NoJob
  <2>q. QED
    BY <1>24, <2>1, QueueStepKeepsKeeper DEF Expire
<1>25. ASSUME NEW p \in Instances, Crash(p) PROVE G
  BY <1>25 DEF Crash, Hit, Free
<1>26. ASSUME NEW p \in Instances, Restart(p) PROVE G
  BY <1>26 DEF Restart
<1>27. ASSUME Tick PROVE G
  BY <1>27 DEF Tick
<1>28. CASE UNCHANGED vars
  BY <1>28 DEF vars
<1>q. QED
  BY <1>1, <1>2, <1>3, <1>4, <1>5, <1>6, <1>7, <1>8, <1>9, <1>10, <1>11, <1>12, <1>13, <1>14,
     <1>15, <1>16, <1>17, <1>18, <1>19, <1>20, <1>21, <1>22, <1>23, <1>24, <1>25, <1>26, <1>27, <1>28
     DEF Next, Endpoint, Trouble, Worker, Manager

------------------------------------------------------------------------------
(* What was sent is recorded. *)

\* The worker that is about to write "sent".
Marker(p) == workers[p].pc = "mark" /\ workers[p].status = "sent"

\* The worker has begun with the reminder and no mail of it was accepted.
Unsent(p) == workers[p].pc \in {"load", "booking", "send", "mark"} /\ ~Marker(p)
Moved(r) == bookings[BookingOf[r]] = "moved"

\* As long as nothing fails, one worker has the job of a reminder, and owns it; a mail is on
\* record, or its worker is about to write the record.
SentInv ==
  /\ \A p \in Instances :
       /\ Busy(p) /\ faults[workers[p].r] = 0 => jobs[workers[p].r].owner = p
       /\ Unsent(p) /\ faults[workers[p].r] = 0 /\ ~Moved(workers[p].r) => mails[workers[p].r] = 0
  /\ \A r \in Reminders :
       /\ mails[r] > 0 => bookings[BookingOf[r]] # "none"
       /\ faults[r] = 0 /\ mails[r] > 0 /\ ~Moved(r) =>
            rows[r] = "sent" \/ \E p \in Instances : workers[p].r = r /\ Marker(p)

LEMMA WorkerStepKeepsSent ==
  ASSUME TInv, SentInv, NEW p \in Instances, WorkerStep(p),
         Unsent(p)' => \/ Unsent(p)
                       \/ workers[p].pc \in {"claim", "check"} /\ rows[workers[p].r] # "sent",
         mails' = mails \/ Marker(p)' \/ Hit({workers[p].r}),
         Marker(p) => rows'[workers[p].r] = "sent" \/ Hit({workers[p].r}),
         rows[workers[p].r] = "sent" => rows'[workers[p].r] = "sent" \/ Unsent(p) \/ Marker(p)
  PROVE  SentInv'
<1> DEFINE r == workers[p].r
<1>1. r \in Reminders /\ Busy(p) /\ bookings[BookingOf[r]] # "none"
  BY DEF WorkerStep, TInv, WorkersOK, RowsOK
<1>2. /\ \A q \in Instances : q # p => workers'[q] = workers[q]
      /\ workers'[p].pc # "free" => workers'[p].r = r /\ jobs' = jobs
      /\ \A x \in Reminders : jobs'[x] = jobs[x] \/ (x = r /\ jobs[x].owner = p)
  BY WorkerMoved
<1>3. \A x \in Reminders : x # r => rows'[x] = rows[x] /\ mails'[x] = mails[x] /\ faults'[x] = faults[x]
  BY <1>1 DEF WorkerStep, Hit, TInv, TypeOK
<1>4. /\ bookings' = bookings /\ mails[r] \in Nat /\ mails'[r] \in Nat
      /\ faults'[r] = 0 => faults[r] = 0 /\ ~Hit({r})
  BY <1>1 DEF WorkerStep, Hit, tables, TInv, TypeOK
<1>5. \A q \in Instances : Busy(q) /\ workers[q].r = r /\ faults[r] = 0 => q = p
  BY <1>1 DEF SentInv
<1>6. \A q \in Instances :
        workers'[q].pc # "free" /\ faults'[workers'[q].r] = 0 => jobs'[workers'[q].r].owner = q
  <2> SUFFICES ASSUME NEW q \in Instances, workers'[q].pc # "free", faults'[workers'[q].r] = 0
               PROVE  jobs'[workers'[q].r].owner = q
    OBVIOUS
  <2>1. CASE q = p
    BY <1>1, <1>2, <1>4, <2>1 DEF SentInv
  <2>2. CASE q # p
    <3>1. workers'[q] = workers[q] /\ Busy(q) /\ workers[q].r \in Reminders
      BY <1>2, <2>2 DEF Busy, TInv, WorkersOK
    <3>2. workers[q].r # r
      BY <1>4, <1>5, <2>2, <3>1
    <3>q. QED
      BY <1>2, <1>3, <3>1, <3>2 DEF SentInv
  <2>q. QED
    BY <2>1, <2>2
<1>7. faults[r] = 0 /\ ~Moved(r) /\ ~Marker(p) /\ rows[r] # "sent" => mails[r] = 0
  BY <1>1, <1>4, <1>5 DEF SentInv, Marker, Busy
<1>8. \A q \in Instances : Unsent(q)' /\ faults'[workers'[q].r] = 0 /\ ~Moved(workers'[q].r)
        => mails'[workers'[q].r] = 0
  <2> SUFFICES ASSUME NEW q \in Instances, Unsent(q)', faults'[workers'[q].r] = 0,
                      ~Moved(workers'[q].r)
               PROVE  mails'[workers'[q].r] = 0
    OBVIOUS
  <2>1. CASE q = p
    <3>1. workers'[p].r = r /\ faults[r] = 0 /\ ~Hit({r}) /\ ~Marker(p)'
      BY <1>2, <1>4, <2>1 DEF Unsent
    <3>2. mails[r] = 0
      BY <1>1, <1>7, <2>1, <3>1 DEF SentInv, Unsent, Marker
    <3>q. QED
      BY <2>1, <3>1, <3>2
  <2>2. CASE q # p
    <3>1. workers'[q] = workers[q] /\ Busy(q) /\ Unsent(q) /\ workers[q].r \in Reminders
      BY <1>2, <2>2 DEF Unsent, Marker, Busy, TInv, WorkersOK
    <3>2. workers[q].r # r
      BY <1>4, <1>5, <2>2, <3>1
    <3>q. QED
      BY <1>3, <3>1, <3>2 DEF SentInv
  <2>q. QED
    BY <2>1, <2>2
<1>9. \A x \in Reminders : mails'[x] > 0 => bookings[BookingOf[x]] # "none"
  BY <1>1, <1>3 DEF SentInv
<1>10. ASSUME NEW x \in Reminders, faults'[x] = 0, mails'[x] > 0, ~Moved(x)
       PROVE  rows'[x] = "sent" \/ \E q \in Instances : workers'[q].r = x /\ Marker(q)'
  <2>1. CASE x = r
    <3>1. CASE mails' # mails
      BY <1>2, <1>4, <1>10, <2>1, <3>1 DEF Marker
    <3>2. CASE mails' = mails
      <4>1. faults[r] = 0 /\ ~Moved(r) /\ mails[r] # 0 /\ ~Hit({r})
        BY <1>4, <1>10, <2>1, <3>2
      <4>2. ~Unsent(p)
        BY <1>1, <4>1 DEF SentInv
      <4>q. QED
        BY <1>7, <2>1, <4>1, <4>2
    <3>q. QED
      BY <3>1, <3>2
  <2>2. CASE x # r
    <3>1. rows[x] = "sent" \/ \E q \in Instances : workers[q].r = x /\ Marker(q)
      BY <1>3, <1>10, <2>2 DEF SentInv
    <3>2. \A q \in Instances : workers[q].r = x => workers'[q] = workers[q]
      BY <1>2, <2>2
    <3>q. QED
      BY <1>3, <2>2, <3>1, <3>2 DEF Marker
  <2>q. QED
    BY <2>1, <2>2
<1>q. QED
  BY <1>4, <1>6, <1>8, <1>9, <1>10 DEF SentInv, Busy, Moved

LEMMA SentStep ==
  ASSUME TInv, SentInv, [Next]_vars
  PROVE  SentInv'
<1> DEFINE G == SentInv'
<1> USE RemindersAssumption
    DEF TInv, TypeOK, WorkersOK, JobsOK, RowsOK, SentInv, Busy, Marker, Unsent, Moved, tables,
        process, counts
<1>1. ASSUME NEW p \in Instances, NEW b \in Bookings, CreateBooking(p, b) PROVE G
  BY <1>1 DEF CreateBooking, Rounds, Of, Serving
<1>2. ASSUME NEW b \in Bookings, EndQuietly(b) PROVE G
  BY <1>2 DEF EndQuietly, End
<1>3. ASSUME NEW p \in Instances, NEW b \in Bookings, EndAndCancel(p, b) PROVE G
  <2>1. PICK st \in {"cancelled", "moved"} : End(b, st)
    BY <1>3 DEF EndAndCancel
  <2>q. QED
    BY <1>3, <2>1 DEF EndAndCancel, End
<1>4. ASSUME NEW b \in Bookings, Unsubscribe(b) PROVE G
  BY <1>4 DEF Unsubscribe
<1>5. ASSUME NEW e \in enqueues, FindRow(e) PROVE G
  BY <1>5 DEF FindRow, Scheduled
<1>6. ASSUME NEW e \in enqueues, AddJob(e) PROVE G
  BY <1>6 DEF AddJob, Added, NewJob, NoJob
<1>7. ASSUME NEW e \in enqueues, EnqueueFails(e) PROVE G
  BY <1>7 DEF EnqueueFails, Fault, Hit
<1>8. ASSUME NEW p \in Instances, Reconcile(p) PROVE G
  BY <1>8 DEF Reconcile, Rounds, Reconcilable, Scheduled
<1>9. ASSUME NEW c \in cancels, ReadRows(c) PROVE G
  BY <1>9 DEF ReadRows
<1>10. ASSUME NEW c \in cancels, NEW r \in c.left, RemoveJob(c, r) PROVE G
  BY <1>10 DEF RemoveJob, NoJob
<1>11. ASSUME NEW c \in cancels, CancelRows(c) PROVE G
  BY <1>11 DEF CancelRows, Cancellable, Unsettled, Of
<1>12. ASSUME NEW c \in cancels, CancelFails(c) PROVE G
  BY <1>12 DEF CancelFails
<1>13. ASSUME NEW p \in Instances, NEW r \in Reminders, Take(p, r) PROVE G
  BY <1>13 DEF Take, At, Free
<1>14. ASSUME NEW p \in Instances, Claim(p) PROVE G
  <2>1. WorkerStep(p) /\ ~Marker(p) /\ mails' = mails /\ workers[p].pc = "claim"
    BY <1>14, ClaimSteps DEF Claim, At
  <2>2. Unsent(p)' => rows[workers[p].r] # "sent"
    BY <1>14, ClaimSteps
  <2>3. rows[workers[p].r] = "sent" => rows'[workers[p].r] = "sent"
    BY <1>14, ClaimSteps
  <2>4. SentInv'
    BY <2>1, <2>2, <2>3, WorkerStepKeepsSent
  <2>q. QED
    BY <2>4
<1>15. ASSUME NEW p \in Instances, Check(p) PROVE G
  BY <1>15, CheckSteps, WorkerStepKeepsSent DEF Check, At, NothingElse
<1>16. ASSUME NEW p \in Instances, Load(p) PROVE G
  BY <1>16, LoadSteps, WorkerStepKeepsSent DEF Load, At, NothingElse
<1>17. ASSUME NEW p \in Instances, LoadBooking(p) PROVE G
  BY <1>17, LoadBookingSteps, WorkerStepKeepsSent DEF LoadBooking, At, NothingElse
<1>18. ASSUME NEW p \in Instances, Send(p) PROVE G
  BY <1>18, SendSteps, WorkerStepKeepsSent DEF Send, At, NothingElse
<1>19. ASSUME NEW p \in Instances, Mark(p) PROVE G
  <2>1. WorkerStep(p) /\ mails' = mails /\ workers'[p].pc = "free" /\ workers[p].pc = "mark"
    BY <1>19, MarkSteps DEF Mark, At
  <2>2. Marker(p) => rows'[workers[p].r] = "sent"
    <3>1. workers[p].r \in Reminders
      BY <2>1
    <3>q. QED
      BY <1>19, <3>1, MarkSteps
  <2>q. QED
    BY <2>1, <2>2, WorkerStepKeepsSent
<1>20. ASSUME NEW p \in Instances, WorkerFails(p) PROVE G
  BY <1>20, WorkerFailsSteps, WorkerStepKeepsSent DEF WorkerFails, At, NothingElse
<1>21. ASSUME NEW r \in Reminders, Promote(r) PROVE G
  BY <1>21 DEF Promote
<1>22. ASSUME NEW r \in Reminders, LoseLock(r) PROVE G
  BY <1>22 DEF LoseLock, Fault, Hit
<1>23. ASSUME NEW r \in Reminders, Redeliver(r) PROVE G
  BY <1>23 DEF Redeliver
<1>24. ASSUME NEW r \in Reminders, Expire(r) PROVE G
  BY <1>24 DEF Expire, NoJob
<1>25. ASSUME NEW p \in Instances, Crash(p) PROVE G
  BY <1>25 DEF Crash, Hit, Free
<1>26. ASSUME NEW p \in Instances, Restart(p) PROVE G
  BY <1>26 DEF Restart
<1>27. ASSUME Tick PROVE G
  BY <1>27 DEF Tick
<1>28. CASE UNCHANGED vars
  BY <1>28 DEF vars
<1>q. QED
  BY <1>1, <1>2, <1>3, <1>4, <1>5, <1>6, <1>7, <1>8, <1>9, <1>10, <1>11, <1>12, <1>13, <1>14,
     <1>15, <1>16, <1>17, <1>18, <1>19, <1>20, <1>21, <1>22, <1>23, <1>24, <1>25, <1>26, <1>27, <1>28
     DEF Next, Endpoint, Trouble, Worker, Manager

------------------------------------------------------------------------------
(* How often a mail can be sent. *)

Open(status) == status \in {"none", "scheduled", "sending"}

\* The workers that may still have a mail of r accepted, and whether a job without owner may
\* bring another one.
Threads(r) ==
  {p \in Instances :
     /\ workers[p].r = r
     /\ workers[p].pc \in {"booking", "send"} \/ (Open(rows[r]) /\ Busy(p) /\ ~Marker(p))}
Unowned(r) == IF Open(rows[r]) /\ jobs[r].owner = None THEN 1 ELSE 0

\* The mails sent and those that may still follow exceed one only by the faults.
CountInv == \A r \in Reminders : mails[r] + Cardinality(Threads(r)) + Unowned(r) <= 1 + faults[r]

LEMMA ThreadsCounted ==
  \A r : /\ IsFiniteSet(Threads(r)) /\ Cardinality(Threads(r)) \in Nat
         /\ Unowned(r) \in {0, 1}
<1> TAKE r
<1>1. Threads(r) \subseteq Instances
  BY DEF Threads
<1>q. QED
  BY <1>1, RemindersAssumption, FS_Subset, FS_CardinalityType DEF Unowned

LEMMA ThreadsCountedNext ==
  \A r : /\ IsFiniteSet(Threads(r)') /\ Cardinality(Threads(r)') \in Nat
         /\ Unowned(r)' \in {0, 1}
<1> TAKE r
<1>1. Threads(r)' \subseteq Instances
  BY DEF Threads
<1>q. QED
  BY <1>1, RemindersAssumption, FS_Subset, FS_CardinalityType DEF Unowned

\* Where no thread begins and no job loses its owner, the count stays.
LEMMA NoNewThread ==
  ASSUME TInv, TInv', CountInv, mails' = mails,
         \A r \in Reminders : /\ Threads(r)' \subseteq Threads(r) /\ Unowned(r)' <= Unowned(r)
                              /\ faults'[r] >= faults[r]
  PROVE  CountInv'
<1> SUFFICES ASSUME NEW r \in Reminders
             PROVE  mails'[r] + Cardinality(Threads(r)') + Unowned(r)' <= 1 + faults'[r]
  BY DEF CountInv
<1>1. Cardinality(Threads(r)') <= Cardinality(Threads(r))
  BY ThreadsCounted, FS_Subset
<1>2. /\ mails[r] \in Nat /\ faults[r] \in Nat /\ faults'[r] \in Nat
      /\ Cardinality(Threads(r)') \in Nat /\ Cardinality(Threads(r)) \in Nat
      /\ Unowned(r) \in Nat /\ Unowned(r)' \in Nat
  BY ThreadsCounted, ThreadsCountedNext DEF TInv, TypeOK
<1>q. QED
  BY <1>1, <1>2 DEF CountInv

\* Rows that keep or lose their openness and jobs that keep their owners: no new thread.
LEMMA SameThreads ==
  ASSUME TInv, TInv', CountInv, UNCHANGED <<workers, mails>>,
         \A r \in Reminders : /\ Open(rows'[r]) => Open(rows[r])
                              /\ jobs'[r].owner = jobs[r].owner
                              /\ faults'[r] >= faults[r]
  PROVE  CountInv'
<1>1. \A r \in Reminders : Threads(r)' \subseteq Threads(r) /\ Unowned(r)' <= Unowned(r)
  BY DEF Threads, Unowned, Busy, Marker
<1>q. QED
  BY <1>1, NoNewThread

LEMMA WorkerStepKeepsCount ==
  ASSUME TInv, TInv', CountInv, NEW p \in Instances, NEW r \in Reminders, r = workers[p].r,
         WorkerStep(p),
         Open(rows'[r]) => Open(rows[r]),
         workers'[p].pc \in {"booking", "send"} => p \in Threads(r),
         \/ mails' = mails
         \/ /\ Marker(p)' \/ Hit({r})
            /\ p \in Threads(r) /\ mails' = [mails EXCEPT ![r] = @ + 1],
         Marker(p) => workers'[p].pc = "free" /\ (Open(rows'[r]) => Hit({r}))
  PROVE  CountInv'
<1>1. Busy(p) /\ p # None
  BY RemindersAssumption DEF WorkerStep
<1>2. /\ \A q \in Instances : q # p => workers'[q] = workers[q]
      /\ workers'[p].pc # "free" => workers'[p].r = r /\ jobs' = jobs
      /\ \A x \in Reminders : jobs'[x] = jobs[x] \/ x = r
  BY WorkerMoved
<1>3. \A x \in Reminders : x # r => rows'[x] = rows[x] /\ mails'[x] = mails[x] /\ faults'[x] = faults[x]
  BY DEF WorkerStep, Hit, TInv, TypeOK
<1>4. /\ faults'[r] >= faults[r] /\ faults'[r] \in Nat /\ faults[r] \in Nat
      /\ Hit({r}) => faults'[r] = faults[r] + 1
      /\ mails[r] \in Nat
      /\ mails'[r] = mails[r] \/ mails'[r] = mails[r] + 1
  BY DEF WorkerStep, Hit, TInv, TypeOK
<1>5. ASSUME NEW x \in Reminders, x # r
      PROVE  mails'[x] + Cardinality(Threads(x)') + Unowned(x)' <= 1 + faults'[x]
  <2>1. Threads(x)' = Threads(x)
    BY <1>2, <1>3, <1>5 DEF Threads, Busy, Marker
  <2>2. Unowned(x)' = Unowned(x)
    BY <1>2, <1>3, <1>5 DEF Unowned
  <2>q. QED
    BY <1>3, <1>5, <2>1, <2>2 DEF CountInv
<1>6. /\ mails[r] + Cardinality(Threads(r)) + Unowned(r) <= 1 + faults[r]
      /\ Cardinality(Threads(r)) \in Nat /\ Unowned(r) \in {0, 1}
      /\ Cardinality(Threads(r)') \in Nat /\ Unowned(r)' \in {0, 1}
      /\ IsFiniteSet(Threads(r))
  BY ThreadsCounted, ThreadsCountedNext DEF CountInv
<1>7. p \in Threads(r)' => p \in Threads(r) /\ workers'[p].pc # "free" /\ ~Marker(p)'
  BY <1>1, <1>2 DEF Threads, Busy, Marker
<1>8. Threads(r)' \subseteq Threads(r)
  BY <1>2, <1>7 DEF Threads, Busy, Marker
<1>9. Cardinality(Threads(r)') <= Cardinality(Threads(r))
  BY <1>6, <1>8, FS_Subset
<1>10. p \in Threads(r) /\ p \notin Threads(r)' =>
         Cardinality(Threads(r)') <= Cardinality(Threads(r)) - 1
  <2> SUFFICES ASSUME p \in Threads(r), p \notin Threads(r)'
               PROVE  Cardinality(Threads(r)') <= Cardinality(Threads(r)) - 1
    OBVIOUS
  <2>1. Cardinality(Threads(r) \ {p}) = Cardinality(Threads(r)) - 1 /\ IsFiniteSet(Threads(r) \ {p})
    BY <1>6, FS_RemoveElement
  <2>2. Threads(r)' \subseteq Threads(r) \ {p}
    BY <1>8
  <2>q. QED
    BY <2>1, <2>2, FS_Subset
<1>11. mails'[r] + Cardinality(Threads(r)') + Unowned(r)' <= 1 + faults'[r]
  <2>1. CASE workers'[p].pc # "free"
    <3>1. Unowned(r)' <= Unowned(r)
      BY <1>2, <2>1 DEF Unowned
    <3>2. mails'[r] = mails[r] \/ Hit({r}) \/ Cardinality(Threads(r)') <= Cardinality(Threads(r)) - 1
      BY <1>7, <1>10
    <3>q. QED
      BY <1>4, <1>6, <1>9, <3>1, <3>2
  <2>2. CASE workers'[p].pc = "free"
    <3>1. p \notin Threads(r)' /\ ~Marker(p)'
      BY <1>7, <2>2 DEF Marker
    <3>2. mails'[r] = mails[r] \/ (Hit({r}) /\ p \in Threads(r))
      BY <3>1
    <3>3. CASE ~Open(rows'[r])
      BY <1>4, <1>6, <1>9, <3>2, <3>3 DEF Unowned
    <3>4. CASE Open(rows'[r])
      <4>1. p \in Threads(r) \/ (Hit({r}) /\ mails' = mails)
        BY <1>1, <3>4 DEF Threads
      <4>q. QED
        BY <1>4, <1>6, <1>9, <1>10, <3>1, <3>2, <4>1
    <3>q. QED
      BY <3>3, <3>4
  <2>q. QED
    BY <2>1, <2>2
<1>q. QED
  BY <1>5, <1>11 DEF CountInv

\* A worker that takes a job over is a new thread, and the job is no longer without owner.
LEMMA TakeKeepsCount ==
  ASSUME TInv, TInv', CountInv, NEW p \in Instances, NEW r \in Reminders, Take(p, r)
  PROVE  CountInv'
<1>1. /\ workers' = [workers EXCEPT ![p] = [Free EXCEPT !.pc = "claim", !.r = r]]
      /\ UNCHANGED <<rows, mails, faults>> /\ workers[p].pc = "free" /\ jobs[r].state = "waiting"
  BY DEF Take, At, counts
<1>2. /\ \A q \in Instances : q # p => workers'[q] = workers[q]
      /\ workers'[p].pc = "claim" /\ workers'[p].r = r
  BY <1>1 DEF Free, TInv, TypeOK
<1>3. /\ \A x \in Reminders : x # r => jobs'[x] = jobs[x]
      /\ jobs'[r].owner = p /\ jobs[r].owner = None /\ p # None
  BY <1>1, RemindersAssumption DEF Take, TInv, TypeOK, JobsOK
<1> SUFFICES ASSUME NEW x \in Reminders
             PROVE  mails'[x] + Cardinality(Threads(x)') + Unowned(x)' <= 1 + faults'[x]
  BY DEF CountInv
<1>4. /\ mails[x] + Cardinality(Threads(x)) + Unowned(x) <= 1 + faults[x]
      /\ Cardinality(Threads(x)) \in Nat /\ Unowned(x) \in {0, 1} /\ IsFiniteSet(Threads(x))
      /\ Cardinality(Threads(x)') \in Nat /\ Unowned(x)' \in {0, 1}
      /\ mails[x] \in Nat /\ faults[x] \in Nat
  BY ThreadsCounted, ThreadsCountedNext DEF CountInv, TInv, TypeOK
<1>5. CASE x # r \/ ~Open(rows[r])
  <2>1. Threads(x)' \subseteq Threads(x)
    BY <1>1, <1>2, <1>5 DEF Threads, Busy, Marker
  <2>2. Unowned(x)' = Unowned(x)
    BY <1>1, <1>3, <1>5 DEF Unowned
  <2>3. Cardinality(Threads(x)') <= Cardinality(Threads(x))
    BY <1>4, <2>1, FS_Subset
  <2>q. QED
    BY <1>1, <1>4, <2>2, <2>3
<1>6. CASE x = r /\ Open(rows[r])
  <2>1. Threads(x)' \subseteq Threads(x) \cup {p}
    BY <1>1, <1>2 DEF Threads, Busy, Marker
  <2>2. /\ IsFiniteSet(Threads(x) \cup {p})
        /\ Cardinality(Threads(x) \cup {p}) \in {Cardinality(Threads(x)), Cardinality(Threads(x)) + 1}
    BY <1>4, FS_AddElement
  <2>3. Cardinality(Threads(x)') <= Cardinality(Threads(x)) + 1
    BY <1>4, <2>1, <2>2, FS_Subset
  <2>4. Unowned(x)' = 0 /\ Unowned(x) = 1
    BY <1>1, <1>3, <1>6 DEF Unowned
  <2>q. QED
    BY <1>1, <1>4, <2>3, <2>4
<1>q. QED
  BY <1>5, <1>6

\* Losing a lock, and a crash, leave a job without owner and are faults.
LEMMA DisownKeepsCount ==
  ASSUME TInv, TInv', CountInv, UNCHANGED <<rows, mails>>,
         \A q \in Instances : workers'[q] = workers[q] \/ workers'[q].pc = "free",
         \A r \in Reminders : /\ jobs'[r].owner = jobs[r].owner \/ faults'[r] = faults[r] + 1
                              /\ faults'[r] >= faults[r]
  PROVE  CountInv'
<1> SUFFICES ASSUME NEW r \in Reminders
             PROVE  mails'[r] + Cardinality(Threads(r)') + Unowned(r)' <= 1 + faults'[r]
  BY DEF CountInv
<1>1. /\ mails[r] + Cardinality(Threads(r)) + Unowned(r) <= 1 + faults[r]
      /\ Cardinality(Threads(r)) \in Nat /\ Unowned(r) \in {0, 1} /\ IsFiniteSet(Threads(r))
      /\ Cardinality(Threads(r)') \in Nat /\ Unowned(r)' \in {0, 1}
      /\ mails[r] \in Nat /\ faults[r] \in Nat /\ faults'[r] \in Nat
  BY ThreadsCounted, ThreadsCountedNext DEF CountInv, TInv, TypeOK
<1>2. Threads(r)' \subseteq Threads(r)
  BY DEF Threads, Busy, Marker
<1>3. Cardinality(Threads(r)') <= Cardinality(Threads(r))
  BY <1>1, <1>2, FS_Subset
<1>4. Unowned(r)' = Unowned(r) \/ faults'[r] = faults[r] + 1
  BY DEF Unowned, Hit
<1>q. QED
  BY <1>1, <1>3, <1>4

LEMMA CountStep ==
  ASSUME TInv, CountInv, [Next]_vars
  PROVE  CountInv'
<1> DEFINE G == CountInv'
<1>t. TInv'
  BY TInvStep
<1> USE RemindersAssumption DEF tables, process, counts
<1>1. ASSUME NEW p \in Instances, NEW b \in Bookings, CreateBooking(p, b) PROVE G
  <2>1. /\ UNCHANGED <<workers, mails>>
        /\ \A x \in Reminders : /\ Open(rows'[x]) => Open(rows[x])
                             /\ jobs'[x].owner = jobs[x].owner
                             /\ faults'[x] >= faults[x]
    BY <1>1 DEF CreateBooking, Rounds, Of, Serving, TInv, TypeOK, JobsOK, RowsOK, CancelsOK, Open
  <2>q. QED
    BY <1>t, <2>1, SameThreads
<1>2. ASSUME NEW b \in Bookings, EndQuietly(b) PROVE G
  <2>1. /\ UNCHANGED <<workers, mails>>
        /\ \A x \in Reminders : /\ Open(rows'[x]) => Open(rows[x])
                             /\ jobs'[x].owner = jobs[x].owner
                             /\ faults'[x] >= faults[x]
    BY <1>2 DEF EndQuietly, End, TInv, TypeOK, JobsOK, RowsOK, CancelsOK, Open
  <2>q. QED
    BY <1>t, <2>1, SameThreads
<1>3. ASSUME NEW p \in Instances, NEW b \in Bookings, EndAndCancel(p, b) PROVE G
  <2>1. /\ UNCHANGED <<workers, mails>>
        /\ \A x \in Reminders : /\ Open(rows'[x]) => Open(rows[x])
                             /\ jobs'[x].owner = jobs[x].owner
                             /\ faults'[x] >= faults[x]
    BY <1>3 DEF EndAndCancel, End, Serving, TInv, TypeOK, JobsOK, RowsOK, CancelsOK, Open
  <2>q. QED
    BY <1>t, <2>1, SameThreads
<1>4. ASSUME NEW b \in Bookings, Unsubscribe(b) PROVE G
  <2>1. /\ UNCHANGED <<workers, mails>>
        /\ \A x \in Reminders : /\ Open(rows'[x]) => Open(rows[x])
                             /\ jobs'[x].owner = jobs[x].owner
                             /\ faults'[x] >= faults[x]
    BY <1>4 DEF Unsubscribe, TInv, TypeOK, JobsOK, RowsOK, CancelsOK, Open
  <2>q. QED
    BY <1>t, <2>1, SameThreads
<1>5. ASSUME NEW e \in enqueues, FindRow(e) PROVE G
  <2>1. /\ UNCHANGED <<workers, mails>>
        /\ \A x \in Reminders : /\ Open(rows'[x]) => Open(rows[x])
                             /\ jobs'[x].owner = jobs[x].owner
                             /\ faults'[x] >= faults[x]
    BY <1>5 DEF FindRow, Scheduled, TInv, TypeOK, JobsOK, RowsOK, CancelsOK, Open
  <2>q. QED
    BY <1>t, <2>1, SameThreads
<1>6. ASSUME NEW e \in enqueues, AddJob(e) PROVE G
  <2>1. /\ UNCHANGED <<workers, mails>>
        /\ \A x \in Reminders : /\ Open(rows'[x]) => Open(rows[x])
                             /\ jobs'[x].owner = jobs[x].owner
                             /\ faults'[x] >= faults[x]
    BY <1>6 DEF AddJob, Added, NewJob, NoJob, TInv, TypeOK, JobsOK, RowsOK, CancelsOK, Open
  <2>q. QED
    BY <1>t, <2>1, SameThreads
<1>7. ASSUME NEW e \in enqueues, EnqueueFails(e) PROVE G
  <2>1. /\ UNCHANGED <<workers, mails>>
        /\ \A x \in Reminders : /\ Open(rows'[x]) => Open(rows[x])
                             /\ jobs'[x].owner = jobs[x].owner
                             /\ faults'[x] >= faults[x]
    BY <1>7 DEF EnqueueFails, Fault, Hit, TInv, TypeOK, JobsOK, RowsOK, CancelsOK, Open
  <2>q. QED
    BY <1>t, <2>1, SameThreads
<1>8. ASSUME NEW p \in Instances, Reconcile(p) PROVE G
  <2>1. /\ UNCHANGED <<workers, mails>>
        /\ \A x \in Reminders : /\ Open(rows'[x]) => Open(rows[x])
                             /\ jobs'[x].owner = jobs[x].owner
                             /\ faults'[x] >= faults[x]
    BY <1>8 DEF Reconcile, Rounds, Reconcilable, Scheduled, TInv, TypeOK, JobsOK, RowsOK,
       CancelsOK, Open
  <2>q. QED
    BY <1>t, <2>1, SameThreads
<1>9. ASSUME NEW c \in cancels, ReadRows(c) PROVE G
  <2>1. /\ UNCHANGED <<workers, mails>>
        /\ \A x \in Reminders : /\ Open(rows'[x]) => Open(rows[x])
                             /\ jobs'[x].owner = jobs[x].owner
                             /\ faults'[x] >= faults[x]
    BY <1>9 DEF ReadRows, TInv, TypeOK, JobsOK, RowsOK, CancelsOK, Open
  <2>q. QED
    BY <1>t, <2>1, SameThreads
<1>10. ASSUME NEW c \in cancels, NEW r \in c.left, RemoveJob(c, r) PROVE G
  <2>1. /\ UNCHANGED <<workers, mails>>
        /\ \A x \in Reminders : /\ Open(rows'[x]) => Open(rows[x])
                             /\ jobs'[x].owner = jobs[x].owner
                             /\ faults'[x] >= faults[x]
    BY <1>10 DEF RemoveJob, NoJob, TInv, TypeOK, JobsOK, RowsOK, CancelsOK, Open
  <2>q. QED
    BY <1>t, <2>1, SameThreads
<1>11. ASSUME NEW c \in cancels, CancelRows(c) PROVE G
  <2>1. /\ UNCHANGED <<workers, mails>>
        /\ \A x \in Reminders : /\ Open(rows'[x]) => Open(rows[x])
                             /\ jobs'[x].owner = jobs[x].owner
                             /\ faults'[x] >= faults[x]
    BY <1>11 DEF CancelRows, Cancellable, Unsettled, Of, TInv, TypeOK, JobsOK, RowsOK, CancelsOK, Open
  <2>q. QED
    BY <1>t, <2>1, SameThreads
<1>12. ASSUME NEW c \in cancels, CancelFails(c) PROVE G
  <2>1. /\ UNCHANGED <<workers, mails>>
        /\ \A x \in Reminders : /\ Open(rows'[x]) => Open(rows[x])
                             /\ jobs'[x].owner = jobs[x].owner
                             /\ faults'[x] >= faults[x]
    BY <1>12 DEF CancelFails, TInv, TypeOK, JobsOK, RowsOK, CancelsOK, Open
  <2>q. QED
    BY <1>t, <2>1, SameThreads
<1>13. ASSUME NEW p \in Instances, NEW r \in Reminders, Take(p, r) PROVE G
  BY <1>13, <1>t, TakeKeepsCount
<1>14. ASSUME NEW p \in Instances, Claim(p) PROVE G
  <2>1. PICK r \in Reminders : r = workers[p].r
    BY <1>14 DEF Claim, At, TInv, WorkersOK, Busy
  <2>2. WorkerStep(p) /\ (Open(rows'[r]) => Open(rows[r]))
    BY <1>14, <2>1, ClaimSteps DEF TInv, TypeOK, NothingElse, Open
  <2>3. workers'[p].pc \in {"booking", "send"} => p \in Threads(r)
    BY <1>14, <2>1, ClaimSteps DEF Claim, At, Threads, Busy, Marker, Open
  <2>4. \/ mails' = mails
        \/ /\ Marker(p)' \/ Hit({r})
           /\ p \in Threads(r) /\ mails' = [mails EXCEPT ![r] = @ + 1]
    BY <1>14, <2>1, ClaimSteps DEF Claim, At, NothingElse, Threads, Marker
  <2>5. Marker(p) => workers'[p].pc = "free" /\ (Open(rows'[r]) => Hit({r}))
    BY <1>14, <2>1, ClaimSteps DEF Claim, At, NothingElse, Marker, Open, TInv, TypeOK
  <2>q. QED
    BY <1>t, <2>1, <2>2, <2>3, <2>4, <2>5, WorkerStepKeepsCount
<1>15. ASSUME NEW p \in Instances, Check(p) PROVE G
  <2>1. PICK r \in Reminders : r = workers[p].r
    BY <1>15 DEF Check, At, TInv, WorkersOK, Busy
  <2>2. WorkerStep(p) /\ (Open(rows'[r]) => Open(rows[r]))
    BY <1>15, <2>1, CheckSteps DEF TInv, TypeOK, NothingElse, Open
  <2>3. workers'[p].pc \in {"booking", "send"} => p \in Threads(r)
    BY <1>15, <2>1, CheckSteps DEF Check, At, Threads, Busy, Marker, Open
  <2>4. \/ mails' = mails
        \/ /\ Marker(p)' \/ Hit({r})
           /\ p \in Threads(r) /\ mails' = [mails EXCEPT ![r] = @ + 1]
    BY <1>15, <2>1, CheckSteps DEF Check, At, NothingElse, Threads, Marker
  <2>5. Marker(p) => workers'[p].pc = "free" /\ (Open(rows'[r]) => Hit({r}))
    BY <1>15, <2>1, CheckSteps DEF Check, At, NothingElse, Marker, Open, TInv, TypeOK
  <2>q. QED
    BY <1>t, <2>1, <2>2, <2>3, <2>4, <2>5, WorkerStepKeepsCount
<1>16. ASSUME NEW p \in Instances, Load(p) PROVE G
  <2>1. PICK r \in Reminders : r = workers[p].r
    BY <1>16 DEF Load, At, TInv, WorkersOK, Busy
  <2>2. WorkerStep(p) /\ (Open(rows'[r]) => Open(rows[r]))
    BY <1>16, <2>1, LoadSteps DEF TInv, TypeOK, NothingElse, Open
  <2>3. workers'[p].pc \in {"booking", "send"} => p \in Threads(r)
    BY <1>16, <2>1, LoadSteps DEF Load, At, Threads, Busy, Marker, Open
  <2>4. \/ mails' = mails
        \/ /\ Marker(p)' \/ Hit({r})
           /\ p \in Threads(r) /\ mails' = [mails EXCEPT ![r] = @ + 1]
    BY <1>16, <2>1, LoadSteps DEF Load, At, NothingElse, Threads, Marker
  <2>5. Marker(p) => workers'[p].pc = "free" /\ (Open(rows'[r]) => Hit({r}))
    BY <1>16, <2>1, LoadSteps DEF Load, At, NothingElse, Marker, Open, TInv, TypeOK
  <2>q. QED
    BY <1>t, <2>1, <2>2, <2>3, <2>4, <2>5, WorkerStepKeepsCount
<1>17. ASSUME NEW p \in Instances, LoadBooking(p) PROVE G
  <2>1. PICK r \in Reminders : r = workers[p].r
    BY <1>17 DEF LoadBooking, At, TInv, WorkersOK, Busy
  <2>2. WorkerStep(p) /\ (Open(rows'[r]) => Open(rows[r]))
    BY <1>17, <2>1, LoadBookingSteps DEF TInv, TypeOK, NothingElse, Open
  <2>3. workers'[p].pc \in {"booking", "send"} => p \in Threads(r)
    BY <1>17, <2>1, LoadBookingSteps DEF LoadBooking, At, Threads, Busy, Marker, Open
  <2>4. \/ mails' = mails
        \/ /\ Marker(p)' \/ Hit({r})
           /\ p \in Threads(r) /\ mails' = [mails EXCEPT ![r] = @ + 1]
    BY <1>17, <2>1, LoadBookingSteps DEF LoadBooking, At, NothingElse, Threads, Marker
  <2>5. Marker(p) => workers'[p].pc = "free" /\ (Open(rows'[r]) => Hit({r}))
    BY <1>17, <2>1, LoadBookingSteps DEF LoadBooking, At, NothingElse, Marker, Open, TInv, TypeOK
  <2>q. QED
    BY <1>t, <2>1, <2>2, <2>3, <2>4, <2>5, WorkerStepKeepsCount
<1>18. ASSUME NEW p \in Instances, Send(p) PROVE G
  <2>1. PICK r \in Reminders : r = workers[p].r
    BY <1>18 DEF Send, At, TInv, WorkersOK, Busy
  <2>2. WorkerStep(p) /\ (Open(rows'[r]) => Open(rows[r]))
    BY <1>18, <2>1, SendSteps DEF TInv, TypeOK, NothingElse, Open
  <2>3. workers'[p].pc \in {"booking", "send"} => p \in Threads(r)
    BY <1>18, <2>1, SendSteps DEF Send, At, Threads, Busy, Marker, Open
  <2>4. \/ mails' = mails
        \/ /\ Marker(p)' \/ Hit({r})
           /\ p \in Threads(r) /\ mails' = [mails EXCEPT ![r] = @ + 1]
    BY <1>18, <2>1, SendSteps DEF Send, At, NothingElse, Threads, Marker
  <2>5. Marker(p) => workers'[p].pc = "free" /\ (Open(rows'[r]) => Hit({r}))
    BY <1>18, <2>1, SendSteps DEF Send, At, NothingElse, Marker, Open, TInv, TypeOK
  <2>q. QED
    BY <1>t, <2>1, <2>2, <2>3, <2>4, <2>5, WorkerStepKeepsCount
<1>19. ASSUME NEW p \in Instances, Mark(p) PROVE G
  <2>1. PICK r \in Reminders : r = workers[p].r
    BY <1>19 DEF Mark, At, TInv, WorkersOK, Busy
  <2>2. WorkerStep(p) /\ (Open(rows'[r]) => Open(rows[r]))
    BY <1>19, <2>1, MarkSteps DEF TInv, TypeOK, NothingElse, Open
  <2>3. workers'[p].pc \in {"booking", "send"} => p \in Threads(r)
    BY <1>19, <2>1, MarkSteps DEF Mark, At, Threads, Busy, Marker, Open
  <2>4. \/ mails' = mails
        \/ /\ Marker(p)' \/ Hit({r})
           /\ p \in Threads(r) /\ mails' = [mails EXCEPT ![r] = @ + 1]
    BY <1>19, <2>1, MarkSteps DEF Mark, At, NothingElse, Threads, Marker
  <2>5. Marker(p) => workers'[p].pc = "free" /\ (Open(rows'[r]) => Hit({r}))
    BY <1>19, <2>1, MarkSteps DEF Mark, At, NothingElse, Marker, Open, TInv, TypeOK
  <2>q. QED
    BY <1>t, <2>1, <2>2, <2>3, <2>4, <2>5, WorkerStepKeepsCount
<1>20. ASSUME NEW p \in Instances, WorkerFails(p) PROVE G
  <2>1. PICK r \in Reminders : r = workers[p].r
    BY <1>20 DEF WorkerFails, At, TInv, WorkersOK, Busy
  <2>2. WorkerStep(p) /\ (Open(rows'[r]) => Open(rows[r]))
    BY <1>20, <2>1, WorkerFailsSteps DEF TInv, TypeOK, NothingElse, Open
  <2>3. workers'[p].pc \in {"booking", "send"} => p \in Threads(r)
    BY <1>20, <2>1, WorkerFailsSteps DEF WorkerFails, At, Threads, Busy, Marker, Open
  <2>4. \/ mails' = mails
        \/ /\ Marker(p)' \/ Hit({r})
           /\ p \in Threads(r) /\ mails' = [mails EXCEPT ![r] = @ + 1]
    BY <1>20, <2>1, WorkerFailsSteps DEF WorkerFails, At, NothingElse, Threads, Marker
  <2>5. Marker(p) => workers'[p].pc = "free" /\ (Open(rows'[r]) => Hit({r}))
    BY <1>20, <2>1, WorkerFailsSteps DEF WorkerFails, At, NothingElse, Marker, Open, TInv, TypeOK
  <2>q. QED
    BY <1>t, <2>1, <2>2, <2>3, <2>4, <2>5, WorkerStepKeepsCount
<1>21. ASSUME NEW r \in Reminders, Promote(r) PROVE G
  <2>1. /\ UNCHANGED <<workers, mails>>
        /\ \A x \in Reminders : /\ Open(rows'[x]) => Open(rows[x])
                             /\ jobs'[x].owner = jobs[x].owner
                             /\ faults'[x] >= faults[x]
    BY <1>21 DEF Promote, TInv, TypeOK, JobsOK, RowsOK, CancelsOK, Open
  <2>q. QED
    BY <1>t, <2>1, SameThreads
<1>22. ASSUME NEW r \in Reminders, LoseLock(r) PROVE G
  <2>1. \A q \in Instances : workers'[q] = workers[q] \/ workers'[q].pc = "free"
    BY <1>22 DEF LoseLock, Free, TInv, TypeOK
  <2>2. \A x \in Reminders : /\ jobs'[x].owner = jobs[x].owner \/ faults'[x] = faults[x] + 1
                            /\ faults'[x] >= faults[x]
    BY <1>22 DEF LoseLock, Fault, Hit, TInv, TypeOK, JobsOK
  <2>q. QED
    BY <1>22, <1>t, <2>1, <2>2, DisownKeepsCount DEF LoseLock
<1>23. ASSUME NEW r \in Reminders, Redeliver(r) PROVE G
  <2>1. /\ UNCHANGED <<workers, mails>>
        /\ \A x \in Reminders : /\ Open(rows'[x]) => Open(rows[x])
                             /\ jobs'[x].owner = jobs[x].owner
                             /\ faults'[x] >= faults[x]
    BY <1>23 DEF Redeliver, TInv, TypeOK, JobsOK, RowsOK, CancelsOK, Open
  <2>q. QED
    BY <1>t, <2>1, SameThreads
<1>24. ASSUME NEW r \in Reminders, Expire(r) PROVE G
  <2>1. /\ UNCHANGED <<workers, mails>>
        /\ \A x \in Reminders : /\ Open(rows'[x]) => Open(rows[x])
                             /\ jobs'[x].owner = jobs[x].owner
                             /\ faults'[x] >= faults[x]
    BY <1>24 DEF Expire, NoJob, TInv, TypeOK, JobsOK, RowsOK, CancelsOK, Open
  <2>q. QED
    BY <1>t, <2>1, SameThreads
<1>25. ASSUME NEW p \in Instances, Crash(p) PROVE G
  <2>1. \A q \in Instances : workers'[q] = workers[q] \/ workers'[q].pc = "free"
    BY <1>25 DEF Crash, Free, TInv, TypeOK
  <2>2. \A x \in Reminders : /\ jobs'[x].owner = jobs[x].owner \/ faults'[x] = faults[x] + 1
                            /\ faults'[x] >= faults[x]
    BY <1>25 DEF Crash, Fault, Hit, TInv, TypeOK, JobsOK
  <2>q. QED
    BY <1>25, <1>t, <2>1, <2>2, DisownKeepsCount DEF Crash
<1>26. ASSUME NEW p \in Instances, Restart(p) PROVE G
  <2>1. /\ UNCHANGED <<workers, mails>>
        /\ \A x \in Reminders : /\ Open(rows'[x]) => Open(rows[x])
                             /\ jobs'[x].owner = jobs[x].owner
                             /\ faults'[x] >= faults[x]
    BY <1>26 DEF Restart, TInv, TypeOK, JobsOK, RowsOK, CancelsOK, Open
  <2>q. QED
    BY <1>t, <2>1, SameThreads
<1>27. ASSUME Tick PROVE G
  <2>1. /\ UNCHANGED <<workers, mails>>
        /\ \A x \in Reminders : /\ Open(rows'[x]) => Open(rows[x])
                             /\ jobs'[x].owner = jobs[x].owner
                             /\ faults'[x] >= faults[x]
    BY <1>27 DEF Tick, TInv, TypeOK, JobsOK, RowsOK, CancelsOK, Open
  <2>q. QED
    BY <1>t, <2>1, SameThreads
<1>28. CASE UNCHANGED vars
  BY <1>28, <1>t, SameThreads DEF vars, TInv, TypeOK
<1>q. QED
  BY <1>1, <1>2, <1>3, <1>4, <1>5, <1>6, <1>7, <1>8, <1>9, <1>10, <1>11, <1>12, <1>13, <1>14,
     <1>15, <1>16, <1>17, <1>18, <1>19, <1>20, <1>21, <1>22, <1>23, <1>24, <1>25, <1>26, <1>27, <1>28
     DEF Next, Endpoint, Trouble, Worker, Manager

------------------------------------------------------------------------------
(* The theorems. *)

RemindersInv ==
  /\ TInv /\ DueInv /\ EndedEarlyIsNotMailed
  /\ KeeperInv /\ ScheduledHasKeeper
  /\ SentInv /\ CountInv

LEMMA RemindersInitially ==
  ASSUME Init
  PROVE  RemindersInv
<1>1. jobs = [r \in Reminders |-> NoJob] /\ NoJob \in Job /\ NoJob.state = "none" /\ NoJob.owner = None
  BY RemindersAssumption DEF Init, NoJob, Job
<1>2. /\ workers = [p \in Instances |-> Free] /\ Free \in WorkerState
      /\ Free.pc = "free" /\ Free.r = None
  BY DEF Init, Free, WorkerState
<1>3. TypeOK
  BY <1>1, <1>2, RemindersAssumption DEF Init, TypeOK, RowStatus, Job, WorkerState
<1>4. WorkersOK /\ JobsOK /\ CancelsOK /\ RowsOK
  BY <1>1, <1>2, RemindersAssumption
     DEF Init, WorkersOK, JobsOK, CancelsOK, RowsOK, Busy, Alive
<1>5. DueInv /\ EndedEarlyIsNotMailed
  BY <1>1, <1>2, RemindersAssumption DEF Init, DueInv, EndedEarlyIsNotMailed, Busy
<1>6. KeeperInv /\ ScheduledHasKeeper
  BY <1>1, <1>2 DEF Init, KeeperInv, ScheduledHasKeeper, Scheduled
<1>7. SentInv
  BY <1>1, <1>2 DEF Init, SentInv, Busy, Unsent
<1>8. CountInv
  <2> SUFFICES ASSUME NEW r \in Reminders
               PROVE  mails[r] + Cardinality(Threads(r)) + Unowned(r) <= 1 + faults[r]
    BY DEF CountInv
  <2>1. Threads(r) = {}
    BY <1>2, RemindersAssumption DEF Threads
  <2>2. Cardinality(Threads(r)) = 0
    BY <2>1, FS_EmptySet
  <2>3. mails[r] = 0 /\ faults[r] = 0 /\ Unowned(r) \in {0, 1}
    BY ThreadsCounted DEF Init
  <2>q. QED
    BY <2>2, <2>3
<1>q. QED
  BY <1>3, <1>4, <1>5, <1>6, <1>7, <1>8 DEF RemindersInv, TInv

LEMMA RemindersStep ==
  ASSUME RemindersInv, [Next]_vars
  PROVE  RemindersInv'
BY TInvStep, DueStep, KeeperStep, SentStep, CountStep DEF RemindersInv

LEMMA RemindersInvariant == Spec => []RemindersInv
BY RemindersInitially, RemindersStep, PTL DEF Spec

\* Rows only have statuses that the CHECK of reminder_jobs lists, jobs no more attempts than
\* configured, and no instance that is down takes part: for any number of instances, bookings,
\* reminders, faults and crashes.
THEOREM RemindersTypeCorrect == Spec => []TypeOK
<1>1. RemindersInv => TypeOK
  BY DEF RemindersInv, TInv
<1>q. QED
  BY <1>1, RemindersInvariant, PTL

\* However many instances process, reconcile and retry a reminder, it is mailed once, and once
\* more for each fault at most (reminder.worker.ts, process).
THEOREM RemindersMailsWithinFaults == Spec => []MailsWithinFaults
<1>1. RemindersInv => MailsWithinFaults
  <2> SUFFICES ASSUME RemindersInv, NEW r \in Reminders
               PROVE  mails[r] <= 1 + faults[r]
    BY DEF MailsWithinFaults
  <2>1. mails[r] + Cardinality(Threads(r)) + Unowned(r) <= 1 + faults[r]
    BY DEF RemindersInv, CountInv
  <2>2. Cardinality(Threads(r)) \in Nat /\ Unowned(r) \in {0, 1}
    BY ThreadsCounted
  <2>3. mails[r] \in Nat /\ faults[r] \in Nat
    BY DEF RemindersInv, TInv, TypeOK
  <2>q. QED
    BY <2>1, <2>2, <2>3
<1>q. QED
  BY <1>1, RemindersInvariant, PTL

\* A booking that ended before fire_at of a reminder is never mailed about, whichever endpoint
\* ended it and whatever it left in the queue (reminder.worker.ts, processReminder).
THEOREM RemindersEndedEarlyIsNotMailed == Spec => []EndedEarlyIsNotMailed
<1>1. RemindersInv => EndedEarlyIsNotMailed
  BY DEF RemindersInv
<1>q. QED
  BY <1>1, RemindersInvariant, PTL

\* Every scheduled row of a booked reminder has a job, a round of enqueueForBooking, an instance
\* that will reconcile or one that will be restarted, or a failed enqueue behind it
\* (reminder.queue.ts, enqueueForBooking and reconcileScheduledReminders).
THEOREM RemindersScheduledHasKeeper == Spec => []ScheduledHasKeeper
<1>1. RemindersInv => ScheduledHasKeeper
  BY DEF RemindersInv
<1>q. QED
  BY <1>1, RemindersInvariant, PTL

\* Without faults a job that is completed leaves the row of a mailed reminder in sent: neither
\* cancelForBooking nor another worker overwrites it (reminder.worker.ts, markSent).
THEOREM RemindersSentIsRecorded == Spec => []SentIsRecorded
<1>1. RemindersInv => SentIsRecorded
  <2> SUFFICES ASSUME RemindersInv, NEW r \in Reminders, jobs[r].state = "done", mails[r] > 0,
                      faults[r] = 0, ~Moved(r)
               PROVE  rows[r] = "sent"
    BY DEF SentIsRecorded, Moved
  <2>1. jobs[r].owner = None
    BY DEF RemindersInv, TInv, JobsOK
  <2>2. rows[r] = "sent" \/ \E p \in Instances : workers[p].r = r /\ Marker(p)
    BY DEF RemindersInv, SentInv
  <2>3. ASSUME NEW p \in Instances, workers[p].r = r, Marker(p)
        PROVE  FALSE
    <3>1. jobs[r].owner = p /\ p # None
      BY <2>3, RemindersAssumption DEF RemindersInv, SentInv, Busy, Marker
    <3>q. QED
      BY <2>1, <3>1
  <2>q. QED
    BY <2>2, <2>3
<1>q. QED
  BY <1>1, RemindersInvariant, PTL
=============================================================================
