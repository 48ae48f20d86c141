----------------------- MODULE SlotMaterializerProofs -----------------------
(***************************************************************************)
(* For every set of zones, rules and concurrent calls: the service's slots *)
(* never overlap and start in working hours, the provider is never booked  *)
(* twice for a minute, and a call that returned has left nothing out.      *)
(***************************************************************************)
EXTENDS SlotMaterializer, TLAPS

IsZone(z) ==
  /\ z.offset \in Int /\ z.at \in Int /\ z.shift \in Int
  /\ z.shift <= 60
  /\ z.shift > 0 => (z.at % Day) + 2 * z.shift <= Day

LEMMA ZonesAreZones == ASSUME NEW z \in Zones PROVE IsZone(z)
  BY ZonesAssumption DEF IsZone

LEMMA RulesAreRules ==
  ASSUME NEW r \in Rules
  PROVE  r.open \in Int /\ 0 <= r.open /\ r.close \in Int /\ r.close <= 1440
  BY RulesAssumption DEF Day

LEMMA DayOf ==
  ASSUME NEW a \in Int
  PROVE  \E q \in Int : a = q * 1440 + (a % 1440) /\ a % 1440 \in 0 .. 1439
<1>1. a \div 1440 \in Int /\ a = 1440 * (a \div 1440) + (a % 1440) /\ a % 1440 \in 0 .. 1439
  OBVIOUS
<1> QED  BY <1>1

LEMMA ResolveIsInt ==
  ASSUME NEW z, IsZone(z), NEW m \in Int
  PROVE  Resolve(z, m) \in Int
  BY DEF Resolve, IsZone

(***************************************************************************)
(* Temporal's `compatible` disambiguation, which resolveWallClock asks for:*)
(* a local minute the zone's clocks show is read as the first instant that *)
(* shows it, and one they skip as the instant that shows it `shift` later. *)
(***************************************************************************)
THEOREM ResolveIsCompatible ==
  ASSUME NEW z, IsZone(z), NEW m \in Int
  PROVE  /\ (\E u \in Int : LocalOf(z, u) = m) =>
               /\ LocalOf(z, Resolve(z, m)) = m
               /\ \A u \in Int : LocalOf(z, u) = m => Resolve(z, m) <= u
         /\ ~(\E u \in Int : LocalOf(z, u) = m) =>
               LocalOf(z, Resolve(z, m)) = m + z.shift
<1>1. ASSUME NEW u \in Int, LocalOf(z, u) = m
      PROVE  LocalOf(z, Resolve(z, m)) = m /\ Resolve(z, m) <= u
  BY <1>1 DEF LocalOf, Resolve, IsZone
<1>2. ASSUME ~(\E u \in Int : LocalOf(z, u) = m)
      PROVE  LocalOf(z, Resolve(z, m)) = m + z.shift
  <2>1. m - z.offset \in Int /\ LocalOf(z, m - z.offset) # m
    BY <1>2 DEF IsZone
  <2>2. m - z.offset - z.shift \in Int /\ LocalOf(z, m - z.offset - z.shift) # m
    BY <1>2 DEF IsZone
  <2> QED  BY <2>1, <2>2 DEF LocalOf, Resolve, IsZone
<1> QED  BY <1>1, <1>2

\* A local minute at least one shift later is an instant no earlier.
LEMMA ResolveAdvances ==
  ASSUME NEW z, IsZone(z), NEW m \in Int, NEW n \in Int, m + z.shift <= n, m <= n
  PROVE  Resolve(z, m) <= Resolve(z, n)
  BY DEF Resolve, IsZone

\* A skip ends one shift before midnight, so the minutes before a midnight e
\* are instants no later than the minutes after it.
LEMMA ResolveAdvancesOvernight ==
  ASSUME NEW z, IsZone(z), NEW e \in Int,
         NEW m \in Int, m < e * 1440, NEW n \in Int, e * 1440 <= n
  PROVE  Resolve(z, m) <= Resolve(z, n)
<1>1. CASE z.shift <= 0
  BY <1>1, ResolveAdvances DEF IsZone
<1>2. CASE z.shift > 0
  <2>1. PICK at \in Int, shift \in Int : at = z.at /\ shift = z.shift
    BY DEF IsZone
  <2>2. shift > 0 /\ (at % 1440) + 2 * shift <= 1440
    BY <1>2, <2>1 DEF IsZone, Day
  <2>3. CASE m < at + shift /\ n >= at + shift
    <3>1. PICK q \in Int : at = q * 1440 + (at % 1440) /\ at % 1440 \in 0 .. 1439
      BY DayOf
    <3>2. CASE q < e
      <4>1. (q + 1) * 1440 <= e * 1440
        BY <3>2
      <4>2. at + 2 * shift <= (q + 1) * 1440
        BY <3>1, <2>2
      <4>3. m + shift <= n
        BY <4>1, <4>2, <2>3
      <4> QED  BY <4>3, <2>1, <2>2, ResolveAdvances
    <3>3. CASE q >= e
      <4>1. e * 1440 <= q * 1440 /\ q * 1440 <= at
        BY <3>1, <3>3
      <4>2. m + shift <= n
        BY <4>1, <2>3
      <4> QED  BY <4>2, <2>1, <2>2, ResolveAdvances
    <3> QED  BY <3>2, <3>3
  <2>4. CASE ~(m < at + shift /\ n >= at + shift)
    BY <2>4, <2>1, <2>2 DEF Resolve, IsZone
  <2> QED  BY <2>3, <2>4
<1> QED  BY <1>1, <1>2 DEF IsZone

(***************************************************************************)
(* The slots of one window.                                                *)
(***************************************************************************)
LEMMA MultipleOfSixty ==
  ASSUME NEW a \in Int, NEW b \in Int, (a - b) % 60 = 0
  PROVE  \E i \in Int : a - b = 60 * i
<1>1. (a - b) \div 60 \in Int /\ a - b = 60 * ((a - b) \div 60) + ((a - b) % 60)
  OBVIOUS
<1> QED  BY <1>1

\* Slots of different days, in the order of the days.
LEMMA DaysDoNotOverlap ==
  ASSUME NEW z, IsZone(z), NEW d \in Int, NEW e \in Int, d < e,
         NEW l \in Int, 0 <= l, l + 60 <= 1440, NEW k \in Int, 0 <= k, k + 60 <= 1440
  PROVE  ~Overlap(SlotAt(z, 60, d, l), SlotAt(z, 60, e, k))
<1>1. PICK i \in Int : i = IF l + 60 = 1440 THEN 1380 ELSE l + 60
  OBVIOUS
<1>2. 0 <= i /\ i <= 1439
  BY <1>1
<1>3. PICK m \in Int, n \in Int : m = d * 1440 + i /\ n = e * 1440 + k
  OBVIOUS
<1>4. Resolve(z, m) <= Resolve(z, n)
  <2>1. m < e * 1440 /\ e * 1440 <= n
    BY <1>2, <1>3
  <2> QED  BY <2>1, ResolveAdvancesOvernight
<1>5. Resolve(z, m) \in Int /\ Resolve(z, n) \in Int
  BY ResolveIsInt
<1>6. SlotAt(z, 60, d, l).end = Resolve(z, m)
  <2>1. d * 1440 + ClockMinute(l + 60) = m
    BY <1>1, <1>3 DEF ClockMinute, Day
  <2> QED  BY <2>1 DEF SlotAt, Instant, Day
<1>7. SlotAt(z, 60, e, k).start = Resolve(z, n)
  <2>1. e * 1440 + ClockMinute(k) = n
    BY <1>3 DEF ClockMinute, Day
  <2> QED  BY <2>1 DEF SlotAt, Instant, Day
<1> QED  BY <1>4, <1>5, <1>6, <1>7 DEF Overlap

\* Slots of one window, in the order of the local clock.
LEMMA WindowDoesNotOverlap ==
  ASSUME NEW z, IsZone(z), NEW d \in Int, NEW open \in Int,
         NEW l \in Int, 0 <= l, l + 60 <= 1440, NEW k \in Int, 0 <= k, k + 60 <= 1440,
         (l - open) % 60 = 0, (k - open) % 60 = 0, l < k
  PROVE  ~Overlap(SlotAt(z, 60, d, l), SlotAt(z, 60, d, k))
<1>1. l + 60 <= k /\ (l + 60 = k \/ l + 120 <= k)
  <2>1. PICK i \in Int : l - open = 60 * i
    BY MultipleOfSixty
  <2>2. PICK j \in Int : k - open = 60 * j
    BY MultipleOfSixty
  <2>3. i < j
    BY <2>1, <2>2
  <2>4. i + 1 = j \/ i + 2 <= j
    BY <2>3
  <2> QED  BY <2>1, <2>2, <2>4
<1>2. PICK x \in 0 .. 1439 : x = l + 60
  BY <1>1
<1>3. d * 1440 + ClockMinute(l + 60) = d * 1440 + x /\ d * 1440 + ClockMinute(k) = d * 1440 + k
  BY <1>1, <1>2 DEF ClockMinute, Day
<1>4. PICK m \in Int, n \in Int : m = d * 1440 + x /\ n = d * 1440 + k
  OBVIOUS
<1>5. Resolve(z, m) \in Int /\ Resolve(z, n) \in Int
  BY ResolveIsInt
<1>6. Resolve(z, m) <= Resolve(z, n)
  <2>1. CASE m = n
    BY <2>1, <1>5
  <2>2. CASE m + 60 <= n
    <3>1. m + z.shift <= n /\ m <= n
      BY <2>2 DEF IsZone
    <3> QED  BY <3>1, ResolveAdvances
  <2>3. m = n \/ m + 60 <= n
    BY <1>1, <1>2, <1>4
  <2> QED  BY <2>1, <2>2, <2>3
<1>7. SlotAt(z, 60, d, l).end = Resolve(z, m)
  BY <1>2, <1>3, <1>4 DEF SlotAt, Instant, Day
<1>8. SlotAt(z, 60, d, k).start = Resolve(z, n)
  BY <1>3, <1>4 DEF SlotAt, Instant, Day
<1> QED  BY <1>5, <1>6, <1>7, <1>8 DEF Overlap

(***************************************************************************)
(* The state.                                                              *)
(***************************************************************************)
LEMMA WantedSlots ==
  ASSUME NEW z, IsZone(z), NEW from \in Int, NEW s \in Wanted(z, from)
  PROVE  s.start \in Int /\ s.end \in Int /\ s.start < s.end
<1>1. PICK x \in GenerateSlots(z, 30, 1 .. 7, Open, Close, from, from + Ahead) : s = Span(x)
  BY DEF Wanted, Spans
<1>2. PICK d \in Int, l \in Int : x = SlotAt(z, 30, d, l) /\ x.start < x.end
  BY <1>1, HorizonAssumption DEF GenerateSlots, SlotMinutes
<1>3. d * Day + ClockMinute(l) \in Int /\ d * Day + ClockMinute(l + 30) \in Int
  BY DEF ClockMinute, Day
<1>4. x.start \in Int /\ x.end \in Int
  BY <1>2, <1>3, ResolveIsInt DEF SlotAt, Instant
<1> QED  BY <1>1, <1>2, <1>4 DEF Span

LEMMA InitTypeOK == ASSUME Init PROVE TypeOK
  BY HorizonAssumption DEF Init, TypeOK, Idle, Spans

LEMMA NextTypeOK == ASSUME TypeOK, [Next]_vars PROVE TypeOK'
<1> USE DEF TypeOK
<1>1. ASSUME NEW r \in Runs, Call(r) PROVE TypeOK'
  <2>1. IsZone(zone) /\ today \in Int
    BY ZonesAreZones
  <2>2. Spans(Wanted(zone, today)) \subseteq [start : Int, end : Int]
    BY <2>1, WantedSlots DEF Spans, Span
  <2> QED  BY <1>1, <2>2 DEF Call
<1>2. ASSUME NEW r \in Runs, InsertNext(r) PROVE TypeOK'
  <2>1. PICK s \in runs[r].todo : /\ slots' = Stored(s)
                                 /\ runs' = [runs EXCEPT ![r].todo = @ \ {s}]
    BY <1>2 DEF InsertNext
  <2>2. Span(s) \in [start : Int, end : Int]
    BY DEF Spans
  <2>3. Fresh(s) \in Rows
    BY <2>2 DEF Span, Fresh, Rows
  <2>4. slots' \subseteq Rows
    BY <2>1, <2>3 DEF Stored
  <2>5. ASSUME NEW q \in Runs PROVE Spans(runs'[q].todo) \subseteq [start : Int, end : Int]
    BY <2>1 DEF Spans
  <2> QED  BY <1>2, <2>1, <2>4, <2>5 DEF InsertNext
<1>3. ASSUME NEW r \in Runs, Return(r) \/ Crash(r) PROVE TypeOK'
  BY <1>3 DEF Return, Crash, Idle, Spans
<1>4. ASSUME NEW s \in slots, Book(s) \/ Reopen(s) PROVE TypeOK'
  <2>1. [s EXCEPT !.status = "booked"] \in Rows /\ [s EXCEPT !.status = "open"] \in Rows
    BY DEF Rows
  <2> QED  BY <1>4, <2>1 DEF Book, Reopen
<1>5. ASSUME NEW z \in Zones, UpdateTimezone(z) PROVE TypeOK'
  BY <1>5 DEF UpdateTimezone
<1>6. CASE Materialize
  BY <1>6 DEF Materialize
<1>7. CASE NextDay
  BY <1>7 DEF NextDay
<1>8. CASE UNCHANGED vars
  BY <1>8 DEF vars
<1> QED  BY <1>1, <1>2, <1>3, <1>4, <1>5, <1>6, <1>7, <1>8 DEF Next

\* The table, the calls and the clock keep their shape.
THEOREM TypeCorrect == Spec => []TypeOK
<1> QED  BY InitTypeOK, NextTypeOK, PTL DEF Spec

(***************************************************************************)
(* The exclusion constraint is re-established by every INSERT, and bookings*)
(* do not move rows: whatever calls overlap, a provider has one slot at a  *)
(* time.                                                                   *)
(***************************************************************************)
RowsApart == \A s, t \in slots : Overlap(s, t) => s = t

LEMMA NextRowsApart == ASSUME RowsApart, [Next]_vars PROVE RowsApart'
<1> USE DEF RowsApart
<1>1. ASSUME NEW r \in Runs, InsertNext(r) PROVE RowsApart'
  <2>1. PICK s : slots' = Stored(s)
    BY <1>1 DEF InsertNext
  <2> QED  BY <2>1 DEF Stored, Admits, NoOverlap, Overlap, Fresh
<1>2. ASSUME NEW s \in slots, NEW new,
             slots' = (slots \ {s}) \cup {new}, new.start = s.start, new.end = s.end
      PROVE  RowsApart'
  BY <1>2 DEF Overlap
<1>3. ASSUME NEW s \in slots, Book(s) \/ Reopen(s) PROVE RowsApart'
  <2>1. PICK st : slots' = (slots \ {s}) \cup {[s EXCEPT !.status = st]}
    BY <1>3 DEF Book, Reopen
  <2>2. PICK new : new = [s EXCEPT !.status = st] OBVIOUS
  <2>3. new.start = s.start /\ new.end = s.end
    BY <2>2
  <2> QED  BY <2>1, <2>2, <2>3, <1>2
<1>4. CASE slots' = slots
  BY <1>4
<1> QED  BY <1>1, <1>3, <1>4 DEF Next, vars, Call, Return, Crash, UpdateTimezone, Materialize, NextDay

\* A provider is never booked twice for the same minute.
THEOREM NeverDoubleBooked == Spec => []ProviderIsNotDoubleBooked
<1>1. Init => RowsApart
  BY DEF Init, RowsApart
<1>2. RowsApart => ProviderIsNotDoubleBooked
  BY DEF RowsApart, ProviderIsNotDoubleBooked
<1> QED  BY <1>1, <1>2, NextRowsApart, PTL DEF Spec

\* A call of materializeProvider never moves, removes or reopens a slot.
THEOREM RerunsKeepSlots == Spec => RerunKeepsSlots
<1>1. ASSUME [Next]_vars PROVE [runs' # runs => slots \subseteq slots']_vars
  BY <1>1 DEF Next, vars, Call, InsertNext, Stored, Return, Crash, Book, Reopen,
              UpdateTimezone, Materialize, NextDay
<1> QED  BY <1>1, PTL DEF Spec, RerunKeepsSlots

(***************************************************************************)
(* A call that returned has left nothing out: what it no longer has to do  *)
(* is covered by some row, and no step uncovers a time.                    *)
(***************************************************************************)
Covered(s) == \E t \in slots : Overlap(s, t)

CallsProgress ==
  \A r \in Runs : runs[r] # Idle =>
     /\ IsZone(runs[r].zone) /\ runs[r].from \in Int
     /\ runs[r].todo \subseteq Wanted(runs[r].zone, runs[r].from)
     /\ \A s \in Wanted(runs[r].zone, runs[r].from) \ runs[r].todo : Covered(s)

ReturnsComplete == \A f \in finished : \A s \in Wanted(f.zone, f.from) : Covered(s)

RowsNotEmpty == \A t \in slots : t.start < t.end

CompleteInv == TypeOK /\ CallsProgress /\ ReturnsComplete /\ RowsNotEmpty

LEMMA NextKeepsCovered ==
  ASSUME TypeOK, [Next]_vars, NEW s, Covered(s) PROVE Covered(s)'
<1>1. CASE slots \subseteq slots'
  BY <1>1 DEF Covered
<1>2. ASSUME NEW t \in slots, Book(t) \/ Reopen(t) PROVE Covered(s)'
  <2>1. PICK st : slots' = (slots \ {t}) \cup {[t EXCEPT !.status = st]}
    BY <1>2 DEF Book, Reopen
  <2>2. PICK new : new = [t EXCEPT !.status = st] OBVIOUS
  <2>3. new.start = t.start /\ new.end = t.end
    BY <2>2 DEF TypeOK, Rows
  <2> QED  BY <2>1, <2>2, <2>3 DEF Covered, Overlap
<1> QED  BY <1>1, <1>2 DEF Next, vars, Call, InsertNext, Stored, Return, Crash,
                           UpdateTimezone, Materialize, NextDay

LEMMA StoredCovers ==
  ASSUME RowsNotEmpty, TypeOK, NEW s, slots' = Stored(s),
         s.start \in Int, s.end \in Int, s.start < s.end
  PROVE  Covered(s)' /\ RowsNotEmpty'
<1>1. CASE Admits(s)
  <2>1. Fresh(s) \in slots' /\ Overlap(s, Fresh(s))
    BY <1>1 DEF Stored, Fresh, Overlap
  <2> QED  BY <1>1, <2>1 DEF Stored, Covered, RowsNotEmpty, Fresh
<1>2. CASE ~UniqueStart(s)
  <2>1. PICK t \in slots : t.start = s.start
    BY <1>2 DEF UniqueStart
  <2>2. t.start \in Int /\ t.end \in Int /\ t.start < t.end
    BY DEF RowsNotEmpty, TypeOK, Rows
  <2> QED  BY <1>2, <2>1, <2>2 DEF Stored, Admits, Covered, Overlap, RowsNotEmpty
<1>3. CASE ~NoOverlap(s)
  BY <1>3 DEF NoOverlap, Stored, Admits, Covered, RowsNotEmpty
<1> QED  BY <1>1, <1>2, <1>3 DEF Admits

LEMMA NextComplete == ASSUME CompleteInv, [Next]_vars PROVE CompleteInv'
<1> USE DEF CompleteInv
<1>1. TypeOK'
  BY NextTypeOK
<1>2. ASSUME NEW s, Covered(s) PROVE Covered(s)'
  BY <1>2, NextKeepsCovered
<1>3. ASSUME NEW r \in Runs, Call(r) PROVE CompleteInv'
  <2>1. IsZone(zone) /\ today \in Int /\ DOMAIN runs = Runs
    BY ZonesAreZones DEF TypeOK
  <2>2. CallsProgress'
    BY <1>2, <1>3, <2>1 DEF Call, CallsProgress, Wanted
  <2> QED  BY <1>1, <1>2, <1>3, <2>2 DEF Call, ReturnsComplete, RowsNotEmpty, Wanted
<1>4. ASSUME NEW r \in Runs, InsertNext(r) PROVE CompleteInv'
  <2>1. PICK s \in runs[r].todo : /\ slots' = Stored(s)
                                 /\ runs' = [runs EXCEPT ![r].todo = @ \ {s}]
    BY <1>4 DEF InsertNext
  <2>2. runs[r] # Idle /\ DOMAIN runs = Runs
    BY DEF Idle, TypeOK
  <2>3. s.start \in Int /\ s.end \in Int /\ s.start < s.end
    BY <2>2, WantedSlots DEF CallsProgress
  <2>4. Covered(s)' /\ RowsNotEmpty'
    BY <2>1, <2>3, StoredCovers
  <2>5. CallsProgress'
    BY <1>2, <2>1, <2>2, <2>4 DEF CallsProgress, Wanted
  <2>6. ReturnsComplete'
    BY <1>2, <1>4 DEF InsertNext, ReturnsComplete, Wanted
  <2> QED  BY <1>1, <2>4, <2>5, <2>6
<1>5. ASSUME NEW r \in Runs, Return(r) PROVE CompleteInv'
  <2>1. CallsProgress'
    BY <1>2, <1>5 DEF Return, CallsProgress, TypeOK, Wanted
  <2>2. ReturnsComplete'
    BY <1>2, <1>5 DEF Return, CallsProgress, ReturnsComplete, Wanted
  <2> QED  BY <1>1, <1>5, <2>1, <2>2 DEF Return, RowsNotEmpty
<1>6. ASSUME NEW r \in Runs, Crash(r) PROVE CompleteInv'
  BY <1>1, <1>2, <1>6 DEF Crash, CallsProgress, TypeOK, ReturnsComplete, RowsNotEmpty, Wanted
<1>7. ASSUME NEW s \in slots, Book(s) \/ Reopen(s) PROVE CompleteInv'
  <2>1. PICK st : slots' = (slots \ {s}) \cup {[s EXCEPT !.status = st]}
    BY <1>7 DEF Book, Reopen
  <2>2. PICK new : new = [s EXCEPT !.status = st] OBVIOUS
  <2>3. new.start = s.start /\ new.end = s.end
    BY <2>2 DEF TypeOK, Rows
  <2>4. RowsNotEmpty'
    BY <2>1, <2>2, <2>3 DEF RowsNotEmpty
  <2> QED  BY <1>1, <1>2, <1>7, <2>4 DEF Book, Reopen, CallsProgress, ReturnsComplete, Wanted
<1>8. CASE UNCHANGED <<slots, runs, finished>>
  BY <1>1, <1>2, <1>8 DEF CallsProgress, ReturnsComplete, RowsNotEmpty, Wanted
<1> QED  BY <1>3, <1>4, <1>5, <1>6, <1>7, <1>8
         DEF Next, vars, UpdateTimezone, Materialize, NextDay

\* Crashes of other calls, conflicts in the middle of the list, bookings and
\* moves to another zone do not make a call that returned miss a slot.
THEOREM ReturnedCallsAreComplete == Spec => []ReturnedCallIsComplete
<1>1. Init => CompleteInv
  BY InitTypeOK DEF Init, CompleteInv, CallsProgress, ReturnsComplete, RowsNotEmpty
<1>2. CompleteInv => ReturnedCallIsComplete
  BY DEF CompleteInv, ReturnsComplete, Covered, ReturnedCallIsComplete
<1> QED  BY <1>1, <1>2, NextComplete, PTL DEF Spec

(***************************************************************************)
(* The service's batch: one window per weekday (ByDow), cut day by day.    *)
(***************************************************************************)
LEMMA BatchSlot ==
  ASSUME TypeOK, NEW windows \in SUBSET Rules, NEW s \in Batch(windows)
  PROVE  \E r \in windows, d \in Int, l \in Int :
            /\ Weekday(d) = r.dow /\ r.open <= l /\ l + 60 <= r.close
            /\ (l - r.open) % 60 = 0
            /\ s = SlotAt(zone, 60, d, l) /\ s.start < s.end
<1>1. PICK r \in windows :
        s \in GenerateSlots(zone, 60, {r.dow}, r.open, r.close, today, today + Horizon)
  BY DEF Batch, defaultSlotMinutes
<1>2. r.open \in Int /\ r.close \in Int /\ today \in Int /\ today + Horizon \in Int
  BY RulesAreRules, HorizonAssumption DEF TypeOK
<1>3. PICK d \in today .. (today + Horizon), l \in r.open .. r.close :
            /\ Weekday(d) = r.dow /\ l + 60 <= r.close /\ (l - r.open) % 60 = 0
            /\ s = SlotAt(zone, 60, d, l) /\ s.start < s.end
  BY <1>1 DEF GenerateSlots, SlotMinutes
<1>4. d \in Int /\ l \in Int /\ r.open <= l
  BY <1>2, <1>3
<1> QED  BY <1>3, <1>4

LEMMA BatchApart ==
  ASSUME TypeOK, NEW windows \in SUBSET Rules, ByDow(windows),
         NEW s \in Batch(windows), NEW t \in Batch(windows), s # t
  PROVE  ~Overlap(s, t)
<1>1. PICK r \in windows, d \in Int, l \in Int :
            /\ Weekday(d) = r.dow /\ r.open <= l /\ l + 60 <= r.close
            /\ (l - r.open) % 60 = 0 /\ s = SlotAt(zone, 60, d, l)
  BY BatchSlot
<1>2. PICK q \in windows, e \in Int, k \in Int :
            /\ Weekday(e) = q.dow /\ q.open <= k /\ k + 60 <= q.close
            /\ (k - q.open) % 60 = 0 /\ t = SlotAt(zone, 60, e, k)
  BY BatchSlot
<1>3. IsZone(zone)
  BY ZonesAreZones DEF TypeOK
<1>4. /\ r.open \in Int /\ 0 <= r.open /\ r.close \in Int /\ r.close <= 1440
      /\ q.open \in Int /\ 0 <= q.open /\ q.close \in Int /\ q.close <= 1440
  BY RulesAreRules
<1>5. 0 <= l /\ l + 60 <= 1440 /\ 0 <= k /\ k + 60 <= 1440
  BY <1>1, <1>2, <1>4
<1>6. CASE d < e
  BY <1>1, <1>2, <1>3, <1>5, <1>6, DaysDoNotOverlap
<1>7. CASE e < d
  <2>1. ~Overlap(t, s)
    BY <1>1, <1>2, <1>3, <1>5, <1>7, DaysDoNotOverlap
  <2> QED  BY <2>1 DEF Overlap
<1>8. CASE d = e
  <2>1. r = q
    BY <1>1, <1>2, <1>8 DEF ByDow
  <2>2. PICK open \in Int : open = r.open
    BY <1>4
  <2>3. (l - open) % 60 = 0 /\ (k - open) % 60 = 0
    BY <1>1, <1>2, <2>1, <2>2
  <2>4. CASE l < k
    BY <1>1, <1>2, <1>3, <1>5, <1>8, <2>3, <2>4, WindowDoesNotOverlap
  <2>5. CASE k < l
    <3>1. ~Overlap(t, s)
      BY <1>1, <1>2, <1>3, <1>5, <1>8, <2>3, <2>5, WindowDoesNotOverlap
    <3> QED  BY <3>1 DEF Overlap
  <2>6. l # k
    BY <1>1, <1>2, <1>8
  <2> QED  BY <2>4, <2>5, <2>6, <1>1, <1>2
<1> QED  BY <1>6, <1>7, <1>8

\* The slots the service generates never overlap, across the change of the
\* clocks and across days: a window is cut in whole hours, and no zone skips more.
THEOREM BatchesHaveNoOverlap == Spec => []BatchHasNoOverlap
<1>1. Init => BatchHasNoOverlap
  BY DEF Init, NoAnswer, BatchHasNoOverlap
<1>2. ASSUME TypeOK, BatchHasNoOverlap, [Next]_vars PROVE BatchHasNoOverlap'
  <2>1. CASE Materialize
    <3>1. PICK windows \in SUBSET Rules :
            ByDow(windows) /\ answer' = [zone |-> zone, batch |-> Batch(windows)]
      BY <2>1 DEF Materialize
    <3>2. answer'.batch = Batch(windows)
      BY <3>1
    <3> QED  BY <1>2, <3>1, <3>2, BatchApart DEF BatchHasNoOverlap
  <2>2. CASE answer' = answer
    BY <1>2, <2>2 DEF BatchHasNoOverlap
  <2> QED  BY <1>2, <2>1, <2>2
           DEF Next, vars, Call, InsertNext, Return, Crash, Book, Reopen, UpdateTimezone, NextDay
<1> QED  BY <1>1, <1>2, InitTypeOK, NextTypeOK, PTL DEF Spec

\* A slot that is kept starts within its window by the clock on the wall.
LEMMA KeptSlotStartsInWindow ==
  ASSUME NEW z, IsZone(z), NEW d \in Int, NEW l \in Int, NEW close \in Int,
         0 <= l, l + 60 <= close, close <= 1440,
         SlotAt(z, 60, d, l).start < SlotAt(z, 60, d, l).end
  PROVE  LET shown == LocalOf(z, SlotAt(z, 60, d, l).start) - d * Day
         IN  l <= shown /\ shown < close
<1>1. PICK m \in Int : m = d * 1440 + l
  OBVIOUS
<1>2. SlotAt(z, 60, d, l).start = Resolve(z, m)
  <2>1. d * 1440 + ClockMinute(l) = m
    BY <1>1 DEF ClockMinute, Day
  <2> QED  BY <2>1 DEF SlotAt, Instant, Day
<1>3. l + 60 < 1440 /\ SlotAt(z, 60, d, l).end = Resolve(z, m + 60)
  <2>1. CASE l + 60 = 1440
    <3>1. d * 1440 + ClockMinute(l + 60) = m
      BY <1>1, <2>1 DEF ClockMinute, Day
    <3>2. SlotAt(z, 60, d, l).end = Resolve(z, m)
      BY <3>1 DEF SlotAt, Instant, Day
    <3> QED  BY <1>2, <3>2, ResolveIsInt
  <2>2. CASE l + 60 < 1440
    <3>1. d * 1440 + ClockMinute(l + 60) = m + 60
      BY <1>1, <2>2 DEF ClockMinute, Day
    <3> QED  BY <2>2, <3>1 DEF SlotAt, Instant, Day
  <2> QED  BY <2>1, <2>2
<1>4. Resolve(z, m) < Resolve(z, m + 60)
  BY <1>2, <1>3
<1>5. LocalOf(z, Resolve(z, m)) \in Int
  BY ResolveIsInt DEF LocalOf, IsZone
<1>6. m <= LocalOf(z, Resolve(z, m)) /\ LocalOf(z, Resolve(z, m)) < m + 60
  <2>1. CASE \E u \in Int : LocalOf(z, u) = m
    BY <2>1, ResolveIsCompatible
  <2>2. CASE ~(\E u \in Int : LocalOf(z, u) = m)
    <3>1. LocalOf(z, Resolve(z, m)) = m + z.shift
      BY <2>2, ResolveIsCompatible
    <3>2. m - z.offset \in Int /\ LocalOf(z, m - z.offset) # m
      BY <2>2 DEF IsZone
    <3>3. m - z.offset - z.shift \in Int /\ LocalOf(z, m - z.offset - z.shift) # m
      BY <2>2 DEF IsZone
    <3>4. z.at <= m /\ m < z.at + z.shift
      BY <3>2, <3>3 DEF LocalOf, IsZone
    <3>5. z.shift < 60
      BY <3>4, <1>4 DEF Resolve, IsZone
    <3> QED  BY <3>1, <3>4, <3>5 DEF IsZone
  <2> QED  BY <2>1, <2>2
<1>7. PICK u \in Int : u = LocalOf(z, Resolve(z, m))
  BY <1>5
<1>8. m <= u /\ u < m + 60
  BY <1>6, <1>7
<1>9. l <= u - d * 1440 /\ u - d * 1440 < close
  BY <1>1, <1>8
<1> QED  BY <1>2, <1>7, <1>9 DEF Day

\* Whenever a generated slot starts, the wall clock of the provider is within
\* a working window of that weekday.
THEOREM BatchesStartInWorkingHours == Spec => []BatchStartsInWorkingHours
<1>1. Init => BatchStartsInWorkingHours
  BY DEF Init, NoAnswer, BatchStartsInWorkingHours
<1>2. ASSUME TypeOK, BatchStartsInWorkingHours, [Next]_vars PROVE BatchStartsInWorkingHours'
  <2>1. CASE Materialize
    <3>1. PICK windows \in SUBSET Rules : answer' = [zone |-> zone, batch |-> Batch(windows)]
      BY <2>1 DEF Materialize
    <3>2. answer'.batch = Batch(windows) /\ answer'.zone = zone
      BY <3>1
    <3>3. SUFFICES ASSUME NEW s \in Batch(windows)
                   PROVE  \E r \in Rules :
                            /\ r.dow = Weekday(s.day)
                            /\ LocalOf(zone, s.start) - s.day * Day \in r.open .. (r.close - 1)
      BY <3>2 DEF BatchStartsInWorkingHours
    <3>4. PICK r \in windows, d \in Int, l \in Int :
              /\ Weekday(d) = r.dow /\ r.open <= l /\ l + 60 <= r.close
              /\ s = SlotAt(zone, 60, d, l) /\ s.start < s.end
      BY <1>2, BatchSlot
    <3>5. IsZone(zone)
      BY <1>2, ZonesAreZones DEF TypeOK
    <3>6. PICK open \in Int, close \in Int :
              open = r.open /\ close = r.close /\ 0 <= open /\ close <= 1440
      BY RulesAreRules
    <3>7. 0 <= l /\ l + 60 <= close /\ close <= 1440
      BY <3>4, <3>6
    <3>8. /\ l <= LocalOf(zone, s.start) - d * Day
          /\ LocalOf(zone, s.start) - d * Day < close
      BY <3>4, <3>5, <3>7, KeptSlotStartsInWindow
    <3>9. s.start \in Int
      <4>1. d * Day + ClockMinute(l) \in Int
        BY DEF ClockMinute, Day
      <4> QED  BY <3>4, <3>5, <4>1, ResolveIsInt DEF SlotAt, Instant
    <3>10. LocalOf(zone, s.start) - d * Day \in Int
      BY <3>5, <3>9 DEF LocalOf, IsZone, Day
    <3>11. PICK v \in Int : v = LocalOf(zone, s.start) - d * Day
      BY <3>10
    <3>12. v \in open .. (close - 1)
      BY <3>4, <3>6, <3>8, <3>11
    <3>13. s.day = d
      BY <3>4 DEF SlotAt
    <3> QED  BY <3>4, <3>6, <3>11, <3>12, <3>13
  <2>2. CASE answer' = answer
    BY <1>2, <2>2 DEF BatchStartsInWorkingHours
  <2> QED  BY <1>2, <2>1, <2>2
           DEF Next, vars, Call, InsertNext, Return, Crash, Book, Reopen, UpdateTimezone, NextDay
<1> QED  BY <1>1, <1>2, InitTypeOK, NextTypeOK, PTL DEF Spec
=============================================================================
