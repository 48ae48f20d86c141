----------------------------- MODULE WallClock -----------------------------
(***************************************************************************)
(* The time library: wall-clock minutes of a provider's zone, the instants *)
(* they stand for, and the slots cut out of a working day.                 *)
(*                                                                         *)
(* Instants and local times are whole minutes.  A zone is described over   *)
(* the horizon one run looks at, in which its clocks are changed at most   *)
(* once: they are `offset` minutes ahead of UTC until the local minute     *)
(* `at`, and are then moved by `shift` minutes (forward when positive,     *)
(* which skips the minutes at .. at+shift-1; back when negative, which     *)
(* repeats the minutes at+shift .. at-1).                                  *)
(***************************************************************************)
EXTENDS Integers

Day == 1440

\* `compatible`: the earlier of two readings of a repeated minute; a skipped
\* minute is read with the offset before the change, which lands after it.
Resolve(zone, m) ==
  LET resumes == IF zone.shift > 0 THEN zone.at + zone.shift ELSE zone.at
  IN  m - zone.offset - (IF m < resumes THEN 0 ELSE zone.shift)

\* Temporal constrains hour 24, which a rule may end at, to hour 23.
ClockMinute(l) == IF l < Day THEN l ELSE (Day - 60) + (l % 60)

Elapsed(zone, d, l) == Resolve(zone, d * Day) + l  \* mutant: minutes counted from local midnight
Instant(zone, d, l) == Resolve(zone, d * Day + ClockMinute(l))

\* getUTCDay() || 7, days counted from Thursday 1970-01-01: 1 Monday .. 7 Sunday.
Weekday(d) == ((d + 3) % 7) + 1

\* The local minutes at which a slot of the working day open .. close starts.
SlotMinutes(open, close, len) ==
  {l \in open .. close : l + len <= close /\ (l - open) % len = 0}

SlotAt(zone, len, d, l) ==
  [day |-> d, local |-> l,
   start |-> Instant(zone, d, l), end |-> Instant(zone, d, l + len)]

\* A slot is kept when its end falls after its start.  `days` are the weekdays
\* the rule names, open and close its window.
GenerateSlots(zone, len, days, open, close, from, to) ==
  {s \in {SlotAt(zone, len, d, l) : d \in {x \in from .. to : Weekday(x) \in days},
                                    l \in SlotMinutes(open, close, len)} :
     s.start < s.end}

Overlap(s, t) == s.start < t.end /\ t.start < s.end
=============================================================================
