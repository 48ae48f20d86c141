---------------------------- MODULE SlotCalendar ----------------------------
(***************************************************************************)
(* What Chronos promises about its calendar, whatever the handlers do:     *)
(* a booking id takes a slot at most once, keeps it for one uninterrupted  *)
(* stretch, and never shares it.  A reschedule gives the old slot up and   *)
(* takes the new one in a single step, under a new booking id.             *)
(***************************************************************************)

CONSTANTS
  Slots,     \* the provider's bookable slots
  Bookings,  \* booking ids
  None

VARIABLES
  holding,   \* the slot each booking holds now, or None
  used       \* the booking ids handed out so far

calVars == <<holding, used>>

Init ==
  /\ holding = [b \in Bookings |-> None]
  /\ used = {}

FreeBut(s, b) == \A x \in Bookings \ {b} : holding[x] # s

\* A fresh booking takes a slot nobody holds.
Take(b, s) ==
  /\ b \notin used
  /\ FreeBut(s, b)
  /\ holding' = [holding EXCEPT ![b] = s]
  /\ used' = used \cup {b}

\* A booking gives its slot up, for good.
Release(b) ==
  /\ holding[b] # None
  /\ holding' = [holding EXCEPT ![b] = None]
  /\ UNCHANGED used

\* The successor `new` takes slot s as `old` gives its own up.
Move(old, new, s) ==
  /\ holding[old] # None
  /\ new \notin used
  /\ FreeBut(s, old)
  /\ holding' = [holding EXCEPT ![old] = None, ![new] = s]
  /\ used' = used \cup {new}

Next ==
  \/ \E b \in Bookings, s \in Slots : Take(b, s)
  \/ \E b \in Bookings : Release(b)
  \/ \E old, new \in Bookings, s \in Slots : Move(old, new, s)

Spec == Init /\ [][Next]_calVars
=============================================================================
