-------------------------- MODULE MCChronosBookings --------------------------
(* Small instances of ChronosBookings for TLC: slot 1 starts at hour 2, slot 2 at hour 3. *)
EXTENDS ChronosBookings, TLC

MCSlotStart == [s \in Slots |-> s + 1]

\* Booking ids are random UUIDs and handlers are interchangeable.
Symmetry == Permutations(Bookings) \cup Permutations(Handlers)
==============================================================================
