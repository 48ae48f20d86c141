-------------------------- MODULE MCChronosReminders --------------------------
(* Small instances of ChronosReminders for TLC: one booking, reminders due at tick 1. *)
EXTENDS ChronosReminders, TLC

CONSTANTS b1

MCBookingOf == [r \in Reminders |-> b1]
MCFire == [r \in Reminders |-> 1]

Symmetry == Permutations(Instances) \cup Permutations(Reminders)
===============================================================================
