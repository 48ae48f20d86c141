------------------------ MODULE MCPooledTransactions ------------------------
(* b0 is moved to s1, which is open although b3 is in it, as PATCH leaves it *)
(* when it sets a cancelled booking back to booked. b3 is cancelled (again)  *)
(* while first and move try to take s1, and b0 is cancelled while it moves.  *)
EXTENDS PooledTransactions

CONSTANTS move, cancel, first, late, b0, b1, b2, b3, s0, s1

MCKindOf == [r \in Requests |->
  CASE r = move -> "reschedule" [] r \in {cancel, late} -> "cancel"
    [] r = first -> "create"]
MCBookingOf == [r \in Requests |->
  CASE r = first -> b2 [] r = cancel -> b3 [] r \in {move, late} -> b0]
MCTargetOf == [r \in Requests |-> s1]
MCMovedTo == [r \in Requests |-> b1]
MCPlaceOf == [b \in Bookings |-> IF b = b0 THEN s0 ELSE s1]
MCFirstStatus == [x \in Bookings \cup Slots |->
  IF x \in {b0, b3, s0} THEN "booked" ELSE IF x = s1 THEN "open" ELSE "none"]
=============================================================================
