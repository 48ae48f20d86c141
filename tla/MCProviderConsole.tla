------------------------- MODULE MCProviderConsole -------------------------
EXTENDS ProviderConsole

CONSTANTS p1, p2, a1, c1, c2, b1, b2, s0, s1, w1, w2

MCPasswordOf == [x \in {p1, p2, a1} |-> IF x = p2 THEN w2 ELSE w1]
MCOwnerOf == [b \in {b1, b2} |-> IF b = b1 THEN c1 ELSE c2]
\* b2 has been rescheduled once.
MCFirstVersion == [b \in {b1, b2} |-> IF b = b1 THEN 1 ELSE 2]
MCFirstRow == [p \in {p1, p2} |-> [slug |-> IF p = p1 THEN s0 ELSE s1, notice |-> 48]]
MCFilters == {"all", "confirmed"}
MCChanges == {"booked", "cancelled"}
=============================================================================
