------------------------- MODULE MCSlotMaterializer -------------------------
(* Two zones a quarter of an hour apart (Kathmandu and Kolkata), one that   *)
(* skips an hour on the Sunday of the horizon (Auckland) and one that       *)
(* repeats an hour on that day (New York).                                  *)
EXTENDS SlotMaterializer, TLC
CONSTANTS r1, r2

MCZones == {
  [offset |-> 345, at |-> 0, shift |-> 0],
  [offset |-> 330, at |-> 0, shift |-> 0],
  [offset |-> 720, at |-> 3 * Day + 120, shift |-> 60],
  [offset |-> -240, at |-> 3 * Day + 120, shift |-> -60] }

MCRules == {
  [dow |-> 7, open |-> 30, close |-> 270],
  [dow |-> 7, open |-> 540, close |-> 720],
  [dow |-> 6, open |-> 1260, close |-> 1440] }

Symmetry == Permutations(Runs)
=============================================================================
