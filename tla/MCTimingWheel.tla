--------------------------- MODULE MCTimingWheel ---------------------------
(* Instances of TimingWheel: a wheel of two slots of 2 ms, whose near      *)
(* range is 4 ms.                                                          *)
EXTENDS TimingWheel, TLC

CONSTANTS e1, e2

\* e1 stays in the slots; e2 goes to the slots (3) or to the overflow map (5).
MCIntervals == e1 :> {3} @@ e2 :> {3, 5}
=============================================================================
