------------------------- MODULE MCHashedWheelTimer -------------------------
(* Finite instances of HashedWheelTimer for TLC, with a wheel of 4 buckets *)
(* and ticks that Update makes too often: twice, or (for the timers that   *)
(* fire early) ten times, as in the code.                                  *)
EXTENDS HashedWheelTimer

MCForward == {1, 4}
MCBack    == {-5, 5}
=============================================================================
