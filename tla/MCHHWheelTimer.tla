--------------------------- MODULE MCHHWheelTimer ---------------------------
(* Finite instances of HHWheelTimer for TLC, with wheels of two slots.     *)
EXTENDS HHWheelTimer

MCForward == {1, 2}
MCBack    == {-3, 3}
=============================================================================
