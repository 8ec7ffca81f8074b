-------------------------- MODULE MCQuadHeapTimer ---------------------------
(* A finite instance of QuadHeapTimer for TLC: the root has four children  *)
(* when all five timers are pending, and three when a sift-down begins,    *)
(* which is after a pop.                                                   *)
EXTENDS QuadHeapTimer

MCForward == {2}
=============================================================================
