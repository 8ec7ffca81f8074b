------------------------ MODULE MCPriorityQueueTimer ------------------------
(* A finite instance of PriorityQueueTimer for TLC.                         *)
EXTENDS PriorityQueueTimer

MCForward == {1, 2}
=============================================================================
