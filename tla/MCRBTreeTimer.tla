--------------------------- MODULE MCRBTreeTimer ----------------------------
(* A finite instance of RBTreeTimer for TLC.                                *)
EXTENDS RBTreeTimer

MCForward == {1, 2}
=============================================================================
