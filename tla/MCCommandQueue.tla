--------------------------- MODULE MCCommandQueue ---------------------------
(* Model-checking instances of CommandQueue.                                *)
EXTENDS CommandQueue
CONSTANTS k1, k2, noKey
MCKeys == {k1, k2}
=============================================================================
