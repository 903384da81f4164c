---------------------------- MODULE MCVolumePath -----------------------------
(* Instances of VolumePath for TLC.                                         *)
EXTENDS VolumePath

MCStart == [p \in Players |-> 50]
=============================================================================
