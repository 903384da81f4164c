---------------------------- MODULE MCClaimFlow ----------------------------
(* Instances of ClaimFlow for TLC.                                          *)
EXTENDS ClaimFlow, TLC

Browsers == Permutations(Pages)
=============================================================================
