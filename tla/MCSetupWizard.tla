---------------------------- MODULE MCSetupWizard ----------------------------
(* Instances of SetupWizard for TLC.                                        *)
EXTENDS SetupWizard, TLC

Browsers == Permutations(Phones)
=============================================================================
