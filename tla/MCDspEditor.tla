----------------------------- MODULE MCDspEditor -----------------------------
(* Instances of DspEditor for TLC. *)
EXTENDS DspEditor

CONSTANTS pageA, flat, loud, bad

OnePage == {pageA}
MCBands == {flat, loud, bad}
MCInvalid == {bad}
(* No file, a damaged one, one of an older release with its own pre-amp, and *)
(* one this release wrote.                                                  *)
MCStored == {None, Unreadable, [bands |-> loud, preamp |-> flat], Protected(loud)}
MCReadable == {None, Protected(loud)}
=============================================================================
