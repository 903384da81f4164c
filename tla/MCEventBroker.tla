---------------------------- MODULE MCEventBroker ----------------------------
(* Model-checking instances of EventBroker.                                 *)
EXTENDS EventBroker
CONSTANTS p1, g1, s1, fine, muted, bad, off, playing, loud, r1, none, nothing
MCPlayers == {p1}
MCStreams == {s1}
MCAttrs == {fine, muted, bad}
MCOutOfRange == {bad}
TwoAttrs == {fine, bad}
NoStreams == {}
MCSettings == {off, playing}
MCLevels == {loud}
MCReseeders == {r1}
MCGroups == {g1}
NoGroups == {}
NoReseeders == {}
=============================================================================
