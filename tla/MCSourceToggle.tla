--------------------------- MODULE MCSourceToggle ---------------------------
(* Model-checking instance of SourceToggle: two or three catalogued sources,*)
(* with one, no and two units as in the code's catalog.                     *)
EXTENDS SourceToggle, TLC
CONSTANTS airplay, spotify, plexamp, tidal, nqptp, plexd, mdns, g1, g2, none
ThreeSources == <<airplay, spotify, plexamp>>
MCRetired == {tidal}
MCSetupSources == {plexamp}
MCConfigured == {{airplay}, {airplay, plexamp}, {airplay, spotify, plexamp}}
MCUnitsOf == airplay :> <<nqptp>> @@ spotify :> <<>> @@ plexamp :> <<plexd, mdns>>
MCGroups == {g1}
TwoGroups == {g1, g2}
=============================================================================
