------------------------------- MODULE MCBridge -------------------------------
(* Small instances of Bridge. *)
EXTENDS Bridge

CONSTANTS k1, k2, iq48, iq96, g48, g96, gDefault

\* One endpoint, one TRX.
OneEndpoint  == {0}
OneChan      == {<<0, 0, 0>>}
OneServer    == [k \in Client |-> 0]
OneRatesOf   == [e \in {0} |-> {48, 96}]
OneInitRate  == [e \in {0} |-> 48]

\* Two endpoints with a TRX each.  radiod still runs a channel of the second,
\* a VFO B channel, and a channel of an endpoint since removed.
TwoEndpoints == {0, 1}
TwoServer    == [k \in Client |-> IF k = k1 THEN 0 ELSE 1]
TwoRatesOf   == [e \in {0, 1} |-> IF e = 0 THEN {48} ELSE {48, 96}]
TwoInitRate  == [e \in {0, 1} |-> 48]
OldLeftover  == {<<1, 0, 0>>, <<0, 0, 1>>, <<2, 0, 0>>}
OldChan      == OldLeftover \cup {<<0, 0, 0>>}

ThreeChan    == {<<0, 0, 0>>, <<0, 1, 0>>, <<1, 0, 0>>}

\* What the configuration tunes at start.
NoTunes      == <<>>
TuneFirst    == << <<0, 0, 0>> >>
TuneTwo      == << <<0, 0, 0>>, <<0, 1, 0>> >>

\* 96 is mapped; any other rate falls back to the default preset.
Presets      == {iq48, iq96}
Presets96    == [r \in {96} |-> iq96]
Groups       == {g48, g96, gDefault}
GroupOfMode  == [p \in {iq48, iq96, DefaultConfig} |->
                    CASE p = iq48 -> g48 [] p = iq96 -> g96 [] OTHER -> gDefault]
=============================================================================
