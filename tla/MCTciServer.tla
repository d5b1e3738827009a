------------------------------- MODULE MCTciServer -------------------------------
(* Small instances of TciServer. *)
EXTENDS TciServer

CONSTANTS k1, k2

TwoSessions == [k \in Session |-> 0]

\* The numerals that occur, and what each type can hold of them.
Unsigned32 == {0, 1, 7, 14, 96, 3000}
Unsigned64 == Unsigned32 \cup {7074000}
Signed32   == {-5, 0, 3000}
Signed64   == Signed32

\* trx: [{freq: 7, freq_b: 14}] with iq_samplerate: 96, and trx: [] with 7.
Configured ==
    [e \in {0, 1} |-> IF e = 0 THEN <<[freq |-> 7, freq_b |-> 14, modulation |-> Word("USB")]>>
                               ELSE <<>>]
StartingRate == [e \in {0, 1} |-> IF e = 0 THEN 96 ELSE 7]

N(i) == Num(i)

\* One client changes frequencies and the rate, and streams.
Tunes ==
    {<<Line("vfo", <<N(0), N(0), N(14)>>), Line("VFO", <<N(0), N(1), N(96)>>)>>,
     <<Line("IQ_SAMPLERATE", <<N(7)>>)>>,
     <<Line("IQ_SAMPLERATE", <<N(-5)>>), Line("VFO", <<N(1), N(0), N(14)>>),
       Line("IQ_START", <<N(0)>>)>>,
     <<Line("IQ_STOP", <<N(0)>>), Line("START", <<>>), Line("IQ_START", <<N(1)>>)>>,
     <<Line("VFO", <<N(0), N(0)>>), Line("if", <<N(0), N(0), N(-5)>>)>>}

\* The other changes the mode and reads.
Modes ==
    {<<Line("MODULATION", <<N(0), Word("CW")>>), Line("rx_filter_band", <<N(0)>>)>>,
     <<Line("rx_channel_enable", <<N(0), N(1), N(1)>>), Line("dds", <<N(0)>>)>>,
     <<Line("RX_FILTER_BAND", <<N(0), N(-5), N(3000)>>), Line("STOP", <<>>)>>,
     <<[Line("SPOT_CLEAR", <<>>) EXCEPT !.end = FALSE], Line("iq_stop", <<>>),
       Line("VFO", <<N(0), N(0)>>)>>}

Messages == [k \in Session |-> IF k = k1 THEN Tunes ELSE Modes]
==================================================================================
