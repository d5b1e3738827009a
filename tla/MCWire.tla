--------------------------------- MODULE MCWire ---------------------------------
(* The bytes of both sockets.  A run starts with one datagram at the data     *)
(* socket, any of Datagrams; when it is dealt with, the control channel runs. *)
EXTENDS ControlClient, RtpIngest

OurSsrc == <<124, 0, 1, 0>>

IntOf(bytes)    == Value("Int", LastBytes(Zeros(8) \o bytes, 8))
DoubleOf(bytes) == Value("Double", LastBytes(Zeros(8) \o bytes, 8))
BytesOf(n)      == Value("Bytes", [i \in 1 .. n |-> 105])

\* A create with a long preset name, and a SetSr with the shortest.
Tune  == <<TlvField(OUTPUT_SSRC, IntOf(OurSsrc)), TlvField(LIFETIME, IntOf(<<>>)),
           TlvField(PRESET, BytesOf(300)), TlvField(RADIO_FREQUENCY, DoubleOf(<<65, 107>> \o Zeros(6)))>>
SetSr == <<TlvField(OUTPUT_SSRC, IntOf(OurSsrc)), TlvField(PRESET, BytesOf(130)),
           TlvField(RADIO_FREQUENCY, DoubleOf(<<65>> \o Zeros(7)))>>

MCRequests == [s \in {"poll_task", "cmd_task"} |->
                  IF s = "poll_task" THEN {<<>>} ELSE {Tune, SetSr}]

\* The second is longer than the buffer of the run, the third of another program.
MCStatuses ==
    {<<TlvField(OUTPUT_SSRC, IntOf(OurSsrc)), TlvField(RADIO_FREQUENCY, DoubleOf(<<65>> \o Zeros(7)))>>,
     <<TlvField(39, Value("Float", <<197, 156, 64, 0>>)), TlvField(OUTPUT_SSRC, IntOf(OurSsrc)),
       TlvField(17, BytesOf(16)), TlvField(20, IntOf(<<2, 238, 0>>))>>,
     <<TlvField(PRESET, BytesOf(2)), TlvField(OUTPUT_SSRC, IntOf(<<7, 208>>))>>}

\* A COMMAND of another program, whole and without its EOL, an empty datagram, an
\* unknown type, a length of too many bytes, a STATUS that ends inside a value.
OthersCommand == Packet(Command, <<TlvField(OUTPUT_SSRC, IntOf(<<9>>))>>)

MCForeign ==
    {OthersCommand, Front(OthersCommand), <<>>, <<7>>, <<0, 18, 200>>, <<0, 18, 4, 124, 0>>}

-----------------------------------------------------------------------------
MCHome == [s \in {OurSsrc, <<124, 0, 0, 1>>} |-> IF s = OurSsrc THEN 1 ELSE Nobody]

\* An RTP packet: n CSRCs, x words of extension (-1: none), samples.
RtpPacket(ssrc, n, x, samples) ==
    LET U16(i) == <<(i % 65536) \div 256, i % 256>> IN
    <<128 + (IF x >= 0 THEN 16 ELSE 0) + n, 97, 0, 1, 0, 0, 0, 160>> \o ssrc
        \o [i \in 1 .. 4 * n |-> 77]
        \o (IF x < 0 THEN <<>> ELSE <<190, 222>> \o U16(x) \o [i \in 1 .. 4 * x |-> 78])
        \o FlattenSeq([i \in DOMAIN samples |->
               U16(samples[i][1] + 65536) \o U16(samples[i][2] + 65536)])

MCSamples == {<<>>, <<<<1, -1>>>>, <<<<-32768, 32767>>, <<255, 256>>, <<-256, 0>>>>}

Cuts == {0, 3, 11, 12, 13, 15, 16, 17, 20, 24, 27, 28, 30}

\* Every packet, whole or cut.
MCDatagrams ==
    UNION {{[data |-> SubSeq(p, 1, c), packet |-> p, ssrc |-> s, samples |-> q, rate |-> r]
               : c \in {Len(p)} \cup (Cuts \cap 0 .. Len(p))}
           : <<p, s, q, r>> \in
               {<<RtpPacket(s, n, x, q), s, q, r>> :
                   s \in {OurSsrc, <<124, 0, 0, 1>>, <<1, 2, 3, 4>>}, n \in {0, 1, 15},
                   x \in {-1, 0, 1, 3}, q \in MCSamples, r \in {12000}}}
    \cup {[data |-> <<>>, packet |-> RtpPacket(OurSsrc, 0, -1, <<>>), ssrc |-> OurSsrc, samples |-> <<>>, rate |-> r]
             : r \in {0, 359, 12000, 23040, 23400, 48000, 96000, 192000, 384000, 768000, 1474560}}

-----------------------------------------------------------------------------
MCInit == Init /\ IngestInit

MCNext ==
    \/ Turn /\ UNCHANGED vars
    \/ datagram = Nothing /\ Next /\ UNCHANGED datagram

MCSpec == MCInit /\ [][MCNext]_<<vars, datagram>> /\ WF_datagram(Turn /\ UNCHANGED vars) /\ Fairness
=============================================================================
