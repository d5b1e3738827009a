-------------------------------- MODULE RtpIngest --------------------------------
(***************************************************************************)
(* One turn of rtp_ingest, byte by byte: from the datagram the data socket *)
(* returns, through the RTP header (rtp.rs) and the 16-bit samples         *)
(* (bridge.rs), to the binary IQ frame of TCI (protocol.rs).               *)
(*                                                                         *)
(* Module DataPlane has the order in which packets move; here is what is   *)
(* in them.  A frame is a sequence of 32-bit little-endian words; a word   *)
(* that holds a sample stands for the float sample / 32768, which is exact.*)
(***************************************************************************)
EXTENDS Integers, SequencesExt

CONSTANTS
    Home,       \* what the SsrcTable and `states` say of an SSRC (4 bytes): its
                \* TRX if it is a VFO A channel of an endpoint served, else Nobody
    Nobody,
    BufLen,     \* bytes of the ingest task's buffer
    Datagrams   \* what the socket may return: [data, packet, ssrc, samples, rate], with
                \* the packet radiod sent, the samples it carries, and the rate its
                \* endpoint started with

-----------------------------------------------------------------------------
(* What radiod sends. *)

\* i16::from_be_bytes
I16(hi, lo) == LET n == 256 * hi + lo IN IF n >= 32768 THEN n - 65536 ELSE n

\* An RTP packet: version 2 and no padding, some CSRCs, perhaps an extension that
\* says how many words follow its first, and pairs of 16-bit samples.
IsRtp(packet, ssrc, samples) ==
    /\ packet \in Seq(0 .. 255) /\ samples \in Seq(Int \X Int)
    /\ \E csrcs \in 0 .. 15, words \in -1 .. Len(packet) :
          LET head == 12 + 4 * csrcs IN
          /\ Len(packet) = head + 4 * (words + 1) + 4 * Len(samples)
          /\ packet[1] = 128 + (IF words >= 0 THEN 16 ELSE 0) + csrcs
          /\ words >= 0 => 256 * packet[head + 3] + packet[head + 4] = words
    /\ ssrc = SubSeq(packet, 9, 12)
    /\ \A i \in 1 .. Len(samples) :
          LET at == Len(packet) - 4 * (Len(samples) - i) IN
          samples[i] = <<I16(packet[at - 3], packet[at - 2]), I16(packet[at - 1], packet[at])>>

\* Each datagram is such a packet, or what has arrived of one.
ASSUME IngestAssumption ==
    /\ BufLen \in Nat
    /\ \A d \in Datagrams :
          /\ IsRtp(d.packet, d.ssrc, d.samples)
          /\ \E n \in 0 .. Len(d.packet) : d.data = SubSeq(d.packet, 1, n)
          /\ d.rate \in Nat

VARIABLE datagram

Nothing == [data |-> <<>>]

-----------------------------------------------------------------------------
RTP_HEADER_MIN == 12

TooShort == [ok |-> FALSE, err |-> "TooShort"]

BadVersion == [ok |-> FALSE, err |-> "BadVersion"]

Header(data, offset) ==
    [ok |-> TRUE, offset |-> offset, ssrc |-> SubSeq(data, 9, 12)]

\* The header without its extension: fixed part and CSRC list.
FixedLen(data) == RTP_HEADER_MIN + 4 * (data[1] % 16)

\* A plausible slip: the extension's length word is read, its own four bytes are not counted.
ExtensionWords(data) ==
    4 * (256 * data[FixedLen(data) + 3] + data[FixedLen(data) + 4])

\* Bytes of the extension, if its length is there to be read.
ExtensionLen(data) ==
    4 + 4 * (256 * data[FixedLen(data) + 3] + data[FixedLen(data) + 4])

\* The SSRC, and the number of bytes before the payload.  The padding bit,
\* sequence number and timestamp are read and used by nobody.
parse(data) ==
    IF Len(data) < RTP_HEADER_MIN THEN TooShort
    ELSE IF data[1] \div 64 # 2 THEN BadVersion
    ELSE LET extension == (data[1] \div 16) % 2 = 1
             offset == FixedLen(data) + IF extension THEN ExtensionLen(data) ELSE 0
         IN  IF extension /\ Len(data) < FixedLen(data) + 4 THEN TooShort
             ELSE IF offset > Len(data) THEN TooShort
             ELSE Header(data, offset)

\* A plausible slip: the last pair is lost.
WholePairs(payload) == (Len(payload) - 1) \div 4

Pairs(payload) == Len(payload) \div 4

\* I and Q of each pair; what is left of an incomplete one is dropped.
decode_s16be_stereo(payload) ==
    [i \in 1 .. Pairs(payload) |->
        <<I16(payload[4 * i - 3], payload[4 * i - 2]), I16(payload[4 * i - 1], payload[4 * i])>>]

-----------------------------------------------------------------------------
HeaderWords == 16   \* STREAM_HEADER_SIZE / 4
Float32  == 3
IqStream == 0

build_iq_frame(trx, sample_rate, samples) ==
    <<trx, sample_rate, Float32, 0, 0, 2 * Len(samples), IqStream, 2>>
        \o [i \in 1 .. 8 |-> 0] \o FlattenSeq(samples)

NoFrame == <<>>

\* One turn of the loop on a datagram, at the rate the endpoint announces.
rtp_ingest(data, samprate) ==
    LET pkt == SubSeq(data, 1, Min({Len(data), BufLen}))
        hdr == parse(pkt)
        samples == decode_s16be_stereo(SubSeq(pkt, hdr.offset + 1, Len(pkt)))
    IN  IF ~hdr.ok \/ hdr.ssrc \notin DOMAIN Home \/ Home[hdr.ssrc] = Nobody \/ samples = <<>>
        THEN NoFrame
        ELSE build_iq_frame(Home[hdr.ssrc], samprate, samples)

-----------------------------------------------------------------------------
(* How many frames the endpoint's iq_tx holds (state.rs). *)

ASSUMED_SAMPLES_PER_FRAME == 360
BUF_TARGET_SECONDS == 2
MinFrames == 128
MaxFrames == 8192

\* A plausible slip: the rate is counted in real samples, of which a pair has two.
iq_buffer_half(iq_samplerate) ==
    LET target == iq_samplerate \div ASSUMED_SAMPLES_PER_FRAME
    IN  IF target < MinFrames THEN MinFrames ELSE IF target > MaxFrames THEN MaxFrames ELSE target

iq_buffer_size(iq_samplerate) ==
    LET target == (iq_samplerate \div ASSUMED_SAMPLES_PER_FRAME) * BUF_TARGET_SECONDS
    IN  IF target < MinFrames THEN MinFrames ELSE IF target > MaxFrames THEN MaxFrames ELSE target

-----------------------------------------------------------------------------
IngestInit == datagram \in Datagrams

\* The turn ends; what it published is in the hands of iq_tx.
Turn ==
    /\ datagram # Nothing
    /\ datagram' = Nothing

-----------------------------------------------------------------------------
(* Properties.  A client reads a frame by the layout of protocol.rs:364-384. *)

Samples(f) ==
    [i \in 1 .. f[6] \div f[8] |-> <<f[HeaderWords + 2 * i - 1], f[HeaderWords + 2 * i]>>]

\* A frame is as long as its header says, is of the TRX its packet's SSRC stands
\* for, and carries samples of that packet from the first one on: header bytes,
\* CSRCs and extensions never become samples, wherever the datagram was cut
\* (rtp.rs:48-100, bridge.rs:709-815, protocol.rs:389-413).
FramesTrue ==
    datagram # Nothing =>
        LET f == rtp_ingest(datagram.data, datagram.rate) IN
        f # NoFrame =>
            /\ Len(f) = HeaderWords + f[6]
            /\ f[1] = Home[datagram.ssrc] /\ f[2] = datagram.rate
            /\ IsPrefix(Samples(f), datagram.samples)

\* Every pair of samples that arrived is forwarded: all that is missing is what
\* the cut took.  Four bytes hold a pair and end the packet (bridge.rs:799-815).
SamplesForwarded ==
    datagram # Nothing /\ datagram.ssrc \in DOMAIN Home /\ Home[datagram.ssrc] # Nobody =>
        LET f == rtp_ingest(datagram.data, datagram.rate)
            arrived == IF f = NoFrame THEN 0 ELSE f[6] \div 2
            lost == Len(datagram.packet) - Min({Len(datagram.data), BufLen})
        IN  4 * (Len(datagram.samples) - arrived) < lost + 4

\* The channel holds two seconds of frames of the size radiod sends, up to a pair
\* of frames that rounding costs, at every rate the upper limit leaves room for
\* (state.rs:59-77).
BufferLastsTwoSeconds ==
    datagram # Nothing /\ datagram.rate <= 1474560 =>
        (iq_buffer_size(datagram.rate) + 2) * ASSUMED_SAMPLES_PER_FRAME
            >= BUF_TARGET_SECONDS * datagram.rate
=============================================================================
