------------------------------- MODULE SsrcProofs -------------------------------
(* What the SSRC identifies, for every endpoint, TRX and VFO. *)
EXTENDS Ssrc, TLAPS

Nibble == 0 .. 15

\* SSRCs of the program's own making: its prefix and a zero reserved byte.
OwnSsrc == {s \in Nat : s \div 16777216 = 124 /\ reserved(s) = 0}

\* An SSRC leads back to the endpoint, TRX and VFO it was made from, as long
\* as TRX and VFO fit their fields (ssrc_encode and ssrc_decode, bridge.rs:45-61).
THEOREM RoundTrip ==
    ASSUME NEW e \in Byte, NEW t \in Nibble, NEW v \in Nibble
    PROVE  ssrc_decode(ssrc_encode(e, t, v)) = <<e, t, v>>
<1> DEFINE s == SSRC_PREFIX + e * 65536 + t * 16 + v
<1>1. ssrc_encode(e, t, v) = s
  BY SMT DEF ssrc_encode, Nibble, Byte, SSRC_PREFIX
<1>2. s \div 16777216 = 124
  BY SMT DEF Nibble, Byte, SSRC_PREFIX
<1>3. (s \div 65536) % 256 = e
  BY SMT DEF Nibble, Byte, SSRC_PREFIX
<1>4. (s \div 16) % 16 = t /\ s % 16 = v
  BY SMT DEF Nibble, Byte, SSRC_PREFIX
<1> HIDE DEF s
<1> QED  BY <1>1, <1>2, <1>3, <1>4 DEF ssrc_decode

\* What the program encodes is an SSRC of its own.
LEMMA EncodesOwn ==
    ASSUME NEW e \in Byte, NEW t \in Byte, NEW v \in Byte
    PROVE  ssrc_encode(e, t, v) \in OwnSsrc
<1> DEFINE tt == t % 16
           vv == v % 16
           s == SSRC_PREFIX + e * 65536 + tt * 16 + vv
<1>1. tt \in Nibble /\ vv \in Nibble
  BY SMT DEF Nibble, Byte
<1>2. ssrc_encode(e, t, v) = s
  BY DEF ssrc_encode
<1> HIDE DEF tt, vv
<1>3. s \in Nat /\ s \div 16777216 = 124
  BY <1>1, SMT DEF Nibble, Byte, SSRC_PREFIX
<1>4. (s \div 256) % 256 = 0
  <2>1. s \div 256 = 124 * 65536 + e * 256
    BY <1>1, SMTT(30) DEF Nibble, Byte, SSRC_PREFIX
  <2> HIDE DEF s
  <2> QED  BY <2>1, SMT DEF Byte
<1> QED  BY <1>2, <1>3, <1>4 DEF OwnSsrc, reserved

\* Different channels have different SSRCs.
THEOREM EncodeInjective ==
    ASSUME NEW e \in Byte, NEW t \in Nibble, NEW v \in Nibble,
           NEW f \in Byte, NEW u \in Nibble, NEW w \in Nibble,
           ssrc_encode(e, t, v) = ssrc_encode(f, u, w)
    PROVE  e = f /\ t = u /\ v = w
<1>1. <<e, t, v>> = <<f, u, w>>
  BY RoundTrip
<1> QED  BY <1>1

\* Two SSRCs of the program's own making that decode alike are the same SSRC.
THEOREM DecodeInjective ==
    ASSUME NEW r \in OwnSsrc, NEW s \in OwnSsrc, ssrc_decode(r) = ssrc_decode(s)
    PROVE  r = s
<1> DEFINE e(x) == (x \div 65536) % 256
           t(x) == (x \div 16) % 16
           v(x) == x % 16
<1>1. \A x \in OwnSsrc : ssrc_decode(x) = <<e(x), t(x), v(x)>>
  BY DEF ssrc_decode, OwnSsrc
<1>2. \A x \in OwnSsrc : x = SSRC_PREFIX + e(x) * 65536 + t(x) * 16 + v(x)
  <2> TAKE x \in OwnSsrc
  <2>1. x \in Nat /\ x \div 16777216 = 124 /\ (x \div 256) % 256 = 0
    BY DEF OwnSsrc, reserved
  <2>2. x = (x \div 16) * 16 + (x % 16)
    BY <2>1, SMT
  <2>3. x \div 16 = (x \div 256) * 16 + ((x \div 16) % 16)
    BY <2>1, SMT
  <2>4. x \div 256 = (x \div 65536) * 256
    BY <2>1, SMT
  <2>5. x \div 65536 = 124 * 256 + ((x \div 65536) % 256)
    BY <2>1, SMT
  <2> QED  BY <2>1, <2>2, <2>3, <2>4, <2>5, SMT DEF SSRC_PREFIX
<1> HIDE DEF e, t, v
<1>3. e(r) = e(s) /\ t(r) = t(s) /\ v(r) = v(s)
  BY <1>1
<1> QED  BY <1>2, <1>3
=================================================================================
