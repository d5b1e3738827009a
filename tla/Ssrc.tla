---------------------------------- MODULE Ssrc ----------------------------------
(***************************************************************************)
(* The SSRC as a channel identifier (ssrc_encode and ssrc_decode in        *)
(* bridge.rs).  Layout of the 32 bits, high to low: prefix (8), endpoint   *)
(* (8), reserved (8), TRX (4), VFO (4).  Masks are remainders, shifts are  *)
(* products and quotients, and | of disjoint fields is a sum.              *)
(***************************************************************************)
EXTENDS Naturals

Byte == 0 .. 255    \* u8

SSRC_PREFIX == 124 * 16777216    \* 0x7C00_0000

NoChannel == <<>>    \* None

\* The layout of earlier releases, which had no endpoint.
encode_without_endpoint(endpoint, trx, vfo) ==
    SSRC_PREFIX + (trx % 16) * 16 + (vfo % 16)

\* `trx` and `vfo` beyond 4 bits are truncated.
ssrc_encode(endpoint, trx, vfo) ==
    SSRC_PREFIX + endpoint * 65536 + (trx % 16) * 16 + (vfo % 16)

reserved(ssrc) == (ssrc \div 256) % 256

\* The channel of an SSRC; the reserved byte is ignored.
ssrc_decode(ssrc) ==
    IF ssrc \div 16777216 = 124
    THEN <<(ssrc \div 65536) % 256, (ssrc \div 16) % 16, ssrc % 16>>
    ELSE NoChannel
=================================================================================
