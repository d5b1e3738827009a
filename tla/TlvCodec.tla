-------------------------------- MODULE TlvCodec --------------------------------
(***************************************************************************)
(* The tag-length-value packets of radiod's control channel (tlv.rs).      *)
(*                                                                         *)
(* A value is the bytes it has in memory, high byte first: 8 of an Int     *)
(* (u64) or a Double, 4 of a Float, any number of Bytes.  What the bits of *)
(* a floating-point number mean is nobody's business here.                 *)
(***************************************************************************)
EXTENDS Naturals, SequencesExt

\* PktType
Status  == 0
Command == 1

\* StatusType: the tags the program sends, or treats in a special way.
EOL             == 0
COMMAND_TAG     == 1
OUTPUT_SSRC     == 18
RADIO_FREQUENCY == 33
PRESET          == 85
LIFETIME        == 117
Frequencies     == {RADIO_FREQUENCY, 34, 35, 36}
Edges           == {39, 40}
Blobs           == {PRESET, 16, 17}

Byte == 0 .. 255

Value(kind, bytes)  == [kind |-> kind, bytes |-> bytes]
TlvField(tag, value) == [tag |-> tag, value |-> value]

\* What the sides put into a field: the kind and the length go with the tag, and no
\* field is tagged EOL.
Fits(tag, v) ==
    \/ v.kind = "Int" /\ Len(v.bytes) = 8 /\ tag \notin Frequencies \cup Edges \cup Blobs
    \/ v.kind = "Double" /\ Len(v.bytes) = 8 /\ tag \in Frequencies \cup Edges
    \/ v.kind = "Float" /\ Len(v.bytes) = 4 /\ tag \in Frequencies \cup Edges
    \/ v.kind = "Bytes" /\ Len(v.bytes) < 65536 /\ tag \in Blobs

Fields ==
    {f \in [tag : 1 .. 255, value : [kind : {"Int", "Float", "Double", "Bytes"}, bytes : Seq(Byte)]] :
        Fits(f.tag, f.value)}

-----------------------------------------------------------------------------
LastBytes(s, n) == SubSeq(s, Len(s) - n + 1, Len(s))

Zeros(n) == [i \in 1 .. n |-> 0]

\* Bytes shifted into a u64: missing ones are zero, the first of too many are lost.
decode_int(data) == LastBytes(Zeros(8) \o data, 8)

\* `as u32`
AsU32(v) == LastBytes(v, 4)

\* The bytes from the first that is not zero.
Significant(v) ==
    LET Z == {n \in 0 .. Len(v) : \A i \in 1 .. n : v[i] = 0}
    IN  SubSeq(v, 1 + CHOOSE n \in Z : \A m \in Z : m <= n, Len(v))

\* A plausible slip: the length is always one byte.
encode_short_length(len) == <<len % 256>>

\* One byte, or a count of length bytes and the length; two bytes at most.
encode_length(len) ==
    IF len < 128 THEN <<len>>
    ELSE IF len <= 255 THEN <<129, len>>
    ELSE <<130, (len \div 256) % 256, len % 256>>

encode_int(v) == encode_length(Len(Significant(v))) \o Significant(v)

encode_field(f) ==
    <<f.tag>> \o IF f.value.kind = "Int" THEN encode_int(f.value.bytes)
                 ELSE encode_length(Len(f.value.bytes)) \o f.value.bytes

Packet(type, fields) ==
    <<type>> \o FlattenSeq([i \in DOMAIN fields |-> encode_field(fields[i])]) \o <<EOL>>

build_command(fields) == Packet(Command, fields)

-----------------------------------------------------------------------------
Err(what) == [ok |-> FALSE, err |-> what]

\* The number in bytes i .. i + n - 1.
BigEndian(data, i, n) ==
    LET N[j \in 0 .. n] == IF j = 0 THEN 0 ELSE N[j - 1] * 256 + data[i + j - 1] IN N[n]

\* The length at position i, and where the value begins.
decode_length(data, i) ==
    IF i > Len(data) THEN Err("Truncated")
    ELSE IF data[i] < 128 THEN [ok |-> TRUE, len |-> data[i], next |-> i + 1]
    ELSE LET n == data[i] - 128 IN
         IF n > 4 \/ Len(data) - i < n THEN Err("LengthTooLarge")
         ELSE [ok |-> TRUE, len |-> BigEndian(data, i + 1, n), next |-> i + 1 + n]

\* The kind of a value is guessed from its tag and length.
DecodedValue(tag, data) ==
    LET len == Len(data) IN
    CASE tag \in Frequencies /\ len = 8 -> Value("Double", decode_int(data))
      [] tag \in Frequencies /\ len = 4 -> Value("Float", AsU32(decode_int(data)))
      [] tag \in Edges /\ len <= 4      -> Value("Float", AsU32(decode_int(data)))
      [] tag \in Edges /\ len > 4       -> Value("Double", decode_int(data))
      [] tag \in Blobs                  -> Value("Bytes", data)
      [] OTHER                          -> Value("Int", decode_int(data))

Decoded(type, fields) == [ok |-> TRUE, type |-> type, fields |-> fields]

\* The field at position i, and where the next one begins.
FieldAt(data, i) ==
    LET n == decode_length(data, i + 1) IN
    IF ~n.ok THEN n
    ELSE IF Len(data) - n.next + 1 < n.len THEN Err("Truncated")
    ELSE [ok |-> TRUE, next |-> n.next + n.len,
          field |-> TlvField(data[i], DecodedValue(data[i],
                                          SubSeq(data, n.next, n.next + n.len - 1)))]

Prepended(f, r) == IF r.ok THEN Decoded(r.type, <<f>> \o r.fields) ELSE r

\* One error anywhere before EOL rejects the packet.
decode_packet(data) ==
    LET From[i \in 1 .. Len(data) + 1] ==
            IF i > Len(data) \/ data[i] = EOL THEN Decoded(data[1], <<>>)
            ELSE LET f == FieldAt(data, i) IN IF f.ok THEN Prepended(f.field, From[f.next]) ELSE f
    IN  IF data = <<>> THEN Err("Truncated")
        ELSE IF data[1] \notin {Status, Command} THEN Err("UnknownPktType")
        ELSE From[2]
=================================================================================
