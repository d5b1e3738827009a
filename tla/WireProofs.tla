------------------------------- MODULE WireProofs -------------------------------
(* What the bytes of both sockets mean: theorems of ControlClient and      *)
(* RtpIngest, for every length, value, cut and rate.                       *)
EXTENDS ControlClient, RtpIngest, SequenceLemmas, FiniteSetTheorems

-----------------------------------------------------------------------------
(* RTP. *)

\* data is what has arrived of packet.
Arrived(data, packet) ==
    /\ data \in Seq(0 .. 255)
    /\ Len(data) \in 0 .. Len(packet)
    /\ \A i \in 1 .. Len(data) : data[i] = packet[i]

\* The bytes before the samples.
PayloadAt(packet, samples) == Len(packet) - 4 * Len(samples)

Got(data, offset) == decode_s16be_stereo(SubSeq(data, offset + 1, Len(data)))

\* The buffer holds the packet up to where it was cut, by the network or by recv.
LEMMA ArrivedOf ==
    ASSUME NEW d \in Datagrams
    PROVE  /\ Arrived(SubSeq(d.data, 1, Min({Len(d.data), BufLen})), d.packet)
           /\ Len(SubSeq(d.data, 1, Min({Len(d.data), BufLen}))) = Min({Len(d.data), BufLen})
<1> DEFINE p == d.packet
           c == Min({Len(d.data), BufLen})
<1>1. p \in Seq(0 .. 255) /\ BufLen \in Nat
  BY IngestAssumption DEF IsRtp
<1>2. PICK n \in 0 .. Len(p) : d.data = SubSeq(p, 1, n)
  BY IngestAssumption
<1> HIDE DEF p
<1>3. Len(p) \in Nat /\ n \in Nat /\ Len(d.data) = n
  BY <1>1, <1>2, LenProperties, CutShort
<1>4. c \in 0 .. n /\ c \in 0 .. Len(p)
  BY <1>1, <1>3, MinOfTwo
<1> HIDE DEF c
<1>5. SubSeq(d.data, 1, c) = SubSeq(p, 1, c)
  BY <1>1, <1>2, <1>4, CutTwice
<1>6. /\ SubSeq(p, 1, c) \in Seq(0 .. 255) /\ Len(SubSeq(p, 1, c)) = c
      /\ \A i \in 1 .. c : SubSeq(p, 1, c)[i] = p[i]
  BY <1>1, <1>4, CutShort
<1> QED  BY <1>3, <1>4, <1>5, <1>6 DEF c, p, Arrived

\* parse finds where the samples begin, if that much has arrived, and else refuses.
LEMMA HeaderParsed ==
    ASSUME NEW packet, NEW ssrc, NEW samples, IsRtp(packet, ssrc, samples),
           NEW data, Arrived(data, packet)
    PROVE  /\ PayloadAt(packet, samples) \in Nat /\ PayloadAt(packet, samples) <= Len(packet)
           /\ Len(packet) \in Nat /\ Len(samples) \in Nat
           /\ Len(data) \in Nat /\ Len(data) <= Len(packet)
           /\ Len(data) < PayloadAt(packet, samples) => ~parse(data).ok
           /\ Len(data) >= PayloadAt(packet, samples) =>
                 parse(data) = [ok |-> TRUE, offset |-> PayloadAt(packet, samples), ssrc |-> ssrc]
<1> DEFINE n == Len(packet)
           m == Len(samples)
           c == Len(data)
           offset == PayloadAt(packet, samples)
<1>0. /\ data \in Seq(0 .. 255) /\ c \in 0 .. n /\ \A i \in 1 .. c : data[i] = packet[i]
      /\ c = Len(data)
  BY DEF Arrived
<1>1. packet \in Seq(0 .. 255) /\ n \in Nat /\ m \in Nat /\ offset = n - 4 * m
  BY LenProperties DEF IsRtp, PayloadAt
<1>2. PICK csrcs \in 0 .. 15, words \in -1 .. n :
         LET head == 12 + 4 * csrcs IN
         /\ n = head + 4 * (words + 1) + 4 * m
         /\ packet[1] = 128 + (IF words >= 0 THEN 16 ELSE 0) + csrcs
         /\ words >= 0 => 256 * packet[head + 3] + packet[head + 4] = words
  BY DEF IsRtp
<1> DEFINE head == 12 + 4 * csrcs
<1>3. ssrc = SubSeq(packet, 9, 12)
  BY DEF IsRtp
<1> HIDE DEF n, m, c, offset
<1>4. offset = head + 4 * (words + 1) /\ offset \in Nat /\ offset <= n /\ head \in Nat /\ head >= 12
  BY <1>1, <1>2
<1>5. c \in Nat /\ c <= n
  BY <1>0, <1>1
<1>6. CASE c < 12
  <2>1. parse(data) = TooShort
    BY <1>0, <1>6, <1>5 DEF parse, RTP_HEADER_MIN
  <2> QED  BY <1>1, <1>4, <1>5, <1>6, <2>1 DEF TooShort, n, m, c, offset
<1>7. CASE c >= 12
  <2>1. data[1] = packet[1] /\ 1 \in 1 .. c
    BY <1>0, <1>5, <1>7
  <2>2. data[1] \div 64 = 2 /\ ((data[1] \div 16) % 2 = 1 <=> words >= 0) /\ data[1] % 16 = csrcs
    <3>1. CASE words >= 0
      <4>1. data[1] = 144 + csrcs
        BY <1>2, <2>1, <3>1
      <4>2. data[1] \div 64 = 2 /\ data[1] % 16 = csrcs /\ data[1] \div 16 = 9
        BY <4>1
      <4> QED  BY <3>1, <4>2
    <3>2. CASE ~(words >= 0)
      <4>1. data[1] = 128 + csrcs
        BY <1>2, <2>1, <3>2
      <4> QED  BY <3>2, <4>1
    <3> QED  BY <3>1, <3>2
  <2>3. FixedLen(data) = head
    BY <2>2 DEF FixedLen, RTP_HEADER_MIN
  <2>4. words >= 0 /\ c >= head + 4 => ExtensionLen(data) = 4 * (words + 1)
    <3>1. SUFFICES ASSUME words >= 0, c >= head + 4 PROVE ExtensionLen(data) = 4 * (words + 1)
      OBVIOUS
    <3>2. head + 3 \in 1 .. c /\ head + 4 \in 1 .. c
      BY <1>4, <1>5, <3>1
    <3>3. data[head + 3] = packet[head + 3] /\ data[head + 4] = packet[head + 4]
      BY <1>0, <3>2
    <3>4. 256 * data[head + 3] + data[head + 4] = words
      BY <1>2, <3>1, <3>3
    <3>5. ExtensionLen(data) = 4 + 4 * (256 * data[head + 3] + data[head + 4])
      BY <2>3 DEF ExtensionLen
    <3> QED  BY <3>4, <3>5
  <2>5. SubSeq(data, 9, 12) = ssrc
    <3>1. \A i \in 9 .. 12 : data[i] \in 0 .. 255 /\ packet[i] \in 0 .. 255 /\ data[i] = packet[i]
      <4>1. \A i \in 9 .. 12 : i \in 1 .. c /\ i \in 1 .. n
        BY <1>1, <1>5, <1>7
      <4> QED  BY <1>0, <1>1, <4>1, ElementOfSeq DEF n, c
    <3>2. /\ SubSeq(data, 9, 12) \in Seq(0 .. 255) /\ Len(SubSeq(data, 9, 12)) = 12 - 9 + 1
          /\ \A i \in 1 .. 12 - 9 + 1 : SubSeq(data, 9, 12)[i] = data[9 + i - 1]
      BY <3>1, SubSeqProperties
    <3>3. /\ SubSeq(packet, 9, 12) \in Seq(0 .. 255) /\ Len(SubSeq(packet, 9, 12)) = 12 - 9 + 1
          /\ \A i \in 1 .. 12 - 9 + 1 : SubSeq(packet, 9, 12)[i] = packet[9 + i - 1]
      BY <3>1, SubSeqProperties
    <3>4. \A i \in 1 .. 12 - 9 + 1 : 9 + i - 1 \in 9 .. 12
      OBVIOUS
    <3>5. \A i \in 1 .. 12 - 9 + 1 : SubSeq(data, 9, 12)[i] = SubSeq(packet, 9, 12)[i]
      BY <3>1, <3>2, <3>3, <3>4
    <3> QED  BY <1>3, <3>2, <3>3, <3>5, SeqEqual
  <2>6. ASSUME ~(words >= 0)
        PROVE  parse(data) = IF offset > c THEN TooShort ELSE Header(data, offset)
    <3>1. words + 1 = 0 /\ offset = head
      BY <1>2, <1>4, <2>6
    <3> QED  BY <1>0, <1>4, <1>7, <2>2, <2>3, <2>6, <3>1 DEF parse, RTP_HEADER_MIN
  <2>7. ASSUME words >= 0, c < head + 4
        PROVE  parse(data) = TooShort /\ offset > c
    <3>1. parse(data) = TooShort
      BY <1>0, <1>5, <1>7, <2>2, <2>3, <2>7 DEF parse, RTP_HEADER_MIN
    <3>2. offset > c
      BY <1>2, <1>4, <1>5, <2>7
    <3> QED  BY <3>1, <3>2
  <2>8. ASSUME words >= 0, c >= head + 4
        PROVE  parse(data) = IF offset > c THEN TooShort ELSE Header(data, offset)
    <3> HIDE DEF head
    <3>1. head + ExtensionLen(data) = offset
      BY <1>4, <2>4, <2>8
    <3>2. ~(c < head + 4) /\ ~(c < 12)
      BY <1>4, <1>5, <2>8
    <3> QED  BY <1>0, <2>2, <2>3, <2>8, <3>1, <3>2 DEF parse, RTP_HEADER_MIN
  <2>9. parse(data) = IF offset > c THEN TooShort ELSE Header(data, offset)
    <3> HIDE DEF head
    <3>1. c < head + 4 \/ c >= head + 4
      BY <1>4, <1>5
    <3> QED  BY <2>6, <2>7, <2>8, <3>1
  <2>10. /\ c < offset => ~parse(data).ok
         /\ c >= offset => parse(data) = [ok |-> TRUE, offset |-> offset, ssrc |-> ssrc]
    <3>1. (offset > c <=> c < offset) /\ (c >= offset <=> ~(c < offset))
      BY <1>4, <1>5
    <3>2. ~TooShort.ok /\ Header(data, offset) = [ok |-> TRUE, offset |-> offset, ssrc |-> ssrc]
      BY <2>5 DEF TooShort, Header
    <3> QED  BY <2>9, <3>1, <3>2
  <2> QED  BY <1>1, <1>4, <1>5, <2>10 DEF n, m, c, offset
<1> QED  BY <1>5, <1>6, <1>7

\* Bytes 4i - 3 to 4i after the header are sample i, as far as they arrived.
LEMMA SamplesDecoded ==
    ASSUME NEW packet, NEW ssrc, NEW samples, IsRtp(packet, ssrc, samples),
           NEW data, Arrived(data, packet), Len(data) >= PayloadAt(packet, samples)
    PROVE  /\ Got(data, PayloadAt(packet, samples)) \in Seq(Int \X Int)
           /\ Len(Got(data, PayloadAt(packet, samples))) \in Nat
           /\ Len(Got(data, PayloadAt(packet, samples)))
                 = (Len(data) - PayloadAt(packet, samples)) \div 4
           /\ Len(Got(data, PayloadAt(packet, samples))) <= Len(samples)
           /\ \A i \in 1 .. Len(Got(data, PayloadAt(packet, samples))) :
                 Got(data, PayloadAt(packet, samples))[i] = samples[i]
<1> DEFINE n == Len(packet)
           m == Len(samples)
           c == Len(data)
           offset == PayloadAt(packet, samples)
           payload == SubSeq(data, offset + 1, c)
           k == (c - offset) \div 4
           got == Got(data, offset)
<1>0. data \in Seq(0 .. 255) /\ c \in 0 .. n /\ \A i \in 1 .. c : data[i] = packet[i]
  BY DEF Arrived
<1>1. /\ packet \in Seq(0 .. 255) /\ n \in Nat /\ m \in Nat /\ offset = n - 4 * m
      /\ offset \in Nat
  BY HeaderParsed DEF IsRtp, PayloadAt
<1>2. \A i \in 1 .. m : LET at == n - 4 * (m - i) IN
         samples[i] = <<I16(packet[at - 3], packet[at - 2]), I16(packet[at - 1], packet[at])>>
  BY DEF IsRtp
<1>3. c \in 0 .. n /\ c >= offset
  BY <1>0
<1> HIDE DEF n, m, c, offset
<1>4. c \in Nat /\ c - offset \in Nat /\ k \in Nat /\ k <= m /\ 4 * k <= c - offset
  BY <1>1, <1>3
<1> HIDE DEF k
<1>5. /\ Len(payload) = c - offset
      /\ \A j \in 1 .. c - offset : payload[j] = packet[offset + j] /\ payload[j] \in Int
  <2>1. \A i \in offset + 1 .. c : data[i] \in 0 .. 255
    <3>1. \A i \in offset + 1 .. c : i \in 1 .. c
      BY <1>1, <1>4
    <3> QED  BY <1>0, <3>1, ElementOfSeq DEF c
  <2>2. offset + 1 \in Int /\ c \in Int
    BY <1>1, <1>4
  <2>3. /\ Len(payload) = IF offset + 1 <= c THEN c - (offset + 1) + 1 ELSE 0
        /\ \A i \in 1 .. c - (offset + 1) + 1 : payload[i] = data[offset + 1 + i - 1]
    BY <2>1, <2>2, SubSeqProperties
  <2>4. c - (offset + 1) + 1 = c - offset /\ (~(offset + 1 <= c) => c - offset = 0)
    BY <1>1, <1>4
  <2>5. ASSUME NEW j \in 1 .. c - offset
        PROVE  payload[j] = packet[offset + j] /\ payload[j] \in Int
    <3>1. offset + 1 + j - 1 = offset + j /\ offset + j \in offset + 1 .. c /\ offset + j \in 1 .. c
      BY <1>1, <1>4
    <3> DEFINE x == offset + j
    <3>2. payload[j] = data[x]
      BY <2>3, <2>4, <3>1
    <3> HIDE DEF x
    <3>3. data[x] = packet[x] /\ data[x] \in 0 .. 255
      BY <1>0, <2>1, <3>1 DEF x
    <3>4. payload[j] = packet[x] /\ payload[j] \in Int
      <4> DEFINE y == payload[j]
                 z == data[x]
      <4> HIDE DEF payload, y, z
      <4>1. y = z /\ z = packet[x] /\ z \in Int
        <5>1. y = z
          BY <3>2 DEF y, z
        <5>2. z = packet[x] /\ z \in 0 .. 255
          BY <3>3 DEF z
        <5> QED  BY <5>1, <5>2
      <4>2. y = packet[x] /\ y \in Int
        BY <4>1
      <4> QED  BY <4>2 DEF y
    <3> QED  BY <3>4 DEF x
  <2> QED  BY <2>3, <2>4, <2>5
<1> HIDE DEF payload
<1>6. Pairs(payload) = k
  BY <1>5 DEF Pairs, k
<1>7. got = [i \in 1 .. k |->
        <<I16(payload[4 * i - 3], payload[4 * i - 2]), I16(payload[4 * i - 1], payload[4 * i])>>]
  <2>1. got = decode_s16be_stereo(payload)
    BY DEF Got, payload, c
  <2> HIDE DEF got
  <2> QED  BY <1>6, <2>1 DEF decode_s16be_stereo
<1> HIDE DEF got
<1>8. ASSUME NEW i \in 1 .. k PROVE got[i] = samples[i] /\ got[i] \in Int \X Int
  <2> DEFINE b == 4 * i
  <2>1. /\ i \in 1 .. m /\ i \in Nat
        /\ b - 3 \in 1 .. c - offset /\ b - 2 \in 1 .. c - offset
        /\ b - 1 \in 1 .. c - offset /\ b \in 1 .. c - offset
    BY <1>1, <1>4
  <2> DEFINE at == n - 4 * (m - i)
  <2>2. /\ at - 3 = offset + (b - 3) /\ at - 2 = offset + (b - 2)
        /\ at - 1 = offset + (b - 1) /\ at = offset + b
    <3>1. i \in Int /\ m \in Int /\ n \in Int /\ offset = n - 4 * m
      BY <1>1, SMTT(30)
    <3>2. at = offset + b /\ at \in Int /\ b \in Int /\ offset \in Int
      BY <3>1
    <3> HIDE DEF at, b
    <3> QED  BY <3>2
  <2>3. got[i] = <<I16(payload[b - 3], payload[b - 2]), I16(payload[b - 1], payload[b])>>
    BY <1>7
  <2>4. samples[i] = <<I16(packet[at - 3], packet[at - 2]), I16(packet[at - 1], packet[at])>>
    BY <1>2, <2>1
  <2> HIDE DEF b, at
  <2>5. \A x, y \in Int : I16(x, y) \in Int
    BY DEF I16
  <2>6. /\ payload[b - 3] = packet[at - 3] /\ payload[b - 2] = packet[at - 2]
        /\ payload[b - 1] = packet[at - 1] /\ payload[b] = packet[at]
    BY <1>5, <2>1, <2>2
  <2>7. /\ payload[b - 3] \in Int /\ payload[b - 2] \in Int
        /\ payload[b - 1] \in Int /\ payload[b] \in Int
    BY <1>5, <2>1
  <2>8. got[i] = samples[i]
    BY <2>3, <2>4, <2>6
  <2>9. got[i] \in Int \X Int
    <3> DEFINE x == I16(payload[b - 3], payload[b - 2])
               y == I16(payload[b - 1], payload[b])
    <3>1. x \in Int /\ y \in Int
      BY <2>5, <2>7
    <3> HIDE DEF x, y
    <3>2. <<x, y>> \in Int \X Int
      BY <3>1
    <3> QED  BY <2>3, <3>2 DEF x, y
  <2> QED  BY <2>8, <2>9
<1>9. got \in Seq(Int \X Int) /\ Len(got) = k
  <2>1. got \in [1 .. k -> Int \X Int]
    BY <1>7, <1>8
  <2> QED  BY <1>4, <2>1
<1> QED  BY <1>4, <1>8, <1>9 DEF k, m, c, offset, got

\* The words of a frame: eight of header, eight of zeros, and the samples.
LEMMA FrameWords ==
    ASSUME NEW trx, NEW rate \in Nat, NEW q \in Seq(Int \X Int),
           NEW f, f = build_iq_frame(trx, rate, q)
    PROVE  /\ Len(q) \in Nat /\ Len(f) = 16 + 2 * Len(q)
           /\ f[1] = trx /\ f[2] = rate /\ f[6] = 2 * Len(q) /\ f[8] = 2
           /\ \A i \in 1 .. Len(q) : /\ f[16 + 2 * i - 1] = q[i][1]
                                     /\ f[16 + 2 * i] = q[i][2]
<1> DEFINE n == Len(q)
           S == Int \cup {trx}
           head == <<trx, rate, Float32, 0, 0, 2 * n, IqStream, 2>>
           zeros == [i \in 1 .. 8 |-> 0]
           words == FlattenSeq(q)
           start == head \o zeros
<1>0. n \in Nat
  BY LenProperties
<1>1. /\ n \in Nat
      /\ \A i \in 1 .. n : q[i] \in Seq(Int) /\ Len(q[i]) = 2
  <2>1. \A i \in 1 .. n : q[i] \in Int \X Int
    BY ElementOfSeq
  <2>2. \A x \in Int \X Int : x \in Seq(Int) /\ Len(x) = 2
    <3>1. \A x \in Int \X Int : x = <<x[1], x[2]>> /\ x[1] \in Int /\ x[2] \in Int
      OBVIOUS
    <3>2. \A a, b \in Int : <<a, b>> \in Seq(Int) /\ Len(<<a, b>>) = 2
      OBVIOUS
    <3> QED  BY <3>1, <3>2
  <2> QED  BY <2>1, <2>2, LenProperties
<1>2. q \in Seq(Seq(Int))
  <2>1. q = [i \in 1 .. n |-> q[i]]
    BY LenProperties
  <2>2. q \in [1 .. n -> Seq(Int)]
    BY <1>1, <2>1
  <2> HIDE DEF n
  <2> QED  BY <1>1, <2>2
<1>3. PICK at \in [1 .. n + 1 -> Nat] :
         /\ at[1] = 0 /\ Len(words) = at[n + 1]
         /\ \A k \in 1 .. n : /\ at[k + 1] = at[k] + Len(q[k])
                              /\ at[k + 1] <= at[n + 1]
                              /\ \A j \in 1 .. Len(q[k]) : words[at[k] + j] = q[k][j]
  BY <1>2, FlattenedPlaces
<1>4. words \in Seq(Int)
  BY <1>2, FlattenedPlaces
<1> HIDE DEF words, n
<1>5. \A k \in 1 .. n + 1 : at[k] = 2 * k - 2
  <2> DEFINE Bad == {k \in 1 .. n + 1 : at[k] # 2 * k - 2}
  <2>1. SUFFICES ASSUME Bad # {} PROVE FALSE
    OBVIOUS
  <2>2. Bad \subseteq Nat /\ Bad \subseteq 1 .. n + 1
    BY <1>1
  <2>3. PICK m \in Bad : \A j \in Bad : m <= j
    <3> HIDE DEF Bad
    <3> QED  BY <2>1, <2>2, Smallest
  <2>4. m \in 1 .. n + 1 /\ m \in Nat /\ m # 1
    BY <1>3, <2>2
  <2>5. m - 1 \in 1 .. n /\ m - 1 \in 1 .. n + 1 /\ (m - 1) + 1 = m /\ ~(m <= m - 1)
    BY <1>1, <2>4
  <2>6. at[m - 1] = 2 * (m - 1) - 2
    BY <2>3, <2>5
  <2>7. at[m] = at[m - 1] + 2
    BY <1>1, <1>3, <2>5
  <2> QED  BY <2>3, <2>4, <2>6, <2>7
<1>6. /\ head \in Seq(S) /\ Len(head) = 8
      /\ head[1] = trx /\ head[2] = rate /\ head[6] = 2 * n /\ head[8] = 2
  BY <1>1 DEF Float32, IqStream
<1>7. zeros \in Seq(S) /\ Len(zeros) = 8
  OBVIOUS
<1>8. words \in Seq(S) /\ Len(words) \in Nat
  BY <1>4, SeqMonotonic, LenProperties
<1> HIDE DEF head, zeros, S
<1>9. /\ start \in Seq(S) /\ Len(start) = 16
      /\ start[1] = trx /\ start[2] = rate /\ start[6] = 2 * n /\ start[8] = 2
  <2>1. /\ start \in Seq(S) /\ Len(start) = Len(head) + Len(zeros)
        /\ \A i \in 1 .. Len(head) : start[i] = head[i]
    BY <1>6, <1>7, Appended
  <2> QED  BY <1>6, <1>7, <2>1
<1> HIDE DEF start
<1>13. f = start \o words
  BY DEF build_iq_frame, start, head, zeros, words, n
<1>10. /\ Len(f) = Len(start) + Len(words)
       /\ \A i \in 1 .. Len(start) : f[i] = start[i]
       /\ \A i \in 1 .. Len(words) : f[Len(start) + i] = words[i]
  <2>1. start \in Seq(S) /\ words \in Seq(S)
    BY <1>8, <1>9
  <2> QED  BY <1>13, <2>1, Appended
<1>11. Len(words) = 2 * n
  <2>1. n + 1 \in 1 .. n + 1
    BY <1>1
  <2> QED  BY <1>1, <1>3, <1>5, <2>1
<1>12. ASSUME NEW i \in 1 .. n
       PROVE  f[16 + 2 * i - 1] = q[i][1] /\ f[16 + 2 * i] = q[i][2]
  <2> DEFINE a == 2 * i - 1
             b == 2 * i
  <2>1. /\ i \in Nat /\ a \in 1 .. 2 * n /\ b \in 1 .. 2 * n /\ i \in 1 .. n + 1
        /\ 16 + 2 * i - 1 = 16 + a /\ 2 * i - 2 + 1 = a /\ 2 * i - 2 + 2 = b
    <3>1. i \in Int /\ n \in Int /\ 1 <= i /\ i <= n
      BY <1>0
    <3> QED  BY <3>1
  <2>2. words[at[i] + 1] = q[i][1] /\ words[at[i] + 2] = q[i][2]
    <3>0. Len(q[i]) = 2
      BY <1>1
    <3>1. 1 \in 1 .. Len(q[i]) /\ 2 \in 1 .. Len(q[i])
      BY <3>0
    <3> QED  BY <1>3, <3>1
  <2>3. at[i] = 2 * i - 2
    BY <1>5, <2>1
  <2> HIDE DEF a, b
  <2>4. words[a] = q[i][1] /\ words[b] = q[i][2]
    BY <2>1, <2>2, <2>3
  <2>5. f[16 + a] = words[a] /\ f[16 + b] = words[b]
    BY <1>9, <1>10, <1>11, <2>1
  <2> QED  BY <2>1, <2>4, <2>5 DEF b
<1>14. f[1] = trx /\ f[2] = rate /\ f[6] = 2 * n /\ f[8] = 2 /\ Len(f) = 16 + 2 * n
  <2> QED  BY <1>9, <1>10, <1>11
<1> QED  BY <1>1, <1>12, <1>14 DEF n

LEMMA FrameHeader ==
    ASSUME NEW trx, NEW rate \in Nat, NEW q \in Seq(Int \X Int),
           NEW f, f = build_iq_frame(trx, rate, q)
    PROVE  /\ Len(q) \in Nat /\ Len(f) = 16 + 2 * Len(q)
           /\ f[1] = trx /\ f[2] = rate /\ f[6] = 2 * Len(q)
BY FrameWords

\* One turn: nothing if the header has not arrived, the samples stand for nobody or
\* there are none; else the frame of the pairs that have arrived.
LEMMA TurnFrame ==
    ASSUME NEW d \in Datagrams
    PROVE  \E offset, c \in Nat :
               /\ Len(d.samples) \in Nat /\ Len(d.packet) = offset + 4 * Len(d.samples)
               /\ c = Min({Len(d.data), BufLen}) /\ c <= Len(d.packet)
               /\ \/ /\ rtp_ingest(d.data, d.rate) = NoFrame
                     /\ \/ d.ssrc \notin DOMAIN Home \/ Home[d.ssrc] = Nobody
                        \/ c < offset + 4
                  \/ \E q \in Seq(Int \X Int) :
                        /\ c >= offset
                        /\ Len(q) \in Nat /\ Len(q) = (c - offset) \div 4 /\ Len(q) <= Len(d.samples)
                        /\ \A i \in 1 .. Len(q) : q[i] = d.samples[i]
                        /\ rtp_ingest(d.data, d.rate) = build_iq_frame(Home[d.ssrc], d.rate, q)
<1> DEFINE pkt == SubSeq(d.data, 1, Min({Len(d.data), BufLen}))
           m == Len(d.samples)
           n == Len(d.packet)
           c == Len(pkt)
           offset == PayloadAt(d.packet, d.samples)
           got == Got(pkt, offset)
           f == rtp_ingest(d.data, d.rate)
<1>1. IsRtp(d.packet, d.ssrc, d.samples)
  BY IngestAssumption
<1>2. Arrived(pkt, d.packet) /\ c = Min({Len(d.data), BufLen})
  BY ArrivedOf
<1>3. f = IF ~parse(pkt).ok \/ parse(pkt).ssrc \notin DOMAIN Home
             \/ Home[parse(pkt).ssrc] = Nobody \/ Got(pkt, parse(pkt).offset) = <<>>
          THEN NoFrame
          ELSE build_iq_frame(Home[parse(pkt).ssrc], d.rate, Got(pkt, parse(pkt).offset))
  BY DEF rtp_ingest, Got
<1> HIDE DEF pkt, f
<1>4. /\ offset \in Nat /\ offset <= n /\ n \in Nat /\ m \in Nat /\ c \in Nat /\ c <= n
      /\ c < offset => ~parse(pkt).ok
      /\ c >= offset => parse(pkt) = [ok |-> TRUE, offset |-> offset, ssrc |-> d.ssrc]
  BY <1>1, <1>2, HeaderParsed
<1>5. n = offset + 4 * m
  BY <1>4 DEF PayloadAt
<1>6. c >= offset =>
          /\ got \in Seq(Int \X Int) /\ Len(got) \in Nat
          /\ Len(got) = (c - offset) \div 4 /\ Len(got) <= m
          /\ \A i \in 1 .. Len(got) : got[i] = d.samples[i]
  BY <1>1, <1>2, SamplesDecoded
<1> HIDE DEF offset, n, m, c
<1>7. CASE c < offset
  <2>1. f = NoFrame
    BY <1>3, <1>4, <1>7
  <2>2. c < offset + 4
    BY <1>4, <1>7
  <2> QED  BY <1>2, <1>4, <1>5, <2>1, <2>2 DEF f, n, m
<1>8. CASE c >= offset
  <2>1. f = IF d.ssrc \notin DOMAIN Home \/ Home[d.ssrc] = Nobody \/ got = <<>> THEN NoFrame
            ELSE build_iq_frame(Home[d.ssrc], d.rate, got)
    BY <1>3, <1>4, <1>8
  <2> HIDE DEF got
  <2>2. got = <<>> => c < offset + 4
    <3>1. SUFFICES ASSUME got = <<>> PROVE c < offset + 4
      OBVIOUS
    <3>2. (c - offset) \div 4 = 0
      BY <1>6, <1>8, <3>1, EmptySeq
    <3> QED  BY <1>4, <1>8, <3>2
  <2>3. CASE f = NoFrame /\ (d.ssrc \notin DOMAIN Home \/ Home[d.ssrc] = Nobody \/ c < offset + 4)
    BY <1>2, <1>4, <1>5, <2>3 DEF f, n, m
  <2>4. CASE f = build_iq_frame(Home[d.ssrc], d.rate, got)
    BY <1>2, <1>4, <1>5, <1>6, <1>8, <2>4 DEF f, n, m
  <2> QED  BY <2>1, <2>2, <2>3, <2>4
<1>9. c < offset \/ c >= offset
  BY <1>4
<1> QED  BY <1>7, <1>8, <1>9

\* The samples of a frame are those it was built of.
LEMMA FrameSamples ==
    ASSUME NEW trx, NEW rate \in Nat, NEW q \in Seq(Int \X Int),
           NEW f, f = build_iq_frame(trx, rate, q)
    PROVE  Samples(f) = q /\ Len(f) = HeaderWords + f[6]
<1> DEFINE n == Len(q)
<1>1. /\ n \in Nat /\ Len(f) = 16 + 2 * n /\ f[6] = 2 * n /\ f[8] = 2
      /\ \A i \in 1 .. n : f[16 + 2 * i - 1] = q[i][1] /\ f[16 + 2 * i] = q[i][2]
  BY FrameWords
<1>2. q = [i \in 1 .. n |-> q[i]] /\ \A i \in 1 .. n : q[i] \in Int \X Int
  BY LenProperties, ElementOfSeq
<1> HIDE DEF n
<1>3. f[6] \div f[8] = n
  BY <1>1
<1>4. Samples(f) = [i \in 1 .. n |-> <<f[16 + 2 * i - 1], f[16 + 2 * i]>>]
  BY <1>3 DEF Samples, HeaderWords
<1>5. ASSUME NEW i \in 1 .. n PROVE <<f[16 + 2 * i - 1], f[16 + 2 * i]>> = q[i]
  <2>1. q[i] = <<q[i][1], q[i][2]>>
    BY <1>2
  <2> QED  BY <1>1, <2>1
<1>6. Samples(f) = q
  BY <1>2, <1>4, <1>5
<1> QED  BY <1>1, <1>6 DEF HeaderWords

LEMMA PrefixOf ==
    ASSUME NEW S, NEW s \in Seq(S), NEW t \in Seq(S), Len(s) <= Len(t),
           \A i \in 1 .. Len(s) : s[i] = t[i]
    PROVE  IsPrefix(s, t)
<1> DEFINE c == Len(s)
<1>1. Len(s) \in Nat /\ Len(t) \in Nat
  BY LenProperties
<1>2. c \in 0 .. Len(t) /\ c \in 0 .. Len(s)
  BY <1>1
<1> HIDE DEF c
<1>3. /\ SubSeq(s, 1, c) \in Seq(S) /\ Len(SubSeq(s, 1, c)) = c
      /\ \A i \in 1 .. c : SubSeq(s, 1, c)[i] = s[i]
  BY <1>2, CutShort
<1>4. /\ SubSeq(t, 1, c) \in Seq(S) /\ Len(SubSeq(t, 1, c)) = c
      /\ \A i \in 1 .. c : SubSeq(t, 1, c)[i] = t[i]
  BY <1>2, CutShort
<1>5. \A i \in 1 .. c : SubSeq(s, 1, c)[i] = SubSeq(t, 1, c)[i]
  BY <1>3, <1>4 DEF c
<1>6. SubSeq(s, 1, c) = SubSeq(t, 1, c)
  BY <1>3, <1>4, <1>5, SeqEqual
<1> QED  BY <1>6 DEF IsPrefix, c

-----------------------------------------------------------------------------
IngestSpec == IngestInit /\ [][Turn]_datagram

IngestInv == datagram \in Datagrams \/ datagram = Nothing

LEMMA AlwaysADatagram == IngestSpec => []IngestInv
<1>1. IngestInit => IngestInv
  BY DEF IngestInit, IngestInv
<1>2. IngestInv /\ [Turn]_datagram => IngestInv'
  BY DEF IngestInv, Turn
<1> QED  BY <1>1, <1>2, PTL DEF IngestSpec

\* Whatever datagram the socket returns, of whatever RTP packet and wherever it was
\* cut, the frame that comes of it is as long as its header says, is of the right TRX
\* and rate, and carries the first samples of the packet and nothing else
\* (rtp.rs:48-100, bridge.rs:709-815, protocol.rs:389-413).
THEOREM FramesAreTrue == IngestSpec => []FramesTrue
<1>1. IngestInv => FramesTrue
  <2> SUFFICES ASSUME datagram \in Datagrams,
                      rtp_ingest(datagram.data, datagram.rate) # NoFrame
               PROVE  LET f == rtp_ingest(datagram.data, datagram.rate) IN
                      /\ Len(f) = HeaderWords + f[6]
                      /\ f[1] = Home[datagram.ssrc] /\ f[2] = datagram.rate
                      /\ IsPrefix(Samples(f), datagram.samples)
    BY DEF IngestInv, FramesTrue
  <2> DEFINE d == datagram
             f == rtp_ingest(d.data, d.rate)
  <2>1. d.rate \in Nat /\ d.samples \in Seq(Int \X Int)
    BY IngestAssumption DEF IsRtp
  <2>2. PICK q \in Seq(Int \X Int) :
           /\ Len(q) <= Len(d.samples)
           /\ \A i \in 1 .. Len(q) : q[i] = d.samples[i]
           /\ f = build_iq_frame(Home[d.ssrc], d.rate, q)
    BY TurnFrame
  <2> HIDE DEF d
  <2> HIDE DEF f
  <2>3. f[1] = Home[d.ssrc] /\ f[2] = d.rate
    BY <2>1, <2>2, FrameHeader
  <2>4. Samples(f) = q /\ Len(f) = HeaderWords + f[6]
    BY <2>1, <2>2, FrameSamples
  <2>5. IsPrefix(q, d.samples)
    BY <2>1, <2>2, PrefixOf
  <2> HIDE DEF f
  <2>6. /\ Len(f) = HeaderWords + f[6] /\ f[1] = Home[d.ssrc] /\ f[2] = d.rate
        /\ IsPrefix(Samples(f), d.samples)
    BY <2>2, <2>3, <2>4, <2>5
  <2> QED  BY <2>6 DEF d, f
<1> QED  BY <1>1, AlwaysADatagram, PTL

\* Of a packet of a TRX that is served no pair that arrived is left behind: what the
\* frame lacks, the cut took (bridge.rs:799-815).
THEOREM SamplesAreForwarded == IngestSpec => []SamplesForwarded
<1>1. IngestInv => SamplesForwarded
  <2> SUFFICES ASSUME datagram \in Datagrams, datagram.ssrc \in DOMAIN Home,
                      Home[datagram.ssrc] # Nobody
               PROVE  LET f == rtp_ingest(datagram.data, datagram.rate)
                          arrived == IF f = NoFrame THEN 0 ELSE f[6] \div 2
                          lost == Len(datagram.packet) - Min({Len(datagram.data), BufLen})
                      IN  4 * (Len(datagram.samples) - arrived) < lost + 4
    BY DEF IngestInv, SamplesForwarded
  <2> DEFINE d == datagram
             f == rtp_ingest(d.data, d.rate)
             m == Len(d.samples)
             n == Len(d.packet)
  <2>1. d.rate \in Nat
    BY IngestAssumption
  <2>2. PICK offset, c \in Nat :
               /\ m \in Nat /\ n = offset + 4 * m
               /\ c = Min({Len(d.data), BufLen}) /\ c <= n
               /\ \/ /\ f = NoFrame
                     /\ \/ d.ssrc \notin DOMAIN Home \/ Home[d.ssrc] = Nobody
                        \/ c < offset + 4
                  \/ \E q \in Seq(Int \X Int) :
                        /\ c >= offset
                        /\ Len(q) \in Nat /\ Len(q) = (c - offset) \div 4 /\ Len(q) <= m
                        /\ \A i \in 1 .. Len(q) : q[i] = d.samples[i]
                        /\ f = build_iq_frame(Home[d.ssrc], d.rate, q)
    BY TurnFrame
  <2>3. d.ssrc \in DOMAIN Home /\ Home[d.ssrc] # Nobody
    OBVIOUS
  <2> HIDE DEF d, m, n, f
  <2>4. CASE f = NoFrame /\ c < offset + 4
    <3>1. 4 * (m - 0) < n - c + 4
      BY <2>2, <2>4
    <3> QED  BY <2>2, <2>4, <3>1 DEF d, f, m, n
  <2>5. ASSUME NEW q \in Seq(Int \X Int), c >= offset, Len(q) \in Nat,
               Len(q) = (c - offset) \div 4, Len(q) <= m,
               f = build_iq_frame(Home[d.ssrc], d.rate, q)
        PROVE  4 * (m - IF f = NoFrame THEN 0 ELSE f[6] \div 2) < n - c + 4
    <3> DEFINE k == Len(q)
    <3>2. Len(f) = 16 + 2 * k /\ f[6] = 2 * k /\ k \in Nat
      <4> DEFINE trx == Home[d.ssrc]
                 rate == d.rate
      <4>1. rate \in Nat /\ f = build_iq_frame(trx, rate, q)
        BY <2>1, <2>5
      <4> HIDE DEF trx, rate
      <4> QED  BY <4>1, FrameHeader
    <3>3. f # NoFrame
      <4>1. Len(NoFrame) = 0
        BY DEF NoFrame
      <4> HIDE DEF k
      <4>2. 16 + 2 * k # 0
        BY <3>2
      <4> QED  BY <3>2, <4>1, <4>2
    <3>4. k = (c - offset) \div 4
      BY <2>5
    <3> HIDE DEF k
    <3>5. f[6] \div 2 = k
      BY <3>2
    <3>6. 4 * (m - k) < n - c + 4
      <4>0. \A x \in Nat : 4 * (x \div 4) > x - 4
        OBVIOUS
      <4>1. 4 * k > c - offset - 4
        <5>1. c - offset \in Nat
          BY <2>5
        <5> QED  BY <3>4, <4>0, <5>1
      <4>2. n = offset + 4 * m /\ m \in Int /\ k \in Int /\ c \in Int /\ offset \in Int
        BY <2>2, <3>2
      <4> QED  BY <4>1, <4>2
    <3> QED  BY <3>3, <3>5, <3>6
  <2>6. 4 * (m - IF f = NoFrame THEN 0 ELSE f[6] \div 2) < n - c + 4
    BY <2>2, <2>3, <2>4, <2>5 DEF d, f, m, n
  <2> QED  BY <2>2, <2>6 DEF d, f, m, n
<1> QED  BY <1>1, AlwaysADatagram, PTL

\* At every rate up to 1474560 the broadcast channel of an endpoint has room for two
\* seconds of full frames, up to what rounding costs (state.rs:59-77).
THEOREM BuffersLastTwoSeconds == IngestSpec => []BufferLastsTwoSeconds
<1>1. ASSUME NEW r \in Nat, r <= 1474560
      PROVE  (iq_buffer_size(r) + 2) * 360 >= 2 * r
  <2> DEFINE q == r \div 360
  <2>1. q \in Nat /\ 360 * q <= r /\ r < 360 * (q + 1) /\ q <= 4096
    BY <1>1
  <2>2. iq_buffer_size(r) = IF q * 2 < 128 THEN 128 ELSE IF q * 2 > 8192 THEN 8192 ELSE q * 2
    BY DEF iq_buffer_size, ASSUMED_SAMPLES_PER_FRAME, BUF_TARGET_SECONDS, MinFrames, MaxFrames
  <2> HIDE DEF q
  <2> QED  BY <1>1, <2>1, <2>2
<1>2. IngestInv => BufferLastsTwoSeconds
  <2> SUFFICES ASSUME datagram \in Datagrams, datagram.rate <= 1474560
               PROVE  (iq_buffer_size(datagram.rate) + 2) * ASSUMED_SAMPLES_PER_FRAME
                          >= BUF_TARGET_SECONDS * datagram.rate
    BY DEF IngestInv, BufferLastsTwoSeconds
  <2>1. datagram.rate \in Nat
    BY IngestAssumption
  <2> QED  BY <1>1, <2>1 DEF ASSUMED_SAMPLES_PER_FRAME, BUF_TARGET_SECONDS
<1> QED  BY <1>2, AlwaysADatagram, PTL

-----------------------------------------------------------------------------
(* TLV: reading. *)

LEMMA BytesAreSmall == \A x \in Byte : x \in Nat /\ x <= 255
BY DEF Byte

LEMMA BigEndianBytes ==
    ASSUME NEW data, NEW i \in Nat, NEW n \in 0 .. 4,
           \A j \in 1 .. n : data[i + j - 1] \in Byte
    PROVE  /\ BigEndian(data, i, n) \in Nat
           /\ n = 1 => BigEndian(data, i, n) = data[i]
           /\ n = 2 => BigEndian(data, i, n) = 256 * data[i] + data[i + 1]
<1> DEFINE P(N) == N = [j \in 0 .. n |-> IF j = 0 THEN 0 ELSE N[j - 1] * 256 + data[i + j - 1]]
           a == 0 * 256 + data[i + 1 - 1]
           b == a * 256 + data[i + 2 - 1]
           c == b * 256 + data[i + 3 - 1]
           d == c * 256 + data[i + 4 - 1]
           N0 == [j \in 0 .. n |-> IF j = 0 THEN 0 ELSE IF j = 1 THEN a ELSE IF j = 2 THEN b
                                   ELSE IF j = 3 THEN c ELSE d]
<1>1. P(N0)
  <2> HIDE DEF a, b, c, d
  <2>1. ASSUME NEW j \in 0 .. n
        PROVE  N0[j] = IF j = 0 THEN 0 ELSE N0[j - 1] * 256 + data[i + j - 1]
    <3>1. CASE j = 0
      BY <3>1
    <3>2. CASE j = 1
      BY <3>2 DEF a
    <3>3. CASE j = 2
      BY <3>3 DEF b
    <3>4. CASE j = 3
      BY <3>4 DEF c
    <3>5. CASE j = 4
      BY <3>5 DEF d
    <3> QED  BY <3>1, <3>2, <3>3, <3>4, <3>5
  <2>2. N0 = [j \in 0 .. n |-> N0[j]]
    OBVIOUS
  <2> HIDE DEF N0
  <2> QED  BY <2>1, <2>2
<1> DEFINE M == CHOOSE N : P(N)
<1>2. P(M)
  <2> HIDE DEF P, N0
  <2> QED  BY <1>1
<1>3. BigEndian(data, i, n) = M[n]
  BY DEF BigEndian
<1> HIDE DEF M, N0, a, b, c, d
<1>4. \A j \in 0 .. n : M[j] = IF j = 0 THEN 0 ELSE M[j - 1] * 256 + data[i + j - 1]
  BY <1>2
<1>5. M[0] = 0
  BY <1>4
<1>6. n >= 1 => M[1] = data[i] /\ data[i] \in Byte
  <2>1. SUFFICES ASSUME n >= 1 PROVE M[1] = data[i] /\ data[i] \in Byte
    OBVIOUS
  <2>2. 1 \in 0 .. n /\ 1 \in 1 .. n /\ i + 1 - 1 = i /\ 1 - 1 = 0
    BY <2>1
  <2>3. M[1] = M[1 - 1] * 256 + data[i + 1 - 1] /\ data[i + 1 - 1] \in Byte
    BY <1>4, <2>2
  <2> QED  BY <1>5, <2>2, <2>3 DEF Byte
<1>7. n >= 2 => M[2] = 256 * data[i] + data[i + 1] /\ data[i + 1] \in Byte
  <2>1. SUFFICES ASSUME n >= 2 PROVE M[2] = 256 * data[i] + data[i + 1] /\ data[i + 1] \in Byte
    OBVIOUS
  <2>2. 2 \in 0 .. n /\ 2 \in 1 .. n /\ i + 2 - 1 = i + 1 /\ 2 - 1 = 1
    BY <2>1
  <2>3. M[2] = M[2 - 1] * 256 + data[i + 2 - 1] /\ data[i + 2 - 1] \in Byte
    BY <1>4, <2>2
  <2> QED  BY <1>6, <2>1, <2>2, <2>3 DEF Byte
<1>8. ASSUME NEW j \in 1 .. n, M[j - 1] \in Nat PROVE M[j] \in Nat
  <2>1. j \in 0 .. n /\ j # 0 /\ data[i + j - 1] \in Nat
    BY DEF Byte
  <2>2. M[j] = M[j - 1] * 256 + data[i + j - 1]
    BY <1>4, <2>1
  <2> QED  BY <1>8, <2>1, <2>2
<1>9. M[n] \in Nat
  <2>0. M[0] \in Nat
    BY <1>5
  <2>1. n >= 1 => M[1] \in Nat
    BY <1>8, <2>0
  <2>2. n >= 2 => M[2] \in Nat
    BY <1>8, <2>1
  <2>3. n >= 3 => M[3] \in Nat
    BY <1>8, <2>2
  <2>4. n >= 4 => M[4] \in Nat
    BY <1>8, <2>3
  <2> QED  BY <2>0, <2>1, <2>2, <2>3, <2>4
<1> QED  BY <1>3, <1>6, <1>7, <1>9

\* A length is never read past the end.
LEMMA LengthMoves ==
    ASSUME NEW data \in Seq(Byte), NEW i \in Nat, i > 0
    PROVE  /\ decode_length(data, i).ok \in BOOLEAN
           /\ decode_length(data, i).ok =>
                 /\ decode_length(data, i).len \in Nat /\ decode_length(data, i).next \in Nat
                 /\ i < decode_length(data, i).next /\ decode_length(data, i).next <= Len(data) + 1
<1> DEFINE n == data[i] - 128
<1>0. Len(data) \in Nat
  BY LenProperties
<1>1. CASE i > Len(data)
  BY <1>1 DEF decode_length, Err
<1>2. CASE ~(i > Len(data)) /\ data[i] < 128
  <2>1. data[i] \in Byte
    BY <1>0, <1>2, ElementOfSeq
  <2>2. decode_length(data, i) = [ok |-> TRUE, len |-> data[i], next |-> i + 1]
    BY <1>2 DEF decode_length
  <2>3. decode_length(data, i).ok = TRUE /\ decode_length(data, i).len = data[i]
        /\ decode_length(data, i).next = i + 1
    BY <2>2
  <2>4. data[i] \in Nat
    BY <2>1, BytesAreSmall
  <2>5. i + 1 \in Nat /\ i < i + 1 /\ i + 1 <= Len(data) + 1
    BY <1>0, <1>2
  <2>6. decode_length(data, i).len \in Nat
    BY <2>3, <2>4
  <2>7. /\ decode_length(data, i).next \in Nat /\ i < decode_length(data, i).next
        /\ decode_length(data, i).next <= Len(data) + 1
    BY <2>3, <2>5
  <2>8. decode_length(data, i).ok \in BOOLEAN
    BY <2>3
  <2> QED  BY <2>6, <2>7, <2>8
<1>3. CASE ~(i > Len(data)) /\ ~(data[i] < 128) /\ (n > 4 \/ Len(data) - i < n)
  BY <1>3 DEF decode_length, Err
<1>4. CASE ~(i > Len(data)) /\ ~(data[i] < 128) /\ ~(n > 4 \/ Len(data) - i < n)
  <2>1. data[i] \in Byte
    BY <1>0, <1>4, ElementOfSeq
  <2>2. n \in 0 .. 4 /\ i + n <= Len(data)
    <3> DEFINE b == data[i]
               m == Len(data)
    <3>1. b \in 0 .. 255 /\ ~(b < 128) /\ ~(b - 128 > 4) /\ ~(m - i < b - 128) /\ m \in Nat
      BY <1>0, <1>4, <2>1 DEF Byte
    <3> HIDE DEF b, m
    <3>2. b - 128 \in 0 .. 4 /\ i + (b - 128) <= m
      BY <3>1
    <3> QED  BY <3>2 DEF b, m
  <2>3. decode_length(data, i) = [ok |-> TRUE, len |-> BigEndian(data, i + 1, n), next |-> i + 1 + n]
    BY <1>4 DEF decode_length
  <2> HIDE DEF n
  <2>4. \A j \in 1 .. n : data[(i + 1) + j - 1] \in Byte
    <3>1. \A j \in 1 .. n : (i + 1) + j - 1 \in 1 .. Len(data)
      BY <1>0, <2>2
    <3> QED  BY <3>1, ElementOfSeq
  <2>5. BigEndian(data, i + 1, n) \in Nat
    BY <2>2, <2>4, BigEndianBytes
  <2> QED  BY <1>0, <2>2, <2>3, <2>5
<1> QED  BY <1>1, <1>2, <1>3, <1>4

\* Nor is a field: the next one begins further on, at the end at the latest.
LEMMA FieldMoves ==
    ASSUME NEW data \in Seq(Byte), NEW i \in 1 .. Len(data)
    PROVE  /\ FieldAt(data, i).ok \in BOOLEAN
           /\ FieldAt(data, i).ok => FieldAt(data, i).next \in i + 1 .. Len(data) + 1
<1> DEFINE n == decode_length(data, i + 1)
<1>0. Len(data) \in Nat /\ i \in Nat /\ i + 1 \in Nat /\ i + 1 > 0
  BY LenProperties
<1>1. /\ n.ok \in BOOLEAN
      /\ n.ok => n.len \in Nat /\ n.next \in Nat /\ i + 1 < n.next /\ n.next <= Len(data) + 1
  BY <1>0, LengthMoves
<1> HIDE DEF n
<1>2. FieldAt(data, i) =
        IF ~n.ok THEN n
        ELSE IF Len(data) - n.next + 1 < n.len THEN Err("Truncated")
        ELSE [ok |-> TRUE, next |-> n.next + n.len,
              field |-> TlvField(data[i], DecodedValue(data[i],
                                          SubSeq(data, n.next, n.next + n.len - 1)))]
  BY DEF FieldAt, n
<1>3. CASE ~n.ok
  BY <1>1, <1>2, <1>3
<1>4. CASE n.ok /\ Len(data) - n.next + 1 < n.len
  BY <1>2, <1>4 DEF Err
<1>5. CASE n.ok /\ ~(Len(data) - n.next + 1 < n.len)
  <2>1. n.next + n.len \in i + 1 .. Len(data) + 1
    BY <1>0, <1>1, <1>5
  <2>2. FieldAt(data, i).ok = TRUE /\ FieldAt(data, i).next = n.next + n.len
    BY <1>2, <1>5
  <2> QED  BY <2>1, <2>2
<1> QED  BY <1>3, <1>4, <1>5

\* The fields from position i on, if those further on are F.
ReadFrom(data, i, F) ==
    IF i > Len(data) \/ data[i] = EOL THEN Decoded(data[1], <<>>)
    ELSE IF FieldAt(data, i).ok THEN Prepended(FieldAt(data, i).field, F[FieldAt(data, i).next])
                                ELSE FieldAt(data, i)

\* decode_packet reads one field after the other.
LEMMA DecodeSteps ==
    ASSUME NEW data \in Seq(Byte), data # <<>>, data[1] \in {Status, Command}
    PROVE  \E F : /\ decode_packet(data) = F[2]
                  /\ \A i \in 1 .. Len(data) + 1 : F[i] = ReadFrom(data, i, F)
<1> DEFINE n == Len(data)
           Reads(f, m) == \A i \in m .. n + 1 : f[i] = ReadFrom(data, i, f)
           P(f) == f = [i \in 1 .. n + 1 |-> ReadFrom(data, i, f)]
           Good == {k \in Nat : \E f : Reads(f, n + 2 - k)}
           Bad == {k \in 0 .. n + 1 : k \notin Good}
<1>0. n \in Nat
  BY LenProperties
<1>1. \A i \in 1 .. n : /\ FieldAt(data, i).ok \in BOOLEAN
                        /\ FieldAt(data, i).ok => FieldAt(data, i).next \in i + 1 .. n + 1
  BY FieldMoves
<1>2. ASSUME NEW i \in 1 .. n + 1, NEW f, NEW g, \A j \in i + 1 .. n + 1 : f[j] = g[j]
      PROVE  ReadFrom(data, i, f) = ReadFrom(data, i, g)
  <2>1. CASE i > n \/ data[i] = EOL
    BY <2>1 DEF ReadFrom
  <2>2. CASE ~(i > n \/ data[i] = EOL)
    <3>1. i \in 1 .. n
      BY <1>0, <2>2
    <3>2. FieldAt(data, i).ok => f[FieldAt(data, i).next] = g[FieldAt(data, i).next]
      BY <1>1, <1>2, <3>1
    <3> QED  BY <3>2 DEF ReadFrom
  <2> QED  BY <2>1, <2>2
<1> HIDE DEF n
<1>3. 0 \in Good
  <2>1. Reads(<<>>, n + 2 - 0)
    BY <1>0
  <2> QED  BY <2>1
<1>4. ASSUME NEW k \in 1 .. n + 1, k - 1 \in Good PROVE k \in Good
  <2> DEFINE m == n + 2 - k
  <2>1. m \in 1 .. n + 1 /\ n + 2 - (k - 1) = m + 1 /\ k \in Nat
    BY <1>0
  <2> HIDE DEF m
  <2>2. PICK f : Reads(f, m + 1)
    <3>1. \E f : Reads(f, n + 2 - (k - 1))
      <4> HIDE DEF Reads
      <4> QED  BY <1>4
    <3> QED  BY <2>1, <3>1
  <2> DEFINE g == [i \in m .. n + 1 |-> IF i = m THEN ReadFrom(data, m, f) ELSE f[i]]
  <2>3. \A j \in m + 1 .. n + 1 : g[j] = f[j]
    BY <1>0, <2>1
  <2>4. m \in m .. n + 1 /\ g[m] = ReadFrom(data, m, f)
    BY <1>0, <2>1
  <2> HIDE DEF g
  <2>5. ASSUME NEW i \in m .. n + 1 PROVE g[i] = ReadFrom(data, i, g)
    <3>1. CASE i = m
      <4>1. ReadFrom(data, m, f) = ReadFrom(data, m, g)
        BY <1>2, <2>1, <2>3
      <4> QED  BY <2>4, <3>1, <4>1
    <3>2. CASE i # m
      <4>1. i \in m + 1 .. n + 1 /\ i \in 1 .. n + 1
        BY <1>0, <2>1, <3>2
      <4>2. \A j \in i + 1 .. n + 1 : j \in m + 1 .. n + 1
        BY <1>0, <2>1, <4>1
      <4>3. ReadFrom(data, i, f) = ReadFrom(data, i, g)
        BY <1>2, <2>3, <4>1, <4>2
      <4>4. g[i] = f[i] /\ f[i] = ReadFrom(data, i, f)
        BY <2>2, <2>3, <4>1
      <4> QED  BY <4>3, <4>4
    <3> QED  BY <3>1, <3>2
  <2>6. Reads(g, n + 2 - k)
    BY <2>5 DEF m
  <2> HIDE DEF Reads
  <2> QED  BY <2>1, <2>6
<1>5. Bad = {}
  <2>1. SUFFICES ASSUME Bad # {} PROVE FALSE
    OBVIOUS
  <2> HIDE DEF Good
  <2>2. Bad \subseteq Nat /\ Bad \subseteq 0 .. n + 1 /\ \A k \in 0 .. n + 1 : k \in Bad <=> k \notin Good
    BY <1>0
  <2> HIDE DEF Bad
  <2>3. PICK k \in Bad : \A j \in Bad : k <= j
    BY <2>1, <2>2, Smallest
  <2>4. k \in 1 .. n + 1 /\ k - 1 \in 0 .. n + 1 /\ ~(k <= k - 1)
    BY <1>0, <1>3, <2>2
  <2>5. k - 1 \in Good
    BY <2>2, <2>3, <2>4
  <2> QED  BY <1>4, <2>2, <2>4, <2>5
<1>6. \E f : P(f)
  <2>1. n + 1 \in 0 .. n + 1 /\ n + 2 - (n + 1) = 1
    BY <1>0
  <2>2. n + 1 \in Good
    <3> HIDE DEF Good
    <3> QED  BY <1>5, <2>1
  <2>3. PICK f : Reads(f, 1)
    <3> HIDE DEF Reads
    <3> QED  BY <2>1, <2>2
  <2> DEFINE g == [i \in 1 .. n + 1 |-> f[i]]
  <2>4. \A i \in 1 .. n + 1 : g[i] = f[i] /\ f[i] = ReadFrom(data, i, f)
    BY <2>3
  <2>5. g = [i \in 1 .. n + 1 |-> g[i]]
    OBVIOUS
  <2> HIDE DEF g
  <2>6. ASSUME NEW i \in 1 .. n + 1 PROVE g[i] = ReadFrom(data, i, g)
    <3>1. \A j \in i + 1 .. n + 1 : j \in 1 .. n + 1
      BY <1>0
    <3>2. ReadFrom(data, i, f) = ReadFrom(data, i, g)
      BY <1>2, <2>4, <3>1
    <3> QED  BY <2>4, <3>2
  <2>7. P(g)
    BY <2>5, <2>6
  <2> HIDE DEF P
  <2> QED  BY <2>7
<1> DEFINE F == CHOOSE f : P(f)
<1>7. P(F)
  <2> HIDE DEF P
  <2> QED  BY <1>6
<1>8. decode_packet(data) = F[2]
  BY DEF decode_packet, ReadFrom, n
<1> HIDE DEF F
<1>9. \A i \in 1 .. n + 1 : F[i] = ReadFrom(data, i, F)
  BY <1>7
<1> QED  BY <1>8, <1>9 DEF n

-----------------------------------------------------------------------------
(* TLV: what was written is what is read. *)

\* From position p on, data is e, or what is left of e at the end of data.
Holds(data, p, e) == \A j \in 1 .. Len(e) : p + j - 1 <= Len(data) => data[p + j - 1] = e[j]

\* A length that encode_length can write.
Encodable(len) == len \in Nat /\ len <= 65535

LEMMA ByteHalves ==
    ASSUME NEW len, Encodable(len)
    PROVE  /\ (len \div 256) % 256 \in Byte /\ len % 256 \in Byte
           /\ len = 256 * ((len \div 256) % 256) + (len % 256)
<1>a. len \in Nat /\ len <= 65535
  BY DEF Encodable
<1> DEFINE hi == len \div 256
           lo == len % 256
<1>0. \A x \in 0 .. 255 : x % 256 = x
  OBVIOUS
<1>1. len = 256 * hi + lo /\ lo \in 0 .. 255 /\ hi \in Int
  BY <1>a
<1> HIDE DEF hi, lo
<1>2. hi \in 0 .. 255
  BY <1>a, <1>1
<1>3. hi % 256 = hi
  BY <1>0, <1>2
<1>4. lo \in Byte /\ hi % 256 \in Byte /\ len = 256 * (hi % 256) + lo
  BY <1>1, <1>2, <1>3 DEF Byte
<1> QED  BY <1>4 DEF hi, lo

LEMMA LengthBytes ==
    ASSUME NEW len, Encodable(len)
    PROVE  /\ len \in Nat
           /\ len < 128 => encode_length(len) = <<len>> /\ len \in Byte
           /\ len >= 128 /\ len <= 255 => encode_length(len) = <<129, len>> /\ len \in Byte
           /\ len > 255 => encode_length(len) = <<130, (len \div 256) % 256, len % 256>>
<1>0. len \in Nat
  BY DEF Encodable
<1>1. ASSUME len < 128 PROVE encode_length(len) = <<len>> /\ len \in Byte
  BY <1>0, <1>1 DEF encode_length, Byte
<1>2. ASSUME len >= 128, len <= 255 PROVE encode_length(len) = <<129, len>> /\ len \in Byte
  BY <1>0, <1>2 DEF encode_length, Byte
<1>3. ASSUME len > 255 PROVE encode_length(len) = <<130, (len \div 256) % 256, len % 256>>
  <2>1. ~(len < 128) /\ ~(len <= 255)
    BY <1>0, <1>3
  <2> QED  BY <2>1 DEF encode_length
<1> QED  BY <1>0, <1>1, <1>2, <1>3

LEMMA OneByteMore ==
    ASSUME NEW data, NEW p \in Nat, data[p + 1] \in Byte
    PROVE  BigEndian(data, p + 1, 1) = data[p + 1]
<1> DEFINE q == p + 1
<1>1. q \in Nat /\ data[q] \in Byte
  OBVIOUS
<1> HIDE DEF q
<1>2. \A j \in 1 .. 1 : q + j - 1 = q
  BY <1>1
<1>3. \A j \in 1 .. 1 : data[q + j - 1] \in Byte
  BY <1>1, <1>2
<1>4. BigEndian(data, q, 1) = data[q]
  BY <1>1, <1>3, BigEndianBytes
<1> QED  BY <1>4 DEF q

LEMMA TwoBytesMore ==
    ASSUME NEW data, NEW p \in Nat, data[p + 1] \in Byte, data[p + 2] \in Byte
    PROVE  BigEndian(data, p + 1, 2) = 256 * data[p + 1] + data[p + 2]
<1> DEFINE q == p + 1
<1>1. q \in Nat /\ data[q] \in Byte /\ q + 1 = p + 2
  OBVIOUS
<1> HIDE DEF q
<1>2. \A j \in 1 .. 2 : q + j - 1 = q \/ q + j - 1 = q + 1
  BY <1>1
<1>3. \A j \in 1 .. 2 : data[q + j - 1] \in Byte
  BY <1>1, <1>2
<1>4. BigEndian(data, q, 2) = 256 * data[q] + data[q + 1]
  BY <1>1, <1>3, BigEndianBytes
<1> QED  BY <1>1, <1>4 DEF q

LEMMA LengthRead ==
    ASSUME NEW len, Encodable(len), NEW data \in Seq(Byte), NEW p \in Nat, p > 0,
           Holds(data, p, encode_length(len))
    PROVE  /\ len \in Nat
           /\ encode_length(len) \in Seq(Byte) /\ Len(encode_length(len)) \in 1 .. 3
           /\ p + Len(encode_length(len)) - 1 <= Len(data) =>
                 decode_length(data, p)
                   = [ok |-> TRUE, len |-> len, next |-> p + Len(encode_length(len))]
           /\ p + Len(encode_length(len)) - 1 > Len(data) => ~decode_length(data, p).ok
<1> DEFINE e == encode_length(len)
           n == Len(data)
           d == decode_length(data, p)
           Goal == /\ e \in Seq(Byte) /\ Len(e) \in 1 .. 3
                   /\ p + Len(e) - 1 <= n => d = [ok |-> TRUE, len |-> len, next |-> p + Len(e)]
                   /\ p + Len(e) - 1 > n => ~d.ok
<1>0. n \in Nat /\ len \in Nat
  BY LenProperties, LengthBytes
<1>1. \A j \in 1 .. Len(e) : p + j - 1 <= n => data[p + j - 1] = e[j]
  BY DEF Holds
<1>2. p > n => d = Err("Truncated")
  BY DEF decode_length
<1>3. p <= n /\ data[p] < 128 => d = [ok |-> TRUE, len |-> data[p], next |-> p + 1]
  BY <1>0 DEF decode_length
<1>4. ASSUME p <= n, NEW b \in {1, 2}, data[p] = 128 + b
      PROVE  d = IF n - p < b THEN Err("LengthTooLarge")
                 ELSE [ok |-> TRUE, len |-> BigEndian(data, p + 1, b), next |-> p + 1 + b]
  <2> DEFINE m == data[p] - 128
  <2>1. m = b /\ ~(m > 4) /\ ~(data[p] < 128) /\ ~(p > n)
    BY <1>0, <1>4
  <2>2. d = IF ~(p > n) /\ ~(data[p] < 128)
            THEN IF m > 4 \/ n - p < m THEN Err("LengthTooLarge")
                 ELSE [ok |-> TRUE, len |-> BigEndian(data, p + 1, m), next |-> p + 1 + m]
            ELSE d
    BY DEF decode_length
  <2> HIDE DEF m, n, d
  <2> QED  BY <2>1, <2>2
<1> HIDE DEF n, d
<1>5. ASSUME len < 128 PROVE Goal
  <2>0. e = <<len>> /\ len \in Byte
    BY <1>5, LengthBytes
  <2> HIDE DEF e
  <2>1. e \in Seq(Byte) /\ Len(e) = 1 /\ e[1] = len
    BY <2>0
  <2>2. p <= n => data[p] = len
    <3>1. 1 \in 1 .. 1 /\ p + 1 - 1 = p
      OBVIOUS
    <3> QED  BY <1>1, <2>1, <3>1
  <2>3. p + Len(e) - 1 = p /\ p + Len(e) = p + 1
    BY <2>1
  <2>4. ~Err("Truncated").ok
    BY DEF Err
  <2>5. p > n => ~d.ok
    BY <1>2, <2>4
  <2>6. p <= n => d = [ok |-> TRUE, len |-> len, next |-> p + 1]
    BY <1>3, <1>5, <2>2
  <2> QED  BY <2>1, <2>3, <2>5, <2>6
<1>6. ASSUME len >= 128, len <= 255 PROVE Goal
  <2>0. e = <<129, len>> /\ len \in Byte /\ 129 \in Byte
    BY <1>6, LengthBytes DEF Byte
  <2> HIDE DEF e
  <2>1. e \in Seq(Byte) /\ Len(e) = 2 /\ e[1] = 129 /\ e[2] = len
    BY <2>0
  <2>2. (p <= n => data[p] = 128 + 1) /\ (p + 1 <= n => data[p + 1] = len)
    <3>1. 1 \in 1 .. 2 /\ 2 \in 1 .. 2 /\ p + 1 - 1 = p /\ p + 2 - 1 = p + 1
      OBVIOUS
    <3> QED  BY <1>1, <2>1, <3>1
  <2>3. p + Len(e) - 1 = p + 1 /\ p + Len(e) = p + 1 + 1
    BY <2>1
  <2>4. ~Err("Truncated").ok /\ ~Err("LengthTooLarge").ok
    BY DEF Err
  <2>5. ASSUME p + 1 <= n PROVE d = [ok |-> TRUE, len |-> len, next |-> p + 1 + 1]
    <3>1. p <= n /\ ~(n - p < 1) /\ 1 \in {1, 2}
      BY <1>0, <2>5
    <3>2. BigEndian(data, p + 1, 1) = len
      BY <2>0, <2>2, <2>5, OneByteMore
    <3> QED  BY <1>4, <2>2, <3>1, <3>2
  <2>6. ASSUME p + 1 > n PROVE ~d.ok
    <3>1. p > n \/ (p <= n /\ n - p < 1)
      BY <1>0, <2>6
    <3> QED  BY <1>2, <1>4, <2>2, <2>4, <3>1
  <2> QED  BY <2>1, <2>3, <2>5, <2>6
<1>7. ASSUME len > 255 PROVE Goal
  <2> DEFINE hi == (len \div 256) % 256
             lo == len % 256
  <2>0. /\ e = <<130, hi, lo>> /\ hi \in Byte /\ lo \in Byte /\ 130 \in Byte
        /\ len = 256 * hi + lo
    <3>1. e = <<130, hi, lo>>
      BY <1>7, LengthBytes
    <3>2. hi \in Byte /\ lo \in Byte /\ len = 256 * hi + lo
      BY ByteHalves
    <3>3. 130 \in Byte
      BY DEF Byte
    <3> QED  BY <3>1, <3>2, <3>3
  <2> HIDE DEF e, hi, lo
  <2>1. e \in Seq(Byte) /\ Len(e) = 3 /\ e[1] = 130 /\ e[2] = hi /\ e[3] = lo
    BY <2>0
  <2>2. /\ p <= n => data[p] = 128 + 2
        /\ p + 1 <= n => data[p + 1] = hi
        /\ p + 2 <= n => data[p + 2] = lo
    <3>1. /\ 1 \in 1 .. 3 /\ 2 \in 1 .. 3 /\ 3 \in 1 .. 3
          /\ p + 1 - 1 = p /\ p + 2 - 1 = p + 1 /\ p + 3 - 1 = p + 2
      OBVIOUS
    <3> QED  BY <1>1, <2>1, <3>1
  <2>3. p + Len(e) - 1 = p + 2 /\ p + Len(e) = p + 1 + 2 /\ Len(e) \in 1 .. 3
    BY <2>1
  <2>4. ~Err("Truncated").ok /\ ~Err("LengthTooLarge").ok
    BY DEF Err
  <2>5. ASSUME p + 2 <= n PROVE d = [ok |-> TRUE, len |-> len, next |-> p + 1 + 2]
    <3>1. p <= n /\ p + 1 <= n /\ ~(n - p < 2) /\ 2 \in {1, 2}
      BY <1>0, <2>5
    <3>2. BigEndian(data, p + 1, 2) = len
      BY <2>0, <2>2, <2>5, <3>1, TwoBytesMore
    <3> QED  BY <1>4, <2>2, <3>1, <3>2
  <2>6. ASSUME p + 2 > n PROVE ~d.ok
    <3>1. p > n \/ (p <= n /\ n - p < 2)
      BY <1>0, <2>6
    <3> QED  BY <1>2, <1>4, <2>2, <2>4, <3>1
  <2> QED  BY <2>1, <2>3, <2>5, <2>6
<1>8. Goal
  <2> HIDE DEF Goal
  <2> QED  BY <1>0, <1>5, <1>6, <1>7
<1> QED  BY <1>0, <1>8 DEF e, n, d

LEMMA LengthEncoded ==
    ASSUME NEW len, Encodable(len)
    PROVE  /\ len \in Nat /\ encode_length(len) \in Seq(Byte)
           /\ Len(encode_length(len)) \in 1 .. 3
<1>1. <<>> \in Seq(Byte) /\ Len(<<>>) = 0 /\ 1 \in Nat /\ 1 > 0
  OBVIOUS
<1>2. Holds(<<>>, 1, encode_length(len))
  <2>1. \A j \in 1 .. Len(encode_length(len)) : ~(1 + j - 1 <= Len(<<>>))
    BY <1>1
  <2> QED  BY <2>1 DEF Holds
<1> QED  BY <1>1, <1>2, LengthRead

LEMMA BytesAppended ==
    ASSUME NEW s \in Seq(Byte), NEW t \in Seq(Byte)
    PROVE  /\ s \o t \in Seq(Byte) /\ Len(s) \in Nat /\ Len(t) \in Nat
           /\ Len(s \o t) = Len(s) + Len(t)
           /\ \A i \in 1 .. Len(s) : (s \o t)[i] = s[i]
           /\ \A i \in 1 .. Len(t) : (s \o t)[Len(s) + i] = t[i]
BY Appended

\* Up to eight bytes are a u64: zeros before them.
LEMMA IntDecoded ==
    ASSUME NEW b \in Seq(Byte), Len(b) <= 8
    PROVE  /\ decode_int(b) \in Seq(Byte) /\ Len(decode_int(b)) = 8 /\ Len(b) \in Nat
           /\ \A i \in 1 .. 8 : decode_int(b)[i] = IF i <= 8 - Len(b) THEN 0 ELSE b[i - (8 - Len(b))]
<1> DEFINE n == Len(b)
           z == Zeros(8)
           w == z \o b
           r == SubSeq(w, n + 1, n + 8)
<1>1. n \in Nat /\ n <= 8
  BY LenProperties
<1>2. z \in Seq(Byte) /\ Len(z) = 8 /\ \A i \in 1 .. 8 : z[i] = 0
  <2>1. 0 \in Byte
    BY DEF Byte
  <2> QED  BY <2>1 DEF Zeros
<1> HIDE DEF z
<1>3. /\ w \in Seq(Byte) /\ Len(w) = Len(z) + Len(b)
      /\ \A i \in 1 .. Len(z) : w[i] = z[i]
      /\ \A i \in 1 .. Len(b) : w[Len(z) + i] = b[i]
  <2> HIDE DEF n
  <2> QED  BY <1>2, BytesAppended
<1>4. Len(w) = n + 8
  BY <1>1, <1>2, <1>3
<1>5. decode_int(b) = r
  <2> DEFINE m == Len(w)
  <2>1. m - 8 + 1 = n + 1 /\ m = n + 8
    BY <1>1, <1>4
  <2>2. decode_int(b) = SubSeq(w, m - 8 + 1, m)
    BY DEF decode_int, LastBytes, z
  <2> HIDE DEF w, m, n
  <2> QED  BY <2>1, <2>2
<1> HIDE DEF w, n
<1>6. \A i \in n + 1 .. n + 8 : w[i] \in Byte
  <2>1. \A i \in n + 1 .. n + 8 : i \in 1 .. n + 8
    BY <1>1
  <2> QED  BY <1>3, <1>4, <2>1, ElementOfSeq
<1>7. /\ r \in Seq(Byte) /\ Len(r) = IF n + 1 <= n + 8 THEN (n + 8) - (n + 1) + 1 ELSE 0
      /\ \A i \in 1 .. (n + 8) - (n + 1) + 1 : r[i] = w[(n + 1) + i - 1]
  <2> DEFINE x == n + 1
             y == n + 8
  <2>1. x \in Int /\ y \in Int
    BY <1>1
  <2>2. \A i \in x .. y : w[i] \in Byte
    BY <1>6
  <2> HIDE DEF x, y
  <2>3. /\ SubSeq(w, x, y) \in Seq(Byte)
        /\ Len(SubSeq(w, x, y)) = IF x <= y THEN y - x + 1 ELSE 0
        /\ \A i \in 1 .. y - x + 1 : SubSeq(w, x, y)[i] = w[x + i - 1]
    BY <2>1, <2>2, SubSeqProperties
  <2> QED  BY <2>3 DEF x, y
<1>8. n + 1 <= n + 8 /\ (n + 8) - (n + 1) + 1 = 8
  BY <1>1
<1> HIDE DEF r
<1>9. ASSUME NEW i \in 1 .. 8
      PROVE  r[i] = IF i <= 8 - n THEN 0 ELSE b[i - (8 - n)]
  <2>1. r[i] = w[n + i]
    <3>1. (n + 1) + i - 1 = n + i
      BY <1>1
    <3> QED  BY <1>7, <1>8, <3>1
  <2>2. CASE i <= 8 - n
    <3>1. n + i \in 1 .. 8
      BY <1>1, <2>2
    <3> QED  BY <1>2, <1>3, <2>1, <2>2, <3>1
  <2>3. CASE ~(i <= 8 - n)
    <3> DEFINE k == i - (8 - n)
    <3>1. k \in 1 .. n /\ 8 + k = n + i
      BY <1>1, <2>3
    <3> HIDE DEF k
    <3>2. w[8 + k] = b[k]
      BY <1>2, <1>3, <3>1 DEF n
    <3> QED  BY <2>1, <2>3, <3>1, <3>2 DEF k
  <2> QED  BY <2>2, <2>3
<1> QED  BY <1>1, <1>5, <1>7, <1>8, <1>9 DEF n

\* The last four of eight bytes.
LEMMA LastFour ==
    ASSUME NEW v \in Seq(Byte), Len(v) = 8
    PROVE  /\ AsU32(v) \in Seq(Byte) /\ Len(AsU32(v)) = 4
           /\ \A i \in 1 .. 4 : AsU32(v)[i] = v[4 + i]
<1>1. AsU32(v) = SubSeq(v, 5, 8)
  BY DEF AsU32, LastBytes
<1>2. \A i \in 5 .. 8 : v[i] \in Byte
  BY ElementOfSeq
<1>3. /\ SubSeq(v, 5, 8) \in Seq(Byte)
      /\ Len(SubSeq(v, 5, 8)) = IF 5 <= 8 THEN 8 - 5 + 1 ELSE 0
      /\ \A i \in 1 .. 8 - 5 + 1 : SubSeq(v, 5, 8)[i] = v[5 + i - 1]
  BY <1>2, SubSeqProperties
<1>4. \A i \in 1 .. 4 : 5 + i - 1 = 4 + i
  OBVIOUS
<1> QED  BY <1>1, <1>3, <1>4

\* A number that keeps its leading zeros reads back as it is.
LEMMA WholeIntDecoded ==
    ASSUME NEW v \in Seq(Byte)
    PROVE  /\ Len(v) = 8 => decode_int(v) = v
           /\ Len(v) = 4 => AsU32(decode_int(v)) = v
<1>1. ASSUME Len(v) = 8 PROVE decode_int(v) = v
  <2>1. \A i \in 1 .. 8 : ~(i <= 8 - 8) /\ i - (8 - 8) = i
    OBVIOUS
  <2> DEFINE w == decode_int(v)
             l == Len(v)
  <2>2. l = 8
    BY <1>1
  <2>3. /\ w \in Seq(Byte) /\ Len(w) = 8 /\ l \in Nat
        /\ \A i \in 1 .. 8 : w[i] = IF i <= 8 - l THEN 0 ELSE v[i - (8 - l)]
    <3>1. Len(v) <= 8
      BY <2>2
    <3> QED  BY <3>1, IntDecoded, Zenon
  <2> HIDE DEF w, l
  <2>4. \A i \in 1 .. 8 : w[i] = v[i]
    BY <2>1, <2>2, <2>3
  <2>5. w = v
    BY <1>1, <2>3, <2>4, SeqEqual
  <2> QED  BY <2>5 DEF w
<1>2. ASSUME Len(v) = 4 PROVE AsU32(decode_int(v)) = v
  <2> DEFINE w == decode_int(v)
             l == Len(v)
  <2>0. l = 4
    BY <1>2
  <2>1. /\ w \in Seq(Byte) /\ Len(w) = 8 /\ l \in Nat
        /\ \A i \in 1 .. 8 : w[i] = IF i <= 8 - l THEN 0 ELSE v[i - (8 - l)]
    <3>1. Len(v) <= 8
      BY <2>0
    <3> QED  BY <3>1, IntDecoded, Zenon
  <2> HIDE DEF w, l
  <2>2. \A i \in 1 .. 4 : w[4 + i] = v[i]
    <3>1. \A i \in 1 .. 4 : 4 + i \in 1 .. 8 /\ ~(4 + i <= 8 - 4) /\ 4 + i - (8 - 4) = i
      OBVIOUS
    <3> QED  BY <2>0, <2>1, <3>1
  <2>3. AsU32(w) \in Seq(Byte) /\ Len(AsU32(w)) = 4 /\ \A i \in 1 .. 4 : AsU32(w)[i] = v[i]
    BY <2>1, <2>2, LastFour
  <2>4. AsU32(w) = v
    BY <1>2, <2>3, SeqEqual
  <2> QED  BY <2>4 DEF w
<1> QED  BY <1>1, <1>2

\* Without its leading zeros it reads back too.
LEMMA SignificantDecoded ==
    ASSUME NEW v \in Seq(Byte), Len(v) = 8
    PROVE  /\ Significant(v) \in Seq(Byte) /\ Len(Significant(v)) <= 8 /\ Len(Significant(v)) \in Nat
           /\ decode_int(Significant(v)) = v
<1> DEFINE Z == {n \in 0 .. 8 : \A i \in 1 .. n : v[i] = 0}
           M == {8 - n : n \in Z}
           k == CHOOSE n \in Z : \A m \in Z : m <= n
           r == Significant(v)
<1>1. k \in Z
  <2>1. 0 \in Z
    OBVIOUS
  <2>3. Z \subseteq 0 .. 8
    OBVIOUS
  <2>2. M \subseteq Nat /\ M # {}
    <3>1. \A n \in 0 .. 8 : 8 - n \in Nat
      OBVIOUS
    <3> HIDE DEF Z
    <3> QED  BY <2>1, <2>3, <3>1
  <2>4. \A n \in Z : 8 - n \in M
    OBVIOUS
  <2>5. \A x \in M : \E n \in Z : x = 8 - n
    OBVIOUS
  <2> HIDE DEF M, Z
  <2>6. PICK x \in M : \A y \in M : x <= y
    BY <2>2, Smallest
  <2>7. PICK n \in Z : x = 8 - n
    BY <2>5
  <2>8. ASSUME NEW m \in Z PROVE m <= n
    <3>1. 8 - n <= 8 - m
      BY <2>4, <2>6, <2>7
    <3>2. n \in 0 .. 8 /\ m \in 0 .. 8
      BY <2>3, <2>7
    <3> QED  BY <3>1, <3>2
  <2> QED  BY <2>7, <2>8
<1>2. r = SubSeq(v, 1 + k, 8)
  BY DEF Significant
<1>3. k \in 0 .. 8 /\ \A i \in 1 .. k : v[i] = 0
  <2> HIDE DEF k
  <2> QED  BY <1>1
<1> HIDE DEF k, r, Z, M
<1>4. \A i \in 1 + k .. 8 : v[i] \in Byte
  <2>1. \A i \in 1 + k .. 8 : i \in 1 .. 8
    BY <1>3
  <2> QED  BY <2>1, ElementOfSeq
<1>5. /\ r \in Seq(Byte) /\ Len(r) = 8 - k
      /\ \A i \in 1 .. 8 - k : r[i] = v[k + i]
  <2> DEFINE x == 1 + k
  <2>0. x \in Int /\ 8 - x + 1 = 8 - k /\ (x > 8 => 8 - k = 0) /\ \A i \in 1 .. 8 - k : x + i - 1 = k + i
    BY <1>3
  <2>1. \A i \in x .. 8 : v[i] \in Byte
    BY <1>4
  <2> HIDE DEF x
  <2>2. /\ SubSeq(v, x, 8) \in Seq(Byte)
        /\ Len(SubSeq(v, x, 8)) = IF x <= 8 THEN 8 - x + 1 ELSE 0
        /\ \A i \in 1 .. 8 - x + 1 : SubSeq(v, x, 8)[i] = v[x + i - 1]
    BY <2>0, <2>1, SubSeqProperties
  <2>3. r = SubSeq(v, x, 8)
    BY <1>2 DEF x
  <2> QED  BY <2>0, <2>2, <2>3
<1>6. Len(r) <= 8 /\ 8 - Len(r) = k /\ Len(r) \in Nat
  BY <1>3, <1>5
<1>7. /\ decode_int(r) \in Seq(Byte) /\ Len(decode_int(r)) = 8
      /\ \A i \in 1 .. 8 : decode_int(r)[i] = IF i <= k THEN 0 ELSE r[i - k]
  BY <1>5, <1>6, IntDecoded
<1>8. ASSUME NEW i \in 1 .. 8 PROVE decode_int(r)[i] = v[i]
  <2>1. CASE i <= k
    <3>1. i \in 1 .. k
      BY <1>3, <2>1
    <3> QED  BY <1>3, <1>7, <2>1, <3>1
  <2>2. CASE ~(i <= k)
    <3>1. i - k \in 1 .. 8 - k /\ k + (i - k) = i
      BY <1>3, <2>2
    <3> QED  BY <1>5, <1>7, <2>2, <3>1
  <2> QED  BY <2>1, <2>2
<1>9. decode_int(r) = v
  BY <1>7, <1>8, SeqEqual
<1> QED  BY <1>5, <1>6, <1>9 DEF r

\* The bytes of a field's value on the wire.
Body(f) == IF f.value.kind = "Int" THEN Significant(f.value.bytes) ELSE f.value.bytes

LEMMA TagsApart ==
    /\ Frequencies \cap Edges = {} /\ Frequencies \cap Blobs = {} /\ Edges \cap Blobs = {}
    /\ EOL = 0
BY DEF Frequencies, Edges, Blobs, RADIO_FREQUENCY, PRESET, EOL

\* A field that fits its tag is read as it was written.
LEMMA ValueRead ==
    ASSUME NEW f \in Fields
    PROVE  /\ f.tag \in 1 .. 255
           /\ Body(f) \in Seq(Byte) /\ Encodable(Len(Body(f)))
           /\ encode_field(f) = <<f.tag>> \o (encode_length(Len(Body(f))) \o Body(f))
           /\ TlvField(f.tag, DecodedValue(f.tag, Body(f))) = f
<1> DEFINE tag == f.tag
           k == f.value.kind
           v == f.value.bytes
           b == Body(f)
           Done ==
               /\ b \in Seq(Byte) /\ Encodable(Len(b))
               /\ encode_field(f) = <<tag>> \o (encode_length(Len(b)) \o b)
               /\ DecodedValue(tag, b) = Value(k, v)
<1>1. /\ tag \in 1 .. 255 /\ v \in Seq(Byte) /\ Len(v) \in Nat
      /\ f = TlvField(tag, Value(k, v))
  BY LenProperties DEF Fields, TlvField, Value
<1>2. \/ k = "Int" /\ Len(v) = 8 /\ tag \notin Frequencies \cup Edges \cup Blobs
      \/ k = "Double" /\ Len(v) = 8 /\ tag \in Frequencies \cup Edges
      \/ k = "Float" /\ Len(v) = 4 /\ tag \in Frequencies \cup Edges
      \/ k = "Bytes" /\ Len(v) < 65536 /\ tag \in Blobs
  BY DEF Fields, Fits
<1>3. /\ k = "Int" => b = Significant(v) /\ encode_field(f) = <<tag>> \o encode_int(v)
      /\ k # "Int" => b = v /\ encode_field(f) = <<tag>> \o (encode_length(Len(v)) \o v)
  BY DEF Body, encode_field
<1> HIDE DEF tag, k, v, b
<1>4. ASSUME k = "Int", Len(v) = 8, tag \notin Frequencies \cup Edges \cup Blobs
      PROVE  Done
  <2>0. /\ b \in Seq(Byte) /\ Len(b) \in Nat /\ Len(b) <= 8 /\ decode_int(b) = v
    BY <1>1, <1>3, <1>4, SignificantDecoded
  <2>1. b \in Seq(Byte) /\ Encodable(Len(b)) /\ decode_int(b) = v
    BY <2>0 DEF Encodable
  <2>2. encode_field(f) = <<tag>> \o (encode_length(Len(b)) \o b)
    BY <1>3, <1>4 DEF encode_int
  <2>3. DecodedValue(tag, b) = Value("Int", decode_int(b))
    BY <1>4 DEF DecodedValue
  <2> QED  BY <1>4, <2>1, <2>2, <2>3
<1>5. ASSUME k = "Double", Len(v) = 8, tag \in Frequencies \cup Edges
      PROVE  Done
  <2>1. b = v /\ decode_int(v) = v
    BY <1>1, <1>3, <1>5, WholeIntDecoded
  <2>2. DecodedValue(tag, v) = Value("Double", decode_int(v))
    BY <1>5, TagsApart DEF DecodedValue
  <2>3. Encodable(Len(v))
    BY <1>5 DEF Encodable
  <2>4. encode_field(f) = <<tag>> \o (encode_length(Len(v)) \o v)
    BY <1>3, <1>5
  <2>5. DecodedValue(tag, v) = Value(k, v)
    BY <1>5, <2>1, <2>2
  <2>6. b = v
    BY <1>3, <1>5
  <2> QED  BY <1>1, <2>3, <2>4, <2>5, <2>6, Zenon
<1>6. ASSUME k = "Float", Len(v) = 4, tag \in Frequencies \cup Edges
      PROVE  Done
  <2>1. b = v /\ AsU32(decode_int(v)) = v
    BY <1>1, <1>3, <1>6, WholeIntDecoded
  <2>2. DecodedValue(tag, v) = Value("Float", AsU32(decode_int(v)))
    BY <1>6, TagsApart DEF DecodedValue
  <2>3. Encodable(Len(v))
    BY <1>6 DEF Encodable
  <2>4. encode_field(f) = <<tag>> \o (encode_length(Len(v)) \o v)
    BY <1>3, <1>6
  <2>5. DecodedValue(tag, v) = Value(k, v)
    BY <1>6, <2>1, <2>2
  <2>6. b = v
    BY <1>3, <1>6
  <2> QED  BY <1>1, <2>3, <2>4, <2>5, <2>6, Zenon
<1>7. ASSUME k = "Bytes", Len(v) < 65536, tag \in Blobs
      PROVE  Done
  <2>1. b = v
    BY <1>3, <1>7
  <2>2. DecodedValue(tag, v) = Value("Bytes", v)
    BY <1>7, TagsApart DEF DecodedValue
  <2>3. Encodable(Len(v))
    BY <1>1, <1>7 DEF Encodable
  <2> QED  BY <1>1, <1>3, <1>7, <2>1, <2>2, <2>3
<1>8. Done
  <2> HIDE DEF Done
  <2> QED  BY <1>2, <1>4, <1>5, <1>6, <1>7
<1>9. TlvField(tag, DecodedValue(tag, b)) = f
  BY <1>1, <1>8
<1> QED  BY <1>1, <1>8, <1>9 DEF tag, b

\* A sequence, and where its parts are, when it is the tag, the length and the body.
LEMMA FieldPlaces ==
    ASSUME NEW tag \in Byte, NEW e \in Seq(Byte), NEW b \in Seq(Byte)
    PROVE  /\ <<tag>> \o (e \o b) \in Seq(Byte) /\ Len(e) \in Nat /\ Len(b) \in Nat
           /\ Len(<<tag>> \o (e \o b)) = 1 + Len(e) + Len(b)
           /\ (<<tag>> \o (e \o b))[1] = tag
           /\ \A j \in 1 .. Len(e) : (<<tag>> \o (e \o b))[1 + j] = e[j]
           /\ \A j \in 1 .. Len(b) : (<<tag>> \o (e \o b))[1 + Len(e) + j] = b[j]
<1> DEFINE t == <<tag>>
           r == e \o b
           w == t \o r
<1>1. t \in Seq(Byte) /\ Len(t) = 1 /\ t[1] = tag
  OBVIOUS
<1>2. /\ r \in Seq(Byte) /\ Len(e) \in Nat /\ Len(b) \in Nat /\ Len(r) = Len(e) + Len(b)
      /\ \A j \in 1 .. Len(e) : r[j] = e[j]
      /\ \A j \in 1 .. Len(b) : r[Len(e) + j] = b[j]
  BY BytesAppended
<1> HIDE DEF t, r
<1>3. /\ w \in Seq(Byte) /\ Len(w) = Len(t) + Len(r)
      /\ \A j \in 1 .. Len(t) : w[j] = t[j]
      /\ \A j \in 1 .. Len(r) : w[Len(t) + j] = r[j]
  BY <1>1, <1>2, BytesAppended
<1> HIDE DEF w
<1> DEFINE m == Len(e)
           l == Len(b)
<1>4. /\ m \in Nat /\ l \in Nat /\ Len(w) = 1 + (m + l)
      /\ \A j \in 1 .. m + l : w[1 + j] = r[j]
      /\ \A j \in 1 .. m : r[j] = e[j]
      /\ \A j \in 1 .. l : r[m + j] = b[j]
      /\ w[1] = tag
  <2>1. 1 \in 1 .. 1
    OBVIOUS
  <2> QED  BY <1>1, <1>2, <1>3, <2>1
<1> HIDE DEF m, l
<1>5. \A j \in 1 .. m : w[1 + j] = e[j]
  <2>1. \A j \in 1 .. m : j \in 1 .. m + l
    BY <1>4
  <2> QED  BY <1>4, <2>1
<1>6. \A j \in 1 .. l : w[1 + m + j] = b[j]
  <2>1. \A j \in 1 .. l : m + j \in 1 .. m + l /\ 1 + (m + j) = 1 + m + j
    BY <1>4
  <2> QED  BY <1>4, <2>1
<1>7. Len(w) = 1 + m + l
  BY <1>4
<1> QED  BY <1>3, <1>4, <1>5, <1>6, <1>7 DEF m, l, w, t, r

\* The part of data from x on, l elements long, is b if they agree element by element.
LEMMA PartEquals ==
    ASSUME NEW data \in Seq(Byte), NEW b \in Seq(Byte), NEW x \in Nat, x > 0,
           x + Len(b) - 1 <= Len(data), \A j \in 1 .. Len(b) : data[x + j - 1] = b[j]
    PROVE  SubSeq(data, x, x + Len(b) - 1) = b
<1> DEFINE l == Len(b)
           n == Len(data)
           y == x + l - 1
           s == SubSeq(data, x, y)
<1>1. l \in Nat /\ n \in Nat
  BY LenProperties
<1>2. y \in Int /\ \A i \in x .. y : i \in 1 .. n
  BY <1>1
<1>3. \A i \in x .. y : data[i] \in Byte
  BY <1>2, ElementOfSeq
<1>4. y - x + 1 = l /\ (x > y => l = 0)
  BY <1>1
<1>a. \A j \in 1 .. l : data[x + j - 1] = b[j]
  OBVIOUS
<1> HIDE DEF y, l, n
<1>5. /\ SubSeq(data, x, y) \in Seq(Byte)
      /\ Len(SubSeq(data, x, y)) = IF x <= y THEN y - x + 1 ELSE 0
      /\ \A i \in 1 .. y - x + 1 : SubSeq(data, x, y)[i] = data[x + i - 1]
  BY <1>2, <1>3, SubSeqProperties
<1> HIDE DEF s
<1>6. s \in Seq(Byte) /\ Len(s) = l /\ \A i \in 1 .. l : s[i] = b[i]
  BY <1>2, <1>4, <1>5, <1>a DEF s
<1>7. s = b
  BY <1>1, <1>6, SeqEqual DEF l
<1> QED  BY <1>7 DEF s, y, l

LEMMA FieldRead ==
    ASSUME NEW f \in Fields, NEW data \in Seq(Byte), NEW i \in Nat, i > 0, i <= Len(data),
           Holds(data, i, encode_field(f))
    PROVE  /\ encode_field(f) \in Seq(Byte) /\ Len(encode_field(f)) \in Nat
           /\ Len(encode_field(f)) > 0 /\ data[i] = f.tag /\ data[i] # EOL
           /\ i + Len(encode_field(f)) - 1 <= Len(data) =>
                 FieldAt(data, i) = [ok |-> TRUE, next |-> i + Len(encode_field(f)), field |-> f]
           /\ i + Len(encode_field(f)) - 1 > Len(data) => ~FieldAt(data, i).ok
<1> DEFINE tag == f.tag
           b == Body(f)
           l == Len(b)
           e == encode_length(l)
           m == Len(e)
           w == <<tag>> \o (e \o b)
           n == Len(data)
           d == decode_length(data, i + 1)
           at == FieldAt(data, i)
<1>1. /\ tag \in Byte /\ tag # EOL /\ b \in Seq(Byte) /\ Encodable(l)
      /\ encode_field(f) = w /\ TlvField(tag, DecodedValue(tag, b)) = f
  <2> HIDE DEF b
  <2>1. \A t \in 1 .. 255 : t \in Byte /\ t # EOL
    BY DEF Byte, EOL
  <2> QED  BY <2>1, ValueRead DEF b
<1>2. at = IF ~d.ok THEN d
           ELSE IF n - d.next + 1 < d.len THEN Err("Truncated")
           ELSE [ok |-> TRUE, next |-> d.next + d.len,
                 field |-> TlvField(data[i], DecodedValue(data[i],
                                          SubSeq(data, d.next, d.next + d.len - 1)))]
  BY DEF FieldAt
<1>3. n \in Nat /\ i \in Nat /\ i > 0 /\ i <= n
  BY LenProperties
<1>4. Holds(data, i, w)
  BY <1>1
<1> HIDE DEF tag, b, l, e, w, d, at
<1>5. e \in Seq(Byte) /\ m \in 1 .. 3 /\ l \in Nat
  BY <1>1, LengthEncoded DEF e
<1>6. /\ w \in Seq(Byte) /\ Len(w) = 1 + m + l /\ w[1] = tag
      /\ \A j \in 1 .. m : w[1 + j] = e[j]
      /\ \A j \in 1 .. l : w[1 + m + j] = b[j]
  BY <1>1, <1>5, FieldPlaces DEF w, l
<1> HIDE DEF m
<1>7. \A j \in 1 .. 1 + m + l : i + j - 1 <= n => data[i + j - 1] = w[j]
  BY <1>4, <1>6 DEF Holds
<1> HIDE DEF n
<1>8. data[i] = tag
  <2>1. 1 \in 1 .. 1 + m + l /\ i + 1 - 1 = i
    BY <1>1, <1>3, <1>5
  <2> QED  BY <1>3, <1>6, <1>7, <2>1
<1> DEFINE p == i + 1
<1>9. Holds(data, p, e)
  <2>1. ASSUME NEW j \in 1 .. m, p + j - 1 <= n PROVE data[p + j - 1] = e[j]
    <3>1. 1 + j \in 1 .. 1 + m + l /\ i + (1 + j) - 1 = p + j - 1
      BY <1>1, <1>3, <1>5
    <3> QED  BY <1>6, <1>7, <2>1, <3>1
  <2> QED  BY <2>1 DEF Holds, m, n
<1>10. p \in Nat /\ p > 0 /\ d = decode_length(data, p)
  BY <1>3 DEF d
<1> HIDE DEF p
<1>11. /\ p + m - 1 <= n => d = [ok |-> TRUE, len |-> l, next |-> p + m]
       /\ p + m - 1 > n => ~d.ok
  BY <1>1, <1>9, <1>10, LengthRead DEF e, m, n
<1>12. p = i + 1 /\ Len(w) = 1 + m + l /\ Len(w) \in Nat /\ Len(w) > 0
  BY <1>1, <1>5, <1>6 DEF p
<1>13. ASSUME p + m - 1 > n PROVE ~at.ok /\ i + Len(w) - 1 > n
  <2>1. i + Len(w) - 1 > n
    BY <1>1, <1>3, <1>5, <1>12, <1>13
  <2> QED  BY <1>2, <1>11, <1>13, <2>1
<1>14. ASSUME p + m - 1 <= n
       PROVE  /\ i + Len(w) - 1 <= n => at = [ok |-> TRUE, next |-> i + Len(w), field |-> f]
              /\ i + Len(w) - 1 > n => ~at.ok
  <2> DEFINE x == p + m
  <2>1. at = IF n - x + 1 < l THEN Err("Truncated")
             ELSE [ok |-> TRUE, next |-> x + l,
                   field |-> TlvField(tag, DecodedValue(tag, SubSeq(data, x, x + l - 1)))]
    <3>1. d.ok = TRUE /\ d.len = l /\ d.next = x
      BY <1>11, <1>14
    <3> HIDE DEF x
    <3> QED  BY <1>2, <1>8, <3>1
  <2>2. x + l = i + Len(w) /\ x \in Nat /\ x > 0 /\ x = i + 1 + m
    BY <1>1, <1>3, <1>5, <1>12
  <2> HIDE DEF x
  <2>3. ASSUME i + Len(w) - 1 > n PROVE ~at.ok
    <3>1. n - x + 1 < l
      BY <1>3, <1>5, <1>12, <2>2, <2>3
    <3> QED  BY <2>1, <3>1 DEF Err
  <2>4. ASSUME i + Len(w) - 1 <= n PROVE at = [ok |-> TRUE, next |-> i + Len(w), field |-> f]
    <3>1. ~(n - x + 1 < l) /\ x + l - 1 <= n
      BY <1>3, <1>5, <1>12, <2>2, <2>4
    <3>2. ASSUME NEW j \in 1 .. l PROVE data[x + j - 1] = b[j]
      <4>1. /\ 1 + m + j \in 1 .. 1 + m + l /\ i + (1 + m + j) - 1 = x + j - 1
            /\ x + j - 1 <= n
        BY <1>1, <1>3, <1>5, <2>2, <3>1
      <4> QED  BY <1>6, <1>7, <4>1
    <3>3. SubSeq(data, x, x + l - 1) = b
      BY <1>1, <2>2, <3>1, <3>2, PartEquals DEF l, n
    <3> QED  BY <1>1, <2>1, <2>2, <3>1, <3>3
  <2> QED  BY <2>3, <2>4
<1>15. p + m - 1 > n \/ p + m - 1 <= n
  BY <1>3, <1>5, <1>10
<1> QED  BY <1>1, <1>6, <1>8, <1>12, <1>13, <1>14, <1>15 DEF at, n, tag

LEMMA FieldEncoded ==
    ASSUME NEW f \in Fields
    PROVE  encode_field(f) \in Seq(Byte)
<1> DEFINE b == Body(f)
           e == encode_length(Len(b))
           t == f.tag
<1>1. t \in 1 .. 255 /\ b \in Seq(Byte) /\ Encodable(Len(b)) /\ encode_field(f) = <<t>> \o (e \o b)
  BY ValueRead
<1>2. t \in Byte
  <2>1. \A x \in 1 .. 255 : x \in Byte
    BY DEF Byte
  <2> QED  BY <1>1, <2>1
<1>3. e \in Seq(Byte)
  BY <1>1, LengthEncoded
<1> HIDE DEF b, e, t
<1> QED  BY <1>1, <1>2, <1>3, FieldPlaces

\* The bytes of a packet: its type, its fields one after the other, EOL.
LEMMA PacketPlaces ==
    ASSUME NEW type \in {Status, Command}, NEW fields \in Seq(Fields)
    PROVE  /\ Packet(type, fields) \in Seq(Byte) /\ Packet(type, fields)[1] = type
           /\ \A k \in DOMAIN fields : encode_field(fields[k]) \in Seq(Byte)
           /\ \E at \in [1 .. Len(fields) + 1 -> Nat] :
                  /\ at[1] = 0 /\ Len(Packet(type, fields)) = at[Len(fields) + 1] + 2
                  /\ Packet(type, fields)[at[Len(fields) + 1] + 2] = EOL
                  /\ \A k \in 1 .. Len(fields) :
                         /\ at[k + 1] = at[k] + Len(encode_field(fields[k]))
                         /\ at[k + 1] <= at[Len(fields) + 1]
                         /\ \A j \in 1 .. Len(encode_field(fields[k])) :
                                Packet(type, fields)[at[k] + 1 + j] = encode_field(fields[k])[j]
<1> DEFINE n == Len(fields)
           q == [i \in DOMAIN fields |-> encode_field(fields[i])]
           F == FlattenSeq(q)
           P == Packet(type, fields)
<1>1. /\ n \in Nat /\ DOMAIN fields = 1 .. n
      /\ \A i \in 1 .. n : encode_field(fields[i]) \in Seq(Byte)
  BY LenProperties, ElementOfSeq, FieldEncoded
<1>2. /\ q \in Seq(Seq(Byte)) /\ Len(q) = n
      /\ \A i \in 1 .. n : q[i] = encode_field(fields[i])
  <2> DEFINE S == Seq(Byte)
             E(i) == encode_field(fields[i])
  <2>1. \A i \in 1 .. n : E(i) \in S
    BY <1>1
  <2>2. q = [i \in 1 .. n |-> E(i)]
    BY <1>1
  <2> HIDE DEF E, S, n
  <2>3. q \in Seq(S) /\ Len(q) = n /\ \A i \in 1 .. n : q[i] = E(i)
    BY <1>1, <2>1, <2>2
  <2> QED  BY <2>3 DEF E, S
<1>3. P = (<<type>> \o F) \o <<EOL>>
  BY DEF Packet
<1> HIDE DEF q, F, P, n
<1>4. /\ F \in Seq(Byte)
      /\ \E at \in [1 .. n + 1 -> Nat] :
             /\ at[1] = 0 /\ Len(F) = at[n + 1]
             /\ \A k \in 1 .. n :
                    /\ at[k + 1] = at[k] + Len(q[k])
                    /\ at[k + 1] <= at[n + 1]
                    /\ \A j \in 1 .. Len(q[k]) : F[at[k] + j] = q[k][j]
  <2>1. q \in Seq(Seq(Byte)) /\ Len(q) = n
    BY <1>2
  <2>2. /\ FlattenSeq(q) \in Seq(Byte)
        /\ \E at \in [1 .. Len(q) + 1 -> Nat] :
               /\ at[1] = 0 /\ Len(FlattenSeq(q)) = at[Len(q) + 1]
               /\ \A k \in 1 .. Len(q) :
                      /\ at[k + 1] = at[k] + Len(q[k])
                      /\ at[k + 1] <= at[Len(q) + 1]
                      /\ \A j \in 1 .. Len(q[k]) : FlattenSeq(q)[at[k] + j] = q[k][j]
    BY <2>1, FlattenedPlaces, Zenon
  <2> QED  BY <2>1, <2>2 DEF F
<1>5. PICK at \in [1 .. n + 1 -> Nat] :
             /\ at[1] = 0 /\ Len(F) = at[n + 1]
             /\ \A k \in 1 .. n :
                    /\ at[k + 1] = at[k] + Len(q[k])
                    /\ at[k + 1] <= at[n + 1]
                    /\ \A j \in 1 .. Len(q[k]) : F[at[k] + j] = q[k][j]
  BY <1>4
<1> DEFINE l == at[n + 1]
           t == <<type>>
           z == <<EOL>>
           A == t \o F
           W == A \o z
<1>6. l \in Nat
  BY <1>1
<1>7. t \in Seq(Byte) /\ Len(t) = 1 /\ t[1] = type /\ z \in Seq(Byte) /\ Len(z) = 1 /\ z[1] = EOL
  BY DEF Byte, Status, Command, EOL
<1> HIDE DEF l, t, z
<1>8. /\ A \in Seq(Byte) /\ Len(A) = 1 + l
      /\ \A i \in 1 .. 1 : A[i] = t[i]
      /\ \A i \in 1 .. l : A[1 + i] = F[i]
  <2>1. /\ t \o F \in Seq(Byte) /\ Len(t \o F) = Len(t) + Len(F)
        /\ \A i \in 1 .. Len(t) : (t \o F)[i] = t[i]
        /\ \A i \in 1 .. Len(F) : (t \o F)[Len(t) + i] = F[i]
    BY <1>4, <1>7, BytesAppended
  <2> HIDE DEF A
  <2>2. Len(F) = l
    BY <1>5 DEF l
  <2> QED  BY <1>7, <2>1, <2>2 DEF A
<1> HIDE DEF A
<1>9. /\ W \in Seq(Byte) /\ Len(W) = (1 + l) + 1
      /\ \A i \in 1 .. 1 + l : W[i] = A[i]
      /\ \A i \in 1 .. 1 : W[(1 + l) + i] = z[i]
  <2>1. /\ A \o z \in Seq(Byte) /\ Len(A \o z) = Len(A) + Len(z)
        /\ \A i \in 1 .. Len(A) : (A \o z)[i] = A[i]
        /\ \A i \in 1 .. Len(z) : (A \o z)[Len(A) + i] = z[i]
    BY <1>7, <1>8, BytesAppended
  <2> QED  BY <1>7, <1>8, <2>1
<1>10. P = W
  BY <1>3 DEF W, A, t, z
<1> HIDE DEF W
<1>11. W[1] = type /\ W[l + 2] = EOL /\ Len(W) = l + 2 /\ \A i \in 1 .. l : W[1 + i] = F[i]
  <2>1. /\ 1 \in 1 .. 1 /\ 1 \in 1 .. 1 + l /\ (1 + l) + 1 = l + 2
        /\ \A i \in 1 .. l : 1 + i \in 1 .. 1 + l
    BY <1>6
  <2> QED  BY <1>7, <1>8, <1>9, <2>1
<1>12. ASSUME NEW k \in 1 .. n
       PROVE  /\ at[k + 1] = at[k] + Len(q[k])
              /\ at[k + 1] <= l
              /\ \A j \in 1 .. Len(q[k]) : P[at[k] + 1 + j] = q[k][j]
  <2> DEFINE a == at[k]
             d == Len(q[k])
  <2>1. a \in Nat /\ d \in Nat /\ a + d <= l
    <3>1. k \in 1 .. n + 1 /\ q[k] \in Seq(Byte)
      BY <1>1, <1>2
    <3>2. d \in Nat
      BY <3>1, LenProperties
    <3>3. a \in Nat
      BY <3>1
    <3>4. at[k + 1] = a + d /\ at[k + 1] <= l
      BY <1>5 DEF l
    <3> QED  BY <3>2, <3>3, <3>4
  <2>2. \A j \in 1 .. d : F[a + j] = q[k][j]
    BY <1>5
  <2>3. at[k + 1] = a + d /\ at[k + 1] <= l
    BY <1>5 DEF l
  <2> HIDE DEF a, d
  <2>4. ASSUME NEW j \in 1 .. d PROVE P[a + 1 + j] = q[k][j]
    <3>1. a + j \in 1 .. l /\ 1 + (a + j) = a + 1 + j
      BY <1>6, <2>1
    <3> QED  BY <1>10, <1>11, <2>2, <3>1
  <2> QED  BY <2>3, <2>4 DEF a, d
<1>13. /\ at[1] = 0 /\ Len(P) = at[n + 1] + 2 /\ P[at[n + 1] + 2] = EOL
       /\ \A k \in 1 .. n :
              /\ at[k + 1] = at[k] + Len(encode_field(fields[k]))
              /\ at[k + 1] <= at[n + 1]
              /\ \A j \in 1 .. Len(encode_field(fields[k])) :
                     P[at[k] + 1 + j] = encode_field(fields[k])[j]
  BY <1>2, <1>5, <1>10, <1>11, <1>12 DEF l
<1>14. P \in Seq(Byte) /\ P[1] = type /\ \A k \in DOMAIN fields : encode_field(fields[k]) \in Seq(Byte)
  BY <1>1, <1>9, <1>10, <1>11
<1> QED  BY <1>13, <1>14 DEF P, n

\* r is type with fields k .. m, to the last one if nothing was cut off, or an error if
\* something was.
ReadAs(r, type, fields, k, whole) ==
    \/ ~whole /\ ~r.ok
    \/ \E m \in Nat : /\ k <= m + 1 /\ m <= Len(fields) /\ (whole => m = Len(fields))
                      /\ r = Decoded(type, SubSeq(fields, k, m))

LEMMA NoFieldRead ==
    ASSUME NEW type, NEW fields, NEW k \in Nat, k > 0, k <= Len(fields) + 1, Len(fields) \in Nat,
           NEW whole \in BOOLEAN, whole => k = Len(fields) + 1
    PROVE  ReadAs(Decoded(type, <<>>), type, fields, k, whole)
<1> DEFINE m == k - 1
<1>1. m \in Nat /\ k <= m + 1 /\ m <= Len(fields) /\ (whole => m = Len(fields))
  OBVIOUS
<1>2. SubSeq(fields, k, m) = <<>>
  BY NothingCut
<1> HIDE DEF m
<1> QED  BY <1>1, <1>2 DEF ReadAs

LEMMA OneMoreRead ==
    ASSUME NEW type, NEW fields \in Seq(Fields), NEW k \in Nat, k > 0, k <= Len(fields),
           NEW whole \in BOOLEAN, NEW r, ReadAs(r, type, fields, k + 1, whole)
    PROVE  ReadAs(Prepended(fields[k], r), type, fields, k, whole)
<1>1. CASE ~whole /\ ~r.ok
  BY <1>1 DEF ReadAs, Prepended
<1>2. ASSUME NEW m \in Nat, k + 1 <= m + 1, m <= Len(fields), whole => m = Len(fields),
             r = Decoded(type, SubSeq(fields, k + 1, m))
      PROVE  ReadAs(Prepended(fields[k], r), type, fields, k, whole)
  <2> DEFINE s == SubSeq(fields, k + 1, m)
  <2>1. r.ok = TRUE /\ r.type = type /\ r.fields = s
    BY <1>2 DEF Decoded
  <2>2. k <= m
    BY <1>2
  <2>3. <<fields[k]>> \o s = SubSeq(fields, k, m)
    BY <1>2, <2>2, PartAndMore
  <2> HIDE DEF s
  <2>4. Prepended(fields[k], r) = Decoded(type, SubSeq(fields, k, m))
    BY <2>1, <2>3 DEF Prepended
  <2>5. k <= m + 1
    BY <2>2
  <2> QED  BY <1>2, <2>4, <2>5 DEF ReadAs
<1> QED  BY <1>1, <1>2 DEF ReadAs

\* A packet, cut or whole, is read as its type and its fields up to the cut, or refused;
\* a whole one is never refused.
LEMMA PacketRead ==
    ASSUME NEW type \in {Status, Command}, NEW fields \in Seq(Fields), NEW c \in Nat,
           c <= Len(Packet(type, fields))
    PROVE  ReadAs(decode_packet(SubSeq(Packet(type, fields), 1, c)), type, fields, 1,
                  c = Len(Packet(type, fields)))
<1> DEFINE n == Len(fields)
           P == Packet(type, fields)
           data == SubSeq(P, 1, c)
           whole == c = Len(P)
           E(k) == encode_field(fields[k])
<1>1. /\ P \in Seq(Byte) /\ P[1] = type
      /\ \A k \in DOMAIN fields : E(k) \in Seq(Byte)
      /\ \E at \in [1 .. n + 1 -> Nat] :
             /\ at[1] = 0 /\ Len(P) = at[n + 1] + 2
             /\ P[at[n + 1] + 2] = EOL
             /\ \A k \in 1 .. n :
                    /\ at[k + 1] = at[k] + Len(E(k))
                    /\ at[k + 1] <= at[n + 1]
                    /\ \A j \in 1 .. Len(E(k)) : P[at[k] + 1 + j] = E(k)[j]
  BY PacketPlaces
<1>2. PICK at \in [1 .. n + 1 -> Nat] :
             /\ at[1] = 0 /\ Len(P) = at[n + 1] + 2
             /\ P[at[n + 1] + 2] = EOL
             /\ \A k \in 1 .. n :
                    /\ at[k + 1] = at[k] + Len(E(k))
                    /\ at[k + 1] <= at[n + 1]
                    /\ \A j \in 1 .. Len(E(k)) : P[at[k] + 1 + j] = E(k)[j]
  BY <1>1
<1>3. n \in Nat /\ \A k \in 1 .. n : fields[k] \in Fields /\ E(k) \in Seq(Byte) /\ Len(E(k)) \in Nat
  BY <1>1, LenProperties, ElementOfSeq
<1>0. c <= Len(P) /\ whole \in BOOLEAN
  OBVIOUS
<1> HIDE DEF P, n, E
<1>4. Len(P) \in Nat
  BY <1>1, LenProperties
<1>5. data \in Seq(Byte) /\ Len(data) = c /\ \A i \in 1 .. c : data[i] = P[i]
  <2>1. c \in 0 .. Len(P)
    BY <1>0, <1>4
  <2> QED  BY <1>1, <2>1, CutShort
<1> HIDE DEF data
<1>6. CASE c = 0
  <2>1. data = <<>>
    BY <1>5, <1>6
  <2>2. ~decode_packet(data).ok
    BY <2>1 DEF decode_packet, Err
  <2>3. c # Len(P)
    <3>1. n + 1 \in 1 .. n + 1
      BY <1>3
    <3>2. at[n + 1] \in Nat
      BY <3>1
    <3> QED  BY <1>2, <1>6, <3>2
  <2> QED  BY <2>2, <2>3 DEF ReadAs, data, P
<1>7. CASE c > 0
  <2>1. data # <<>> /\ data[1] = type
    BY <1>1, <1>5, <1>7
  <2>2. PICK F : /\ decode_packet(data) = F[2]
                 /\ \A i \in 1 .. Len(data) + 1 : F[i] = ReadFrom(data, i, F)
    BY <1>5, <2>1, DecodeSteps
  <2>3. \A i \in 1 .. c + 1 : F[i] = ReadFrom(data, i, F)
    BY <1>5, <2>2
  <2> DEFINE Right(k) == at[k] + 2 <= c + 1 => ReadAs(F[at[k] + 2], type, fields, k, whole)
             Bad == {j \in 0 .. n : ~Right(n + 1 - j)}
  <2>4. \A k \in 1 .. n + 1 : at[k] \in Nat /\ at[k] <= at[n + 1]
    <3>1. ASSUME NEW k \in 1 .. n + 1 PROVE at[k] \in Nat /\ at[k] <= at[n + 1]
      <4>1. at[k] \in Nat /\ at[n + 1] \in Nat
        BY <1>3
      <4>2. CASE k = n + 1
        BY <4>1, <4>2
      <4>3. CASE k # n + 1
        <5>1. k \in 1 .. n
          BY <1>3, <4>3
        <5>2. at[k + 1] = at[k] + Len(E(k)) /\ at[k + 1] <= at[n + 1] /\ Len(E(k)) \in Nat
          BY <1>2, <1>3, <5>1
        <5> QED  BY <4>1, <5>2
      <4> QED  BY <4>2, <4>3
    <3> QED  BY <3>1
  <2>5. \* The packet ends between two fields.
        ASSUME NEW k \in 1 .. n + 1, at[k] + 2 = c + 1 PROVE Right(k)
    <3> DEFINE p == at[k] + 2
    <3>1. p = c + 1 /\ p \in 1 .. c + 1 /\ p > c /\ c # Len(P) /\ k \in Nat /\ k > 0 /\ k <= n + 1
      BY <1>2, <1>3, <2>4, <2>5
    <3> HIDE DEF p
    <3>2. F[p] = Decoded(type, <<>>)
      BY <1>5, <2>1, <2>3, <3>1 DEF ReadFrom
    <3>3. ReadAs(Decoded(type, <<>>), type, fields, k, whole)
      BY <1>3, <3>1, NoFieldRead DEF n
    <3> QED  BY <3>2, <3>3 DEF p
  <2>6. Right(n + 1)
    <3>1. CASE at[n + 1] + 2 <= c
      <4> DEFINE p == at[n + 1] + 2
                 m == n + 1
      <4>1. m \in 1 .. n + 1
        BY <1>3
      <4>2. p = c /\ p \in 1 .. c + 1 /\ p \in 1 .. c /\ whole /\ p > 0
        <5>1. p = Len(P) /\ p \in Nat /\ p <= c
          BY <1>2, <2>4, <3>1, <4>1
        <5> HIDE DEF p
        <5> QED  BY <1>0, <1>7, <5>1
      <4>3. data[p] = EOL
        BY <1>2, <1>5, <4>2
      <4>4. F[p] = Decoded(type, <<>>)
        <5> HIDE DEF p
        <5> QED  BY <2>1, <2>3, <4>2, <4>3 DEF ReadFrom
      <4>5. ReadAs(Decoded(type, <<>>), type, fields, m, whole)
        <5>1. m \in Nat /\ m > 0 /\ m <= n + 1 /\ (whole => m = n + 1)
          BY <1>3
        <5> HIDE DEF m, whole
        <5> QED  BY <1>0, <1>3, <5>1, NoFieldRead DEF n
      <4> QED  BY <4>4, <4>5
    <3>2. CASE ~(at[n + 1] + 2 <= c)
      <4>1. n + 1 \in 1 .. n + 1
        BY <1>3
      <4>2. at[n + 1] + 2 <= c + 1 => at[n + 1] + 2 = c + 1
        BY <2>4, <3>2, <4>1
      <4> QED  BY <2>5, <4>1, <4>2
    <3> QED  BY <3>1, <3>2
  <2>7. ASSUME NEW k \in 1 .. n, Right(k + 1) PROVE Right(k)
    <3> DEFINE p == at[k] + 2
               f == fields[k]
               l == Len(E(k))
    <3>1. CASE ~(p <= c)
      <4>1. k \in 1 .. n + 1
        BY <1>3
      <4>2. p <= c + 1 => p = c + 1
        BY <2>4, <3>1, <4>1
      <4> QED  BY <2>5, <4>1, <4>2
    <3>2. CASE p <= c
      <4>1. /\ k \in 1 .. n + 1 /\ k + 1 \in 1 .. n + 1 /\ k \in Nat /\ k > 0 /\ k <= n
            /\ f \in Fields /\ E(k) = encode_field(f) /\ l \in Nat
        BY <1>3 DEF E
      <4>2. /\ p \in Nat /\ p > 0 /\ at[k + 1] + 2 = p + l /\ at[k] + 1 = p - 1
            /\ p + l <= Len(P)
        <5> DEFINE a == at[k]
                   b == at[k + 1]
                   d == at[n + 1]
        <5>1. a \in Nat /\ b = a + l /\ b <= d /\ Len(P) = d + 2 /\ p = a + 2 /\ d \in Nat
          <6>1. k \in 1 .. n /\ n + 1 \in 1 .. n + 1
            BY <1>3
          <6>2. a \in Nat /\ d \in Nat
            BY <2>4, <4>1, <6>1
          <6> QED  BY <1>2, <6>1, <6>2
        <5> HIDE DEF a, b, d, p, l
        <5>2. p \in Nat /\ p > 0 /\ b + 2 = p + l /\ a + 1 = p - 1 /\ p + l <= Len(P)
          BY <4>1, <5>1
        <5> QED  BY <5>2 DEF a, b, p
      <4>3. \A j \in 1 .. l : P[at[k] + 1 + j] = E(k)[j]
        BY <1>2
      <4>4. at[k] + 1 = p - 1 /\ at[k] \in Nat
        BY <2>4, <4>1
      <4> HIDE DEF p, f, l
      <4>5. Holds(data, p, E(k))
        <5>1. ASSUME NEW j \in 1 .. l, p + j - 1 <= c PROVE data[p + j - 1] = E(k)[j]
          <6>1. p + j - 1 \in 1 .. c /\ at[k] + 1 + j = p + j - 1
            BY <4>1, <4>2, <4>4, <5>1
          <6> QED  BY <1>5, <4>3, <6>1
        <5> QED  BY <1>5, <5>1 DEF Holds, l
      <4>6. /\ l > 0 /\ data[p] # EOL
            /\ p + l - 1 <= c => FieldAt(data, p) = [ok |-> TRUE, next |-> p + l, field |-> f]
            /\ p + l - 1 > c => ~FieldAt(data, p).ok
        <5>1. p <= Len(data) /\ Holds(data, p, encode_field(f))
          BY <1>5, <3>2, <4>1, <4>5 DEF p
        <5> QED  BY <1>5, <4>1, <4>2, <5>1, FieldRead DEF l
      <4>7. F[p] = IF FieldAt(data, p).ok THEN Prepended(FieldAt(data, p).field, F[FieldAt(data, p).next])
                                          ELSE FieldAt(data, p)
        <5>1. p \in 1 .. c + 1 /\ ~(p > Len(data))
          BY <1>5, <3>2, <4>2 DEF p
        <5> QED  BY <2>3, <4>6, <5>1 DEF ReadFrom
      <4>8. CASE p + l - 1 <= c
        <5>1. F[p] = Prepended(f, F[p + l])
          BY <4>6, <4>7, <4>8
        <5>2. ReadAs(F[p + l], type, fields, k + 1, whole)
          BY <2>7, <4>1, <4>2, <4>8
        <5>3. ReadAs(Prepended(f, F[p + l]), type, fields, k, whole)
          BY <4>1, <5>2, OneMoreRead DEF f, n
        <5> QED  BY <5>1, <5>3 DEF p
      <4>9. CASE ~(p + l - 1 <= c)
        <5>1. ~FieldAt(data, p).ok /\ F[p] = FieldAt(data, p)
          BY <4>1, <4>2, <4>6, <4>7, <4>9
        <5>2. ~whole
          BY <4>1, <4>2, <4>9
        <5>3. ReadAs(F[p], type, fields, k, whole)
          BY <5>1, <5>2 DEF ReadAs
        <5> QED  BY <5>3 DEF p
      <4> QED  BY <4>8, <4>9
    <3> QED  BY <3>1, <3>2
  <2>8. Bad = {}
    <3>1. SUFFICES ASSUME Bad # {} PROVE FALSE
      OBVIOUS
    <3>2. Bad \subseteq Nat /\ Bad \subseteq 0 .. n /\ \A j \in 0 .. n : j \in Bad <=> ~Right(n + 1 - j)
      BY <1>3
    <3> HIDE DEF Bad, Right
    <3>3. PICK j \in Bad : \A i \in Bad : j <= i
      BY <3>1, <3>2, Smallest
    <3>4. j \in 0 .. n /\ ~Right(n + 1 - j)
      BY <3>2
    <3>5. j # 0
      <4>1. n + 1 - 0 = n + 1
        BY <1>3
      <4> QED  BY <2>6, <3>4, <4>1
    <3>6. j - 1 \in 0 .. n /\ ~(j <= j - 1) /\ n + 1 - j \in 1 .. n /\ n + 1 - (j - 1) = (n + 1 - j) + 1
      BY <1>3, <3>4, <3>5
    <3>7. Right((n + 1 - j) + 1)
      BY <3>2, <3>3, <3>6
    <3> QED  BY <2>7, <3>4, <3>6, <3>7
  <2>9. Right(1)
    <3>1. n \in 0 .. n /\ n + 1 - n = 1
      BY <1>3
    <3> HIDE DEF Right
    <3> QED  BY <2>8, <3>1
  <2>10. at[1] + 2 = 2 /\ 2 <= c + 1
    BY <1>2, <1>7
  <2> QED  BY <2>2, <2>9, <2>10 DEF data, P
<1> QED  BY <1>6, <1>7

\* What is written is what is read: a packet of any fields, of any lengths, comes back
\* with its type and exactly these fields (encode_packet and decode_packet, tlv.rs).
THEOREM PacketRoundTrip ==
    ASSUME NEW type \in {Status, Command}, NEW fields \in Seq(Fields)
    PROVE  decode_packet(Packet(type, fields)) = Decoded(type, fields)
<1> DEFINE P == Packet(type, fields)
           c == Len(P)
<1>1. P \in Seq(Byte)
  BY PacketPlaces
<1>2. c \in Nat /\ c <= Len(P) /\ SubSeq(P, 1, c) = P
  BY <1>1, LenProperties, AllOfIt
<1>3. ReadAs(decode_packet(SubSeq(P, 1, c)), type, fields, 1, c = Len(P))
  <2> HIDE DEF c
  <2> QED  BY <1>2, PacketRead
<1> HIDE DEF P
<1>4. PICK m \in Nat : m = Len(fields) /\ decode_packet(P) = Decoded(type, SubSeq(fields, 1, m))
  BY <1>2, <1>3 DEF ReadAs
<1>5. SubSeq(fields, 1, m) = fields
  BY <1>4, AllOfIt
<1> QED  BY <1>4, <1>5 DEF P

LEMMA TagFits ==
    ASSUME NEW t \in Nat
    PROVE  TagField(t) \in Fields
<1> DEFINE v == <<0, 0, 0, 0, (t \div 16777216) % 256, (t \div 65536) % 256, (t \div 256) % 256, t % 256>>
<1>1. \A x \in Int : x % 256 \in Byte
  BY SMT DEF Byte
<1>2. t \div 16777216 \in Int /\ t \div 65536 \in Int /\ t \div 256 \in Int /\ t \in Int /\ 0 \in Byte
  BY SMT DEF Byte
<1>3. v \in Seq(Byte) /\ Len(v) = 8
  <2> DEFINE a == (t \div 16777216) % 256
             b == (t \div 65536) % 256
             c == (t \div 256) % 256
             d == t % 256
  <2>1. a \in Byte /\ b \in Byte /\ c \in Byte /\ d \in Byte
    BY <1>1, <1>2, SMT
  <2> HIDE DEF a, b, c, d
  <2>2. <<0, 0, 0, 0, a, b, c, d>> \in Seq(Byte) /\ Len(<<0, 0, 0, 0, a, b, c, d>>) = 8
    BY <1>2, <2>1, SMT
  <2> QED  BY <2>2, SMT DEF a, b, c, d
<1> HIDE DEF v
<1>4. 1 \in 1 .. 255 /\ 1 \notin Frequencies \cup Edges \cup Blobs
  BY SMT DEF Frequencies, Edges, Blobs, RADIO_FREQUENCY, PRESET
<1>5. TagField(t) = [tag |-> 1, value |-> [kind |-> "Int", bytes |-> v]]
  BY SMT DEF TagField, TlvField, Value, COMMAND_TAG, v
<1> QED  BY <1>3, <1>4, <1>5, SMT DEF Fields, Fits

LEMMA FromItsBytes ==
    ASSUME NEW t \in Nat, t \div 65536 < 65536
    PROVE  t = 16777216 * ((t \div 16777216) % 256) + 65536 * ((t \div 65536) % 256)
                 + 256 * ((t \div 256) % 256) + (t % 256)
<1> DEFINE a == t \div 16777216
           b == t \div 65536
           c == t \div 256
           d == t % 256
<1>1. t = 256 * c + d /\ c \in Nat /\ d \in 0 .. 255
  BY SMT
<1>2. c = 256 * b + (c % 256) /\ b \in Nat
  BY SMT
<1>3. b = 256 * a + (b % 256) /\ a \in Nat
  BY SMT
<1>4. a % 256 = a
  <2>1. a < 256
    <3>1. b % 256 \in 0 .. 255 /\ b < 65536
      BY <1>2, SMT
    <3> DEFINE r == b % 256
    <3> HIDE DEF a, b, r
    <3>2. b = 256 * a + r /\ r \in Nat /\ a \in Nat /\ b \in Nat /\ b < 65536
      BY <1>2, <1>3, <3>1, SMT DEF r
    <3> QED  BY <3>2, SMT
  <2> HIDE DEF a
  <2>2. \A x \in Nat : x < 256 => x % 256 = x
    BY SMT
  <2> QED  BY <1>3, <2>1, <2>2, SMT
<1> DEFINE a1 == a % 256
           b1 == b % 256
           c1 == c % 256
<1>5. a1 = a /\ b = 256 * a + b1 /\ c = 256 * b + c1 /\ t = 256 * c + d
  BY <1>1, <1>2, <1>3, <1>4, SMT
<1>6. a1 \in Int /\ b1 \in Int /\ c1 \in Int /\ d \in Int
  BY <1>1, <1>2, <1>3, SMT
<1>7. t = 16777216 * a1 + 65536 * b1 + 256 * c1 + d
  <2> HIDE DEF a, b, c, d, a1, b1, c1
  <2> QED  BY <1>1, <1>2, <1>3, <1>5, <1>6, SMT
<1> QED  BY <1>7, SMT DEF a1, b1, c1, a, b, c, d

\* One tag, one field.
LEMMA TagsDiffer ==
    ASSUME NEW t \in Nat, NEW u \in Nat, IsU32(t), IsU32(u), TagField(t) = TagField(u)
    PROVE  t = u
<1>1. /\ (t \div 16777216) % 256 = (u \div 16777216) % 256
      /\ (t \div 65536) % 256 = (u \div 65536) % 256
      /\ (t \div 256) % 256 = (u \div 256) % 256
      /\ t % 256 = u % 256
  BY SMT DEF TagField, TlvField, Value
<1>2. t \div 65536 < 65536 /\ u \div 65536 < 65536
  BY SMT DEF IsU32
<1>3. /\ t = 16777216 * ((t \div 16777216) % 256) + 65536 * ((t \div 65536) % 256)
                 + 256 * ((t \div 256) % 256) + (t % 256)
      /\ u = 16777216 * ((u \div 16777216) % 256) + 65536 * ((u \div 65536) % 256)
                 + 256 * ((u \div 256) % 256) + (u % 256)
  BY <1>2, FromItsBytes, SMT
<1> QED  BY <1>1, <1>3, SMT

\* Every tag that is drawn fits.
LEMMA TagsFit ==
    ASSUME NEW t \in Nat, t < TagModulus
    PROVE  IsU32(t)
<1>1. TagModulus \in Nat /\ IsU32(TagModulus - 1)
  BY ControlAssumption, SMT
<1>2. t \div 65536 <= (TagModulus - 1) \div 65536
  BY <1>1, SMT
<1> QED  BY <1>1, <1>2, SMT DEF IsU32

-----------------------------------------------------------------------------
(* The control client. *)

\* What a request and a tag become, and all that can be on its way.
CommandOf(r, t) == [asked |-> r, data |-> build_command(<<TagField(t)>> \o r)]

Tags == 0 .. TagModulus - 1

Commands(R) == {CommandOf(r, t) : r \in R, t \in Tags}

AllRequests == UNION {Requests[s] : s \in Sender}

Datagram ==
    Foreign \cup {Packet(Status, st) : st \in Statuses}
            \cup {e.data : e \in Commands(AllRequests)}

Reported(st, m) == [ssrc |-> SsrcIn(SubSeq(st, 1, m)), fields |-> SubSeq(st, 1, m)]

Reports == UNION {{Reported(st, m) : m \in 0 .. Len(st)} : st \in Statuses}

Busy == {s \in Sender : sending[s] # Idle}

\* The inductive invariant: every tag that was drawn is lost, on its way or with radiod;
\* what is on its way is a command, a STATUS or foreign; what is queued was reported.
CountInv ==
    /\ cmd_tag \in Tags
    /\ drawn \in Nat /\ drawn <= MaxDatagrams /\ heard \in Nat /\ heard <= MaxDatagrams
    /\ IsFiniteSet(Busy) /\ Len(radiod) + Cardinality(Busy) <= drawn

SentInv ==
    /\ sending = [s \in Sender |-> sending[s]]
    /\ \A s \in Sender : sending[s] \in {Idle} \cup Commands(Requests[s])
    /\ radiod \in Seq(Commands(AllRequests))

HeardInv ==
    /\ socket \in Seq(Datagram) /\ Len(socket) <= SockCap
    /\ statuses \in Seq(Reports) /\ Len(statuses) <= CHAN_BOUND

ClientInv == CountInv /\ SentInv /\ HeardInv

\* What radiod reads as the tag of a command.
Label(e) == decode_packet(e.data).fields[1]

Numbered(e) == \E t \in 1 .. drawn : Label(e) = TagField(t)

\* As long as no tag comes twice: the tags so far are 1 .. drawn, and each labels one
\* command.
LabelInv ==
    /\ cmd_tag = drawn + 1
    /\ \A i \in 1 .. Len(radiod) : Numbered(radiod[i])
    /\ \A s \in Busy : Numbered(sending[s])
    /\ \A i, j \in 1 .. Len(radiod) : Label(radiod[i]) = Label(radiod[j]) => i = j
    /\ \A i \in 1 .. Len(radiod), s \in Busy : Label(radiod[i]) # Label(sending[s])
    /\ \A s, u \in Busy : Label(sending[s]) = Label(sending[u]) => s = u

LEMMA TagMoves == ASSUME NEW t \in Tags PROVE t \in Nat /\ t < TagModulus
BY ControlAssumption DEF Tags

LEMMA RequestsAreFields == \A r \in AllRequests : r \in Seq(Fields)
BY ControlAssumption DEF AllRequests

\* radiod reads a command as its tag and what was asked for.
LEMMA CommandRead ==
    ASSUME NEW r \in Seq(Fields), NEW t \in Tags
    PROVE  /\ <<TagField(t)>> \o r \in Seq(Fields)
           /\ CommandOf(r, t).data = Packet(Command, <<TagField(t)>> \o r)
           /\ decode_packet(CommandOf(r, t).data) = Decoded(Command, <<TagField(t)>> \o r)
           /\ Label(CommandOf(r, t)) = TagField(t)
<1> DEFINE f == TagField(t)
           a == <<f>>
           q == a \o r
           e == CommandOf(r, t)
<1>1. f \in Fields
  BY TagMoves, TagFits
<1> HIDE DEF f
<1>2. a \in Seq(Fields) /\ Len(a) = 1 /\ a[1] = f
  BY <1>1
<1> HIDE DEF a
<1>3. q \in Seq(Fields) /\ \A i \in 1 .. Len(a) : q[i] = a[i]
  <2> DEFINE S == Fields
  <2>1. a \in Seq(S) /\ r \in Seq(S)
    BY <1>2
  <2> HIDE DEF S
  <2>2. a \o r \in Seq(S) /\ \A i \in 1 .. Len(a) : (a \o r)[i] = a[i]
    BY <2>1, Concatenated
  <2> QED  BY <2>2 DEF S
<1>4. q[1] = f
  <2>1. 1 \in 1 .. 1
    OBVIOUS
  <2> QED  BY <1>2, <1>3, <2>1
<1>5. e.data = Packet(Command, q)
  BY DEF CommandOf, build_command, a, f
<1> HIDE DEF q, e
<1>6. decode_packet(e.data) = Decoded(Command, q)
  BY <1>3, <1>5, PacketRoundTrip
<1>7. Label(e) = f
  BY <1>4, <1>6 DEF Label, Decoded
<1> QED  BY <1>3, <1>5, <1>6, <1>7 DEF e, q, a, f

\* The buffer cuts a packet somewhere, or not at all.
LEMMA CutPacket ==
    ASSUME NEW type \in {Status, Command}, NEW fields \in Seq(Fields), NEW r,
           r = decode_packet(Cut(Packet(type, fields))), r.ok
    PROVE  \E m \in Nat : m <= Len(fields) /\ r = Decoded(type, SubSeq(fields, 1, m))
<1> DEFINE P == Packet(type, fields)
           c == Min({Len(P), RecvBuf})
<1>1. P \in Seq(Byte)
  BY PacketPlaces
<1>2. c \in Nat /\ c <= Len(P)
  <2>1. Len(P) \in Nat /\ RecvBuf \in Nat
    BY <1>1, LenProperties, ControlAssumption
  <2> QED  BY <2>1, MinOfTwo
<1>3. Cut(P) = SubSeq(P, 1, c)
  BY DEF Cut
<1>4. ReadAs(decode_packet(SubSeq(P, 1, c)), type, fields, 1, c = Len(P))
  <2> HIDE DEF c
  <2> QED  BY <1>2, PacketRead
<1> HIDE DEF P, c
<1>5. ReadAs(r, type, fields, 1, c = Len(P))
  BY <1>3, <1>4 DEF P
<1> QED  BY <1>5 DEF ReadAs

\* What recv_task queues was reported.
LEMMA WantedWasReported ==
    ASSUME NEW data \in Datagram, NEW pkt, pkt = decode_packet(Cut(data)), Wanted(pkt)
    PROVE  [ssrc |-> SsrcIn(pkt.fields), fields |-> pkt.fields] \in Reports
<1>1. pkt.ok /\ pkt.type = Status
  BY DEF Wanted
<1>2. CASE data \in Foreign
  BY <1>1, <1>2, ForeignAssumption
<1>3. ASSUME NEW st \in Statuses, data = Packet(Status, st)
      PROVE  [ssrc |-> SsrcIn(pkt.fields), fields |-> pkt.fields] \in Reports
  <2>1. st \in Seq(Fields)
    BY ControlAssumption
  <2>2. PICK m \in Nat : m <= Len(st) /\ pkt = Decoded(Status, SubSeq(st, 1, m))
    BY <1>1, <1>3, <2>1, CutPacket
  <2>3. pkt.fields = SubSeq(st, 1, m)
    BY <2>2 DEF Decoded
  <2>4. m \in 0 .. Len(st)
    BY <2>1, <2>2, LenProperties
  <2>5. [ssrc |-> SsrcIn(pkt.fields), fields |-> pkt.fields] = Reported(st, m)
    BY <2>3 DEF Reported
  <2> QED  BY <2>4, <2>5 DEF Reports
<1>4. ASSUME NEW e \in Commands(AllRequests), data = e.data
      PROVE  FALSE
  <2>1. PICK r \in AllRequests, t \in Tags : e = CommandOf(r, t)
    BY DEF Commands
  <2>2. r \in Seq(Fields)
    BY RequestsAreFields
  <2> DEFINE q == <<TagField(t)>> \o r
  <2>3. q \in Seq(Fields) /\ data = Packet(Command, q)
    BY <1>4, <2>1, <2>2, CommandRead
  <2> HIDE DEF q
  <2>4. PICK m \in Nat : pkt = Decoded(Command, SubSeq(q, 1, m))
    BY <1>1, <2>3, CutPacket
  <2>5. pkt.type = Command
    BY <2>4 DEF Decoded
  <2> QED  BY <1>1, <2>5 DEF Status, Command
<1> QED  BY <1>2, <1>3, <1>4 DEF Datagram

\* The first SSRC of the first fields is none or the first of them all.
LEMMA SsrcOfPrefix ==
    ASSUME NEW st \in Seq(Fields), NEW m \in Nat, m <= Len(st)
    PROVE  SsrcIn(SubSeq(st, 1, m)) \in {NoSsrc, SsrcIn(st)}
<1> DEFINE n == Len(st)
           q == SubSeq(st, 1, m)
           Is(f) == f.tag = OUTPUT_SSRC /\ f.value.kind = "Int"
           I(s) == {i \in DOMAIN s : Is(s[i])}
           first(s) == CHOOSE i \in I(s) : \A j \in I(s) : i <= j
<1>1. n \in Nat /\ m \in 0 .. n /\ DOMAIN st = 1 .. n
  BY LenProperties
<1>2. q \in Seq(Fields) /\ Len(q) = m /\ (\A i \in 1 .. m : q[i] = st[i]) /\ DOMAIN q = 1 .. m
  <2>1. q \in Seq(Fields) /\ Len(q) = m /\ \A i \in 1 .. m : q[i] = st[i]
    BY <1>1, CutShort
  <2> HIDE DEF q
  <2> QED  BY <2>1, LenProperties
<1> HIDE DEF q, Is, n
<1>3. SsrcIn(q) = IF I(q) = {} THEN NoSsrc ELSE AsU32(q[first(q)].value.bytes)
  BY DEF SsrcIn, Is
<1>4. SsrcIn(st) = IF I(st) = {} THEN NoSsrc ELSE AsU32(st[first(st)].value.bytes)
  BY DEF SsrcIn, Is
<1>5. CASE I(q) = {}
  BY <1>3, <1>5 DEF q
<1>6. CASE I(q) # {}
  <2>1. I(q) \subseteq Nat /\ I(q) \subseteq I(st) /\ I(st) \subseteq Nat /\ I(q) \subseteq 1 .. m
    BY <1>1, <1>2
  <2>2. \A i \in I(st) : i <= m => i \in I(q)
    BY <1>1, <1>2
  <2>3. I(st) # {}
    BY <1>6, <2>1
  <2> DEFINE A == I(q)
             B == I(st)
  <2>4. PICK x \in B : \A j \in B : x <= j
    <3>1. B \subseteq Nat /\ B # {}
      BY <2>1, <2>3
    <3> HIDE DEF B
    <3> QED  BY <3>1, Smallest
  <2>5. x \in A /\ A \subseteq B /\ B \subseteq Nat
    <3>1. PICK y \in A : TRUE
      BY <1>6
    <3>2. y \in B /\ y \in 1 .. m /\ y \in Nat /\ x \in Nat
      BY <2>1, <3>1
    <3>3. x <= y
      BY <2>4, <3>2
    <3>4. x <= m
      BY <3>2, <3>3
    <3> QED  BY <2>1, <2>2, <3>4
  <2>6. first(q) = x
    <3> HIDE DEF A, B
    <3>1. \A i \in A : (\A j \in A : i <= j) <=> i = x
      BY <2>4, <2>5
    <3>2. (CHOOSE i \in A : \A j \in A : i <= j) = x
      BY <2>5, <3>1
    <3> QED  BY <3>2 DEF A
  <2>7. first(st) = x
    <3> HIDE DEF A, B
    <3>1. \A i \in B : (\A j \in B : i <= j) <=> i = x
      BY <2>4, <2>5
    <3>2. (CHOOSE i \in B : \A j \in B : i <= j) = x
      BY <2>4, <3>1
    <3> QED  BY <3>2 DEF B
  <2>8. q[x] = st[x]
    BY <1>2, <2>1, <2>5
  <2>9. SsrcIn(q) = SsrcIn(st)
    <3> HIDE DEF I, first
    <3> QED  BY <1>3, <1>4, <1>6, <2>3, <2>6, <2>7, <2>8
  <2> QED  BY <2>9 DEF q
<1> QED  BY <1>5, <1>6

LEMMA ClientStarts == ASSUME Init PROVE ClientInv
<1>1. /\ cmd_tag = 1 /\ drawn = 0 /\ heard = 0 /\ sending = [s \in Sender |-> Idle]
      /\ radiod = <<>> /\ socket = <<>> /\ statuses = <<>>
  BY DEF Init
<1>2. Busy = {}
  BY <1>1 DEF Busy
<1>3. IsFiniteSet(Busy) /\ Cardinality(Busy) = 0 /\ Len(radiod) = 0
  BY <1>1, <1>2, FS_EmptySet
<1>4. CountInv
  BY <1>1, <1>3, ControlAssumption DEF CountInv, Tags
<1>5. SentInv
  BY <1>1 DEF SentInv
<1>6. HeardInv
  BY <1>1, ControlAssumption DEF HeardInv
<1> QED  BY <1>4, <1>5, <1>6 DEF ClientInv

\* A datagram of the group, heard or missed.
LEMMA HearingKeeps ==
    ASSUME HeardInv, NEW data \in Datagram, Hears(data)
    PROVE  socket' \in Seq(Datagram) /\ Len(socket') <= SockCap
<1>1. socket \in Seq(Datagram) /\ Len(socket) <= SockCap /\ Len(socket) \in Nat
  BY LenProperties DEF HeardInv
<1>2. CASE Len(socket) < SockCap /\ socket' = Append(socket, data)
  <2>1. Append(socket, data) \in Seq(Datagram) /\ Len(Append(socket, data)) = Len(socket) + 1
    BY <1>1, AppendProperties
  <2>2. Len(socket) + 1 <= SockCap
    BY <1>1, <1>2, ControlAssumption
  <2> QED  BY <1>2, <2>1, <2>2
<1>3. CASE socket' = socket
  BY <1>1, <1>3
<1> QED  BY <1>2, <1>3 DEF Hears

LEMMA BuildKeeps ==
    ASSUME ClientInv, NEW s \in Sender, NEW r \in Requests[s], Build(s, r)
    PROVE  ClientInv'
<1> DEFINE e == CommandOf(r, cmd_tag)
<1>1. /\ sending[s] = Idle /\ drawn < MaxDatagrams /\ cmd_tag' = (cmd_tag + 1) % TagModulus
      /\ drawn' = drawn + 1 /\ sending' = [sending EXCEPT ![s] = e]
      /\ radiod' = radiod /\ socket' = socket /\ heard' = heard /\ statuses' = statuses
  BY DEF Build, TagAfter, CommandOf
<1>2. cmd_tag' \in Tags
  <2>1. cmd_tag \in Nat /\ TagModulus \in Nat /\ TagModulus > 1
    BY ControlAssumption, TagMoves DEF ClientInv, CountInv
  <2>2. (cmd_tag + 1) % TagModulus \in 0 .. TagModulus - 1
    BY <2>1
  <2> QED  BY <1>1, <2>2 DEF Tags
<1>3. e \in Commands(Requests[s])
  BY DEF Commands, ClientInv, CountInv
<1> HIDE DEF e
<1>4. /\ sending' = [u \in Sender |-> sending'[u]]
      /\ \A u \in Sender : sending'[u] = IF u = s THEN e ELSE sending[u]
  BY <1>1 DEF ClientInv, SentInv
<1>5. Busy' \subseteq Busy \cup {s}
  BY <1>4 DEF Busy
<1>6. IsFiniteSet(Busy') /\ Cardinality(Busy') <= Cardinality(Busy) + 1 /\ Cardinality(Busy) \in Nat
      /\ Cardinality(Busy') \in Nat
  <2>1. IsFiniteSet(Busy)
    BY DEF ClientInv, CountInv
  <2>2. /\ IsFiniteSet(Busy \cup {s})
        /\ Cardinality(Busy \cup {s}) = IF s \in Busy THEN Cardinality(Busy) ELSE Cardinality(Busy) + 1
    BY <2>1, FS_AddElement
  <2>3. IsFiniteSet(Busy') /\ Cardinality(Busy') <= Cardinality(Busy \cup {s})
    BY <1>5, <2>2, FS_Subset
  <2>4. Cardinality(Busy) \in Nat /\ Cardinality(Busy') \in Nat
    BY <2>1, <2>3, FS_CardinalityType
  <2> QED  BY <2>2, <2>3, <2>4
<1>7. Len(radiod) \in Nat
  BY LenProperties DEF ClientInv, SentInv
<1>8. CountInv'
  <2>1. /\ drawn \in Nat /\ heard \in Nat /\ heard <= MaxDatagrams
        /\ Len(radiod) + Cardinality(Busy) <= drawn
    BY DEF ClientInv, CountInv
  <2>2. drawn + 1 \in Nat /\ drawn + 1 <= MaxDatagrams /\ Len(radiod) + Cardinality(Busy') <= drawn + 1
    BY <1>1, <1>6, <1>7, <2>1, ControlAssumption
  <2> QED  BY <1>1, <1>2, <1>6, <2>1, <2>2 DEF CountInv
<1>9. SentInv'
  <2>1. \A u \in Sender : sending'[u] \in {Idle} \cup Commands(Requests[u])
    BY <1>3, <1>4 DEF ClientInv, SentInv
  <2>2. radiod' \in Seq(Commands(AllRequests))
    BY <1>1 DEF ClientInv, SentInv
  <2> QED  BY <1>4, <2>1, <2>2 DEF SentInv
<1>10. HeardInv'
  BY <1>1 DEF ClientInv, HeardInv
<1> QED  BY <1>8, <1>9, <1>10 DEF ClientInv

\* A sender is done with its datagram.
LEMMA SenderDone ==
    ASSUME ClientInv, NEW s \in Sender, sending[s] # Idle, sending' = [sending EXCEPT ![s] = Idle]
    PROVE  /\ sending' = [u \in Sender |-> sending'[u]]
           /\ \A u \in Sender : sending'[u] \in {Idle} \cup Commands(Requests[u])
           /\ Busy' = Busy \ {s} /\ \A u \in Busy' : sending'[u] = sending[u]
           /\ IsFiniteSet(Busy') /\ Cardinality(Busy') = Cardinality(Busy) - 1
           /\ Cardinality(Busy) \in Nat
<1>1. /\ sending' = [u \in Sender |-> sending'[u]]
      /\ \A u \in Sender : sending'[u] = IF u = s THEN Idle ELSE sending[u]
  BY DEF ClientInv, SentInv
<1>2. s \in Busy /\ Busy' = Busy \ {s}
  BY <1>1 DEF Busy
<1>3. \A u \in Sender : sending'[u] \in {Idle} \cup Commands(Requests[u])
  BY <1>1 DEF ClientInv, SentInv
<1>4. IsFiniteSet(Busy)
  BY DEF ClientInv, CountInv
<1>5. IsFiniteSet(Busy \ {s}) /\ Cardinality(Busy \ {s}) = Cardinality(Busy) - 1
  BY <1>2, <1>4, FS_RemoveElement
<1>6. Cardinality(Busy) \in Nat
  BY <1>4, FS_CardinalityType
<1>7. \A u \in Busy' : sending'[u] = sending[u]
  BY <1>1, <1>2 DEF Busy
<1> QED  BY <1>1, <1>2, <1>3, <1>5, <1>6, <1>7

LEMMA SendToKeeps ==
    ASSUME ClientInv, NEW s \in Sender, SendTo(s)
    PROVE  ClientInv'
<1> DEFINE C == Commands(AllRequests)
<1>1. /\ sending[s] # Idle /\ radiod' \in {radiod, Append(radiod, sending[s])}
      /\ Hears(sending[s].data) /\ sending' = [sending EXCEPT ![s] = Idle]
      /\ cmd_tag' = cmd_tag /\ drawn' = drawn /\ heard' = heard /\ statuses' = statuses
  BY DEF SendTo
<1>2. sending[s] \in C
  BY <1>1 DEF ClientInv, SentInv, Commands, AllRequests
<1>3. /\ sending' = [u \in Sender |-> sending'[u]]
      /\ \A u \in Sender : sending'[u] \in {Idle} \cup Commands(Requests[u])
      /\ IsFiniteSet(Busy') /\ Cardinality(Busy') = Cardinality(Busy) - 1
      /\ Cardinality(Busy) \in Nat
  BY <1>1, SenderDone
<1>4. radiod \in Seq(C) /\ Len(radiod) \in Nat
  BY LenProperties DEF ClientInv, SentInv
<1> HIDE DEF C
<1>5. radiod' \in Seq(C) /\ Len(radiod') \in Nat /\ Len(radiod') <= Len(radiod) + 1
  <2>1. Append(radiod, sending[s]) \in Seq(C) /\ Len(Append(radiod, sending[s])) = Len(radiod) + 1
    BY <1>2, <1>4, AppendProperties
  <2> QED  BY <1>1, <1>4, <2>1
<1>6. CountInv'
  <2>1. /\ drawn \in Nat /\ Len(radiod) + Cardinality(Busy) <= drawn
    BY DEF ClientInv, CountInv
  <2>2. Len(radiod') + Cardinality(Busy') <= drawn
    BY <1>3, <1>4, <1>5, <2>1
  <2> QED  BY <1>1, <1>3, <2>2 DEF ClientInv, CountInv
<1>7. SentInv'
  BY <1>3, <1>5 DEF SentInv, C
<1>8. HeardInv'
  <2>1. sending[s].data \in Datagram
    BY <1>2 DEF Datagram, C
  <2>2. socket' \in Seq(Datagram) /\ Len(socket') <= SockCap
    BY <1>1, <2>1, HearingKeeps DEF ClientInv
  <2> QED  BY <1>1, <2>2 DEF ClientInv, HeardInv
<1> QED  BY <1>6, <1>7, <1>8 DEF ClientInv

LEMMA SendFailsKeeps ==
    ASSUME ClientInv, NEW s \in Sender, SendFails(s)
    PROVE  ClientInv'
<1>1. /\ sending[s] # Idle /\ sending' = [sending EXCEPT ![s] = Idle] /\ radiod' = radiod
      /\ cmd_tag' = cmd_tag /\ drawn' = drawn /\ heard' = heard /\ statuses' = statuses
      /\ socket' = socket
  BY DEF SendFails
<1>2. /\ sending' = [u \in Sender |-> sending'[u]]
      /\ \A u \in Sender : sending'[u] \in {Idle} \cup Commands(Requests[u])
      /\ IsFiniteSet(Busy') /\ Cardinality(Busy') = Cardinality(Busy) - 1
      /\ Cardinality(Busy) \in Nat
  BY <1>1, SenderDone
<1>3. Len(radiod) \in Nat
  BY LenProperties DEF ClientInv, SentInv
<1>4. CountInv'
  <2>1. /\ drawn \in Nat /\ Len(radiod) + Cardinality(Busy) <= drawn
    BY DEF ClientInv, CountInv
  <2>2. Len(radiod) + Cardinality(Busy') <= drawn
    BY <1>2, <1>3, <2>1
  <2> QED  BY <1>1, <1>2, <2>2 DEF ClientInv, CountInv
<1>5. SentInv'
  BY <1>1, <1>2 DEF ClientInv, SentInv
<1>6. HeardInv'
  BY <1>1 DEF ClientInv, HeardInv
<1> QED  BY <1>4, <1>5, <1>6 DEF ClientInv

LEMMA OthersKeep ==
    ASSUME ClientInv, NEW data \in Datagram, OthersSend(data)
    PROVE  ClientInv'
<1>1. /\ heard < MaxDatagrams /\ heard' = heard + 1 /\ Hears(data)
      /\ cmd_tag' = cmd_tag /\ drawn' = drawn /\ sending' = sending /\ radiod' = radiod
      /\ statuses' = statuses
  BY DEF OthersSend
<1>2. Busy' = Busy
  BY <1>1 DEF Busy
<1>3. CountInv'
  <2>1. heard + 1 \in Nat /\ heard + 1 <= MaxDatagrams
    BY <1>1, ControlAssumption DEF ClientInv, CountInv
  <2> QED  BY <1>1, <1>2, <2>1 DEF ClientInv, CountInv
<1>4. SentInv'
  BY <1>1 DEF ClientInv, SentInv
<1>5. HeardInv'
  BY <1>1, HearingKeeps DEF ClientInv, HeardInv
<1> QED  BY <1>3, <1>4, <1>5 DEF ClientInv

LEMMA RecvKeeps == ASSUME ClientInv, Recv PROVE ClientInv'
<1> DEFINE data == Head(socket)
<1>1. /\ socket # <<>> /\ socket' = Tail(socket)
      /\ cmd_tag' = cmd_tag /\ drawn' = drawn /\ sending' = sending /\ radiod' = radiod
      /\ heard' = heard
  BY DEF Recv
<1>2. PICK pkt : pkt = decode_packet(Cut(data)) /\ statuses' = Queued(pkt)
  BY DEF Recv
<1>3. /\ socket \in Seq(Datagram) /\ Len(socket) <= SockCap /\ Len(socket) \in Nat
      /\ statuses \in Seq(Reports) /\ Len(statuses) <= CHAN_BOUND /\ Len(statuses) \in Nat
  BY LenProperties DEF ClientInv, HeardInv
<1>4. data \in Datagram /\ socket' \in Seq(Datagram) /\ Len(socket') = Len(socket) - 1
  BY <1>1, <1>3, HeadTailProperties
<1> HIDE DEF data
<1>5. statuses' \in Seq(Reports) /\ Len(statuses') <= CHAN_BOUND
  <2>1. CASE Wanted(pkt) /\ Room
    <3> DEFINE x == [ssrc |-> SsrcIn(pkt.fields), fields |-> pkt.fields]
    <3>1. x \in Reports
      BY <1>2, <1>4, <2>1, WantedWasReported
    <3>2. statuses' = Append(statuses, x)
      BY <1>2, <2>1 DEF Queued
    <3> HIDE DEF x
    <3>3. Append(statuses, x) \in Seq(Reports) /\ Len(Append(statuses, x)) = Len(statuses) + 1
      BY <1>3, <3>1, AppendProperties
    <3>4. Len(statuses) + 1 <= CHAN_BOUND
      BY <1>3, <2>1, ControlAssumption DEF Room
    <3> QED  BY <3>2, <3>3, <3>4
  <2>2. CASE ~(Wanted(pkt) /\ Room)
    BY <1>2, <1>3, <2>2 DEF Queued
  <2> QED  BY <2>1, <2>2
<1>6. Len(socket') <= SockCap
  BY <1>3, <1>4, ControlAssumption
<1>7. Busy' = Busy
  BY <1>1 DEF Busy
<1>8. CountInv' /\ SentInv'
  BY <1>1, <1>7 DEF ClientInv, CountInv, SentInv
<1>9. HeardInv'
  BY <1>4, <1>5, <1>6 DEF HeardInv
<1> QED  BY <1>8, <1>9 DEF ClientInv

LEMMA StatusTaskKeeps == ASSUME ClientInv, StatusTask PROVE ClientInv'
<1>1. /\ statuses # <<>> /\ statuses' = Tail(statuses)
      /\ cmd_tag' = cmd_tag /\ drawn' = drawn /\ sending' = sending /\ radiod' = radiod
      /\ heard' = heard /\ socket' = socket
  BY DEF StatusTask
<1>2. statuses \in Seq(Reports) /\ Len(statuses) <= CHAN_BOUND /\ Len(statuses) \in Nat
  BY LenProperties DEF ClientInv, HeardInv
<1>3. statuses' \in Seq(Reports) /\ Len(statuses') = Len(statuses) - 1
  BY <1>1, <1>2, HeadTailProperties
<1>4. Len(statuses') <= CHAN_BOUND
  BY <1>2, <1>3, ControlAssumption
<1>5. Busy' = Busy
  BY <1>1 DEF Busy
<1>6. CountInv' /\ SentInv'
  BY <1>1, <1>5 DEF ClientInv, CountInv, SentInv
<1>7. HeardInv'
  BY <1>1, <1>3, <1>4 DEF ClientInv, HeardInv
<1> QED  BY <1>6, <1>7 DEF ClientInv

LEMMA ClientKeeps == Spec => []ClientInv
<1>1. Init => ClientInv
  BY ClientStarts
<1>2. ClientInv /\ [Next]_vars => ClientInv'
  <2> SUFFICES ASSUME ClientInv, [Next]_vars PROVE ClientInv'
    OBVIOUS
  <2>1. CASE Sends
    BY <2>1, BuildKeeps, SendToKeeps, SendFailsKeeps DEF Sends
  <2>2. CASE Group
    <3>1. ASSUME NEW st \in Statuses, OthersSend(Packet(Status, st)) PROVE ClientInv'
      <4>1. Packet(Status, st) \in Datagram
        BY DEF Datagram
      <4> QED  BY <3>1, <4>1, OthersKeep
    <3>2. ASSUME NEW data \in Foreign, OthersSend(data) PROVE ClientInv'
      <4>1. data \in Datagram
        BY DEF Datagram
      <4> QED  BY <3>2, <4>1, OthersKeep
    <3> QED  BY <2>2, <3>1, <3>2 DEF Group
  <2>3. CASE Recv
    BY <2>3, RecvKeeps
  <2>4. CASE StatusTask
    BY <2>4, StatusTaskKeeps
  <2>5. CASE UNCHANGED vars
    <3>1. /\ cmd_tag' = cmd_tag /\ drawn' = drawn /\ sending' = sending /\ radiod' = radiod
          /\ heard' = heard /\ socket' = socket /\ statuses' = statuses
      BY <2>5 DEF vars
    <3>2. Busy' = Busy
      BY <3>1 DEF Busy
    <3> QED  BY <3>1, <3>2 DEF ClientInv, CountInv, SentInv, HeardInv
  <2> QED  BY <2>1, <2>2, <2>3, <2>4, <2>5 DEF Next
<1> QED  BY <1>1, <1>2, PTL DEF Spec

\* The client's state has its types: the tag wraps within its u32, no more datagrams reach
\* radiod than were drawn, the socket and the channel stay within their bounds, and what
\* is queued is made of whole fields (control.rs:42-60, 95-143).
THEOREM ClientTypes == Spec => []TypeOK
<1>1. ClientInv => TypeOK
  <2> SUFFICES ASSUME ClientInv PROVE TypeOK
    OBVIOUS
  <2>1. cmd_tag \in 0 .. TagModulus - 1 /\ drawn \in 0 .. MaxDatagrams /\ heard \in 0 .. MaxDatagrams
    BY ControlAssumption DEF ClientInv, CountInv, Tags
  <2>2. \A s \in Sender : sending[s] = Idle \/ sending[s].asked \in Requests[s]
    <3>1. ASSUME NEW s \in Sender, sending[s] \in Commands(Requests[s])
          PROVE  sending[s].asked \in Requests[s]
      <4>1. PICK r \in Requests[s], t \in Tags : sending[s] = CommandOf(r, t)
        BY <3>1 DEF Commands
      <4> QED  BY <4>1 DEF CommandOf
    <3> QED  BY <3>1 DEF ClientInv, SentInv
  <2>3. Len(radiod) <= drawn
    <3>1. IsFiniteSet(Busy) /\ Len(radiod) + Cardinality(Busy) <= drawn /\ drawn \in Nat
      BY DEF ClientInv, CountInv
    <3>2. Len(radiod) \in Nat /\ Cardinality(Busy) \in Nat
      BY <3>1, LenProperties, FS_CardinalityType DEF ClientInv, SentInv
    <3> QED  BY <3>1, <3>2
  <2>4. Len(socket) <= SockCap /\ Len(statuses) <= CHAN_BOUND
    BY DEF ClientInv, HeardInv
  <2>5. ASSUME NEW i \in DOMAIN statuses, NEW j \in DOMAIN statuses[i].fields
        PROVE  IsField(statuses[i].fields[j])
    <3>1. statuses \in Seq(Reports)
      BY DEF ClientInv, HeardInv
    <3>2. statuses[i] \in Reports
      BY <3>1, LenProperties, ElementOfSeq
    <3>3. PICK st \in Statuses : \E m \in 0 .. Len(st) : statuses[i] = Reported(st, m)
      BY <3>2 DEF Reports
    <3>a. PICK m \in 0 .. Len(st) : statuses[i] = Reported(st, m)
      BY <3>3
    <3> DEFINE q == SubSeq(st, 1, m)
               f == q[j]
    <3>4. q \in Seq(Fields) /\ statuses[i].fields = q
      BY <3>a, ControlAssumption, CutShort DEF Reported
    <3> HIDE DEF q
    <3>5. f \in Fields
      BY <3>4, LenProperties, ElementOfSeq
    <3> HIDE DEF f
    <3>6. IsField(f)
      <4>1. /\ f.tag \in 1 .. 255 /\ f.value.kind \in {"Int", "Float", "Double", "Bytes"}
            /\ f.value.bytes \in Seq(Byte)
        BY <3>5 DEF Fields
      <4>2. \A k \in DOMAIN f.value.bytes : f.value.bytes[k] \in Byte
        BY <4>1, LenProperties, ElementOfSeq
      <4>3. \A x \in 1 .. 255 : x \in 0 .. 255
        OBVIOUS
      <4> QED  BY <4>1, <4>2, <4>3 DEF IsField, Byte
    <3> QED  BY <3>4, <3>6 DEF f
  <2> QED  BY <2>1, <2>2, <2>3, <2>4, <2>5 DEF TypeOK
<1> QED  BY <1>1, ClientKeeps, PTL

\* status_task is told nothing radiod has not said, however the socket's buffer cut it:
\* every queued packet is the fields of one STATUS up to some point, under its own SSRC
\* or none (recv_task, control.rs:95-143; decode_packet, tlv.rs:172-225).
THEOREM StatusesAreTrue == Spec => []StatusesTrue
<1>1. ClientInv => StatusesTrue
  <2> SUFFICES ASSUME ClientInv, NEW i \in DOMAIN statuses
               PROVE  \E st \in Statuses :
                          /\ IsPrefix(statuses[i].fields, st)
                          /\ statuses[i].ssrc = SsrcIn(statuses[i].fields)
                          /\ statuses[i].ssrc \in {NoSsrc, SsrcIn(st)}
    BY DEF StatusesTrue
  <2>1. statuses \in Seq(Reports)
    BY DEF ClientInv, HeardInv
  <2>2. statuses[i] \in Reports
    BY <2>1, LenProperties, ElementOfSeq
  <2>3. PICK st \in Statuses : \E m \in 0 .. Len(st) : statuses[i] = Reported(st, m)
    BY <2>2 DEF Reports
  <2>a. PICK m \in 0 .. Len(st) : statuses[i] = Reported(st, m)
    BY <2>3
  <2> DEFINE q == SubSeq(st, 1, m)
  <2>4. st \in Seq(Fields) /\ Len(st) \in Nat
    BY ControlAssumption, LenProperties
  <2>5. m \in Nat /\ m <= Len(st)
    BY <2>a, <2>4
  <2>6. q \in Seq(Fields) /\ Len(q) = m
    BY <2>a, <2>4, CutShort
  <2>7. SsrcIn(q) \in {NoSsrc, SsrcIn(st)}
    BY <2>4, <2>5, SsrcOfPrefix
  <2>8. IsPrefix(q, st)
    <3>1. SubSeq(q, 1, Len(q)) = q
      BY <2>6, AllOfIt
    <3>2. SubSeq(st, 1, Len(q)) = q /\ Len(q) <= Len(st)
      BY <2>5, <2>6
    <3> HIDE DEF q
    <3> QED  BY <3>1, <3>2 DEF IsPrefix
  <2>9. statuses[i].fields = q /\ statuses[i].ssrc = SsrcIn(q)
    BY <2>a DEF Reported
  <2> HIDE DEF q
  <2> QED  BY <2>7, <2>8, <2>9
<1> QED  BY <1>1, ClientKeeps, PTL

-----------------------------------------------------------------------------
(* Labels, as long as no tag comes twice. *)

\* Every command that is on its way or has arrived is read as such.
LEMMA WhatIsSent ==
    ASSUME ClientInv
    PROVE  /\ Len(radiod) \in Nat
           /\ \A i \in 1 .. Len(radiod) : \E t \in Tags :
                  decode_packet(radiod[i].data) = Decoded(Command, <<TagField(t)>> \o radiod[i].asked)
                  /\ Label(radiod[i]) = TagField(t)
<1>1. radiod \in Seq(Commands(AllRequests)) /\ Len(radiod) \in Nat
  BY LenProperties DEF ClientInv, SentInv
<1>2. ASSUME NEW i \in 1 .. Len(radiod)
      PROVE  \E t \in Tags :
                 decode_packet(radiod[i].data) = Decoded(Command, <<TagField(t)>> \o radiod[i].asked)
                 /\ Label(radiod[i]) = TagField(t)
  <2>1. radiod[i] \in Commands(AllRequests)
    BY <1>1, ElementOfSeq
  <2>2. PICK r \in AllRequests, t \in Tags : radiod[i] = CommandOf(r, t)
    BY <2>1 DEF Commands
  <2>3. r \in Seq(Fields) /\ radiod[i].asked = r
    BY <2>2, RequestsAreFields DEF CommandOf
  <2> QED  BY <2>2, <2>3, CommandRead
<1> QED  BY <1>1, <1>2

LEMMA OneTagEach ==
    ASSUME MaxDatagrams + 1 < TagModulus, NEW n \in Nat, n <= MaxDatagrams,
           NEW t \in 1 .. n, TagField(t) = TagField(n + 1)
    PROVE  FALSE
<1>1. /\ t \in Nat /\ n + 1 \in Nat /\ t < TagModulus /\ n + 1 < TagModulus /\ t # n + 1
  BY ControlAssumption
<1> QED  BY <1>1, TagsFit, TagsDiffer

LEMMA LabelsStart == ASSUME Init PROVE LabelInv
<1>1. cmd_tag = 1 /\ drawn = 0 /\ sending = [s \in Sender |-> Idle] /\ radiod = <<>>
  BY DEF Init
<1>2. Busy = {} /\ Len(radiod) = 0 /\ cmd_tag = drawn + 1
  BY <1>1 DEF Busy
<1>3. 1 .. Len(radiod) = {}
  BY <1>2
<1> QED  BY <1>2, <1>3 DEF LabelInv

LEMMA LabelsOfBuild ==
    ASSUME MaxDatagrams + 1 < TagModulus, ClientInv, LabelInv,
           NEW s \in Sender, NEW r \in Requests[s], Build(s, r)
    PROVE  LabelInv'
<1> DEFINE e == CommandOf(r, cmd_tag)
           f == TagField(cmd_tag)
<1>1. /\ sending[s] = Idle /\ drawn < MaxDatagrams /\ cmd_tag' = (cmd_tag + 1) % TagModulus
      /\ drawn' = drawn + 1 /\ sending' = [sending EXCEPT ![s] = e] /\ radiod' = radiod
  BY DEF Build, TagAfter, CommandOf
<1>2. drawn \in Nat /\ cmd_tag = drawn + 1 /\ cmd_tag \in Tags
  BY DEF ClientInv, CountInv, LabelInv
<1>3. cmd_tag' = drawn' + 1
  <2>1. cmd_tag + 1 \in Nat /\ cmd_tag + 1 < TagModulus /\ TagModulus \in Nat
    BY <1>1, <1>2, ControlAssumption
  <2>2. \A x, y \in Nat : x < y => x % y = x
    OBVIOUS
  <2>3. (cmd_tag + 1) % TagModulus = cmd_tag + 1
    BY <2>1, <2>2
  <2> QED  BY <1>1, <1>2, <2>3
<1>4. Label(e) = f
  <2>1. r \in Seq(Fields)
    BY ControlAssumption
  <2> QED  BY <1>2, <2>1, CommandRead
<1> HIDE DEF e
<1>5. \A u \in Sender : sending'[u] = IF u = s THEN e ELSE sending[u]
  BY <1>1 DEF ClientInv, SentInv
<1>6. s \notin Busy /\ Busy' \subseteq Busy \cup {s} /\ Busy \subseteq Sender /\ Busy' \subseteq Sender
  BY <1>1, <1>5 DEF Busy
<1>7. \A t \in 1 .. drawn : TagField(t) # f
  <2>1. drawn <= MaxDatagrams
    BY <1>1, <1>2, ControlAssumption
  <2> QED  BY <1>2, <2>1, OneTagEach
<1> DEFINE N(x) == \E t \in 1 .. drawn + 1 : Label(x) = TagField(t)
<1>8. \A x : Numbered(x) => N(x) /\ Label(x) # f
  <2>1. \A t \in 1 .. drawn : t \in 1 .. drawn + 1
    BY <1>2
  <2> QED  BY <1>7, <2>1 DEF Numbered
<1>9. N(e)
  <2>1. drawn + 1 \in 1 .. drawn + 1
    BY <1>2
  <2> QED  BY <1>2, <1>4, <2>1
<1> HIDE DEF N, f
<1>10. \A i \in 1 .. Len(radiod) : N(radiod[i]) /\ Label(radiod[i]) # f
  BY <1>8 DEF LabelInv
<1>11. \A u \in Busy' : N(sending'[u]) /\ (u # s => Label(sending'[u]) # f)
  BY <1>5, <1>6, <1>8, <1>9 DEF LabelInv
<1>12. \A i \in 1 .. Len(radiod), u \in Busy' : Label(radiod[i]) # Label(sending'[u])
  <2> SUFFICES ASSUME NEW i \in 1 .. Len(radiod), NEW u \in Busy'
               PROVE  Label(radiod[i]) # Label(sending'[u])
    OBVIOUS
  <2>1. CASE u = s
    BY <1>4, <1>5, <1>6, <1>10, <2>1
  <2>2. CASE u # s
    BY <1>5, <1>6, <2>2 DEF LabelInv
  <2> QED  BY <2>1, <2>2
<1>13. \A u, v \in Busy' : Label(sending'[u]) = Label(sending'[v]) => u = v
  <2> SUFFICES ASSUME NEW u \in Busy', NEW v \in Busy', u # v
               PROVE  Label(sending'[u]) # Label(sending'[v])
    OBVIOUS
  <2>1. CASE u = s
    BY <1>4, <1>5, <1>6, <1>11, <2>1
  <2>2. CASE v = s
    BY <1>4, <1>5, <1>6, <1>11, <2>2
  <2>3. CASE u # s /\ v # s
    BY <1>5, <1>6, <2>3 DEF LabelInv
  <2> QED  BY <2>1, <2>2, <2>3
<1>14. \A i, j \in 1 .. Len(radiod) : Label(radiod[i]) = Label(radiod[j]) => i = j
  BY DEF LabelInv
<1> QED  BY <1>1, <1>3, <1>10, <1>11, <1>12, <1>13, <1>14 DEF LabelInv, Numbered, N, Label

\* What a sender hands over or gives up is no longer its own.
LEMMA LabelsOfDone ==
    ASSUME ClientInv, LabelInv, NEW s \in Sender, sending[s] # Idle,
           sending' = [sending EXCEPT ![s] = Idle], cmd_tag' = cmd_tag, drawn' = drawn,
           radiod' \in {radiod, Append(radiod, sending[s])}
    PROVE  LabelInv'
<1> DEFINE C == Commands(AllRequests)
           n == Len(radiod)
           e == sending[s]
           N(x) == \E t \in 1 .. drawn : Label(x) = TagField(t)
<1>1. Busy' = Busy \ {s} /\ (\A u \in Busy' : sending'[u] = sending[u]) /\ s \in Busy
  BY SenderDone DEF Busy
<1>2. radiod \in Seq(C) /\ n \in Nat /\ e \in C
  <2>1. radiod \in Seq(C) /\ n \in Nat
    BY LenProperties DEF ClientInv, SentInv
  <2>2. e \in Commands(Requests[s])
    BY DEF ClientInv, SentInv
  <2>3. PICK r \in Requests[s], t \in Tags : e = CommandOf(r, t)
    BY <2>2 DEF Commands
  <2>4. r \in AllRequests
    BY DEF AllRequests
  <2>5. e \in C
    BY <2>3, <2>4 DEF Commands
  <2> QED  BY <2>1, <2>5
<1>3. /\ cmd_tag = drawn + 1 /\ N(e)
      /\ \A i \in 1 .. n : N(radiod[i]) /\ Label(radiod[i]) # Label(e)
      /\ \A u \in Busy : N(sending[u]) /\ (u # s => Label(sending[u]) # Label(e))
      /\ \A i, j \in 1 .. n : Label(radiod[i]) = Label(radiod[j]) => i = j
      /\ \A i \in 1 .. n, u \in Busy : Label(radiod[i]) # Label(sending[u])
      /\ \A u, v \in Busy : Label(sending[u]) = Label(sending[v]) => u = v
  BY <1>1 DEF LabelInv, Numbered
<1> HIDE DEF C, e, N
<1> DEFINE m == Len(radiod')
<1>4. \/ radiod' = radiod /\ m = n
      \/ m = n + 1 /\ radiod'[n + 1] = e /\ \A i \in 1 .. n : radiod'[i] = radiod[i]
  <2>1. /\ Len(Append(radiod, e)) = n + 1
        /\ \A i \in 1 .. n : Append(radiod, e)[i] = radiod[i]
        /\ Append(radiod, e)[n + 1] = e
    BY <1>2, AppendProperties
  <2>2. radiod' = radiod \/ radiod' = Append(radiod, e)
    BY DEF e
  <2> QED  BY <2>1, <2>2
<1> HIDE DEF m, n
<1>5. \A i \in 1 .. m : \/ i \in 1 .. n /\ radiod'[i] = radiod[i]
                        \/ i = n + 1 /\ radiod'[i] = e
  <2>1. \A i \in 1 .. n + 1 : i \in 1 .. n \/ i = n + 1
    BY <1>2
  <2> QED  BY <1>4, <2>1
<1>6. \A i \in 1 .. m : N(radiod'[i])
  BY <1>3, <1>5
<1>7. \A i, j \in 1 .. m : Label(radiod'[i]) = Label(radiod'[j]) => i = j
  <2> SUFFICES ASSUME NEW i \in 1 .. m, NEW j \in 1 .. m, Label(radiod'[i]) = Label(radiod'[j])
               PROVE  i = j
    OBVIOUS
  <2>1. CASE radiod'[i] = e
    BY <1>3, <1>5, <2>1
  <2>2. CASE radiod'[j] = e
    BY <1>3, <1>5, <2>2
  <2>3. CASE radiod'[i] # e /\ radiod'[j] # e
    BY <1>3, <1>5, <2>3
  <2> QED  BY <2>1, <2>2, <2>3
<1>8. \A i \in 1 .. m, u \in Busy' : Label(radiod'[i]) # Label(sending'[u])
  BY <1>1, <1>3, <1>5
<1>9. \A u, v \in Busy' : Label(sending'[u]) = Label(sending'[v]) => u = v
  BY <1>1, <1>3
<1>10. \A u \in Busy' : N(sending'[u])
  BY <1>1, <1>3
<1> QED  BY <1>3, <1>6, <1>7, <1>8, <1>9, <1>10 DEF LabelInv, Numbered, N, Label, m

LEMMA LabelsKeep ==
    ASSUME MaxDatagrams + 1 < TagModulus
    PROVE  Spec => [](ClientInv /\ LabelInv)
<1>1. Init => LabelInv
  BY LabelsStart
<1>2. ClientInv /\ LabelInv /\ [Next]_vars => LabelInv'
  <2> SUFFICES ASSUME ClientInv, LabelInv, [Next]_vars PROVE LabelInv'
    OBVIOUS
  <2>1. ASSUME NEW s \in Sender, NEW r \in Requests[s], Build(s, r) PROVE LabelInv'
    BY <2>1, LabelsOfBuild
  <2>2. ASSUME NEW s \in Sender, SendTo(s) \/ SendFails(s) PROVE LabelInv'
    <3>1. /\ sending[s] # Idle /\ sending' = [sending EXCEPT ![s] = Idle]
          /\ cmd_tag' = cmd_tag /\ drawn' = drawn
          /\ radiod' \in {radiod, Append(radiod, sending[s])}
      BY <2>2 DEF SendTo, SendFails
    <3> QED  BY <3>1, LabelsOfDone
  <2>3. CASE Group \/ Recv \/ StatusTask \/ UNCHANGED vars
    <3>1. cmd_tag' = cmd_tag /\ drawn' = drawn /\ sending' = sending /\ radiod' = radiod
      BY <2>3 DEF Group, OthersSend, Recv, StatusTask, vars
    <3>2. Busy' = Busy
      BY <3>1 DEF Busy
    <3> QED  BY <3>1, <3>2 DEF LabelInv, Numbered, Label
  <2> QED  BY <2>1, <2>2, <2>3 DEF Next, Sends
<1> QED  BY <1>1, <1>2, ClientKeeps, PTL DEF Spec

\* Every datagram that reaches radiod is a COMMAND with a tag that was drawn and exactly
\* the fields that were asked for, as long as the program sends fewer than TagModulus - 1
\* of them (send_command, control.rs:162-178; encode_packet, tlv.rs:229-281).
THEOREM CommandsAreUnderstood ==
    ASSUME MaxDatagrams + 1 < TagModulus
    PROVE  Spec => []CommandsUnderstood
<1>1. ClientInv /\ LabelInv => CommandsUnderstood
  <2> SUFFICES ASSUME ClientInv, LabelInv, NEW i \in DOMAIN radiod
               PROVE  \E tag \in 0 .. cmd_tag :
                          decode_packet(radiod[i].data) = Decoded(Command, <<TagField(tag)>> \o radiod[i].asked)
    BY DEF CommandsUnderstood
  <2>1. i \in 1 .. Len(radiod)
    BY LenProperties DEF ClientInv, SentInv
  <2>2. PICK t \in Tags :
            decode_packet(radiod[i].data) = Decoded(Command, <<TagField(t)>> \o radiod[i].asked)
            /\ Label(radiod[i]) = TagField(t)
    BY <2>1, WhatIsSent
  <2>3. PICK u \in 1 .. drawn : Label(radiod[i]) = TagField(u)
    BY <2>1 DEF LabelInv, Numbered
  <2>4. u \in 0 .. cmd_tag
    BY DEF ClientInv, CountInv, LabelInv
  <2> QED  BY <2>2, <2>3, <2>4
<1> QED  BY <1>1, LabelsKeep, PTL

\* No two datagrams reach radiod under one tag, whichever of the tasks sent them and
\* whatever was lost in between, as long as the u32 of tags has not been used up
\* (send_command, control.rs:166-175).
THEOREM TagsAreUnique ==
    ASSUME MaxDatagrams + 1 < TagModulus
    PROVE  Spec => []TagsUnique
<1>1. ClientInv /\ LabelInv => TagsUnique
  <2> SUFFICES ASSUME ClientInv, LabelInv, NEW i \in DOMAIN radiod, NEW j \in DOMAIN radiod,
                      decode_packet(radiod[i].data).fields[1] = decode_packet(radiod[j].data).fields[1]
               PROVE  i = j
    BY DEF TagsUnique
  <2>1. i \in 1 .. Len(radiod) /\ j \in 1 .. Len(radiod)
    BY LenProperties DEF ClientInv, SentInv
  <2> QED  BY <2>1 DEF LabelInv, Label
<1> QED  BY <1>1, LabelsKeep, PTL
=============================================================================
