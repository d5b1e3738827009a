------------------------------ MODULE StartUpProofs ------------------------------
(* What start-up guarantees for every configuration that fits the SSRC. *)
EXTENDS StartUp, SsrcProofs, SequenceTheorems

\* At most n TRX on every endpoint of every configuration.
AtMostTrx(n) == \A c \in Configs :
    /\ Len(c.trx) <= n
    /\ \A i \in DOMAIN c.endpoints : Len(c.endpoints[i]) <= n

LEMMA EndpointsType ==
    ASSUME NEW n \in Nat, AtMostTrx(n), file_cfg \in Configs
    PROVE  /\ endpoints \in Seq(Seq(Nat))
           /\ \A i \in 1 .. Len(endpoints) : Len(endpoints[i]) <= n
<1>1. file_cfg.endpoints \in Seq(Seq(Nat)) /\ file_cfg.trx \in Seq(Nat)
  BY ConfigsAssumption DEF FileConfig
<1>2. CASE file_cfg.endpoints # <<>>
  BY <1>1, <1>2 DEF endpoints, AtMostTrx
<1>3. CASE file_cfg.endpoints = <<>>
  <2>1. endpoints = <<file_cfg.trx>>
    BY <1>3 DEF endpoints
  <2>2. Len(file_cfg.trx) <= n
    BY DEF AtMostTrx
  <2> QED  BY <2>1, <2>2, <1>1
<1> QED  BY <1>2, <1>3

(* The loop: what has been announced comes from the configuration, and the *)
(* position of the inner loop is within the last spawned endpoint.         *)
LoopInv(n) ==
    /\ file_cfg \in Configs
    /\ trx_count \in Seq(Byte)
    /\ Len(trx_count) <= 255
    /\ Len(trx_count) <= Len(endpoints)
    /\ \A e \in DOMAIN trx_count :
          /\ trx_count[e] >= 1
          /\ trx_count[e] <= n \/ trx_count[e] = 1
          /\ trx_count[e] >= Len(endpoints[e])
    /\ trx_idx \in Nat
    /\ idx > 0 => trx_idx <= Len(endpoints[idx])

LEMMA LoopInit ==
    ASSUME NEW n \in Byte, AtMostTrx(n)
    PROVE  Init => LoopInv(n)
<1> SUFFICES ASSUME Init PROVE LoopInv(n)
  OBVIOUS
<1>1. file_cfg \in Configs /\ trx_count = <<>> /\ trx_idx = 0 /\ idx = 0
  BY DEF Init, idx
<1>2. endpoints \in Seq(Seq(Nat))
  BY <1>1, EndpointsType DEF Byte
<1> QED  BY <1>1, <1>2 DEF LoopInv

LEMMA LoopNext ==
    ASSUME NEW n \in Byte, AtMostTrx(n)
    PROVE  LoopInv(n) /\ [Next]_vars => LoopInv(n)'
<1> SUFFICES ASSUME LoopInv(n), [Next]_vars PROVE LoopInv(n)'
  OBVIOUS
<1> USE DEF LoopInv
<1>0. /\ endpoints \in Seq(Seq(Nat))
      /\ \A i \in 1 .. Len(endpoints) : Len(endpoints[i]) <= n
  BY EndpointsType DEF Byte
<1>1. ASSUME UNCHANGED <<file_cfg, trx_count, trx_idx>> PROVE LoopInv(n)'
  BY <1>1 DEF endpoints, idx
<1>2. CASE SpawnServer
  <2> DEFINE a == AnnouncedTrx(endpoints[idx + 1])
  <2>1. idx \in Nat /\ idx + 1 \in 1 .. Len(endpoints) /\ idx + 1 <= 255
    BY <1>2, <1>0 DEF SpawnServer, idx
  <2>2. endpoints[idx + 1] \in Seq(Nat) /\ Len(endpoints[idx + 1]) <= n
    BY <2>1, <1>0
  <2>3. /\ a \in Byte /\ a >= 1 /\ (a <= n \/ a = 1)
        /\ a >= Len(endpoints[idx + 1])
    <3> DEFINE l == Len(endpoints[idx + 1])
    <3>1. l \in Nat /\ l <= n /\ n <= 255 /\ n \in Nat
      BY <2>2 DEF Byte
    <3>2. a = (IF l = 0 THEN 1 ELSE l) % 256
      BY DEF AnnouncedTrx, as_u8
    <3> HIDE DEF l, a
    <3>3. a = IF l = 0 THEN 1 ELSE l
      BY <3>1, <3>2
    <3>4. a \in Byte /\ a >= 1 /\ (a <= n \/ a = 1) /\ a >= l
      BY <3>1, <3>3 DEF Byte
    <3> QED  BY <3>4 DEF l
  <2> HIDE DEF a
  <2>4. /\ trx_count' = Append(trx_count, a) /\ trx_idx' = 0
        /\ file_cfg' = file_cfg /\ endpoints' = endpoints
    BY <1>2 DEF SpawnServer, endpoints, a
  <2>5. /\ trx_count' \in Seq(Byte)
        /\ Len(trx_count') = Len(trx_count) + 1
        /\ \A e \in 1 .. Len(trx_count) : trx_count'[e] = trx_count[e]
        /\ trx_count'[Len(trx_count) + 1] = a
    BY <2>3, <2>4
  <2>6. ASSUME NEW e \in DOMAIN trx_count'
        PROVE  /\ trx_count'[e] >= 1
               /\ trx_count'[e] <= n \/ trx_count'[e] = 1
               /\ trx_count'[e] >= Len(endpoints'[e])
    <3>1. e \in 1 .. Len(trx_count) \/ e = idx + 1
      BY <2>5 DEF idx
    <3> QED  BY <3>1, <2>3, <2>4, <2>5 DEF idx
  <2>7. idx' = idx + 1 /\ endpoints'[idx'] \in Seq(Nat)
    BY <2>2, <2>4, <2>5 DEF idx
  <2>8. trx_idx' \in Nat /\ (idx' > 0 => trx_idx' <= Len(endpoints'[idx']))
    BY <2>4, <2>7
  <2> QED  BY <2>1, <2>4, <2>5, <2>6, <2>8 DEF idx
<1>3. CASE CollectTune
  <2>1. /\ idx > 0 /\ trx_idx # Len(endpoints[idx]) /\ trx_idx' = trx_idx + 1
        /\ file_cfg' = file_cfg /\ trx_count' = trx_count
        /\ endpoints' = endpoints /\ idx' = idx
    BY <1>3 DEF CollectTune, AllTrxSeen, endpoints, idx
  <2>2. idx \in 1 .. Len(endpoints)
    BY <2>1, <1>0 DEF idx
  <2>3. Len(endpoints[idx]) \in Nat
    BY <2>2, <1>0
  <2>4. trx_idx' \in Nat /\ trx_idx' <= Len(endpoints[idx])
    BY <2>1, <2>3
  <2> QED  BY <2>1, <2>4
<1> QED
  BY <1>1, <1>2, <1>3 DEF Next, Bail, StartBridge, vars

\* Every TRX a client can address owns a radiod channel, if no endpoint has
\* more TRX than the 4 bits of the SSRC number; the run startup_aliased shows
\* what happens with one more.
THEOREM ChannelsOwned ==
    ASSUME AtMostTrx(16)
    PROVE  Spec => []OwnChannel
<1>1. LoopInv(16) => OwnChannel
  <2> SUFFICES ASSUME LoopInv(16), NEW a \in Addressable
               PROVE  ssrc_decode(ssrc_encode(a[1], a[2], 0)) = <<a[1], a[2], 0>>
    BY DEF OwnChannel
  <2>1. PICK e \in Byte, t \in Byte :
            e < Len(trx_count) /\ t < trx_count[e + 1] /\ a = <<e, t>>
    BY DEF Addressable
  <2>2. e + 1 \in DOMAIN trx_count /\ trx_count[e + 1] \in Byte
    <3>1. trx_count \in Seq(Byte) /\ Len(trx_count) \in Nat
      BY DEF LoopInv
    <3>2. e + 1 \in 1 .. Len(trx_count)
      BY <2>1, <3>1 DEF Byte
    <3> QED  BY <3>1, <3>2
  <2>3. trx_count[e + 1] <= 16
    BY <2>2 DEF LoopInv
  <2>4. t \in Nibble /\ 0 \in Nibble
    <3> DEFINE k == trx_count[e + 1]
    <3>1. t < k /\ k \in Byte /\ k <= 16
      BY <2>1, <2>2, <2>3
    <3> HIDE DEF k
    <3> QED  BY <3>1 DEF Nibble, Byte
  <2>5. ssrc_decode(ssrc_encode(e, t, 0)) = <<e, t, 0>>
    BY <2>4, RoundTrip
  <2>6. a[1] = e /\ a[2] = t
    BY <2>1
  <2> QED  BY <2>5, <2>6
<1>2. Init => LoopInv(16)
  BY LoopInit DEF Byte
<1>3. LoopInv(16) /\ [Next]_vars => LoopInv(16)'
  BY LoopNext DEF Byte
<1> QED  BY <1>1, <1>2, <1>3, PTL DEF Spec

(* The Tunes collected so far are for TRX the loop has passed, in order. *)
Passed(tune) ==
    \/ tune.endpoint < idx - 1
    \/ tune.endpoint = idx - 1 /\ tune.trx < trx_idx

TunesInv ==
    /\ initial_tunes \in Seq([endpoint : Byte, trx : Byte, freq_hz : Nat \ {0}])
    /\ \A i \in DOMAIN initial_tunes :
          /\ Passed(initial_tunes[i])
          /\ initial_tunes[i].trx < trx_count[initial_tunes[i].endpoint + 1]
    /\ \A i, j \in DOMAIN initial_tunes :
          initial_tunes[i].endpoint = initial_tunes[j].endpoint
          /\ initial_tunes[i].trx = initial_tunes[j].trx => i = j


LEMMA ByteNat == \A x \in Byte : x \in Nat /\ x <= 255
  BY DEF Byte

LEMMA TuneFields ==
    ASSUME TunesInv, NEW i \in DOMAIN initial_tunes
    PROVE  /\ DOMAIN initial_tunes = 1 .. Len(initial_tunes)
           /\ initial_tunes[i].endpoint \in Byte
           /\ initial_tunes[i].endpoint \in Nat
           /\ initial_tunes[i].trx \in Byte
           /\ initial_tunes[i].trx \in Nat
           /\ Passed(initial_tunes[i])
           /\ initial_tunes[i].trx < trx_count[initial_tunes[i].endpoint + 1]
<1> DEFINE T == [endpoint : Byte, trx : Byte, freq_hz : Nat \ {0}]
<1>1. initial_tunes \in Seq(T)
  BY DEF TunesInv
<1> HIDE DEF T
<1>2. initial_tunes[i] \in T /\ DOMAIN initial_tunes = 1 .. Len(initial_tunes)
  BY <1>1
<1>3. initial_tunes[i].endpoint \in Byte /\ initial_tunes[i].trx \in Byte
  BY <1>2 DEF T
<1> QED  BY <1>2, <1>3, ByteNat DEF TunesInv

LEMMA TunesNext ==
    ASSUME AtMostTrx(255), LoopInv(255), TunesInv, [Next]_vars
    PROVE  TunesInv'
<1> DEFINE T == [endpoint : Byte, trx : Byte, freq_hz : Nat \ {0}]
<1>0. /\ endpoints \in Seq(Seq(Nat))
      /\ \A i \in 1 .. Len(endpoints) : Len(endpoints[i]) <= 255
  BY EndpointsType DEF LoopInv
<1>1. idx \in Nat /\ idx = Len(trx_count) /\ trx_idx \in Nat
  BY DEF LoopInv, idx
<1>2. ASSUME UNCHANGED <<trx_count, trx_idx, initial_tunes>> PROVE TunesInv'
  BY <1>2 DEF TunesInv, Passed, idx
<1>3. CASE SpawnServer
  <2>1. /\ trx_count' = Append(trx_count, AnnouncedTrx(endpoints[idx + 1]))
        /\ trx_idx' = 0 /\ initial_tunes' = initial_tunes
    BY <1>3 DEF SpawnServer
  <2>2. idx' = idx + 1 /\ \A e \in 1 .. idx : trx_count'[e] = trx_count[e]
    BY <2>1, <1>1 DEF LoopInv, idx
  <2>3. ASSUME NEW i \in DOMAIN initial_tunes'
        PROVE  /\ Passed(initial_tunes[i])'
               /\ initial_tunes'[i].trx < trx_count'[initial_tunes'[i].endpoint + 1]
    <3> DEFINE e == initial_tunes[i].endpoint
               t == initial_tunes[i].trx
    <3>1. e \in Nat /\ t \in Nat
      BY <2>1, <2>3, TuneFields
    <3>2. e <= idx - 1 /\ t < trx_count[e + 1]
      BY <2>1, <2>3, <3>1, <1>1, TuneFields DEF Passed
    <3>3. e + 1 \in 1 .. idx
      BY <3>1, <3>2, <1>1
    <3>4. t < trx_count'[e + 1] /\ e < idx' - 1
      BY <3>1, <3>2, <3>3, <2>2, <1>1
    <3> QED  BY <3>4, <2>1 DEF Passed
  <2> QED  BY <2>1, <2>3 DEF TunesInv
<1>4. CASE CollectTune
  <2>1. /\ idx \in 1 .. Len(endpoints) /\ idx <= 255
        /\ trx_idx # Len(endpoints[idx]) /\ trx_idx <= Len(endpoints[idx])
        /\ trx_idx' = trx_idx + 1 /\ trx_count' = trx_count /\ idx' = idx
    BY <1>0, <1>1, <1>4 DEF CollectTune, AllTrxSeen, LoopInv, idx
  <2>2. /\ Len(endpoints[idx]) \in Nat /\ Len(endpoints[idx]) <= 255
        /\ endpoints[idx] \in Seq(Nat)
    BY <2>1, <1>0
  <2>3. trx_idx < Len(endpoints[idx]) /\ trx_idx <= 254 /\ as_u8(trx_idx) = trx_idx
    BY <2>1, <2>2, <1>1 DEF as_u8
  <2>4. CASE initial_tunes' = initial_tunes
    <3>1. ASSUME NEW i \in DOMAIN initial_tunes PROVE Passed(initial_tunes[i])'
      BY <2>4, <2>1, <1>1, TuneFields DEF Passed
    <3> QED  BY <3>1, <2>4, <2>1 DEF TunesInv
  <2>5. CASE initial_tunes' # initial_tunes
    <3> DEFINE f == endpoints[idx][trx_idx + 1]
               new == [endpoint |-> idx - 1, trx |-> trx_idx, freq_hz |-> f]
               n == Len(initial_tunes)
    <3>n. n \in Nat /\ DOMAIN initial_tunes = 1 .. n
      BY DEF TunesInv
    <3>1. initial_tunes' = Append(initial_tunes, new) /\ f > 0
      BY <1>4, <2>3, <2>5 DEF CollectTune, InitialTune
    <3>2. new \in T
      <4>1. idx - 1 \in Byte /\ trx_idx \in Byte
        <5>1. ASSUME NEW x \in Nat, 1 <= x, x <= 255 PROVE x - 1 \in Byte
          BY <5>1 DEF Byte
        <5>2. ASSUME NEW x \in Nat, x <= 254 PROVE x \in Byte
          BY <5>2 DEF Byte
        <5> QED  BY <5>1, <5>2, <2>1, <2>3, <1>1
      <4>2. f \in Nat \ {0}
        BY <3>1, <2>2, <2>3, <1>1
      <4> HIDE DEF f
      <4> QED  BY <4>1, <4>2
    <3>3. trx_idx < trx_count[idx]
      <4>1. idx \in DOMAIN trx_count
        BY <1>1, <2>1 DEF LoopInv
      <4>2. trx_count[idx] >= Len(endpoints[idx]) /\ trx_count[idx] \in Byte
        BY <4>1 DEF LoopInv
      <4>3. ASSUME NEW a \in Nat, NEW b \in Nat, b >= a, trx_idx < a PROVE trx_idx < b
        BY <4>3, <1>1
      <4> QED  BY <4>2, <4>3, <2>2, <2>3, ByteNat
    <3>4. /\ new.endpoint = idx - 1 /\ new.trx = trx_idx
      OBVIOUS
    <3> HIDE DEF new
    <3>5. /\ initial_tunes' \in Seq(T) /\ n \in Nat
          /\ DOMAIN initial_tunes' = 1 .. n + 1
          /\ \A i \in 1 .. n : initial_tunes'[i] = initial_tunes[i]
          /\ initial_tunes'[n + 1] = new
      BY <3>1, <3>2 DEF TunesInv
    <3>6. ASSUME NEW i \in 1 .. n
          PROVE  /\ Passed(initial_tunes[i]) /\ Passed(initial_tunes[i])'
                 /\ initial_tunes[i].trx < trx_count'[initial_tunes[i].endpoint + 1]
      <4>1. initial_tunes[i].endpoint \in Nat /\ initial_tunes[i].trx \in Nat
        BY <3>n, TuneFields
      <4>2. initial_tunes'[i] = initial_tunes[i]
        BY <3>5
      <4> QED  BY <4>1, <4>2, <2>1, <1>1, TuneFields DEF Passed
    <3>7. ASSUME NEW i \in DOMAIN initial_tunes'
          PROVE  /\ Passed(initial_tunes[i])'
                 /\ initial_tunes'[i].trx < trx_count'[initial_tunes'[i].endpoint + 1]
      <4>1. CASE i \in 1 .. n
        BY <4>1, <3>5, <3>6
      <4>2. CASE i = n + 1
        <5>1. initial_tunes'[i] = new
          BY <4>2, <3>5
        <5> QED  BY <5>1, <3>3, <3>4, <2>1, <1>1 DEF Passed
      <4> QED  BY <4>1, <4>2, <3>5
    <3>8. ASSUME NEW i \in 1 .. n
          PROVE  ~(initial_tunes[i].endpoint = new.endpoint /\ initial_tunes[i].trx = new.trx)
      <4>1. initial_tunes[i].endpoint \in Nat /\ initial_tunes[i].trx \in Nat
        BY <3>n, TuneFields
      <4> QED  BY <4>1, <3>4, <3>6, <1>1 DEF Passed
    <3>9. ASSUME NEW i \in DOMAIN initial_tunes', NEW j \in DOMAIN initial_tunes',
                 initial_tunes'[i].endpoint = initial_tunes'[j].endpoint,
                 initial_tunes'[i].trx = initial_tunes'[j].trx
          PROVE  i = j
      <4>1. i \in 1 .. n \/ i = n + 1
        BY <3>5
      <4>2. j \in 1 .. n \/ j = n + 1
        BY <3>5
      <4>3. CASE i \in 1 .. n /\ j \in 1 .. n
        BY <4>3, <3>n, <3>5, <3>9 DEF TunesInv
      <4>4. CASE i \in 1 .. n /\ j = n + 1
        BY <4>4, <3>5, <3>8, <3>9
      <4>5. CASE i = n + 1 /\ j \in 1 .. n
        BY <4>5, <3>5, <3>8, <3>9
      <4> QED  BY <4>1, <4>2, <4>3, <4>4, <4>5
    <3> QED  BY <3>5, <3>7, <3>9 DEF TunesInv
  <2> QED  BY <2>4, <2>5
<1> QED
  BY <1>2, <1>3, <1>4 DEF Next, Bail, StartBridge, vars

\* Initial Tunes are for TRX their endpoint announces, each at most once, as
\* long as the TRX of an endpoint fit a byte.
THEOREM TunesForAnnouncedTrx ==
    ASSUME AtMostTrx(255)
    PROVE  Spec => []TunesAddressable
<1>1. LoopInv(255) /\ TunesInv => TunesAddressable
  <2> SUFFICES ASSUME LoopInv(255), TunesInv, NEW i \in DOMAIN initial_tunes
               PROVE  <<initial_tunes[i].endpoint, initial_tunes[i].trx>> \in Addressable
    BY DEF TunesAddressable, TunesInv
  <2> DEFINE e == initial_tunes[i].endpoint
             t == initial_tunes[i].trx
  <2>1. /\ e \in Byte /\ e \in Nat /\ t \in Byte /\ t < trx_count[e + 1]
        /\ e < idx - 1 \/ e = idx - 1
    BY TuneFields DEF Passed
  <2>2. idx = Len(trx_count) /\ idx \in Nat
    BY DEF idx, LoopInv
  <2>3. e < Len(trx_count)
    BY <2>1, <2>2
  <2> HIDE DEF e, t
  <2>4. <<e, t>> \in Addressable
    BY <2>1, <2>3 DEF Addressable
  <2> QED  BY <2>4 DEF e, t
<1>2. Init => LoopInv(255) /\ TunesInv
  <2>1. Init => LoopInv(255)
    BY LoopInit DEF Byte
  <2>2. Init => TunesInv
    BY DEF Init, TunesInv
  <2> QED  BY <2>1, <2>2
<1>3. LoopInv(255) /\ TunesInv /\ [Next]_vars => (LoopInv(255) /\ TunesInv)'
  <2>1. LoopInv(255) /\ [Next]_vars => LoopInv(255)'
    BY LoopNext DEF Byte
  <2>2. LoopInv(255) /\ TunesInv /\ [Next]_vars => TunesInv'
    BY TunesNext
  <2> QED  BY <2>1, <2>2
<1> QED  BY <1>1, <1>2, <1>3, PTL DEF Spec

(* What the loop has passed is tuned. *)
ServedInv ==
    /\ \A e \in 1 .. idx : \A t \in 1 .. Len(endpoints[e]) :
          (e < idx \/ t <= trx_idx) /\ endpoints[e][t] > 0 => Tuned(e, t)
    /\ outcome = "started" => AllTrxSeen /\ idx = Len(endpoints)

\* A Tune once collected stays.
LEMMA TunedStays ==
    ASSUME TunesInv, endpoints' = endpoints, NEW new \in [endpoint : Byte, trx : Byte, freq_hz : Nat \ {0}],
           initial_tunes' \in {initial_tunes, Append(initial_tunes, new)},
           NEW e, NEW t, Tuned(e, t)
    PROVE  Tuned(e, t)'
<1> DEFINE T == [endpoint : Byte, trx : Byte, freq_hz : Nat \ {0}]
           n == Len(initial_tunes)
<1>1. initial_tunes \in Seq(T) /\ n \in Nat /\ DOMAIN initial_tunes = 1 .. n
  BY DEF TunesInv
<1>2. PICK i \in 1 .. n :
         initial_tunes[i] = [endpoint |-> e - 1, trx |-> t - 1, freq_hz |-> endpoints[e][t]]
  BY <1>1 DEF Tuned
<1> HIDE DEF T
<1>3. i \in DOMAIN initial_tunes' /\ initial_tunes'[i] = initial_tunes[i]
  BY <1>1, <1>2 DEF T
<1> QED  BY <1>2, <1>3 DEF Tuned

LEMMA ServedNext ==
    ASSUME AtMostTrx(255), LoopInv(255), TunesInv, ServedInv, [Next]_vars
    PROVE  ServedInv'
<1>0. /\ endpoints \in Seq(Seq(Nat))
      /\ \A i \in 1 .. Len(endpoints) : Len(endpoints[i]) <= 255
      /\ idx \in Nat /\ idx = Len(trx_count) /\ trx_idx \in Nat /\ idx <= Len(endpoints)
      /\ idx > 0 => trx_idx <= Len(endpoints[idx])
  BY EndpointsType DEF LoopInv, idx
<1>1. CASE UNCHANGED vars
  BY <1>1 DEF vars, ServedInv, Tuned, AllTrxSeen, idx, endpoints
<1>2. CASE Bail
  BY <1>2 DEF Bail, ServedInv, Tuned, AllTrxSeen, idx, endpoints
<1>3. CASE StartBridge
  BY <1>3 DEF StartBridge, ServedInv, Tuned, AllTrxSeen, idx, endpoints
<1>4. CASE SpawnServer
  <2>1. /\ trx_idx' = 0 /\ initial_tunes' = initial_tunes /\ endpoints' = endpoints
        /\ outcome' = "starting" /\ AllTrxSeen
    BY <1>4 DEF SpawnServer, endpoints
  <2>2. idx' = idx + 1
    BY <1>4, <1>0 DEF SpawnServer, idx, LoopInv
  <2>3. ASSUME NEW e \in 1 .. idx, NEW t \in 1 .. Len(endpoints[e]), endpoints[e][t] > 0
        PROVE  Tuned(e, t)'
    <3>1. Len(endpoints[e]) \in Nat
      BY <1>0
    <3>2. e < idx \/ t <= trx_idx
      BY <1>0, <2>1, <3>1 DEF AllTrxSeen
    <3>3. Tuned(e, t)
      BY <2>3, <3>2 DEF ServedInv
    <3> QED  BY <3>3, <2>1 DEF Tuned
  <2>4. ASSUME NEW e \in 1 .. idx', NEW t \in 1 .. Len(endpoints'[e]),
               e < idx' \/ t <= trx_idx', endpoints'[e][t] > 0
        PROVE  Tuned(e, t)'
    <3>1. e \in 1 .. idx
      BY <1>0, <2>1, <2>2, <2>4
    <3> QED  BY <2>1, <2>3, <2>4, <3>1
  <2> QED  BY <2>1, <2>4 DEF ServedInv
<1>5. CASE CollectTune
  <2> DEFINE f == endpoints[idx][trx_idx + 1]
             new == [endpoint |-> idx - 1, trx |-> trx_idx, freq_hz |-> f]
             n == Len(initial_tunes)
             T == [endpoint : Byte, trx : Byte, freq_hz : Nat \ {0}]
  <2>1. /\ idx \in 1 .. Len(endpoints) /\ idx <= 255 /\ trx_idx # Len(endpoints[idx])
        /\ trx_idx' = trx_idx + 1 /\ idx' = idx /\ endpoints' = endpoints
        /\ outcome' = "starting"
    BY <1>0, <1>5 DEF CollectTune, AllTrxSeen, LoopInv, idx, endpoints
  <2>2. /\ Len(endpoints[idx]) \in Nat /\ Len(endpoints[idx]) <= 255
        /\ endpoints[idx] \in Seq(Nat) /\ trx_idx <= Len(endpoints[idx])
    BY <1>0, <2>1
  <2>3. trx_idx < Len(endpoints[idx]) /\ trx_idx <= 254 /\ as_u8(trx_idx) = trx_idx
    <3> DEFINE l == Len(endpoints[idx])
    <3>1. /\ l \in Nat /\ l <= 255 /\ trx_idx <= l /\ trx_idx # l /\ trx_idx \in Nat
      BY <1>0, <2>1, <2>2
    <3> HIDE DEF l
    <3>2. trx_idx < l /\ trx_idx <= 254 /\ as_u8(trx_idx) = trx_idx
      BY <3>1 DEF as_u8
    <3> QED  BY <3>2 DEF l
  <2>4. f \in Nat
    BY <1>0, <2>2, <2>3
  <2>5. initial_tunes' = IF f > 0 THEN Append(initial_tunes, new) ELSE initial_tunes
    BY <1>5, <2>3 DEF CollectTune, InitialTune
  <2>6. f > 0 => new \in T
    <3>1. idx - 1 \in Byte /\ trx_idx \in Byte
      <4>1. ASSUME NEW x \in Nat, 1 <= x, x <= 255 PROVE x - 1 \in Byte
        BY <4>1 DEF Byte
      <4>2. ASSUME NEW x \in Nat, x <= 254 PROVE x \in Byte
        BY <4>2 DEF Byte
      <4> QED  BY <4>1, <4>2, <1>0, <2>1, <2>3
    <3> HIDE DEF f
    <3> QED  BY <2>4, <3>1
  <2>7. initial_tunes \in Seq(T) /\ n \in Nat /\ DOMAIN initial_tunes = 1 .. n
    BY DEF TunesInv
  <2>8. ASSUME f > 0, NEW e, NEW t, e = idx, t = trx_idx + 1 PROVE Tuned(e, t)'
    <3>1. new = [endpoint |-> e - 1, trx |-> t - 1, freq_hz |-> endpoints'[e][t]]
      <4>1. t - 1 = trx_idx
        BY <1>0, <2>8
      <4> QED  BY <2>1, <2>8, <4>1
    <3> HIDE DEF f, new, T
    <3>2. n + 1 \in DOMAIN initial_tunes' /\ initial_tunes'[n + 1] = new
      BY <2>5, <2>6, <2>7, <2>8
    <3> QED  BY <3>1, <3>2 DEF Tuned
  <2>9. ASSUME NEW e \in 1 .. idx', NEW t \in 1 .. Len(endpoints'[e]),
               e < idx' \/ t <= trx_idx', endpoints'[e][t] > 0
        PROVE  Tuned(e, t)'
    <3>1. Len(endpoints[e]) \in Nat /\ e \in 1 .. idx /\ t \in 1 .. Len(endpoints[e])
      BY <1>0, <2>1, <2>9
    <3>2. CASE e = idx /\ t = trx_idx + 1
      BY <2>1, <2>8, <2>9, <3>2
    <3>3. CASE ~(e = idx /\ t = trx_idx + 1)
      <4>1. e < idx \/ t <= trx_idx
        BY <1>0, <2>1, <2>9, <3>1, <3>3
      <4>2. Tuned(e, t)
        BY <2>1, <2>9, <3>1, <4>1 DEF ServedInv
      <4>3. CASE f > 0
        <5>1. new \in T /\ initial_tunes' = Append(initial_tunes, new)
          BY <2>5, <2>6, <4>3
        <5> HIDE DEF new
        <5> QED  BY <2>1, <4>2, <5>1, TunedStays
      <4>4. CASE ~(f > 0)
        <5>1. initial_tunes' = initial_tunes
          BY <2>5, <4>4
        <5> QED  BY <2>1, <4>2, <5>1 DEF Tuned
      <4> QED  BY <4>3, <4>4
    <3> QED  BY <3>2, <3>3
  <2> QED  BY <2>1, <2>9 DEF ServedInv
<1> QED  BY <1>1, <1>2, <1>3, <1>4, <1>5 DEF Next

\* With at most 255 TRX on an endpoint, whatever the number of endpoints, all
\* that the configuration lists is announced, and tuned if it has a frequency.
THEOREM ConfigurationServed ==
    ASSUME AtMostTrx(255)
    PROVE  Spec => []ConfigServed
<1>1. LoopInv(255) /\ ServedInv => ConfigServed
  <2> SUFFICES ASSUME LoopInv(255), ServedInv, outcome = "started", NEW e \in DOMAIN endpoints
               PROVE  /\ <<e - 1, 0>> \in Addressable
                      /\ \A t \in DOMAIN endpoints[e] :
                            /\ <<e - 1, t - 1>> \in Addressable
                            /\ endpoints[e][t] > 0 => Tuned(e, t)
    BY DEF ConfigServed
  <2>0. /\ endpoints \in Seq(Seq(Nat)) /\ Len(endpoints[e]) \in Nat
        /\ DOMAIN endpoints[e] = 1 .. Len(endpoints[e])
    BY EndpointsType DEF LoopInv, Byte
  <2>1. /\ idx = Len(endpoints) /\ idx = Len(trx_count) /\ Len(trx_count) \in Nat
        /\ idx > 0 => trx_idx = Len(endpoints[idx])
    BY DEF ServedInv, LoopInv, AllTrxSeen, idx
  <2>2. e \in 1 .. Len(trx_count) /\ Len(trx_count) <= 255 /\ e \in DOMAIN trx_count
    <3>1. DOMAIN endpoints = 1 .. Len(endpoints)
      BY <2>0
    <3>2. trx_count \in Seq(Byte) /\ Len(trx_count) <= 255
      BY DEF LoopInv
    <3>3. DOMAIN trx_count = 1 .. Len(trx_count)
      BY <3>2
    <3> QED  BY <2>1, <3>1, <3>2, <3>3
  <2>3. /\ trx_count[e] \in Byte /\ trx_count[e] >= 1 /\ trx_count[e] >= Len(endpoints[e])
    BY <2>2 DEF LoopInv
  <2>4. ASSUME NEW k \in Nat, k < trx_count[e] PROVE <<e - 1, k>> \in Addressable
    <3> DEFINE d == e - 1
               m == trx_count[e]
    <3>1. d \in Byte /\ d < Len(trx_count) /\ trx_count[d + 1] = m
      <4>1. ASSUME NEW x \in Nat, 1 <= x, x <= 255 PROVE x - 1 \in Byte
        BY <4>1 DEF Byte
      <4> QED  BY <4>1, <2>2
    <3>2. m \in Byte /\ k < m
      BY <2>3, <2>4
    <3> HIDE DEF d, m
    <3>3. k \in Byte
      BY <3>2 DEF Byte
    <3>4. <<d, k>> \in Addressable
      BY <3>1, <3>2, <3>3 DEF Addressable
    <3> QED  BY <3>4 DEF d
  <2>5. <<e - 1, 0>> \in Addressable
    <3>1. 0 < trx_count[e]
      BY <2>3, ByteNat
    <3> QED  BY <2>4, <3>1
  <2>6. ASSUME NEW t \in DOMAIN endpoints[e]
        PROVE  /\ <<e - 1, t - 1>> \in Addressable
               /\ endpoints[e][t] > 0 => Tuned(e, t)
    <3>1. t \in 1 .. Len(endpoints[e]) /\ t - 1 \in Nat
      BY <2>0
    <3>2. t - 1 < trx_count[e]
      BY <2>0, <2>3, <3>1, ByteNat
    <3>3. e < idx \/ t <= trx_idx
      BY <2>0, <2>1, <2>2, <3>1
    <3>4. endpoints[e][t] > 0 => Tuned(e, t)
      BY <2>1, <2>2, <3>1, <3>3 DEF ServedInv
    <3> QED  BY <2>4, <3>1, <3>2, <3>4
  <2> QED  BY <2>5, <2>6
<1>2. Init => LoopInv(255) /\ TunesInv /\ ServedInv
  <2>1. Init => LoopInv(255)
    BY LoopInit DEF Byte
  <2>2. Init => TunesInv
    BY DEF Init, TunesInv
  <2>3. Init => ServedInv
    BY DEF Init, ServedInv, idx
  <2> QED  BY <2>1, <2>2, <2>3
<1>3. LoopInv(255) /\ TunesInv /\ ServedInv /\ [Next]_vars
        => (LoopInv(255) /\ TunesInv /\ ServedInv)'
  <2>1. LoopInv(255) /\ [Next]_vars => LoopInv(255)'
    BY LoopNext DEF Byte
  <2> QED  BY <2>1, TunesNext, ServedNext
<1> QED  BY <1>1, <1>2, <1>3, PTL DEF Spec
-----------------------------------------------------------------------------
(* Types hold for every configuration, however many TRX it lists. *)

LEMMA EndpointsNat == file_cfg \in Configs => endpoints \in Seq(Seq(Nat))
BY ConfigsAssumption DEF FileConfig, endpoints

LEMMA ByteCast == \A n \in Nat : as_u8(n) \in Byte
<1>1. \A n \in Nat : n % 256 \in Nat /\ n % 256 <= 255
  OBVIOUS
<1> QED  BY <1>1 DEF as_u8, Byte

\* Endpoints are counted by a byte, and the inner loop stays within the TRX of one.
PositionInv ==
    /\ Len(trx_count) <= 255
    /\ Len(trx_count) <= Len(endpoints)
    /\ idx > 0 => trx_idx <= Len(endpoints[idx])

LEMMA PositionNext == TypeOK /\ PositionInv /\ [Next]_vars => (TypeOK /\ PositionInv)'
<1> SUFFICES ASSUME TypeOK, PositionInv, [Next]_vars PROVE (TypeOK /\ PositionInv)'
  OBVIOUS
<1> USE DEF TypeOK
<1>0. endpoints \in Seq(Seq(Nat)) /\ Len(endpoints) \in Nat /\ Len(trx_count) \in Nat
  BY EndpointsNat
<1>1. ASSUME UNCHANGED <<file_cfg, trx_count, trx_idx, initial_tunes>>,
             outcome' \in {"starting", "bailed", "started"}
      PROVE  (TypeOK /\ PositionInv)'
  BY <1>1 DEF endpoints, idx, PositionInv
<1>2. CASE SpawnServer
  <2> DEFINE a == AnnouncedTrx(endpoints[idx + 1])
  <2>1. /\ trx_count' = Append(trx_count, a) /\ trx_idx' = 0
        /\ file_cfg' = file_cfg /\ endpoints' = endpoints
        /\ outcome' = outcome /\ initial_tunes' = initial_tunes
        /\ idx < Len(endpoints) /\ Len(endpoints) <= 255
    BY <1>2 DEF SpawnServer, endpoints
  <2>2. endpoints[idx + 1] \in Seq(Nat) /\ idx + 1 \in 1 .. Len(endpoints)
    BY <1>0, <2>1 DEF idx
  <2>3. a \in Byte
    <3> DEFINE l == Len(endpoints[idx + 1])
    <3>1. l \in Nat
      BY <2>2
    <3> QED  BY <3>1, ByteCast DEF AnnouncedTrx
  <2> HIDE DEF a
  <2>4. trx_count' \in Seq(Byte) /\ Len(trx_count') = Len(trx_count) + 1
    BY <2>1, <2>3
  <2>5. idx' = idx + 1 /\ Len(endpoints[idx + 1]) \in Nat
    BY <2>2, <2>4 DEF idx
  <2>6. TypeOK'
    BY <2>1, <2>4
  <2>7. PositionInv'
    BY <1>0, <2>1, <2>4, <2>5 DEF PositionInv, idx
  <2> QED  BY <2>6, <2>7
<1>3. CASE CollectTune
  <2> DEFINE f == endpoints[idx][trx_idx + 1]
             tune == InitialTune(idx - 1, trx_idx, f)
  <2>1. /\ idx > 0 /\ trx_idx # Len(endpoints[idx]) /\ trx_idx' = trx_idx + 1
        /\ initial_tunes' = IF f > 0 THEN Append(initial_tunes, tune) ELSE initial_tunes
        /\ file_cfg' = file_cfg /\ trx_count' = trx_count /\ outcome' = outcome
        /\ endpoints' = endpoints /\ idx' = idx
    BY <1>3 DEF CollectTune, AllTrxSeen, endpoints, idx
  <2>2. idx \in 1 .. Len(endpoints) /\ idx - 1 \in Byte
    <3>1. idx \in Nat /\ idx <= 255 /\ idx <= Len(endpoints)
      BY <1>0 DEF PositionInv, idx
    <3> DEFINE n == idx
               l == Len(endpoints)
    <3>2. n \in Nat /\ n <= 255 /\ n <= l /\ n > 0 /\ l \in Nat
      BY <1>0, <2>1, <3>1
    <3> HIDE DEF n, l
    <3>3. n \in 1 .. l /\ n - 1 \in Byte
      BY <3>2 DEF Byte
    <3> QED  BY <3>3 DEF n, l
  <2>3. endpoints[idx] \in Seq(Nat) /\ Len(endpoints[idx]) \in Nat
    BY <2>2, <1>0
  <2>4. trx_idx + 1 \in 1 .. Len(endpoints[idx])
    BY <2>1, <2>3 DEF PositionInv
  <2>5. f \in Nat
    BY <2>3, <2>4
  <2>6. f > 0 => tune \in [endpoint : Byte, trx : Byte, freq_hz : Nat \ {0}]
    <3>1. as_u8(trx_idx) \in Byte
      BY ByteCast
    <3> HIDE DEF f
    <3> QED  BY <3>1, <2>2, <2>5 DEF InitialTune
  <2> HIDE DEF f, tune
  <2>7. initial_tunes' \in Seq([endpoint : Byte, trx : Byte, freq_hz : Nat \ {0}])
    <3> DEFINE T == [endpoint : Byte, trx : Byte, freq_hz : Nat \ {0}]
    <3>1. initial_tunes \in Seq(T)
      OBVIOUS
    <3>2. f > 0 => tune \in T
      BY <2>6
    <3> HIDE DEF T
    <3>3. f > 0 => Append(initial_tunes, tune) \in Seq(T)
      BY <3>1, <3>2
    <3>4. initial_tunes' \in Seq(T)
      BY <2>1, <3>1, <3>3
    <3> QED  BY <3>4 DEF T
  <2>8. TypeOK'
    BY <2>1, <2>7
  <2>9. PositionInv'
    BY <2>1, <2>3, <2>4 DEF PositionInv
  <2> QED  BY <2>8, <2>9
<1> QED
  BY <1>1, <1>2, <1>3 DEF Next, Bail, StartBridge, vars

\* For every configuration: trx_count and the fields of an initial Tune are
\* bytes, whatever was cast to get them, and a Tune never carries 0 Hz
\* (main.rs:205-259).
THEOREM StartUpTyped == Spec => []TypeOK
<1>1. Init => TypeOK /\ PositionInv
  <2> SUFFICES ASSUME Init PROVE TypeOK /\ PositionInv
    OBVIOUS
  <2>1. endpoints \in Seq(Seq(Nat)) /\ idx = 0
    BY EndpointsNat DEF Init, idx
  <2> QED  BY <2>1 DEF Init, TypeOK, PositionInv
<1> QED  BY <1>1, PositionNext, PTL DEF Spec
===================================================================================
