----------------------------- MODULE DataPlaneProofs -----------------------------
(* What holds of DataPlane for any endpoints, TRX counts, clients, streams,  *)
(* groups and rates, for queues of any capacity and any number of packets.  *)
EXTENDS DataPlane, SsrcTableProofs, SsrcProofs, SequenceTheorems

OwnStream == {s \in Stream : Ours(s)}

-----------------------------------------------------------------------------
(* Constants, queues and frames. *)

LEMMA QueueOf ==
    ASSUME NEW T, NEW q \in Seq(T)
    PROVE  /\ Len(q) \in Nat /\ DOMAIN q = 1 .. Len(q)
           /\ \A i \in DOMAIN q : q[i] \in T
           /\ q # <<>> => Head(q) \in T /\ Tail(q) \in Seq(T)
           /\ \A x \in T : /\ Append(q, x) \in Seq(T)
                           /\ DOMAIN Append(q, x) = 1 .. Len(q) + 1
                           /\ \A i \in 1 .. Len(q) : Append(q, x)[i] = q[i]
                           /\ Append(q, x)[Len(q) + 1] = x
<1>1. /\ Len(q) \in Nat /\ DOMAIN q = 1 .. Len(q)
      /\ \A i \in DOMAIN q : q[i] \in T
  BY LenProperties, ElementOfSeq
<1>2. q # <<>> => Head(q) \in T /\ Tail(q) \in Seq(T)
  BY HeadTailProperties
<1>3. \A x \in T : /\ Append(q, x) \in Seq(T)
                   /\ DOMAIN Append(q, x) = 1 .. Len(q) + 1
                   /\ \A i \in 1 .. Len(q) : Append(q, x)[i] = q[i]
                   /\ Append(q, x)[Len(q) + 1] = x
  BY <1>1, AppendProperties, LenProperties
<1> QED  BY <1>1, <1>2, <1>3

\* The fields of an SSRC of the program, and what tells two such SSRCs apart.
LEMMA StreamChannel ==
    /\ \A s \in OwnStream : /\ Channel(s)[1] \in Nat
                            /\ Channel(s)[2] \in 0 .. 15
                            /\ Channel(s) = <<Channel(s)[1], Channel(s)[2], Channel(s)[3]>>
    /\ \A r, s \in OwnStream : Channel(r) = Channel(s) => r = s
<1>1. \A s \in OwnStream : s \in OwnSsrc
  BY DataPlaneAssumption DEF OwnStream, Ours, Channel, OwnSsrc, ssrc_decode
<1>2. ASSUME NEW s \in OwnStream
      PROVE  /\ Channel(s)[1] \in Nat
             /\ Channel(s)[2] \in 0 .. 15
             /\ Channel(s) = <<Channel(s)[1], Channel(s)[2], Channel(s)[3]>>
  <2>1. s \in Nat
    BY DataPlaneAssumption DEF OwnStream
  <2>2. Channel(s) = <<(s \div 65536) % 256, (s \div 16) % 16, s % 16>>
    BY DEF OwnStream, Ours, Channel, ssrc_decode
  <2>3. (s \div 65536) % 256 \in Nat /\ (s \div 16) % 16 \in 0 .. 15
    BY <2>1, SMT
  <2> QED  BY <2>2, <2>3
<1>3. \A r, s \in OwnStream : Channel(r) = Channel(s) => r = s
  BY <1>1, DecodeInjective DEF Channel
<1> QED  BY <1>2, <1>3

\* Forwarding a packet makes a frame of the channel the packet came from.
LEMMA FrameOfRouted ==
    ASSUME NEW pkt \in Packet, NEW g \in Group, pkt.ssrc \in OwnStream,
           Channel(pkt.ssrc)[1] \in Endpoint, Channel(pkt.ssrc)[3] = 0
    PROVE  /\ FrameOf(pkt, g) \in Frame
           /\ FrameOf(pkt, g).ssrc = pkt.ssrc
           /\ Channel(pkt.ssrc) = <<FrameOf(pkt, g).endpoint, FrameOf(pkt, g).trx, 0>>
<1> DEFINE c == Channel(pkt.ssrc)
<1>1. c[2] \in 0 .. 15 /\ c = <<c[1], c[2], 0>>
  BY StreamChannel
<1>2. pkt.ssrc \in Stream /\ pkt.seq \in Nat /\ pkt.rate \in Rate
  BY DEF Packet
<1> HIDE DEF c
<1>3. c[1] \in Endpoint
  BY DEF c
<1>4. FrameOf(pkt, g) = [ssrc |-> pkt.ssrc, seq |-> pkt.seq, rate |-> pkt.rate, group |-> g,
                         endpoint |-> c[1], trx |-> c[2], label |-> NoRate]
  BY DEF FrameOf, c
<1>5. FrameOf(pkt, g) \in Frame
  BY <1>1, <1>2, <1>3, <1>4 DEF Frame
<1>6. FrameOf(pkt, g).ssrc = pkt.ssrc /\ FrameOf(pkt, g).endpoint = c[1] /\ FrameOf(pkt, g).trx = c[2]
  BY <1>4
<1> QED  BY <1>1, <1>5, <1>6 DEF c

\* Labelling a frame leaves the rest of it alone.
LEMMA Labelled ==
    ASSUME NEW f \in Frame, NEW r \in Rate
    PROVE  LET l == [f EXCEPT !.label = r] IN
           l \in Frame /\ l.ssrc = f.ssrc /\ l.endpoint = f.endpoint /\ l.trx = f.trx
BY DEF Frame

LEMMA FrameFields ==
    ASSUME NEW f \in Frame
    PROVE  f.ssrc \in Stream /\ f.endpoint \in Endpoint /\ f.trx \in 0 .. 15
BY DEF Frame

-----------------------------------------------------------------------------
(* Type correctness. *)

LEMMA InitTypeOK == Init => TypeOK
<1> SUFFICES ASSUME Init PROVE TypeOK
  OBVIOUS
<1> USE DEF Init
<1>1. iq_samplerate \in [Endpoint -> Rate]
  BY DataPlaneAssumption
<1>2. radiod \in [Stream -> [rate : Rate, sent : Nat]]
  BY DataPlaneAssumption
<1>3. DOMAIN table \subseteq OwnStream /\ table \in [DOMAIN table -> ChannelInfo]
  BY EmptyTableIsTable DEF IsTable
<1>4. session \in [Session -> [online : BOOLEAN, next : Nat, active : SUBSET (0 .. 15)]]
  BY DEF Offline
<1>5. /\ setsrs \in Seq(SetSrCmd) /\ statuses \in Seq(Status)
      /\ socket \in [Group -> Seq(Packet)] /\ iq \in [Endpoint -> Seq(Frame)]
      /\ got \in [Session -> Seq(Frame)]
  OBVIOUS
<1> QED  BY <1>1, <1>2, <1>3, <1>4, <1>5 DEF TypeOK, OwnStream

LEMMA ControlTypeOK == TypeOK /\ Control => TypeOK'
<1> SUFFICES ASSUME TypeOK, Control PROVE TypeOK'
  OBVIOUS
<1> USE DEF controlVars, ingestVars, clientVars
<1>0. /\ IsTable(OwnStream, table) /\ setsrs \in Seq(SetSrCmd) /\ statuses \in Seq(Status)
      /\ changes \in Nat /\ faults \in Nat
  BY DEF TypeOK, IsTable, OwnStream
<1>1. ASSUME NEW e \in Endpoint, NEW r \in Rate, SetSamplerate(e, r) PROVE TypeOK'
  <2>1. [endpoint |-> e, samprate |-> r] \in SetSrCmd
    BY DEF SetSrCmd
  <2>2. setsrs' \in Seq(SetSrCmd)
    BY <1>0, <1>1, <2>1, QueueOf DEF SetSamplerate
  <2> QED  BY <1>1, <2>2 DEF TypeOK, SetSamplerate
<1>2. ASSUME NEW s \in Stream, NEW fate \in Fates, DispatchTune(s, fate) PROVE TypeOK'
  <2>1. s \in OwnStream
    BY <1>2 DEF DispatchTune, OwnStream
  <2>2. IsTable(OwnStream, table')
    <3> DEFINE K == OwnStream
    <3> HIDE DEF K
    <3>1. IsTable(K, table) /\ s \in K
      BY <1>0, <2>1 DEF K
    <3>2. IsTable(K, get_or_insert(table, s))
      BY <3>1, GetOrInsert
    <3>3. IsTable(K, mark_created(get_or_insert(table, s), s))
      BY <3>2, MarkCreated
    <3> QED  BY <1>2, <3>2, <3>3 DEF K, DispatchTune
  <2>3. radiod' \in [Stream -> [rate : Rate, sent : Nat]]
    <3> DEFINE c == Channel(s)[1]
    <3>1. c \in Endpoint
      BY <1>2 DEF DispatchTune
    <3>2. iq_samplerate[c] \in Rate
      BY <3>1 DEF TypeOK
    <3>3. \/ radiod' = radiod
          \/ radiod' = [radiod EXCEPT ![s] = [radiod[s] EXCEPT !.rate = iq_samplerate[c]]]
      BY <1>2 DEF DispatchTune
    <3> HIDE DEF c
    <3> QED  BY <3>2, <3>3 DEF TypeOK
  <2>4. faults' \in Nat
    BY <1>0, <1>2 DEF DispatchTune
  <2> QED  BY <1>2, <2>2, <2>3, <2>4 DEF TypeOK, DispatchTune, IsTable, OwnStream
<1>3. ASSUME NEW L \in SUBSET DOMAIN table, DispatchSetSr(L) PROVE TypeOK'
  <2>1. setsrs' \in Seq(SetSrCmd) /\ Head(setsrs).samprate \in Rate
    <3>1. Head(setsrs) \in SetSrCmd /\ setsrs' \in Seq(SetSrCmd)
      BY <1>0, <1>3, QueueOf DEF DispatchSetSr
    <3> QED  BY <3>1 DEF SetSrCmd
  <2>2. IsTable(OwnStream, table')
    BY <1>0, <1>3, Invalidate DEF DispatchSetSr
  <2>3. radiod' \in [Stream -> [rate : Rate, sent : Nat]]
    BY <1>3, <2>1 DEF TypeOK, DispatchSetSr
  <2>4. faults' \in Nat
    BY <1>0, <1>3 DEF DispatchSetSr
  <2> QED  BY <1>3, <2>1, <2>2, <2>3, <2>4 DEF TypeOK, DispatchSetSr, IsTable, OwnStream
<1>4. CASE StatusTask
  <2> DEFINE s == Head(statuses)
  <2>1. s \in Status /\ statuses' \in Seq(Status)
    BY <1>0, <1>4, QueueOf DEF StatusTask
  <2>2. /\ s.ssrc \in Stream /\ s.freq_hz \in Freq \cup {NoFreq}
        /\ s.data_group \in Group \cup {NoGroup}
    BY <2>1 DEF Status
  <2>3. table' = IF Ours(s.ssrc) THEN update_from_status(table, s) ELSE table
    BY <1>4 DEF StatusTask
  <2> HIDE DEF s
  <2>4. CASE Ours(s.ssrc)
    <3> DEFINE K == OwnStream
    <3>1. s.ssrc \in K
      BY <2>2, <2>4 DEF OwnStream
    <3> HIDE DEF K
    <3>2. IsTable(K, table)
      BY <1>0 DEF K
    <3>3. IsTable(K, table')
      BY <2>2, <2>3, <2>4, <3>1, <3>2, UpdateFromStatus
    <3> QED  BY <1>4, <2>1, <3>3 DEF K, TypeOK, StatusTask, IsTable, OwnStream
  <2>5. CASE ~Ours(s.ssrc)
    BY <1>4, <2>1, <2>3, <2>5 DEF TypeOK, StatusTask
  <2> QED  BY <2>4, <2>5
<1> QED  BY <1>1, <1>2, <1>3, <1>4 DEF Control

LEMMA RadiodTypeOK == TypeOK /\ Radiod => TypeOK'
<1> SUFFICES ASSUME TypeOK, NEW s \in Stream, RadiodStatus(s) \/ RadiodSends(s)
             PROVE  TypeOK'
  BY DEF Radiod
<1> USE DEF controlVars, ingestVars, clientVars
<1>1. CASE RadiodStatus(s)
  <2>1. PICK f \in Freq : statuses' = Append(statuses, [ssrc |-> s, freq_hz |-> f,
                                          data_group |-> GroupFor[radiod[s].rate]])
    BY <1>1 DEF RadiodStatus
  <2>2. GroupFor[radiod[s].rate] \in Group \cup {NoGroup}
    BY DataPlaneAssumption DEF TypeOK
  <2>3. [ssrc |-> s, freq_hz |-> f, data_group |-> GroupFor[radiod[s].rate]] \in Status
    BY <2>2 DEF Status
  <2>4. statuses' \in Seq(Status)
    BY <2>1, <2>3, QueueOf DEF TypeOK
  <2> QED  BY <1>1, <2>4 DEF TypeOK, RadiodStatus
<1>2. CASE RadiodSends(s)
  <2> DEFINE pkt == [ssrc |-> s, seq |-> radiod[s].sent + 1, rate |-> radiod[s].rate]
  <2>1. pkt \in Packet
    BY DEF TypeOK, Packet
  <2>2. radiod' \in [Stream -> [rate : Rate, sent : Nat]]
    <3>1. radiod' = [radiod EXCEPT ![s] = [radiod[s] EXCEPT !.sent = radiod[s].sent + 1]]
      BY <1>2 DEF RadiodSends
    <3>2. radiod[s] \in [rate : Rate, sent : Nat]
      BY DEF TypeOK
    <3>3. ASSUME NEW q \in [rate : Rate, sent : Nat], NEW n \in Nat
          PROVE  [q EXCEPT !.sent = n] \in [rate : Rate, sent : Nat]
      OBVIOUS
    <3>4. radiod[s].sent + 1 \in Nat
      BY <3>2
    <3>5. [radiod[s] EXCEPT !.sent = radiod[s].sent + 1] \in [rate : Rate, sent : Nat]
      BY <3>2, <3>3, <3>4
    <3> QED  BY <3>1, <3>5 DEF TypeOK
  <2>3. \A h \in Group : socket'[h] \in {socket[h], Append(socket[h], pkt)}
    BY <1>2 DEF RadiodSends
  <2> HIDE DEF pkt
  <2>4. \A h \in Group : socket'[h] \in Seq(Packet)
    <3>1. \A h \in Group : socket[h] \in Seq(Packet)
      BY DEF TypeOK
    <3>2. \A q \in Seq(Packet) : Append(q, pkt) \in Seq(Packet)
      BY <2>1, AppendProperties
    <3> QED  BY <2>3, <3>1, <3>2
  <2>5. socket' \in [Group -> Seq(Packet)]
    BY <1>2, <2>4 DEF RadiodSends
  <2> QED  BY <1>2, <2>2, <2>5 DEF TypeOK, RadiodSends
<1> QED  BY <1>1, <1>2

LEMMA RtpTypeOK == TypeOK /\ Rtp => TypeOK'
<1> SUFFICES ASSUME TypeOK, Rtp PROVE TypeOK'
  OBVIOUS
<1> USE DEF controlVars, ingestVars, clientVars
<1>1. CASE RtpManagerTick
  BY <1>1 DEF TypeOK, RtpManagerTick
<1>2. ASSUME NEW g \in Group, Join(g) PROVE TypeOK'
  BY <1>2 DEF TypeOK, Join
<1>3. ASSUME NEW g \in Group, JoinFails(g) PROVE TypeOK'
  BY <1>3 DEF TypeOK, JoinFails
<1>4. ASSUME NEW g \in Group, Ingest(g) PROVE TypeOK'
  <2> DEFINE pkt == Head(socket[g])
  <2>1. pkt \in Packet /\ Tail(socket[g]) \in Seq(Packet)
    BY <1>4, QueueOf DEF TypeOK, Ingest
  <2>2. socket' \in [Group -> Seq(Packet)]
    BY <1>4, <2>1 DEF TypeOK, Ingest
  <2>3. CASE Routed(pkt.ssrc)
    <3>1. pkt.ssrc \in OwnStream /\ Channel(pkt.ssrc)[1] \in Endpoint /\ Channel(pkt.ssrc)[3] = 0
      BY <2>3 DEF Routed, TypeOK, OwnStream
    <3>2. frame' = [frame EXCEPT ![g] = FrameOf(pkt, g)]
      BY <1>4, <2>3 DEF Ingest
    <3> HIDE DEF pkt
    <3>3. FrameOf(pkt, g) \in Frame
      BY <2>1, <3>1, FrameOfRouted
    <3>4. frame' \in [Group -> Frame \cup {NoFrame}]
      BY <3>2, <3>3 DEF TypeOK
    <3> QED  BY <1>4, <2>2, <3>4 DEF TypeOK, Ingest
  <2>4. CASE ~Routed(pkt.ssrc)
    BY <1>4, <2>2, <2>4 DEF TypeOK, Ingest
  <2> QED  BY <2>3, <2>4
<1>5. ASSUME NEW g \in Group, Publish(g) PROVE TypeOK'
  <2> DEFINE f == frame[g]
             e == f.endpoint
             l == [f EXCEPT !.label = iq_samplerate[e]]
  <2>1. f \in Frame
    BY <1>5 DEF TypeOK, Publish
  <2>2. e \in Endpoint /\ iq_samplerate[e] \in Rate
    BY <2>1, FrameFields DEF TypeOK
  <2>3. l \in Frame
    BY <2>1, <2>2, Labelled
  <2>4. iq' = [iq EXCEPT ![e] = Append(iq[e], l)] /\ frame' = [frame EXCEPT ![g] = NoFrame]
    BY <1>5 DEF Publish
  <2> HIDE DEF f, e, l
  <2>5. iq[e] \in Seq(Frame)
    BY <2>2 DEF TypeOK
  <2>6. Append(iq[e], l) \in Seq(Frame)
    BY <2>3, <2>5, QueueOf
  <2>7. iq' \in [Endpoint -> Seq(Frame)] /\ frame' \in [Group -> Frame \cup {NoFrame}]
    BY <2>4, <2>6 DEF TypeOK
  <2> QED  BY <1>5, <2>7 DEF TypeOK, Publish
<1> QED  BY <1>1, <1>2, <1>3, <1>4, <1>5 DEF Rtp

LEMMA PublishedTo ==
    ASSUME TypeOK, NEW k \in Session
    PROVE  /\ ServerOf[k] \in Endpoint
           /\ Published(k) \in Seq(Frame)
           /\ Len(Published(k)) \in Nat
           /\ DOMAIN Published(k) = 1 .. Len(Published(k))
<1>1. ServerOf[k] \in Endpoint
  BY DataPlaneAssumption
<1>2. Published(k) \in Seq(Frame)
  BY <1>1 DEF Published, TypeOK
<1> QED  BY <1>1, <1>2, QueueOf

LEMMA ClientTypeOK == TypeOK /\ Client => TypeOK'
<1> SUFFICES ASSUME TypeOK, NEW k \in Session,
                    \/ Connect(k) \/ Disconnect(k) \/ Lagged(k) \/ RecvFrame(k)
                    \/ \E trx \in 0 .. 15 : IqStart(k, trx) \/ IqStop(k, trx)
             PROVE  TypeOK'
  BY DEF Client
<1> USE DEF controlVars, ingestVars
<1> DEFINE S == [online : BOOLEAN, next : Nat, active : SUBSET (0 .. 15)]
<1>0. /\ session[k] \in S /\ session \in [Session -> S]
      /\ got \in [Session -> Seq(Frame)] /\ Len(Published(k)) \in Nat
  BY PublishedTo DEF TypeOK
<1>1. CASE Connect(k)
  <2>1. session' \in [Session -> S] /\ got' \in [Session -> Seq(Frame)]
    BY <1>0, <1>1 DEF Connect
  <2> QED  BY <1>1, <2>1 DEF TypeOK, Connect
<1>2. CASE Disconnect(k)
  <2>1. session' \in [Session -> S]
    BY <1>0, <1>2 DEF Disconnect, Offline
  <2> QED  BY <1>2, <2>1 DEF TypeOK, Disconnect
<1>3. CASE Lagged(k)
  <2>1. Len(Published(k)) - IqCap \in Nat
    BY <1>0, <1>3, DataPlaneAssumption DEF Lagged, Lagging
  <2>2. session' \in [Session -> S]
    BY <1>0, <1>3, <2>1 DEF Lagged
  <2> QED  BY <1>3, <2>2 DEF TypeOK, Lagged
<1>4. CASE RecvFrame(k)
  <2> DEFINE f == Published(k)[session[k].next + 1]
  <2>1. session[k].next + 1 \in DOMAIN Published(k)
    BY <1>0, <1>4, PublishedTo DEF RecvFrame
  <2>2. f \in Frame
    BY <2>1, PublishedTo, QueueOf
  <2>3. got' \in {got, [got EXCEPT ![k] = Append(got[k], f)]}
    BY <1>4 DEF RecvFrame
  <2> HIDE DEF f
  <2>4. Append(got[k], f) \in Seq(Frame)
    BY <1>0, <2>2, QueueOf
  <2>5. got' \in [Session -> Seq(Frame)]
    BY <1>0, <2>3, <2>4
  <2>6. session' \in [Session -> S]
    <3>1. session' = [session EXCEPT ![k] = [session[k] EXCEPT !.next = session[k].next + 1]]
      BY <1>4 DEF RecvFrame
    <3>2. ASSUME NEW q \in S, NEW n \in Nat PROVE [q EXCEPT !.next = n] \in S
      OBVIOUS
    <3>3. session[k].next + 1 \in Nat
      BY <1>0
    <3>4. [session[k] EXCEPT !.next = session[k].next + 1] \in S
      BY <1>0, <3>2, <3>3
    <3> QED  BY <1>0, <3>1, <3>4
  <2> QED  BY <1>4, <2>5, <2>6 DEF TypeOK, RecvFrame
<1>5. ASSUME NEW trx \in 0 .. 15, IqStart(k, trx) PROVE TypeOK'
  <2>1. session' \in [Session -> S]
    BY <1>0, <1>5 DEF IqStart
  <2> QED  BY <1>5, <2>1 DEF TypeOK, IqStart
<1>6. ASSUME NEW trx \in 0 .. 15, IqStop(k, trx) PROVE TypeOK'
  <2>1. session' \in [Session -> S]
    BY <1>0, <1>6 DEF IqStop
  <2> QED  BY <1>6, <2>1 DEF TypeOK, IqStop
<1> QED  BY <1>1, <1>2, <1>3, <1>4, <1>5, <1>6

LEMMA NextTypeOK == TypeOK /\ [Next]_vars => TypeOK'
<1>1. TypeOK /\ UNCHANGED vars => TypeOK'
  BY DEF TypeOK, vars, controlVars, ingestVars, clientVars
<1> QED
  BY <1>1, ControlTypeOK, RadiodTypeOK, RtpTypeOK, ClientTypeOK DEF Next

\* Frames, packets, cursors and the table keep their types for any topology:
\* in particular the table only ever holds SSRCs of the program, and every
\* published frame has the TRX of a real SSRC field (bridge.rs:141-160,
\* 708-796, server.rs:130-156).
THEOREM FramesTyped == Spec => []TypeOK
BY InitTypeOK, NextTypeOK, PTL DEF Spec

-----------------------------------------------------------------------------
(* Routing.  The invariant follows a frame from the ingest task that makes *)
(* it, through its endpoint's iq_tx, to the client.                        *)

HomeOf(f, e) == f.endpoint = e /\ Channel(f.ssrc) = <<e, f.trx, 0>>

FrameIsHome(g) == frame[g] # NoFrame => HomeOf(frame[g], frame[g].endpoint)

IqIsHome(e) == \A i \in DOMAIN iq[e] : HomeOf(iq[e][i], e)

ActiveAnnounced(k) == \A t \in session[k].active : t < TrxCount[ServerOf[k]]

GotIsHome(k) == \A i \in DOMAIN got[k] :
    HomeOf(got[k][i], ServerOf[k]) /\ got[k][i].trx < TrxCount[ServerOf[k]]

RouteInv ==
    /\ \A g \in Group : FrameIsHome(g)
    /\ \A e \in Endpoint : IqIsHome(e)
    /\ \A k \in Session : ActiveAnnounced(k) /\ GotIsHome(k)

LEMMA InitRouteInv == Init => RouteInv
BY DEF Init, RouteInv, FrameIsHome, IqIsHome, ActiveAnnounced, GotIsHome, Offline

\* Steps that neither make, publish nor receive a frame, nor change a session.
LEMMA BystandersKeepRouteInv ==
    RouteInv /\ UNCHANGED <<frame, iq, session, got>> => RouteInv'
BY DEF RouteInv, FrameIsHome, IqIsHome, ActiveAnnounced, GotIsHome

LEMMA RtpRouteInv == TypeOK /\ RouteInv /\ Rtp => RouteInv'
<1> SUFFICES ASSUME TypeOK, RouteInv, Rtp PROVE RouteInv'
  OBVIOUS
<1> USE DEF clientVars
<1>1. CASE RtpManagerTick
  BY <1>1, BystandersKeepRouteInv DEF RtpManagerTick
<1>2. ASSUME NEW g \in Group, Join(g) \/ JoinFails(g) PROVE RouteInv'
  BY <1>2, BystandersKeepRouteInv DEF Join, JoinFails
<1>3. ASSUME NEW g \in Group, Ingest(g) PROVE RouteInv'
  <2> DEFINE pkt == Head(socket[g])
             new == FrameOf(pkt, g)
  <2>1. iq' = iq /\ session' = session /\ got' = got
    BY <1>3 DEF Ingest
  <2>2. pkt \in Packet
    BY <1>3, QueueOf DEF TypeOK, Ingest
  <2>3. CASE Routed(pkt.ssrc)
    <3>1. pkt.ssrc \in OwnStream /\ Channel(pkt.ssrc)[1] \in Endpoint /\ Channel(pkt.ssrc)[3] = 0
      BY <2>3 DEF Routed, TypeOK, OwnStream
    <3>2. frame' = [frame EXCEPT ![g] = new]
      BY <1>3, <2>3 DEF Ingest
    <3>3. Channel(new.ssrc) = <<new.endpoint, new.trx, 0>>
      <4> HIDE DEF pkt
      <4> QED  BY <2>2, <3>1, FrameOfRouted
    <3> HIDE DEF new
    <3>4. HomeOf(new, new.endpoint)
      BY <3>3 DEF HomeOf
    <3>5. \A h \in Group : frame'[h] = IF h = g THEN new ELSE frame[h]
      BY <3>2 DEF TypeOK
    <3>6. \A h \in Group : FrameIsHome(h)'
      BY <3>4, <3>5 DEF RouteInv, FrameIsHome
    <3> QED  BY <2>1, <3>6 DEF RouteInv, IqIsHome, ActiveAnnounced, GotIsHome
  <2>4. CASE ~Routed(pkt.ssrc)
    BY <1>3, <2>1, <2>4, BystandersKeepRouteInv DEF Ingest
  <2> QED  BY <2>3, <2>4
<1>4. ASSUME NEW g \in Group, Publish(g) PROVE RouteInv'
  <2> DEFINE f == frame[g]
             e == f.endpoint
             l == [f EXCEPT !.label = iq_samplerate[e]]
  <2>1. f \in Frame /\ HomeOf(f, e)
    BY <1>4 DEF TypeOK, Publish, RouteInv, FrameIsHome
  <2>2. e \in Endpoint /\ iq_samplerate[e] \in Rate
    BY <2>1, FrameFields DEF TypeOK
  <2>3. l \in Frame /\ l.ssrc = f.ssrc /\ l.endpoint = f.endpoint /\ l.trx = f.trx
    BY <2>1, <2>2, Labelled
  <2>4. HomeOf(l, e)
    BY <2>1, <2>3 DEF HomeOf
  <2>5. /\ iq' = [iq EXCEPT ![e] = Append(iq[e], l)]
        /\ frame' = [frame EXCEPT ![g] = NoFrame]
        /\ session' = session /\ got' = got
    BY <1>4 DEF Publish
  <2> HIDE DEF f, e, l
  <2>6. iq[e] \in Seq(Frame)
    BY <2>2 DEF TypeOK
  <2>7. ASSUME NEW d \in Endpoint, d = e PROVE IqIsHome(d)'
    <3>1. \A i \in DOMAIN Append(iq[e], l) : HomeOf(Append(iq[e], l)[i], e)
      <4>1. \A i \in 1 .. Len(iq[e]) : HomeOf(iq[e][i], e)
        BY <2>2, <2>6, QueueOf DEF RouteInv, IqIsHome
      <4>2. /\ DOMAIN Append(iq[e], l) = 1 .. Len(iq[e]) + 1 /\ Len(iq[e]) \in Nat
            /\ \A i \in 1 .. Len(iq[e]) : Append(iq[e], l)[i] = iq[e][i]
            /\ Append(iq[e], l)[Len(iq[e]) + 1] = l
        BY <2>3, <2>6, QueueOf
      <4> QED  BY <2>4, <4>1, <4>2
    <3>2. iq'[d] = Append(iq[e], l)
      BY <2>2, <2>5, <2>7 DEF TypeOK
    <3> QED  BY <2>7, <3>1, <3>2 DEF IqIsHome
  <2>8. ASSUME NEW d \in Endpoint, d # e PROVE IqIsHome(d)'
    BY <2>5, <2>8 DEF TypeOK, RouteInv, IqIsHome
  <2>9. ASSUME NEW h \in Group PROVE FrameIsHome(h)'
    <3>1. frame'[h] \in {NoFrame, frame[h]}
      BY <2>5 DEF TypeOK
    <3> QED  BY <3>1 DEF RouteInv, FrameIsHome
  <2> QED  BY <2>5, <2>7, <2>8, <2>9 DEF RouteInv, ActiveAnnounced, GotIsHome
<1> QED  BY <1>1, <1>2, <1>3, <1>4 DEF Rtp

LEMMA ClientRouteInv == TypeOK /\ RouteInv /\ Client => RouteInv'
<1> SUFFICES ASSUME TypeOK, RouteInv, NEW k \in Session,
                    \/ Connect(k) \/ Disconnect(k) \/ Lagged(k) \/ RecvFrame(k)
                    \/ \E trx \in 0 .. 15 : IqStart(k, trx) \/ IqStop(k, trx)
             PROVE  RouteInv'
  BY DEF Client
<1> USE DEF ingestVars
<1>0. session \in [Session -> [online : BOOLEAN, next : Nat, active : SUBSET (0 .. 15)]]
  BY DEF TypeOK
\* It is enough to look at the client that takes the step.
<1>1. ASSUME frame' = frame, iq' = iq,
             \A j \in Session : j # k => session'[j] = session[j] /\ got'[j] = got[j],
             ActiveAnnounced(k)', GotIsHome(k)'
      PROVE  RouteInv'
  BY <1>1 DEF RouteInv, FrameIsHome, IqIsHome, ActiveAnnounced, GotIsHome
<1>2. ActiveAnnounced(k) /\ GotIsHome(k) /\ got \in [Session -> Seq(Frame)]
  BY DEF RouteInv, TypeOK
<1>3. CASE Connect(k)
  <2>1. session'[k].active = {} /\ got'[k] = <<>>
    BY <1>0, <1>2, <1>3 DEF Connect
  <2>2. ActiveAnnounced(k)' /\ GotIsHome(k)'
    BY <2>1 DEF ActiveAnnounced, GotIsHome
  <2> QED  BY <1>1, <1>3, <2>2 DEF Connect
<1>4. CASE Disconnect(k)
  <2>1. session'[k].active = {} /\ got' = got
    BY <1>0, <1>4 DEF Disconnect, Offline
  <2>2. ActiveAnnounced(k)' /\ GotIsHome(k)'
    BY <1>2, <2>1 DEF ActiveAnnounced, GotIsHome
  <2> QED  BY <1>1, <1>4, <2>2 DEF Disconnect
<1>5. CASE Lagged(k)
  <2>1. session'[k].active = session[k].active /\ got' = got
    BY <1>0, <1>5 DEF Lagged
  <2>2. ActiveAnnounced(k)' /\ GotIsHome(k)'
    BY <1>2, <2>1 DEF ActiveAnnounced, GotIsHome
  <2> QED  BY <1>1, <1>5, <2>2 DEF Lagged
<1>6. CASE RecvFrame(k)
  <2> DEFINE f == Published(k)[session[k].next + 1]
             e == ServerOf[k]
  <2>1. session'[k].active = session[k].active
    BY <1>0, <1>6 DEF RecvFrame
  <2>2. session[k].next + 1 \in DOMAIN Published(k)
    BY <1>0, <1>6, PublishedTo DEF RecvFrame
  <2>3. f \in Frame /\ HomeOf(f, e)
    <3>1. f \in Frame
      BY <2>2, PublishedTo, QueueOf
    <3>2. HomeOf(f, e)
      BY <2>2, PublishedTo DEF Published, RouteInv, IqIsHome
    <3> QED  BY <3>1, <3>2
  <2>4. got'[k] = IF f.endpoint = e /\ f.trx \in session[k].active
                  THEN Append(got[k], f) ELSE got[k]
    BY <1>2, <1>6 DEF RecvFrame
  <2> HIDE DEF f, e
  <2>5. ASSUME f.endpoint = e, f.trx \in session[k].active PROVE GotIsHome(k)'
    <3>1. f.trx < TrxCount[ServerOf[k]]
      BY <1>2, <2>5 DEF ActiveAnnounced
    <3>2. \A i \in 1 .. Len(got[k]) :
             HomeOf(got[k][i], ServerOf[k]) /\ got[k][i].trx < TrxCount[ServerOf[k]]
      BY <1>2, QueueOf DEF GotIsHome
    <3>3. /\ DOMAIN got'[k] = 1 .. Len(got[k]) + 1 /\ Len(got[k]) \in Nat
          /\ \A i \in 1 .. Len(got[k]) : got'[k][i] = got[k][i]
          /\ got'[k][Len(got[k]) + 1] = f
      BY <1>2, <2>3, <2>4, <2>5, QueueOf
    <3> QED  BY <2>3, <3>1, <3>2, <3>3 DEF GotIsHome, e
  <2>6. ASSUME ~(f.endpoint = e /\ f.trx \in session[k].active) PROVE GotIsHome(k)'
    BY <1>2, <2>4, <2>6 DEF GotIsHome
  <2>7. ActiveAnnounced(k)' /\ GotIsHome(k)'
    BY <1>2, <2>1, <2>5, <2>6 DEF ActiveAnnounced
  <2>8. \A j \in Session : j # k => session'[j] = session[j] /\ got'[j] = got[j]
    BY <1>0, <1>2, <1>6 DEF RecvFrame
  <2> QED  BY <1>1, <1>6, <2>7, <2>8 DEF RecvFrame
<1>7. ASSUME NEW trx \in 0 .. 15, IqStart(k, trx) PROVE RouteInv'
  <2>1. session'[k].active = session[k].active \cup {trx} /\ got' = got
    BY <1>0, <1>7 DEF IqStart
  <2>2. ActiveAnnounced(k)' /\ GotIsHome(k)'
    BY <1>2, <1>7, <2>1 DEF ActiveAnnounced, GotIsHome, IqStart
  <2> QED  BY <1>1, <1>7, <2>2 DEF IqStart
<1>8. ASSUME NEW trx \in 0 .. 15, IqStop(k, trx) PROVE RouteInv'
  <2>1. session'[k].active = session[k].active \ {trx} /\ got' = got
    BY <1>0, <1>8 DEF IqStop
  <2>2. ActiveAnnounced(k)' /\ GotIsHome(k)'
    BY <1>2, <2>1 DEF ActiveAnnounced, GotIsHome
  <2> QED  BY <1>1, <1>8, <2>2 DEF IqStop
<1> QED  BY <1>3, <1>4, <1>5, <1>6, <1>7, <1>8

LEMMA NextRouteInv == TypeOK /\ RouteInv /\ [Next]_vars => RouteInv'
<1> SUFFICES ASSUME TypeOK, RouteInv, [Next]_vars PROVE RouteInv'
  OBVIOUS
<1>1. CASE Control
  BY <1>1, BystandersKeepRouteInv
     DEF Control, SetSamplerate, DispatchTune, DispatchSetSr, StatusTask, ingestVars, clientVars
<1>2. CASE Radiod
  BY <1>2, BystandersKeepRouteInv DEF Radiod, RadiodStatus, RadiodSends, ingestVars, clientVars
<1>3. CASE UNCHANGED vars
  BY <1>3, BystandersKeepRouteInv DEF vars, ingestVars, clientVars
<1> QED  BY <1>1, <1>2, <1>3, RtpRouteInv, ClientRouteInv DEF Next

\* Every frame a client gets is of a VFO A channel of the client's endpoint and
\* of a TRX that endpoint announced, whatever other channels publish on the
\* groups the program hears (bridge.rs:729-754, server.rs:137-146).
THEOREM FramesRoutedHome == Spec => []RoutedHome
<1>1. RouteInv => RoutedHome
  BY DEF RouteInv, GotIsHome, HomeOf, RoutedHome
<1> QED
  BY <1>1, InitTypeOK, NextTypeOK, InitRouteInv, NextRouteInv, PTL DEF Spec

\* No two channels of radiod are ever mixed into one TRX of a client, because
\* the channel of an SSRC with a zero reserved byte determines the SSRC.
THEOREM StreamsUnmixed == Spec => []OneStreamPerTrx
<1>1. TypeOK /\ RouteInv => OneStreamPerTrx
  <2> SUFFICES ASSUME TypeOK, RouteInv, NEW k \in Session,
                      NEW i \in DOMAIN got[k], NEW j \in DOMAIN got[k],
                      got[k][i].trx = got[k][j].trx
               PROVE  got[k][i].ssrc = got[k][j].ssrc
    BY DEF OneStreamPerTrx
  <2> DEFINE r == got[k][i].ssrc
             s == got[k][j].ssrc
  <2>1. got[k][i] \in Frame /\ got[k][j] \in Frame
    BY QueueOf DEF TypeOK
  <2>2. r \in Stream /\ s \in Stream
    BY <2>1, FrameFields
  <2>3. Channel(r) = Channel(s) /\ Channel(r) = <<ServerOf[k], got[k][i].trx, 0>>
    BY DEF RouteInv, GotIsHome, HomeOf
  <2>4. r \in OwnStream /\ s \in OwnStream
    <3>1. ASSUME NEW a, NEW b PROVE <<a, b, 0>> # <<>>
      OBVIOUS
    <3> QED  BY <2>2, <2>3, <3>1 DEF OwnStream, Ours, NoChannel
  <2> QED  BY <2>3, <2>4, StreamChannel
<1> QED
  BY <1>1, InitTypeOK, NextTypeOK, InitRouteInv, NextRouteInv, PTL DEF Spec

-----------------------------------------------------------------------------
(* The order of delivery, and that DataPlane implements IqDelivery.         *)
(*                                                                          *)
(* The invariant follows the numbers of a stream's packets: what waits in a *)
(* socket is newer than what its ingest task has in hand, and that is newer *)
(* than what the task has published.                                        *)

Sent(s) == radiod[s].sent

\* b, if it is of the same stream, was sent later than a.
Older(a, b) == a.ssrc = b.ssrc => a.seq < b.seq

SentBy(f, r) == f.seq \in 1 .. r[f.ssrc].sent

IsSent(f) == SentBy(f, radiod)

SocketOrdered(g) ==
    \A i \in DOMAIN socket[g] :
        /\ IsSent(socket[g][i])
        /\ \A j \in DOMAIN socket[g] : i < j => Older(socket[g][i], socket[g][j])

FrameOrdered(g) ==
    frame[g] # NoFrame =>
        /\ frame[g].group = g
        /\ IsSent(frame[g])
        /\ \A j \in DOMAIN socket[g] : Older(frame[g], socket[g][j])

PublishedOrdered(e) ==
    \A i \in DOMAIN iq[e] :
        /\ IsSent(iq[e][i])
        /\ \A j \in DOMAIN iq[e] :
              i < j /\ iq[e][i].group = iq[e][j].group => Older(iq[e][i], iq[e][j])

PublishedFirst(e, g) ==
    \A i \in DOMAIN iq[e] : iq[e][i].group = g =>
        /\ frame[g] # NoFrame => Older(iq[e][i], frame[g])
        /\ \A j \in DOMAIN socket[g] : Older(iq[e][i], socket[g][j])

\* All a connected client got stands behind its cursor.
GotBehind(k) ==
    session[k].online =>
        /\ session[k].next <= Len(Published(k))
        /\ \A i \in DOMAIN got[k] : \E j \in 1 .. session[k].next : got[k][i] = Published(k)[j]

GotOrdered(k) ==
    \A i, j \in DOMAIN got[k] :
        i < j /\ got[k][i].group = got[k][j].group => Older(got[k][i], got[k][j])

GotSent(k) == \A i \in DOMAIN got[k] : IsSent(got[k][i])

OrderInv ==
    /\ \A g \in Group : SocketOrdered(g) /\ FrameOrdered(g)
    /\ \A e \in Endpoint : PublishedOrdered(e) /\ \A g \in Group : PublishedFirst(e, g)
    /\ \A k \in Session : GotBehind(k) /\ GotOrdered(k) /\ GotSent(k)

-----------------------------------------------------------------------------
(* Queues. *)

LEMMA TailOf ==
    ASSUME NEW T, NEW q \in Seq(T), q # <<>>
    PROVE  /\ 1 \in DOMAIN q /\ Head(q) = q[1]
           /\ DOMAIN Tail(q) = 1 .. Len(q) - 1
           /\ \A i \in DOMAIN Tail(q) : i + 1 \in DOMAIN q /\ Tail(q)[i] = q[i + 1]
BY HeadTailProperties, LenProperties, EmptySeq

LEMMA Typed ==
    ASSUME TypeOK
    PROVE  /\ \A s \in Stream : Sent(s) \in Nat
           /\ \A g \in Group : socket[g] \in Seq(Packet)
           /\ \A g \in Group : frame[g] # NoFrame => frame[g] \in Frame
           /\ \A e \in Endpoint : iq[e] \in Seq(Frame)
           /\ \A k \in Session : got[k] \in Seq(Frame) /\ session[k].next \in Nat
BY DEF TypeOK, Sent

LEMMA PacketFields ==
    ASSUME NEW p \in Packet
    PROVE  p.ssrc \in Stream /\ p.seq \in Nat
BY DEF Packet

LEMMA FrameNumbers ==
    ASSUME NEW f \in Frame
    PROVE  f.ssrc \in Stream /\ f.seq \in Nat /\ f.group \in Group
BY DEF Frame

-----------------------------------------------------------------------------
LEMMA InitOrderInv == Init => OrderInv
BY DEF Init, OrderInv, SocketOrdered, FrameOrdered, PublishedOrdered, PublishedFirst, GotBehind,
       GotOrdered, GotSent, Offline

\* Steps that move no packet and no frame.
LEMMA BystandersKeepOrderInv ==
    ASSUME OrderInv, UNCHANGED <<socket, frame, iq, session, got>>,
           \A s \in Stream : Sent(s)' = Sent(s), TypeOK
    PROVE  OrderInv'
<1>1. \A g \in Group : SocketOrdered(g)'
  <2> SUFFICES ASSUME NEW g \in Group PROVE SocketOrdered(g)'
    OBVIOUS
  <2>1. \A i \in DOMAIN socket[g] : socket[g][i].ssrc \in Stream
    BY Typed, QueueOf, PacketFields
  <2> QED  BY <2>1 DEF OrderInv, SocketOrdered, IsSent, SentBy, Sent, Older
<1>2. \A g \in Group : FrameOrdered(g)'
  <2> SUFFICES ASSUME NEW g \in Group PROVE FrameOrdered(g)'
    OBVIOUS
  <2>1. frame[g] # NoFrame => frame[g].ssrc \in Stream
    BY Typed, FrameNumbers
  <2> QED  BY <2>1 DEF OrderInv, FrameOrdered, IsSent, SentBy, Sent, Older
<1>3. \A e \in Endpoint : PublishedOrdered(e)'
  <2> SUFFICES ASSUME NEW e \in Endpoint PROVE PublishedOrdered(e)'
    OBVIOUS
  <2>1. \A i \in DOMAIN iq[e] : iq[e][i].ssrc \in Stream
    BY Typed, QueueOf, FrameNumbers
  <2> QED  BY <2>1 DEF OrderInv, PublishedOrdered, IsSent, SentBy, Sent, Older
<1>4. \A e \in Endpoint, g \in Group : PublishedFirst(e, g)'
  BY DEF OrderInv, PublishedFirst, Older
<1>5. \A k \in Session : GotBehind(k)' /\ GotOrdered(k)'
  BY DEF OrderInv, GotBehind, GotOrdered, Older, Published
<1>6. \A k \in Session : GotSent(k)'
  <2> SUFFICES ASSUME NEW k \in Session PROVE GotSent(k)'
    OBVIOUS
  <2>1. \A i \in DOMAIN got[k] : got[k][i].ssrc \in Stream
    BY Typed, QueueOf, FrameNumbers
  <2> QED  BY <2>1 DEF OrderInv, GotSent, IsSent, SentBy, Sent
<1> QED  BY <1>1, <1>2, <1>3, <1>4, <1>5, <1>6 DEF OrderInv

\* A packet radiod sends is the newest of its stream wherever it arrives.
LEMMA SendKeepsOrderInv ==
    ASSUME TypeOK, OrderInv, NEW s \in Stream, RadiodSends(s)
    PROVE  OrderInv'
<1> DEFINE pkt == [ssrc |-> s, seq |-> radiod[s].sent + 1, rate |-> radiod[s].rate]
<1>1. UNCHANGED <<frame, iq, session, got>>
  BY DEF RadiodSends, clientVars
<1>2. \A h \in Group : socket'[h] \in {socket[h], Append(socket[h], pkt)}
  BY DEF RadiodSends
<1>3. \A r \in Stream : Sent(r)' = IF r = s THEN Sent(r) + 1 ELSE Sent(r)
  <2>1. radiod' = [radiod EXCEPT ![s] = [radiod[s] EXCEPT !.sent = radiod[s].sent + 1]]
    BY DEF RadiodSends
  <2>2. radiod \in [Stream -> [rate : Rate, sent : Nat]]
    BY DEF TypeOK
  <2>3. ASSUME NEW q \in [rate : Rate, sent : Nat], NEW n \in Nat
        PROVE  [q EXCEPT !.sent = n].sent = n
    OBVIOUS
  <2> QED  BY <2>1, <2>2, <2>3 DEF Sent
<1>4. pkt \in Packet /\ pkt.ssrc = s /\ pkt.seq = Sent(s) + 1
  BY DEF TypeOK, Packet, Sent
<1> HIDE DEF pkt
<1>5. \A f : f.ssrc \in Stream /\ IsSent(f) => SentBy(f, radiod') /\ Older(f, pkt)
  BY <1>3, <1>4, Typed DEF IsSent, SentBy, Sent, Older
<1>6. ASSUME NEW g \in Group
      PROVE  /\ \A i \in DOMAIN socket[g] : socket[g][i].ssrc \in Stream
             /\ \/ socket'[g] = socket[g]
                \/ /\ DOMAIN socket'[g] = 1 .. Len(socket[g]) + 1 /\ Len(socket[g]) \in Nat
                   /\ DOMAIN socket[g] = 1 .. Len(socket[g])
                   /\ \A i \in 1 .. Len(socket[g]) : socket'[g][i] = socket[g][i]
                   /\ socket'[g][Len(socket[g]) + 1] = pkt
  BY <1>2, <1>4, Typed, QueueOf, PacketFields
<1>7. \A g \in Group : SocketOrdered(g)'
  <2> SUFFICES ASSUME NEW g \in Group PROVE SocketOrdered(g)'
    OBVIOUS
  <2>1. \A i \in DOMAIN socket[g] : SentBy(socket[g][i], radiod') /\ Older(socket[g][i], pkt)
    BY <1>5, <1>6 DEF OrderInv, SocketOrdered
  <2>2. SentBy(pkt, radiod')
    BY <1>3, <1>4, Typed DEF SentBy, Sent
  <2>3. \A i, j \in DOMAIN socket[g] : i < j => Older(socket[g][i], socket[g][j])
    BY DEF OrderInv, SocketOrdered
  <2>4. CASE socket'[g] = socket[g]
    BY <2>1, <2>3, <2>4 DEF SocketOrdered, IsSent, Older
  <2>5. CASE socket'[g] # socket[g]
    <3>2. \A i \in DOMAIN socket'[g] : SentBy(socket'[g][i], radiod')
      BY <1>6, <2>1, <2>2, <2>5
    <3>3. \A i, j \in DOMAIN socket'[g] : i < j => Older(socket'[g][i], socket'[g][j])
      BY <1>6, <2>1, <2>3, <2>5
    <3> QED  BY <3>2, <3>3 DEF SocketOrdered, IsSent, Older
  <2> QED  BY <2>4, <2>5
<1>8. \A g \in Group : FrameOrdered(g)'
  <2> SUFFICES ASSUME NEW g \in Group, frame[g] # NoFrame PROVE FrameOrdered(g)'
    BY <1>1 DEF FrameOrdered
  <2>1. frame[g].ssrc \in Stream
    BY Typed, FrameNumbers
  <2>2. frame[g].group = g /\ SentBy(frame[g], radiod') /\ Older(frame[g], pkt)
    BY <1>5, <2>1 DEF OrderInv, FrameOrdered
  <2>3. \A j \in DOMAIN socket'[g] : Older(frame[g], socket'[g][j])
    BY <1>6, <2>2 DEF OrderInv, FrameOrdered
  <2> QED  BY <1>1, <2>2, <2>3 DEF FrameOrdered, IsSent, Older
<1>9. \A e \in Endpoint : PublishedOrdered(e)' /\ \A g \in Group : PublishedFirst(e, g)'
  <2> SUFFICES ASSUME NEW e \in Endpoint
               PROVE  PublishedOrdered(e)' /\ \A g \in Group : PublishedFirst(e, g)'
    OBVIOUS
  <2>1. \A i \in DOMAIN iq[e] : iq[e][i].ssrc \in Stream
    BY Typed, QueueOf, FrameNumbers
  <2>2. \A i \in DOMAIN iq[e] : SentBy(iq[e][i], radiod') /\ Older(iq[e][i], pkt)
    BY <1>5, <2>1 DEF OrderInv, PublishedOrdered
  <2>3. PublishedOrdered(e)'
    BY <1>1, <2>2 DEF OrderInv, PublishedOrdered, IsSent, Older
  <2>4. ASSUME NEW g \in Group, NEW i \in DOMAIN iq[e], iq[e][i].group = g
        PROVE  \A j \in DOMAIN socket'[g] : Older(iq[e][i], socket'[g][j])
    BY <1>6, <2>2, <2>4 DEF OrderInv, PublishedFirst
  <2>5. \A g \in Group : PublishedFirst(e, g)'
    BY <1>1, <2>4 DEF OrderInv, PublishedFirst, Older
  <2> QED  BY <2>3, <2>5
<1>10. \A k \in Session : GotBehind(k)' /\ GotOrdered(k)' /\ GotSent(k)'
  <2> SUFFICES ASSUME NEW k \in Session PROVE GotBehind(k)' /\ GotOrdered(k)' /\ GotSent(k)'
    OBVIOUS
  <2>1. \A i \in DOMAIN got[k] : got[k][i].ssrc \in Stream
    BY Typed, QueueOf, FrameNumbers
  <2>2. \A i \in DOMAIN got[k] : SentBy(got[k][i], radiod')
    BY <1>5, <2>1 DEF OrderInv, GotSent
  <2> QED  BY <1>1, <2>2 DEF OrderInv, GotBehind, GotOrdered, GotSent, Older, Published, IsSent
<1> QED  BY <1>7, <1>8, <1>9, <1>10 DEF OrderInv

\* The head of a socket is older than what is left of it.
LEMMA HeadIsOldest ==
    ASSUME TypeOK, OrderInv, NEW g \in Group, socket[g] # <<>>
    PROVE  LET h == Head(socket[g])
               t == Tail(socket[g])
           IN  /\ h \in Packet /\ IsSent(h)
               /\ \A i \in DOMAIN t : IsSent(t[i]) /\ Older(h, t[i])
               /\ \A i, j \in DOMAIN t : i < j => Older(t[i], t[j])
               /\ \A x : (\A i \in DOMAIN socket[g] : Older(x, socket[g][i]))
                            => Older(x, h) /\ \A i \in DOMAIN t : Older(x, t[i])
<1> DEFINE q == socket[g]
<1>1. q \in Seq(Packet)
  BY Typed
<1>2. \A i \in DOMAIN q : IsSent(q[i]) /\ \A j \in DOMAIN q : i < j => Older(q[i], q[j])
  BY DEF OrderInv, SocketOrdered
<1> HIDE DEF q
<1>3. /\ 1 \in DOMAIN q /\ Head(q) = q[1] /\ Len(q) \in Nat /\ Head(q) \in Packet
      /\ DOMAIN Tail(q) = 1 .. Len(q) - 1
      /\ \A i \in DOMAIN Tail(q) : i + 1 \in DOMAIN q /\ Tail(q)[i] = q[i + 1]
  BY <1>1, TailOf, QueueOf DEF q
<1>4. \A i \in DOMAIN Tail(q) : IsSent(Tail(q)[i]) /\ Older(q[1], Tail(q)[i])
  BY <1>2, <1>3
<1>5. \A i, j \in DOMAIN Tail(q) : i < j => Older(Tail(q)[i], Tail(q)[j])
  BY <1>2, <1>3
<1>6. \A x : (\A i \in DOMAIN q : Older(x, q[i]))
                => Older(x, q[1]) /\ \A i \in DOMAIN Tail(q) : Older(x, Tail(q)[i])
  BY <1>3
<1> QED  BY <1>2, <1>3, <1>4, <1>5, <1>6 DEF q

\* Nothing but the socket and the hand of one ingest task changes.
LEMMA IngestKeepsOrderInv ==
    ASSUME TypeOK, OrderInv, NEW g \in Group, Ingest(g)
    PROVE  OrderInv'
<1> DEFINE h == Head(socket[g])
           t == Tail(socket[g])
<1>1. /\ UNCHANGED <<radiod, iq, session, got>> /\ socket[g] # <<>>
      /\ socket' = [socket EXCEPT ![g] = t] /\ frame[g] = NoFrame
      /\ frame' = IF Routed(h.ssrc) THEN [frame EXCEPT ![g] = FrameOf(h, g)] ELSE frame
  BY DEF Ingest, clientVars
<1>2. /\ h \in Packet /\ IsSent(h)
      /\ \A i \in DOMAIN t : IsSent(t[i]) /\ Older(h, t[i])
      /\ \A i, j \in DOMAIN t : i < j => Older(t[i], t[j])
      /\ \A x : (\A i \in DOMAIN socket[g] : Older(x, socket[g][i]))
                   => Older(x, h) /\ \A i \in DOMAIN t : Older(x, t[i])
  BY <1>1, HeadIsOldest
<1> HIDE DEF h, t
<1>3. \A d \in Group : socket'[d] = IF d = g THEN t ELSE socket[d]
  BY <1>1 DEF TypeOK
<1>4. FrameOf(h, g).ssrc = h.ssrc /\ FrameOf(h, g).seq = h.seq /\ FrameOf(h, g).group = g
  BY DEF FrameOf
<1>5. \A d \in Group : frame'[d] # frame[d] => d = g /\ frame'[d] = FrameOf(h, g)
  BY <1>1 DEF TypeOK
<1>6. \A d \in Group : SocketOrdered(d)'
  <2> SUFFICES ASSUME NEW d \in Group PROVE SocketOrdered(d)'
    OBVIOUS
  <2>1. CASE d = g
    BY <1>1, <1>2, <1>3, <2>1 DEF SocketOrdered, IsSent
  <2>2. CASE d # g
    BY <1>1, <1>3, <2>2 DEF OrderInv, SocketOrdered, IsSent
  <2> QED  BY <2>1, <2>2
<1>7. \A d \in Group : FrameOrdered(d)'
  <2> SUFFICES ASSUME NEW d \in Group, frame'[d] # NoFrame PROVE FrameOrdered(d)'
    BY DEF FrameOrdered
  <2>1. CASE d = g
    <3>1. frame'[d] = FrameOf(h, g)
      BY <1>1, <1>5, <2>1
    <3>2. SentBy(frame'[d], radiod') /\ frame'[d].group = g
      BY <1>1, <1>2, <1>4, <3>1 DEF IsSent, SentBy
    <3>3. \A j \in DOMAIN t : Older(frame'[d], t[j])
      BY <1>2, <1>4, <3>1 DEF Older
    <3> QED  BY <1>3, <2>1, <3>2, <3>3 DEF FrameOrdered, IsSent
  <2>2. CASE d # g
    BY <1>1, <1>3, <1>5, <2>2 DEF OrderInv, FrameOrdered, IsSent
  <2> QED  BY <2>1, <2>2
<1>8. \A e \in Endpoint : PublishedOrdered(e)'
  BY <1>1 DEF OrderInv, PublishedOrdered, IsSent
<1>9. \A e \in Endpoint, d \in Group : PublishedFirst(e, d)'
  <2> SUFFICES ASSUME NEW e \in Endpoint, NEW d \in Group, NEW i \in DOMAIN iq[e], iq[e][i].group = d
               PROVE  /\ frame'[d] # NoFrame => Older(iq[e][i], frame'[d])
                      /\ \A j \in DOMAIN socket'[d] : Older(iq[e][i], socket'[d][j])
    BY <1>1 DEF PublishedFirst
  <2>1. /\ frame[d] # NoFrame => Older(iq[e][i], frame[d])
        /\ \A j \in DOMAIN socket[d] : Older(iq[e][i], socket[d][j])
    BY DEF OrderInv, PublishedFirst
  <2>2. CASE d = g
    <3>1. Older(iq[e][i], h) /\ \A j \in DOMAIN t : Older(iq[e][i], t[j])
      BY <1>2, <2>1, <2>2
    <3>2. Older(iq[e][i], FrameOf(h, g))
      BY <1>4, <3>1 DEF Older
    <3> QED  BY <1>1, <1>3, <1>5, <2>2, <3>1, <3>2
  <2>3. CASE d # g
    BY <1>3, <1>5, <2>1, <2>3
  <2> QED  BY <2>2, <2>3
<1>10. \A k \in Session : GotBehind(k)' /\ GotOrdered(k)' /\ GotSent(k)'
  BY <1>1 DEF OrderInv, GotBehind, GotOrdered, GotSent, IsSent, Published
<1> QED  BY <1>6, <1>7, <1>8, <1>9, <1>10 DEF OrderInv

\* A published frame is the newest of its stream and group.
LEMMA PublishKeepsOrderInv ==
    ASSUME TypeOK, OrderInv, NEW g \in Group, Publish(g)
    PROVE  OrderInv'
<1> DEFINE f == frame[g]
           e == f.endpoint
           l == [f EXCEPT !.label = iq_samplerate[e]]
<1>1. /\ UNCHANGED <<radiod, socket, session, got>> /\ f # NoFrame
      /\ iq' = [iq EXCEPT ![e] = Append(iq[e], l)]
      /\ frame' = [frame EXCEPT ![g] = NoFrame]
  BY DEF Publish, clientVars
<1>2. f \in Frame
  BY <1>1, Typed
<1>3. l \in Frame /\ l.ssrc = f.ssrc /\ l.seq = f.seq /\ l.group = f.group /\ e \in Endpoint
  <2>1. e \in Endpoint /\ iq_samplerate[e] \in Rate
    BY <1>2, FrameFields DEF TypeOK
  <2>2. \A q \in Frame, r \in Rate : LET m == [q EXCEPT !.label = r] IN
            m \in Frame /\ m.ssrc = q.ssrc /\ m.seq = q.seq /\ m.group = q.group
    BY DEF Frame
  <2> QED  BY <1>2, <2>1, <2>2
<1>4. /\ l.group = g /\ IsSent(l)
      /\ \A j \in DOMAIN socket[g] : Older(l, socket[g][j])
      /\ \A i \in DOMAIN iq[e] : iq[e][i].group = g => Older(iq[e][i], l)
  BY <1>1, <1>3 DEF OrderInv, FrameOrdered, PublishedFirst, IsSent, SentBy, Older
<1> HIDE DEF f, e, l
<1>5. /\ Len(iq[e]) \in Nat /\ DOMAIN iq[e] = 1 .. Len(iq[e])
      /\ DOMAIN iq'[e] = 1 .. Len(iq[e]) + 1
      /\ \A i \in 1 .. Len(iq[e]) : iq'[e][i] = iq[e][i]
      /\ iq'[e][Len(iq[e]) + 1] = l
  <2>1. iq[e] \in Seq(Frame) /\ iq'[e] = Append(iq[e], l)
    BY <1>1, <1>3 DEF TypeOK
  <2> QED  BY <1>3, <2>1, QueueOf
<1>6. \A d \in Endpoint : d # e => iq'[d] = iq[d]
  BY <1>1 DEF TypeOK
<1>7. \A d \in Group : frame'[d] \in {NoFrame, frame[d]}
  BY <1>1 DEF TypeOK
<1>8. \A d \in Group : SocketOrdered(d)' /\ FrameOrdered(d)'
  BY <1>1, <1>7 DEF OrderInv, SocketOrdered, FrameOrdered, IsSent
<1>9. \A d \in Endpoint : PublishedOrdered(d)'
  <2> SUFFICES ASSUME NEW d \in Endpoint PROVE PublishedOrdered(d)'
    OBVIOUS
  <2>1. CASE d = e
    <3>1. \A i \in DOMAIN iq'[e] : SentBy(iq'[e][i], radiod')
      BY <1>1, <1>3, <1>4, <1>5 DEF OrderInv, PublishedOrdered, IsSent
    <3>2. \A i, j \in DOMAIN iq'[e] :
             i < j /\ iq'[e][i].group = iq'[e][j].group => Older(iq'[e][i], iq'[e][j])
      BY <1>3, <1>4, <1>5 DEF OrderInv, PublishedOrdered
    <3> QED  BY <2>1, <3>1, <3>2 DEF PublishedOrdered, IsSent
  <2>2. CASE d # e
    BY <1>1, <1>6, <2>2 DEF OrderInv, PublishedOrdered, IsSent
  <2> QED  BY <2>1, <2>2
<1>10. \A d \in Endpoint, c \in Group : PublishedFirst(d, c)'
  <2> SUFFICES ASSUME NEW d \in Endpoint, NEW c \in Group, NEW i \in DOMAIN iq'[d], iq'[d][i].group = c
               PROVE  /\ frame'[c] # NoFrame => Older(iq'[d][i], frame'[c])
                      /\ \A j \in DOMAIN socket[c] : Older(iq'[d][i], socket[c][j])
    BY <1>1 DEF PublishedFirst
  <2>1. CASE i \in DOMAIN iq[d] /\ iq'[d][i] = iq[d][i]
    BY <1>7, <2>1 DEF OrderInv, PublishedFirst
  <2>2. CASE d = e /\ iq'[d][i] = l
    <3>1. c = g /\ frame'[c] = NoFrame
      BY <1>1, <1>4, <2>2 DEF TypeOK
    <3> QED  BY <1>4, <2>2, <3>1
  <2> QED  BY <1>5, <1>6, <2>1, <2>2
<1>11. \A k \in Session : GotBehind(k)' /\ GotOrdered(k)' /\ GotSent(k)'
  <2> SUFFICES ASSUME NEW k \in Session PROVE GotBehind(k)' /\ GotOrdered(k)' /\ GotSent(k)'
    OBVIOUS
  <2>1. GotOrdered(k)' /\ GotSent(k)'
    BY <1>1 DEF OrderInv, GotOrdered, GotSent, IsSent
  <2>2. /\ Len(Published(k)) \in Nat /\ Len(Published(k)') \in Nat
        /\ Len(Published(k)) <= Len(Published(k)')
        /\ \A j \in 1 .. Len(Published(k)) : Published(k)'[j] = Published(k)[j]
    <3>1. ServerOf[k] \in Endpoint /\ Len(iq[ServerOf[k]]) \in Nat
      BY PublishedTo DEF Published
    <3>2. Len(iq'[e]) = Len(iq[e]) + 1
      BY <1>1, <1>3, Typed, AppendProperties DEF TypeOK
    <3> QED  BY <1>5, <1>6, <3>1, <3>2 DEF Published
  <2>3. GotBehind(k)'
    <3> SUFFICES ASSUME session[k].online PROVE GotBehind(k)'
      BY <1>1 DEF GotBehind
    <3>1. /\ session[k].next \in Nat /\ session[k].next <= Len(Published(k))
          /\ \A i \in DOMAIN got[k] : \E j \in 1 .. session[k].next : got[k][i] = Published(k)[j]
      BY Typed DEF OrderInv, GotBehind
    <3>2. \A i \in DOMAIN got[k] : \E j \in 1 .. session[k].next : got[k][i] = Published(k)'[j]
      BY <2>2, <3>1
    <3>3. session[k].next <= Len(Published(k)')
      BY <2>2, <3>1
    <3> QED  BY <1>1, <3>2, <3>3 DEF GotBehind
  <2> QED  BY <2>1, <2>3
<1> QED  BY <1>8, <1>9, <1>10, <1>11 DEF OrderInv

LEMMA ClientKeepsOrderInv ==
    ASSUME TypeOK, OrderInv, NEW k \in Session,
           \/ Connect(k) \/ Disconnect(k) \/ Lagged(k) \/ RecvFrame(k)
           \/ \E trx \in 0 .. 15 : IqStart(k, trx) \/ IqStop(k, trx)
    PROVE  OrderInv'
<1>0. /\ session \in [Session -> [online : BOOLEAN, next : Nat, active : SUBSET (0 .. 15)]]
      /\ got \in [Session -> Seq(Frame)] /\ Published(k) \in Seq(Frame)
      /\ Len(Published(k)) \in Nat /\ DOMAIN Published(k) = 1 .. Len(Published(k))
      /\ ServerOf[k] \in Endpoint
  BY PublishedTo DEF TypeOK
<1>1. UNCHANGED <<radiod, socket, frame, iq>>
  BY DEF Connect, Disconnect, Lagged, RecvFrame, IqStart, IqStop, ingestVars
<1>2. GotBehind(k) /\ GotOrdered(k) /\ GotSent(k) /\ PublishedOrdered(ServerOf[k])
  BY <1>0 DEF OrderInv
\* It is enough to look at the client that takes the step.
<1>3. ASSUME \A j \in Session : j # k => session'[j] = session[j] /\ got'[j] = got[j],
             GotBehind(k)', GotOrdered(k)', GotSent(k)'
      PROVE  OrderInv'
  <2>1. \A g \in Group : SocketOrdered(g)' /\ FrameOrdered(g)'
    BY <1>1 DEF OrderInv, SocketOrdered, FrameOrdered, IsSent
  <2>2. \A e \in Endpoint : PublishedOrdered(e)' /\ \A g \in Group : PublishedFirst(e, g)'
    BY <1>1 DEF OrderInv, PublishedOrdered, PublishedFirst, IsSent
  <2>3. \A j \in Session : j # k => GotBehind(j)' /\ GotOrdered(j)' /\ GotSent(j)'
    BY <1>1, <1>3 DEF OrderInv, GotBehind, GotOrdered, GotSent, IsSent, Published
  <2> QED  BY <1>3, <2>1, <2>2, <2>3 DEF OrderInv
\* What the client got stays; only its cursor may move on.
<1>4. ASSUME got' = got, \A j \in Session : j # k => session'[j] = session[j],
             session'[k].online => /\ session[k].online
                                   /\ session'[k].next \in session[k].next .. Len(Published(k))
      PROVE  OrderInv'
  <2>1. GotOrdered(k)' /\ GotSent(k)'
    BY <1>1, <1>2, <1>4 DEF GotOrdered, GotSent, IsSent
  <2>2. GotBehind(k)'
    <3> SUFFICES ASSUME session'[k].online PROVE GotBehind(k)'
      BY DEF GotBehind
    <3>1. /\ session[k].next \in Nat /\ session'[k].next \in Nat
          /\ session[k].next <= session'[k].next /\ session'[k].next <= Len(Published(k))
      BY <1>0, <1>4
    <3>2. \A i \in DOMAIN got[k] : \E j \in 1 .. session'[k].next : got[k][i] = Published(k)[j]
      BY <1>2, <1>4, <3>1 DEF GotBehind
    <3> QED  BY <1>1, <1>4, <3>1, <3>2 DEF GotBehind, Published
  <2> QED  BY <1>3, <1>4, <2>1, <2>2
<1>5. CASE Connect(k)
  <2>1. got'[k] = <<>> /\ session'[k].next = Len(Published(k))
    BY <1>0, <1>5 DEF Connect
  <2>2. GotBehind(k)' /\ GotOrdered(k)' /\ GotSent(k)'
    BY <1>0, <1>1, <2>1 DEF GotBehind, GotOrdered, GotSent, Published
  <2>3. \A j \in Session : j # k => session'[j] = session[j] /\ got'[j] = got[j]
    BY <1>0, <1>5 DEF Connect
  <2> QED  BY <1>3, <2>2, <2>3
<1>6. CASE Disconnect(k)
  <2>1. session'[k].online = FALSE /\ got' = got
        /\ \A j \in Session : j # k => session'[j] = session[j]
    BY <1>0, <1>6 DEF Disconnect, Offline
  <2> QED  BY <1>4, <2>1
<1>7. CASE Lagged(k)
  <2>1. /\ session'[k].online = session[k].online /\ got' = got
        /\ session'[k].next = Len(Published(k)) - IqCap
        /\ \A j \in Session : j # k => session'[j] = session[j]
        /\ Len(Published(k)) - session[k].next > IqCap
    BY <1>0, <1>7 DEF Lagged, Lagging
  <2>2. session'[k].next \in session[k].next .. Len(Published(k))
    <3>1. session[k].next \in Nat /\ IqCap \in Nat
      BY <1>0, DataPlaneAssumption
    <3> QED  BY <1>0, <2>1, <3>1
  <2> QED  BY <1>4, <1>7, <2>1, <2>2 DEF Lagged
<1>8. CASE RecvFrame(k)
  <2> DEFINE n == session[k].next
             f == Published(k)[n + 1]
  <2>1. /\ session[k].online /\ n \in Nat /\ n < Len(Published(k))
        /\ session'[k].next = n + 1 /\ session'[k].online = session[k].online
        /\ \A j \in Session : j # k => session'[j] = session[j] /\ got'[j] = got[j]
        /\ got'[k] \in {got[k], Append(got[k], f)}
    BY <1>0, <1>8 DEF RecvFrame
  <2>2. /\ n = session[k].next /\ f = Published(k)[n + 1]
        /\ n + 1 \in 1 .. Len(Published(k)) /\ f \in Frame
    BY <1>0, <2>1, QueueOf
  <2> HIDE DEF f, n
  <2>3. \A i \in DOMAIN got[k] : \E j \in 1 .. n : got[k][i] = Published(k)[j]
    BY <1>2, <2>1, <2>2 DEF GotBehind
  <2>4. /\ SentBy(f, radiod)
        /\ \A j \in 1 .. n : Published(k)[j].group = f.group => Older(Published(k)[j], f)
    <3>1. \A i \in 1 .. Len(Published(k)) :
             /\ SentBy(Published(k)[i], radiod)
             /\ \A j \in 1 .. Len(Published(k)) :
                   i < j /\ Published(k)[i].group = Published(k)[j].group
                      => Older(Published(k)[i], Published(k)[j])
      BY <1>0, <1>2 DEF PublishedOrdered, Published, IsSent
    <3>2. \A j \in 1 .. n : j \in 1 .. Len(Published(k)) /\ j < n + 1
      BY <1>0, <2>1
    <3> QED  BY <2>2, <3>1, <3>2
  <2>5. \A i \in DOMAIN got[k] : got[k][i].group = f.group => Older(got[k][i], f)
    BY <2>3, <2>4
  <2>6. \/ got'[k] = got[k]
        \/ /\ DOMAIN got[k] = 1 .. Len(got[k]) /\ Len(got[k]) \in Nat
           /\ DOMAIN got'[k] = 1 .. Len(got[k]) + 1
           /\ \A i \in 1 .. Len(got[k]) : got'[k][i] = got[k][i]
           /\ got'[k][Len(got[k]) + 1] = f
    <3>1. got[k] \in Seq(Frame)
      BY <1>0
    <3>2. /\ DOMAIN got[k] = 1 .. Len(got[k]) /\ Len(got[k]) \in Nat
          /\ DOMAIN Append(got[k], f) = 1 .. Len(got[k]) + 1
          /\ \A i \in 1 .. Len(got[k]) : Append(got[k], f)[i] = got[k][i]
          /\ Append(got[k], f)[Len(got[k]) + 1] = f
      BY <2>2, <3>1, QueueOf
    <3> QED  BY <2>1, <3>2
  <2>7. \A i \in DOMAIN got'[k] : \E j \in 1 .. n + 1 : got'[k][i] = Published(k)[j]
    <3>1. \A i \in DOMAIN got[k] : \E j \in 1 .. n + 1 : got[k][i] = Published(k)[j]
      BY <2>1, <2>3
    <3>2. \E j \in 1 .. n + 1 : f = Published(k)[j]
      BY <2>1, <2>2
    <3> QED  BY <2>6, <3>1, <3>2
  <2>8. GotBehind(k)'
    BY <1>0, <1>1, <2>1, <2>7 DEF GotBehind, Published
  <2>9. GotOrdered(k)'
    BY <1>2, <2>5, <2>6 DEF GotOrdered
  <2>10. \A i \in DOMAIN got'[k] : SentBy(got'[k][i], radiod')
    BY <1>1, <1>2, <2>4, <2>6 DEF GotSent, IsSent
  <2>11. GotSent(k)'
    BY <2>10 DEF GotSent, IsSent
  <2> QED  BY <1>3, <2>1, <2>8, <2>9, <2>11
<1>9. ASSUME NEW trx \in 0 .. 15, IqStart(k, trx) \/ IqStop(k, trx) PROVE OrderInv'
  <2>1. /\ session'[k].online = session[k].online /\ session'[k].next = session[k].next
        /\ got' = got /\ \A j \in Session : j # k => session'[j] = session[j]
    BY <1>0, <1>9 DEF IqStart, IqStop
  <2>2. session[k].online => session'[k].next \in session[k].next .. Len(Published(k))
    BY <1>0, <1>2, <2>1 DEF GotBehind
  <2> QED  BY <1>4, <2>1, <2>2
<1> QED  BY <1>5, <1>6, <1>7, <1>8, <1>9

\* A channel that is moved to another rate goes on counting where it was.
LEMMA RateChangeSendsNothing ==
    ASSUME TypeOK, NEW r, NEW M,
           radiod' = [s \in Stream |-> IF s \in M THEN [radiod[s] EXCEPT !.rate = r] ELSE radiod[s]]
    PROVE  \A s \in Stream : Sent(s)' = Sent(s)
<1>1. ASSUME NEW q \in [rate : Rate, sent : Nat] PROVE [q EXCEPT !.rate = r].sent = q.sent
  OBVIOUS
<1>2. radiod \in [Stream -> [rate : Rate, sent : Nat]]
  BY DEF TypeOK
<1>3. \A s \in Stream : radiod'[s] = radiod[s] \/ radiod'[s] = [radiod[s] EXCEPT !.rate = r]
  OBVIOUS
<1> QED  BY <1>1, <1>2, <1>3 DEF Sent

LEMMA SetSrSendsNothing ==
    ASSUME TypeOK, NEW L \in SUBSET DOMAIN table, DispatchSetSr(L)
    PROVE  \A s \in Stream : Sent(s)' = Sent(s)
<1> DEFINE cmd == Head(setsrs)
           C == {s \in DOMAIN table : Channel(s)[1] = cmd.endpoint /\ table[s].freq_hz # NoFreq}
           M == C \ L
<1>1. radiod' = [s \in Stream |-> IF s \in M THEN [radiod[s] EXCEPT !.rate = cmd.samprate]
                                            ELSE radiod[s]]
  BY DEF DispatchSetSr
<1> HIDE DEF M, cmd
<1> QED  BY <1>1, RateChangeSendsNothing

LEMMA TuneSendsNothing ==
    ASSUME TypeOK, NEW s \in Stream, NEW fate \in Fates, DispatchTune(s, fate)
    PROVE  \A d \in Stream : Sent(d)' = Sent(d)
<1> DEFINE r == iq_samplerate[Channel(s)[1]]
<1>1. CASE radiod' = radiod
  BY <1>1 DEF Sent
<1>2. CASE radiod' = [radiod EXCEPT ![s].rate = r]
  <2>1. radiod \in [Stream -> [rate : Rate, sent : Nat]]
    BY DEF TypeOK
  <2> HIDE DEF r
  <2>2. radiod' = [d \in Stream |-> IF d \in {s} THEN [radiod[d] EXCEPT !.rate = r] ELSE radiod[d]]
    BY <1>2, <2>1
  <2> QED  BY <2>2, RateChangeSendsNothing
<1> QED  BY <1>1, <1>2 DEF DispatchTune

LEMMA NextOrderInv == TypeOK /\ OrderInv /\ [Next]_vars => OrderInv'
<1> SUFFICES ASSUME TypeOK, OrderInv, [Next]_vars PROVE OrderInv'
  OBVIOUS
<1> DEFINE Still == UNCHANGED <<radiod, socket, frame, iq, session, got>>
<1>1. ASSUME Still PROVE OrderInv'
  BY <1>1, BystandersKeepOrderInv DEF Sent
<1>2. CASE Control
  <2>1. ASSUME NEW e \in Endpoint, NEW r \in Rate, SetSamplerate(e, r) PROVE OrderInv'
    BY <1>1, <2>1 DEF SetSamplerate, ingestVars, clientVars
  <2>2. ASSUME NEW s \in Stream, NEW fate \in Fates, DispatchTune(s, fate) PROVE OrderInv'
    <3>1. \A d \in Stream : Sent(d)' = Sent(d)
      BY <2>2, TuneSendsNothing
    <3>2. UNCHANGED <<socket, frame, iq, session, got>>
      BY <2>2 DEF DispatchTune, ingestVars, clientVars
    <3> QED  BY <3>1, <3>2, BystandersKeepOrderInv
  <2>3. ASSUME NEW L \in SUBSET DOMAIN table, DispatchSetSr(L) PROVE OrderInv'
    <3>1. \A s \in Stream : Sent(s)' = Sent(s)
      BY <2>3, SetSrSendsNothing
    <3>2. UNCHANGED <<socket, frame, iq, session, got>>
      BY <2>3 DEF DispatchSetSr, ingestVars, clientVars
    <3> QED  BY <3>1, <3>2, BystandersKeepOrderInv
  <2>4. CASE StatusTask
    BY <1>1, <2>4 DEF StatusTask, ingestVars, clientVars
  <2> QED  BY <1>2, <2>1, <2>2, <2>3, <2>4 DEF Control
<1>3. CASE Radiod
  <2>1. ASSUME NEW s \in Stream, RadiodStatus(s) PROVE OrderInv'
    BY <1>1, <2>1 DEF RadiodStatus, ingestVars, clientVars
  <2> QED  BY <1>3, <2>1, SendKeepsOrderInv DEF Radiod
<1>4. CASE Rtp
  <2>1. CASE RtpManagerTick
    BY <1>1, <2>1 DEF RtpManagerTick, clientVars
  <2>2. ASSUME NEW g \in Group, Join(g) \/ JoinFails(g) PROVE OrderInv'
    BY <1>1, <2>2 DEF Join, JoinFails, clientVars
  <2> QED  BY <1>4, <2>1, <2>2, IngestKeepsOrderInv, PublishKeepsOrderInv DEF Rtp
<1>5. CASE Client
  BY <1>5, ClientKeepsOrderInv DEF Client
<1>6. CASE UNCHANGED vars
  BY <1>1, <1>6 DEF vars, ingestVars, clientVars
<1> QED  BY <1>2, <1>3, <1>4, <1>5, <1>6 DEF Next

\* The frames of one stream that came by one group reach a client in the order
\* radiod sent them and at most once, for queues of any length, any number of
\* lags, rate changes and reconnections (bridge.rs:708-796, server.rs:134-150).
THEOREM FramesInOrder == Spec => []InOrder
<1>1. OrderInv => InOrder
  BY DEF OrderInv, GotOrdered, Older, InOrder
<1> QED
  BY <1>1, InitTypeOK, NextTypeOK, InitOrderInv, NextOrderInv, PTL DEF Spec

-----------------------------------------------------------------------------
(* DataPlane implements IqDelivery. *)

LEMMA InitImplements == Init => Delivery!Init
<1> SUFFICES ASSUME Init PROVE Delivery!Init
  OBVIOUS
<1>1. SentCounts \in [Stream -> Nat]
  <2>1. radiod \in [Stream -> [rate : Rate, sent : Nat]]
    BY DataPlaneAssumption DEF Init
  <2> QED  BY <2>1 DEF SentCounts
<1>2. Deliveries = [k \in Session |-> <<>>]
  <2>1. \A k \in Session : got[k] = <<>>
    BY DEF Init
  <2>2. \A k \in Session : [i \in DOMAIN got[k] |-> Told(got[k][i])] = <<>>
    BY <2>1
  <2> QED  BY <2>2 DEF Deliveries
<1> QED  BY <1>1, <1>2 DEF Delivery!Init

\* Steps that change no counter and give no client anything.
LEMMA Stutters ==
    ASSUME got' = got, \A s \in Stream : Sent(s)' = Sent(s)
    PROVE  UNCHANGED Delivery!vars
<1>1. SentCounts' = SentCounts
  BY DEF SentCounts, Sent
<1>2. Deliveries' = Deliveries
  BY DEF Deliveries
<1> QED  BY <1>1, <1>2 DEF Delivery!vars

LEMMA SendEmits ==
    ASSUME TypeOK, NEW s \in Stream, RadiodSends(s)
    PROVE  Delivery!Next
<1>1. radiod' = [radiod EXCEPT ![s] = [radiod[s] EXCEPT !.sent = radiod[s].sent + 1]] /\ got' = got
  BY DEF RadiodSends, clientVars
<1>2. radiod \in [Stream -> [rate : Rate, sent : Nat]]
  BY DEF TypeOK
<1>3. ASSUME NEW q \in [rate : Rate, sent : Nat], NEW n \in Nat
      PROVE  [q EXCEPT !.sent = n].sent = n
  OBVIOUS
<1>4. \A r \in Stream : radiod'[r].sent = IF r = s THEN radiod[s].sent + 1 ELSE radiod[r].sent
  BY <1>1, <1>2, <1>3
<1>5. SentCounts' = [SentCounts EXCEPT ![s] = SentCounts[s] + 1]
  BY <1>4 DEF SentCounts
<1>6. Deliveries' = Deliveries
  BY <1>1 DEF Deliveries
<1>7. Delivery!Emit(s)
  BY <1>5, <1>6 DEF Delivery!Emit
<1> QED  BY <1>7 DEF Delivery!Next

LEMMA ConnectReconnects ==
    ASSUME TypeOK, NEW k \in Session, Connect(k)
    PROVE  Delivery!Next
<1>1. SentCounts' = SentCounts
  BY DEF Connect, SentCounts
<1>2. \A j \in Session : got'[j] = IF j = k THEN <<>> ELSE got[j]
  BY DEF Connect, TypeOK
<1>3. Deliveries' = [Deliveries EXCEPT ![k] = <<>>]
  <2>1. [i \in DOMAIN <<>> |-> Told(<<>>[i])] = <<>>
    OBVIOUS
  <2>2. \A j \in Session : Deliveries'[j] = IF j = k THEN <<>> ELSE Deliveries[j]
    BY <1>2, <2>1 DEF Deliveries
  <2> QED  BY <2>2 DEF Deliveries
<1>4. Delivery!Reconnect(k)
  BY <1>1, <1>3 DEF Delivery!Reconnect
<1> QED  BY <1>4 DEF Delivery!Next

\* A client that gets one more frame gets what is told of it.
LEMMA ToldAppend ==
    ASSUME NEW q \in Seq(Frame), NEW f \in Frame
    PROVE  LET a == Append(q, f) IN
           [i \in DOMAIN a |-> Told(a[i])] = Append([i \in DOMAIN q |-> Told(q[i])], Told(f))
<1> DEFINE a == Append(q, f)
           T == {Told(x) : x \in Frame}
           p == [i \in DOMAIN q |-> Told(q[i])]
           b == [i \in DOMAIN a |-> Told(a[i])]
<1>1. /\ Len(q) \in Nat /\ DOMAIN q = 1 .. Len(q) /\ \A i \in DOMAIN q : q[i] \in Frame
      /\ DOMAIN a = 1 .. Len(q) + 1
      /\ \A i \in 1 .. Len(q) : a[i] = q[i]
      /\ a[Len(q) + 1] = f
  BY QueueOf
<1>2. p \in Seq(T) /\ Len(p) = Len(q) /\ Told(f) \in T
  <2>1. p \in [1 .. Len(q) -> T]
    BY <1>1
  <2> QED  BY <1>1, <2>1
<1> HIDE DEF a, T
<1>3. b \in Seq(T) /\ Len(b) = Len(q) + 1
  <2>1. \A i \in DOMAIN a : Told(a[i]) \in T
    <3>1. \A i \in DOMAIN a : a[i] \in Frame
      BY <1>1
    <3> QED  BY <3>1 DEF T
  <2>2. b \in [1 .. Len(q) + 1 -> T]
    BY <1>1, <2>1
  <2> QED  BY <1>1, <2>2
<1>4. /\ Append(p, Told(f)) \in Seq(T) /\ Len(Append(p, Told(f))) = Len(p) + 1
      /\ \A i \in 1 .. Len(p) : Append(p, Told(f))[i] = p[i]
      /\ Append(p, Told(f))[Len(p) + 1] = Told(f)
  <2> HIDE DEF p
  <2> QED  BY <1>2, AppendProperties
<1>5. \A i \in 1 .. Len(b) : b[i] = Append(p, Told(f))[i]
  <2>1. \A i \in 1 .. Len(q) : b[i] = p[i]
    BY <1>1
  <2>2. b[Len(q) + 1] = Told(f)
    BY <1>1
  <2> HIDE DEF b, p
  <2> QED  BY <1>1, <1>2, <1>3, <1>4, <2>1, <2>2
<1>6. b = Append(p, Told(f))
  <2> HIDE DEF b, p
  <2> QED  BY <1>2, <1>3, <1>4, <1>5, SeqEqual
<1> QED  BY <1>6 DEF a

LEMMA RecvDelivers ==
    ASSUME TypeOK, RouteInv, OrderInv, NEW k \in Session, RecvFrame(k)
    PROVE  Delivery!Next \/ UNCHANGED Delivery!vars
<1> DEFINE f == Published(k)[session[k].next + 1]
           e == ServerOf[k]
<1>1. /\ UNCHANGED radiod
      /\ got' = IF f.endpoint = e /\ f.trx \in session[k].active
                THEN [got EXCEPT ![k] = Append(got[k], f)] ELSE got
      /\ session[k].online /\ session[k].next < Len(Published(k))
  BY DEF RecvFrame
<1>2. CASE got' = got
  BY <1>1, <1>2, Stutters DEF Sent
<1>3. CASE got' # got
  <2>1. /\ session[k].next + 1 \in DOMAIN Published(k) /\ session[k].next \in Nat
        /\ DOMAIN Published(k) = 1 .. Len(Published(k)) /\ Len(Published(k)) \in Nat
        /\ e \in Endpoint /\ got[k] \in Seq(Frame)
    BY <1>1, PublishedTo, Typed
  <2>2. f \in Frame
    BY <2>1, PublishedTo, QueueOf
  <2>3. HomeOf(f, e) /\ SentBy(f, radiod)
    BY <2>1 DEF Published, RouteInv, IqIsHome, OrderInv, PublishedOrdered, IsSent
  <2>4. \A i \in DOMAIN got[k] : got[k][i].group = f.group => Older(got[k][i], f)
    <3>1. \A j \in 1 .. session[k].next : Published(k)[j].group = f.group => Older(Published(k)[j], f)
      <4>1. \A i, j \in 1 .. Len(Published(k)) :
               i < j /\ Published(k)[i].group = Published(k)[j].group
                  => Older(Published(k)[i], Published(k)[j])
        BY <2>1 DEF OrderInv, PublishedOrdered, Published
      <4>2. \A j \in 1 .. session[k].next : j \in 1 .. Len(Published(k)) /\ j < session[k].next + 1
        BY <2>1
      <4> QED  BY <2>1, <4>1, <4>2
    <3>2. \A i \in DOMAIN got[k] : \E j \in 1 .. session[k].next : got[k][i] = Published(k)[j]
      BY <1>1 DEF OrderInv, GotBehind
    <3> QED  BY <3>1, <3>2
  <2>5. got' = [got EXCEPT ![k] = Append(got[k], f)]
    BY <1>1, <1>3
  <2> HIDE DEF f, e
  <2>6. <<k, f.ssrc, f.trx>> \in HomeStreams
    <3>1. f.ssrc \in Stream /\ f.trx \in 0 .. 15
      BY <2>2, FrameFields
    <3>2. Channel(f.ssrc) = <<ServerOf[k], f.trx, 0>>
      BY <2>3 DEF HomeOf, e
    <3> QED  BY <3>1, <3>2 DEF HomeStreams
  <2>7. f.seq \in 1 .. SentCounts[f.ssrc] /\ f.ssrc \in Stream /\ f.group \in Group /\ f.seq \in Nat
    <3>1. f.ssrc \in Stream /\ f.group \in Group /\ f.seq \in Nat
      BY <2>2, FrameNumbers
    <3>2. SentCounts[f.ssrc] = radiod[f.ssrc].sent
      BY <3>1 DEF SentCounts
    <3> QED  BY <2>3, <3>1, <3>2 DEF SentBy
  <2>8. Deliveries[k] = [i \in DOMAIN got[k] |-> Told(got[k][i])]
    BY DEF Deliveries
  <2>9. \A i \in DOMAIN Deliveries[k] :
           Deliveries[k][i].ssrc = f.ssrc /\ Deliveries[k][i].group = f.group
              => Deliveries[k][i].seq < f.seq
    BY <2>4, <2>8 DEF Told, Older
  <2>10. Deliveries' = [Deliveries EXCEPT ![k] = Append(Deliveries[k], Told(f))]
    <3>1. \A j \in Session : got'[j] = IF j = k THEN Append(got[k], f) ELSE got[j]
      BY <2>5 DEF TypeOK
    <3>2. Deliveries'[k] = Append(Deliveries[k], Told(f))
      <4>1. got'[k] = Append(got[k], f)
        BY <3>1
      <4>2. Deliveries'[k] = [i \in DOMAIN got'[k] |-> Told(got'[k][i])]
        BY DEF Deliveries
      <4> QED  BY <2>1, <2>2, <2>8, <4>1, <4>2, ToldAppend
    <3>3. \A j \in Session : j # k => Deliveries'[j] = Deliveries[j]
      BY <3>1 DEF Deliveries
    <3> QED  BY <3>2, <3>3 DEF Deliveries
  <2>11. SentCounts' = SentCounts
    BY <1>1 DEF SentCounts
  <2>12. Delivery!Deliver(k, f.ssrc, f.group, f.trx, f.seq)
    <3>1. f.seq <= SentCounts[f.ssrc]
      BY <2>7
    <3> QED  BY <2>6, <2>9, <2>10, <2>11, <3>1 DEF Delivery!Deliver, Told
  <2>13. \E h \in HomeStreams, g \in Group : \E n \in 1 .. SentCounts[h[2]] :
            Delivery!Deliver(h[1], h[2], g, h[3], n)
    <3> DEFINE h == <<k, f.ssrc, f.trx>>
    <3>1. h[1] = k /\ h[2] = f.ssrc /\ h[3] = f.trx
      OBVIOUS
    <3> QED  BY <2>6, <2>7, <2>12, <3>1
  <2> QED  BY <2>13 DEF Delivery!Next
<1> QED  BY <1>2, <1>3

LEMMA NextImplements ==
    TypeOK /\ RouteInv /\ OrderInv /\ [Next]_vars => [Delivery!Next]_Delivery!vars
<1> SUFFICES ASSUME TypeOK, RouteInv, OrderInv, [Next]_vars
             PROVE  Delivery!Next \/ UNCHANGED Delivery!vars
  OBVIOUS
<1>1. ASSUME UNCHANGED <<radiod, got>> PROVE UNCHANGED Delivery!vars
  BY <1>1, Stutters DEF Sent
<1>2. CASE Control
  <2>1. ASSUME NEW e \in Endpoint, NEW r \in Rate, SetSamplerate(e, r) PROVE UNCHANGED Delivery!vars
    BY <1>1, <2>1 DEF SetSamplerate, clientVars
  <2>2. ASSUME NEW s \in Stream, NEW fate \in Fates, DispatchTune(s, fate)
        PROVE  UNCHANGED Delivery!vars
    <3>1. \A d \in Stream : Sent(d)' = Sent(d)
      BY <2>2, TuneSendsNothing
    <3> QED  BY <2>2, <3>1, Stutters DEF DispatchTune, clientVars
  <2>3. ASSUME NEW L \in SUBSET DOMAIN table, DispatchSetSr(L) PROVE UNCHANGED Delivery!vars
    <3>1. \A s \in Stream : Sent(s)' = Sent(s)
      BY <2>3, SetSrSendsNothing
    <3> QED  BY <2>3, <3>1, Stutters DEF DispatchSetSr, clientVars
  <2>4. CASE StatusTask
    BY <1>1, <2>4 DEF StatusTask, clientVars
  <2> QED  BY <1>2, <2>1, <2>2, <2>3, <2>4 DEF Control
<1>3. CASE Radiod
  <2>1. ASSUME NEW s \in Stream, RadiodStatus(s) PROVE UNCHANGED Delivery!vars
    BY <1>1, <2>1 DEF RadiodStatus, clientVars
  <2> QED  BY <1>3, <2>1, SendEmits DEF Radiod
<1>4. CASE Rtp
  BY <1>1, <1>4 DEF Rtp, RtpManagerTick, Join, JoinFails, Ingest, Publish, clientVars
<1>5. CASE Client
  <2>1. ASSUME NEW k \in Session, Disconnect(k) \/ Lagged(k) PROVE UNCHANGED Delivery!vars
    BY <1>1, <2>1 DEF Disconnect, Lagged
  <2>2. ASSUME NEW k \in Session, NEW t \in 0 .. 15, IqStart(k, t) \/ IqStop(k, t)
        PROVE  UNCHANGED Delivery!vars
    BY <1>1, <2>2 DEF IqStart, IqStop
  <2> QED  BY <1>5, <2>1, <2>2, ConnectReconnects, RecvDelivers DEF Client
<1>6. CASE UNCHANGED vars
  BY <1>1, <1>6 DEF vars, clientVars
<1> QED  BY <1>2, <1>3, <1>4, <1>5, <1>6 DEF Next

\* Every step of the data plane is a step of the delivery it owes, or none: a
\* client only gets packets that were sent, of its own streams, in order and
\* once for each group (bridge.rs:698-796, server.rs:125-156).
THEOREM DataPlaneDelivers == Spec => ImplementsDelivery
BY InitImplements, NextImplements, InitTypeOK, NextTypeOK, InitRouteInv, NextRouteInv,
   InitOrderInv, NextOrderInv, PTL DEF Spec, ImplementsDelivery, Delivery!Spec
=================================================================================
