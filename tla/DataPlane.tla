-------------------------------- MODULE DataPlane --------------------------------
(***************************************************************************)
(* The data plane of ka9q-tci: how RTP packets of radiod's channels become *)
(* IQ frames of the right TRX at the right clients.                        *)
(*                                                                         *)
(*   status_task   learns a channel's data group from STATUS (bridge.rs);  *)
(*   rtp_manager   starts an ingest task for every group it has not seen;  *)
(*   rtp_ingest    one per group: receives, looks the SSRC up, awaits the  *)
(*                 endpoint's sample rate, publishes the frame;            *)
(*   iq_tx         one broadcast channel per endpoint, which overwrites    *)
(*                 the oldest frames (tokio::sync::broadcast);             *)
(*   sessions      each with its own cursor and its own set of TRX with IQ *)
(*                 streaming on (server.rs).                               *)
(*                                                                         *)
(* The control plane appears by what it does to this: dispatched Tunes and *)
(* SetSrs, whose steps module Bridge takes apart.  A datagram that cannot  *)
(* be parsed, or carries no samples, leaves no trace and is left out.      *)
(***************************************************************************)
EXTENDS SsrcTable, Ssrc, Sequences

CONSTANTS
    Endpoint,      \* indices of `states`
    TrxCount,      \* ServerConfig.trx_count of each endpoint
    Session,       \* client connections
    ServerOf,      \* endpoint a session is connected to
    Stream,        \* SSRCs of the channels radiod runs
    Rate, InitRate,
    Running,       \* what radiod may be running when the program starts
    NoRate,        \* label of a frame whose rate has not been read yet
    GroupFor,      \* data group of the preset for a rate (NoGroup: not IPv4)
    MulticastAll,  \* a wildcard socket hears every group the host has joined
    SockCap,       \* packets a socket buffers
    StatusCap,     \* capacity of the STATUS channel
    IqCap,         \* capacity of iq_tx
    MaxPackets,    \* bound: packets of each stream
    MaxRates,      \* bound: rate changes
    MaxFaults      \* bound: failed joins, Tunes and SetSrs that do not reach a channel

ASSUME DataPlaneAssumption ==
    /\ Endpoint \subseteq Byte
    /\ TrxCount \in [Endpoint -> Byte]
    /\ ServerOf \in [Session -> Endpoint]
    /\ Stream \subseteq Nat
    /\ \A s \in Stream : ssrc_decode(s) # NoChannel => reserved(s) = 0
    /\ InitRate \in [Endpoint -> Rate]
    /\ Running \subseteq [Stream -> [rate : Rate, sent : Nat]]
    /\ Rate # {} /\ NoRate \notin Rate
    /\ GroupFor \in [Rate -> Group \cup {NoGroup}]
    /\ MulticastAll \in BOOLEAN
    /\ SockCap \in Nat /\ StatusCap \in Nat /\ IqCap \in Nat \ {0}
    /\ MaxPackets \in [Stream -> Nat] /\ MaxRates \in Nat /\ MaxFaults \in Nat

VARIABLES
    iq_samplerate,  \* SharedState.iq_samplerate of each endpoint
    setsrs,         \* SetSr commands on their way to the bridge
    radiod,         \* rate of each stream, and how many packets it has sent
    statuses,       \* STATUS packets on their way to status_task
    table,          \* the SsrcTable, by SSRC
    joined,         \* what rtp_manager and the ingest task did with each group
    socket,         \* datagrams waiting at the socket of each group
    frame,          \* the frame each ingest task has in hand
    iq,             \* all frames published on each endpoint's iq_tx
    session,        \* connection, cursor into iq and iq_active of each session
    got,            \* frames sent to the client since it connected
    changes,        \* rate changes so far, for MaxRates
    faults          \* faults so far, for MaxFaults

controlVars == <<iq_samplerate, setsrs, changes>>
ingestVars  == <<joined, socket, frame>>
clientVars  == <<session, got>>
vars == <<controlVars, radiod, statuses, table, ingestVars, iq, clientVars, faults>>

-----------------------------------------------------------------------------
Channel(s) == ssrc_decode(s)

Ours(s) == Channel(s) # NoChannel

Packet == [ssrc : Stream, seq : Nat, rate : Rate]

\* IqFrame; `ssrc`, `seq` and `rate` are its packet's, `group` is the task's.
Frame == [ssrc : Stream, seq : Nat, rate : Rate, group : Group,
          endpoint : Endpoint, trx : 0 .. 15, label : Rate \cup {NoRate}]

NoFrame == [ssrc |-> 0]

SetSrCmd == [endpoint : Endpoint, samprate : Rate]

Status == [ssrc : Stream, freq_hz : Freq, data_group : Group \cup {NoGroup}]

Offline == [online |-> FALSE, next |-> 0, active |-> {}]

Init ==
    /\ iq_samplerate = InitRate
    /\ setsrs = <<>>
    /\ radiod \in Running
    /\ statuses = <<>>
    /\ table = EmptyTable
    /\ joined = [g \in Group |-> "no"]
    /\ socket = [g \in Group |-> <<>>]
    /\ frame = [g \in Group |-> NoFrame]
    /\ iq = [e \in Endpoint |-> <<>>]
    /\ session = [k \in Session |-> Offline]
    /\ got = [k \in Session |-> <<>>]
    /\ changes = 0
    /\ faults = 0

-----------------------------------------------------------------------------
(* The control plane, as far as it changes what the data plane reads. *)

\* A client of endpoint e asks for rate r; the SetSr is queued.
SetSamplerate(e, r) ==
    /\ changes < MaxRates
    /\ \E k \in Session : ServerOf[k] = e /\ session[k].online
    /\ iq_samplerate' = [iq_samplerate EXCEPT ![e] = r]
    /\ setsrs' = Append(setsrs, [endpoint |-> e, samprate |-> r])
    /\ changes' = changes + 1
    /\ UNCHANGED <<radiod, statuses, table, ingestVars, iq, clientVars, faults>>

\* What becomes of a COMMAND: the datagram may be lost, or send_command fail.
Fates == {"arrives", "is lost", "fails"}

\* A Tune of VFO A has been dispatched.  The COMMAND for a channel that is not
\* marked created carries the PRESET of the endpoint's rate, which may move the
\* channel to another group; unless send_command fails, the channel is then marked.
\* A Tune without PRESET that goes astray changes nothing here.
DispatchTune(s, fate) ==
    LET t == get_or_insert(table, s)
        needs_create == ~t[s].created
    IN
    /\ Ours(s)
    /\ Channel(s)[1] \in Endpoint
    /\ Channel(s)[3] = 0
    /\ fate # "arrives" => needs_create /\ faults < MaxFaults
    /\ table' = IF fate = "fails" THEN t ELSE mark_created(t, s)
    /\ radiod' = IF needs_create /\ fate = "arrives"
                 THEN [radiod EXCEPT ![s].rate = iq_samplerate[Channel(s)[1]]]
                 ELSE radiod
    /\ faults' = IF fate = "arrives" THEN faults ELSE faults + 1
    /\ UNCHANGED <<controlVars, statuses, ingestVars, iq, clientVars>>

\* A SetSr has been dispatched: the endpoint's tuned channels are invalidated
\* and re-tuned, except those of L, where the loop failed or the COMMAND was lost.
DispatchSetSr(L) ==
    LET cmd == Head(setsrs)
        C == {s \in DOMAIN table : Channel(s)[1] = cmd.endpoint /\ table[s].freq_hz # NoFreq}
    IN
    /\ setsrs # <<>>
    /\ L \subseteq C
    /\ L # {} => faults < MaxFaults
    /\ setsrs' = Tail(setsrs)
    /\ table' = invalidate(table, C)
    /\ radiod' = [s \in Stream |-> IF s \in C \ L
                                   THEN [radiod[s] EXCEPT !.rate = cmd.samprate]
                                   ELSE radiod[s]]
    /\ faults' = IF L = {} THEN faults ELSE faults + 1
    /\ UNCHANGED <<iq_samplerate, changes, statuses, ingestVars, iq, clientVars>>

RadiodStatus(s) ==
    /\ Len(statuses) < StatusCap
    /\ \E f \in Freq :
          statuses' = Append(statuses, [ssrc |-> s, freq_hz |-> f,
                                        data_group |-> GroupFor[radiod[s].rate]])
    /\ UNCHANGED <<controlVars, radiod, table, ingestVars, iq, clientVars, faults>>

\* A plausible slip: the prefix of the SSRC is not looked at.
StatusOfAnySsrc ==
    /\ statuses # <<>>
    /\ statuses' = Tail(statuses)
    /\ table' = update_from_status(table, Head(statuses))
    /\ UNCHANGED <<controlVars, radiod, ingestVars, iq, clientVars, faults>>

\* Channels of other programs are left out of the table.
StatusTask ==
    /\ statuses # <<>>
    /\ statuses' = Tail(statuses)
    /\ table' = IF Ours(Head(statuses).ssrc) THEN update_from_status(table, Head(statuses))
                                             ELSE table
    /\ UNCHANGED <<controlVars, radiod, ingestVars, iq, clientVars, faults>>

-----------------------------------------------------------------------------
(* rtp_manager. *)

KnownGroups == {table[s].data_group : s \in DOMAIN table} \ {NoGroup}

\* One tick: a task for every known group that has no entry in `joined`.
RtpManagerTick ==
    LET new_groups == {g \in KnownGroups : joined[g] = "no"} IN
    /\ new_groups # {}
    /\ joined' = [g \in Group |-> IF g \in new_groups THEN "joining" ELSE joined[g]]
    /\ UNCHANGED <<controlVars, radiod, statuses, table, socket, frame, iq, clientVars, faults>>

\* join_multicast of the ingest task.
Join(g) ==
    /\ joined[g] = "joining"
    /\ joined' = [joined EXCEPT ![g] = "reading"]
    /\ UNCHANGED <<controlVars, radiod, statuses, table, socket, frame, iq, clientVars, faults>>

\* It failed: the task ends, its entry in `joined` stays.
JoinFails(g) ==
    /\ joined[g] = "joining"
    /\ faults < MaxFaults
    /\ joined' = [joined EXCEPT ![g] = "ended"]
    /\ faults' = faults + 1
    /\ UNCHANGED <<controlVars, radiod, statuses, table, socket, frame, iq, clientVars>>

-----------------------------------------------------------------------------
(* rtp_ingest. *)

\* Does the socket of group h hear what is sent to group g?  It is bound to
\* the wildcard address.
Hears(h, g) ==
    /\ joined[h] = "reading"
    /\ h = g \/ (MulticastAll /\ joined[g] = "reading")

\* radiod sends a packet of stream s to the group of its preset.  What a socket
\* has no room for is lost; what it gets, it gets in the order of sending.
RadiodSends(s) ==
    LET g == GroupFor[radiod[s].rate]
        pkt == [ssrc |-> s, seq |-> radiod[s].sent + 1, rate |-> radiod[s].rate]
    IN
    /\ radiod[s].sent < MaxPackets[s]
    /\ g # NoGroup
    /\ radiod' = [radiod EXCEPT ![s].sent = @ + 1]
    /\ socket' = [h \in Group |-> IF Hears(h, g) /\ Len(socket[h]) < SockCap
                                  THEN Append(socket[h], pkt) ELSE socket[h]]
    /\ UNCHANGED <<controlVars, statuses, table, joined, frame, iq, clientVars, faults>>

\* A plausible slip: VFO B channels are forwarded too.
RoutedAnyVfo(s) == s \in DOMAIN table /\ Channel(s)[1] \in Endpoint

\* Known, VFO A, and of an endpoint this run serves.
Routed(s) ==
    /\ s \in DOMAIN table
    /\ Channel(s)[3] = 0
    /\ Channel(s)[1] \in Endpoint

FrameOf(pkt, g) ==
    [ssrc |-> pkt.ssrc, seq |-> pkt.seq, rate |-> pkt.rate, group |-> g,
     endpoint |-> Channel(pkt.ssrc)[1], trx |-> Channel(pkt.ssrc)[2], label |-> NoRate]

\* A plausible slip: the datagram is read but stays in the socket.
IngestPeeks(g) ==
    /\ joined[g] = "reading"
    /\ frame[g] = NoFrame
    /\ socket[g] # <<>>
    /\ Routed(Head(socket[g]).ssrc)
    /\ frame' = [frame EXCEPT ![g] = FrameOf(Head(socket[g]), g)]
    /\ UNCHANGED <<controlVars, radiod, statuses, table, joined, socket, iq, clientVars, faults>>

\* One datagram, up to the look-up under the table lock and the routing.
Ingest(g) ==
    LET pkt == Head(socket[g]) IN
    /\ joined[g] = "reading"
    /\ frame[g] = NoFrame
    /\ socket[g] # <<>>
    /\ socket' = [socket EXCEPT ![g] = Tail(@)]
    /\ frame' = IF Routed(pkt.ssrc) THEN [frame EXCEPT ![g] = FrameOf(pkt, g)] ELSE frame
    /\ UNCHANGED <<controlVars, radiod, statuses, table, joined, iq, clientVars, faults>>

\* A plausible slip: the frame is not given up when it is published.
PublishKeeps(g) ==
    LET e == frame[g].endpoint IN
    /\ frame[g] # NoFrame
    /\ iq' = [iq EXCEPT ![e] = Append(@, [frame[g] EXCEPT !.label = iq_samplerate[e]])]
    /\ UNCHANGED <<controlVars, radiod, statuses, table, ingestVars, clientVars, faults>>

\* After iq_samplerate.read().await: label the frame and publish it.
Publish(g) ==
    LET e == frame[g].endpoint IN
    /\ frame[g] # NoFrame
    /\ iq' = [iq EXCEPT ![e] = Append(@, [frame[g] EXCEPT !.label = iq_samplerate[e]])]
    /\ frame' = [frame EXCEPT ![g] = NoFrame]
    /\ UNCHANGED <<controlVars, radiod, statuses, table, joined, socket, clientVars, faults>>

-----------------------------------------------------------------------------
(* Client sessions. *)

Published(k) == iq[ServerOf[k]]

\* After the handshake: subscribe at the tail, no TRX active.
Connect(k) ==
    /\ ~session[k].online
    /\ session' = [session EXCEPT ![k] =
                      [online |-> TRUE, next |-> Len(Published(k)), active |-> {}]]
    /\ got' = [got EXCEPT ![k] = <<>>]
    /\ UNCHANGED <<controlVars, radiod, statuses, table, ingestVars, iq, faults>>

Disconnect(k) ==
    /\ session[k].online
    /\ session' = [session EXCEPT ![k] = Offline]
    /\ UNCHANGED <<controlVars, radiod, statuses, table, ingestVars, iq, got, faults>>

IqStart(k, trx) ==
    /\ session[k].online
    /\ trx < TrxCount[ServerOf[k]]
    /\ session' = [session EXCEPT ![k].active = @ \cup {trx}]
    /\ UNCHANGED <<controlVars, radiod, statuses, table, ingestVars, iq, got, faults>>

IqStop(k, trx) ==
    /\ session[k].online
    /\ trx < TrxCount[ServerOf[k]]
    /\ session' = [session EXCEPT ![k].active = @ \ {trx}]
    /\ UNCHANGED <<controlVars, radiod, statuses, table, ingestVars, iq, got, faults>>

Lagging(k) == Len(Published(k)) - session[k].next > IqCap

\* RecvError::Lagged: the cursor moves to the oldest frame still there.
Lagged(k) ==
    /\ session[k].online
    /\ Lagging(k)
    /\ session' = [session EXCEPT ![k].next = Len(Published(k)) - IqCap]
    /\ UNCHANGED <<controlVars, radiod, statuses, table, ingestVars, iq, got, faults>>

\* A plausible slip: the session only listens while some TRX is active.
RecvWhileActive(k) ==
    LET f == Published(k)[session[k].next + 1] IN
    /\ session[k].online
    /\ session[k].active # {}
    /\ session[k].next < Len(Published(k))
    /\ ~Lagging(k)
    /\ got' = IF f.endpoint = ServerOf[k] /\ f.trx \in session[k].active
              THEN [got EXCEPT ![k] = Append(@, f)] ELSE got
    /\ session' = [session EXCEPT ![k].next = @ + 1]
    /\ UNCHANGED <<controlVars, radiod, statuses, table, ingestVars, iq, faults>>

\* A frame is forwarded if it is the endpoint's and its TRX is active.
RecvFrame(k) ==
    LET f == Published(k)[session[k].next + 1] IN
    /\ session[k].online
    /\ session[k].next < Len(Published(k))
    /\ ~Lagging(k)
    /\ got' = IF f.endpoint = ServerOf[k] /\ f.trx \in session[k].active
              THEN [got EXCEPT ![k] = Append(@, f)] ELSE got
    /\ session' = [session EXCEPT ![k].next = @ + 1]
    /\ UNCHANGED <<controlVars, radiod, statuses, table, ingestVars, iq, faults>>

-----------------------------------------------------------------------------
Control ==
    \/ \E e \in Endpoint, r \in Rate : SetSamplerate(e, r)
    \/ \E s \in Stream, fate \in Fates : DispatchTune(s, fate)
    \/ \E L \in SUBSET DOMAIN table : DispatchSetSr(L)
    \/ StatusTask

Radiod == \E s \in Stream : RadiodStatus(s) \/ RadiodSends(s)

Rtp ==
    \/ RtpManagerTick
    \/ \E g \in Group : Join(g) \/ JoinFails(g) \/ Ingest(g) \/ Publish(g)

Client ==
    \E k \in Session :
        \/ Connect(k) \/ Disconnect(k) \/ Lagged(k) \/ RecvFrame(k)
        \/ \E trx \in 0 .. 15 : IqStart(k, trx) \/ IqStop(k, trx)

Next == Control \/ Radiod \/ Rtp \/ Client

Spec == Init /\ [][Next]_vars

(* The tasks run for ever and the ticks of rtp_manager and poll_task keep   *)
(* coming; a session reads its broadcast channel as long as its client is  *)
(* there.  Clients, radiod's packets and faults owe nothing.               *)
Fairness ==
    /\ WF_vars(\E L \in SUBSET DOMAIN table : DispatchSetSr(L))
    /\ WF_vars(StatusTask)
    /\ \A s \in Stream : SF_vars(RadiodStatus(s))
    /\ WF_vars(RtpManagerTick)
    /\ \A g \in Group : WF_vars(Join(g) \/ JoinFails(g)) /\ WF_vars(Ingest(g)) /\ WF_vars(Publish(g))
    /\ \A k \in Session : WF_vars(Lagged(k) \/ RecvFrame(k))

FairSpec == Spec /\ Fairness

-----------------------------------------------------------------------------
(* Properties. *)

TypeOK ==
    /\ iq_samplerate \in [Endpoint -> Rate]
    /\ setsrs \in Seq(SetSrCmd)
    /\ radiod \in [Stream -> [rate : Rate, sent : Nat]]
    /\ statuses \in Seq(Status)
    /\ DOMAIN table \subseteq {s \in Stream : Ours(s)}
    /\ table \in [DOMAIN table -> ChannelInfo]
    /\ joined \in [Group -> {"no", "joining", "reading", "ended"}]
    /\ socket \in [Group -> Seq(Packet)]
    /\ frame \in [Group -> Frame \cup {NoFrame}]
    /\ iq \in [Endpoint -> Seq(Frame)]
    /\ session \in [Session -> [online : BOOLEAN, next : Nat, active : SUBSET (0 .. 15)]]
    /\ got \in [Session -> Seq(Frame)]
    /\ changes \in Nat
    /\ faults \in Nat

\* Whatever streams radiod runs on the groups the program hears, a client only
\* gets frames of VFO A channels of its own endpoint, under the TRX the SSRC
\* was made for, and only of TRX its endpoint announced (bridge.rs:729-754,
\* server.rs:137-146).
RoutedHome ==
    \A k \in Session : \A i \in DOMAIN got[k] :
        LET f == got[k][i] IN
        /\ Channel(f.ssrc) = <<ServerOf[k], f.trx, 0>>
        /\ f.trx < TrxCount[ServerOf[k]]

\* All the frames a client gets for a TRX come from one channel of radiod: no
\* second stream is mixed in (bridge.rs:729-732).
OneStreamPerTrx ==
    \A k \in Session : \A i, j \in DOMAIN got[k] :
        got[k][i].trx = got[k][j].trx => got[k][i].ssrc = got[k][j].ssrc

\* What one ingest task publishes of a stream reaches each client in the order
\* radiod sent it and at most once, across lags, stops, starts and rate changes
\* (bridge.rs:708-796, server.rs:134-150).
InOrder ==
    \A k \in Session : \A i, j \in DOMAIN got[k] :
        i < j /\ got[k][i].ssrc = got[k][j].ssrc /\ got[k][i].group = got[k][j].group
            => got[k][i].seq < got[k][j].seq

\* IqDelivery over this state: radiod's counters, and of a frame what tells which
\* packet it was made of, by which group it came and as which TRX.
Told(f) == [ssrc |-> f.ssrc, seq |-> f.seq, group |-> f.group, trx |-> f.trx]

HomeStreams ==
    {h \in Session \X Stream \X (0 .. 15) : Channel(h[2]) = <<ServerOf[h[1]], h[3], 0>>}

SentCounts == [s \in Stream |-> radiod[s].sent]

Deliveries == [k \in Session |-> [i \in DOMAIN got[k] |-> Told(got[k][i])]]

Delivery == INSTANCE IqDelivery WITH Home <- HomeStreams, sent <- SentCounts, got <- Deliveries

\* The data plane implements the delivery it owes: every step, one packet, one
\* frame, one new connection or none of these (bridge.rs:698-796,
\* server.rs:125-156).
ImplementsDelivery == Delivery!Spec

\* Whichever group a channel is on, and whatever moves it there - a rate change, the
\* Tune that repairs one which did not reach it, the first Tune of a channel an earlier
\* run left on another preset - that group ends up being read, unless the one attempt to
\* join it failed (bridge.rs:476-550, 580-622, 655-686).
GroupsJoined ==
    <>[](\A s \in Stream : Ours(s) /\ GroupFor[radiod[s].rate] # NoGroup
            => joined[GroupFor[radiod[s].rate]] \in {"reading", "ended"})

\* No packet the program accepts, and no frame it publishes, stays behind:
\* packets it ignores, frames nobody wants and lagging clients hold nothing up.
PipelineDrains ==
    <>[](/\ \A g \in Group : socket[g] = <<>> /\ frame[g] = NoFrame
         /\ \A k \in Session : session[k].online => session[k].next = Len(Published(k)))

-----------------------------------------------------------------------------
(* What comments of the repository promise and the code does not keep. *)

\* bridge.rs:755-758: the rate a frame announces is the rate of its preset.
LabelIsTrue ==
    \A k \in Session : \A i \in DOMAIN got[k] : got[k][i].label = got[k][i].rate

\* multicast.rs:37, bridge.rs:689: a socket only hears its own group, so each
\* packet is ingested once.
NoDuplicates ==
    \A k \in Session : \A i, j \in DOMAIN got[k] :
        got[k][i].ssrc = got[k][j].ssrc /\ got[k][i].seq = got[k][j].seq => i = j
==================================================================================
