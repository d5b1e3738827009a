-------------------------------- MODULE TciServer --------------------------------
(***************************************************************************)
(* The text side of the TCI servers: what clients ask for, what is stored, *)
(* what the bridge is told and what the clients are told (server.rs,       *)
(* state.rs).                                                              *)
(*                                                                         *)
(* SharedState is a function from parameters <<name, trx, vfo>> to tuples  *)
(* of values (0 stands for an index a parameter does not have).  One       *)
(* session is one task: it greets, dumps the state, subscribes to the IQ   *)
(* channel and then serves one text message, or one IQ frame, at a time;   *)
(* only what happens between two awaits is one step.  The bridge is the    *)
(* reader of the command channel, and IQ frames come when they come; the   *)
(* modules Bridge and DataPlane say how.                                   *)
(***************************************************************************)
EXTENDS TciProtocol, BridgeCmd

CONSTANTS
    Endpoint,
    TrxConfig,     \* the TRX the configuration lists for each endpoint
    NoFreqB,       \* ... for the freq_b of those that have none
    IqSamplerate,  \* the rate each endpoint starts with
    Session,       \* client connections
    ServerOf,      \* endpoint a session is connected to
    Message,       \* Text messages of each client: sequences of lines
    CmdCap,        \* capacity of the command channel
    MaxRequests,   \* bound: messages of all clients together
    MaxFaults      \* bound: connections that break

\* main announces what the configuration lists, and at least one.
TrxCount == [e \in Endpoint |-> IF TrxConfig[e] = <<>> THEN 1 ELSE Len(TrxConfig[e])]

Trx(e) == 0 .. TrxCount[e] - 1

\* How many indices a parameter has, and the command that sets it.
Indices == [vfo |-> 2, if |-> 2, rx_channel_enable |-> 2, dds |-> 1, modulation |-> 1,
            rx_filter_band |-> 1, iq_samplerate |-> 0]
SetterOf == [vfo |-> "Vfo", if |-> "If", rx_channel_enable |-> "RxChannelEnable",
             dds |-> "Dds", modulation |-> "Modulation", rx_filter_band |-> "RxFilterBand",
             iq_samplerate |-> "IqSamplerate"]
ReaderOf == [vfo |-> "VfoRead", if |-> "IfRead", rx_channel_enable |-> "RxChannelEnableRead",
             dds |-> "DdsRead", modulation |-> "ModulationRead",
             rx_filter_band |-> "RxFilterBandRead"]

\* `ti < max_trx && vi < 2`
Param == [e \in Endpoint |->
    ({"vfo", "if", "rx_channel_enable"} \X Trx(e) \X {0, 1})
    \cup ({"dds", "modulation", "rx_filter_band"} \X Trx(e) \X {0})
    \cup {<<"iq_samplerate", 0, 0>>}]

IsSeq(s) == s \in Seq({s[i] : i \in DOMAIN s})

ASSUME ServerAssumption ==
    /\ \A e \in Endpoint :
         /\ IsSeq(TrxConfig[e]) /\ Len(TrxConfig[e]) <= 255
         /\ \A i \in DOMAIN TrxConfig[e] : /\ TrxConfig[e][i].freq \in U64
                                          /\ TrxConfig[e][i].freq_b \in U64 \cup {NoFreqB}
         /\ Trx(e) \cup {0, 1} \subseteq U32
    /\ IqSamplerate \in [Endpoint -> U32]
    /\ ServerOf \in [Session -> Endpoint]
    /\ \A k \in Session : \A m \in Message[k] : IsSeq(m)
    /\ CmdCap \in Nat \ {0}
    /\ MaxRequests \in Nat /\ MaxFaults \in Nat

VARIABLES
    state,      \* SharedState.trx and .iq_samplerate of each endpoint
    cmds,       \* the command channel
    phase,      \* where handle_client is
    sock,       \* the message the client has sent
    lines,      \* lines of that message still to be handled
    pending,    \* the BridgeCmd handle_command has still to offer
    out,        \* lines still to be sent to the client
    iq_active,  \* TRX whose frames the client gets
    requests,   \* messages so far, for MaxRequests
    faults      \* broken connections so far, for MaxFaults

(* History: no action of the program reads it. *)
VARIABLE view   \* the last line the client was sent about each parameter

taskVars == <<phase, lines, pending, out, iq_active>>
vars == <<state, cmds, taskVars, sock, requests, faults, view>>

-----------------------------------------------------------------------------
\* The parameter the first arguments of a command address.
Addressed(name, args) ==
    <<name, IF Indices[name] > 0 THEN args[1] ELSE 0, IF Indices[name] > 1 THEN args[2] ELSE 0>>

\* The line that reports value v of parameter p.
Report(p, v) ==
    format_msg(p[1], SetterOf[p[1]], SubSeq(<<p[2], p[3]>>, 1, Indices[p[1]]) \o v)

\* A plausible slip: the centre of the panorama does not follow VFO A.
StoredAlone(s, p, v) == [s EXCEPT ![p] = v]

\* A new value; VFO A takes the DDS, the centre of the panorama, with it.
Stored(s, p, v) ==
    [q \in DOMAIN s |-> IF q = p \/ (p[1] = "vfo" /\ p[3] = 0 /\ q = <<"dds", p[2], 0>>)
                        THEN v ELSE s[q]]

\* A plausible slip: VFO B is tuned too.
CmdForBothVfos(e, p, v) ==
    CASE p[1] = "vfo" -> Tune(<<e, p[2], 0>>, v[1])
      [] p[1] = "rx_channel_enable" -> EnableRx(<<e, p[2], p[3]>>, v[1])
      [] p[1] = "iq_samplerate" -> SetSr(e, v[1])
      [] OTHER -> NoCmd

\* What the bridge is told of a new value; VFO B stays between the clients.
CmdFor(e, p, v) ==
    CASE p[1] = "vfo" /\ p[3] = 0 -> Tune(<<e, p[2], p[3]>>, v[1])
      [] p[1] = "rx_channel_enable" -> EnableRx(<<e, p[2], p[3]>>, v[1])
      [] p[1] = "iq_samplerate" -> SetSr(e, v[1])
      [] OTHER -> NoCmd

-----------------------------------------------------------------------------
(* SharedState as main builds it. *)

DEFAULT_FREQ_HZ == 7074000
DefaultFilter   == <<0, 3000>>

\* The defaults, and the offset of the IF, fit their types.
ASSUME DefaultsFit ==
    DEFAULT_FREQ_HZ \in U64 /\ 0 \in I64 /\ \A i \in 1 .. 2 : DefaultFilter[i] \in I32

\* The frequency a VFO, or the centre, of a TRX starts on: TRX the
\* configuration does not list keep the default.
InitialFreq(e, t, vfo) ==
    LET cfg == TrxConfig[e][t + 1] IN
    IF t >= Len(TrxConfig[e]) THEN DEFAULT_FREQ_HZ
    ELSE IF vfo = 1 /\ cfg.freq_b # NoFreqB THEN cfg.freq_b ELSE cfg.freq

InitialModulation(e, t) ==
    IF t >= Len(TrxConfig[e]) THEN Word("USB") ELSE TrxConfig[e][t + 1].modulation

\* VFO A is enabled, VFO B is not.
new_with_initial(e) ==
    [p \in Param[e] |->
        CASE p[1] \in {"vfo", "dds"}     -> <<InitialFreq(e, p[2], p[3])>>
          [] p[1] = "if"                -> <<0>>
          [] p[1] = "rx_channel_enable" -> <<p[3] = 0>>
          [] p[1] = "modulation"        -> <<InitialModulation(e, p[2])>>
          [] p[1] = "rx_filter_band"    -> DefaultFilter
          [] p[1] = "iq_samplerate"     -> <<IqSamplerate[e]>>]

-----------------------------------------------------------------------------
(* Lines of a new session. *)

Words(name, ws) == Line(name, [i \in DOMAIN ws |-> Word(ws[i])])

\* The passband of the rate the endpoint starts with.
if_half(e) == IqSamplerate[e] \div 2

\* Between protocol and ready the configuration is announced, and the rate.
Handshake(e, rate) ==
    <<Words("protocol", <<"ExpertSDR3", "1.9">>), Words("device", <<"device_name">>),
      Words("receive_only", <<"true">>), Line("trx_count", <<Num(TrxCount[e])>>),
      Line("channel_count", <<Num(2)>>), Words("vfo_limits", <<"vfo_min_hz", "vfo_max_hz">>),
      Line("if_limits", <<Num(-if_half(e)), Num(if_half(e))>>),
      Words("modulations_list", <<"modulations">>),
      Report(<<"iq_samplerate", 0, 0>>, rate), Line("ready", <<>>)>>

\* VFO A is always enabled; the IF offsets are not announced.
TrxDump(s, t) ==
    <<Line("tx_enable", <<Num(t), Word("false")>>), Line("trx", <<Num(t), Word("false")>>),
      Line("rx_enable", <<Num(t), Word("true")>>)>>
    \o [i \in 1 .. 6 |->
            LET p == << <<"dds", t, 0>>, <<"vfo", t, 0>>, <<"vfo", t, 1>>,
                        <<"rx_channel_enable", t, 1>>, <<"modulation", t, 0>>,
                        <<"rx_filter_band", t, 0>> >>[i]
            IN  Report(p, s[p])]

\* TRX after TRX, nine lines each.
current_state_messages(e) ==
    [i \in 1 .. 9 * TrxCount[e] |-> TrxDump(state[e], (i - 1) \div 9)[1 + ((i - 1) % 9)]]
    \o <<Line("start", <<>>)>>

-----------------------------------------------------------------------------
Untold(e) == [p \in Param[e] |-> NoLine]

\* handle_client is over, or has not begun.
Closed(k) ==
    /\ phase' = [phase EXCEPT ![k] = "offline"]
    /\ sock' = [sock EXCEPT ![k] = <<>>]
    /\ lines' = [lines EXCEPT ![k] = <<>>]
    /\ out' = [out EXCEPT ![k] = <<>>]
    /\ iq_active' = [iq_active EXCEPT ![k] = {}]
    /\ view' = [view EXCEPT ![k] = Untold(ServerOf[k])]

Init ==
    /\ state = [e \in Endpoint |-> new_with_initial(e)]
    /\ cmds = <<>>
    /\ phase = [k \in Session |-> "offline"]
    /\ sock = [k \in Session |-> <<>>]
    /\ lines = [k \in Session |-> <<>>]
    /\ pending = [k \in Session |-> NoCmd]
    /\ out = [k \in Session |-> <<>>]
    /\ iq_active = [k \in Session |-> {}]
    /\ requests = 0
    /\ faults = 0
    /\ view = [k \in Session |-> Untold(ServerOf[k])]

\* The task has nothing to do but to send.
Sent(k) == out[k] = <<>> /\ pending[k] = NoCmd

\* Accepted; the rate is read before the first line is sent.
Connect(k) ==
    /\ phase[k] = "offline"
    /\ phase' = [phase EXCEPT ![k] = "handshake"]
    /\ out' = [out EXCEPT ![k] =
                  Handshake(ServerOf[k], state[ServerOf[k]][<<"iq_samplerate", 0, 0>>])]
    /\ UNCHANGED <<state, cmds, sock, lines, pending, iq_active, requests, faults, view>>

\* The handshake is out: the state is read under one read lock.
DumpState(k) ==
    /\ phase[k] = "handshake" /\ Sent(k)
    /\ phase' = [phase EXCEPT ![k] = "dump"]
    /\ out' = [out EXCEPT ![k] = current_state_messages(ServerOf[k])]
    /\ UNCHANGED <<state, cmds, sock, lines, pending, iq_active, requests, faults, view>>

\* The dump is out: subscribe, with no TRX streaming.
Subscribe(k) ==
    /\ phase[k] = "dump" /\ Sent(k)
    /\ phase' = [phase EXCEPT ![k] = "loop"]
    /\ UNCHANGED <<state, cmds, sock, lines, pending, out, iq_active, requests, faults, view>>

\* Line l names parameter p.
About(l, p) ==
    LET n == Indices[p[1]] IN
    l.name = p[1] /\ SubSeq(l.args, 1, n) = SubSeq(<<Num(p[2]), Num(p[3])>>, 1, n)

\* The line of ls that tells a client of parameter p last, if any.
Told(ls, p, old) ==
    LET I == {i \in DOMAIN ls : About(ls[i], p)}
    IN  IF I = {} THEN old ELSE ls[CHOOSE i \in I : \A j \in I : j <= i]

\* The lines are sent.  That is one send after the other, but their contents
\* are settled before the first, and nothing reads what a client was told.
Tell(k) ==
    /\ out[k] # <<>> /\ pending[k] = NoCmd
    /\ view' = [view EXCEPT ![k] = [p \in DOMAIN @ |-> Told(out[k], p, @[p])]]
    /\ out' = [out EXCEPT ![k] = <<>>]
    /\ UNCHANGED <<state, cmds, phase, sock, lines, pending, iq_active, requests, faults>>

\* A send fails: handle_client returns, with whatever it had left to do.
TellFails(k) ==
    /\ out[k] # <<>> \/ phase[k] = "frame"
    /\ pending[k] = NoCmd
    /\ faults < MaxFaults
    /\ faults' = faults + 1
    /\ Closed(k)
    /\ UNCHANGED <<state, cmds, pending, requests>>

-----------------------------------------------------------------------------
(* The event loop; select! takes any branch that is ready. *)

Selecting(k) == phase[k] = "loop" /\ Sent(k) /\ lines[k] = <<>>

\* The client writes a message.
ClientSends(k, m) ==
    /\ phase[k] # "offline"
    /\ sock[k] = <<>>
    /\ requests < MaxRequests
    /\ sock' = [sock EXCEPT ![k] = m]
    /\ requests' = requests + 1
    /\ UNCHANGED <<state, cmds, taskVars, faults, view>>

RecvMessage(k) ==
    /\ Selecting(k) /\ sock[k] # <<>>
    /\ lines' = [lines EXCEPT ![k] = sock[k]]
    /\ sock' = [sock EXCEPT ![k] = <<>>]
    /\ UNCHANGED <<state, cmds, phase, pending, out, iq_active, requests, faults, view>>

\* The client closes the connection, or reading from it fails.
RecvClose(k) ==
    /\ Selecting(k) /\ sock[k] = <<>>
    /\ faults < MaxFaults
    /\ faults' = faults + 1
    /\ Closed(k)
    /\ UNCHANGED <<state, cmds, pending, requests>>

\* An IQ frame of a TRX the client streams is taken from the channel, and sent.
RecvFrame(k) ==
    /\ Selecting(k) /\ iq_active[k] # {}
    /\ phase' = [phase EXCEPT ![k] = "frame"]
    /\ UNCHANGED <<state, cmds, sock, lines, pending, out, iq_active, requests, faults, view>>

SendFrame(k) ==
    /\ phase[k] = "frame"
    /\ phase' = [phase EXCEPT ![k] = "loop"]
    /\ UNCHANGED <<state, cmds, sock, lines, pending, out, iq_active, requests, faults, view>>

-----------------------------------------------------------------------------
(* handle_command. *)

\* The parameters a command sets, or asks for: one, or none if out of range.
Targets(k, c, CmdOf) ==
    {p \in Param[ServerOf[k]] : /\ p[1] \in DOMAIN CmdOf /\ CmdOf[p[1]] = c.cmd
                                /\ p = Addressed(p[1], c.args)}

\* Store under the write lock; the reply repeats the value it was given.
HandleSet(k, c) ==
    LET e == ServerOf[k] IN
    /\ \E p \in Targets(k, c, SetterOf) :
         LET v == SubSeq(c.args, Indices[p[1]] + 1, Len(c.args)) IN
         /\ state' = [state EXCEPT ![e] = Stored(@, p, v)]
         /\ pending' = [pending EXCEPT ![k] = CmdFor(e, p, v)]
         /\ out' = [out EXCEPT ![k] = <<Report(p, v)>>]
    /\ UNCHANGED iq_active

HandleRead(k, c) ==
    /\ \E p \in Targets(k, c, ReaderOf) :
         out' = [out EXCEPT ![k] = <<Report(p, state[ServerOf[k]][p])>>]
    /\ UNCHANGED <<state, pending, iq_active>>

\* IQ_START, IQ_STOP
HandleStream(k, c) ==
    /\ c.cmd \in {"IqStart", "IqStop"} /\ c.args[1] \in Trx(ServerOf[k])
    /\ iq_active' = [iq_active EXCEPT ![k] = IF c.cmd = "IqStart" THEN @ \cup {c.args[1]}
                                                                  ELSE @ \ {c.args[1]}]
    /\ UNCHANGED <<state, pending, out>>

HandleStartStop(k, c) ==
    /\ \/ c.cmd = "Start" /\ out' = [out EXCEPT ![k] = <<Line("start", <<>>)>>]
       \/ c.cmd = "Stop" /\ out' = [out EXCEPT ![k] = <<Line("stop", <<>>)>>]
    /\ UNCHANGED <<state, pending, iq_active>>

\* An unreadable line, an index out of range, or a command without a function.
HandleNothing(k, c) ==
    /\ Targets(k, c, SetterOf) = {} /\ Targets(k, c, ReaderOf) = {}
    /\ c.cmd \notin {"Start", "Stop"}
    /\ c.cmd \in {"IqStart", "IqStop"} => c.args[1] \notin Trx(ServerOf[k])
    /\ UNCHANGED <<state, pending, out, iq_active>>

\* The next line of the message.
HandleLine(k) ==
    /\ phase[k] = "loop" /\ Sent(k) /\ lines[k] # <<>>
    /\ \E c \in {parse_command(Head(lines[k]))} :
         \/ HandleSet(k, c) \/ HandleRead(k, c) \/ HandleStream(k, c)
         \/ HandleStartStop(k, c) \/ HandleNothing(k, c)
    /\ lines' = [lines EXCEPT ![k] = Tail(@)]
    /\ UNCHANGED <<cmds, phase, sock, requests, faults, view>>

\* A plausible slip: the command waits for room.
send_bridge_cmd_waits(k) ==
    /\ pending[k] # NoCmd
    /\ Len(cmds) < CmdCap
    /\ cmds' = Append(cmds, pending[k])
    /\ pending' = [pending EXCEPT ![k] = NoCmd]
    /\ UNCHANGED <<state, phase, sock, lines, out, iq_active, requests, faults, view>>

\* try_send, which drops the command when the channel is full.
send_bridge_cmd(k) ==
    /\ pending[k] # NoCmd
    /\ cmds' = IF Len(cmds) < CmdCap THEN Append(cmds, pending[k]) ELSE cmds
    /\ pending' = [pending EXCEPT ![k] = NoCmd]
    /\ UNCHANGED <<state, phase, sock, lines, out, iq_active, requests, faults, view>>

\* cmd_task takes a command.
BridgeReceives ==
    /\ cmds # <<>>
    /\ cmds' = Tail(cmds)
    /\ UNCHANGED <<state, taskVars, sock, requests, faults, view>>

-----------------------------------------------------------------------------
\* The steps of a session that is not waiting for anybody.
Works(k) ==
    \/ DumpState(k) \/ Subscribe(k) \/ Tell(k) \/ SendFrame(k) \/ send_bridge_cmd(k)
    \/ HandleLine(k)

Next ==
    \/ \E k \in Session : Works(k) \/ Connect(k) \/ TellFails(k)
    \/ \E k \in Session : RecvMessage(k) \/ RecvClose(k) \/ RecvFrame(k)
    \/ \E k \in Session : \E m \in Message[k] : ClientSends(k, m)
    \/ BridgeReceives

Spec == Init /\ [][Next]_vars

(* A session's task runs whenever it can.  select! chooses at random among *)
(* ready branches, so a message that keeps waiting is not passed over for  *)
(* ever by IQ frames.                                                      *)
Fairness == \A k \in Session : WF_vars(Works(k)) /\ SF_vars(RecvMessage(k))

FairSpec == Spec /\ Fairness

-----------------------------------------------------------------------------
(* Properties. *)

\* What the client takes from the last line about p, if it parses as the server.
Known(k, p) ==
    LET args == parse_command(view[k][p]).args IN SubSeq(args, Indices[p[1]] + 1, Len(args))

\* v is a value setters of p can have parsed.
IsValue(p, v) ==
    LET types == TypesOf[SetterOf[p[1]]]
        n     == Indices[p[1]]
    IN  /\ Len(v) = Len(types) - n
        /\ \A i \in DOMAIN v : Fits(Text(v[i], types[n + i]), types[n + i])

TypeOK ==
    /\ \A e \in Endpoint : /\ DOMAIN state[e] = Param[e]
                            /\ \A p \in Param[e] : IsValue(p, state[e][p])
    /\ phase \in [Session -> {"offline", "handshake", "dump", "loop", "frame"}]
    /\ \A k \in Session :
         /\ pending[k] # NoCmd => pending[k].type \in {"Tune", "SetSr", "EnableRx"}
         /\ iq_active[k] \subseteq Trx(ServerOf[k])
         /\ \A p \in Param[ServerOf[k]] : view[k][p] # NoLine => parse_command(view[k][p]).cmd = SetterOf[p[1]]
         /\ phase[k] # "loop" => lines[k] = <<>> /\ pending[k] = NoCmd
    /\ Len(cmds) <= CmdCap

\* A client of session k's endpoint may send a line that sets p.
Sets(k, p) ==
    \E m \in Message[k] : \E i \in DOMAIN m :
        LET c == parse_command(m[i])
        IN  c.cmd = SetterOf[p[1]] /\ Addressed(p[1], c.args) = p

\* What changes p: its setter and, for the centre, that of VFO A.
Changes(k, p) == Sets(k, p) \/ (p[1] = "dds" /\ Sets(k, <<"vfo", p[2], 0>>))

\* What nobody else changes, and k not by way of VFO A.
Own == [k \in Session |-> {p \in Param[ServerOf[k]] :
    /\ \A j \in Session \ {k} : ServerOf[j] = ServerOf[k] => ~Changes(j, p)
    /\ p[1] = "dds" => ~Sets(k, <<"vfo", p[2], 0>>)}]

\* A client that is owed nothing knows every parameter it was ever told that
\* only it changes, whatever lines were malformed or out of range, whatever
\* other clients did and whenever its session began; the centre it moved with
\* VFO A is the exception (server.rs:98-122, 169-195, 217-449).
KnowsItsOwn ==
    \A k \in Session : Selecting(k) => \A p \in Own[k] :
        view[k][p] # NoLine => Known(k, p) = state[ServerOf[k]][p]

\* TRX whose centre nobody sets.
FollowingTrx == [e \in Endpoint |-> {t \in Trx(e) :
    \A k \in Session : ServerOf[k] = e => ~Sets(k, <<"dds", t, 0>>)}]

\* As long as nobody sets the centre, it is the frequency of VFO A, and no new
\* client is shown a half-changed pair: the dump is read under one lock, and
\* both are written under one (server.rs:232-238, state.rs:151).
CenterIsVfoA ==
    \A e \in Endpoint : \A t \in FollowingTrx[e] :
        LET vfo == <<"vfo", t, 0>>
            dds == <<"dds", t, 0>>
        IN  /\ state[e][vfo] = state[e][dds]
            /\ \A k \in Session : ServerOf[k] = e /\ phase[k] = "dump" /\ Sent(k)
                    => Known(k, vfo) = Known(k, dds)

Channels == UNION {{e} \X Trx(e) \X {0, 1} : e \in Endpoint}

\* What the endpoints announce of it.
AnnouncedRate == [e \in Endpoint |-> state[e][<<"iq_samplerate", 0, 0>>][1]]

AnnouncedFreq ==
    [c \in {c \in Channels : VfoOf(c) = 0} |-> state[EndpointOf(c)][<<"vfo", TrxOf(c), 0>>][1]]

Interface == INSTANCE CommandInterface WITH
    Client        <- Session,
    Chan          <- Channels,
    Freq          <- U64,
    Rate          <- U32,
    iq_samplerate <- AnnouncedRate,
    vfo_freq      <- AnnouncedFreq,
    handler       <- pending

\* The servers keep to the interface with the bridge: only VFO A is tuned, to
\* the frequency that was stored, and each accepted line offers at most one
\* command, whether or not the client is still there (server.rs:240-254,
\* 356-361, 405-411, 452-458).
ImplementsInterface == Interface!Spec

\* Every message of a client is taken up and worked off, unless the connection
\* breaks: neither IQ frames nor a bad line hold it up (server.rs:132-195).
MessagesServed ==
    \A k \in Session :
        sock[k] # <<>> ~> (Selecting(k) /\ sock[k] = <<>>) \/ phase[k] = "offline"

-----------------------------------------------------------------------------
(* What the protocol promises and the code does not keep. *)

\* docs/tci-protocol.txt:188-191: a new state is sent to all clients; the
\* clients are synchronized.
Synchronized ==
    (\A k \in Session : phase[k] # "offline" => Selecting(k) /\ sock[k] = <<>>) =>
        \A k \in Session : \A p \in Param[ServerOf[k]] :
            view[k][p] # NoLine => Known(k, p) = state[ServerOf[k]][p]

\* main.rs:230-232: the IF limits are half the rate to either side, for a
\* client that is told less renders only a part of what it gets.
LimitsMatchRate ==
    \A k \in Session : \A i, j \in DOMAIN out[k] :
        out[k][i].name = "if_limits" /\ out[k][j].name = "iq_samplerate" =>
            out[k][i].args[2] = Num(out[k][j].args[1].val \div 2)
=================================================================================
