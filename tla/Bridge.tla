-------------------------------- MODULE Bridge --------------------------------
(***************************************************************************)
(* The control plane of ka9q-tci: what happens between a TCI client that   *)
(* tunes a VFO or changes the IQ sample rate and the radiod channel that   *)
(* has to follow.                                                          *)
(*                                                                         *)
(* Actors, one atomic step per lock section, channel operation or send:    *)
(*   main             queues the configured frequencies, then starts the   *)
(*                    bridge (main.rs); the TCI servers already run;       *)
(*   client sessions  handle_command writes SharedState, releases the lock *)
(*                    and only then try_sends a BridgeCmd (server.rs);     *)
(*   cmd_task         the single consumer of the command channel, running  *)
(*                    dispatch_cmd one await point at a time (bridge.rs);  *)
(*   status_task      folds STATUS packets into the SsrcTable (bridge.rs); *)
(*   radiod           external: applies COMMANDs, answers POLLs with       *)
(*                    STATUS, may restart and lose its channels.           *)
(***************************************************************************)
EXTENDS SsrcTable, Sequences

CONSTANTS
    Endpoint,          \* indices of `states`: the endpoints this run serves
    Chan,              \* channels <<endpoint, trx, vfo>> that can exist in radiod
    Tuner,             \* client sessions that send VFO
    RateSetter,        \* client sessions that send IQ_SAMPLERATE
    Enabler,           \* client sessions that send RX_CHANNEL_ENABLE
    ServerOf,          \* endpoint a session is connected to
    Rate,              \* IQ sample rates
    RatesOf,           \* rates the clients of an endpoint ask for
    InitRate,          \* iq_samplerate of an endpoint at start
    InitFreq,          \* VFO A frequency at start
    InitialTunes,      \* channels the configuration tunes at start, in its order
    Preset,            \* names of ka9q-radio presets
    PresetMap,         \* --preset-map: a partial function from rates to presets
    DefaultPreset,     \* --default-preset
    NoPreset,          \* a COMMAND without a PRESET field
    DefaultConfig,     \* radiod's own mode for a channel no PRESET reached
    GroupFor,          \* data group radiod uses for a mode (NoGroup: not IPv4)
    Leftover,          \* channels alive in radiod from an earlier run (LIFETIME 0)
    LifetimeRequired,  \* radiod ignores a PRESET that comes without LIFETIME
    CmdCap,            \* capacity of the command channel
    StatusCap,         \* capacity of the STATUS channel
    MaxRequests,       \* bound: requests the clients make in total
    MaxFaults          \* bound: lost datagrams, failed sends, radiod restarts

Client == Tuner \cup RateSetter \cup Enabler

\* Only VFO A of a served endpoint is ever tuned by a session.
Tunable == {c \in Chan : EndpointOf(c) \in Endpoint /\ VfoOf(c) = 0}

ASSUME BridgeAssumption ==
    /\ ServerOf \in [Client -> Endpoint]
    /\ RatesOf \in [Endpoint -> SUBSET Rate]
    /\ InitRate \in [Endpoint -> Rate]
    /\ \A e \in Endpoint : InitRate[e] \in RatesOf[e]
    /\ InitFreq \in Freq
    /\ InitialTunes \in Seq(Tunable)
    /\ PresetMap \in [DOMAIN PresetMap -> Preset]
    /\ DefaultPreset \in Preset
    /\ NoPreset \notin Preset \cup {DefaultConfig}
    /\ DefaultConfig \notin Preset
    /\ GroupFor \in [Preset \cup {DefaultConfig} -> Group \cup {NoGroup}]
    /\ Leftover \subseteq Chan
    /\ LifetimeRequired \in BOOLEAN
    /\ CmdCap \in Nat \ {0}
    /\ StatusCap \in Nat \ {0}
    /\ MaxRequests \in Nat
    /\ MaxFaults \in Nat

VARIABLES
    iq_samplerate,  \* SharedState.iq_samplerate of each endpoint
    vfo_freq,       \* SharedState.trx[t].vfo[0].freq_hz of each tunable channel
    initial,        \* Tunes main has still to queue before it starts the bridge
    handler,        \* the BridgeCmd a session has still to try_send
    cmds,           \* the mpsc channel of BridgeCmds
    pc,             \* await point of cmd_task
    cur,            \* the BridgeCmd being dispatched
    preset,         \* local of dispatch_cmd
    needs_create,   \* local of the Tune arm
    snapshot,       \* local of the SetSr arm: channels still to re-tune, with frequency
    table,          \* the SsrcTable
    statuses,       \* STATUS packets on their way to status_task
    radiod,         \* the channels as radiod runs them
    requests,       \* client requests so far, for MaxRequests
    faults          \* faults so far, for MaxFaults

(* History: no action of the program reads these. *)
VARIABLES
    commanded,      \* last PRESET and RADIO_FREQUENCY handed to the socket, per channel
    lost_sr,        \* endpoints whose last SetSr was dropped
    lost_tune,      \* channels whose last Tune was dropped or failed
    missed          \* channels the last SetSr of their endpoint did not reach

clientVars == <<iq_samplerate, vfo_freq, handler, requests>>
taskVars   == <<pc, cur, preset, needs_create, snapshot>>
radioVars  == <<radiod, faults>>
lost       == <<lost_sr, lost_tune>>
history    == <<commanded, lost, missed>>
vars == <<clientVars, initial, cmds, taskVars, table, statuses, radioVars, history>>

-----------------------------------------------------------------------------
TuneCmd  == [type : {"Tune"}, ssrc : Tunable, freq_hz : Freq]
SetSrCmd == [type : {"SetSr"}, endpoint : Endpoint, samprate : Rate]
EnableRxCmd == [type : {"EnableRx"}, ssrc : Chan, enable : BOOLEAN]
Cmd      == TuneCmd \cup SetSrCmd \cup EnableRxCmd

Status == [ssrc : Chan, freq_hz : Freq \cup {NoFreq}, data_group : Group \cup {NoGroup}]

RadiodChannel == [up : BOOLEAN, freq_hz : Freq \cup {NoFreq},
                  preset : Preset \cup {DefaultConfig}]

NoRadiodChannel == [up |-> FALSE, freq_hz |-> NoFreq, preset |-> DefaultConfig]

NothingCommanded == [preset |-> NoPreset, freq_hz |-> NoFreq]

EmptySnapshot == [c \in {} |-> NoFreq]

\* preset_map.get(rate), or the default preset for a rate that is not mapped.
PresetFor(rate) == IF rate \in DOMAIN PresetMap THEN PresetMap[rate] ELSE DefaultPreset

Init ==
    /\ iq_samplerate = InitRate
    /\ vfo_freq = [c \in Tunable |-> InitFreq]
    /\ initial = [i \in DOMAIN InitialTunes |-> Tune(InitialTunes[i], InitFreq)]
    /\ handler = [k \in Client |-> NoCmd]
    /\ cmds = <<>>
    /\ pc = "recv"
    /\ cur = NoCmd
    /\ preset = DefaultPreset
    /\ needs_create = FALSE
    /\ snapshot = EmptySnapshot
    /\ table = EmptyTable
    /\ statuses = <<>>
    /\ radiod = [c \in Chan |-> IF c \in Leftover
                                THEN [NoRadiodChannel EXCEPT !.up = TRUE, !.freq_hz = InitFreq]
                                ELSE NoRadiodChannel]
    /\ requests = 0
    /\ faults = 0
    /\ commanded = [c \in Chan |-> NothingCommanded]
    /\ lost_sr = {}
    /\ lost_tune = {}
    /\ missed = {}

-----------------------------------------------------------------------------
(* main: cmd_tx.send(cmd).await, which waits while the channel is full.    *)
(* bridge::run is only polled once all of them are queued.                 *)
SendInitialTune ==
    /\ initial # <<>>
    /\ Len(cmds) < CmdCap
    /\ cmds' = Append(cmds, Head(initial))
    /\ initial' = Tail(initial)
    /\ UNCHANGED <<clientVars, taskVars, table, statuses, radioVars, history>>

BridgeRunning == initial = <<>>

-----------------------------------------------------------------------------
(* Client sessions.  A session reads its next message only when the        *)
(* handler of the previous one has returned.                               *)

\* VFO:trx,0,freq; first half: SharedState under the write lock.
SetVfo(k, c, f) ==
    /\ requests < MaxRequests
    /\ handler[k] = NoCmd
    /\ EndpointOf(c) = ServerOf[k]
    /\ vfo_freq' = [vfo_freq EXCEPT ![c] = f]
    /\ handler' = [handler EXCEPT ![k] = Tune(c, f)]
    /\ requests' = requests + 1
    /\ UNCHANGED <<iq_samplerate, initial, cmds, taskVars, table, statuses, radioVars, history>>

\* IQ_SAMPLERATE:rate; first half: SharedState under the write lock.
SetSamplerate(k, r) ==
    LET e == ServerOf[k] IN
    /\ requests < MaxRequests
    /\ handler[k] = NoCmd
    /\ r \in RatesOf[e]
    /\ iq_samplerate' = [iq_samplerate EXCEPT ![e] = r]
    /\ handler' = [handler EXCEPT ![k] = SetSr(e, r)]
    /\ requests' = requests + 1
    /\ UNCHANGED <<vfo_freq, initial, cmds, taskVars, table, statuses, radioVars, history>>

\* RX_CHANNEL_ENABLE:trx,channel,on, for either VFO; the `enabled` flag it stores is
\* read by no other part of the control plane.
SetRxEnable(k, c, on) ==
    /\ requests < MaxRequests
    /\ handler[k] = NoCmd
    /\ EndpointOf(c) = ServerOf[k]
    /\ handler' = [handler EXCEPT ![k] = EnableRx(c, on)]
    /\ requests' = requests + 1
    /\ UNCHANGED <<iq_samplerate, vfo_freq, initial, cmds, taskVars, table, statuses, radioVars, history>>

\* Second half of the handlers: try_send, which drops the command when the
\* channel is full.
send_bridge_cmd(k) ==
    LET cmd == handler[k]
        full == Len(cmds) >= CmdCap
        Dropped(L, x) == IF full THEN L \cup {x} ELSE L \ {x}
    IN
    /\ cmd # NoCmd
    /\ cmds' = IF full THEN cmds ELSE Append(cmds, cmd)
    /\ lost_sr' = IF cmd.type = "SetSr" THEN Dropped(lost_sr, cmd.endpoint) ELSE lost_sr
    /\ lost_tune' = IF cmd.type = "Tune" THEN Dropped(lost_tune, cmd.ssrc) ELSE lost_tune
    /\ handler' = [handler EXCEPT ![k] = NoCmd]
    /\ UNCHANGED <<iq_samplerate, vfo_freq, requests, initial, taskVars, table, statuses,
                   radioVars, commanded, missed>>

-----------------------------------------------------------------------------
(* radiod and the network.  A COMMAND either reaches radiod in the order   *)
(* it was sent or is lost; how long it travels makes no difference, since  *)
(* a STATUS radiod emits meanwhile can wait in `statuses` just as long.    *)

Applied(ch, p, f, lifetime) ==
    [up |-> TRUE, freq_hz |-> f,
     preset |-> IF p # NoPreset /\ (lifetime \/ ~LifetimeRequired) THEN p ELSE ch.preset]

\* ControlClient::send_command returned Ok for channel c.
send_command(c, p, f, lifetime) ==
    /\ commanded' = [commanded EXCEPT ![c] =
                        [preset |-> IF p = NoPreset THEN commanded[c].preset ELSE p,
                         freq_hz |-> f]]
    /\ missed' = IF p = NoPreset THEN missed ELSE missed \ {c}
    /\ \/ /\ radiod' = [radiod EXCEPT ![c] = Applied(radiod[c], p, f, lifetime)]
          /\ UNCHANGED faults
       \/ /\ faults < MaxFaults
          /\ faults' = faults + 1
          /\ UNCHANGED radiod

\* radiod answers a POLL (or announces by itself) with the state of a channel;
\* a packet that finds the STATUS channel full, or is lost, leaves no trace.
RadiodStatus(c) ==
    /\ BridgeRunning
    /\ radiod[c].up
    /\ Len(statuses) < StatusCap
    /\ statuses' = Append(statuses, [ssrc |-> c, freq_hz |-> radiod[c].freq_hz,
                                     data_group |-> GroupFor[radiod[c].preset]])
    /\ UNCHANGED <<clientVars, initial, cmds, taskVars, table, radioVars, history>>

RadiodRestart ==
    /\ faults < MaxFaults
    /\ \E c \in Chan : radiod[c].up
    /\ radiod' = [c \in Chan |-> NoRadiodChannel]
    /\ faults' = faults + 1
    /\ UNCHANGED <<clientVars, initial, cmds, taskVars, table, statuses, history>>

\* status_task: one STATUS folded into the table.
StatusTask ==
    /\ statuses # <<>>
    /\ table' = update_from_status(table, Head(statuses))
    /\ statuses' = Tail(statuses)
    /\ UNCHANGED <<clientVars, initial, cmds, taskVars, radioVars, history>>

-----------------------------------------------------------------------------
(* cmd_task, Tune arm. *)

\* A plausible slip: the newest command overtakes the older ones.
RecvNewestTune ==
    LET n == Len(cmds) IN
    /\ pc = "recv"
    /\ BridgeRunning
    /\ cmds # <<>>
    /\ cmds[n].type = "Tune"
    /\ cur' = cmds[n]
    /\ cmds' = SubSeq(cmds, 1, n - 1)
    /\ pc' = "tune_rate"
    /\ UNCHANGED <<clientVars, initial, preset, needs_create, snapshot, table, statuses,
                   radioVars, history>>

RecvTune ==
    /\ pc = "recv"
    /\ BridgeRunning
    /\ cmds # <<>>
    /\ Head(cmds).type = "Tune"
    /\ cur' = Head(cmds)
    /\ cmds' = Tail(cmds)
    /\ pc' = "tune_rate"
    /\ UNCHANGED <<clientVars, initial, preset, needs_create, snapshot, table, statuses,
                   radioVars, history>>

\* A plausible slip: the preset comes from the start-up rate (default_samprate).
TuneReadInitialRate ==
    /\ pc = "tune_rate"
    /\ preset' = PresetFor(InitRate[EndpointOf(cur.ssrc)])
    /\ pc' = "tune_lock"
    /\ UNCHANGED <<clientVars, initial, cmds, cur, needs_create, snapshot, table, statuses,
                   radioVars, history>>

\* *state.iq_samplerate.read().await, then the preset for it.
TuneReadRate ==
    /\ pc = "tune_rate"
    /\ preset' = PresetFor(iq_samplerate[EndpointOf(cur.ssrc)])
    /\ pc' = "tune_lock"
    /\ UNCHANGED <<clientVars, initial, cmds, cur, needs_create, snapshot, table, statuses,
                   radioVars, history>>

\* A plausible slip: the channel counts as created before its PRESET is sent.
TuneLockMarks ==
    LET t == get_or_insert(table, cur.ssrc) IN
    /\ pc = "tune_lock"
    /\ table' = mark_created(t, cur.ssrc)
    /\ needs_create' = ~t[cur.ssrc].created
    /\ pc' = "tune_send"
    /\ UNCHANGED <<clientVars, initial, cmds, cur, preset, snapshot, statuses, radioVars, history>>

\* First lock section: the entry exists from here on; is a PRESET needed?
TuneLock ==
    LET t == get_or_insert(table, cur.ssrc) IN
    /\ pc = "tune_lock"
    /\ table' = t
    /\ needs_create' = ~t[cur.ssrc].created
    /\ pc' = "tune_send"
    /\ UNCHANGED <<clientVars, initial, cmds, cur, preset, snapshot, statuses, radioVars, history>>

TuneSend ==
    /\ pc = "tune_send"
    /\ send_command(cur.ssrc, IF needs_create THEN preset ELSE NoPreset, cur.freq_hz, TRUE)
    /\ pc' = IF needs_create THEN "tune_mark" ELSE "recv"
    /\ UNCHANGED <<clientVars, initial, cmds, cur, preset, needs_create, snapshot, table,
                   statuses, lost>>

\* send_command failed: dispatch_cmd returns before mark_created.
TuneSendFails ==
    /\ pc = "tune_send"
    /\ faults < MaxFaults
    /\ faults' = faults + 1
    /\ pc' = "recv"
    /\ lost_tune' = lost_tune \cup {cur.ssrc}
    /\ UNCHANGED <<clientVars, initial, cmds, cur, preset, needs_create, snapshot, table,
                   statuses, radiod, commanded, lost_sr, missed>>

\* Second lock section, after a COMMAND with PRESET.
TuneMark ==
    /\ pc = "tune_mark"
    /\ table' = mark_created(table, cur.ssrc)
    /\ pc' = "recv"
    /\ UNCHANGED <<clientVars, initial, cmds, cur, preset, needs_create, snapshot, statuses,
                   radioVars, history>>

-----------------------------------------------------------------------------
(* cmd_task, SetSr arm. *)

RecvSetSr ==
    /\ pc = "recv"
    /\ BridgeRunning
    /\ cmds # <<>>
    /\ Head(cmds).type = "SetSr"
    /\ cur' = Head(cmds)
    /\ cmds' = Tail(cmds)
    /\ preset' = PresetFor(Head(cmds).samprate)
    /\ pc' = "setsr_lock"
    /\ UNCHANGED <<clientVars, initial, needs_create, snapshot, table, statuses, radioVars, history>>

\* A plausible slip: the endpoint is left out of the filter.
AllTunedChannels(e) == {c \in DOMAIN table : table[c].freq_hz # NoFreq}

\* A plausible slip: channels without a reported frequency are not left out.
UntunedChannels(e) == {c \in DOMAIN table : EndpointOf(c) = e}

\* Channels of the endpoint whose frequency a STATUS has reported.
TunedChannels(e) ==
    {c \in DOMAIN table : EndpointOf(c) = e /\ table[c].freq_hz # NoFreq}

\* One lock section takes the snapshot and invalidates what it contains.
SetSrLock ==
    LET e == cur.endpoint
        C == TunedChannels(e)
    IN
    /\ pc = "setsr_lock"
    /\ snapshot' = [c \in C |-> table[c].freq_hz]
    /\ table' = invalidate(table, C)
    /\ pc' = IF C = {} THEN "recv" ELSE "setsr_send"
    /\ missed' = missed \cup {c \in Chan \ C : /\ EndpointOf(c) = e
                                               /\ commanded[c].preset # NoPreset}
    /\ UNCHANGED <<clientVars, initial, cmds, cur, preset, needs_create, statuses, radioVars,
                   commanded, lost>>

\* One COMMAND of the loop, without LIFETIME; HashMap order is arbitrary.
SetSrSend(c) ==
    /\ pc = "setsr_send"
    /\ c \in DOMAIN snapshot
    /\ send_command(c, preset, snapshot[c], FALSE)
    /\ snapshot' = [d \in DOMAIN snapshot \ {c} |-> snapshot[d]]
    /\ pc' = IF DOMAIN snapshot = {c} THEN "recv" ELSE "setsr_send"
    /\ UNCHANGED <<clientVars, initial, cmds, cur, preset, needs_create, table, statuses, lost>>

\* A plausible slip: the error leaves the loop of the task, not the command.
SetSrFailureEndsTask ==
    /\ pc = "setsr_send"
    /\ faults < MaxFaults
    /\ faults' = faults + 1
    /\ snapshot' = EmptySnapshot
    /\ missed' = missed \cup DOMAIN snapshot
    /\ UNCHANGED <<clientVars, initial, cmds, cur, preset, needs_create, pc, table, statuses,
                   radiod, commanded, lost>>

\* send_command failed: the rest of the snapshot is abandoned.
SetSrSendFails ==
    /\ pc = "setsr_send"
    /\ faults < MaxFaults
    /\ faults' = faults + 1
    /\ snapshot' = EmptySnapshot
    /\ pc' = "recv"
    /\ missed' = missed \cup DOMAIN snapshot
    /\ UNCHANGED <<clientVars, initial, cmds, cur, preset, needs_create, table, statuses, radiod,
                   commanded, lost>>

-----------------------------------------------------------------------------
\* cmd_task, EnableRx arm: nothing but a log line.
RecvEnableRx ==
    /\ pc = "recv"
    /\ BridgeRunning
    /\ cmds # <<>>
    /\ Head(cmds).type = "EnableRx"
    /\ cmds' = Tail(cmds)
    /\ UNCHANGED <<clientVars, initial, taskVars, table, statuses, radioVars, history>>

-----------------------------------------------------------------------------
CmdTask ==
    \/ RecvTune \/ TuneReadRate \/ TuneLock \/ TuneSend \/ TuneSendFails \/ TuneMark
    \/ RecvSetSr \/ SetSrLock \/ SetSrSendFails \/ RecvEnableRx
    \/ \E c \in Chan : SetSrSend(c)

Next ==
    \/ SendInitialTune
    \/ \E k \in Tuner, c \in Tunable, f \in Freq : SetVfo(k, c, f)
    \/ \E k \in RateSetter, r \in Rate : SetSamplerate(k, r)
    \/ \E k \in Enabler, c \in Chan, on \in BOOLEAN : SetRxEnable(k, c, on)
    \/ \E k \in Client : send_bridge_cmd(k)
    \/ CmdTask
    \/ StatusTask
    \/ \E c \in Chan : RadiodStatus(c)
    \/ RadiodRestart

Spec == Init /\ [][Next]_vars

(* A session never blocks on try_send and the two tasks run for ever, so   *)
(* each is weakly fair; the POLL timer keeps asking, so no up channel goes *)
(* unreported for ever.  Clients and faults owe nothing.                   *)
Fairness ==
    /\ WF_vars(SendInitialTune)
    /\ \A k \in Client : WF_vars(send_bridge_cmd(k))
    /\ WF_vars(CmdTask)
    /\ WF_vars(StatusTask)
    /\ \A c \in Chan : SF_vars(RadiodStatus(c))

FairSpec == Spec /\ Fairness

-----------------------------------------------------------------------------
(* Properties. *)

TypeOK ==
    /\ iq_samplerate \in [Endpoint -> Rate]
    /\ vfo_freq \in [Tunable -> Freq]
    /\ initial \in Seq(TuneCmd)
    /\ handler \in [Client -> Cmd \cup {NoCmd}]
    /\ cmds \in Seq(Cmd)
    /\ pc \in {"recv", "tune_rate", "tune_lock", "tune_send", "tune_mark",
               "setsr_lock", "setsr_send"}
    /\ cur \in Cmd \cup {NoCmd}
    /\ pc \in {"tune_rate", "tune_lock", "tune_send", "tune_mark"} => cur \in TuneCmd
    /\ pc \in {"setsr_lock", "setsr_send"} => cur \in SetSrCmd
    /\ preset \in Preset
    /\ needs_create \in BOOLEAN
    /\ DOMAIN snapshot \subseteq Chan
    /\ snapshot \in [DOMAIN snapshot -> Freq]
    /\ DOMAIN table \subseteq Chan
    /\ table \in [DOMAIN table -> ChannelInfo]
    /\ statuses \in Seq(Status)
    /\ radiod \in [Chan -> RadiodChannel]
    /\ commanded \in [Chan -> [preset : Preset \cup {NoPreset}, freq_hz : Freq \cup {NoFreq}]]
    /\ lost_sr \subseteq Endpoint
    /\ lost_tune \subseteq Tunable
    /\ missed \subseteq Chan
    /\ requests \in Nat
    /\ faults \in Nat

\* Nothing asked for is still on its way to radiod.
Quiet == initial = <<>> /\ pc = "recv" /\ cmds = <<>> /\ \A k \in Client : handler[k] = NoCmd

Commanded(c) == commanded[c].freq_hz # NoFreq

\* The bridge never tunes a channel it has not sent a PRESET for, however
\* STATUS packets interleave with the two lock sections of a Tune: a leftover
\* channel that radiod reports is still re-created by the first Tune
\* (update_from_status and mark_created, bridge.rs:152-158).
NoBareTune == \A c \in Chan : Commanded(c) => commanded[c].preset # NoPreset

Interface == INSTANCE CommandInterface

\* The bridge and the sessions keep to the interface between them: commands
\* are dispatched in the order they were queued, each once, and a session
\* offers what it stored (server.rs:228-254, 404-412, 452-458, bridge.rs:386-403).
ImplementsInterface == Interface!Spec

\* Until the loop of a SetSr has re-tuned a channel of its snapshot, the
\* channel stays invalidated, whatever STATUS packets say meanwhile: if the
\* loop stops on an error, the next Tune of every channel it did not reach
\* sends the PRESET (bridge.rs:580-599, 620).
AbandonedIsRecreated ==
    pc = "setsr_send" => \A c \in DOMAIN snapshot : ~table[c].created

\* A channel runs only on presets for rates its own endpoint's clients asked
\* for: a SetSr never reaches another endpoint (bridge.rs:574-578).
EndpointIsolation ==
    \A c \in Chan : commanded[c].preset # NoPreset =>
        /\ EndpointOf(c) \in Endpoint
        /\ commanded[c].preset \in {PresetFor(r) : r \in RatesOf[EndpointOf(c)]}

\* With at most one session per endpoint that changes the rate, a race between
\* its IQ_SAMPLERATE and anybody's VFO always ends with the last PRESET being
\* the one for the endpoint's rate, unless that SetSr was dropped, or did not
\* reach the channel because a send failed or no STATUS had reported the
\* channel's frequency yet (bridge.rs:370-380).
RateAgreement ==
    Quiet => \A c \in Chan :
        commanded[c].preset # NoPreset /\ EndpointOf(c) \notin lost_sr /\ c \notin missed
            => commanded[c].preset = PresetFor(iq_samplerate[EndpointOf(c)])

\* All Tunes of c come from one session, or all from the configuration.
OneSourceOfTunes(c) ==
    LET T == {k \in Tuner : ServerOf[k] = EndpointOf(c)} IN
    /\ \A j, k \in T : j = k
    /\ T # {} => \A i \in DOMAIN InitialTunes : InitialTunes[i] # c

RateIsFixed(e) == \A k \in RateSetter : ServerOf[k] # e

\* A channel that only one session tunes, on an endpoint whose rate nobody
\* changes, is last told the frequency the TCI state shows, unless that Tune
\* was dropped or failed: neither the order of the queue nor a SetSr of another
\* endpoint, which re-tunes channels to what STATUS reported last, gets in the
\* way (server.rs:228-254, bridge.rs:464-622).
FreqAgreement ==
    Quiet => \A c \in Tunable :
        OneSourceOfTunes(c) /\ RateIsFixed(EndpointOf(c)) /\ Commanded(c) /\ c \notin lost_tune
            => commanded[c].freq_hz = vfo_freq[c]

\* The dispatcher gets through everything that was queued: no await point,
\* failed send or empty snapshot leaves it stuck (bridge.rs:386-403).
WorkDrains == <>[]Quiet

\* Whatever stale packets were queued, and whatever a SetSr invalidated, the
\* table ends up with what radiod runs (bridge.rs:328-340, 344-368).
TableConverges ==
    <>[](\A c \in Chan : radiod[c].up =>
            /\ c \in DOMAIN table
            /\ table[c].freq_hz = radiod[c].freq_hz
            /\ GroupFor[radiod[c].preset] # NoGroup
                   => table[c].data_group = GroupFor[radiod[c].preset])

-----------------------------------------------------------------------------
(* What comments of the repository promise and the code does not keep. *)

\* bridge.rs:75: `created` is true once a STATUS has confirmed the channel.
CreatedIsConfirmed ==
    \A c \in DOMAIN table : table[c].created => table[c].freq_hz # NoFreq

\* bridge.rs:755-758: the active preset and the announced iq_samplerate
\* coincide by construction.
RunsAnnouncedRate ==
    Quiet => \A c \in Chan : commanded[c].preset # NoPreset /\ radiod[c].up
                => radiod[c].preset = PresetFor(iq_samplerate[EndpointOf(c)])

\* main.rs:261-265: the bridge starts in parallel and empties the channel, so
\* main, at worst, waits until there is room for the remaining initial Tunes.
StartUpEnds == <>BridgeRunning

\* main.rs:197-202: the frequency in the TCI state and the one radiod runs are
\* never silently out of step, once radiod has been told one.
RunsAnnouncedFreq ==
    Quiet => \A c \in Tunable : Commanded(c) /\ radiod[c].up
                => radiod[c].freq_hz = vfo_freq[c]

\* bridge.rs:501-507: a channel the bridge tunes does not fall back to
\* radiod's default configuration.
NeverOnDefaultConfig ==
    Quiet => \A c \in Chan : Commanded(c) /\ radiod[c].up
                => radiod[c].preset # DefaultConfig
=============================================================================
