# A verification of ka9q-tci

`ka9q-tci` puts TCI clients (WebSocket, Expert Electronics' protocol) in front of
ka9q-radio's `radiod` (TLV over UDP multicast for control, RTP for samples). This
directory holds TLA+ models of the program, the TLC configurations that check them
on small instances, and proofs that TLAPS checks for all values of the constants.
Paths below are relative to `src/`; `bridge.rs:592` means `src/src/bridge.rs` line 592.

Contents: 1 the system, 2 the modules, 3 the runs, 4 fairness, 5 the proofs,
6 what the code does not keep, 7 what is not modelled, 8 the plan.

## 1. The system

| component | state | operations | talks to |
|---|---|---|---|
| start-up (`main.rs`) | the resolved endpoints, one `SharedState` per endpoint, the initial Tunes | resolve, spawn servers, queue initial Tunes, start the bridge | servers, command channel |
| TCI server and sessions (`tci/server.rs`, `tci/state.rs`) | per endpoint `SharedState` (iq_samplerate, trx, vfo, ...); per session the IQ cursor and the set of TRX with IQ on | `handle_client`: handshake, state dump, subscription, then messages and IQ frames in turn; `handle_command` | `SharedState` behind `RwLock`s, the command channel (`try_send`), the endpoint's `iq_tx` broadcast |
| bridge, control plane (`bridge.rs:280-420, 464-636`) | `SsrcTable` behind a mutex, the command channel of 64 | `cmd_task` / `dispatch_cmd` (Tune, SetSr, EnableRx), `status_task`, `poll_task` | `ControlClient`, `SharedState` |
| `SsrcTable` and SSRC encoding (`bridge.rs:26-232`) | `by_ssrc`: freq_hz, data_group, created, ... | `get_or_insert`, `update_from_status`, `mark_created`, `invalidate`, `iter` | all bridge tasks |
| bridge, data plane (`bridge.rs:638-800`) | `joined`: a task per multicast group | `rtp_manager` tick, `rtp_ingest` | sockets, `SsrcTable`, `iq_samplerate`, `iq_tx` |
| `ControlClient` (`radiod/control.rs`) | tag counter, STATUS channel | `send_command`, `poll`, receive loop | UDP multicast |
| codecs (`radiod/tlv.rs`, `radiod/rtp.rs`, `tci/protocol.rs`) | none | parse, build | sessions, `ControlClient`, `rtp_ingest` |
| multicast (`radiod/multicast.rs`) | none | resolve, join, bind | the kernel |
| configuration (`config.rs`, `config_file.rs`) | none | clap, serde, precedence | start-up |

**What is hard here.** Nothing in the program is atomic across an `await`. A handler
writes `SharedState`, releases the lock and then queues a command, into a channel
that may be full (`server.rs:228-254, 404-412, 455-462`). `dispatch_cmd` reads the
rate, takes the table lock, releases it, sends a datagram and takes the lock again
(`bridge.rs:464-550`), while `status_task` folds STATUS packets, possibly of before
the last COMMAND, into the same entries. A SetSr re-tunes a snapshot one `await` at a
time and gives up at the first error (`bridge.rs:580-622`). Commands and STATUS
packets are UDP: a lost create is never noticed. radiod outlives the program and
keeps its channels (LIFETIME 0), so the table meets channels of earlier runs and of
removed endpoints; radiod may also restart. Ingest tasks of several groups publish to
one broadcast channel that overwrites what slow sessions have not read. A session greets
its client over a dozen awaits while other sessions write the same state, and one task
serves both its client's messages and a stream of frames. On the wire, lengths and
integers change their form with their value, `ControlClient` hears its own COMMANDs, and
anyone in the multicast group may send what does not decode.

**What makes each part correct.**

* Control plane: a channel is never tuned before a PRESET was sent for it; the last
  PRESET sent to it is the one for its endpoint's rate; the last frequency sent is
  the one clients were told; a rate change stays in its endpoint; whatever a failure
  interrupts is repaired by the next command; everything queued is dispatched; the
  table converges to what radiod runs.
* Sessions: what only a client itself changes it always knows; the centre of a TRX is where
  VFO A is; the bridge is told what was stored; a client's messages are served whatever
  streams meanwhile.
* Wire: radiod reads what was meant, under a tag of its own; of what the group carries only
  true fields of STATUS packets reach the table; a frame holds the samples of its packet.
* Identification: every announced TRX owns one SSRC and one SSRC leads to one TRX.
* Data plane: a frame reaches only clients of its endpoint, under its TRX; streams are
  never mixed; one task's packets stay in order and unique through lags; a group that
  is used is eventually tried; nothing the program accepts is stuck.

`PROJECT.json` lists the hazards of the code line by line with the properties that
watch them.

## 2. The modules

    SsrcTable <-- Bridge <--- MCBridge            CommandInterface <.. Bridge, TciServer
        ^                                         IqDelivery       <.. DataPlane
        |
    DataPlane <-- MCDataPlane                     TciProtocol <-- TciServer <-- MCTciServer
        |
        v                                         TlvCodec <-- ControlClient <-.
    Ssrc <------- StartUp <--- MCStartUp                       RtpIngest <----- MCWire

    SsrcTableProofs <-- BridgeProofs, DataPlaneProofs
    SsrcProofs      <-- DataPlaneProofs, StartUpProofs
    SequenceLemmas  <-- TciServerProofs, WireProofs (ControlClient, TlvCodec, RtpIngest)

A solid arrow goes to the module that is extended, a dotted one to the abstract
specification that is implemented; a proof module extends the module it is about too.
`Bridge`, `CommandInterface` and `TciServer` share `BridgeCmd`, the commands themselves.

**How the parts compose.** Servers and bridge meet in the command channel.
`CommandInterface` says what they may expect of each other there; `Bridge` is checked and
proved to implement it with clients reduced to their writes, `TciServer` with the bridge
reduced to a reader. Radiod and clients meet in the data
plane, whose promise is `IqDelivery`. `MCWire` runs the bytes of both sockets.

**`SsrcTable`**: the table as pure operators. A table is a function from the known
channels to `ChannelInfo`; each operator is one method of `bridge.rs:99-232`.
`samprate` is left out because nothing reads it.

**`Ssrc`**: `ssrc_encode` and `ssrc_decode` on numbers (`bridge.rs:26-61`).

**`Bridge`**: the control plane. A channel is the triple `<<endpoint, trx, vfo>>` its
SSRC encodes; `SsrcProofs` and `StartUpProofs` say when this is sound. Correspondence:

* `SendInitialTune` is the loop at `main.rs:267-270`; `BridgeRunning` says that
  `bridge::run` is polled only after it (`main.rs:279-301`).
* `SetVfo`, `SetSamplerate`, `SetRxEnable` are the parts of `handle_command` under the
  write lock; `send_bridge_cmd` is the `try_send` after it. A session handles one
  message at a time, hence the guard on `handler[k]`.
* `pc` is the await point of `cmd_task`: `RecvTune`, `TuneReadRate`, `TuneLock`,
  `TuneSend` or `TuneSendFails`, `TuneMark`; `RecvSetSr`, `SetSrLock`, `SetSrSend(c)`
  or `SetSrSendFails`; `RecvEnableRx`. A lock section is one step, a send is one step.
* `StatusTask` is `bridge.rs:344-368`; `RadiodStatus`, `RadiodRestart` and the effect of
  `send_command` on `radiod` are the environment.
* `commanded`, `lost_sr`, `lost_tune` and `missed` are history: what the last COMMANDs
  said and which requests are known to have been dropped. No action reads them.

What a COMMAND does to radiod is assumed: frequency always, PRESET if present (if
`LifetimeRequired`, only together with LIFETIME, as `bridge.rs:503-505` says), applied in
order of sending or lost. A STATUS reports what radiod runs when it is sent.

**`CommandInterface`**: a session stores a value and, later, offers the command with that
value; the channel is a bounded queue that refuses commands while it is full, loses none it
has accepted and has one reader, who changes nothing else.

**`StartUp`**: `main.rs:68-110, 155-301` up to the start of the bridge, on the shape of
the YAML: which endpoints, how many TRX each announces (with the cast to a byte), which
initial Tunes. The error path for more than 255 endpoints is `Bail`.

**`TciProtocol`**: the text protocol (`protocol.rs`). A line is a name and arguments, an
argument is what its text denotes, a numeral or a word; `parse` has the arity, the integer
type and the refusals of every command, setter or reader.

**`TciServer`**: sessions and `SharedState` (`server.rs`, `state.rs`).

* `SharedState` is one function from parameters `<<name, trx, vfo>>` to tuples;
  `new_with_initial` builds it from the configured TRX (`state.rs`, `main.rs:217-241`).
* `Connect`, `DumpState` and `Subscribe` follow `server.rs:81-130`: the rate and the state
  are read under separate locks, with sends in between, and the subscription to `iq_tx`
  comes last. `Tell` sends what a session owes its client, `TellFails` ends the session.
* `RecvMessage` takes up a Text message and `RecvFrame` an IQ frame, whichever `select!`
  picks; `HandleLine` is one line of a message: parse, the write under the lock, the reply;
  `send_bridge_cmd` is a step of its own, and `BridgeReceives` stands for the bridge.
* A client's view of the parameters is history: what the lines sent to it say.

**`DataPlane`**: `rtp_manager`, `rtp_ingest`, `iq_tx` and the session's side of it.

* `RtpManagerTick` is one tick of `bridge.rs:644-687`; the ingest task then either
  joins (`Join`) or ends and leaves its entry (`JoinFails`, `bridge.rs:676-684`).
* `Ingest` takes a datagram, looks it up under the table lock and routes it;
  `Publish` comes after `iq_samplerate.read().await` (`bridge.rs:755-797`).
* `iq[e]` is everything ever published; a session's cursor, `Lagging` and `Lagged`
  give the semantics of `tokio::sync::broadcast` with capacity `IqCap`.
* `Connect`, `Disconnect`, `IqStart`, `IqStop`, `RecvFrame` are `server.rs:81-212, 414-428`.
* `Hears` says which datagrams a socket gets: it is bound to the wildcard address
  (`multicast.rs:37-42`), and with `MulticastAll` (Linux' default) it hears every group
  the host has joined.
* `DispatchTune` and `DispatchSetSr(L)` are the whole of `dispatch_cmd` in one step, for
  module `Bridge` takes them apart; `L` are the channels a failure kept from radiod. A Tune
  of a channel that is not marked created carries the PRESET of the endpoint's rate
  (`bridge.rs:476-522`), so it too may move the channel to another group: one an earlier run
  left on another preset, or one a SetSr invalidated and did not reach. Its COMMAND arrives, is
  lost, or fails to be sent, which leaves the channel unmarked (`bridge.rs:539-549`).
* `Running` says what radiod may be running, and how far it has counted, when the program starts.

**`IqDelivery`**: a client gets frames of its own streams, each of a packet that was sent,
and those of one stream and group in order and at most once. Any frame may be missing.

**`TlvCodec`**: encoding and decoding of TLV packets, byte by byte (`tlv.rs`).

**`ControlClient`**: `control.rs` and the two tasks that share it. `poll_task` and
`cmd_task` draw a tag, encode, and await the TX socket; the receive task decodes what the
RX socket hears and queues STATUS packets for `status_task`. Losses, full buffers,
overtaking, our own COMMANDs heard back, other programs and what does not decode are all
steps of the environment.

**`RtpIngest`**: one turn of `rtp_ingest` on bytes: the RTP header (`rtp.rs`), 16-bit
samples to floats (`bridge.rs:801-817`), the words of the binary TCI frame
(`protocol.rs`), and the size of the broadcast buffer (`state.rs:63-77`).

Definitions named as a plausible slip, next to the definition they would replace, are
faults a change of the code could introduce; `PROJECT.json` pairs each property with
one that TLC finds.

## 3. The runs

All runs use a few model values; every counter that would grow for ever is bounded by a
named constant in a guard (`MaxRequests`, `MaxFaults`, `MaxPackets`, `MaxRates`,
`MaxDatagrams`), so the system stops at the bound; this is why `CHECK_DEADLOCK FALSE` stands
in the configurations. Whether anything gets stuck is asked by the liveness properties instead.

| run | instance | shows |
|---|---|---|
| `bridge_faults` | 1 channel, two tuners of which one also changes the rate, an initial Tune, 3 requests, 1 fault, command channel of 4, `FairSpec` | `TypeOK`, `NoBareTune`, `AbandonedIsRecreated`, `RateAgreement`, `WorkDrains`, `TableConverges`, `ImplementsInterface` |
| `bridge_leftover` | 2 endpoints, 4 channels of which 3 run in radiod already (own, VFO B, of a removed endpoint), 3 requests (endpoint 0 also enables VFO A and B), 1 fault, command channel of 2 | `NoBareTune`, `EndpointIsolation`, `FreqAgreement`, `RateAgreement` |
| `startup_fleet` | no TRX, 16 flat TRX, 17 endpoints of 0..16 TRX, 256 endpoints; `--max-trx` 3 | `TypeOK`, `OwnChannel`, `TunesAddressable`, `ConfigServed` |
| `dataplane_routing` | 2 endpoints and clients, 4 streams of one packet: 2 served, VFO B, another program's | `TypeOK`, `RoutedHome`, `OneStreamPerTrx` |
| `dataplane_live` | a served stream (2 packets, or 1 left) at the configured rate or on another preset, a removed endpoint's (1 packet, or silent), 2 groups, a rate change, a fault (a join, a Tune or a SetSr), broadcast capacity 1, `FairSpec` | `InOrder`, `ImplementsDelivery`, `GroupsJoined`, `PipelineDrains` |
| `tci_sessions` | 2 sessions on one endpoint (one tunes, sets the rate and streams; one sets modes and reads), an endpoint without TRX, 2 messages, 1 broken connection, command channel of 1, `FairSpec` | `TypeOK`, `KnowsItsOwn`, `CenterIsVfoA`, `ImplementsInterface`, `MessagesServed` |
| `wire` | 1280 RTP datagrams one by one; then both senders and two datagrams of others, RX buffer of 28 bytes, socket buffer 2, STATUS channel 1 | `TypeOK`, `CommandsUnderstood`, `TagsUnique`, `StatusesTrue`, `FramesTrue`, `SamplesForwarded`, `BufferLastsTwoSeconds`, `GroupIsServed` |
| `bridge_unreported` | expected violation | `RunsAnnouncedRate` |
| `bridge_ratesrace` | expected violation | `RateAgreement` with two rate setters |
| `bridge_startrace` | expected violation | `RunsAnnouncedFreq` |
| `bridge_startblock` | expected violation | `StartUpEnds` |
| `dataplane_label` | expected violation | `LabelIsTrue` |

Why the bounds are enough. In `bridge_faults` three requests are the least that let two
Tunes surround a rate change, or two rate changes surround a Tune; a fault can be
a lost COMMAND, a failed send or a restart, at every point. Its command channel has room
for every command of the run; a channel of 2 that fills up and refuses is in
`bridge_leftover`. STATUS packets can wait as long as they like in a channel of
1 while the rest moves, which is the stale packet of interest. In `bridge_leftover`
endpoint 0 never changes its rate, so any preset but its own is somebody else's, and any
frequency but its last is a stale one. In `dataplane_live` capacity 1 with 2 packets lets a
session lag, and the rate change puts the two on different groups. Its three starts divide
the packets: both of ours with the other stream silent, one of each, and one of ours on a
preset that is not the configured one, from which the first Tune moves it; the fault makes a
rate change miss the channel, which the next Tune repairs. In `startup_fleet` the
TRX counts are on both sides of every case of the code in which each TRX can own a channel
(255 TRX and more, where `ConfigServed` still holds and where it fails, are the subject of
`ConfigurationServed` and of `MCStartUp_phantom`), and 256 endpoints are one too many. In `tci_sessions` each message has up to three lines,
with every command, arguments that are missing, do not fit their type or name no TRX, a
line without semicolon, and a TRX of the empty endpoint 1 does not exist; two messages let
one session change what the other is being told. In `wire` the datagrams combine three
SSRCs, 0, 1 or 15 CSRCs, extensions of 0, 1 or 3 words or none, and up to three sample
pairs with the extreme values, whole and cut at every boundary of the header; buffers are as small as
the packets, 28 for 1500 and 60 for 8192, so that both "fits" and "is cut" happen; the
strings of 130 and 300 bytes are on either side of the length encodings.

`RateAgreement` carries its conditions in its text: the endpoint's last SetSr was not
dropped (`lost_sr`) and reached the channel (`missed`). `FreqAgreement` too: one source
of Tunes for the channel, no rate change on its endpoint, the Tune not dropped.
`KnowsItsOwn` is of parameters only the client itself changes, of its session up to the
line being handled. These are exactly the cases in which the code gives a guarantee;
section 6 has the counterexamples without them.

## 4. Fairness

`FairSpec` of `Bridge`: `cmd_task`, `status_task` and each handler's `try_send` are
weakly fair, because they are tokio tasks that run for ever and never block on each
other (`try_send` does not wait, mutexes are held for a few instructions). The loop of
`main` is weakly fair whenever there is room. `RadiodStatus` is strongly fair: `poll_task`
asks every few seconds, and radiod answers while it is up, even if at times the STATUS
channel is full. Clients, lost datagrams and restarts owe nothing.

`FairSpec` of `DataPlane`: the tick of `rtp_manager`, each ingest task, each connected
session (its client reads what it is sent) and the dispatcher are weakly fair, a started join succeeds or fails, STATUS
packets as above. radiod need not send a packet, clients need not do anything.

`FairSpec` of `TciServer`: whatever a session is in the middle of goes on (weak fairness; a
send is taken or fails). Taking up the next message is strongly fair: `select!`
(`server.rs:132`) polls its branches in random order, so a message that is ready again and again
beside a stream of frames is taken sooner or later. Clients and frames owe nothing.

`Fairness` of `ControlClient`: a `send_to` returns, and the receive task and `status_task`
are tokio tasks that run for ever. Nobody has to send anything.

Liveness is checked by TLC only; no liveness property is proved.

## 5. The proofs

All constants are arbitrary within the named assumptions, each stated in the module that
declares the constants: any number of endpoints, channels, sessions, rates and presets,
queues of any capacity, and any number for the bounds on requests, packets or faults. What
the assumptions of the later modules say:

* `WidthAssumption`, `ServerAssumption`, `DefaultsFit` (`TciServer`): the integer types are
  nested as in Rust; configured frequencies, rates and the program's defaults fit theirs; an
  endpoint announces at most 255 TRX; messages are sequences of lines, with any arguments.
* `ControlAssumption`, `ForeignAssumption` (`ControlClient`): requests and STATUS packets are
  any lists of fields whose values fit their tags (`Fields`); tags are numbers below any
  modulus up to 2^32; what other programs send does not decode as a STATUS - if it does, it
  belongs to `Statuses`, for the program cannot tell it from radiod's.
* `IngestAssumption` (`RtpIngest`): what a socket returns is the beginning of some RTP packet
  (`IsRtp`) with any CSRCs, extension and samples, cut anywhere.

| theorem | property | further assumptions | argument |
|---|---|---|---|
| `BridgeProofs!TypeCorrect` | `TypeOK` | - | one case per action |
| `NeverBareTune` | `NoBareTune` | - | `CreateInv`: whatever is marked created had its PRESET, and so had a channel whose `needs_create` came out false |
| `AbandonedRecreated` | `AbandonedIsRecreated` | - | `AbandonInv` adds that the snapshot is within the table, so a STATUS cannot re-insert |
| `EndpointsIsolated` | `EndpointIsolation` | - | `IsolationInv`: every rate in a state, queue or session is one of the endpoint's, so is every preset chosen from it, and a snapshot only has channels of the SetSr's endpoint |
| `RatesAgree` | `RateAgreement` | at most one rate setter per endpoint (`OneSetterPerEndpoint`) | `RateInv` follows the last SetSr through session, queue, `cmd_task` and snapshot: wherever it is last seen it carries the announced rate |
| `FreqsAgree` | `FreqAgreement` | (in its text) | `FreqInv` follows the last Tune of a channel through main's list, session, queue and `cmd_task`; no SetSr of its endpoint is ever queued, and a snapshot only has channels of another |
| `BridgeKeepsInterface` | `ImplementsInterface` | - | refinement: every step of `Bridge` is a step of `CommandInterface` or leaves its four variables alone; `TypeCorrect` says that what `main` queues are Tunes |
| `SsrcProofs!RoundTrip` | - | TRX, VFO < 16 | arithmetic on the fields |
| `EncodeInjective` | - | TRX, VFO < 16 | from `RoundTrip` |
| `DecodeInjective` | - | program's prefix, reserved byte 0 | recomposition of the word from its fields |
| `StartUpProofs!ChannelsOwned` | `OwnChannel` | at most 16 TRX per endpoint | `LoopInv(16)` and `RoundTrip` |
| `ConfigurationServed` | `ConfigServed` | at most 255 TRX per endpoint | `LoopInv(255)` and `ServedInv`: whatever the two loops have passed is tuned |
| `TunesForAnnouncedTrx` | `TunesAddressable` | at most 255 TRX per endpoint | `TunesInv`: every Tune collected is behind the loop's position, so the next one is new |
| `StartUpTyped` | `TypeOK` | - | `PositionInv`: both loops stay within the configuration |
| `DataPlaneProofs!FramesTyped` | `TypeOK` | - | one lemma per group of actions |
| `FramesRoutedHome` | `RoutedHome` | - | `RouteInv` follows a frame from the ingest task through `iq_tx` to the client; active TRX are announced TRX |
| `StreamsUnmixed` | `OneStreamPerTrx` | - | `RouteInv` and `DecodeInjective`; this is why `DataPlaneAssumption` asks for a zero reserved byte |
| `FramesInOrder` | `InOrder` | - | the packets of one group and stream are ordered along the whole pipeline: received before in the ingest task before still in the socket, and a client's are before the rest of `iq` it has not read |
| `DataPlaneDelivers` | `ImplementsDelivery` | - | refinement: `RecvFrame` is a delivery (by `FramesRoutedHome` and the order above), `Emit` is an emission, `Connect` forgets, the rest stutters |
| `TciServerProofs!ServerTypes` | `TypeOK` | - | `TypeInv`: what `parse` accepts has the types of its setter, so has what is stored, told or offered |
| `ClientsKnowTheirOwn` | `KnowsItsOwn` | - | `KnowsInv`: for a parameter only this client sets, its view with the lines still owed to it leads to the stored value, in every phase of the session |
| `CenterFollowsVfoA` | `CenterIsVfoA` | - | `CenterInv`: the state is right, so is the dump between the read under the lock and the last line |
| `ServersKeepInterface` | `ImplementsInterface` | - | refinement: one case per command of `HandleLine`; `TypeInv` says that what is offered is a frequency or a rate |
| `WireProofs!PacketRoundTrip` | - | fields that fit their tags | each field's bytes lead from its position to the next one; the last position from which decoding went wrong would have a right successor |
| `ClientTypes` | `TypeOK` | - | `ClientInv`: a tag is lost, on its way or with radiod, so datagrams never outnumber tags |
| `StatusesAreTrue` | `StatusesTrue` | - | `ClientInv` and the reading of a cut packet (`PacketRead`): a STATUS that is cut is an error, or a prefix of its fields |
| `CommandsAreUnderstood` | `CommandsUnderstood` | `MaxDatagrams + 1 < TagModulus` | `PacketRoundTrip` for what `SentInv` says is on its way, and `LabelInv`: tags are drawn in order |
| `TagsAreUnique` | `TagsUnique` | `MaxDatagrams + 1 < TagModulus` | `LabelInv`: what is with radiod or in a sender has a tag drawn for it alone |
| `FramesAreTrue` | `FramesTrue` | - | `HeaderParsed` finds the payload of every packet, `ArrivedOf` says what the cut leaves of it |
| `SamplesAreForwarded` | `SamplesForwarded` | - | the same, counting what is left behind |
| `BuffersLastTwoSeconds` | `BufferLastsTwoSeconds` | - | arithmetic on the two bounds of the buffer |

The bounds 16 and 255 are sharp: section 6 shows what one TRX more does. None of the
invariants of the runs is inductive by itself. `NoBareTune` speaks of what was sent, but the
next COMMAND is decided by the flag `created` and by a local variable of an earlier lock
section, so the invariant has to tie both to what was sent. `RoutedHome` and `InOrder` speak
of frames at the client, so the invariant has to hold of frames in every earlier place.

In `TciServer` the same holds of time: a client is told of a value after it was stored and
may be cut off in between, so `KnowsItsOwn`, which is about a session that owes nothing, has
to be carried through the handshake, the dump, the lines of a message and the command that
waits to be offered. In `ControlClient`, `StatusesTrue` is about the channel at the end of the
receive task; the invariant says what is in the socket before it: something foreign, a
STATUS of radiod or one of the program's own COMMANDs.

The hypothesis on `TagModulus` is not a convenience: the counter is a `fetch_add` on a u32
(`control.rs:168`), so after 2^32 datagrams a tag does come twice, and an old datagram could
carry a new one's. Everything else of `ControlClient` holds across the wrap.

The codec and the parser are recursive, and a theorem about them cannot use `RECURSIVE`
operators nor the library's induction theorems, which take an operator as a parameter. They
are written as recursive functions, and what they compute is proved by smallest
counterexample: `SequenceLemmas!Smallest` gives every non-empty set of naturals a least
element, so the first position at which a claim fails has predecessors (or, for `decode_packet`,
which reads forwards, a largest one has successors) at which it holds.

`SsrcTableProofs` holds the lemmas on the table's operators, for any set of channels, that
both `BridgeProofs` and `DataPlaneProofs` use; `SequenceLemmas` those on least elements,
sequences, slices and concatenation.

Every safety property and both refinements that a passing run checks are proved. Only
model-checked are:

* the liveness properties `WorkDrains`, `TableConverges`, `GroupsJoined`, `PipelineDrains`,
  `MessagesServed` and `GroupIsServed`: they need fairness and ENABLED, which the prover
  does not handle;
* the violations of section 6, which are counterexamples.

## 6. What the code does not keep

Five runs are expected to fail, each against a sentence of the repository; the sentences
are quoted in `PROJECT.json`.

* `bridge_unreported`: a channel that no STATUS has reported yet has frequency 0, so a
  SetSr skips it without invalidating it (`bridge.rs:592`), and it stays on the old preset.
* `bridge_ratesrace`: two sessions write the rate in one order and queue their SetSr in
  the other; the channel stays on the preset of the rate that lost.
* `bridge_startrace`: servers accept clients before the initial Tunes are queued
  (`main.rs:243, 267`); the configured frequency overrides the client's in radiod only.
* `bridge_startblock`: with more initial Tunes than the channel holds, `main` awaits a
  consumer that starts only afterwards. The run uses a channel of 1 and two Tunes for
  the 64 and 65 of the program.
* `dataplane_label`: the rate is read after the packet was looked up, so a frame can
  announce a rate its samples were not taken at.

Further configurations are kept here though the list of runs does not name them; each
violates its one property:

* `MCBridge_created`: `created` is set before any STATUS, contrary to `bridge.rs:75`.
* `MCBridge_stalefreq`: a SetSr re-tunes to the frequency of the last STATUS and undoes a
  Tune dispatched since (`bridge.rs:593`).
* `MCBridge_recreated`: the datagram that creates a channel is lost; the flag `created`
  stays, later Tunes go without PRESET (`bridge.rs:497, 548`).
* `MCBridge_lifetime`: if radiod ignores a PRESET without LIFETIME, as `bridge.rs:503-505`
  says, a SetSr, which sends none (`bridge.rs:605`), changes nothing.
* `MCDataPlane_duplicate`: with two groups joined, wildcard sockets make each packet
  arrive twice, where `multicast.rs:37` expects the kernel to filter.
* `MCStartUp_aliased`, `MCStartUp_phantom`: 17 TRX on an endpoint give two TRX one SSRC;
  256 TRX are announced as none (`main.rs:221` clamps before it casts).
* `MCStartUp_maxtrx`: a flat list of 4 TRX exposes 4. `config.rs:41-43` calls `--max-trx`
  (default 3) the greatest number of receivers exposed, and `config_file.rs:95-96` says that
  the flat list is ignored beyond it; `main.rs:216-221` counts what is configured and says so,
  and nothing reads `max_trx` but a log line (`main.rs:126, 284`, `bridge.rs:273`).
  `ConfigServed`, which `startup_fleet` checks, takes `main.rs` at its word: its run exposes 16
  TRX under `--max-trx 3`.
* `MCTciServer_unsynced`: a change one client makes is told to no other, as the TODO at
  `server.rs:188-189` knows and `docs/tci-protocol.txt:188-191` expects otherwise.
* `MCTciServer_limits`: `if_limits` come from the configured rate, the rate announced with
  them is the current one (`main.rs:230-233`).

## 7. Not modelled, and modelling bounds

* Configured and requested frequencies are positive in `Bridge`. The handlers accept 0 Hz
  too, which the table cannot tell from "not reported"; that request is left out there
  (`TciServer` stores and offers it).
* In `DataPlane` a socket gets the datagrams of one stream in the order radiod sent them
  (`RadiodSends`). A network that reorders or repeats UDP datagrams is not modelled: the
  program ignores RTP sequence numbers and passes on what comes as it comes, so `InOrder`
  says only that the program itself reorders and repeats nothing.
* In `DataPlane` a Tune reads the rate and reaches radiod in one step; a rate change between the
  two is in `Bridge`. A Tune that carries no PRESET changes nothing there, lost or not.
* In `DataPlane` a frame is the packet it was made of, in `RtpIngest` it is words; that a
  packet which does not parse or has no samples leaves no trace is a property of the latter.
* White space and letter case beyond the names of commands; wording of log lines.
* Binary messages and pings of a client, which the program answers in the library or ignores.
* The end of a session between the two halves of a handler: `handle_command` sends nothing
  itself and is not cancelled, so it always gets to its `try_send`.
* RTP padding, marker, payload type, sequence number and timestamp, which nothing reads.
  Floating-point numbers of TLV are their bytes; a 16-bit sample stands for its exact quotient.
* Channels of other programs whose SSRC has this program's prefix and a non-zero reserved
  byte: they would share an entry's name but not its key (`bridge.rs:141-148`).
* mDNS, socket options, logging, clap, serde, and the text of `--preset-map`, a
  constant (`PresetFor`) here. `scripts/build-wisdom.py` is a separate tool.
* A receive error of an ingest task that has joined: it is logged and the task reads on.
* Time: ticks and polls are just steps that keep coming.

## 8. Plan

Done, in this order because it is what the program is for: `SsrcTable`, `Bridge` and their
proofs (the races between clients, dispatcher, STATUS and faults), `Ssrc` and `StartUp` (is
a channel's identity sound), `DataPlane` (does a sample reach whom it is for); then the two
abstract specifications with their refinements and proofs, the order of frames, the
agreement of frequencies, the text protocol with `TciServer`, and the wire with `TlvCodec`,
`ControlClient` and `RtpIngest`; then the theorems of `TciServer` (both ends of the command
channel are proved to keep `CommandInterface`) and of the wire.

Next:

1. A table keyed by numeric SSRCs, for channels of other programs with this prefix and a
   non-zero reserved byte (`bridge.rs:141-148`).
2. The parsing of `--preset-map` and the resolution of ports, labels and rates
   (`config_file.rs`, `main.rs:68-110`).
