--------------------------------- MODULE StartUp ---------------------------------
(***************************************************************************)
(* What main makes of the configuration before anything runs (main.rs):    *)
(* the endpoints, how many TRX each announces, the Tunes queued for them   *)
(* and, through ssrc_encode, the radiod channel each TRX will own.  How    *)
(* those Tunes race with clients is module Bridge's subject.               *)
(***************************************************************************)
EXTENDS Ssrc, Sequences

CONSTANTS
    Configs,    \* the YAML files the program may be given
    MaxTrx      \* Args.max_trx: logged and passed to the bridge, read by nobody

(* `endpoints:` lists the `freq` of each endpoint's TRX, `trx:` is the flat  *)
(* form; both are <<>> when there is no file or it cannot be read.           *)
FileConfig == [endpoints : Seq(Seq(Nat)), trx : Seq(Nat)]

ASSUME ConfigsAssumption == Configs \subseteq FileConfig

ASSUME MaxTrxAssumption == MaxTrx \in Byte

VARIABLES
    file_cfg,
    outcome,        \* "starting", "bailed" or "started"
    trx_count,      \* ServerConfig.trx_count of the servers spawned so far
    trx_idx,        \* TRX of the last spawned endpoint that have been looked at
    initial_tunes

vars == <<file_cfg, outcome, trx_count, trx_idx, initial_tunes>>

as_u8(n) == n % 256

\* resolve_endpoints: `endpoints:` prevails; else one endpoint with the flat list.
endpoints == IF file_cfg.endpoints # <<>> THEN file_cfg.endpoints ELSE <<file_cfg.trx>>

\* ep.trx.len().max(1) as u8
AnnouncedTrx(trx) == as_u8(IF Len(trx) = 0 THEN 1 ELSE Len(trx))

\* A plausible slip: endpoints are numbered from one.
TuneFromOne(endpoint, trx, freq) ==
    [endpoint |-> endpoint + 1, trx |-> as_u8(trx), freq_hz |-> freq]

InitialTune(endpoint, trx, freq) == [endpoint |-> endpoint, trx |-> as_u8(trx), freq_hz |-> freq]

Init ==
    /\ file_cfg \in Configs
    /\ outcome = "starting"
    /\ trx_count = <<>>
    /\ trx_idx = 0
    /\ initial_tunes = <<>>

idx == Len(trx_count)    \* the endpoint of the next turn of the outer loop

AllTrxSeen == idx > 0 => trx_idx = Len(endpoints[idx])

\* More endpoints than fit the SSRC: nothing is started.
Bail ==
    /\ outcome = "starting"
    /\ Len(endpoints) > 255
    /\ outcome' = "bailed"
    /\ UNCHANGED <<file_cfg, trx_count, trx_idx, initial_tunes>>

SpawnServer ==
    /\ outcome = "starting"
    /\ Len(endpoints) <= 255
    /\ AllTrxSeen
    /\ idx < Len(endpoints)
    /\ trx_count' = Append(trx_count, AnnouncedTrx(endpoints[idx + 1]))
    /\ trx_idx' = 0
    /\ UNCHANGED <<file_cfg, outcome, initial_tunes>>

\* A plausible slip: a TRX without a frequency ends the inner loop.
CollectUntilUntuned ==
    /\ outcome = "starting"
    /\ ~AllTrxSeen
    /\ LET freq == endpoints[idx][trx_idx + 1] IN
       IF freq > 0
       THEN /\ initial_tunes' = Append(initial_tunes, InitialTune(idx - 1, trx_idx, freq))
            /\ trx_idx' = trx_idx + 1
       ELSE /\ trx_idx' = Len(endpoints[idx])
            /\ UNCHANGED initial_tunes
    /\ UNCHANGED <<file_cfg, outcome, trx_count>>

\* A plausible slip: TRX without a frequency are tuned too.
TuneEveryTrx ==
    /\ outcome = "starting"
    /\ ~AllTrxSeen
    /\ initial_tunes' = Append(initial_tunes,
                               InitialTune(idx - 1, trx_idx, endpoints[idx][trx_idx + 1]))
    /\ trx_idx' = trx_idx + 1
    /\ UNCHANGED <<file_cfg, outcome, trx_count>>

\* One turn of the inner loop; a TRX without a frequency is left untuned.
CollectTune ==
    /\ outcome = "starting"
    /\ ~AllTrxSeen
    /\ LET freq == endpoints[idx][trx_idx + 1] IN
       initial_tunes' = IF freq > 0
                        THEN Append(initial_tunes, InitialTune(idx - 1, trx_idx, freq))
                        ELSE initial_tunes
    /\ trx_idx' = trx_idx + 1
    /\ UNCHANGED <<file_cfg, outcome, trx_count>>

StartBridge ==
    /\ outcome = "starting"
    /\ AllTrxSeen
    /\ idx = Len(endpoints)
    /\ outcome' = "started"
    /\ UNCHANGED <<file_cfg, trx_count, trx_idx, initial_tunes>>

Next == Bail \/ SpawnServer \/ CollectTune \/ StartBridge

Spec == Init /\ [][Next]_vars

-----------------------------------------------------------------------------
(* Properties. *)

TypeOK ==
    /\ file_cfg \in Configs
    /\ outcome \in {"starting", "bailed", "started"}
    /\ trx_count \in Seq(Byte)
    /\ trx_idx \in Nat
    /\ initial_tunes \in Seq([endpoint : Byte, trx : Byte, freq_hz : Nat \ {0}])

\* The TRX that clients can address: <<endpoint, trx>>.
Addressable ==
    UNION {{<<e, t>> : t \in {u \in Byte : u < trx_count[e + 1]}} :
              e \in {d \in Byte : d < Len(trx_count)}}

\* Every TRX a client can address owns a channel of radiod: no other TRX of
\* any endpoint has its SSRC, and the SSRC leads back to it, which is how RTP
\* frames find their endpoint and TRX (bridge.rs:45-61, docs/multi-endpoint-plan.md:75-85).
OwnChannel ==
    \A a \in Addressable :
        ssrc_decode(ssrc_encode(a[1], a[2], 0)) = <<a[1], a[2], 0>>

Tuned(e, t) ==
    \E i \in DOMAIN initial_tunes :
        initial_tunes[i] = [endpoint |-> e - 1, trx |-> t - 1, freq_hz |-> endpoints[e][t]]

\* Every initial Tune is for a TRX that clients of that endpoint can address,
\* and no TRX is tuned twice (main.rs:221, 249-258).
TunesAddressable ==
    /\ \A i \in DOMAIN initial_tunes :
          <<initial_tunes[i].endpoint, initial_tunes[i].trx>> \in Addressable
    /\ \A i, j \in DOMAIN initial_tunes :
          initial_tunes[i].endpoint = initial_tunes[j].endpoint
          /\ initial_tunes[i].trx = initial_tunes[j].trx => i = j

\* Once everything has started, every endpoint has a TRX, every TRX of the
\* configuration can be addressed at its place in the file, and it is tuned to
\* its frequency if it has one; what the casts to a byte, the clamp and the
\* entries without frequency do must not lose or shift one (main.rs:205-259).
\* "Every TRX of the configuration" is main's reading (main.rs:216-220: as many as
\* the file lists, not `--max-trx`); what the options say is MaxTrxExposed.
ConfigServed ==
    outcome = "started" =>
        \A e \in DOMAIN endpoints :
            /\ <<e - 1, 0>> \in Addressable
            /\ \A t \in DOMAIN endpoints[e] :
                  /\ <<e - 1, t - 1>> \in Addressable
                  /\ endpoints[e][t] > 0 => Tuned(e, t)

-----------------------------------------------------------------------------
(* What comments of the repository promise and the code does not keep. *)

\* config.rs:41-43: `--max-trx` is the greatest number of TRX exposed;
\* config_file.rs:95-96: what the flat list has beyond it is ignored.
MaxTrxExposed == \A e \in DOMAIN trx_count : trx_count[e] <= MaxTrx
==================================================================================
