-------------------------------- MODULE BridgeCmd --------------------------------
(***************************************************************************)
(* Channels and the commands the TCI servers send the bridge (BridgeCmd in *)
(* bridge.rs).  A channel is the triple <<endpoint, trx, vfo>> that its    *)
(* SSRC encodes; module Ssrc shows when that identification is sound.      *)
(***************************************************************************)
EndpointOf(c) == c[1]
TrxOf(c)      == c[2]
VfoOf(c)      == c[3]

NoCmd           == [type |-> "None"]
Tune(c, f)      == [type |-> "Tune", ssrc |-> c, freq_hz |-> f]
SetSr(e, r)     == [type |-> "SetSr", endpoint |-> e, samprate |-> r]
EnableRx(c, on) == [type |-> "EnableRx", ssrc |-> c, enable |-> on]
=================================================================================
