----------------------------- MODULE BridgeProofs -----------------------------
(***************************************************************************)
(* What holds of Bridge for every number of endpoints, channels, sessions, *)
(* rates and presets, and for queues of any capacity.                      *)
(***************************************************************************)
EXTENDS Bridge, SsrcTableProofs, SequenceTheorems

-----------------------------------------------------------------------------
(* The table of this bridge's channels. *)

LEMMA GetOrInsertChan ==
    ASSUME NEW t, IsTable(Chan, t), NEW c \in Chan
    PROVE  /\ IsTable(Chan, get_or_insert(t, c))
           /\ DOMAIN get_or_insert(t, c) = DOMAIN t \cup {c}
           /\ \A d \in DOMAIN t : get_or_insert(t, c)[d] = t[d]
           /\ c \notin DOMAIN t => get_or_insert(t, c)[c] = NewChannel
<1> DEFINE K == Chan
<1>1. IsTable(K, t) /\ c \in K
  OBVIOUS
<1> HIDE DEF K
<1>2. /\ IsTable(K, get_or_insert(t, c))
      /\ DOMAIN get_or_insert(t, c) = DOMAIN t \cup {c}
      /\ \A d \in DOMAIN t : get_or_insert(t, c)[d] = t[d]
      /\ c \notin DOMAIN t => get_or_insert(t, c)[c] = NewChannel
  BY <1>1, GetOrInsert
<1> QED  BY <1>2 DEF K

LEMMA UpdateFromOwnStatus ==
    ASSUME NEW t, IsTable(Chan, t), NEW s \in Status
    PROVE  /\ IsTable(Chan, update_from_status(t, s))
           /\ DOMAIN update_from_status(t, s) = DOMAIN t \cup {s.ssrc}
           /\ \A d \in DOMAIN update_from_status(t, s) :
                 update_from_status(t, s)[d].created => d \in DOMAIN t /\ t[d].created
           /\ \A d \in DOMAIN t :
                 update_from_status(t, s)[d].created = t[d].created
<1> DEFINE K == Chan
<1>1. /\ IsTable(K, t) /\ s.ssrc \in K
      /\ s.freq_hz \in Freq \cup {NoFreq} /\ s.data_group \in Group \cup {NoGroup}
  BY DEF Status
<1> HIDE DEF K
<1>2. /\ IsTable(K, update_from_status(t, s))
      /\ DOMAIN update_from_status(t, s) = DOMAIN t \cup {s.ssrc}
      /\ \A d \in DOMAIN update_from_status(t, s) :
            update_from_status(t, s)[d].created => d \in DOMAIN t /\ t[d].created
      /\ \A d \in DOMAIN t :
            update_from_status(t, s)[d].created = t[d].created
  BY <1>1, UpdateFromStatus
<1> QED  BY <1>2 DEF K

-----------------------------------------------------------------------------
(* Type correctness. *)

LEMMA ConstantsOK ==
    /\ NoFreq \notin Freq
    /\ \A r \in Rate : PresetFor(r) \in Preset
    /\ InitFreq \in Freq
    /\ NoPreset \notin Preset
    /\ \A p \in Preset \cup {DefaultConfig} : GroupFor[p] \in Group \cup {NoGroup}
BY TableAssumption, BridgeAssumption DEF PresetFor, NoFreq

\* What the queue of BridgeCmds hands out is what was put in.
LEMMA CmdQueue ==
    ASSUME NEW q \in Seq(Cmd)
    PROVE  /\ \A x \in Cmd : Append(q, x) \in Seq(Cmd)
           /\ q # <<>> => Head(q) \in Cmd /\ Tail(q) \in Seq(Cmd)
<1>1. \A x \in Cmd : Append(q, x) \in Seq(Cmd)
  BY AppendProperties
<1>2. q # <<>> => Head(q) \in Cmd /\ Tail(q) \in Seq(Cmd)
  BY HeadTailProperties
<1> QED BY <1>1, <1>2

LEMMA CmdKinds ==
    ASSUME NEW x \in Cmd
    PROVE  /\ x.type = "Tune" => x \in TuneCmd
           /\ x.type = "SetSr" => x \in SetSrCmd
           /\ x.type = "EnableRx" => x \in EnableRxCmd
           /\ x.type \in {"Tune", "SetSr", "EnableRx"}
           /\ x # NoCmd
BY DEF Cmd, TuneCmd, SetSrCmd, EnableRxCmd, NoCmd

LEMMA InitTypeOK == Init => TypeOK
<1> SUFFICES ASSUME Init PROVE TypeOK
  OBVIOUS
<1> USE DEF Init
<1>1. initial \in Seq(TuneCmd)
  <2>1. /\ InitialTunes \in Seq(Tunable)
        /\ Len(InitialTunes) \in Nat
        /\ DOMAIN InitialTunes = 1..Len(InitialTunes)
    BY BridgeAssumption, LenProperties
  <2>2. \A i \in 1..Len(InitialTunes) : Tune(InitialTunes[i], InitFreq) \in TuneCmd
    BY <2>1, ElementOfSeq, ConstantsOK DEF Tune, TuneCmd
  <2> QED
    BY <2>1, <2>2
<1>2. cmds \in Seq(Cmd) /\ statuses \in Seq(Status)
  BY EmptySeq
<1>3. /\ iq_samplerate \in [Endpoint -> Rate]
      /\ vfo_freq \in [Tunable -> Freq]
      /\ preset \in Preset
  BY BridgeAssumption
<1>4. radiod \in [Chan -> RadiodChannel]
  BY ConstantsOK DEF RadiodChannel, NoRadiodChannel
<1>5. commanded \in [Chan -> [preset : Preset \cup {NoPreset}, freq_hz : Freq \cup {NoFreq}]]
  BY DEF NothingCommanded
<1>6. IsTable(Chan, table)
  BY EmptyTableIsTable
<1>7. DOMAIN snapshot \subseteq Chan /\ snapshot \in [DOMAIN snapshot -> Freq]
  BY DEF EmptySnapshot
<1> QED
  BY <1>1, <1>2, <1>3, <1>4, <1>5, <1>6, <1>7 DEF TypeOK, IsTable
\* A COMMAND that was sent leaves radiod and the history well typed.
LEMMA SendCommandOK ==
    ASSUME TypeOK, NEW c \in Chan, NEW p \in Preset \cup {NoPreset}, NEW f \in Freq,
           NEW lifetime \in BOOLEAN, send_command(c, p, f, lifetime)
    PROVE  /\ radiod' \in [Chan -> RadiodChannel]
           /\ commanded' \in [Chan -> [preset : Preset \cup {NoPreset},
                                       freq_hz : Freq \cup {NoFreq}]]
           /\ missed' \subseteq Chan
           /\ faults' \in Nat
<1> USE DEF TypeOK, send_command
<1>1. Applied(radiod[c], p, f, lifetime) \in RadiodChannel
  BY DEF Applied, RadiodChannel
<1>2. radiod' \in [Chan -> RadiodChannel]
  BY <1>1
<1>3. commanded' \in [Chan -> [preset : Preset \cup {NoPreset}, freq_hz : Freq \cup {NoFreq}]]
  OBVIOUS
<1>4. missed' \subseteq Chan /\ faults' \in Nat
  OBVIOUS
<1> QED
  BY <1>2, <1>3, <1>4

\* Every step keeps the types.
LEMMA NextTypeOK == TypeOK /\ [Next]_vars => TypeOK'
<1> SUFFICES ASSUME TypeOK, [Next]_vars PROVE TypeOK'
  OBVIOUS
<1> USE DEF clientVars, taskVars, radioVars, lost, history
<1>0. /\ initial \in Seq(TuneCmd) /\ cmds \in Seq(Cmd) /\ statuses \in Seq(Status)
      /\ IsTable(Chan, table) /\ handler \in [Client -> Cmd \cup {NoCmd}]
      /\ TuneCmd \subseteq Cmd
  BY DEF TypeOK, IsTable, Cmd
<1>1. CASE SendInitialTune
  <2>1. cmds' \in Seq(Cmd) /\ initial' \in Seq(TuneCmd)
    <3>1. Head(initial) \in TuneCmd /\ Tail(initial) \in Seq(TuneCmd)
      BY <1>0, <1>1, HeadTailProperties DEF SendInitialTune
    <3> QED
      BY <1>0, <1>1, <3>1, CmdQueue DEF SendInitialTune
  <2> QED
    BY <1>1, <2>1 DEF TypeOK, SendInitialTune
<1>2. ASSUME NEW k \in Tuner, NEW c \in Tunable, NEW f \in Freq, SetVfo(k, c, f)
      PROVE  TypeOK'
  <2>1. Tune(c, f) \in Cmd
    BY DEF Tune, TuneCmd, Cmd
  <2>2. handler' \in [Client -> Cmd \cup {NoCmd}] /\ vfo_freq' \in [Tunable -> Freq]
    BY <1>0, <1>2, <2>1 DEF SetVfo, TypeOK
  <2> QED
    BY <1>2, <2>2 DEF TypeOK, SetVfo
<1>3. ASSUME NEW k \in RateSetter, NEW r \in Rate, SetSamplerate(k, r)
      PROVE  TypeOK'
  <2>1. ServerOf[k] \in Endpoint
    BY BridgeAssumption DEF Client
  <2>2. SetSr(ServerOf[k], r) \in Cmd
    BY <2>1 DEF SetSr, SetSrCmd, Cmd
  <2>3. handler' \in [Client -> Cmd \cup {NoCmd}] /\ iq_samplerate' \in [Endpoint -> Rate]
    BY <1>0, <1>3, <2>1, <2>2 DEF SetSamplerate, TypeOK
  <2> QED
    BY <1>3, <2>3 DEF TypeOK, SetSamplerate
<1>4. ASSUME NEW k \in Enabler, NEW c \in Chan, NEW on \in BOOLEAN, SetRxEnable(k, c, on)
      PROVE  TypeOK'
  <2>1. EnableRx(c, on) \in Cmd
    BY DEF EnableRx, EnableRxCmd, Cmd
  <2>2. handler' \in [Client -> Cmd \cup {NoCmd}]
    BY <1>0, <1>4, <2>1 DEF SetRxEnable
  <2> QED
    BY <1>4, <2>2 DEF TypeOK, SetRxEnable
<1>5. ASSUME NEW k \in Client, send_bridge_cmd(k)
      PROVE  TypeOK'
  <2>1. handler[k] \in Cmd
    BY <1>0, <1>5 DEF send_bridge_cmd
  <2>2. cmds' \in Seq(Cmd)
    BY <1>0, <1>5, <2>1, CmdQueue DEF send_bridge_cmd
  <2>3. lost_sr' \subseteq Endpoint /\ lost_tune' \subseteq Tunable
    BY <1>5, <2>1, CmdKinds DEF send_bridge_cmd, TypeOK, TuneCmd, SetSrCmd
  <2>4. handler' \in [Client -> Cmd \cup {NoCmd}]
    BY <1>0, <1>5 DEF send_bridge_cmd
  <2> QED
    BY <1>5, <2>2, <2>3, <2>4 DEF TypeOK, send_bridge_cmd
<1>6. CASE CmdTask
  <2>1. CASE RecvTune
    <3>1. cur' \in TuneCmd /\ cmds' \in Seq(Cmd)
      BY <1>0, <2>1, CmdQueue, CmdKinds DEF RecvTune
    <3> QED
      BY <1>0, <2>1, <3>1 DEF TypeOK, RecvTune
  <2>2. CASE TuneReadRate
    <3>1. cur.ssrc \in Tunable
      BY <2>2 DEF TypeOK, TuneReadRate, TuneCmd
    <3>2. preset' \in Preset
      BY <2>2, <3>1, ConstantsOK DEF TypeOK, TuneReadRate, Tunable
    <3> QED
      BY <2>2, <3>2 DEF TypeOK, TuneReadRate
  <2>3. CASE TuneLock
    <3>1. cur.ssrc \in Chan
      BY <2>3 DEF TypeOK, TuneLock, TuneCmd, Tunable
    <3> DEFINE c == cur.ssrc
    <3>2. IsTable(Chan, get_or_insert(table, c)) /\ c \in DOMAIN get_or_insert(table, c)
      <4>1. c \in Chan
        BY <3>1
      <4> HIDE DEF c
      <4> QED  BY <1>0, <4>1, GetOrInsertChan
    <3>3. IsTable(Chan, table') /\ needs_create' \in BOOLEAN
      BY <2>3, <3>2 DEF TuneLock, IsTable, ChannelInfo
    <3> QED
      BY <2>3, <3>3 DEF TypeOK, TuneLock, IsTable
  <2>4. CASE TuneSend
    <3> DEFINE p == IF needs_create THEN preset ELSE NoPreset
    <3>1. /\ cur.ssrc \in Chan /\ cur.freq_hz \in Freq
          /\ p \in Preset \cup {NoPreset}
      BY <2>4 DEF TypeOK, TuneSend, TuneCmd, Tunable
    <3>2. send_command(cur.ssrc, p, cur.freq_hz, TRUE)
      BY <2>4 DEF TuneSend
    <3> HIDE DEF p
    <3>3. /\ radiod' \in [Chan -> RadiodChannel]
          /\ commanded' \in [Chan -> [preset : Preset \cup {NoPreset},
                                      freq_hz : Freq \cup {NoFreq}]]
          /\ missed' \subseteq Chan
          /\ faults' \in Nat
      BY <3>1, <3>2, SendCommandOK
    <3> QED
      BY <2>4, <3>3 DEF TypeOK, TuneSend
  <2>5. CASE TuneSendFails
    <3>1. cur.ssrc \in Tunable
      BY <2>5 DEF TypeOK, TuneSendFails, TuneCmd
    <3> QED
      BY <2>5, <3>1 DEF TypeOK, TuneSendFails
  <2>6. CASE TuneMark
    <3>1. IsTable(Chan, table')
      BY <1>0, <2>6, MarkCreated DEF TuneMark
    <3> QED
      BY <2>6, <3>1 DEF TypeOK, TuneMark, IsTable
  <2>7. CASE RecvSetSr
    <3>1. cur' \in SetSrCmd /\ cmds' \in Seq(Cmd)
      BY <1>0, <2>7, CmdQueue, CmdKinds DEF RecvSetSr
    <3>2. preset' \in Preset
      BY <2>7, <3>1, ConstantsOK DEF RecvSetSr, SetSrCmd
    <3> QED
      BY <1>0, <2>7, <3>1, <3>2 DEF TypeOK, RecvSetSr, Cmd
  <2>8. CASE SetSrLock
    <3> DEFINE C == TunedChannels(cur.endpoint)
    <3>1. C \subseteq Chan /\ \A c \in C : table[c].freq_hz \in Freq
      BY <1>0 DEF TunedChannels, IsTable, ChannelInfo
    <3>2. snapshot' = [c \in C |-> table[c].freq_hz] /\ IsTable(Chan, table')
      BY <1>0, <2>8, Invalidate DEF SetSrLock
    <3> HIDE DEF C
    <3>3. DOMAIN snapshot' \subseteq Chan /\ snapshot' \in [DOMAIN snapshot' -> Freq]
      BY <3>1, <3>2
    <3>4. missed' \subseteq Chan
      BY <2>8 DEF SetSrLock, TypeOK
    <3> QED
      BY <2>8, <3>2, <3>3, <3>4 DEF TypeOK, SetSrLock, IsTable
  <2>9. CASE SetSrSendFails
    <3>1. DOMAIN snapshot' \subseteq Chan /\ snapshot' \in [DOMAIN snapshot' -> Freq]
      BY <2>9 DEF SetSrSendFails, EmptySnapshot
    <3> QED
      BY <2>9, <3>1 DEF TypeOK, SetSrSendFails
  <2>10. CASE RecvEnableRx
    <3>1. cmds' \in Seq(Cmd)
      BY <1>0, <2>10, CmdQueue DEF RecvEnableRx
    <3> QED
      BY <2>10, <3>1 DEF TypeOK, RecvEnableRx
  <2>11. ASSUME NEW c \in Chan, SetSrSend(c)
         PROVE  TypeOK'
    <3>1. snapshot[c] \in Freq /\ preset \in Preset
      BY <2>11 DEF TypeOK, SetSrSend
    <3>2. send_command(c, preset, snapshot[c], FALSE)
      BY <2>11 DEF SetSrSend
    <3>3. /\ radiod' \in [Chan -> RadiodChannel]
          /\ commanded' \in [Chan -> [preset : Preset \cup {NoPreset},
                                      freq_hz : Freq \cup {NoFreq}]]
          /\ missed' \subseteq Chan
          /\ faults' \in Nat
      BY <3>1, <3>2, SendCommandOK
    <3>4. DOMAIN snapshot' \subseteq Chan /\ snapshot' \in [DOMAIN snapshot' -> Freq]
      BY <2>11 DEF TypeOK, SetSrSend
    <3> QED
      BY <2>11, <3>3, <3>4 DEF TypeOK, SetSrSend
  <2> QED
    BY <1>6, <2>1, <2>2, <2>3, <2>4, <2>5, <2>6, <2>7, <2>8, <2>9, <2>10, <2>11 DEF CmdTask
<1>7. CASE StatusTask
  <2>1. Head(statuses) \in Status /\ statuses' \in Seq(Status)
    BY <1>0, <1>7, HeadTailProperties DEF StatusTask
  <2>2. IsTable(Chan, table')
    BY <1>0, <1>7, <2>1, UpdateFromOwnStatus DEF StatusTask
  <2> QED
    BY <1>7, <2>1, <2>2 DEF TypeOK, StatusTask, IsTable
<1>8. ASSUME NEW c \in Chan, RadiodStatus(c)
      PROVE  TypeOK'
  <2>1. [ssrc |-> c, freq_hz |-> radiod[c].freq_hz, data_group |-> GroupFor[radiod[c].preset]]
           \in Status
    BY ConstantsOK DEF TypeOK, RadiodChannel, Status
  <2>2. statuses' \in Seq(Status)
    BY <1>0, <1>8, <2>1, AppendProperties DEF RadiodStatus
  <2> QED
    BY <1>8, <2>2 DEF TypeOK, RadiodStatus
<1>9. CASE RadiodRestart
  <2>1. radiod' \in [Chan -> RadiodChannel]
    BY <1>9 DEF RadiodRestart, RadiodChannel, NoRadiodChannel
  <2> QED
    BY <1>9, <2>1 DEF TypeOK, RadiodRestart
<1>10. CASE UNCHANGED vars
  BY <1>10 DEF TypeOK, vars
<1> QED
  BY <1>1, <1>2, <1>3, <1>4, <1>5, <1>6, <1>7, <1>8, <1>9, <1>10 DEF Next

\* Type correctness (bridge.rs:64-77, 247-265; state.rs:90-104).
THEOREM TypeCorrect == Spec => []TypeOK
<1> QED
  BY InitTypeOK, NextTypeOK, PTL DEF Spec
-----------------------------------------------------------------------------
(* No bare tune.  `created` is set by another lock section than the one    *)
(* that reads it, and STATUS packets come in between; what carries         *)
(* NoBareTune across is that `created`, the decision taken from it and the *)
(* decision to set it all stand on a PRESET already sent.                  *)

PresetSent(c) == commanded[c].preset # NoPreset

CreatedStandsOnPreset == \A c \in DOMAIN table : table[c].created => PresetSent(c)

DecisionStandsOnPreset ==
    /\ pc = "tune_send" /\ ~needs_create => PresetSent(cur.ssrc)
    /\ pc = "tune_mark" => PresetSent(cur.ssrc)

CreateInv == NoBareTune /\ CreatedStandsOnPreset /\ DecisionStandsOnPreset

LEMMA SendCommandEffect ==
    ASSUME TypeOK, NEW c \in Chan, NEW p, NEW f, NEW lifetime,
           send_command(c, p, f, lifetime)
    PROVE  /\ \A d \in Chan : d # c => commanded'[d] = commanded[d]
           /\ commanded'[c].preset = IF p = NoPreset THEN commanded[c].preset ELSE p
           /\ commanded'[c].freq_hz = f
           /\ missed' = IF p = NoPreset THEN missed ELSE missed \ {c}
BY DEF TypeOK, send_command

LEMMA InitCreateInv == Init => CreateInv
BY DEF Init, CreateInv, NoBareTune, CreatedStandsOnPreset, DecisionStandsOnPreset,
       Commanded, NothingCommanded, EmptyTable

\* Steps of everybody but cmd_task and status_task leave it alone.
LEMMA BystandersKeepCreateInv ==
    ASSUME CreateInv, UNCHANGED <<pc, cur, needs_create, table, commanded>>
    PROVE  CreateInv'
BY DEF CreateInv, NoBareTune, CreatedStandsOnPreset, DecisionStandsOnPreset, Commanded, PresetSent

LEMMA NextCreateInv == TypeOK /\ CreateInv /\ [Next]_vars => CreateInv'
<1> SUFFICES ASSUME TypeOK, CreateInv, [Next]_vars PROVE CreateInv'
  OBVIOUS
<1> USE DEF clientVars, taskVars, radioVars, lost, history
<1>0. IsTable(Chan, table) /\ statuses \in Seq(Status)
  BY DEF TypeOK, IsTable
<1>t. pc \in {"tune_lock", "tune_send", "tune_mark"} =>
         cur.ssrc \in Chan /\ cur.freq_hz \in Freq
  BY DEF TypeOK, TuneCmd, Tunable
<1>1. ASSUME \/ SendInitialTune
             \/ \E k \in Tuner, c \in Tunable, f \in Freq : SetVfo(k, c, f)
             \/ \E k \in RateSetter, r \in Rate : SetSamplerate(k, r)
             \/ \E k \in Enabler, c \in Chan, on \in BOOLEAN : SetRxEnable(k, c, on)
             \/ \E k \in Client : send_bridge_cmd(k)
             \/ \E c \in Chan : RadiodStatus(c)
             \/ RadiodRestart
             \/ UNCHANGED vars
      PROVE  CreateInv'
  <2>1. UNCHANGED <<pc, cur, needs_create, table, commanded>>
    BY <1>1 DEF SendInitialTune, SetVfo, SetSamplerate, SetRxEnable, send_bridge_cmd,
                RadiodStatus, RadiodRestart, vars
  <2> QED
    BY <2>1, BystandersKeepCreateInv
<1>2. CASE StatusTask
  <2>1. Head(statuses) \in Status
    BY <1>0, <1>2, HeadTailProperties DEF StatusTask
  <2>2. \A d \in DOMAIN table' : table'[d].created => d \in DOMAIN table /\ table[d].created
    BY <1>0, <1>2, <2>1, UpdateFromOwnStatus DEF StatusTask
  <2> QED
    BY <1>2, <2>2 DEF StatusTask, CreateInv, NoBareTune, CreatedStandsOnPreset,
                      DecisionStandsOnPreset, Commanded, PresetSent
<1>3. CASE RecvTune
  BY <1>3 DEF RecvTune, CreateInv, NoBareTune, CreatedStandsOnPreset,
              DecisionStandsOnPreset, Commanded, PresetSent
<1>4. CASE TuneReadRate
  BY <1>4 DEF TuneReadRate, CreateInv, NoBareTune, CreatedStandsOnPreset,
              DecisionStandsOnPreset, Commanded, PresetSent
<1>5. CASE TuneLock
  <2> DEFINE c == cur.ssrc
             t == get_or_insert(table, c)
  <2>1. c \in Chan
    BY <1>5, <1>t DEF TuneLock
  <2>2. table' = t /\ needs_create' = ~t[c].created /\ pc' = "tune_send" /\ cur' = cur
        /\ commanded' = commanded
    BY <1>5 DEF TuneLock
  <2>3. /\ DOMAIN t = DOMAIN table \cup {c}
        /\ \A d \in DOMAIN table : t[d] = table[d]
        /\ c \notin DOMAIN table => t[c] = NewChannel
    <3> HIDE DEF c
    <3> QED  BY <1>0, <2>1, GetOrInsertChan
  <2>4. \A d \in DOMAIN t : t[d].created => d \in DOMAIN table /\ table[d].created
    BY <2>3 DEF NewChannel
  <2>5. CreatedStandsOnPreset'
    BY <2>2, <2>4 DEF CreateInv, CreatedStandsOnPreset, PresetSent
  <2>6. DecisionStandsOnPreset'
    BY <2>2, <2>3, <2>5 DEF DecisionStandsOnPreset, CreatedStandsOnPreset
  <2>7. NoBareTune'
    BY <2>2 DEF CreateInv, NoBareTune, Commanded
  <2> QED
    BY <2>5, <2>6, <2>7 DEF CreateInv
<1>6. CASE TuneSend
  <2> DEFINE p == IF needs_create THEN preset ELSE NoPreset
  <2>1. cur.ssrc \in Chan /\ preset # NoPreset
    BY <1>6, <1>t, ConstantsOK DEF TuneSend, TypeOK
  <2>2. /\ \A d \in Chan : d # cur.ssrc => commanded'[d] = commanded[d]
        /\ commanded'[cur.ssrc].preset = IF p = NoPreset THEN commanded[cur.ssrc].preset ELSE p
    BY <1>6, <2>1, SendCommandEffect DEF TuneSend
  <2>3. commanded'[cur.ssrc].preset # NoPreset
    BY <1>6, <2>1, <2>2 DEF TuneSend, CreateInv, DecisionStandsOnPreset, PresetSent
  <2>4. \A d \in Chan : d # cur.ssrc => commanded'[d] = commanded[d]
    BY <2>2
  <2>5. NoBareTune'
    BY <2>3, <2>4 DEF CreateInv, NoBareTune, Commanded, PresetSent
  <2>6. CreatedStandsOnPreset'
    BY <1>0, <1>6, <2>3, <2>4 DEF TuneSend, CreateInv, CreatedStandsOnPreset, PresetSent, IsTable
  <2>7. DecisionStandsOnPreset'
    BY <1>6, <2>3 DEF TuneSend, DecisionStandsOnPreset, PresetSent
  <2> QED
    BY <2>5, <2>6, <2>7 DEF CreateInv
<1>7. CASE TuneSendFails
  BY <1>7 DEF TuneSendFails, CreateInv, NoBareTune, CreatedStandsOnPreset,
              DecisionStandsOnPreset, Commanded, PresetSent
<1>8. CASE TuneMark
  <2>1. DOMAIN table' = DOMAIN table /\ \A d \in DOMAIN table : d # cur.ssrc => table'[d] = table[d]
    BY <1>0, <1>8, MarkCreated DEF TuneMark
  <2> QED
    BY <1>8, <2>1 DEF TuneMark, CreateInv, NoBareTune, CreatedStandsOnPreset,
                      DecisionStandsOnPreset, Commanded, PresetSent
<1>9. CASE RecvSetSr
  BY <1>9 DEF RecvSetSr, CreateInv, NoBareTune, CreatedStandsOnPreset,
              DecisionStandsOnPreset, Commanded, PresetSent
<1>10. CASE SetSrLock
  <2> DEFINE C == TunedChannels(cur.endpoint)
  <2>1. table' = invalidate(table, C) /\ commanded' = commanded /\ pc' \in {"recv", "setsr_send"}
    BY <1>10 DEF SetSrLock
  <2> HIDE DEF C
  <2>2. /\ DOMAIN table' = DOMAIN table
        /\ \A d \in DOMAIN table : table'[d].created => table[d].created
    BY <1>0, <2>1, Invalidate
  <2> QED
    BY <2>1, <2>2 DEF CreateInv, NoBareTune, CreatedStandsOnPreset,
                      DecisionStandsOnPreset, Commanded, PresetSent
<1>11. CASE SetSrSendFails
  BY <1>11 DEF SetSrSendFails, CreateInv, NoBareTune, CreatedStandsOnPreset,
               DecisionStandsOnPreset, Commanded, PresetSent
<1>12. CASE RecvEnableRx
  BY <1>12, BystandersKeepCreateInv DEF RecvEnableRx
<1>13. ASSUME NEW c \in Chan, SetSrSend(c)
       PROVE  CreateInv'
  <2>1. preset # NoPreset
    BY ConstantsOK DEF TypeOK
  <2>2. /\ \A d \in Chan : d # c => commanded'[d] = commanded[d]
        /\ commanded'[c].preset = preset
    BY <1>13, <2>1, SendCommandEffect DEF SetSrSend
  <2> QED
    BY <1>0, <1>13, <2>1, <2>2 DEF SetSrSend, CreateInv, NoBareTune, CreatedStandsOnPreset,
                      DecisionStandsOnPreset, Commanded, PresetSent, IsTable
<1> QED
  BY <1>1, <1>2, <1>3, <1>4, <1>5, <1>6, <1>7, <1>8, <1>9, <1>10, <1>11, <1>12, <1>13
     DEF Next, CmdTask

\* A channel is never tuned before it was sent a PRESET, whatever STATUS
\* packets, failures and other clients do (bridge.rs:152-158, 491-549).
THEOREM NeverBareTune == Spec => []NoBareTune
<1>1. Spec => []CreateInv
  BY TypeCorrect, InitCreateInv, NextCreateInv, PTL DEF Spec
<1>2. CreateInv => NoBareTune
  BY DEF CreateInv
<1> QED
  BY <1>1, <1>2, PTL

-----------------------------------------------------------------------------
(* What an aborted SetSr leaves behind. *)

AbandonInv == pc = "setsr_send" =>
                 DOMAIN snapshot \subseteq DOMAIN table
                 /\ \A c \in DOMAIN snapshot : ~table[c].created

LEMMA NextAbandonInv == TypeOK /\ AbandonInv /\ [Next]_vars => AbandonInv'
<1> SUFFICES ASSUME TypeOK, AbandonInv, [Next]_vars PROVE AbandonInv'
  OBVIOUS
<1> USE DEF clientVars, taskVars, radioVars, lost, history
<1>0. IsTable(Chan, table) /\ statuses \in Seq(Status)
  BY DEF TypeOK, IsTable
<1>1. CASE UNCHANGED <<pc, snapshot, table>>
  BY <1>1 DEF AbandonInv
<1>2. CASE pc' # "setsr_send"
  BY <1>2 DEF AbandonInv
<1>3. CASE StatusTask
  <2>1. Head(statuses) \in Status
    BY <1>0, <1>3, HeadTailProperties DEF StatusTask
  <2> DEFINE s == Head(statuses)
  <2>2. s \in Status /\ table' = update_from_status(table, s)
    BY <1>3, <2>1 DEF StatusTask
  <2> HIDE DEF s
  <2>3. DOMAIN table' = DOMAIN table \cup {s.ssrc}
    BY <1>0, <2>2, UpdateFromOwnStatus
  <2>4. \A d \in DOMAIN table : table'[d].created = table[d].created
    BY <1>0, <2>2, UpdateFromOwnStatus
  <2> QED
    BY <1>3, <2>3, <2>4 DEF StatusTask, AbandonInv
<1>4. CASE SetSrLock
  <2> DEFINE C == TunedChannels(cur.endpoint)
  <2>1. C \subseteq DOMAIN table
    BY DEF TunedChannels
  <2>2. table' = invalidate(table, C) /\ DOMAIN snapshot' = C
    BY <1>4 DEF SetSrLock
  <2> HIDE DEF C
  <2>3. DOMAIN table' = DOMAIN table /\ \A d \in C : ~table'[d].created
    BY <1>0, <2>1, <2>2, Invalidate
  <2> QED
    BY <2>1, <2>2, <2>3 DEF AbandonInv
<1>5. ASSUME NEW c \in Chan, SetSrSend(c)
      PROVE  AbandonInv'
  BY <1>5 DEF SetSrSend, AbandonInv
<1>6. Next => \/ UNCHANGED <<pc, snapshot, table>>
              \/ pc' # "setsr_send"
              \/ StatusTask \/ SetSrLock \/ \E c \in Chan : SetSrSend(c)
  BY DEF Next, CmdTask, SendInitialTune, SetVfo, SetSamplerate, SetRxEnable, send_bridge_cmd,
         RadiodStatus, RadiodRestart, RecvTune, TuneReadRate, TuneLock, TuneSend,
         TuneSendFails, TuneMark, RecvSetSr, SetSrSendFails, RecvEnableRx
<1>7. CASE UNCHANGED vars
  BY <1>1, <1>7 DEF vars
<1> QED
  BY <1>1, <1>2, <1>3, <1>4, <1>5, <1>6, <1>7

\* However a SetSr ends, every channel it did not reach is one the next Tune
\* re-creates (bridge.rs:580-599, 620).
THEOREM AbandonedRecreated == Spec => []AbandonedIsRecreated
<1>1. Init => AbandonInv
  BY DEF Init, AbandonInv
<1>2. AbandonInv => AbandonedIsRecreated
  BY DEF AbandonInv, AbandonedIsRecreated
<1> QED
  BY <1>1, <1>2, TypeCorrect, NextAbandonInv, PTL DEF Spec
-----------------------------------------------------------------------------
(* Endpoints do not disturb each other. *)

LEMMA AppendedCmd ==
    ASSUME NEW q \in Seq(Cmd), NEW x \in Cmd
    PROVE  /\ Append(q, x) \in Seq(Cmd)
           /\ Len(Append(q, x)) = Len(q) + 1
           /\ \A i \in 1..Len(q) : Append(q, x)[i] = q[i]
           /\ Append(q, x)[Len(q) + 1] = x
BY AppendProperties

LEMMA RemovedCmd ==
    ASSUME NEW q \in Seq(Cmd), q # <<>>
    PROVE  /\ Tail(q) \in Seq(Cmd)
           /\ Len(q) \in Nat \ {0}
           /\ Len(Tail(q)) = Len(q) - 1
           /\ \A i \in 1..Len(Tail(q)) : Tail(q)[i] = q[i + 1]
           /\ Head(q) = q[1]
BY HeadTailProperties, EmptySeq

OwnPresets(e) == {PresetFor(r) : r \in RatesOf[e]}

\* A rate an endpoint's clients asked for, or the one it started with.
OwnRate(x) == x.type = "SetSr" => x.samprate \in RatesOf[x.endpoint]

RatesAreOwn ==
    /\ \A e \in Endpoint : iq_samplerate[e] \in RatesOf[e]
    /\ \A k \in Client : OwnRate(handler[k])
    /\ \A i \in 1..Len(cmds) : OwnRate(cmds[i])

PresetIsOwn ==
    /\ pc \in {"tune_lock", "tune_send"} => preset \in OwnPresets(EndpointOf(cur.ssrc))
    /\ pc \in {"setsr_lock", "setsr_send"} => preset \in OwnPresets(cur.endpoint)

SnapshotIsOwn ==
    pc = "setsr_send" => \A c \in DOMAIN snapshot : EndpointOf(c) = cur.endpoint

IsolationInv == EndpointIsolation /\ RatesAreOwn /\ PresetIsOwn /\ SnapshotIsOwn

\* EndpointIsolation for one channel.
ChannelIsolated(c) ==
    PresetSent(c) => EndpointOf(c) \in Endpoint /\ commanded[c].preset \in OwnPresets(EndpointOf(c))

LEMMA IsolationByChannel == EndpointIsolation <=> \A c \in Chan : ChannelIsolated(c)
BY DEF EndpointIsolation, ChannelIsolated, PresetSent, OwnPresets

LEMMA InitIsolationInv == Init => IsolationInv
<1> SUFFICES ASSUME Init PROVE IsolationInv
  OBVIOUS
<1>1. EndpointIsolation
  BY DEF Init, EndpointIsolation, NothingCommanded
<1>2. RatesAreOwn
  BY BridgeAssumption, EmptySeq DEF Init, RatesAreOwn, OwnRate, NoCmd
<1> QED
  BY <1>1, <1>2 DEF Init, IsolationInv, PresetIsOwn, SnapshotIsOwn

LEMMA NextRatesAreOwn == TypeOK /\ RatesAreOwn /\ [Next]_vars => RatesAreOwn'
<1> SUFFICES ASSUME TypeOK, RatesAreOwn, [Next]_vars PROVE RatesAreOwn'
  OBVIOUS
<1> USE DEF clientVars, taskVars, radioVars, lost, history
<1>0. /\ cmds \in Seq(Cmd) /\ initial \in Seq(TuneCmd)
      /\ handler \in [Client -> Cmd \cup {NoCmd}] /\ iq_samplerate \in [Endpoint -> Rate]
  BY DEF TypeOK
<1>1. CASE UNCHANGED <<iq_samplerate, handler, cmds>>
  BY <1>1 DEF RatesAreOwn, OwnRate
<1>2. ASSUME NEW x \in Cmd, cmds' = Append(cmds, x), OwnRate(x), UNCHANGED iq_samplerate,
             \A k \in Client : handler'[k] \in {handler[k], NoCmd}
      PROVE  RatesAreOwn'
  BY <1>0, <1>2, AppendedCmd DEF RatesAreOwn, OwnRate, NoCmd
<1>3. ASSUME cmds # <<>>, cmds' = Tail(cmds), UNCHANGED <<iq_samplerate, handler>>
      PROVE  RatesAreOwn'
  <2>1. \A i \in 1..Len(cmds') : i + 1 \in 1..Len(cmds) /\ cmds'[i] = cmds[i + 1]
    BY <1>0, <1>3, RemovedCmd
  <2> QED
    BY <1>3, <2>1 DEF RatesAreOwn, OwnRate
<1>4. CASE SendInitialTune
  <2>1. Head(initial) \in Cmd /\ OwnRate(Head(initial))
    BY <1>0, <1>4, HeadTailProperties DEF SendInitialTune, Cmd, TuneCmd, OwnRate
  <2> QED
    BY <1>2, <1>4, <2>1 DEF SendInitialTune
<1>5. ASSUME NEW k \in Tuner, NEW c \in Tunable, NEW f \in Freq, SetVfo(k, c, f)
      PROVE  RatesAreOwn'
  BY <1>0, <1>5 DEF SetVfo, RatesAreOwn, OwnRate, Tune
<1>6. ASSUME NEW k \in RateSetter, NEW r \in Rate, SetSamplerate(k, r)
      PROVE  RatesAreOwn'
  BY <1>0, <1>6, BridgeAssumption DEF SetSamplerate, RatesAreOwn, OwnRate, SetSr, Client
<1>7. ASSUME NEW k \in Enabler, NEW c \in Chan, NEW on \in BOOLEAN, SetRxEnable(k, c, on)
      PROVE  RatesAreOwn'
  BY <1>0, <1>7 DEF SetRxEnable, RatesAreOwn, OwnRate, EnableRx
<1>8. ASSUME NEW k \in Client, send_bridge_cmd(k)
      PROVE  RatesAreOwn'
  <2>1. handler[k] \in Cmd /\ OwnRate(handler[k])
    BY <1>0, <1>8 DEF send_bridge_cmd, RatesAreOwn
  <2>2. \A j \in Client : handler'[j] \in {handler[j], NoCmd}
    BY <1>0, <1>8 DEF send_bridge_cmd
  <2>3. CASE cmds' = Append(cmds, handler[k])
    BY <1>2, <1>8, <2>1, <2>2, <2>3 DEF send_bridge_cmd
  <2>4. CASE cmds' = cmds
    BY <1>8, <2>2, <2>4 DEF send_bridge_cmd, RatesAreOwn, OwnRate, NoCmd
  <2> QED
    BY <1>8, <2>3, <2>4 DEF send_bridge_cmd
<1>9. CASE RecvTune \/ RecvSetSr \/ RecvEnableRx
  BY <1>3, <1>9 DEF RecvTune, RecvSetSr, RecvEnableRx
<1>10. Next => \/ UNCHANGED <<iq_samplerate, handler, cmds>>
               \/ SendInitialTune
               \/ \E k \in Tuner, c \in Tunable, f \in Freq : SetVfo(k, c, f)
               \/ \E k \in RateSetter, r \in Rate : SetSamplerate(k, r)
               \/ \E k \in Enabler, c \in Chan, on \in BOOLEAN : SetRxEnable(k, c, on)
               \/ \E k \in Client : send_bridge_cmd(k)
               \/ RecvTune \/ RecvSetSr \/ RecvEnableRx
  BY DEF Next, CmdTask, RadiodStatus, RadiodRestart, StatusTask, TuneReadRate, TuneLock,
         TuneSend, TuneSendFails, TuneMark, SetSrLock, SetSrSend, SetSrSendFails
<1>11. CASE UNCHANGED vars
  BY <1>1, <1>11 DEF vars
<1> QED
  BY <1>1, <1>4, <1>5, <1>6, <1>7, <1>8, <1>9, <1>10, <1>11

LEMMA NextIsolationInv == TypeOK /\ IsolationInv /\ [Next]_vars => IsolationInv'
<1> SUFFICES ASSUME TypeOK, IsolationInv, [Next]_vars PROVE IsolationInv'
  OBVIOUS
<1> USE DEF clientVars, taskVars, radioVars, lost, history
<1>0. RatesAreOwn /\ RatesAreOwn'
  BY NextRatesAreOwn DEF IsolationInv
<1>1. CASE UNCHANGED <<pc, cur, preset, snapshot, commanded>>
  BY <1>0, <1>1 DEF IsolationInv, EndpointIsolation, PresetIsOwn, SnapshotIsOwn
<1>2. CASE RecvTune \/ TuneSendFails \/ TuneMark \/ SetSrSendFails
  BY <1>0, <1>2 DEF IsolationInv, EndpointIsolation, PresetIsOwn, SnapshotIsOwn,
                    RecvTune, TuneSendFails, TuneMark, SetSrSendFails
<1>3. CASE TuneReadRate
  <2>1. EndpointOf(cur.ssrc) \in Endpoint
    BY <1>3 DEF TuneReadRate, TypeOK, TuneCmd, Tunable
  <2>2. preset' \in OwnPresets(EndpointOf(cur.ssrc))
    BY <1>0, <1>3, <2>1 DEF TuneReadRate, RatesAreOwn, OwnPresets
  <2> QED
    BY <1>0, <1>3, <2>2 DEF TuneReadRate, IsolationInv, EndpointIsolation, PresetIsOwn,
                            SnapshotIsOwn
<1>4. CASE TuneLock
  BY <1>0, <1>4 DEF TuneLock, IsolationInv, EndpointIsolation, PresetIsOwn, SnapshotIsOwn
<1>5. CASE TuneSend
  <2>1. cur.ssrc \in Chan /\ EndpointOf(cur.ssrc) \in Endpoint /\ preset \in OwnPresets(EndpointOf(cur.ssrc))
    BY <1>5 DEF TuneSend, TypeOK, TuneCmd, Tunable, IsolationInv, PresetIsOwn
  <2>2. /\ \A d \in Chan : d # cur.ssrc => commanded'[d] = commanded[d]
        /\ commanded'[cur.ssrc].preset \in {commanded[cur.ssrc].preset, preset}
    BY <1>5, <2>1, SendCommandEffect DEF TuneSend
  <2>3. \A c \in Chan : ChannelIsolated(c)
    BY IsolationByChannel DEF IsolationInv
  <2>4. \A c \in Chan : ChannelIsolated(c)'
    BY <2>1, <2>2, <2>3 DEF ChannelIsolated, PresetSent
  <2>5. EndpointIsolation'
    BY <2>4, IsolationByChannel DEF EndpointIsolation, ChannelIsolated, PresetSent, OwnPresets
  <2> QED
    BY <1>0, <1>5, <2>5 DEF TuneSend, IsolationInv, PresetIsOwn, SnapshotIsOwn
<1>6. CASE RecvSetSr
  <2>1. Head(cmds) \in SetSrCmd /\ OwnRate(Head(cmds))
    <3>1. cmds \in Seq(Cmd) /\ cmds # <<>>
      BY <1>6 DEF TypeOK, RecvSetSr
    <3>2. Len(cmds) \in Nat \ {0} /\ Head(cmds) = cmds[1] /\ Head(cmds) \in Cmd
      BY <3>1, RemovedCmd, CmdQueue
    <3> QED
      BY <1>0, <1>6, <3>2, CmdKinds DEF RecvSetSr, RatesAreOwn
  <2>2. preset' \in OwnPresets(Head(cmds).endpoint)
    BY <1>6, <2>1 DEF RecvSetSr, OwnRate, OwnPresets
  <2> QED
    BY <1>0, <1>6, <2>2 DEF RecvSetSr, IsolationInv, EndpointIsolation, PresetIsOwn, SnapshotIsOwn
<1>7. CASE SetSrLock
  <2>1. DOMAIN snapshot' = TunedChannels(cur.endpoint)
    BY <1>7 DEF SetSrLock
  <2>2. \A c \in DOMAIN snapshot' : EndpointOf(c) = cur.endpoint
    BY <2>1 DEF TunedChannels
  <2> QED
    BY <1>0, <1>7, <2>2 DEF SetSrLock, IsolationInv, EndpointIsolation, PresetIsOwn, SnapshotIsOwn
<1>8. ASSUME NEW c \in Chan, SetSrSend(c)
      PROVE  IsolationInv'
  <2>1. /\ cur.endpoint \in Endpoint /\ EndpointOf(c) = cur.endpoint
        /\ preset \in OwnPresets(cur.endpoint) /\ preset # NoPreset
    BY <1>8, ConstantsOK DEF SetSrSend, TypeOK, SetSrCmd, IsolationInv, PresetIsOwn, SnapshotIsOwn
  <2>2. /\ \A d \in Chan : d # c => commanded'[d] = commanded[d]
        /\ commanded'[c].preset = preset
    BY <1>8, <2>1, SendCommandEffect DEF SetSrSend
  <2>3. \A d \in Chan : ChannelIsolated(d)
    BY IsolationByChannel DEF IsolationInv
  <2>4. \A d \in Chan : ChannelIsolated(d)'
    BY <2>1, <2>2, <2>3 DEF ChannelIsolated, PresetSent
  <2>5. EndpointIsolation'
    BY <2>4 DEF EndpointIsolation, ChannelIsolated, PresetSent, OwnPresets
  <2> QED
    BY <1>0, <1>8, <2>1, <2>5 DEF SetSrSend, IsolationInv, PresetIsOwn, SnapshotIsOwn
<1>9. Next => \/ UNCHANGED <<pc, cur, preset, snapshot, commanded>>
              \/ RecvTune \/ TuneSendFails \/ TuneMark \/ SetSrSendFails
              \/ TuneReadRate \/ TuneLock \/ TuneSend \/ RecvSetSr \/ SetSrLock
              \/ \E c \in Chan : SetSrSend(c)
  BY DEF Next, CmdTask, SendInitialTune, SetVfo, SetSamplerate, SetRxEnable, send_bridge_cmd,
         RadiodStatus, RadiodRestart, StatusTask, RecvEnableRx
<1>10. CASE UNCHANGED vars
  BY <1>1, <1>10 DEF vars
<1> QED
  BY <1>1, <1>2, <1>3, <1>4, <1>5, <1>6, <1>7, <1>8, <1>9, <1>10

\* A channel is only ever given a preset for a rate its own endpoint has had
\* (bridge.rs:574-578).
THEOREM EndpointsIsolated == Spec => []EndpointIsolation
<1>1. Spec => []IsolationInv
  BY TypeCorrect, InitIsolationInv, NextIsolationInv, PTL DEF Spec
<1>2. IsolationInv => EndpointIsolation
  BY DEF IsolationInv
<1> QED
  BY <1>1, <1>2, PTL
-----------------------------------------------------------------------------
(* Rate agreement, when at most one session per endpoint changes the rate. *)
(* Follow the last SetSr of an endpoint: in the session that wrote the     *)
(* rate, in the queue, in cmd_task, in the presets of the channels.  Each  *)
(* part of the invariant says it carries the endpoint's rate there, as     *)
(* long as no later one is on its way.                                     *)

OneSetterPerEndpoint == \A j, k \in RateSetter : ServerOf[j] = ServerOf[k] => j = k

IsSetSr(x, e) == x.type = "SetSr" /\ x.endpoint = e

Handled(e) == \E k \in Client : IsSetSr(handler[k], e)
Queued(e)  == \E i \in 1..Len(cmds) : IsSetSr(cmds[i], e)

\* No SetSr of e is on its way to cmd_task, nor was the last one dropped.
Settled(e) == e \notin lost_sr /\ ~Handled(e) /\ ~Queued(e)

HandlerAgrees ==
    \A k \in Client : handler[k].type = "SetSr" =>
        /\ k \in RateSetter
        /\ handler[k].endpoint = ServerOf[k]
        /\ handler[k].samprate = iq_samplerate[ServerOf[k]]

IsLast(i, e) == IsSetSr(cmds[i], e) /\ \A j \in i + 1 .. Len(cmds) : ~IsSetSr(cmds[j], e)

QueueAgrees(e) ==
    e \notin lost_sr /\ ~Handled(e) =>
        \A i \in 1..Len(cmds) : IsLast(i, e) => cmds[i].samprate = iq_samplerate[e]

PresetAgrees(e) ==
    Settled(e) =>
        /\ pc \in {"setsr_lock", "setsr_send"} /\ cur.endpoint = e
               => preset = PresetFor(iq_samplerate[e])
        /\ pc \in {"tune_lock", "tune_send"} /\ EndpointOf(cur.ssrc) = e
               => preset = PresetFor(iq_samplerate[e])

ChannelAgrees(c, e) ==
    EndpointOf(c) = e /\ PresetSent(c) /\ c \notin missed =>
        \/ commanded[c].preset = PresetFor(iq_samplerate[e])
        \/ pc = "setsr_send" /\ c \in DOMAIN snapshot

ChannelsAgree(e) ==
    Settled(e) /\ ~(pc = "setsr_lock" /\ cur.endpoint = e) =>
        \A c \in Chan : ChannelAgrees(c, e)

EndpointAgrees(e) == QueueAgrees(e) /\ PresetAgrees(e) /\ ChannelsAgree(e)

RateInv == HandlerAgrees /\ \A e \in Endpoint : EndpointAgrees(e)

LEMMA InitRateInv == Init => RateInv
<1> SUFFICES ASSUME Init PROVE RateInv
  OBVIOUS
<1> USE DEF Init
<1>1. HandlerAgrees
  BY DEF HandlerAgrees, NoCmd
<1>2. ASSUME NEW e \in Endpoint
      PROVE  EndpointAgrees(e)
  <2>1. QueueAgrees(e)
    BY EmptySeq DEF QueueAgrees
  <2>2. PresetAgrees(e)
    BY DEF PresetAgrees
  <2>3. ChannelsAgree(e)
    BY DEF ChannelsAgree, ChannelAgrees, PresetSent, NothingCommanded
  <2> QED
    BY <2>1, <2>2, <2>3 DEF EndpointAgrees
<1> QED
  BY <1>1, <1>2 DEF RateInv

\* A session that is about to send a SetSr carries its endpoint's rate.
LEMMA NextHandlerAgrees ==
    ASSUME OneSetterPerEndpoint, TypeOK, HandlerAgrees, Next
    PROVE  HandlerAgrees'
<1> USE DEF clientVars, taskVars, radioVars, lost, history
<1>0. handler \in [Client -> Cmd \cup {NoCmd}] /\ iq_samplerate \in [Endpoint -> Rate]
  BY DEF TypeOK
<1>1. CASE UNCHANGED <<iq_samplerate, handler>>
  BY <1>1 DEF HandlerAgrees
<1>2. ASSUME NEW k \in Tuner, NEW c \in Tunable, NEW f \in Freq, SetVfo(k, c, f)
      PROVE  HandlerAgrees'
  BY <1>0, <1>2 DEF SetVfo, HandlerAgrees, Tune
<1>3. ASSUME NEW k \in RateSetter, NEW r \in Rate, SetSamplerate(k, r)
      PROVE  HandlerAgrees'
  <2>1. k \in Client /\ ServerOf[k] \in Endpoint
    BY BridgeAssumption DEF Client
  <2>2. handler'[k] = SetSr(ServerOf[k], r) /\ iq_samplerate'[ServerOf[k]] = r
    BY <1>0, <1>3, <2>1 DEF SetSamplerate
  <2>3. ASSUME NEW j \in Client, j # k, handler'[j].type = "SetSr"
        PROVE  j \in RateSetter /\ handler'[j].endpoint = ServerOf[j]
               /\ handler'[j].samprate = iq_samplerate'[ServerOf[j]]
    <3>1. handler'[j] = handler[j]
      BY <1>0, <1>3, <2>3 DEF SetSamplerate
    <3>2. j \in RateSetter /\ ServerOf[j] # ServerOf[k]
      BY <2>3, <3>1 DEF HandlerAgrees, OneSetterPerEndpoint
    <3>3. ServerOf[j] \in Endpoint /\ iq_samplerate'[ServerOf[j]] = iq_samplerate[ServerOf[j]]
      BY <1>0, <1>3, <3>2, BridgeAssumption DEF SetSamplerate, Client
    <3> QED
      BY <2>3, <3>1, <3>2, <3>3 DEF HandlerAgrees
  <2> QED
    BY <2>2, <2>3 DEF HandlerAgrees, SetSr
<1>4. ASSUME NEW k \in Enabler, NEW c \in Chan, NEW on \in BOOLEAN, SetRxEnable(k, c, on)
      PROVE  HandlerAgrees'
  BY <1>0, <1>4 DEF SetRxEnable, HandlerAgrees, EnableRx
<1>5. ASSUME NEW k \in Client, send_bridge_cmd(k)
      PROVE  HandlerAgrees'
  BY <1>0, <1>5 DEF send_bridge_cmd, HandlerAgrees, NoCmd
<1>6. Next => \/ UNCHANGED <<iq_samplerate, handler>>
              \/ \E k \in Tuner, c \in Tunable, f \in Freq : SetVfo(k, c, f)
              \/ \E k \in RateSetter, r \in Rate : SetSamplerate(k, r)
              \/ \E k \in Enabler, c \in Chan, on \in BOOLEAN : SetRxEnable(k, c, on)
              \/ \E k \in Client : send_bridge_cmd(k)
  BY DEF Next, CmdTask, SendInitialTune, RadiodStatus, RadiodRestart, StatusTask, TuneReadRate,
         TuneLock, TuneSend, TuneSendFails, TuneMark, SetSrLock, SetSrSend, SetSrSendFails,
         RecvTune, RecvSetSr, RecvEnableRx
<1> QED
  BY <1>1, <1>2, <1>3, <1>4, <1>5, <1>6
\* A step that takes nothing on with an endpoint's SetSr and leaves cmd_task
\* alone keeps what was settled.
LEMMA SettledStays ==
    ASSUME NEW e, PresetAgrees(e), ChannelsAgree(e), Settled(e)' => Settled(e),
           UNCHANGED <<iq_samplerate, pc, cur, preset, snapshot, commanded, missed>>
    PROVE  PresetAgrees(e)' /\ ChannelsAgree(e)'
BY DEF PresetAgrees, ChannelsAgree, ChannelAgrees, PresetSent

\* One command joins the queue.
LEMMA QueueAfterAppend ==
    ASSUME TypeOK, NEW x \in Cmd, cmds' = Append(cmds, x), NEW e
    PROVE  /\ Queued(e)' <=> Queued(e) \/ IsSetSr(x, e)
           /\ Len(cmds') = Len(cmds) + 1
           /\ cmds'[Len(cmds) + 1] = x
           /\ \A i \in 1..Len(cmds) : cmds'[i] = cmds[i]
           /\ \A i \in 1..Len(cmds) : IsLast(i, e)' => IsLast(i, e) /\ ~IsSetSr(x, e)
<1>0. cmds \in Seq(Cmd) /\ Len(cmds) \in Nat
  BY LenProperties DEF TypeOK
<1>1. /\ Len(cmds') = Len(cmds) + 1
      /\ cmds'[Len(cmds) + 1] = x
      /\ \A i \in 1..Len(cmds) : cmds'[i] = cmds[i]
  BY <1>0, AppendedCmd
<1>2. Queued(e)' <=> Queued(e) \/ IsSetSr(x, e)
  BY <1>0, <1>1 DEF Queued, IsSetSr
<1>3. \A i \in 1..Len(cmds) : IsLast(i, e)' => IsLast(i, e) /\ ~IsSetSr(x, e)
  BY <1>0, <1>1 DEF IsLast, IsSetSr
<1> QED
  BY <1>1, <1>2, <1>3

\* The oldest command leaves the queue.
LEMMA QueueAfterTail ==
    ASSUME TypeOK, cmds # <<>>, cmds' = Tail(cmds), NEW e
    PROVE  /\ Head(cmds) \in Cmd /\ Head(cmds) = cmds[1] /\ 1 \in 1..Len(cmds)
           /\ Queued(e) <=> Queued(e)' \/ IsSetSr(Head(cmds), e)
           /\ ~Queued(e)' /\ IsSetSr(Head(cmds), e) => IsLast(1, e)
           /\ \A i \in 1..Len(cmds') : /\ i + 1 \in 1..Len(cmds)
                                       /\ cmds'[i] = cmds[i + 1]
                                       /\ IsLast(i, e)' => IsLast(i + 1, e)
<1>0. /\ cmds \in Seq(Cmd) /\ Len(cmds) \in Nat \ {0} /\ Len(cmds') = Len(cmds) - 1
      /\ Head(cmds) \in Cmd /\ Head(cmds) = cmds[1]
      /\ \A i \in 1..Len(cmds') : cmds'[i] = cmds[i + 1]
  BY RemovedCmd, CmdQueue DEF TypeOK
<1>1. \A i \in 1..Len(cmds') : i + 1 \in 1..Len(cmds)
  BY <1>0
<1>2. \A i \in 2..Len(cmds) : i - 1 \in 1..Len(cmds') /\ cmds'[i - 1] = cmds[i]
  BY <1>0
<1>3. Queued(e) => Queued(e)' \/ IsSetSr(Head(cmds), e)
  <2> SUFFICES ASSUME NEW i \in 1..Len(cmds), IsSetSr(cmds[i], e), i # 1
               PROVE  Queued(e)'
    BY <1>0 DEF Queued
  <2>1. i \in 2..Len(cmds)
    BY <1>0
  <2> QED
    BY <1>2, <2>1 DEF Queued, IsSetSr
<1>4. Queued(e)' \/ IsSetSr(Head(cmds), e) => Queued(e)
  BY <1>0, <1>1 DEF Queued, IsSetSr
<1>5. ~Queued(e)' /\ IsSetSr(Head(cmds), e) => IsLast(1, e)
  <2> SUFFICES ASSUME ~Queued(e)', IsSetSr(cmds[1], e), NEW j \in 1 + 1 .. Len(cmds)
               PROVE  ~IsSetSr(cmds[j], e)
    BY <1>0 DEF IsLast
  <2>1. j \in 2..Len(cmds)
    OBVIOUS
  <2>2. j - 1 \in 1..Len(cmds') /\ cmds'[j - 1] = cmds[j]
    BY <1>2, <2>1
  <2> QED
    BY <2>2 DEF Queued, IsSetSr
<1>6. ASSUME NEW i \in 1..Len(cmds'), IsLast(i, e)'
      PROVE  IsLast(i + 1, e)
  <2>1. IsSetSr(cmds[i + 1], e)
    BY <1>0, <1>6 DEF IsLast, IsSetSr
  <2>2. ASSUME NEW j \in (i + 1) + 1 .. Len(cmds)
        PROVE  ~IsSetSr(cmds[j], e)
    <3>1. j \in 2..Len(cmds) /\ j - 1 \in i + 1 .. Len(cmds')
      BY <1>0
    <3> QED
      BY <1>2, <1>6, <3>1 DEF IsLast, IsSetSr
  <2> QED
    BY <2>1, <2>2 DEF IsLast
<1> QED
  BY <1>0, <1>1, <1>3, <1>4, <1>5, <1>6

\* The steps of clients and of main.
LEMMA ClientKeepsAgreement ==
    ASSUME OneSetterPerEndpoint, TypeOK, RateInv, NEW e \in Endpoint,
           \/ SendInitialTune
           \/ \E k \in Tuner, c \in Tunable, f \in Freq : SetVfo(k, c, f)
           \/ \E k \in RateSetter, r \in Rate : SetSamplerate(k, r)
           \/ \E k \in Enabler, c \in Chan, on \in BOOLEAN : SetRxEnable(k, c, on)
           \/ \E k \in Client : send_bridge_cmd(k)
    PROVE  EndpointAgrees(e)'
<1> USE DEF clientVars, taskVars, radioVars, lost, history
<1>0. /\ cmds \in Seq(Cmd) /\ initial \in Seq(TuneCmd) /\ Len(cmds) \in Nat
      /\ handler \in [Client -> Cmd \cup {NoCmd}] /\ iq_samplerate \in [Endpoint -> Rate]
      /\ HandlerAgrees /\ QueueAgrees(e) /\ PresetAgrees(e) /\ ChannelsAgree(e)
  BY LenProperties DEF TypeOK, RateInv, EndpointAgrees
<1>1. CASE SendInitialTune
  <2> DEFINE x == Head(initial)
  <2>1. x \in Cmd /\ x.type = "Tune" /\ cmds' = Append(cmds, x)
    <3>1. Head(initial) \in TuneCmd
      BY <1>0, <1>1, HeadTailProperties DEF SendInitialTune
    <3> QED
      BY <1>1, <3>1 DEF SendInitialTune, Cmd, TuneCmd
  <2> HIDE DEF x
  <2>2. UNCHANGED <<iq_samplerate, handler, lost_sr, pc, cur, preset, snapshot, commanded, missed>>
    BY <1>1 DEF SendInitialTune
  <2>3. Handled(e)' <=> Handled(e)
    BY <2>2 DEF Handled, IsSetSr
  <2>4. Queued(e)' <=> Queued(e)
    BY <2>1, QueueAfterAppend DEF IsSetSr
  <2>5. QueueAgrees(e)'
    <3> SUFFICES ASSUME e \notin lost_sr, ~Handled(e), NEW i \in 1..Len(cmds'), IsLast(i, e)'
                 PROVE  cmds'[i].samprate = iq_samplerate[e]
      BY <2>2, <2>3 DEF QueueAgrees
    <3>1. i \in 1..Len(cmds) /\ cmds'[i] = cmds[i] /\ IsLast(i, e)
      BY <1>0, <2>1, QueueAfterAppend DEF IsLast, IsSetSr
    <3> QED
      BY <1>0, <3>1 DEF QueueAgrees
  <2> QED
    BY <1>0, <2>2, <2>3, <2>4, <2>5, SettledStays DEF EndpointAgrees, Settled
<1>2. ASSUME UNCHANGED <<iq_samplerate, cmds, lost_sr, pc, cur, preset, snapshot, commanded, missed>>,
             NEW k \in Client, NEW x \in Cmd, x.type # "SetSr", handler[k] = NoCmd,
             handler' = [handler EXCEPT ![k] = x]
      PROVE  EndpointAgrees(e)'
  <2>1. Handled(e)' <=> Handled(e)
    BY <1>0, <1>2 DEF Handled, IsSetSr, NoCmd
  <2>2. (Queued(e)' <=> Queued(e)) /\ QueueAgrees(e)'
    BY <1>0, <1>2, <2>1 DEF Queued, QueueAgrees, IsLast, IsSetSr
  <2> QED
    BY <1>0, <1>2, <2>1, <2>2, SettledStays DEF EndpointAgrees, Settled
<1>3. ASSUME NEW k \in Tuner, NEW c \in Tunable, NEW f \in Freq, SetVfo(k, c, f)
      PROVE  EndpointAgrees(e)'
  <2>1. Tune(c, f) \in Cmd /\ Tune(c, f).type # "SetSr" /\ k \in Client
    BY DEF Tune, TuneCmd, Cmd, Client
  <2> QED
    BY <1>2, <1>3, <2>1 DEF SetVfo
<1>4. ASSUME NEW k \in Enabler, NEW c \in Chan, NEW on \in BOOLEAN, SetRxEnable(k, c, on)
      PROVE  EndpointAgrees(e)'
  <2>1. EnableRx(c, on) \in Cmd /\ EnableRx(c, on).type # "SetSr" /\ k \in Client
    BY DEF EnableRx, EnableRxCmd, Cmd, Client
  <2> QED
    BY <1>2, <1>4, <2>1 DEF SetRxEnable
<1>5. ASSUME NEW k \in RateSetter, NEW r \in Rate, SetSamplerate(k, r)
      PROVE  EndpointAgrees(e)'
  <2>1. k \in Client /\ ServerOf[k] \in Endpoint /\ handler[k] = NoCmd
    BY <1>5, BridgeAssumption DEF SetSamplerate, Client
  <2>2. CASE e = ServerOf[k]
    <3>1. Handled(e)'
      BY <1>0, <1>5, <2>1, <2>2 DEF SetSamplerate, Handled, IsSetSr, SetSr
    <3> QED
      BY <3>1 DEF EndpointAgrees, QueueAgrees, PresetAgrees, ChannelsAgree, Settled
  <2>3. CASE e # ServerOf[k]
    <3>1. /\ iq_samplerate'[e] = iq_samplerate[e]
          /\ UNCHANGED <<cmds, lost_sr, pc, cur, preset, snapshot, commanded, missed>>
      BY <1>0, <1>5, <2>3 DEF SetSamplerate
    <3>2. Handled(e)' <=> Handled(e)
      BY <1>0, <1>5, <2>1, <2>3 DEF SetSamplerate, Handled, IsSetSr, SetSr, NoCmd
    <3>3. (Queued(e)' <=> Queued(e)) /\ QueueAgrees(e)'
      BY <1>0, <3>1, <3>2 DEF Queued, QueueAgrees, IsLast, IsSetSr
    <3>4. PresetAgrees(e)'
      BY <1>0, <3>1, <3>2, <3>3 DEF PresetAgrees, Settled
    <3>5. ChannelsAgree(e)'
      BY <1>0, <3>1, <3>2, <3>3 DEF ChannelsAgree, ChannelAgrees, PresetSent, Settled
    <3> QED
      BY <3>3, <3>4, <3>5 DEF EndpointAgrees
  <2> QED
    BY <2>2, <2>3
<1>6. ASSUME NEW k \in Client, send_bridge_cmd(k)
      PROVE  EndpointAgrees(e)'
  <2> DEFINE x == handler[k]
  <2>1. x \in Cmd /\ x # NoCmd
    BY <1>0, <1>6 DEF send_bridge_cmd
  <2>2. /\ UNCHANGED <<iq_samplerate, pc, cur, preset, snapshot, commanded, missed>>
        /\ handler' = [handler EXCEPT ![k] = NoCmd]
    BY <1>6 DEF send_bridge_cmd
  <2>3. \/ /\ cmds' = Append(cmds, x)
           /\ lost_sr' = IF x.type = "SetSr" THEN lost_sr \ {x.endpoint} ELSE lost_sr
        \/ /\ cmds' = cmds
           /\ lost_sr' = IF x.type = "SetSr" THEN lost_sr \cup {x.endpoint} ELSE lost_sr
    BY <1>6 DEF send_bridge_cmd
  <2>4. Handled(e) => Handled(e)' \/ IsSetSr(x, e)
    BY <1>0, <2>2 DEF Handled, IsSetSr
  <2>5. IsSetSr(x, e) => x.samprate = iq_samplerate[e]
    BY <1>0 DEF HandlerAgrees, IsSetSr
  <2> HIDE DEF x
  <2>6. CASE cmds' = Append(cmds, x) /\ lost_sr' = IF x.type = "SetSr" THEN lost_sr \ {x.endpoint} ELSE lost_sr
    <3>1. Settled(e)' => Settled(e)
      BY <2>1, <2>4, <2>6, QueueAfterAppend DEF Settled, IsSetSr
    <3>2. QueueAgrees(e)'
      <4> SUFFICES ASSUME e \notin lost_sr', ~Handled(e)', NEW i \in 1..Len(cmds'), IsLast(i, e)'
                   PROVE  cmds'[i].samprate = iq_samplerate[e]
        BY <2>2 DEF QueueAgrees
      <4>1. CASE i = Len(cmds) + 1
        <5>1. cmds'[i] = x /\ IsSetSr(x, e)
          BY <2>1, <2>6, <4>1, QueueAfterAppend DEF IsLast, IsSetSr
        <5> QED
          BY <2>5, <5>1
      <4>2. CASE i # Len(cmds) + 1
        <5>1. i \in 1..Len(cmds) /\ cmds'[i] = cmds[i] /\ IsLast(i, e) /\ ~IsSetSr(x, e)
          <6>1. i \in 1..Len(cmds)
            BY <1>0, <2>1, <2>6, <4>2, QueueAfterAppend
          <6> QED
            BY <2>1, <2>6, <6>1, QueueAfterAppend
        <5>2. e \notin lost_sr /\ ~Handled(e)
          BY <2>4, <2>6, <5>1 DEF IsSetSr
        <5> QED
          BY <1>0, <5>1, <5>2 DEF QueueAgrees
      <4> QED
        BY <4>1, <4>2
    <3> QED
      BY <1>0, <2>2, <3>1, <3>2, SettledStays DEF EndpointAgrees
  <2>7. CASE cmds' = cmds /\ lost_sr' = IF x.type = "SetSr" THEN lost_sr \cup {x.endpoint} ELSE lost_sr
    <3>1. e \notin lost_sr' => e \notin lost_sr /\ ~IsSetSr(x, e)
      BY <2>7 DEF IsSetSr
    <3>2. Settled(e)' => Settled(e)
      BY <2>4, <2>7, <3>1 DEF Settled, Queued, IsSetSr
    <3>3. QueueAgrees(e)'
      BY <1>0, <2>2, <2>4, <2>7, <3>1 DEF QueueAgrees, IsLast, IsSetSr
    <3> QED
      BY <1>0, <2>2, <3>2, <3>3, SettledStays DEF EndpointAgrees
  <2> QED
    BY <2>3, <2>6, <2>7
<1> QED
  BY <1>1, <1>3, <1>4, <1>5, <1>6
\* The steps of cmd_task that take a command off the queue.
LEMMA RecvKeepsAgreement ==
    ASSUME TypeOK, RateInv, NEW e \in Endpoint, RecvTune \/ RecvSetSr \/ RecvEnableRx
    PROVE  EndpointAgrees(e)'
<1> USE DEF clientVars, taskVars, radioVars, lost, history
<1>0. QueueAgrees(e) /\ PresetAgrees(e) /\ ChannelsAgree(e)
  BY DEF RateInv, EndpointAgrees
<1>1. /\ cmds # <<>> /\ cmds' = Tail(cmds) /\ pc = "recv"
      /\ UNCHANGED <<iq_samplerate, handler, lost_sr, snapshot, commanded, missed>>
  BY DEF RecvTune, RecvSetSr, RecvEnableRx
<1>2. Handled(e)' <=> Handled(e)
  BY <1>1 DEF Handled, IsSetSr
<1>3. QueueAgrees(e)'
  <2> SUFFICES ASSUME e \notin lost_sr, ~Handled(e), NEW i \in 1..Len(cmds'), IsLast(i, e)'
               PROVE  cmds'[i].samprate = iq_samplerate[e]
    BY <1>1, <1>2 DEF QueueAgrees
  <2>1. i + 1 \in 1..Len(cmds) /\ cmds'[i] = cmds[i + 1] /\ IsLast(i + 1, e)
    BY <1>1, QueueAfterTail
  <2> QED
    BY <1>0, <2>1 DEF QueueAgrees
<1> DEFINE x == Head(cmds)
<1>4. x \in Cmd /\ x = cmds[1] /\ 1 \in 1..Len(cmds)
  BY <1>1, QueueAfterTail
<1>5. /\ Queued(e) <=> Queued(e)' \/ IsSetSr(x, e)
      /\ ~Queued(e)' /\ IsSetSr(x, e) => IsLast(1, e)
  BY <1>1, QueueAfterTail
<1>6. CASE RecvTune \/ RecvEnableRx
  <2>1. pc' \in {"recv", "tune_rate"}
    BY <1>1, <1>6 DEF RecvTune, RecvEnableRx
  <2>2. Settled(e)' => Settled(e)
    BY <1>1, <1>2, <1>5, <1>6 DEF RecvTune, RecvEnableRx, Settled, IsSetSr
  <2>3. PresetAgrees(e)'
    BY <2>1 DEF PresetAgrees
  <2>4. ChannelsAgree(e)'
    BY <1>0, <1>1, <2>1, <2>2 DEF ChannelsAgree, ChannelAgrees, PresetSent
  <2> QED
    BY <1>3, <2>3, <2>4 DEF EndpointAgrees
<1>7. CASE RecvSetSr
  <2>1. /\ x.type = "SetSr" /\ cur' = x /\ pc' = "setsr_lock"
        /\ preset' = PresetFor(x.samprate)
    BY <1>7 DEF RecvSetSr
  <2>2. CASE x.endpoint = e
    <3>1. IsSetSr(x, e)
      BY <2>1, <2>2 DEF IsSetSr
    <3>2. Settled(e)' => x.samprate = iq_samplerate[e]
      BY <1>0, <1>1, <1>2, <1>4, <1>5, <3>1 DEF Settled, QueueAgrees
    <3>3. PresetAgrees(e)'
      BY <1>1, <2>1, <3>2 DEF PresetAgrees
    <3>4. ChannelsAgree(e)'
      BY <2>1, <2>2 DEF ChannelsAgree
    <3> QED
      BY <1>3, <3>3, <3>4 DEF EndpointAgrees
  <2>3. CASE x.endpoint # e
    <3>1. Settled(e)' => Settled(e)
      BY <1>1, <1>2, <1>5, <2>3 DEF Settled, IsSetSr
    <3>2. PresetAgrees(e)'
      BY <2>1, <2>3 DEF PresetAgrees
    <3>3. ChannelsAgree(e)'
      BY <1>0, <1>1, <3>1 DEF ChannelsAgree, ChannelAgrees, PresetSent
    <3> QED
      BY <1>3, <3>2, <3>3 DEF EndpointAgrees
  <2> QED
    BY <2>2, <2>3
<1> QED
  BY <1>6, <1>7

\* A step that changes neither the queue of an endpoint's SetSrs nor its rate.
LEMMA QueueStays ==
    ASSUME NEW e, UNCHANGED <<iq_samplerate, handler, cmds, lost_sr>>
    PROVE  /\ Settled(e)' <=> Settled(e)
           /\ QueueAgrees(e) => QueueAgrees(e)'
BY DEF Settled, Handled, Queued, QueueAgrees, IsLast, IsSetSr

\* The other steps of cmd_task.
LEMMA DispatchKeepsAgreement ==
    ASSUME TypeOK, IsolationInv, RateInv, NEW e \in Endpoint,
           \/ TuneReadRate \/ TuneLock \/ TuneSend \/ TuneSendFails \/ TuneMark
           \/ SetSrLock \/ SetSrSendFails
           \/ \E c \in Chan : SetSrSend(c)
    PROVE  EndpointAgrees(e)'
<1> USE DEF clientVars, taskVars, radioVars, lost, history
<1>0. QueueAgrees(e) /\ PresetAgrees(e) /\ ChannelsAgree(e)
  BY DEF RateInv, EndpointAgrees
<1>1. UNCHANGED <<iq_samplerate, handler, cmds, lost_sr, cur>>
  BY DEF TuneReadRate, TuneLock, TuneSend, TuneSendFails, TuneMark, SetSrLock, SetSrSendFails,
         SetSrSend
<1>2. (Settled(e)' <=> Settled(e)) /\ QueueAgrees(e)'
  BY <1>0, <1>1, QueueStays
<1>3. CASE TuneReadRate \/ TuneLock \/ TuneSendFails \/ TuneMark
  <2>1. /\ pc \in {"tune_rate", "tune_lock", "tune_send", "tune_mark"}
        /\ pc' \in {"tune_lock", "tune_send", "recv"}
        /\ UNCHANGED <<commanded, missed>>
    BY <1>3 DEF TuneReadRate, TuneLock, TuneSendFails, TuneMark
  <2>2. PresetAgrees(e)'
    <3>1. CASE TuneReadRate
      BY <1>1, <3>1 DEF TuneReadRate, PresetAgrees
    <3>2. CASE TuneLock
      BY <1>0, <1>1, <1>2, <3>2 DEF TuneLock, PresetAgrees
    <3>3. CASE pc' = "recv"
      BY <3>3 DEF PresetAgrees
    <3> QED
      BY <1>3, <3>1, <3>2, <3>3 DEF TuneSendFails, TuneMark
  <2>3. ChannelsAgree(e)'
    BY <1>0, <1>1, <1>2, <2>1 DEF ChannelsAgree, ChannelAgrees, PresetSent
  <2> QED
    BY <1>2, <2>2, <2>3 DEF EndpointAgrees
<1>4. CASE TuneSend
  <2> DEFINE p == IF needs_create THEN preset ELSE NoPreset
  <2>1. cur.ssrc \in Chan /\ preset # NoPreset
    BY <1>4, ConstantsOK DEF TuneSend, TypeOK, TuneCmd, Tunable
  <2>2. /\ \A d \in Chan : d # cur.ssrc => commanded'[d] = commanded[d]
        /\ commanded'[cur.ssrc].preset = IF p = NoPreset THEN commanded[cur.ssrc].preset ELSE p
        /\ missed' = IF p = NoPreset THEN missed ELSE missed \ {cur.ssrc}
    BY <1>4, <2>1, SendCommandEffect DEF TuneSend
  <2>3. pc = "tune_send" /\ pc' \in {"tune_mark", "recv"}
    BY <1>4 DEF TuneSend
  <2>4. PresetAgrees(e)'
    BY <2>3 DEF PresetAgrees
  <2>5. ChannelsAgree(e)'
    <3> SUFFICES ASSUME Settled(e), NEW c \in Chan, EndpointOf(c) = e, PresetSent(c)', c \notin missed'
                 PROVE  commanded'[c].preset = PresetFor(iq_samplerate[e])
      BY <1>1, <1>2 DEF ChannelsAgree, ChannelAgrees
    <3>1. CASE c = cur.ssrc /\ needs_create
      BY <1>0, <2>1, <2>2, <2>3, <3>1 DEF PresetAgrees
    <3>2. CASE c # cur.ssrc \/ ~needs_create
      <4>1. commanded'[c].preset = commanded[c].preset /\ c \notin missed
        BY <2>2, <3>2
      <4> QED
        BY <1>0, <2>3, <4>1 DEF ChannelsAgree, ChannelAgrees, PresetSent
    <3> QED
      BY <3>1, <3>2
  <2> QED
    BY <1>2, <2>4, <2>5 DEF EndpointAgrees
<1>5. CASE SetSrLock
  <2> DEFINE C == TunedChannels(cur.endpoint)
  <2>1. /\ pc = "setsr_lock" /\ DOMAIN snapshot' = C
        /\ pc' = IF C = {} THEN "recv" ELSE "setsr_send"
        /\ missed' = missed \cup {c \in Chan \ C : /\ EndpointOf(c) = cur.endpoint
                                                   /\ commanded[c].preset # NoPreset}
        /\ UNCHANGED <<preset, commanded>>
    BY <1>5 DEF SetSrLock
  <2> HIDE DEF C
  <2>2. PresetAgrees(e)'
    BY <1>0, <1>1, <1>2, <2>1 DEF PresetAgrees
  <2>3. ChannelsAgree(e)'
    <3> SUFFICES ASSUME Settled(e), NEW c \in Chan, EndpointOf(c) = e, PresetSent(c), c \notin missed'
                 PROVE  \/ commanded[c].preset = PresetFor(iq_samplerate[e])
                        \/ pc' = "setsr_send" /\ c \in DOMAIN snapshot'
      BY <1>1, <1>2, <2>1 DEF ChannelsAgree, ChannelAgrees, PresetSent
    <3>1. CASE cur.endpoint = e
      BY <2>1, <3>1 DEF PresetSent
    <3>2. CASE cur.endpoint # e
      BY <1>0, <2>1, <3>2 DEF ChannelsAgree, ChannelAgrees
    <3> QED
      BY <3>1, <3>2
  <2> QED
    BY <1>2, <2>2, <2>3 DEF EndpointAgrees
<1>6. CASE SetSrSendFails
  <2>1. /\ pc = "setsr_send" /\ pc' = "recv" /\ missed' = missed \cup DOMAIN snapshot
        /\ UNCHANGED <<preset, commanded>>
    BY <1>6 DEF SetSrSendFails
  <2>2. PresetAgrees(e)'
    BY <2>1 DEF PresetAgrees
  <2>3. ChannelsAgree(e)'
    BY <1>0, <1>1, <1>2, <2>1 DEF ChannelsAgree, ChannelAgrees, PresetSent
  <2> QED
    BY <1>2, <2>2, <2>3 DEF EndpointAgrees
<1>7. ASSUME NEW d \in Chan, SetSrSend(d)
      PROVE  EndpointAgrees(e)'
  <2>1. /\ pc = "setsr_send" /\ d \in DOMAIN snapshot /\ preset # NoPreset
        /\ pc' = IF DOMAIN snapshot = {d} THEN "recv" ELSE "setsr_send"
        /\ DOMAIN snapshot' = DOMAIN snapshot \ {d}
        /\ UNCHANGED preset
    BY <1>7, ConstantsOK DEF SetSrSend, TypeOK
  <2>2. EndpointOf(d) = cur.endpoint
    BY <2>1 DEF IsolationInv, SnapshotIsOwn
  <2>3. /\ \A c \in Chan : c # d => commanded'[c] = commanded[c]
        /\ commanded'[d].preset = preset
        /\ missed' = missed \ {d}
    BY <1>7, <2>1, SendCommandEffect DEF SetSrSend
  <2>4. PresetAgrees(e)'
    BY <1>0, <1>1, <1>2, <2>1 DEF PresetAgrees
  <2>5. ChannelsAgree(e)'
    <3> SUFFICES ASSUME Settled(e), NEW c \in Chan, EndpointOf(c) = e, PresetSent(c)', c \notin missed'
                 PROVE  \/ commanded'[c].preset = PresetFor(iq_samplerate[e])
                        \/ pc' = "setsr_send" /\ c \in DOMAIN snapshot'
      BY <1>1, <1>2 DEF ChannelsAgree, ChannelAgrees
    <3>1. CASE c = d
      BY <1>0, <2>1, <2>2, <2>3, <3>1 DEF PresetAgrees
    <3>2. CASE c # d
      BY <1>0, <2>1, <2>3, <3>2 DEF ChannelsAgree, ChannelAgrees, PresetSent
    <3> QED
      BY <3>1, <3>2
  <2> QED
    BY <1>2, <2>4, <2>5 DEF EndpointAgrees
<1> QED
  BY <1>3, <1>4, <1>5, <1>6, <1>7

\* The steps of status_task and radiod, and stuttering.
LEMMA OthersKeepAgreement ==
    ASSUME RateInv, NEW e \in Endpoint,
           UNCHANGED <<iq_samplerate, handler, cmds, lost_sr, pc, cur, preset, snapshot,
                       commanded, missed>>
    PROVE  EndpointAgrees(e)'
<1>1. QueueAgrees(e) /\ PresetAgrees(e) /\ ChannelsAgree(e)
  BY DEF RateInv, EndpointAgrees
<1>2. (Settled(e)' <=> Settled(e)) /\ QueueAgrees(e)'
  BY <1>1, QueueStays
<1> QED
  BY <1>1, <1>2, SettledStays DEF EndpointAgrees

LEMMA NextRateInv ==
    ASSUME OneSetterPerEndpoint
    PROVE  TypeOK /\ IsolationInv /\ RateInv /\ [Next]_vars => RateInv'
<1> SUFFICES ASSUME TypeOK, IsolationInv, RateInv, [Next]_vars PROVE RateInv'
  OBVIOUS
<1>1. HandlerAgrees'
  <2>1. CASE UNCHANGED vars
    BY <2>1 DEF vars, clientVars, RateInv, HandlerAgrees
  <2> QED
    BY <2>1, NextHandlerAgrees DEF RateInv
<1>2. ASSUME NEW e \in Endpoint
      PROVE  EndpointAgrees(e)'
  <2>1. CASE UNCHANGED vars \/ StatusTask \/ RadiodRestart \/ \E c \in Chan : RadiodStatus(c)
    <3>1. UNCHANGED <<iq_samplerate, handler, cmds, lost_sr, pc, cur, preset, snapshot,
                      commanded, missed>>
      BY <2>1 DEF vars, clientVars, taskVars, radioVars, lost, history, StatusTask,
                  RadiodRestart, RadiodStatus
    <3> QED
      BY <3>1, OthersKeepAgreement
  <2> QED
    BY <2>1, ClientKeepsAgreement, RecvKeepsAgreement, DispatchKeepsAgreement DEF Next, CmdTask
<1> QED
  BY <1>1, <1>2 DEF RateInv

\* The comment at bridge.rs:370-380 made precise: whatever races between VFO
\* and IQ_SAMPLERATE, drops, failures and STATUS packets do, a quiet bridge has
\* last given every channel the preset of its endpoint's rate, except where it
\* dropped that SetSr or could not reach the channel.
THEOREM RatesAgree ==
    ASSUME OneSetterPerEndpoint
    PROVE  Spec => []RateAgreement
<1>1. IsolationInv /\ RateInv => RateAgreement
  <2> SUFFICES ASSUME IsolationInv, RateInv, Quiet, NEW c \in Chan,
                      commanded[c].preset # NoPreset, EndpointOf(c) \notin lost_sr, c \notin missed
               PROVE  commanded[c].preset = PresetFor(iq_samplerate[EndpointOf(c)])
    BY DEF RateAgreement
  <2> DEFINE e == EndpointOf(c)
  <2>1. e \in Endpoint
    BY DEF IsolationInv, EndpointIsolation
  <2>2. Settled(e)
    BY EmptySeq DEF Quiet, Settled, Handled, Queued, IsSetSr, NoCmd
  <2>3. ChannelsAgree(e)
    BY <2>1 DEF RateInv, EndpointAgrees
  <2> QED
    BY <2>2, <2>3 DEF ChannelsAgree, ChannelAgrees, PresetSent, Quiet
<1>2. Spec => []IsolationInv
  BY TypeCorrect, InitIsolationInv, NextIsolationInv, PTL DEF Spec
<1>3. TypeOK /\ IsolationInv /\ RateInv /\ [Next]_vars => RateInv'
  BY NextRateInv
<1>4. Spec => []RateInv
  BY TypeCorrect, InitRateInv, <1>2, <1>3, PTL DEF Spec
<1> QED
  BY <1>1, <1>2, <1>4, PTL
-----------------------------------------------------------------------------
(* Frequency agreement of a channel with one source of Tunes, on an        *)
(* endpoint whose rate stands.  Follow its last Tune: it carries the       *)
(* announced frequency in main's list, in the session, as the last of the  *)
(* queue, in cmd_task and in the last COMMAND.                             *)

IsTuneOf(x, c) == x.type = "Tune" /\ x.ssrc = c

TuneHandled(c) == \E k \in Client : IsTuneOf(handler[k], c)
TuneQueued(c)  == \E i \in 1..Len(cmds) : IsTuneOf(cmds[i], c)

\* No Tune of c is on its way to cmd_task, nor was the last one dropped.
TunesSettled(c) == c \notin lost_tune /\ ~TuneHandled(c) /\ ~TuneQueued(c)

NoSetSrOf(e) ==
    /\ \A k \in Client : ~IsSetSr(handler[k], e)
    /\ \A i \in 1..Len(cmds) : ~IsSetSr(cmds[i], e)
    /\ pc \in {"setsr_lock", "setsr_send"} => cur.endpoint # e

SessionTunesAgree(c) ==
    \A k \in Client : IsTuneOf(handler[k], c) =>
        k \in Tuner /\ ServerOf[k] = EndpointOf(c) /\ handler[k].freq_hz = vfo_freq[c]

InitialTunesAgree(c) ==
    \A i \in 1..Len(initial) : IsTuneOf(initial[i], c) =>
        /\ \A k \in Tuner : ServerOf[k] # EndpointOf(c)
        /\ initial[i].freq_hz = vfo_freq[c]

IsLastTune(i, c) == IsTuneOf(cmds[i], c) /\ \A j \in i + 1 .. Len(cmds) : ~IsTuneOf(cmds[j], c)

TuneQueueAgrees(c) ==
    c \notin lost_tune /\ ~TuneHandled(c) =>
        \A i \in 1..Len(cmds) : IsLastTune(i, c) => cmds[i].freq_hz = vfo_freq[c]

\* A Tune of c that cmd_task has not sent yet.
Dispatching(c) == pc \in {"tune_rate", "tune_lock", "tune_send"} /\ cur.ssrc = c

CommandAgrees(c) ==
    TunesSettled(c) =>
        /\ Dispatching(c) => cur.freq_hz = vfo_freq[c]
        /\ Commanded(c) /\ ~Dispatching(c) => commanded[c].freq_hz = vfo_freq[c]

FreqInv(c) ==
    /\ NoSetSrOf(EndpointOf(c))
    /\ SessionTunesAgree(c) /\ InitialTunesAgree(c)
    /\ TuneQueueAgrees(c) /\ CommandAgrees(c)

LEMMA InitFreqInv ==
    ASSUME NEW c \in Tunable, OneSourceOfTunes(c), Init
    PROVE  FreqInv(c)
<1> USE DEF Init
<1>1. NoSetSrOf(EndpointOf(c))
  BY EmptySeq DEF NoSetSrOf, IsSetSr, NoCmd
<1>2. SessionTunesAgree(c)
  BY DEF SessionTunesAgree, IsTuneOf, NoCmd
<1>3. InitialTunesAgree(c)
  <2> SUFFICES ASSUME NEW i \in 1..Len(initial), IsTuneOf(initial[i], c)
               PROVE  /\ \A k \in Tuner : ServerOf[k] # EndpointOf(c)
                      /\ initial[i].freq_hz = vfo_freq[c]
    BY DEF InitialTunesAgree
  <2>1. /\ InitialTunes \in Seq(Tunable) /\ Len(initial) = Len(InitialTunes)
        /\ DOMAIN InitialTunes = 1..Len(InitialTunes)
    BY BridgeAssumption, LenProperties
  <2>2. InitialTunes[i] = c /\ initial[i].freq_hz = InitFreq
    BY <2>1 DEF IsTuneOf, Tune
  <2> QED  BY <2>1, <2>2 DEF OneSourceOfTunes
<1>4. TuneQueueAgrees(c)
  BY EmptySeq DEF TuneQueueAgrees
<1>5. CommandAgrees(c)
  BY DEF CommandAgrees, Dispatching, Commanded, NothingCommanded, Tunable
<1> QED  BY <1>1, <1>2, <1>3, <1>4, <1>5 DEF FreqInv

\* One command joins the queue.
LEMMA TunesAfterAppend ==
    ASSUME TypeOK, NEW x \in Cmd, cmds' = Append(cmds, x), NEW c
    PROVE  /\ TuneQueued(c)' <=> TuneQueued(c) \/ IsTuneOf(x, c)
           /\ Len(cmds') = Len(cmds) + 1 /\ Len(cmds) \in Nat
           /\ cmds'[Len(cmds) + 1] = x
           /\ \A i \in 1..Len(cmds) : cmds'[i] = cmds[i]
           /\ \A i \in 1..Len(cmds) : IsLastTune(i, c)' => IsLastTune(i, c) /\ ~IsTuneOf(x, c)
<1>0. cmds \in Seq(Cmd) /\ Len(cmds) \in Nat
  BY LenProperties DEF TypeOK
<1>1. /\ Len(cmds') = Len(cmds) + 1
      /\ cmds'[Len(cmds) + 1] = x
      /\ \A i \in 1..Len(cmds) : cmds'[i] = cmds[i]
  BY <1>0, AppendedCmd
<1>2. TuneQueued(c)' <=> TuneQueued(c) \/ IsTuneOf(x, c)
  BY <1>0, <1>1 DEF TuneQueued, IsTuneOf
<1>3. \A i \in 1..Len(cmds) : IsLastTune(i, c)' => IsLastTune(i, c) /\ ~IsTuneOf(x, c)
  BY <1>0, <1>1 DEF IsLastTune, IsTuneOf
<1> QED  BY <1>0, <1>1, <1>2, <1>3

\* The oldest command leaves the queue.
LEMMA TunesAfterTail ==
    ASSUME TypeOK, cmds # <<>>, cmds' = Tail(cmds), NEW c
    PROVE  /\ Head(cmds) \in Cmd /\ Head(cmds) = cmds[1] /\ 1 \in 1..Len(cmds)
           /\ TuneQueued(c) <=> TuneQueued(c)' \/ IsTuneOf(Head(cmds), c)
           /\ ~TuneQueued(c)' /\ IsTuneOf(Head(cmds), c) => IsLastTune(1, c)
           /\ \A i \in 1..Len(cmds') : /\ i + 1 \in 1..Len(cmds)
                                       /\ cmds'[i] = cmds[i + 1]
                                       /\ IsLastTune(i, c)' => IsLastTune(i + 1, c)
<1>0. /\ cmds \in Seq(Cmd) /\ Len(cmds) \in Nat \ {0} /\ Len(cmds') = Len(cmds) - 1
      /\ Head(cmds) \in Cmd /\ Head(cmds) = cmds[1]
      /\ \A i \in 1..Len(cmds') : cmds'[i] = cmds[i + 1]
  BY RemovedCmd, CmdQueue DEF TypeOK
<1>1. \A i \in 1..Len(cmds') : i + 1 \in 1..Len(cmds)
  BY <1>0
<1>2. \A i \in 2..Len(cmds) : i - 1 \in 1..Len(cmds') /\ cmds'[i - 1] = cmds[i]
  BY <1>0
<1>3. TuneQueued(c) => TuneQueued(c)' \/ IsTuneOf(Head(cmds), c)
  <2> SUFFICES ASSUME NEW i \in 1..Len(cmds), IsTuneOf(cmds[i], c), i # 1
               PROVE  TuneQueued(c)'
    BY <1>0 DEF TuneQueued
  <2>1. i \in 2..Len(cmds)
    BY <1>0
  <2> QED  BY <1>2, <2>1 DEF TuneQueued, IsTuneOf
<1>4. TuneQueued(c)' \/ IsTuneOf(Head(cmds), c) => TuneQueued(c)
  BY <1>0, <1>1 DEF TuneQueued, IsTuneOf
<1>5. ~TuneQueued(c)' /\ IsTuneOf(Head(cmds), c) => IsLastTune(1, c)
  <2> SUFFICES ASSUME ~TuneQueued(c)', IsTuneOf(cmds[1], c), NEW j \in 1 + 1 .. Len(cmds)
               PROVE  ~IsTuneOf(cmds[j], c)
    BY <1>0 DEF IsLastTune
  <2>1. j \in 2..Len(cmds)
    OBVIOUS
  <2> QED  BY <1>2, <2>1 DEF TuneQueued, IsTuneOf
<1>6. ASSUME NEW i \in 1..Len(cmds'), IsLastTune(i, c)'
      PROVE  IsLastTune(i + 1, c)
  <2>1. IsTuneOf(cmds[i + 1], c)
    BY <1>0, <1>6 DEF IsLastTune, IsTuneOf
  <2>2. ASSUME NEW j \in (i + 1) + 1 .. Len(cmds)
        PROVE  ~IsTuneOf(cmds[j], c)
    <3>1. j \in 2..Len(cmds) /\ j - 1 \in i + 1 .. Len(cmds')
      BY <1>0
    <3> QED  BY <1>2, <1>6, <3>1 DEF IsLastTune, IsTuneOf
  <2> QED  BY <2>1, <2>2 DEF IsLastTune
<1> QED  BY <1>0, <1>1, <1>3, <1>4, <1>5, <1>6

\* No session of the endpoint changes its rate, so no SetSr of it is ever queued.
LEMMA NextNoSetSr ==
    ASSUME NEW e, RateIsFixed(e), TypeOK, NoSetSrOf(e), [Next]_vars
    PROVE  NoSetSrOf(e)'
<1> USE DEF clientVars, taskVars, radioVars, lost, history
<1>0. /\ handler \in [Client -> Cmd \cup {NoCmd}] /\ initial \in Seq(TuneCmd)
      /\ cmds \in Seq(Cmd) /\ Len(cmds) \in Nat
  BY LenProperties DEF TypeOK
<1>1. ASSUME UNCHANGED <<handler, cmds>>,
             pc' \in {"setsr_lock", "setsr_send"} => pc \in {"setsr_lock", "setsr_send"} /\ cur' = cur
      PROVE  NoSetSrOf(e)'
  BY <1>1 DEF NoSetSrOf, IsSetSr
<1>2. ASSUME UNCHANGED <<cmds, pc, cur>>, NEW k \in Client, NEW x, ~IsSetSr(x, e),
             handler' = [handler EXCEPT ![k] = x]
      PROVE  NoSetSrOf(e)'
  BY <1>0, <1>2 DEF NoSetSrOf, IsSetSr
<1>3. ASSUME UNCHANGED <<pc, cur>>, NEW x \in Cmd, ~IsSetSr(x, e), cmds' = Append(cmds, x),
             \A k \in Client : handler'[k] = handler[k] \/ handler'[k] = NoCmd
      PROVE  NoSetSrOf(e)'
  <2>1. \A k \in Client : ~IsSetSr(handler'[k], e)
    BY <1>3 DEF NoSetSrOf, IsSetSr, NoCmd
  <2>2. \A i \in 1..Len(cmds') : ~IsSetSr(cmds'[i], e)
    BY <1>0, <1>3, QueueAfterAppend DEF NoSetSrOf, Queued
  <2> QED  BY <1>3, <2>1, <2>2 DEF NoSetSrOf
<1>4. CASE SendInitialTune
  <2>1. Head(initial) \in TuneCmd
    BY <1>0, <1>4, HeadTailProperties DEF SendInitialTune
  <2> QED  BY <1>3, <1>4, <2>1 DEF SendInitialTune, Cmd, TuneCmd, IsSetSr
<1>5. ASSUME NEW k \in Tuner, NEW c \in Tunable, NEW f \in Freq, SetVfo(k, c, f)
      PROVE  NoSetSrOf(e)'
  BY <1>2, <1>5 DEF SetVfo, Tune, IsSetSr, Client
<1>6. ASSUME NEW k \in RateSetter, NEW r \in Rate, SetSamplerate(k, r)
      PROVE  NoSetSrOf(e)'
  BY <1>2, <1>6 DEF SetSamplerate, SetSr, IsSetSr, Client, RateIsFixed
<1>7. ASSUME NEW k \in Enabler, NEW c \in Chan, NEW on \in BOOLEAN, SetRxEnable(k, c, on)
      PROVE  NoSetSrOf(e)'
  BY <1>2, <1>7 DEF SetRxEnable, EnableRx, IsSetSr, Client
<1>8. ASSUME NEW k \in Client, send_bridge_cmd(k)
      PROVE  NoSetSrOf(e)'
  <2>1. handler[k] \in Cmd /\ ~IsSetSr(handler[k], e) /\ ~IsSetSr(NoCmd, e)
    BY <1>0, <1>8 DEF send_bridge_cmd, NoSetSrOf, IsSetSr, NoCmd
  <2>2. handler' = [handler EXCEPT ![k] = NoCmd] /\ UNCHANGED <<pc, cur>>
    BY <1>8 DEF send_bridge_cmd
  <2>3. cmds' = cmds \/ cmds' = Append(cmds, handler[k])
    BY <1>8 DEF send_bridge_cmd
  <2> QED  BY <1>0, <1>2, <1>3, <2>1, <2>2, <2>3
<1>9. CASE RecvTune \/ RecvSetSr \/ RecvEnableRx
  <2>1. cmds # <<>> /\ cmds' = Tail(cmds) /\ pc = "recv" /\ handler' = handler
    BY <1>9 DEF RecvTune, RecvSetSr, RecvEnableRx
  <2>2. \A i \in 1..Len(cmds') : ~IsSetSr(cmds'[i], e)
    BY <2>1, QueueAfterTail DEF NoSetSrOf
  <2>3. ~IsSetSr(Head(cmds), e)
    BY <2>1, QueueAfterTail DEF NoSetSrOf
  <2>4. pc' \in {"setsr_lock", "setsr_send"} => cur'.endpoint # e
    BY <1>9, <2>1, <2>3 DEF RecvTune, RecvSetSr, RecvEnableRx, IsSetSr
  <2> QED  BY <2>1, <2>2, <2>4 DEF NoSetSrOf
<1>10. CASE \/ UNCHANGED vars \/ StatusTask \/ RadiodRestart \/ \E c \in Chan : RadiodStatus(c)
            \/ TuneReadRate \/ TuneLock \/ TuneSend \/ TuneSendFails \/ TuneMark
            \/ SetSrLock \/ SetSrSendFails \/ \E c \in Chan : SetSrSend(c)
  BY <1>1, <1>10 DEF vars, StatusTask, RadiodRestart, RadiodStatus, TuneReadRate, TuneLock,
       TuneSend, TuneSendFails, TuneMark, SetSrLock, SetSrSendFails, SetSrSend
<1> QED
  BY <1>4, <1>5, <1>6, <1>7, <1>8, <1>9, <1>10 DEF Next, CmdTask

\* A step that leaves c's frequency and cmd_task alone, and finishes no Tune.
LEMMA CommandStays ==
    ASSUME NEW c, CommandAgrees(c), TunesSettled(c)' => TunesSettled(c),
           vfo_freq'[c] = vfo_freq[c], UNCHANGED <<pc, cur, commanded>>
    PROVE  CommandAgrees(c)'
BY DEF CommandAgrees, Dispatching, Commanded

TuneSources(c) == SessionTunesAgree(c) /\ InitialTunesAgree(c)

\* The steps of clients and of main.
LEMMA ClientKeepsTunes ==
    ASSUME NEW c \in Tunable, OneSourceOfTunes(c), TypeOK, FreqInv(c),
           \/ SendInitialTune
           \/ \E k \in Tuner, d \in Tunable, f \in Freq : SetVfo(k, d, f)
           \/ \E k \in RateSetter, r \in Rate : SetSamplerate(k, r)
           \/ \E k \in Enabler, d \in Chan, on \in BOOLEAN : SetRxEnable(k, d, on)
           \/ \E k \in Client : send_bridge_cmd(k)
    PROVE  TuneSources(c)' /\ TuneQueueAgrees(c)' /\ CommandAgrees(c)'
<1> USE DEF clientVars, taskVars, radioVars, lost, history
<1>0. /\ cmds \in Seq(Cmd) /\ initial \in Seq(TuneCmd) /\ Len(cmds) \in Nat /\ Len(initial) \in Nat
      /\ handler \in [Client -> Cmd \cup {NoCmd}] /\ vfo_freq \in [Tunable -> Freq]
      /\ SessionTunesAgree(c) /\ InitialTunesAgree(c) /\ TuneQueueAgrees(c) /\ CommandAgrees(c)
  BY LenProperties DEF TypeOK, FreqInv
<1>1. CASE SendInitialTune
  <2> DEFINE x == Head(initial)
  <2>1. /\ x \in Cmd /\ cmds' = Append(cmds, x) /\ initial' = Tail(initial)
        /\ Len(initial') = Len(initial) - 1 /\ 1 \in 1..Len(initial) /\ x = initial[1]
        /\ \A i \in 1..Len(initial') : i + 1 \in 1..Len(initial) /\ initial'[i] = initial[i + 1]
    <3>1. initial # <<>> /\ cmds' = Append(cmds, x) /\ initial' = Tail(initial)
      BY <1>1 DEF SendInitialTune
    <3>2. /\ Head(initial) \in TuneCmd /\ Head(initial) = initial[1] /\ Len(initial) \in Nat \ {0}
          /\ Len(Tail(initial)) = Len(initial) - 1
          /\ \A i \in 1..Len(Tail(initial)) : Tail(initial)[i] = initial[i + 1]
      BY <1>0, <3>1, HeadTailProperties, EmptySeq
    <3> QED  BY <3>1, <3>2 DEF Cmd
  <2>2. IsTuneOf(x, c) => x.freq_hz = vfo_freq[c]
    BY <1>0, <2>1 DEF InitialTunesAgree
  <2> HIDE DEF x
  <2>3. UNCHANGED <<vfo_freq, handler, lost_tune, pc, cur, commanded>>
    BY <1>1 DEF SendInitialTune
  <2>4. TuneHandled(c)' <=> TuneHandled(c)
    BY <2>3 DEF TuneHandled, IsTuneOf
  <2>5. TuneSources(c)'
    BY <1>0, <2>1, <2>3 DEF TuneSources, SessionTunesAgree, InitialTunesAgree, IsTuneOf
  <2>6. TuneQueueAgrees(c)'
    <3> SUFFICES ASSUME c \notin lost_tune, ~TuneHandled(c), NEW i \in 1..Len(cmds'), IsLastTune(i, c)'
                 PROVE  cmds'[i].freq_hz = vfo_freq[c]
      BY <2>3, <2>4 DEF TuneQueueAgrees
    <3>1. CASE i = Len(cmds) + 1
      BY <2>1, <2>2, <3>1, TunesAfterAppend DEF IsLastTune, IsTuneOf
    <3>2. CASE i # Len(cmds) + 1
      <4>1. i \in 1..Len(cmds)
        BY <1>0, <2>1, <3>2, TunesAfterAppend
      <4> QED  BY <1>0, <2>1, <4>1, TunesAfterAppend DEF TuneQueueAgrees
    <3> QED  BY <3>1, <3>2
  <2>7. TunesSettled(c)' => TunesSettled(c)
    BY <2>1, <2>3, <2>4, TunesAfterAppend DEF TunesSettled
  <2> QED  BY <1>0, <2>3, <2>5, <2>6, <2>7, CommandStays
<1>2. ASSUME NEW k \in Tuner, NEW d \in Tunable, NEW f \in Freq, SetVfo(k, d, f)
      PROVE  TuneSources(c)' /\ TuneQueueAgrees(c)' /\ CommandAgrees(c)'
  <2>1. /\ k \in Client /\ handler[k] = NoCmd /\ ServerOf[k] = EndpointOf(d)
        /\ vfo_freq' = [vfo_freq EXCEPT ![d] = f] /\ handler' = [handler EXCEPT ![k] = Tune(d, f)]
        /\ UNCHANGED <<initial, cmds, lost_tune, pc, cur, commanded>>
    BY <1>2 DEF SetVfo, Client
  <2>2. CASE d = c
    <3>1. IsTuneOf(handler'[k], c) /\ handler'[k].freq_hz = vfo_freq'[c]
      BY <1>0, <2>1, <2>2 DEF Tune, IsTuneOf
    <3>2. TuneHandled(c)'
      BY <2>1, <3>1 DEF TuneHandled, IsTuneOf
    <3>3. SessionTunesAgree(c)'
      <4> SUFFICES ASSUME NEW j \in Client, IsTuneOf(handler'[j], c)
                   PROVE  j \in Tuner /\ ServerOf[j] = EndpointOf(c) /\ handler'[j].freq_hz = vfo_freq'[c]
        BY DEF SessionTunesAgree, IsTuneOf
      <4>1. CASE j = k
        BY <2>1, <2>2, <3>1, <4>1
      <4>2. CASE j # k
        <5>1. j \in Tuner /\ ServerOf[j] = EndpointOf(c)
          BY <1>0, <2>1, <4>2 DEF SessionTunesAgree
        <5> QED  BY <2>1, <2>2, <4>2, <5>1 DEF OneSourceOfTunes
      <4> QED  BY <4>1, <4>2
    <3>4. InitialTunesAgree(c)'
      BY <1>0, <2>1, <2>2 DEF InitialTunesAgree, IsTuneOf
    <3> QED  BY <3>2, <3>3, <3>4 DEF TuneSources, TuneQueueAgrees, CommandAgrees, TunesSettled
  <2>3. CASE d # c
    <3>1. vfo_freq'[c] = vfo_freq[c]
      BY <1>0, <2>1, <2>3
    <3>2. ~IsTuneOf(Tune(d, f), c) /\ ~IsTuneOf(NoCmd, c)
      BY <2>3 DEF Tune, IsTuneOf, NoCmd
    <3>3. \A j \in Client : IsTuneOf(handler'[j], c) <=> IsTuneOf(handler[j], c)
      BY <1>0, <2>1, <3>2
    <3>4. \A j \in Client : IsTuneOf(handler'[j], c) => handler'[j] = handler[j]
      BY <1>0, <2>1, <3>2
    <3>5. TuneHandled(c)' <=> TuneHandled(c)
      BY <3>3 DEF TuneHandled, IsTuneOf
    <3>6. TuneSources(c)'
      BY <1>0, <2>1, <3>1, <3>3, <3>4 DEF TuneSources, SessionTunesAgree, InitialTunesAgree, IsTuneOf
    <3>7. (TuneQueued(c)' <=> TuneQueued(c)) /\ TuneQueueAgrees(c)'
      BY <1>0, <2>1, <3>1, <3>5 DEF TuneQueued, TuneQueueAgrees, IsLastTune, IsTuneOf
    <3> QED  BY <1>0, <2>1, <3>1, <3>5, <3>6, <3>7, CommandStays DEF TunesSettled
  <2> QED  BY <2>2, <2>3
<1>3. ASSUME UNCHANGED <<vfo_freq, initial, cmds, lost_tune, pc, cur, commanded>>,
             NEW k \in Client, NEW x, x.type # "Tune", handler[k] = NoCmd,
             handler' = [handler EXCEPT ![k] = x]
      PROVE  TuneSources(c)' /\ TuneQueueAgrees(c)' /\ CommandAgrees(c)'
  <2>1. \A j \in Client : /\ IsTuneOf(handler'[j], c) <=> IsTuneOf(handler[j], c)
                          /\ IsTuneOf(handler'[j], c) => handler'[j] = handler[j]
    BY <1>0, <1>3 DEF IsTuneOf, NoCmd
  <2>2. TuneHandled(c)' <=> TuneHandled(c)
    BY <2>1 DEF TuneHandled, IsTuneOf
  <2>3. TuneSources(c)'
    BY <1>0, <1>3, <2>1 DEF TuneSources, SessionTunesAgree, InitialTunesAgree, IsTuneOf
  <2>4. (TuneQueued(c)' <=> TuneQueued(c)) /\ TuneQueueAgrees(c)'
    BY <1>0, <1>3, <2>2 DEF TuneQueued, TuneQueueAgrees, IsLastTune, IsTuneOf
  <2> QED  BY <1>0, <1>3, <2>2, <2>3, <2>4, CommandStays DEF TunesSettled
<1>4. ASSUME NEW k \in RateSetter, NEW r \in Rate, SetSamplerate(k, r)
      PROVE  TuneSources(c)' /\ TuneQueueAgrees(c)' /\ CommandAgrees(c)'
  BY <1>3, <1>4 DEF SetSamplerate, SetSr, Client
<1>5. ASSUME NEW k \in Enabler, NEW d \in Chan, NEW on \in BOOLEAN, SetRxEnable(k, d, on)
      PROVE  TuneSources(c)' /\ TuneQueueAgrees(c)' /\ CommandAgrees(c)'
  BY <1>3, <1>5 DEF SetRxEnable, EnableRx, Client
<1>6. ASSUME NEW k \in Client, send_bridge_cmd(k)
      PROVE  TuneSources(c)' /\ TuneQueueAgrees(c)' /\ CommandAgrees(c)'
  <2> DEFINE x == handler[k]
  <2>1. x \in Cmd /\ x # NoCmd
    BY <1>0, <1>6 DEF send_bridge_cmd
  <2>2. /\ UNCHANGED <<vfo_freq, initial, pc, cur, commanded>>
        /\ handler' = [handler EXCEPT ![k] = NoCmd]
    BY <1>6 DEF send_bridge_cmd
  <2>3. \/ /\ cmds' = Append(cmds, x)
           /\ lost_tune' = IF x.type = "Tune" THEN lost_tune \ {x.ssrc} ELSE lost_tune
        \/ /\ cmds' = cmds
           /\ lost_tune' = IF x.type = "Tune" THEN lost_tune \cup {x.ssrc} ELSE lost_tune
    BY <1>6 DEF send_bridge_cmd
  <2>4. TuneHandled(c) => TuneHandled(c)' \/ IsTuneOf(x, c)
    BY <1>0, <2>2 DEF TuneHandled, IsTuneOf
  <2>5. IsTuneOf(x, c) => x.freq_hz = vfo_freq[c]
    BY <1>0 DEF SessionTunesAgree
  <2>6. TuneSources(c)'
    BY <1>0, <2>2 DEF TuneSources, SessionTunesAgree, InitialTunesAgree, IsTuneOf, NoCmd
  <2> HIDE DEF x
  <2>7. CASE /\ cmds' = Append(cmds, x)
             /\ lost_tune' = IF x.type = "Tune" THEN lost_tune \ {x.ssrc} ELSE lost_tune
    <3>1. TunesSettled(c)' => TunesSettled(c)
      BY <2>1, <2>4, <2>7, TunesAfterAppend DEF TunesSettled, IsTuneOf
    <3>2. TuneQueueAgrees(c)'
      <4> SUFFICES ASSUME c \notin lost_tune', ~TuneHandled(c)', NEW i \in 1..Len(cmds'), IsLastTune(i, c)'
                   PROVE  cmds'[i].freq_hz = vfo_freq[c]
        BY <2>2 DEF TuneQueueAgrees
      <4>1. CASE i = Len(cmds) + 1
        BY <2>1, <2>5, <2>7, <4>1, TunesAfterAppend DEF IsLastTune, IsTuneOf
      <4>2. CASE i # Len(cmds) + 1
        <5>1. i \in 1..Len(cmds)
          BY <1>0, <2>1, <2>7, <4>2, TunesAfterAppend
        <5>2. cmds'[i] = cmds[i] /\ IsLastTune(i, c) /\ ~IsTuneOf(x, c)
          BY <2>1, <2>7, <5>1, TunesAfterAppend
        <5>3. c \notin lost_tune /\ ~TuneHandled(c)
          BY <2>4, <2>7, <5>2 DEF IsTuneOf
        <5> QED  BY <1>0, <5>1, <5>2, <5>3 DEF TuneQueueAgrees
      <4> QED  BY <4>1, <4>2
    <3> QED  BY <1>0, <2>2, <2>6, <3>1, <3>2, CommandStays
  <2>8. CASE /\ cmds' = cmds
             /\ lost_tune' = IF x.type = "Tune" THEN lost_tune \cup {x.ssrc} ELSE lost_tune
    <3>1. c \notin lost_tune' => c \notin lost_tune /\ ~IsTuneOf(x, c)
      BY <2>8 DEF IsTuneOf
    <3>2. TunesSettled(c)' => TunesSettled(c)
      BY <2>4, <2>8, <3>1 DEF TunesSettled, TuneQueued, IsTuneOf
    <3>3. TuneQueueAgrees(c)'
      BY <1>0, <2>2, <2>4, <2>8, <3>1 DEF TuneQueueAgrees, IsLastTune, IsTuneOf
    <3> QED  BY <1>0, <2>2, <2>6, <3>2, <3>3, CommandStays
  <2> QED  BY <2>3, <2>7, <2>8
<1> QED  BY <1>1, <1>2, <1>4, <1>5, <1>6

\* The steps of cmd_task that take a command off the queue.
LEMMA RecvKeepsTunes ==
    ASSUME NEW c \in Tunable, TypeOK, FreqInv(c), RecvTune \/ RecvSetSr \/ RecvEnableRx
    PROVE  TuneQueueAgrees(c)' /\ CommandAgrees(c)'
<1> USE DEF clientVars, taskVars, radioVars, lost, history
<1>0. TuneQueueAgrees(c) /\ CommandAgrees(c)
  BY DEF FreqInv
<1>1. /\ cmds # <<>> /\ cmds' = Tail(cmds) /\ pc = "recv"
      /\ UNCHANGED <<vfo_freq, handler, lost_tune, commanded>>
  BY DEF RecvTune, RecvSetSr, RecvEnableRx
<1>2. TuneHandled(c)' <=> TuneHandled(c)
  BY <1>1 DEF TuneHandled, IsTuneOf
<1>3. TuneQueueAgrees(c)'
  <2> SUFFICES ASSUME c \notin lost_tune, ~TuneHandled(c), NEW i \in 1..Len(cmds'), IsLastTune(i, c)'
               PROVE  cmds'[i].freq_hz = vfo_freq[c]
    BY <1>1, <1>2 DEF TuneQueueAgrees
  <2>1. i + 1 \in 1..Len(cmds) /\ cmds'[i] = cmds[i + 1] /\ IsLastTune(i + 1, c)
    BY <1>1, TunesAfterTail
  <2> QED  BY <1>0, <2>1 DEF TuneQueueAgrees
<1> DEFINE x == Head(cmds)
<1>4. /\ x \in Cmd /\ x = cmds[1] /\ 1 \in 1..Len(cmds)
      /\ TuneQueued(c) <=> TuneQueued(c)' \/ IsTuneOf(x, c)
      /\ ~TuneQueued(c)' /\ IsTuneOf(x, c) => IsLastTune(1, c)
  BY <1>1, TunesAfterTail
<1>5. CASE IsTuneOf(x, c)
  <2>1. RecvTune /\ cur' = x /\ pc' = "tune_rate"
    BY <1>5 DEF RecvTune, RecvSetSr, RecvEnableRx, IsTuneOf
  <2>2. TunesSettled(c)' => x.freq_hz = vfo_freq[c]
    BY <1>0, <1>1, <1>2, <1>4, <1>5 DEF TunesSettled, TuneQueueAgrees
  <2>3. CommandAgrees(c)'
    BY <1>1, <1>5, <2>1, <2>2 DEF CommandAgrees, Dispatching, IsTuneOf
  <2> QED  BY <1>3, <2>3
<1>6. CASE ~IsTuneOf(x, c)
  <2>1. TunesSettled(c)' => TunesSettled(c)
    BY <1>1, <1>2, <1>4, <1>6 DEF TunesSettled
  <2>2. ~Dispatching(c) /\ ~Dispatching(c)'
    BY <1>1, <1>6 DEF RecvTune, RecvSetSr, RecvEnableRx, Dispatching, IsTuneOf
  <2>3. CommandAgrees(c)'
    BY <1>0, <1>1, <2>1, <2>2 DEF CommandAgrees, Commanded
  <2> QED  BY <1>3, <2>3
<1> QED  BY <1>5, <1>6

\* A step that changes neither what tunes c nor its frequency.
LEMMA TuneSourcesStay ==
    ASSUME NEW c, UNCHANGED <<vfo_freq, handler, cmds>>, FreqInv(c)
    PROVE  /\ initial' = initial => TuneSources(c)'
           /\ lost_tune' = lost_tune => TuneQueueAgrees(c)'
           /\ lost_tune' = lost_tune => (TunesSettled(c)' <=> TunesSettled(c))
BY DEF FreqInv, TuneSources, SessionTunesAgree, InitialTunesAgree, TuneQueueAgrees, TunesSettled,
       TuneHandled, TuneQueued, IsLastTune, IsTuneOf

\* The other steps of cmd_task.
LEMMA DispatchKeepsTunes ==
    ASSUME NEW c \in Tunable, TypeOK, IsolationInv, FreqInv(c),
           \/ TuneReadRate \/ TuneLock \/ TuneSend \/ TuneSendFails \/ TuneMark
           \/ SetSrLock \/ SetSrSendFails
           \/ \E d \in Chan : SetSrSend(d)
    PROVE  TuneQueueAgrees(c)' /\ CommandAgrees(c)'
<1> USE DEF clientVars, taskVars, radioVars, lost, history
<1>0. TuneQueueAgrees(c) /\ CommandAgrees(c) /\ c \in Chan
  BY DEF FreqInv, Tunable
<1>1. UNCHANGED <<vfo_freq, handler, cmds, cur>>
  BY DEF TuneReadRate, TuneLock, TuneSend, TuneSendFails, TuneMark, SetSrLock, SetSrSendFails,
         SetSrSend
<1>2. CASE TuneReadRate \/ TuneLock \/ TuneMark \/ SetSrLock \/ SetSrSendFails
  <2>1. UNCHANGED <<commanded, lost_tune>> /\ (Dispatching(c)' <=> Dispatching(c))
    BY <1>1, <1>2 DEF TuneReadRate, TuneLock, TuneMark, SetSrLock, SetSrSendFails, Dispatching
  <2> QED  BY <1>0, <1>1, <2>1, TuneSourcesStay DEF CommandAgrees, Commanded
<1>3. CASE TuneSend
  <2> DEFINE p == IF needs_create THEN preset ELSE NoPreset
  <2>1. cur.ssrc \in Chan /\ pc = "tune_send" /\ pc' \in {"tune_mark", "recv"} /\ lost_tune' = lost_tune
    BY <1>3 DEF TuneSend, TypeOK, TuneCmd, Tunable
  <2>2. /\ \A d \in Chan : d # cur.ssrc => commanded'[d] = commanded[d]
        /\ commanded'[cur.ssrc].freq_hz = cur.freq_hz
    <3>1. send_command(cur.ssrc, p, cur.freq_hz, TRUE)
      BY <1>3 DEF TuneSend
    <3> HIDE DEF p
    <3>2. commanded \in [Chan -> [preset : Preset \cup {NoPreset}, freq_hz : Freq \cup {NoFreq}]]
      BY DEF TypeOK
    <3> QED  BY <2>1, <3>1, <3>2 DEF send_command
  <2>3. ~Dispatching(c)' /\ (Dispatching(c) <=> cur.ssrc = c)
    BY <2>1 DEF Dispatching
  <2>4. CommandAgrees(c)'
    BY <1>0, <1>1, <2>1, <2>2, <2>3, TuneSourcesStay DEF CommandAgrees, Commanded
  <2> QED  BY <1>1, <2>1, <2>4, TuneSourcesStay
<1>4. CASE TuneSendFails
  <2>1. /\ pc = "tune_send" /\ pc' = "recv" /\ lost_tune' = lost_tune \cup {cur.ssrc}
        /\ commanded' = commanded
    BY <1>4 DEF TuneSendFails
  <2>2. CASE cur.ssrc = c
    BY <2>1, <2>2 DEF TuneQueueAgrees, CommandAgrees, TunesSettled
  <2>3. CASE cur.ssrc # c
    <3>1. c \in lost_tune' <=> c \in lost_tune
      BY <2>1, <2>3
    <3>2. (TuneHandled(c)' <=> TuneHandled(c)) /\ (TuneQueued(c)' <=> TuneQueued(c))
      BY <1>1 DEF TuneHandled, TuneQueued, IsTuneOf
    <3>3. TuneQueueAgrees(c)'
      BY <1>0, <1>1, <3>1, <3>2 DEF TuneQueueAgrees, IsLastTune, IsTuneOf
    <3>4. ~Dispatching(c) /\ ~Dispatching(c)'
      BY <1>1, <2>3 DEF Dispatching
    <3>5. CommandAgrees(c)'
      BY <1>0, <1>1, <2>1, <3>1, <3>2, <3>4 DEF CommandAgrees, TunesSettled, Commanded
    <3> QED  BY <3>3, <3>5
  <2> QED  BY <2>2, <2>3
<1>5. ASSUME NEW d \in Chan, SetSrSend(d)
      PROVE  TuneQueueAgrees(c)' /\ CommandAgrees(c)'
  <2>1. /\ pc = "setsr_send" /\ pc' \in {"recv", "setsr_send"} /\ d \in DOMAIN snapshot
        /\ lost_tune' = lost_tune
    BY <1>5 DEF SetSrSend
  <2>2. EndpointOf(d) = cur.endpoint /\ cur.endpoint # EndpointOf(c)
    BY <2>1 DEF IsolationInv, SnapshotIsOwn, FreqInv, NoSetSrOf
  <2>3. commanded'[c] = commanded[c]
    BY <1>0, <1>5, <2>2, SendCommandEffect DEF SetSrSend
  <2>4. ~Dispatching(c) /\ ~Dispatching(c)'
    BY <2>1 DEF Dispatching
  <2>5. CommandAgrees(c)'
    BY <1>0, <1>1, <2>1, <2>3, <2>4, TuneSourcesStay DEF CommandAgrees, Commanded
  <2> QED  BY <1>1, <2>1, <2>5, TuneSourcesStay
<1> QED  BY <1>2, <1>3, <1>4, <1>5

LEMMA NextFreqInv ==
    ASSUME NEW c \in Tunable, OneSourceOfTunes(c), RateIsFixed(EndpointOf(c)),
           TypeOK, IsolationInv, FreqInv(c), [Next]_vars
    PROVE  FreqInv(c)'
<1> USE DEF clientVars, taskVars, radioVars, lost, history
<1>1. NoSetSrOf(EndpointOf(c))'
  BY NextNoSetSr DEF FreqInv
<1>2. CASE \/ SendInitialTune
           \/ \E k \in Tuner, d \in Tunable, f \in Freq : SetVfo(k, d, f)
           \/ \E k \in RateSetter, r \in Rate : SetSamplerate(k, r)
           \/ \E k \in Enabler, d \in Chan, on \in BOOLEAN : SetRxEnable(k, d, on)
           \/ \E k \in Client : send_bridge_cmd(k)
  BY <1>1, <1>2, ClientKeepsTunes DEF FreqInv, TuneSources
<1>3. CASE RecvTune \/ RecvSetSr \/ RecvEnableRx
  <2>1. UNCHANGED <<vfo_freq, handler, initial>>
    BY <1>3 DEF RecvTune, RecvSetSr, RecvEnableRx
  <2>2. SessionTunesAgree(c)' /\ InitialTunesAgree(c)'
    BY <2>1 DEF FreqInv, SessionTunesAgree, InitialTunesAgree, IsTuneOf
  <2> QED  BY <1>1, <1>3, <2>2, RecvKeepsTunes DEF FreqInv
<1>4. CASE \/ TuneReadRate \/ TuneLock \/ TuneSend \/ TuneSendFails \/ TuneMark
           \/ SetSrLock \/ SetSrSendFails \/ \E d \in Chan : SetSrSend(d)
  <2>1. UNCHANGED <<vfo_freq, handler, cmds, initial>>
    BY <1>4 DEF TuneReadRate, TuneLock, TuneSend, TuneSendFails, TuneMark, SetSrLock,
                SetSrSendFails, SetSrSend
  <2> QED  BY <1>1, <1>4, <2>1, DispatchKeepsTunes, TuneSourcesStay DEF FreqInv, TuneSources
<1>5. CASE UNCHANGED vars \/ StatusTask \/ RadiodRestart \/ \E d \in Chan : RadiodStatus(d)
  <2>1. UNCHANGED <<vfo_freq, handler, cmds, initial, lost_tune, pc, cur, commanded>>
    BY <1>5 DEF vars, StatusTask, RadiodRestart, RadiodStatus
  <2> QED  BY <1>1, <2>1, TuneSourcesStay, CommandStays DEF FreqInv, TuneSources
<1> QED  BY <1>2, <1>3, <1>4, <1>5 DEF Next, CmdTask

AllFreqsAgree ==
    \A c \in Tunable : OneSourceOfTunes(c) /\ RateIsFixed(EndpointOf(c)) => FreqInv(c)

\* A channel that only one session, or only the configuration, tunes, on an
\* endpoint whose rate nobody changes: whatever other sessions and endpoints do,
\* a quiet bridge has last told it the announced frequency, unless that Tune was
\* dropped or failed (server.rs:228-254, bridge.rs:464-622).
THEOREM FreqsAgree == Spec => []FreqAgreement
<1>1. AllFreqsAgree => FreqAgreement
  <2> SUFFICES ASSUME AllFreqsAgree, Quiet, NEW c \in Tunable, OneSourceOfTunes(c),
                      RateIsFixed(EndpointOf(c)), Commanded(c), c \notin lost_tune
               PROVE  commanded[c].freq_hz = vfo_freq[c]
    BY DEF FreqAgreement
  <2>1. TunesSettled(c)
    BY EmptySeq DEF Quiet, TunesSettled, TuneHandled, TuneQueued, IsTuneOf, NoCmd
  <2>2. CommandAgrees(c)
    BY DEF AllFreqsAgree, FreqInv
  <2> QED  BY <2>1, <2>2 DEF CommandAgrees, Dispatching, Quiet
<1>2. Init => AllFreqsAgree
  BY InitFreqInv DEF AllFreqsAgree
<1>3. TypeOK /\ IsolationInv /\ AllFreqsAgree /\ [Next]_vars => AllFreqsAgree'
  BY NextFreqInv DEF AllFreqsAgree
<1>4. Spec => []IsolationInv
  BY TypeCorrect, InitIsolationInv, NextIsolationInv, PTL DEF Spec
<1>5. Spec => []AllFreqsAgree
  BY TypeCorrect, <1>2, <1>3, <1>4, PTL DEF Spec
<1> QED  BY <1>1, <1>5, PTL

-----------------------------------------------------------------------------
(* Bridge implements CommandInterface. *)

LEMMA SameChannels == Interface!TunedChan = Tunable
BY DEF Interface!TunedChan, Interface!EndpointOf, Interface!VfoOf, Tunable, EndpointOf, VfoOf

LEMMA SameCmds ==
    /\ Interface!NoCmd = NoCmd
    /\ \A c, f : Interface!Tune(c, f) = Tune(c, f)
    /\ \A e, r : Interface!SetSr(e, r) = SetSr(e, r)
    /\ \A c, on : Interface!EnableRx(c, on) = EnableRx(c, on)
    /\ \A c : Interface!EndpointOf(c) = EndpointOf(c)
BY DEF Interface!NoCmd, NoCmd, Interface!Tune, Tune, Interface!SetSr, SetSr,
       Interface!EnableRx, EnableRx, Interface!EndpointOf, EndpointOf

LEMMA InitImplements == Init => Interface!Init
<1> SUFFICES ASSUME Init PROVE Interface!Init
  OBVIOUS
<1>1. iq_samplerate \in [Endpoint -> Rate] /\ vfo_freq \in [Tunable -> Freq]
  BY BridgeAssumption DEF Init
<1>2. handler = [k \in Client |-> NoCmd] /\ cmds = <<>>
  BY DEF Init
<1> QED  BY <1>1, <1>2, SameChannels, SameCmds DEF Interface!Init

\* main hands over Tunes and nothing else.
LEMMA InitialTuneIsTune ==
    ASSUME TypeOK, initial # <<>>
    PROVE  \E c \in Tunable, f \in Freq : Head(initial) = Tune(c, f)
<1>1. Head(initial) \in TuneCmd
  BY HeadTailProperties DEF TypeOK
<1>2. \A x \in TuneCmd : x.ssrc \in Tunable /\ x.freq_hz \in Freq /\ x = Tune(x.ssrc, x.freq_hz)
  BY DEF TuneCmd, Tune
<1> QED  BY <1>1, <1>2

LEMMA NextImplements == TypeOK /\ [Next]_vars => [Interface!Next]_Interface!vars
<1> SUFFICES ASSUME TypeOK, [Next]_vars PROVE Interface!Next \/ UNCHANGED Interface!vars
  OBVIOUS
<1> USE DEF clientVars
<1>1. ASSUME UNCHANGED <<iq_samplerate, vfo_freq, handler, cmds>> PROVE UNCHANGED Interface!vars
  BY <1>1 DEF Interface!vars
<1>2. ASSUME UNCHANGED <<iq_samplerate, vfo_freq, handler>>, cmds # <<>>, cmds' = Tail(cmds)
      PROVE  Interface!Next
  BY <1>2 DEF Interface!Next, Interface!Receive
<1>3. CASE SendInitialTune
  <2>1. PICK c \in Tunable, f \in Freq : Head(initial) = Tune(c, f)
    BY <1>3, InitialTuneIsTune DEF SendInitialTune
  <2>2. Interface!QueueTune(c, f)
    BY <1>3, <2>1, SameCmds DEF SendInitialTune, Interface!QueueTune
  <2> QED  BY <2>2, SameChannels DEF Interface!Next
<1>4. ASSUME NEW k \in Tuner, NEW c \in Tunable, NEW f \in Freq, SetVfo(k, c, f)
      PROVE  Interface!Next
  <2>1. Interface!SetVfo(k, c, f)
    BY <1>4, SameCmds DEF SetVfo, Interface!SetVfo
  <2> QED  BY <2>1, SameChannels DEF Interface!Next, Client
<1>5. ASSUME NEW k \in RateSetter, NEW r \in Rate, SetSamplerate(k, r) PROVE Interface!Next
  <2>1. Interface!SetSamplerate(k, r)
    BY <1>5, SameCmds DEF SetSamplerate, Interface!SetSamplerate
  <2> QED  BY <2>1 DEF Interface!Next, Client
<1>6. ASSUME NEW k \in Enabler, NEW c \in Chan, NEW on \in BOOLEAN, SetRxEnable(k, c, on)
      PROVE  Interface!Next
  <2>1. Interface!SetRxEnable(k, c, on)
    BY <1>6, SameCmds DEF SetRxEnable, Interface!SetRxEnable
  <2> QED  BY <2>1 DEF Interface!Next, Client
<1>7. ASSUME NEW k \in Client, send_bridge_cmd(k) PROVE Interface!Next
  <2>1. Len(cmds) \in Nat /\ CmdCap \in Nat
    BY BridgeAssumption, LenProperties DEF TypeOK
  <2>2. Interface!Offer(k)
    BY <1>7, <2>1, SameCmds DEF send_bridge_cmd, Interface!Offer
  <2> QED  BY <2>2 DEF Interface!Next
<1>8. CASE CmdTask
  <2>1. CASE RecvTune \/ RecvSetSr \/ RecvEnableRx
    BY <1>2, <2>1 DEF RecvTune, RecvSetSr, RecvEnableRx
  <2>2. CASE TuneReadRate \/ TuneLock \/ TuneSend \/ TuneSendFails \/ TuneMark
    BY <1>1, <2>2 DEF TuneReadRate, TuneLock, TuneSend, TuneSendFails, TuneMark
  <2>3. CASE SetSrLock \/ SetSrSendFails
    BY <1>1, <2>3 DEF SetSrLock, SetSrSendFails
  <2>4. ASSUME NEW c \in Chan, SetSrSend(c) PROVE UNCHANGED Interface!vars
    BY <1>1, <2>4 DEF SetSrSend
  <2> QED  BY <1>8, <2>1, <2>2, <2>3, <2>4 DEF CmdTask
<1>9. CASE StatusTask \/ RadiodRestart
  BY <1>1, <1>9 DEF StatusTask, RadiodRestart
<1>10. ASSUME NEW c \in Chan, RadiodStatus(c) PROVE UNCHANGED Interface!vars
  BY <1>1, <1>10 DEF RadiodStatus
<1>11. CASE UNCHANGED vars
  BY <1>1, <1>11 DEF vars
<1> QED
  BY <1>3, <1>4, <1>5, <1>6, <1>7, <1>8, <1>9, <1>10, <1>11 DEF Next

\* For any sessions, channels, rates and capacities, what the bridge does to
\* the command channel is what the interface allows: accepted commands are
\* received in order and once, and a session offers what it stored
\* (server.rs:228-254, 404-412, 452-458, bridge.rs:386-403).
THEOREM BridgeKeepsInterface == Spec => ImplementsInterface
BY InitImplements, NextImplements, InitTypeOK, NextTypeOK,
   PTL DEF Spec, ImplementsInterface, Interface!Spec
=============================================================================
