---------------------------- MODULE CommandInterface ----------------------------
(***************************************************************************)
(* What TCI servers and bridge expect of each other: a session stores a    *)
(* new value and, in a later step, offers the bridge the command with that *)
(* value; the command channel is a bounded queue that refuses commands     *)
(* while it is full, loses nothing it has accepted and is read in order by *)
(* one reader.  Modules Bridge and TciServer, which describe its two ends, *)
(* both implement this specification.                                      *)
(***************************************************************************)
EXTENDS Naturals, Sequences, BridgeCmd

CONSTANTS
    Endpoint,
    Client,      \* client sessions
    ServerOf,    \* endpoint a session is connected to
    Chan,        \* channels that commands can name
    Freq, Rate,
    CmdCap       \* capacity of the command channel

VARIABLES
    iq_samplerate,  \* rate each endpoint announces
    vfo_freq,       \* frequency each endpoint announces for VFO A of its TRX
    handler,        \* command a session has still to offer
    cmds            \* the command channel

vars == <<iq_samplerate, vfo_freq, handler, cmds>>

TunedChan == {c \in Chan : EndpointOf(c) \in Endpoint /\ VfoOf(c) = 0}

Init ==
    /\ iq_samplerate \in [Endpoint -> Rate]
    /\ vfo_freq \in [TunedChan -> Freq]
    /\ handler = [k \in Client |-> NoCmd]
    /\ cmds = <<>>

\* What a session stores and what it will offer are the same.
SetVfo(k, c, f) ==
    /\ EndpointOf(c) = ServerOf[k]
    /\ handler[k] = NoCmd
    /\ handler' = [handler EXCEPT ![k] = Tune(c, f)]
    /\ vfo_freq' = [vfo_freq EXCEPT ![c] = f]
    /\ UNCHANGED <<iq_samplerate, cmds>>

SetSamplerate(k, r) ==
    /\ handler[k] = NoCmd
    /\ handler' = [handler EXCEPT ![k] = SetSr(ServerOf[k], r)]
    /\ iq_samplerate' = [iq_samplerate EXCEPT ![ServerOf[k]] = r]
    /\ UNCHANGED <<vfo_freq, cmds>>

SetRxEnable(k, c, on) ==
    /\ EndpointOf(c) = ServerOf[k]
    /\ handler[k] = NoCmd
    /\ handler' = [handler EXCEPT ![k] = EnableRx(c, on)]
    /\ UNCHANGED <<iq_samplerate, vfo_freq, cmds>>

\* The command is queued if and only if there is room.
Offer(k) ==
    /\ handler[k] # NoCmd
    /\ cmds' = IF Len(cmds) < CmdCap THEN Append(cmds, handler[k]) ELSE cmds
    /\ handler' = [handler EXCEPT ![k] = NoCmd]
    /\ UNCHANGED <<iq_samplerate, vfo_freq>>

\* main queues a configured frequency.
QueueTune(c, f) ==
    /\ Len(cmds) < CmdCap
    /\ cmds' = Append(cmds, Tune(c, f))
    /\ UNCHANGED <<iq_samplerate, vfo_freq, handler>>

Receive ==
    /\ cmds # <<>>
    /\ cmds' = Tail(cmds)
    /\ UNCHANGED <<iq_samplerate, vfo_freq, handler>>

Next ==
    \/ \E k \in Client : Offer(k)
    \/ \E k \in Client, c \in TunedChan, f \in Freq : SetVfo(k, c, f)
    \/ \E k \in Client, r \in Rate : SetSamplerate(k, r)
    \/ \E k \in Client, c \in Chan, on \in BOOLEAN : SetRxEnable(k, c, on)
    \/ \E c \in TunedChan, f \in Freq : QueueTune(c, f)
    \/ Receive

Spec == Init /\ [][Next]_vars
=================================================================================
