------------------------------ MODULE SsrcTable ------------------------------
(***************************************************************************)
(* The bridge's table of ka9q-radio channels (SsrcTable in bridge.rs) as   *)
(* pure operators: a table is a function from the channels it knows to     *)
(* their ChannelInfo.  ChannelInfo.samprate is left out: nothing in the    *)
(* program reads it.                                                       *)
(***************************************************************************)
EXTENDS Naturals, BridgeCmd

CONSTANTS
    Freq,      \* frequencies in Hz that clients ask for; never 0
    Group,     \* IPv4 multicast groups radiod publishes RTP data on
    NoGroup    \* data_group = None

ASSUME TableAssumption ==
    /\ Freq \subseteq Nat \ {0}
    /\ NoGroup \notin Group

NoFreq == 0    \* freq_hz of a channel no STATUS has reported yet

ChannelInfo == [freq_hz : Freq \cup {NoFreq},
                data_group : Group \cup {NoGroup},
                created : BOOLEAN]

NewChannel == [freq_hz |-> NoFreq, data_group |-> NoGroup, created |-> FALSE]

EmptyTable == [c \in {} |-> NewChannel]

\* by_ssrc.entry(ssrc).or_insert_with(ChannelInfo::new)
get_or_insert(t, c) ==
    [d \in DOMAIN t \cup {c} |-> IF d \in DOMAIN t THEN t[d] ELSE NewChannel]

-----------------------------------------------------------------------------
\* A plausible slip: a STATUS is taken as proof that the bridge created the channel.
RefreshedAsCreated(info, s) ==
    [info EXCEPT !.freq_hz = s.freq_hz, !.created = TRUE]

\* A plausible slip: a data group, once known, is kept.
RefreshedOnce(info, s) ==
    [info EXCEPT
        !.freq_hz    = s.freq_hz,
        !.data_group = IF @ = NoGroup THEN s.data_group ELSE @]

(* What one STATUS does to the entry of its channel.  A field the packet   *)
(* does not carry (NoFreq, NoGroup) leaves the entry's field alone, an     *)
(* IPv6 or malformed data socket counts as not carried, and `created` is   *)
(* never touched.                                                          *)
Refreshed(info, s) ==
    [info EXCEPT
        !.freq_hz    = IF s.freq_hz = NoFreq THEN @ ELSE s.freq_hz,
        !.data_group = IF s.data_group = NoGroup THEN @ ELSE s.data_group]

update_from_status(t, s) ==
    LET u == get_or_insert(t, s.ssrc)
    IN  [u EXCEPT ![s.ssrc] = Refreshed(@, s)]

\* get_mut(&ssrc): an unknown channel is left alone.
mark_created(t, c) ==
    [d \in DOMAIN t |-> IF d = c THEN [t[d] EXCEPT !.created = TRUE] ELSE t[d]]

\* invalidate() on every channel of a set.
invalidate(t, C) ==
    [d \in DOMAIN t |->
        IF d \in C THEN [t[d] EXCEPT !.created = FALSE, !.data_group = NoGroup]
                   ELSE t[d]]
=============================================================================
