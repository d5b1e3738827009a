---------------------------- MODULE SsrcTableProofs ----------------------------
(* What the operations of the SsrcTable do to a table, whatever identifies *)
(* its channels.                                                           *)
EXTENDS SsrcTable, TLAPS

\* A table of channels of K.
IsTable(K, t) == DOMAIN t \subseteq K /\ t \in [DOMAIN t -> ChannelInfo]

\* get_or_insert keeps what is there and adds at most a fresh entry
\* (bridge.rs:107-112).
LEMMA GetOrInsert ==
    ASSUME NEW K, NEW t, IsTable(K, t), NEW c \in K
    PROVE  /\ IsTable(K, get_or_insert(t, c))
           /\ DOMAIN get_or_insert(t, c) = DOMAIN t \cup {c}
           /\ \A d \in DOMAIN t : get_or_insert(t, c)[d] = t[d]
           /\ c \notin DOMAIN t => get_or_insert(t, c)[c] = NewChannel
BY DEF IsTable, get_or_insert, NewChannel, ChannelInfo

\* A STATUS reports a channel but never makes it count as created
\* (bridge.rs:152-158).
LEMMA UpdateFromStatus ==
    ASSUME NEW K, NEW t, IsTable(K, t), NEW s, s.ssrc \in K,
           s.freq_hz \in Freq \cup {NoFreq}, s.data_group \in Group \cup {NoGroup}
    PROVE  /\ IsTable(K, update_from_status(t, s))
           /\ DOMAIN update_from_status(t, s) = DOMAIN t \cup {s.ssrc}
           /\ \A d \in DOMAIN update_from_status(t, s) :
                 update_from_status(t, s)[d].created => d \in DOMAIN t /\ t[d].created
           /\ \A d \in DOMAIN t :
                 update_from_status(t, s)[d].created = t[d].created
<1> DEFINE u == get_or_insert(t, s.ssrc)
<1>1. /\ IsTable(K, u)
      /\ DOMAIN u = DOMAIN t \cup {s.ssrc}
      /\ \A d \in DOMAIN t : u[d] = t[d]
      /\ s.ssrc \notin DOMAIN t => u[s.ssrc] = NewChannel
  BY GetOrInsert
<1>2. u[s.ssrc] \in ChannelInfo
  BY <1>1 DEF IsTable
<1>3. /\ Refreshed(u[s.ssrc], s) \in ChannelInfo
      /\ Refreshed(u[s.ssrc], s).created = u[s.ssrc].created
  BY <1>2 DEF Refreshed, ChannelInfo
<1>4. update_from_status(t, s) = [u EXCEPT ![s.ssrc] = Refreshed(u[s.ssrc], s)]
  BY DEF update_from_status
<1> HIDE DEF u
<1> QED
  BY <1>1, <1>3, <1>4 DEF IsTable, NewChannel

\* mark_created changes one flag of one known channel (bridge.rs:206-210).
LEMMA MarkCreated ==
    ASSUME NEW K, NEW t, IsTable(K, t), NEW c
    PROVE  /\ IsTable(K, mark_created(t, c))
           /\ DOMAIN mark_created(t, c) = DOMAIN t
           /\ \A d \in DOMAIN t : d # c => mark_created(t, c)[d] = t[d]
BY DEF IsTable, mark_created, ChannelInfo

\* invalidate makes exactly the named channels count as not created
\* (bridge.rs:217-222).
LEMMA Invalidate ==
    ASSUME NEW K, NEW t, IsTable(K, t), NEW C
    PROVE  /\ IsTable(K, invalidate(t, C))
           /\ DOMAIN invalidate(t, C) = DOMAIN t
           /\ \A d \in DOMAIN t \cap C : invalidate(t, C)[d].created = FALSE
           /\ \A d \in DOMAIN t \ C : invalidate(t, C)[d] = t[d]
BY DEF IsTable, invalidate, ChannelInfo

LEMMA EmptyTableIsTable ==
    ASSUME NEW K
    PROVE  IsTable(K, EmptyTable)
BY DEF IsTable, EmptyTable
================================================================================
