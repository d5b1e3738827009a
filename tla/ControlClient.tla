------------------------------ MODULE ControlClient ------------------------------
(***************************************************************************)
(* The control channel to radiod (control.rs, poll_task of bridge.rs): one *)
(* multicast group that carries COMMANDs out and STATUS in.                *)
(*                                                                         *)
(*   poll_task, cmd_task  draw a tag, encode, and await the TX socket;     *)
(*   recv_task            decodes what the RX socket hears of the group -- *)
(*                        radiod, other programs and our own COMMANDs --   *)
(*                        and queues the STATUS packets for status_task.   *)
(*                                                                         *)
(* The group is UDP: a datagram may be lost on its way to either side, and *)
(* the RX socket and the channel drop what they have no room for.  What    *)
(* the bridge asks for and what it does with a STATUS is module Bridge.    *)
(***************************************************************************)
EXTENDS TlvCodec

CONSTANTS
    Sender,        \* tasks that share the client: poll_task and cmd_task
    Requests,      \* field lists each of them sends; a poll has none
    Statuses,      \* field lists of radiod's STATUS packets
    Foreign,       \* other datagrams of the group: COMMANDs of others, malformed ones
    TagModulus,    \* of cmd_tag, a u32: 2^32, or less in a run
    RecvBuf,       \* bytes of recv_task's buffer
    SockCap,       \* datagrams the RX socket buffers
    CHAN_BOUND,    \* capacity of the STATUS channel
    MaxDatagrams   \* bound: datagrams drawn by the senders, and heard from others

\* n fits 32 bits.
IsU32(n) == n \div 65536 < 65536

ASSUME ControlAssumption ==
    /\ \A s \in Sender : \A r \in Requests[s] : r \in Seq(Fields)
    /\ \A st \in Statuses : st \in Seq(Fields)
    /\ TagModulus \in Nat /\ TagModulus > 1 /\ IsU32(TagModulus - 1)
    /\ RecvBuf \in Nat /\ SockCap \in Nat /\ CHAN_BOUND \in Nat \ {0}
    /\ MaxDatagrams \in Nat

VARIABLES
    cmd_tag,    \* ControlClient.cmd_tag
    drawn,      \* how many tags have been drawn, for MaxDatagrams
    sending,    \* the datagram each sender has built and not sent
    radiod,     \* what radiod heard of us: each datagram and what it asked for
    socket,     \* datagrams in the RX socket
    heard,      \* how many datagrams others have sent, for MaxDatagrams
    statuses    \* StatusPackets on their way to status_task

vars == <<cmd_tag, drawn, sending, radiod, socket, heard, statuses>>

Idle == [data |-> <<>>]

NoSsrc == <<>>

Init ==
    /\ cmd_tag = 1
    /\ drawn = 0
    /\ sending = [s \in Sender |-> Idle]
    /\ radiod = <<>>
    /\ socket = <<>>
    /\ heard = 0
    /\ statuses = <<>>

-----------------------------------------------------------------------------
(* send_command, up to the await and after it. *)

TagField(tag) ==
    TlvField(COMMAND_TAG, Value("Int",
        <<0, 0, 0, 0, (tag \div 16777216) % 256, (tag \div 65536) % 256,
          (tag \div 256) % 256, tag % 256>>))

\* A plausible slip: a poll does not use its tag up.
TagAfterRequest(tag, fields) == IF fields = <<>> THEN tag ELSE (tag + 1) % TagModulus

\* fetch_add
TagAfter(tag, fields) == (tag + 1) % TagModulus

\* The tag is drawn, COMMAND_TAG put in front, the packet built.
Build(s, fields) ==
    /\ sending[s] = Idle
    /\ drawn < MaxDatagrams
    /\ cmd_tag' = TagAfter(cmd_tag, fields)
    /\ drawn' = drawn + 1
    /\ sending' = [sending EXCEPT ![s] =
                      [asked |-> fields,
                       data |-> build_command(<<TagField(cmd_tag)>> \o fields)]]
    /\ UNCHANGED <<radiod, socket, heard, statuses>>

\* The RX socket hears a datagram of the group, or misses it.
Hears(data) ==
    \/ Len(socket) < SockCap /\ socket' = Append(socket, data)
    \/ UNCHANGED socket

\* send_to hands the datagram over: to radiod, and to our own RX socket.
SendTo(s) ==
    /\ sending[s] # Idle
    /\ radiod' \in {radiod, Append(radiod, sending[s])}
    /\ Hears(sending[s].data)
    /\ sending' = [sending EXCEPT ![s] = Idle]
    /\ UNCHANGED <<cmd_tag, drawn, heard, statuses>>

\* send_to fails: the tag is spent.
SendFails(s) ==
    /\ sending[s] # Idle
    /\ sending' = [sending EXCEPT ![s] = Idle]
    /\ UNCHANGED <<cmd_tag, drawn, radiod, socket, heard, statuses>>

-----------------------------------------------------------------------------
(* recv_task and status_task. *)

\* radiod sends a STATUS, or another program something else.
OthersSend(data) ==
    /\ heard < MaxDatagrams
    /\ heard' = heard + 1
    /\ Hears(data)
    /\ UNCHANGED <<cmd_tag, drawn, sending, radiod, statuses>>

\* The u32 of the first OUTPUT_SSRC that is an Int.
SsrcIn(fields) ==
    LET I == {i \in DOMAIN fields : fields[i].tag = OUTPUT_SSRC /\ fields[i].value.kind = "Int"}
    IN  IF I = {} THEN NoSsrc
        ELSE AsU32(fields[CHOOSE i \in I : \A j \in I : i <= j].value.bytes)

Cut(data) == SubSeq(data, 1, Min({Len(data), RecvBuf}))

\* Nobody but radiod sends what recv_task would read as a STATUS.
ASSUME ForeignAssumption ==
    \A data \in Foreign :
        decode_packet(Cut(data)).ok => decode_packet(Cut(data)).type # Status

\* A plausible slip: COMMANDs, our own among them, are queued too.
Accepted(pkt) == pkt.ok

\* Decoded, and a STATUS.
Wanted(pkt) == pkt.ok /\ pkt.type = Status

\* A plausible slip: the channel has no bound.
AnyRoom == TRUE

Room == Len(statuses) < CHAN_BOUND

\* The channel after try_send.
Queued(pkt) ==
    IF Wanted(pkt) /\ Room THEN Append(statuses, [ssrc |-> SsrcIn(pkt.fields), fields |-> pkt.fields])
                           ELSE statuses

\* A plausible slip: an error ends the task instead of the turn of its loop.
RecvOrEnd ==
    /\ socket # <<>>
    /\ socket' = Tail(socket)
    /\ \E pkt \in {decode_packet(Cut(Head(socket)))} : pkt.ok /\ statuses' = Queued(pkt)
    /\ UNCHANGED <<cmd_tag, drawn, sending, radiod, heard>>

\* One turn: a datagram is cut to the buffer, decoded, and queued or dropped.
Recv ==
    /\ socket # <<>>
    /\ socket' = Tail(socket)
    /\ \E pkt \in {decode_packet(Cut(Head(socket)))} : statuses' = Queued(pkt)
    /\ UNCHANGED <<cmd_tag, drawn, sending, radiod, heard>>

StatusTask ==
    /\ statuses # <<>>
    /\ statuses' = Tail(statuses)
    /\ UNCHANGED <<cmd_tag, drawn, sending, radiod, socket, heard>>

-----------------------------------------------------------------------------
Sends == \E s \in Sender : SendTo(s) \/ SendFails(s) \/ \E r \in Requests[s] : Build(s, r)

Group ==
    \/ \E st \in Statuses : OthersSend(Packet(Status, st))
    \/ \E data \in Foreign : OthersSend(data)

Next == Sends \/ Group \/ Recv \/ StatusTask

Spec == Init /\ [][Next]_vars

(* The tasks run for ever, and a send_to that is awaited comes back.  What *)
(* is asked of the client, and what others send, is nobody's duty.         *)
Fairness ==
    /\ \A s \in Sender : WF_vars(SendTo(s) \/ SendFails(s))
    /\ WF_vars(Recv)
    /\ WF_vars(StatusTask)

FairSpec == Spec /\ Fairness

-----------------------------------------------------------------------------
(* Properties. *)

IsField(f) ==
    /\ f.tag \in 0 .. 255
    /\ f.value.kind \in {"Int", "Float", "Double", "Bytes"}
    /\ \A i \in DOMAIN f.value.bytes : f.value.bytes[i] \in 0 .. 255

TypeOK ==
    /\ cmd_tag \in 0 .. TagModulus - 1
    /\ drawn \in 0 .. MaxDatagrams
    /\ heard \in 0 .. MaxDatagrams
    /\ \A s \in Sender : sending[s] = Idle \/ sending[s].asked \in Requests[s]
    /\ Len(radiod) <= drawn
    /\ Len(socket) <= SockCap
    /\ Len(statuses) <= CHAN_BOUND
    /\ \A i \in DOMAIN statuses : \A j \in DOMAIN statuses[i].fields : IsField(statuses[i].fields[j])

\* Read by the rules of the protocol, every datagram that reaches radiod is one
\* COMMAND, with a tag and then exactly the fields the bridge asked for, whatever
\* their lengths (control.rs:162-178, tlv.rs:229-281).
CommandsUnderstood ==
    \A i \in DOMAIN radiod : \E tag \in 0 .. cmd_tag :
        decode_packet(radiod[i].data) = Decoded(Command, <<TagField(tag)>> \o radiod[i].asked)

\* No two datagrams reach radiod under one tag, whoever of the two tasks sent
\* them, lost and failed ones in between (control.rs:166-175).
TagsUnique ==
    \A i, j \in DOMAIN radiod :
        decode_packet(radiod[i].data).fields[1] = decode_packet(radiod[j].data).fields[1] => i = j

\* What status_task is told, radiod has said: the fields of a queued packet are
\* those of one STATUS, from the first to the last or to where the buffer cut
\* it, and its SSRC is that STATUS's.  Never a COMMAND heard back, never a value
\* cut short (control.rs:95-143, tlv.rs:172-225).
StatusesTrue ==
    \A i \in DOMAIN statuses : \E st \in Statuses :
        /\ IsPrefix(statuses[i].fields, st)
        /\ statuses[i].ssrc = SsrcIn(statuses[i].fields)
        /\ statuses[i].ssrc \in {NoSsrc, SsrcIn(st)}

\* Malformed datagrams, foreign ones and a slow status_task hold nothing up: all
\* that was sent leaves, all that was heard is dealt with (control.rs:97-143).
GroupIsServed ==
    <>[](socket = <<>> /\ statuses = <<>> /\ \A s \in Sender : sending[s] = Idle)

=============================================================================
