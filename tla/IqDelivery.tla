------------------------------- MODULE IqDelivery -------------------------------
(***************************************************************************)
(* What the data plane owes a client: frames of the streams that are its   *)
(* own, each made of a packet radiod has sent, and those that came through *)
(* one multicast group in the order they were sent, none of them twice.    *)
(* Any frame may be missing.  Module DataPlane implements this.            *)
(***************************************************************************)
EXTENDS Naturals, Sequences

CONSTANTS
    Stream, Group, Session,
    Home          \* <<k, s, t>>: client k hears stream s as TRX t

VARIABLES
    sent,         \* packets radiod has sent of each stream
    got           \* frames delivered to each client since it connected

vars == <<sent, got>>

Init ==
    /\ sent \in [Stream -> Nat]
    /\ got = [k \in Session |-> <<>>]

Emit(s) ==
    /\ sent' = [sent EXCEPT ![s] = @ + 1]
    /\ UNCHANGED got

\* Nothing of that stream and group with this number or a later one came before.
Deliver(k, s, g, t, n) ==
    /\ <<k, s, t>> \in Home
    /\ n <= sent[s]
    /\ \A i \in DOMAIN got[k] : got[k][i].ssrc = s /\ got[k][i].group = g => got[k][i].seq < n
    /\ got' = [got EXCEPT ![k] = Append(@, [ssrc |-> s, seq |-> n, group |-> g, trx |-> t])]
    /\ UNCHANGED sent

Reconnect(k) ==
    /\ got' = [got EXCEPT ![k] = <<>>]
    /\ UNCHANGED sent

Next ==
    \/ \E s \in Stream : Emit(s)
    \/ \E k \in Session : Reconnect(k)
    \/ \E h \in Home, g \in Group : \E n \in 1 .. sent[h[2]] : Deliver(h[1], h[2], g, h[3], n)

Spec == Init /\ [][Next]_vars
=================================================================================
