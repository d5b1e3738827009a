------------------------------- MODULE MCDataPlane -------------------------------
(* Small instances of DataPlane. *)
EXTENDS DataPlane

CONSTANTS k0, k1, g48, g96

\* SSRCs of two endpoints' VFO A, of a VFO B and a removed endpoint's channel
\* of an earlier run, and of another program.
A0   == ssrc_encode(0, 0, 0)
B0   == ssrc_encode(0, 0, 1)
A1   == ssrc_encode(1, 0, 0)
Gone == ssrc_encode(5, 0, 0)
Foreign == 1

One      == {A0}
OwnAndB  == {A0, B0}
Every    == {A0, B0, A1, Foreign}
Leftover == {A0, Gone}

TwoEndpoints == {0, 1}
OneTrx       == [e \in Endpoint |-> 1]
Homes        == [k \in Session |-> IF k = k1 THEN 1 ELSE 0]
AtHome       == [k \in Session |-> 0]
Start48      == [e \in Endpoint |-> 48]

\* One packet of each stream; two of A0's in the instances about order.
Single    == [s \in Stream |-> 1]
TwoOfOurs == [s \in Stream |-> IF s = A0 THEN 2 ELSE 1]

\* When the program starts the streams are at the configured rate and have sent
\* nothing, or two channels were left by an earlier run: ours at the configured
\* rate, with a packet more to come than that of the removed endpoint, or ours on
\* another preset, with as many, the other one silent.
Fresh == {[s \in Stream |-> [rate |-> 48, sent |-> 0]]}
Left  == {[s \in Stream |-> [rate |-> 48, sent |-> IF s = A0 THEN 0 ELSE 1]],
          [s \in Stream |-> [rate |-> 48, sent |-> IF s = A0 THEN 1 ELSE 0]],
          [s \in Stream |-> [rate |-> IF s = A0 THEN 96 ELSE 48, sent |-> 1]]}

GroupOfRate == [r \in Rate |-> IF r = 48 THEN g48 ELSE g96]
===================================================================================
