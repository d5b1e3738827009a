-------------------------------- MODULE MCStartUp --------------------------------
(* Configurations for StartUp. *)
EXTENDS StartUp

\* A TRX on every third position has no frequency.
Trx(n) == [t \in 1 .. n |-> IF t % 3 = 0 THEN 0 ELSE t]

Multi(s) == [endpoints |-> s, trx |-> <<>>]
Flat(n)  == [endpoints |-> <<>>, trx |-> Trx(n)]

\* No file; a flat list of 16; endpoints with 0 to 16 TRX beside a flat list
\* that is ignored; one endpoint more than the program accepts.
Fleet == {Flat(0), Flat(16),
          [endpoints |-> [e \in 1 .. 17 |-> Trx(e - 1)], trx |-> Trx(3)],
          Multi([e \in 1 .. 256 |-> Trx(0)])}

\* One TRX more than the TRX field holds; one more than a byte counts.
SeventeenTrx    == {Flat(17)}
TwoFiftySixTrx  == {Flat(256)}

\* One TRX more than `--max-trx` allows by default.
FourTrx == {Flat(4)}
===================================================================================
