----------------------------- MODULE SequenceLemmas -----------------------------
(* Facts about numbers and sequences that several proofs need.             *)
EXTENDS Integers, SequencesExt, SequenceTheorems, WellFoundedInduction, TLAPS

LEMMA Smallest ==
    ASSUME NEW T, T \subseteq Nat, T # {}
    PROVE  \E m \in T : \A n \in T : m <= n
<1> DEFINE R == OpToRel(<, Nat)
<1>1. \A m, n \in Nat : m < n => <<m, n>> \in R
  BY DEF OpToRel
<1>2. IsWellFoundedOn(R, Nat)
  BY NatLessThanWellFounded
<1> HIDE DEF R
<1>3. PICK m \in T : \A n \in T : ~(<<n, m>> \in R)
  BY <1>2, WFMin
<1>4. \A n \in T : ~(n < m) /\ n \in Nat /\ m \in Nat
  BY <1>1, <1>3
<1> QED  BY <1>4

LEMMA Largest ==
    ASSUME NEW n \in Nat, NEW T, T \subseteq 1 .. n, T # {}
    PROVE  \E m \in T : \A j \in T : j <= m
<1> DEFINE U == {n - j : j \in T}
<1>1. U \subseteq Nat /\ U # {}
  <2>1. \A j \in 1 .. n : n - j \in Nat
    OBVIOUS
  <2>2. \A j \in T : j \in 1 .. n
    OBVIOUS
  <2> QED  BY <2>1, <2>2
<1> HIDE DEF U
<1>2. PICK u \in U : \A v \in U : u <= v
  BY <1>1, Smallest
<1>3. PICK m \in T : u = n - m
  BY <1>2 DEF U
<1>4. \A j \in T : n - j \in U
  BY DEF U
<1>5. \A j \in T : j <= m
  BY <1>2, <1>3, <1>4
<1> QED  BY <1>5

-----------------------------------------------------------------------------
(* Tuples and their parts. *)

LEMMA ShortTuples ==
    /\ \A a : <<a>> \in Seq({a}) /\ Len(<<a>>) = 1 /\ <<a>>[1] = a
    /\ \A a, b : /\ <<a, b>> \in Seq({a, b}) /\ Len(<<a, b>>) = 2
                 /\ <<a, b>>[1] = a /\ <<a, b>>[2] = b
    /\ \A a, b, c : /\ <<a, b, c>> \in Seq({a, b, c}) /\ Len(<<a, b, c>>) = 3
                    /\ <<a, b, c>>[1] = a /\ <<a, b, c>>[2] = b /\ <<a, b, c>>[3] = c
OBVIOUS

LEMMA AsTuple ==
    ASSUME NEW S, NEW s \in Seq(S)
    PROVE  /\ Len(s) = 1 => s = <<s[1]>>
           /\ Len(s) = 2 => s = <<s[1], s[2]>>
           /\ Len(s) = 3 => s = <<s[1], s[2], s[3]>>
OBVIOUS

LEMMA CutOne ==
    ASSUME NEW s, NEW m \in Int
    PROVE  SubSeq(s, m, m) = <<s[m]>>
<1> DEFINE S == {s[m]}
<1>1. \A i \in m .. m : s[i] \in S
  OBVIOUS
<1>2. m - m + 1 = 1 /\ m <= m /\ 1 \in 1 .. m - m + 1 /\ m + 1 - 1 = m
  OBVIOUS
<1> HIDE DEF S
<1>3. /\ SubSeq(s, m, m) \in Seq(S) /\ Len(SubSeq(s, m, m)) = 1
      /\ SubSeq(s, m, m)[1] = s[m]
  BY <1>1, <1>2, SubSeqProperties
<1> QED  BY <1>3, AsTuple

LEMMA CutTwo ==
    ASSUME NEW s, NEW m \in Int
    PROVE  SubSeq(s, m, m + 1) = <<s[m], s[m + 1]>>
<1> DEFINE S == {s[m], s[m + 1]}
           n == m + 1
<1>1. \A i \in m .. n : s[i] \in S
  <2>1. \A i \in m .. n : i = m \/ i = m + 1
    OBVIOUS
  <2> QED  BY <2>1
<1>2. n \in Int /\ n - m + 1 = 2 /\ m <= n /\ m + 1 - 1 = m /\ m + 2 - 1 = m + 1
  OBVIOUS
<1> HIDE DEF S, n
<1>3. /\ SubSeq(s, m, n) \in Seq(S) /\ Len(SubSeq(s, m, n)) = 2
      /\ SubSeq(s, m, n)[1] = s[m] /\ SubSeq(s, m, n)[2] = s[m + 1]
  BY <1>1, <1>2, SubSeqProperties
<1>4. SubSeq(s, m, n) = <<s[m], s[m + 1]>>
  BY <1>3, AsTuple
<1> QED  BY <1>4 DEF n

LEMMA Joined ==
    /\ \A a, b : <<a>> \o <<b>> = <<a, b>>
    /\ \A a, b, c : <<a, b>> \o <<c>> = <<a, b, c>>
    /\ \A a, b, c : <<a>> \o <<b, c>> = <<a, b, c>>
    /\ \A a : <<>> \o <<a>> = <<a>>
<1>1. ASSUME NEW a, NEW b PROVE <<a>> \o <<b>> = <<a, b>>
  <2> DEFINE S == {a, b}
             x == <<a>>
             y == <<b>>
  <2>1. x \in Seq(S) /\ Len(x) = 1 /\ x[1] = a /\ y \in Seq(S) /\ Len(y) = 1 /\ y[1] = b
    OBVIOUS
  <2> HIDE DEF S, x, y
  <2>2. x \o y \in Seq(S) /\ Len(x \o y) = 2 /\ (x \o y)[1] = a /\ (x \o y)[2] = b
    BY <2>1, ConcatProperties
  <2>3. x \o y = <<a, b>>
    BY <2>2, AsTuple
  <2> QED  BY <2>3 DEF x, y
<1>2. ASSUME NEW a, NEW b, NEW c PROVE <<a, b>> \o <<c>> = <<a, b, c>>
  <2> DEFINE S == {a, b, c}
             x == <<a, b>>
             y == <<c>>
  <2>1. /\ x \in Seq(S) /\ Len(x) = 2 /\ x[1] = a /\ x[2] = b
        /\ y \in Seq(S) /\ Len(y) = 1 /\ y[1] = c
    OBVIOUS
  <2> HIDE DEF S, x, y
  <2>2. /\ x \o y \in Seq(S) /\ Len(x \o y) = 3
        /\ (x \o y)[1] = a /\ (x \o y)[2] = b /\ (x \o y)[3] = c
    BY <2>1, ConcatProperties
  <2>3. x \o y = <<a, b, c>>
    BY <2>2, AsTuple
  <2> QED  BY <2>3 DEF x, y
<1>3. ASSUME NEW a, NEW b, NEW c PROVE <<a>> \o <<b, c>> = <<a, b, c>>
  <2> DEFINE S == {a, b, c}
             x == <<a>>
             y == <<b, c>>
  <2>1. /\ x \in Seq(S) /\ Len(x) = 1 /\ x[1] = a
        /\ y \in Seq(S) /\ Len(y) = 2 /\ y[1] = b /\ y[2] = c
    OBVIOUS
  <2> HIDE DEF S, x, y
  <2>2. /\ x \o y \in Seq(S) /\ Len(x \o y) = 3
        /\ (x \o y)[1] = a /\ (x \o y)[2] = b /\ (x \o y)[3] = c
    BY <2>1, ConcatProperties
  <2>3. x \o y = <<a, b, c>>
    BY <2>2, AsTuple
  <2> QED  BY <2>3 DEF x, y
<1>4. ASSUME NEW a PROVE <<>> \o <<a>> = <<a>>
  <2> DEFINE S == {a}
  <2>1. <<a>> \in Seq(S)
    OBVIOUS
  <2> QED  BY <2>1, ConcatEmptySeq
<1> QED  BY <1>1, <1>2, <1>3, <1>4

\* Where the elements of two sequences are, one after the other.
LEMMA Appended ==
    ASSUME NEW S, NEW s \in Seq(S), NEW t \in Seq(S)
    PROVE  /\ s \o t \in Seq(S) /\ Len(s) \in Nat /\ Len(t) \in Nat
           /\ Len(s \o t) = Len(s) + Len(t) /\ DOMAIN (s \o t) = 1 .. Len(s) + Len(t)
           /\ \A i \in 1 .. Len(s) : (s \o t)[i] = s[i]
           /\ \A i \in 1 .. Len(t) : (s \o t)[Len(s) + i] = t[i]
<1> DEFINE m == Len(s)
           n == Len(t)
           u == s \o t
<1>1. m \in Nat /\ n \in Nat
  BY LenProperties
<1>2. /\ u \in Seq(S) /\ Len(u) = m + n
      /\ \A i \in 1 .. m + n : u[i] = IF i <= m THEN s[i] ELSE t[i - m]
  BY ConcatProperties
<1>3. DOMAIN u = 1 .. m + n
  BY <1>2, LenProperties
<1> HIDE DEF m, n, u
<1>4. ASSUME NEW i \in 1 .. m PROVE u[i] = s[i]
  <2>1. i \in 1 .. m + n /\ i <= m
    BY <1>1
  <2> QED  BY <1>2, <2>1
<1>5. ASSUME NEW i \in 1 .. n PROVE u[m + i] = t[i]
  <2> DEFINE j == m + i
  <2>1. j \in 1 .. m + n /\ ~(j <= m) /\ j - m = i
    BY <1>1
  <2> HIDE DEF j
  <2>2. u[j] = t[j - m]
    BY <1>2, <2>1
  <2> QED  BY <2>1, <2>2 DEF j
<1> QED  BY <1>1, <1>2, <1>3, <1>4, <1>5 DEF m, n, u

-----------------------------------------------------------------------------
(* FlattenSeq. *)

\* The sequences one after the other: what FlattenSeq has put together after each.
LEMMA Flattened ==
    ASSUME NEW S, NEW q \in Seq(Seq(S))
    PROVE  \E F \in [0 .. Len(q) -> Seq(S)] :
               /\ F[0] = <<>>
               /\ \A k \in 1 .. Len(q) : F[k] = F[k - 1] \o q[k]
               /\ FlattenSeq(q) = F[Len(q)]
<1> DEFINE n == Len(q)
           Partial(f, m) == /\ f \in [0 .. m -> Seq(S)]
                            /\ f[0] = <<>>
                            /\ \A k \in 1 .. m : f[k] = f[k - 1] \o q[k]
           Bad == {m \in 0 .. n : \A f : ~Partial(f, m)}
<1>1. n \in Nat /\ \A k \in 1 .. n : q[k] \in Seq(S)
  BY LenProperties
<1> HIDE DEF n
<1>2. \E f : Partial(f, 0)
  <2>1. Partial([k \in 0 .. 0 |-> <<>>], 0)
    BY EmptySeq
  <2> QED  BY <2>1
<1>3. ASSUME NEW m \in 1 .. n, NEW f, Partial(f, m - 1) PROVE \E g : Partial(g, m)
  <2> DEFINE g == [k \in 0 .. m |-> IF k = m THEN f[m - 1] \o q[m] ELSE f[k]]
  <2>0. m \in Nat /\ m - 1 \in 0 .. m - 1 /\ 0 # m /\ 0 \in 0 .. m /\ q[m] \in Seq(S)
    BY <1>1
  <2>1. f[m - 1] \o q[m] \in Seq(S)
    BY <1>3, <2>0, ConcatProperties
  <2>2. \A k \in 0 .. m : k # m => k \in 0 .. m - 1
    BY <2>0
  <2>3. g \in [0 .. m -> Seq(S)] /\ g[0] = <<>>
    BY <1>3, <2>0, <2>1, <2>2
  <2>4. ASSUME NEW k \in 1 .. m PROVE g[k] = g[k - 1] \o q[k]
    <3>1. k \in 0 .. m /\ k - 1 \in 0 .. m /\ k - 1 # m /\ (k # m => k \in 1 .. m - 1)
      BY <2>0
    <3> QED  BY <1>3, <3>1
  <2> QED  BY <2>3, <2>4
<1>4. Bad = {}
  <2>1. SUFFICES ASSUME Bad # {} PROVE FALSE
    OBVIOUS
  <2>2. Bad \subseteq Nat /\ Bad \subseteq 0 .. n /\ \A j \in 0 .. n : j \in Bad <=> \A f : ~Partial(f, j)
    <3>1. 0 .. n \subseteq Nat
      BY <1>1
    <3> HIDE DEF Partial
    <3> QED  BY <3>1
  <2> HIDE DEF Bad, Partial
  <2>3. PICK m \in Bad : \A j \in Bad : m <= j
    BY <2>1, <2>2, Smallest
  <2>4. m \in 0 .. n /\ m # 0
    BY <1>2, <2>2
  <2>5. m \in 1 .. n /\ m - 1 \in 0 .. n /\ ~(m <= m - 1)
    BY <1>1, <2>4
  <2>6. PICK f : Partial(f, m - 1)
    BY <2>2, <2>3, <2>5
  <2>7. \E g : Partial(g, m)
    BY <1>3, <2>5, <2>6
  <2> QED  BY <2>2, <2>4, <2>7
<1>5. PICK F : Partial(F, n)
  <2>1. n \in 0 .. n
    BY <1>1
  <2> QED  BY <1>4, <2>1
<1>6. ASSUME NEW h, h = [i \in 1 .. n |-> IF i = 1 THEN q[i] ELSE h[i - 1] \o q[i]], n # 0
      PROVE  h[n] = F[n]
  <2> DEFINE Off == {i \in 1 .. n : h[i] # F[i]}
  <2>1. SUFFICES ASSUME Off # {} PROVE FALSE
    <3>1. n \in 1 .. n
      BY <1>1, <1>6
    <3> QED  BY <3>1
  <2>2. PICK m \in Off : \A j \in Off : m <= j
    <3>1. Off \subseteq Nat
      BY <1>1
    <3> HIDE DEF Off
    <3> QED  BY <2>1, <3>1, Smallest
  <2>3. h[m] = IF m = 1 THEN q[m] ELSE h[m - 1] \o q[m]
    <3> HIDE DEF Off
    <3>1. m \in 1 .. n
      BY <2>2 DEF Off
    <3> QED  BY <1>6, <3>1
  <2>4. m # 1
    <3>0. 1 \in 1 .. n /\ 1 - 1 = 0
      BY <1>1, <1>6
    <3>1. F[1] = F[0] \o q[1] /\ F[0] = <<>>
      BY <1>5, <3>0
    <3>2. F[1] = q[1]
      BY <1>1, <3>1, ConcatEmptySeq
    <3> QED  BY <2>2, <2>3, <3>2
  <2>5. m - 1 \in 1 .. n /\ m - 1 \notin Off
    BY <1>1, <2>2, <2>4
  <2> QED  BY <1>5, <2>2, <2>3, <2>4, <2>5
<1>7. FlattenSeq(q) = F[n]
  <2>1. CASE n = 0
    <3>1. q = <<>>
      BY <2>1, EmptySeq DEF n
    <3> QED  BY <1>5, <2>1, <3>1 DEF FlattenSeq, n
  <2>2. CASE n # 0
    <3> DEFINE P(h) == h = [i \in 1 .. n |-> IF i = 1 THEN q[i] ELSE h[i - 1] \o q[i]]
    <3>1. P([i \in 1 .. n |-> F[i]])
      <4> DEFINE h == [i \in 1 .. n |-> F[i]]
      <4>1. ASSUME NEW i \in 1 .. n PROVE h[i] = IF i = 1 THEN q[i] ELSE h[i - 1] \o q[i]
        <5>1. (i = 1 => i - 1 = 0) /\ (i # 1 => i - 1 \in 1 .. n)
          BY <1>1
        <5>2. F[i] = F[i - 1] \o q[i] /\ F[0] = <<>>
          BY <1>5
        <5>3. <<>> \o q[i] = q[i]
          BY <1>1, ConcatEmptySeq
        <5>4. i # 1 => h[i - 1] = F[i - 1]
          BY <5>1
        <5>5. h[i] = F[i]
          OBVIOUS
        <5> HIDE DEF h
        <5> QED  BY <5>1, <5>2, <5>3, <5>4, <5>5
      <4> QED  BY <4>1
    <3>2. P(CHOOSE h : P(h))
      BY <3>1
    <3>3. (CHOOSE h : P(h))[n] = F[n]
      <4> HIDE DEF P
      <4>1. \A h : P(h) => h[n] = F[n]
        BY <1>6, <2>2 DEF P
      <4> QED  BY <3>2, <4>1
    <3>4. FlattenSeq(q) = (CHOOSE h : P(h))[n]
      BY <2>2 DEF FlattenSeq, n
    <3> QED  BY <3>3, <3>4
  <2> QED  BY <2>1, <2>2
<1> QED  BY <1>5, <1>7 DEF n

\* Where the elements of each of them are.
LEMMA FlattenedPlaces ==
    ASSUME NEW S, NEW q \in Seq(Seq(S))
    PROVE  /\ FlattenSeq(q) \in Seq(S)
           /\ \E at \in [1 .. Len(q) + 1 -> Nat] :
                  /\ at[1] = 0 /\ Len(FlattenSeq(q)) = at[Len(q) + 1]
                  /\ \A k \in 1 .. Len(q) :
                         /\ at[k + 1] = at[k] + Len(q[k])
                         /\ at[k + 1] <= at[Len(q) + 1]
                         /\ \A j \in 1 .. Len(q[k]) : FlattenSeq(q)[at[k] + j] = q[k][j]
<1> DEFINE n == Len(q)
           all == FlattenSeq(q)
<1>1. PICK F \in [0 .. n -> Seq(S)] :
          /\ F[0] = <<>>
          /\ \A k \in 1 .. n : F[k] = F[k - 1] \o q[k]
          /\ all = F[n]
  BY Flattened
<1>2. n \in Nat /\ \A k \in 1 .. n : q[k] \in Seq(S)
  BY LenProperties
<1> HIDE DEF n, all
<1> DEFINE at == [k \in 1 .. n + 1 |-> Len(F[k - 1])]
           Prefix(k) == Len(F[k]) <= Len(all) /\ \A i \in 1 .. Len(F[k]) : all[i] = F[k][i]
           Bad == {k \in 0 .. n : ~Prefix(k)}
<1>3. \A k \in 0 .. n : F[k] \in Seq(S) /\ Len(F[k]) \in Nat
  BY <1>1, LenProperties
<1>4. all \in Seq(S) /\ Len(all) = Len(F[n])
  BY <1>1, <1>2, <1>3
<1>5. ASSUME NEW k \in 1 .. n
      PROVE  /\ Len(F[k]) = Len(F[k - 1]) + Len(q[k]) /\ Len(q[k]) \in Nat
             /\ \A i \in 1 .. Len(F[k - 1]) : F[k][i] = F[k - 1][i]
             /\ \A j \in 1 .. Len(q[k]) : F[k][Len(F[k - 1]) + j] = q[k][j]
  <2>1. k - 1 \in 0 .. n
    BY <1>2
  <2>2. F[k - 1] \in Seq(S) /\ q[k] \in Seq(S) /\ F[k] = F[k - 1] \o q[k]
    BY <1>1, <1>2, <1>3, <2>1
  <2> DEFINE s == F[k - 1]
             t == q[k]
  <2> HIDE DEF s, t
  <2>3. s \in Seq(S) /\ t \in Seq(S) /\ F[k] = s \o t
    BY <2>2 DEF s, t
  <2>4. /\ Len(s \o t) = Len(s) + Len(t) /\ Len(t) \in Nat
        /\ \A i \in 1 .. Len(s) : (s \o t)[i] = s[i]
        /\ \A j \in 1 .. Len(t) : (s \o t)[Len(s) + j] = t[j]
    BY <2>3, Appended
  <2>5. /\ Len(F[k]) = Len(s) + Len(t) /\ Len(t) \in Nat
        /\ \A i \in 1 .. Len(s) : F[k][i] = s[i]
        /\ \A j \in 1 .. Len(t) : F[k][Len(s) + j] = t[j]
    BY <2>3, <2>4
  <2> QED  BY <2>5 DEF s, t
<1>6. ASSUME NEW k \in 1 .. n, Prefix(k) PROVE Prefix(k - 1)
  <2>1. k - 1 \in 0 .. n /\ k \in 0 .. n /\ Len(F[k - 1]) \in Nat /\ Len(q[k]) \in Nat /\ Len(all) \in Nat
    BY <1>2, <1>3, <1>4, <1>5, LenProperties
  <2>2. Len(F[k]) = Len(F[k - 1]) + Len(q[k])
    BY <1>5
  <2>3. 1 .. Len(F[k - 1]) \subseteq 1 .. Len(F[k]) /\ Len(F[k - 1]) <= Len(all)
    <3>1. Len(F[k]) <= Len(all)
      BY <1>6
    <3>2. \A a, b, c, d \in Nat : c = a + b /\ c <= d => 1 .. a \subseteq 1 .. c /\ a <= d
      OBVIOUS
    <3>3. Len(F[k]) \in Nat
      BY <1>3, <2>1
    <3> QED  BY <2>1, <2>2, <3>1, <3>2, <3>3
  <2> QED  BY <1>5, <1>6, <2>3
<1>7. \A k \in 0 .. n : Prefix(k)
  <2>1. Prefix(n)
    BY <1>1, <1>2, <1>3
  <2> HIDE DEF Prefix
  <2>2. SUFFICES ASSUME Bad # {} PROVE FALSE
    OBVIOUS
  <2>3. PICK m \in Bad : \A j \in Bad : j <= m
    <3> DEFINE Up == {k + 1 : k \in Bad}
    <3>1. Up \subseteq 1 .. n + 1 /\ Up # {} /\ n + 1 \in Nat
      BY <1>2, <2>2
    <3> HIDE DEF Up
    <3>2. PICK u \in Up : \A v \in Up : v <= u
      BY <3>1, Largest
    <3>3. PICK m \in Bad : u = m + 1
      BY <3>2 DEF Up
    <3>4. \A j \in Bad : j + 1 \in Up
      BY DEF Up
    <3>5. \A j \in Bad : j + 1 <= m + 1 /\ j \in Nat /\ m \in Nat
      BY <1>2, <3>2, <3>3, <3>4
    <3> QED  BY <3>5
  <2>4. m \in 0 .. n /\ m # n /\ ~Prefix(m)
    BY <2>1
  <2>5. m + 1 \in 1 .. n /\ ~(m + 1 <= m) /\ m + 1 \in 0 .. n /\ (m + 1) - 1 = m
    BY <1>2, <2>4
  <2>6. Prefix(m + 1)
    BY <2>3, <2>5
  <2> QED  BY <1>6, <2>4, <2>5, <2>6
<1>8. at \in [1 .. n + 1 -> Nat] /\ at[1] = 0 /\ Len(all) = at[n + 1]
  <2>1. /\ \A k \in 1 .. n + 1 : k - 1 \in 0 .. n
        /\ 1 \in 1 .. n + 1 /\ n + 1 \in 1 .. n + 1 /\ (n + 1) - 1 = n /\ 1 - 1 = 0
    BY <1>2
  <2> QED  BY <1>1, <1>3, <1>4, <2>1, EmptySeq
<1>9. ASSUME NEW k \in 1 .. n
      PROVE  /\ at[k + 1] = at[k] + Len(q[k]) /\ at[k + 1] <= at[n + 1]
             /\ \A j \in 1 .. Len(q[k]) : all[at[k] + j] = q[k][j]
  <2>1. /\ k \in 1 .. n + 1 /\ k + 1 \in 1 .. n + 1 /\ (k + 1) - 1 = k /\ k \in 0 .. n
        /\ Len(F[k - 1]) \in Nat /\ k - 1 \in 0 .. n
    BY <1>2, <1>3
  <2>2. at[k] = Len(F[k - 1]) /\ at[k + 1] = Len(F[k])
    BY <2>1
  <2>3. Prefix(k)
    BY <1>7, <2>1
  <2>4. ASSUME NEW j \in 1 .. Len(q[k]) PROVE all[at[k] + j] = q[k][j]
    <3> DEFINE i == Len(F[k - 1]) + j
    <3>1. i \in 1 .. Len(F[k]) /\ F[k][i] = q[k][j]
      <4>1. Len(F[k]) = Len(F[k - 1]) + Len(q[k]) /\ Len(q[k]) \in Nat
        BY <1>5
      <4>2. i \in 1 .. Len(F[k])
        BY <2>1, <4>1
      <4> QED  BY <1>5, <4>2
    <3> HIDE DEF i
    <3>2. all[i] = F[k][i]
      BY <2>3, <3>1
    <3> QED  BY <2>2, <3>1, <3>2 DEF i
  <2> QED  BY <1>5, <1>8, <2>2, <2>3, <2>4
<1> HIDE DEF at
<1> QED  BY <1>4, <1>8, <1>9 DEF n, all

LEMMA MinOfTwo ==
    ASSUME NEW a \in Nat, NEW b \in Nat
    PROVE  /\ Min({a, b}) \in Nat /\ Min({a, b}) \in {a, b}
           /\ Min({a, b}) <= a /\ Min({a, b}) <= b
<1>1. \E x \in {a, b} : \A y \in {a, b} : x <= y
  OBVIOUS
<1> QED  BY <1>1 DEF Min

\* What is left of a sequence that is cut.
LEMMA CutShort ==
    ASSUME NEW S, NEW s \in Seq(S), NEW c \in 0 .. Len(s)
    PROVE  /\ SubSeq(s, 1, c) \in Seq(S) /\ Len(SubSeq(s, 1, c)) = c
           /\ \A i \in 1 .. c : SubSeq(s, 1, c)[i] = s[i]
<1>1. Len(s) \in Nat /\ c \in Int /\ \A i \in 1 .. c : s[i] \in S
  BY LenProperties, ElementOfSeq
<1>2. c - 1 + 1 = c /\ (c < 1 => c = 0) /\ \A i \in 1 .. c : 1 + i - 1 = i
  BY <1>1
<1>3. /\ SubSeq(s, 1, c) \in Seq(S)
      /\ Len(SubSeq(s, 1, c)) = IF 1 <= c THEN c - 1 + 1 ELSE 0
      /\ \A i \in 1 .. c - 1 + 1 : SubSeq(s, 1, c)[i] = s[1 + i - 1]
  BY <1>1, SubSeqProperties
<1> QED  BY <1>1, <1>2, <1>3

LEMMA CutTwice ==
    ASSUME NEW S, NEW s \in Seq(S), NEW n \in 0 .. Len(s), NEW c \in 0 .. n
    PROVE  SubSeq(SubSeq(s, 1, n), 1, c) = SubSeq(s, 1, c)
<1> DEFINE t == SubSeq(s, 1, n)
<1>1. Len(s) \in Nat /\ c \in 0 .. Len(s)
  BY LenProperties
<1>2. t \in Seq(S) /\ Len(t) = n /\ \A i \in 1 .. n : t[i] = s[i]
  BY CutShort
<1> HIDE DEF t
<1>3. c \in 0 .. Len(t) /\ 1 .. c \subseteq 1 .. n
  BY <1>1, <1>2
<1>4. /\ SubSeq(t, 1, c) \in Seq(S) /\ Len(SubSeq(t, 1, c)) = c
      /\ \A i \in 1 .. c : SubSeq(t, 1, c)[i] = t[i]
  BY <1>2, <1>3, CutShort
<1>5. /\ SubSeq(s, 1, c) \in Seq(S) /\ Len(SubSeq(s, 1, c)) = c
      /\ \A i \in 1 .. c : SubSeq(s, 1, c)[i] = s[i]
  BY <1>1, CutShort
<1>6. SubSeq(t, 1, c) = SubSeq(s, 1, c)
  BY <1>2, <1>3, <1>4, <1>5, SeqEqual
<1> QED  BY <1>6 DEF t

LEMMA Concatenated ==
    ASSUME NEW S, NEW s \in Seq(S), NEW t \in Seq(S)
    PROVE  /\ s \o t \in Seq(S) /\ Len(s \o t) = Len(s) + Len(t)
           /\ \A i \in 1 .. Len(s) : (s \o t)[i] = s[i]
           /\ \A i \in 1 .. Len(t) : (s \o t)[Len(s) + i] = t[i]
BY Appended

LEMMA PartAndMore ==
    ASSUME NEW S, NEW s \in Seq(S), NEW k \in Nat, k > 0, NEW m \in Nat, k <= m, m <= Len(s)
    PROVE  <<s[k]>> \o SubSeq(s, k + 1, m) = SubSeq(s, k, m)
<1> DEFINE x == k + 1
           a == <<s[k]>>
           b == SubSeq(s, x, m)
           c == SubSeq(s, k, m)
<1>1. Len(s) \in Nat /\ \A i \in 1 .. Len(s) : s[i] \in S
  BY LenProperties, ElementOfSeq
<1>2. /\ k \in Int /\ x \in Int /\ m \in Int
      /\ \A i \in k .. m : i \in 1 .. Len(s)
      /\ \A i \in x .. m : i \in 1 .. Len(s)
      /\ k \in k .. m /\ k <= m /\ m - k + 1 = 1 + (m - k) /\ m - k \in Nat
      /\ m - x + 1 = m - k /\ (~(x <= m) => m - k = 0)
  BY <1>1
<1>3. a \in Seq(S) /\ Len(a) = 1 /\ a[1] = s[k]
  BY <1>1, <1>2
<1> HIDE DEF x
<1>4. /\ b \in Seq(S) /\ Len(b) = m - k
      /\ \A i \in 1 .. m - k : b[i] = s[x + i - 1]
  <2>1. \A i \in x .. m : s[i] \in S
    BY <1>1, <1>2
  <2>2. /\ b \in Seq(S) /\ Len(b) = IF x <= m THEN m - x + 1 ELSE 0
        /\ \A i \in 1 .. m - x + 1 : b[i] = s[x + i - 1]
    BY <1>2, <2>1, SubSeqProperties
  <2> HIDE DEF b
  <2> QED  BY <1>2, <2>2
<1>5. /\ c \in Seq(S) /\ Len(c) = 1 + (m - k)
      /\ \A i \in 1 .. 1 + (m - k) : c[i] = s[k + i - 1]
  <2>1. \A i \in k .. m : s[i] \in S
    BY <1>1, <1>2
  <2>2. /\ c \in Seq(S) /\ Len(c) = IF k <= m THEN m - k + 1 ELSE 0
        /\ \A i \in 1 .. m - k + 1 : c[i] = s[k + i - 1]
    BY <1>2, <2>1, SubSeqProperties
  <2> HIDE DEF c
  <2> QED  BY <1>2, <2>2
<1> HIDE DEF a, b, c
<1> DEFINE w == a \o b
           l == m - k
<1>6. /\ w \in Seq(S) /\ Len(w) = 1 + l
      /\ \A i \in 1 .. 1 : w[i] = a[i]
      /\ \A i \in 1 .. l : w[1 + i] = b[i]
  <2>1. /\ a \o b \in Seq(S) /\ Len(a \o b) = Len(a) + Len(b)
        /\ \A i \in 1 .. Len(a) : (a \o b)[i] = a[i]
        /\ \A i \in 1 .. Len(b) : (a \o b)[Len(a) + i] = b[i]
    <3>1. a \in Seq(S) /\ b \in Seq(S)
      BY <1>3, <1>4
    <3> HIDE DEF w, l
    <3> QED  BY <3>1, Concatenated
  <2> QED  BY <1>3, <1>4, <2>1
<1> HIDE DEF w
<1>7. ASSUME NEW i \in 1 .. 1 + l PROVE w[i] = c[i]
  <2>1. CASE i = 1
    <3>1. 1 \in 1 .. 1 /\ k + 1 - 1 = k
      OBVIOUS
    <3> QED  BY <1>3, <1>5, <1>6, <2>1, <3>1
  <2>2. CASE i # 1
    <3> DEFINE j == i - 1
    <3>1. j \in 1 .. l /\ 1 + j = i /\ x + j - 1 = k + i - 1
      BY <1>2, <2>2 DEF x
    <3> HIDE DEF j
    <3>2. w[1 + j] = b[j] /\ b[j] = s[x + j - 1] /\ c[i] = s[k + i - 1]
      BY <1>4, <1>5, <1>6, <3>1
    <3> QED  BY <3>1, <3>2
  <2> QED  BY <2>1, <2>2
<1>8. w = c
  BY <1>5, <1>6, <1>7, SeqEqual
<1> QED  BY <1>8 DEF w, a, b, c, x

LEMMA NothingCut ==
    ASSUME NEW s, NEW k \in Nat, k > 0
    PROVE  SubSeq(s, k, k - 1) = <<>>
<1> DEFINE y == k - 1
           e == SubSeq(s, k, y)
<1>1. k \in Int /\ y \in Int /\ ~(k <= y) /\ \A i \in k .. y : s[i] \in {}
  OBVIOUS
<1> HIDE DEF y
<1>2. e \in Seq({}) /\ Len(e) = IF k <= y THEN y - k + 1 ELSE 0
  BY <1>1, SubSeqProperties
<1> HIDE DEF e
<1>3. e = <<>>
  BY <1>1, <1>2
<1> QED  BY <1>3 DEF e, y

LEMMA AllOfIt ==
    ASSUME NEW S, NEW s \in Seq(S)
    PROVE  SubSeq(s, 1, Len(s)) = s
<1> DEFINE n == Len(s)
           t == SubSeq(s, 1, n)
<1>1. n \in Nat /\ n \in 0 .. Len(s)
  BY LenProperties
<1>2. t \in Seq(S) /\ Len(t) = n /\ \A i \in 1 .. n : t[i] = s[i]
  BY <1>1, CutShort
<1> HIDE DEF t
<1>3. t = s
  BY <1>2, SeqEqual
<1> QED  BY <1>3 DEF t
=============================================================================
