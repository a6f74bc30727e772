----------------------------- MODULE DrainProofs -----------------------------
(***************************************************************************)
(* The framed stream, from the page one read is served to the runs a phone *)
(* makes of the pages, for every length of line, capacity of page, number  *)
(* of runs and pattern of reads, seeks, acknowledgements and drops.        *)
(*                                                                         *)
(* The wire is the frames end to end, which is a recursion over the lines; *)
(* what the proofs use of it is shown once, below, from the recursion.     *)
(***************************************************************************)
EXTENDS FramedStream, QueueDrain, WellFoundedInduction, SequenceTheorems,
        FiniteSetTheorems, TLAPS

-----------------------------------------------------------------------------
(* Recursion: the smallest place at which a claim fails.                   *)

LessThan == {p \in Nat \X Nat : p[1] < p[2]}

LEMMA SmallestExists ==
  ASSUME NEW S \in SUBSET Nat, S # {}
  PROVE  \E m \in S : \A n \in S : m <= n
<1>0. IsWellFoundedOn(LessThan, Nat)
  BY NatLessThanWellFounded, Zenon DEF OpToRel, LessThan
<1>1. PICK m \in S : \A n \in S : ~(<<n, m>> \in LessThan)
  BY <1>0, WFMin
<1>2. ASSUME NEW n \in S PROVE m <= n
  <2>1. ~(<<n, m>> \in LessThan)
    BY <1>1
  <2> QED
    BY <2>1 DEF LessThan
<1> QED
  BY <1>2

(* A function given by its first value and by what each value makes of the *)
(* one before it exists.                                                   *)
Recurs(g, c, D, n) ==
  g[0] = c /\ \A i \in 1..n : g[i] = D[<<g[i - 1], i>>]

LEMMA RecursionExists ==
  ASSUME NEW S, NEW c \in S, NEW n \in Nat, NEW D \in [S \X Nat -> S]
  PROVE  \E g \in [0..n -> S] : Recurs(g, c, D, n)
<1> DEFINE Ok(k) == \E g \in [0..k -> S] : Recurs(g, c, D, k)
           T == {k \in 0..n : ~Ok(k)}
<1>1. SUFFICES ASSUME T # {} PROVE FALSE
  <2>1. n \in 0..n
    OBVIOUS
  <2> QED
    BY <2>1
<1>2. PICK k \in T : \A j \in T : k <= j
  <2>1. T \in SUBSET Nat
    OBVIOUS
  <2> QED
    BY <1>1, <2>1, SmallestExists
<1>3. CASE k = 0
  <2>1. [i \in 0..0 |-> c] \in [0..0 -> S] /\ Recurs([i \in 0..0 |-> c], c, D, 0)
    BY DEF Recurs
  <2> QED
    BY <2>1, <1>3, <1>2
<1>4. CASE k # 0
  <2>1. k \in Nat /\ k - 1 \in 0..n /\ ~(k <= k - 1)
    BY <1>2, <1>4
  <2>2. Ok(k - 1)
    BY <2>1, <1>2
  <2>3. PICK g \in [0..(k - 1) -> S] : Recurs(g, c, D, k - 1)
    BY <2>2
  <2> DEFINE h == [i \in 0..k |-> IF i = k THEN D[<<g[k - 1], k>>] ELSE g[i]]
  <2>4. g[k - 1] \in S /\ D[<<g[k - 1], k>>] \in S
    BY <2>1, <2>3
  <2>5. h \in [0..k -> S]
    BY <2>1, <2>3, <2>4
  <2>6. h[0] = c
    BY <2>1, <2>3, <1>4 DEF Recurs
  <2>7. ASSUME NEW i \in 1..k PROVE h[i] = D[<<h[i - 1], i>>]
    <3>1. CASE i = k
      <4>1. h[k] = D[<<g[k - 1], k>>] /\ h[k - 1] = g[k - 1]
        BY <2>1
      <4> QED
        BY <4>1, <3>1
    <3>2. CASE i # k
      <4>1. i \in 1..(k - 1) /\ h[i] = g[i] /\ h[i - 1] = g[i - 1]
        BY <3>2, <2>1
      <4> QED
        BY <4>1, <2>3 DEF Recurs
    <3> QED
      BY <3>1, <3>2
  <2> HIDE DEF h
  <2>8. Recurs(h, c, D, k)
    BY <2>6, <2>7 DEF Recurs
  <2> QED
    BY <2>5, <2>8, <1>2
<1> QED
  BY <1>3, <1>4

-----------------------------------------------------------------------------
(* Frames end to end.                                                      *)

(* What the first n of the sequences s make.                               *)
Joined(s, n) == FlattenSeq(SubSeq(s, 1, n))

LEMMA RunningJoin ==
  ASSUME NEW B, NEW s \in Seq(Seq(B))
  PROVE  \E F \in [0..Len(s) -> Seq(B)] :
           /\ F[0] = <<>>
           /\ \A i \in 1..Len(s) : F[i] = F[i - 1] \o s[i]
<1> DEFINE tail(i) == IF i \in 1..Len(s) THEN s[i] ELSE <<>>
           D == [p \in Seq(B) \X Nat |-> p[1] \o tail(p[2])]
<1>1. <<>> \in Seq(B) /\ Len(s) \in Nat
  OBVIOUS
<1>2. \A i \in Nat : tail(i) \in Seq(B)
  BY <1>1
<1>3. ASSUME NEW p \in Seq(B) \X Nat PROVE p[1] \o tail(p[2]) \in Seq(B)
  <2>1. p[1] \in Seq(B) /\ tail(p[2]) \in Seq(B)
    BY <1>2
  <2> HIDE DEF tail
  <2> QED
    BY <2>1, ConcatProperties
<1>4. D \in [Seq(B) \X Nat -> Seq(B)]
  BY <1>3
<1>5. PICK F \in [0..Len(s) -> Seq(B)] : Recurs(F, <<>>, D, Len(s))
  <2> HIDE DEF D
  <2> QED
    BY <1>1, <1>4, RecursionExists
<1>6. ASSUME NEW i \in 1..Len(s) PROVE F[i] = F[i - 1] \o s[i]
  <2>1. F[i] = D[<<F[i - 1], i>>]
    BY <1>5 DEF Recurs
  <2>a. i - 1 \in 0..Len(s) /\ i \in Nat
    BY <1>1
  <2>b. tail(i) = s[i]
    OBVIOUS
  <2>2. F[i - 1] \in Seq(B) /\ i \in Nat /\ tail(i) = s[i]
    BY <2>a, <2>b, <1>5
  <2>3. <<F[i - 1], i>> \in Seq(B) \X Nat
    BY <2>2
  <2>4. D[<<F[i - 1], i>>] = F[i - 1] \o tail(i)
    BY <2>3
  <2> QED
    BY <2>1, <2>2, <2>4
<1> QED
  BY <1>5, <1>6 DEF Recurs

Flattening(t, g) ==
  g = [i \in 1..Len(t) |-> IF i = 1 THEN t[i] ELSE g[i - 1] \o t[i]]

LEMMA FlattenIs ==
  ASSUME NEW t, Len(t) # 0
  PROVE  FlattenSeq(t) = (CHOOSE g : Flattening(t, g))[Len(t)]
BY DEF FlattenSeq, Flattening

LEMMA FlattenRuns ==
  ASSUME NEW B, NEW s \in Seq(Seq(B)), NEW n \in 0..Len(s),
         NEW F \in [0..Len(s) -> Seq(B)],
         F[0] = <<>>, \A i \in 1..Len(s) : F[i] = F[i - 1] \o s[i]
  PROVE  Joined(s, n) = F[n]
<1> DEFINE t == SubSeq(s, 1, n)
<1>1. Len(t) = n /\ \A i \in 1..n : t[i] = s[i] /\ t[i] \in Seq(B)
  OBVIOUS
<1>2. CASE n = 0
  BY <1>1, <1>2 DEF Joined, FlattenSeq
<1>3. CASE n # 0
  <2> HIDE DEF t
  <2> DEFINE G == [i \in 1..n |-> F[i]]
  <2>1. ASSUME NEW i \in 1..n
        PROVE  F[i] = IF i = 1 THEN t[i] ELSE G[i - 1] \o t[i]
    <3>1. CASE i = 1
      <4>a. 1 \in 1..Len(s) /\ 1 \in 1..n /\ 1 - 1 = 0
        BY <3>1
      <4>1. F[1] = <<>> \o s[1] /\ s[1] \in Seq(B) /\ t[1] = s[1]
        BY <4>a, <1>1
      <4>2. <<>> \o s[1] = s[1]
        BY <4>1
      <4> QED
        BY <3>1, <4>1, <4>2
    <3>2. CASE i # 1
      <4>1. i - 1 \in 1..n /\ i \in 1..Len(s)
        BY <3>2
      <4>2. F[i] = F[i - 1] \o s[i] /\ G[i - 1] = F[i - 1] /\ t[i] = s[i]
        BY <4>1, <1>1
      <4> QED
        BY <4>2, <3>2
    <3> QED
      BY <3>1, <3>2
  <2>2. Flattening(t, G)
    BY <2>1, <1>1 DEF Flattening
  <2>3. PICK g : g = (CHOOSE h : Flattening(t, h))
    OBVIOUS
  <2>4. Flattening(t, g)
    <3> HIDE DEF G
    <3> QED
      BY <2>2, <2>3, Zenon
  <2>5. \A i \in 1..n : g[i] = F[i]
    <3> DEFINE T == {i \in 1..n : g[i] # F[i]}
    <3>1. SUFFICES ASSUME T # {} PROVE FALSE
      OBVIOUS
    <3>2. PICK k \in T : \A j \in T : k <= j
      <4>1. T \in SUBSET Nat
        OBVIOUS
      <4> QED
        BY <3>1, <4>1, SmallestExists
    <3>3. g[k] = IF k = 1 THEN t[k] ELSE g[k - 1] \o t[k]
      BY <2>4, <1>1, <3>2 DEF Flattening
    <3>4. CASE k = 1
      BY <3>2, <3>3, <3>4, <2>1
    <3>5. CASE k # 1
      <4>1. k - 1 \in 1..n /\ ~(k <= k - 1)
        BY <3>2, <3>5
      <4>2. g[k - 1] = F[k - 1]
        BY <3>2, <4>1
      <4> QED
        BY <3>2, <3>3, <3>5, <4>1, <4>2, <2>1
    <3> QED
      BY <3>4, <3>5
  <2>6. Joined(s, n) = g[n]
    BY <1>1, <1>3, <2>3, FlattenIs DEF Joined, t
  <2> QED
    BY <2>5, <2>6, <1>3
<1> QED
  BY <1>2, <1>3

(* The stream of one more frame is the stream before it and the frame.     *)
LEMMA JoinGrows ==
  ASSUME NEW B, NEW s \in Seq(Seq(B))
  PROVE  /\ Joined(s, 0) = <<>>
         /\ \A n \in 0..Len(s) : Joined(s, n) \in Seq(B)
         /\ \A n \in 1..Len(s) : Joined(s, n) = Joined(s, n - 1) \o s[n]
         /\ FlattenSeq(s) = Joined(s, Len(s))
<1>1. PICK F \in [0..Len(s) -> Seq(B)] :
        F[0] = <<>> /\ \A i \in 1..Len(s) : F[i] = F[i - 1] \o s[i]
  BY RunningJoin
<1>2. \A n \in 0..Len(s) : Joined(s, n) = F[n]
  BY <1>1, FlattenRuns
<1>3. SubSeq(s, 1, Len(s)) = s
  OBVIOUS
<1>4. FlattenSeq(s) = Joined(s, Len(s))
  BY <1>3 DEF Joined
<1>5. ASSUME NEW n \in 1..Len(s) PROVE Joined(s, n) = Joined(s, n - 1) \o s[n]
  <2>1. n \in 0..Len(s) /\ n - 1 \in 0..Len(s)
    OBVIOUS
  <2> QED
    BY <2>1, <1>1, <1>2
<1>6. 0 \in 0..Len(s)
  OBVIOUS
<1> QED
  BY <1>1, <1>2, <1>4, <1>5, <1>6

(* What was sent stays where it is, however much follows.                  *)
LEMMA JoinKeeps ==
  ASSUME NEW B, NEW s \in Seq(Seq(B)), NEW n \in 0..Len(s)
  PROVE  \A k \in n..Len(s) :
           /\ Len(Joined(s, n)) <= Len(Joined(s, k))
           /\ \A i \in 1..Len(Joined(s, n)) : Joined(s, k)[i] = Joined(s, n)[i]
<1> DEFINE Ok(k) == /\ Len(Joined(s, n)) <= Len(Joined(s, k))
                    /\ \A i \in 1..Len(Joined(s, n)) : Joined(s, k)[i] = Joined(s, n)[i]
           T == {k \in n..Len(s) : ~Ok(k)}
<1>1. SUFFICES ASSUME T # {} PROVE FALSE
  OBVIOUS
<1>2. PICK k \in T : \A j \in T : k <= j
  <2>1. T \in SUBSET Nat
    OBVIOUS
  <2> QED
    BY <1>1, <2>1, SmallestExists
<1>a. k \in 0..Len(s) /\ n \in 0..Len(s)
  BY <1>2
<1>3. Joined(s, n) \in Seq(B) /\ Joined(s, k) \in Seq(B)
  BY <1>a, JoinGrows
<1>4. k # n
  BY <1>2, <1>3
<1>5. k - 1 \in n..Len(s) /\ k \in 1..Len(s) /\ ~(k <= k - 1) /\ k - 1 \in 0..Len(s)
  BY <1>2, <1>4
<1>6. Ok(k - 1)
  BY <1>2, <1>5
<1>b. s[k] \in Seq(B)
  BY <1>5, ElementOfSeq
<1>7. Joined(s, k) = Joined(s, k - 1) \o s[k] /\ Joined(s, k - 1) \in Seq(B)
  BY <1>5, JoinGrows
<1>c. /\ Len(Joined(s, k)) = Len(Joined(s, k - 1)) + Len(s[k])
      /\ \A i \in 1..Len(Joined(s, k - 1)) : Joined(s, k)[i] = Joined(s, k - 1)[i]
  <2> DEFINE x == Joined(s, k - 1)
  <2>1. Len(x \o s[k]) = Len(x) + Len(s[k]) /\ \A i \in 1..Len(x) : (x \o s[k])[i] = x[i]
    BY <1>7, <1>b
  <2> QED
    BY <2>1, <1>7
<1>8. Ok(k)
  <2>1. Len(Joined(s, n)) \in Nat /\ Len(Joined(s, k - 1)) \in Nat /\ Len(s[k]) \in Nat
    BY <1>3, <1>7, <1>b
  <2>a. Len(Joined(s, n)) <= Len(Joined(s, k - 1))
    BY <1>6
  <2>b. Len(Joined(s, k)) = Len(Joined(s, k - 1)) + Len(s[k])
    BY <1>c
  <2>2. Len(Joined(s, n)) <= Len(Joined(s, k))
    <3>1. \A a, b, c \in Nat : a <= b => a <= b + c
      OBVIOUS
    <3> QED
      BY <2>1, <2>a, <2>b, <3>1
  <2>3. ASSUME NEW i \in 1..Len(Joined(s, n)) PROVE Joined(s, k)[i] = Joined(s, n)[i]
    <3>1. i \in 1..Len(Joined(s, k - 1))
      BY <2>1, <1>6
    <3> QED
      BY <3>1, <1>6, <1>c
  <2> QED
    BY <2>2, <2>3
<1> QED
  BY <1>2, <1>8

(* A slice that runs over the seam of two sequences.                       *)
LEMMA SliceIs ==
  ASSUME NEW S, NEW s \in Seq(S), NEW a \in Nat, NEW e \in Nat, e <= Len(s)
  PROVE  /\ SubSeq(s, a + 1, e) \in Seq(S)
         /\ Len(SubSeq(s, a + 1, e)) = IF a + 1 <= e THEN e - a ELSE 0
         /\ \A k \in 1..Len(SubSeq(s, a + 1, e)) : SubSeq(s, a + 1, e)[k] = s[a + k]
<1>1. a + 1 \in Int /\ e \in Int /\ e - (a + 1) + 1 = e - a
  OBVIOUS
<1>2. \A i \in (a + 1)..e : s[i] \in S
  OBVIOUS
<1> DEFINE z == SubSeq(s, a + 1, e)
<1>3. /\ z \in Seq(S)
      /\ Len(z) = IF a + 1 <= e THEN e - (a + 1) + 1 ELSE 0
      /\ \A i \in 1..(e - (a + 1) + 1) : z[i] = s[(a + 1) + i - 1]
  BY <1>1, <1>2, SubSeqProperties
<1>4. \A k \in 1..Len(z) : k \in 1..(e - (a + 1) + 1) /\ (a + 1) + k - 1 = a + k
  <2> HIDE DEF z
  <2> QED
    BY <1>3
<1> HIDE DEF z
<1>5. Len(z) = (IF a + 1 <= e THEN e - a ELSE 0) /\ \A k \in 1..Len(z) : z[k] = s[a + k]
  BY <1>1, <1>3, <1>4
<1> QED
  BY <1>3, <1>5 DEF z

LEMMA SliceOfConcat ==
  ASSUME NEW S, NEW s \in Seq(S), NEW t \in Seq(S),
         NEW a \in Nat, NEW e \in Nat, e <= Len(s) + Len(t)
  PROVE  SubSeq(s \o t, a + 1, e) =
           SubSeq(s, a + 1, AtMost(e, Len(s)))
             \o SubSeq(t, AtLeast0(a - Len(s)) + 1, e - Len(s))
<1> DEFINE x == SubSeq(s, a + 1, AtMost(e, Len(s)))
           y == SubSeq(t, AtLeast0(a - Len(s)) + 1, e - Len(s))
           z == SubSeq(s \o t, a + 1, e)
<1>1. Len(s) \in Nat /\ Len(t) \in Nat /\ s \o t \in Seq(S) /\ Len(s \o t) = Len(s) + Len(t)
  BY ConcatProperties
<1>2. /\ x \in Seq(S)
      /\ Len(x) = IF a + 1 <= AtMost(e, Len(s)) THEN AtMost(e, Len(s)) - a ELSE 0
      /\ \A i \in 1..Len(x) : x[i] = s[a + i]
  <2>1. AtMost(e, Len(s)) \in Nat /\ AtMost(e, Len(s)) <= Len(s)
    BY <1>1 DEF AtMost
  <2> QED
    BY <2>1, SliceIs
<1>3. /\ y \in Seq(S)
      /\ Len(y) = IF AtLeast0(a - Len(s)) + 1 <= e - Len(s)
                  THEN e - Len(s) - AtLeast0(a - Len(s)) ELSE 0
      /\ \A i \in 1..Len(y) : y[i] = t[AtLeast0(a - Len(s)) + i]
  <2> DEFINE w == AtLeast0(a - Len(s))
             m == w + 1
             n == e - Len(s)
  <2>0. w \in Nat
    BY <1>1 DEF AtLeast0
  <2> HIDE DEF w
  <2>1. m \in Int /\ m >= 1 /\ n \in Int /\ n <= Len(t)
    BY <2>0, <1>1
  <2> HIDE DEF m, n
  <2>2. \A i \in m..n : t[i] \in S
    BY <1>1, <2>1
  <2>3. /\ SubSeq(t, m, n) \in Seq(S)
        /\ Len(SubSeq(t, m, n)) = IF m <= n THEN n - m + 1 ELSE 0
        /\ \A i \in 1..(n - m + 1) : SubSeq(t, m, n)[i] = t[m + i - 1]
    BY <2>1, <2>2, SubSeqProperties
  <2>4. \A i \in 1..Len(SubSeq(t, m, n)) : SubSeq(t, m, n)[i] = t[m - 1 + i]
    BY <2>1, <2>3
  <2>5. /\ SubSeq(t, w + 1, n) \in Seq(S)
        /\ Len(SubSeq(t, w + 1, n)) = IF w + 1 <= n THEN n - w ELSE 0
        /\ \A i \in 1..Len(SubSeq(t, w + 1, n)) : SubSeq(t, w + 1, n)[i] = t[w + i]
    BY <2>0, <2>1, <2>3, <2>4 DEF m
  <2> QED
    BY <2>5 DEF n, w
<1>4. /\ z \in Seq(S)
      /\ Len(z) = IF a + 1 <= e THEN e - a ELSE 0
      /\ \A i \in 1..Len(z) : z[i] = (s \o t)[a + i]
  BY <1>1
<1> HIDE DEF x, y, z
<1>5. /\ x \o y \in Seq(S) /\ Len(x \o y) = Len(x) + Len(y)
      /\ \A i \in 1..(Len(x) + Len(y)) : (x \o y)[i] = IF i <= Len(x) THEN x[i] ELSE y[i - Len(x)]
  BY <1>2, <1>3, ConcatProperties
<1>6. Len(z) = Len(x) + Len(y)
  <2>1. \A l, k \in Nat : e <= l + k =>
          (IF a + 1 <= e THEN e - a ELSE 0) =
             (IF a + 1 <= AtMost(e, l) THEN AtMost(e, l) - a ELSE 0)
               + (IF AtLeast0(a - l) + 1 <= e - l THEN e - l - AtLeast0(a - l) ELSE 0)
    BY DEF AtMost, AtLeast0
  <2> QED
    BY <2>1, <1>1, <1>2, <1>3, <1>4
<1>7. ASSUME NEW i \in 1..Len(z) PROVE z[i] = (x \o y)[i]
  <2>1. a + i \in 1..(Len(s) + Len(t)) /\ z[i] = (s \o t)[a + i]
    BY <1>1, <1>4
  <2>2. (s \o t)[a + i] = IF a + i <= Len(s) THEN s[a + i] ELSE t[a + i - Len(s)]
    BY <2>1, ConcatProperties
  <2>3. CASE i <= Len(x)
    <3>1. i \in 1..Len(x) /\ a + i <= Len(s)
      BY <2>3, <1>2, <1>1 DEF AtMost
    <3> QED
      BY <3>1, <2>1, <2>2, <1>2, <1>5, <1>6
  <2>4. CASE ~(i <= Len(x))
    <3>1. Len(x) \in Nat /\ Len(y) \in Nat
      BY <1>2, <1>3
    <3>2. i - Len(x) \in 1..Len(y)
      BY <2>4, <1>6, <3>1
    <3>3. ~(a + i <= Len(s)) /\ AtLeast0(a - Len(s)) + (i - Len(x)) = a + i - Len(s)
      <4>1. i \in Nat /\ i > Len(x) /\ a + i <= e /\ Len(s) \in Nat
        BY <2>4, <1>1, <1>4, <3>1
      <4>2. /\ Len(x) = IF a + 1 <= AtMost(e, Len(s)) THEN AtMost(e, Len(s)) - a ELSE 0
            /\ a + 1 <= e
        BY <1>2, <4>1
      <4> DEFINE kept(l) == IF a + 1 <= AtMost(e, l) THEN AtMost(e, l) - a ELSE 0
      <4>3. \A k, l \in Nat : a + k <= e /\ k > kept(l) =>
              a + k > l /\ AtLeast0(a - l) + (k - kept(l)) = a + k - l
        BY DEF AtMost, AtLeast0
      <4> HIDE DEF kept
      <4>4. Len(x) = kept(Len(s))
        BY <4>2 DEF kept
      <4> QED
        BY <4>1, <4>3, <4>4
    <3>4. y[i - Len(x)] = t[a + i - Len(s)]
      BY <3>2, <3>3, <1>3
    <3> QED
      BY <2>4, <2>1, <2>2, <3>3, <3>4, <1>5, <1>6
  <2> QED
    BY <2>3, <2>4
<1>8. z = x \o y
  BY <1>4, <1>5, <1>6, <1>7, SeqEqual
<1> QED
  BY <1>8 DEF x, y, z

-----------------------------------------------------------------------------
(***************************************************************************)
(* One page.                                                               *)
(***************************************************************************)
Lines == lens \in Seq(Nat)

Frames == [r \in 1..Len(lens) |-> WireFrame(r)]

(* The wire up to the end of the n-th frame.                               *)
Part(n) == Joined(Frames, n)

LEMMA Sizes ==
  /\ MaxRecords \in Nat /\ MaxLen \in Nat /\ RecordMax \in Nat /\ Prefix \in Nat
  /\ Header \in Nat /\ MaxValue \in Nat /\ Header < MaxValue
  /\ MTUs \subseteq Nat /\ PreExisting \subseteq Nat
BY FramedStreamAssumption DEF FramedStreamAssumption

LEMMA FramesType ==
  ASSUME Lines
  PROVE  /\ Frames \in Seq(Seq(Nat \X Nat)) /\ Len(Frames) = Len(lens)
         /\ \A r \in 1..Len(lens) :
              /\ Frames[r] = WireFrame(r)
              /\ WireFrame(r) \in Seq(Nat \X Nat) /\ Len(WireFrame(r)) = FrameSize(r)
              /\ FrameSize(r) \in Nat
              /\ \A k \in 1..FrameSize(r) : WireFrame(r)[k] = <<r, k>>
<1>1. ASSUME NEW r \in 1..Len(lens)
      PROVE  /\ FrameSize(r) \in Nat
             /\ WireFrame(r) \in Seq(Nat \X Nat) /\ Len(WireFrame(r)) = FrameSize(r)
             /\ \A k \in 1..FrameSize(r) : WireFrame(r)[k] = <<r, k>>
  <2>1. FrameSize(r) \in Nat
    BY Sizes DEF Lines, FrameSize
  <2>2. \A k \in 1..FrameSize(r) : <<r, k>> \in Nat \X Nat
    BY <2>1 DEF Lines
  <2> QED
    BY <2>1, <2>2 DEF WireFrame
<1>2. Len(lens) \in Nat
  BY DEF Lines
<1>3. Frames \in Seq(Seq(Nat \X Nat)) /\ Len(Frames) = Len(lens)
  BY <1>1, <1>2 DEF Frames
<1> QED
  BY <1>1, <1>3 DEF Frames

(* rr_queue_framed_size adds the frames up.                                *)
LEMMA Ends ==
  ASSUME Lines
  PROVE  /\ EndOf \in [0..Len(lens) -> Nat]
         /\ EndOf[0] = 0
         /\ \A r \in 1..Len(lens) : EndOf[r] = EndOf[r - 1] + FrameSize(r)
<1> DEFINE size(r) == IF r \in 1..Len(lens) THEN FrameSize(r) ELSE 0
           D == [p \in Nat \X Nat |-> p[1] + size(p[2])]
           IsEnd(f) == f = [r \in 0..Len(lens) |-> IF r = 0 THEN 0 ELSE f[r - 1] + FrameSize(r)]
<1>1. \A r \in Nat : size(r) \in Nat
  <2>1. \A r \in 1..Len(lens) : FrameSize(r) \in Nat
    BY FramesType
  <2> QED
    BY <2>1
<1>2. D \in [Nat \X Nat -> Nat]
  BY <1>1
<1>3. Len(lens) \in Nat /\ 0 \in Nat
  BY DEF Lines
<1>4. PICK g \in [0..Len(lens) -> Nat] : Recurs(g, 0, D, Len(lens))
  <2> HIDE DEF D
  <2> QED
    BY <1>2, <1>3, RecursionExists
<1>5. ASSUME NEW r \in 1..Len(lens) PROVE g[r] = g[r - 1] + FrameSize(r)
  <2>1. g[r] = D[<<g[r - 1], r>>]
    BY <1>4 DEF Recurs
  <2>2. <<g[r - 1], r>> \in Nat \X Nat /\ size(r) = FrameSize(r)
    <3>1. r \in Nat /\ r - 1 \in 0..Len(lens) /\ g \in [0..Len(lens) -> Nat]
      BY <1>3, <1>4
    <3> QED
      BY <3>1
  <2> QED
    BY <2>1, <2>2
<1>6. g[0] = 0
  BY <1>4 DEF Recurs
<1>7. IsEnd(g)
  BY <1>3, <1>4, <1>5, <1>6
<1>8. EndOf = CHOOSE f : IsEnd(f)
  BY DEF EndOf
<1>9. IsEnd(EndOf)
  <2> HIDE DEF IsEnd
  <2> QED
    BY <1>7, <1>8
<1>10. \A r \in 0..Len(lens) : EndOf[r] = g[r]
  <2> DEFINE T == {r \in 0..Len(lens) : EndOf[r] # g[r]}
  <2>1. SUFFICES ASSUME T # {} PROVE FALSE
    OBVIOUS
  <2>2. PICK k \in T : \A j \in T : k <= j
    <3>1. T \in SUBSET Nat
      BY <1>3
    <3> QED
      BY <2>1, <3>1, SmallestExists
  <2>3. k \in 0..Len(lens) /\ EndOf[k] # g[k]
    BY <2>2
  <2>4. EndOf[k] = IF k = 0 THEN 0 ELSE EndOf[k - 1] + FrameSize(k)
    BY <1>9, <2>3
  <2>5. CASE k = 0
    BY <2>3, <2>4, <2>5, <1>6
  <2>6. CASE k # 0
    <3>1. k - 1 \in 0..Len(lens) /\ ~(k <= k - 1) /\ k \in 1..Len(lens)
      BY <2>3, <2>6, <1>3
    <3>2. EndOf[k - 1] = g[k - 1]
      BY <2>2, <3>1
    <3> QED
      BY <2>3, <2>4, <2>6, <3>1, <3>2, <1>5
  <2> QED
    BY <2>5, <2>6
<1>11. DOMAIN EndOf = 0..Len(lens)
  BY <1>9
<1>12. EndOf = g
  <2>1. EndOf = [r \in 0..Len(lens) |-> EndOf[r]]
    BY <1>9
  <2> QED
    BY <2>1, <1>4, <1>10
<1> QED
  BY <1>4, <1>5, <1>6, <1>12

LEMMA PartType ==
  ASSUME Lines
  PROVE  /\ Part(0) = <<>>
         /\ \A n \in 0..Len(lens) : Part(n) \in Seq(Nat \X Nat)
         /\ \A n \in 1..Len(lens) : Part(n) = Part(n - 1) \o WireFrame(n)
BY FramesType, JoinGrows DEF Part

LEMMA PartLen ==
  ASSUME Lines
  PROVE  \A n \in 0..Len(lens) : Len(Part(n)) = EndOf[n]
<1> DEFINE T == {n \in 0..Len(lens) : Len(Part(n)) # EndOf[n]}
<1>1. SUFFICES ASSUME T # {} PROVE FALSE
  OBVIOUS
<1>2. PICK n \in T : \A j \in T : n <= j
  <2>1. T \in SUBSET Nat
    BY DEF Lines
  <2> QED
    BY <1>1, <2>1, SmallestExists
<1>3. n \in 0..Len(lens) /\ Len(Part(n)) # EndOf[n] /\ Len(lens) \in Nat
  BY <1>2 DEF Lines
<1>4. CASE n = 0
  BY <1>3, <1>4, PartType, Ends
<1>5. CASE n # 0
  <2>1. n - 1 \in 0..Len(lens) /\ n \in 1..Len(lens) /\ ~(n <= n - 1)
    BY <1>3, <1>5
  <2>2. Len(Part(n - 1)) = EndOf[n - 1]
    BY <1>2, <2>1
  <2>3. Part(n) = Part(n - 1) \o WireFrame(n) /\ Part(n - 1) \in Seq(Nat \X Nat)
    BY <2>1, PartType
  <2>4. WireFrame(n) \in Seq(Nat \X Nat) /\ Len(WireFrame(n)) = FrameSize(n)
    BY <2>1, FramesType
  <2>5. Len(Part(n - 1) \o WireFrame(n)) = Len(Part(n - 1)) + Len(WireFrame(n))
    BY <2>3, <2>4, ConcatProperties
  <2> QED
    BY <1>3, <2>1, <2>2, <2>3, <2>4, <2>5, Ends
<1> QED
  BY <1>4, <1>5

(* The lines that can be measured are those before the first that cannot.  *)
LEMMA MeasuredIs ==
  ASSUME Lines
  PROVE  Measured \in 0..Len(lens) /\ Measurable = 1..Measured
<1>1. Len(lens) \in Nat /\ DOMAIN lens = 1..Len(lens) /\ \A r \in 1..Len(lens) : lens[r] \in Nat
  BY DEF Lines
<1>2. ASSUME NEW m \in 0..Len(lens), Measurable = 1..m
      PROVE  Measured \in 0..Len(lens) /\ Measurable = 1..Measured
  <2>1. Cardinality(1..m) = m
    <3>1. 1 \in Int /\ m \in Int
      BY <1>1
    <3>2. Cardinality(1..m) = IF 1 > m THEN 0 ELSE m - 1 + 1
      BY <3>1, FS_Interval
    <3> QED
      BY <3>2, <1>1
  <2> QED
    BY <1>2, <2>1 DEF Measured
<1> DEFINE T == {r \in 1..Len(lens) : ~(lens[r] <= RecordMax)}
<1>3. CASE T = {}
  <2>1. Measurable = 1..Len(lens)
    BY <1>1, <1>3 DEF Measurable
  <2>2. Len(lens) \in 0..Len(lens)
    BY <1>1
  <2> QED
    BY <1>2, <2>1, <2>2
<1>4. CASE T # {}
  <2>1. PICK b \in T : \A j \in T : b <= j
    <3>1. T \in SUBSET Nat
      BY <1>1
    <3> QED
      BY <1>4, <3>1, SmallestExists
  <2>2. b \in 1..Len(lens) /\ ~(lens[b] <= RecordMax)
    BY <2>1
  <2>3. ASSUME NEW r \in 1..Len(lens) PROVE r \in Measurable <=> r < b
    <3>1. CASE r < b
      <4>1. \A q \in 1..r : q \in 1..Len(lens) /\ ~(b <= q)
        BY <3>1, <2>2, <1>1
      <4>2. \A q \in 1..r : lens[q] <= RecordMax
        BY <4>1, <2>1
      <4> QED
        BY <3>1, <4>2, <1>1 DEF Measurable
    <3>2. CASE ~(r < b)
      <4>1. b \in 1..r
        BY <3>2, <2>2, <1>1
      <4> QED
        BY <3>2, <4>1, <2>2 DEF Measurable
    <3> QED
      BY <3>1, <3>2
  <2>4. Measurable \subseteq 1..Len(lens)
    BY <1>1 DEF Measurable
  <2>a. \A r : r \in 1..(b - 1) <=> r \in 1..Len(lens) /\ r < b
    BY <2>2, <1>1
  <2>5. Measurable = 1..(b - 1)
    BY <2>3, <2>4, <2>a
  <2>6. b - 1 \in 0..Len(lens)
    BY <2>2, <1>1
  <2> QED
    BY <1>2, <2>5, <2>6
<1> QED
  BY <1>3, <1>4

LEMMA WireIs ==
  ASSUME Lines
  PROVE  /\ Wire = Part(Measured)
         /\ Wire \in Seq(Nat \X Nat)
         /\ Len(Wire) = FramedSize
         /\ FramedSize \in Nat
<1>1. Measured \in 0..Len(lens) /\ Len(lens) \in Nat
  BY MeasuredIs DEF Lines
<1>2. SubSeq(Frames, 1, Measured) = [r \in 1..Measured |-> WireFrame(r)]
  <2> DEFINE x == SubSeq(Frames, 1, Measured)
             y == [r \in 1..Measured |-> WireFrame(r)]
  <2>1. /\ x \in Seq(Seq(Nat \X Nat)) /\ Len(x) = Measured
        /\ \A r \in 1..Measured : x[r] = Frames[r]
    BY <1>1, FramesType
  <2>2. \A r \in 1..Measured : r \in 1..Len(lens)
    BY <1>1
  <2>3. \A r \in 1..Measured : WireFrame(r) \in Seq(Nat \X Nat) /\ Frames[r] = WireFrame(r)
    BY <2>2, FramesType
  <2>4. y \in Seq(Seq(Nat \X Nat)) /\ Len(y) = Measured /\ \A r \in 1..Measured : y[r] = WireFrame(r)
    BY <1>1, <2>3
  <2> HIDE DEF x, y
  <2>5. x = y
    BY <2>1, <2>3, <2>4, SeqEqual
  <2> QED
    BY <2>5 DEF x, y
<1>3. Wire = Part(Measured)
  BY <1>2 DEF Wire, Part, Joined
<1>4. Len(Part(Measured)) = EndOf[Measured] /\ EndOf[Measured] \in Nat
  BY <1>1, PartLen, Ends
<1> QED
  BY <1>1, <1>3, <1>4, PartType DEF FramedSize

(* What is on the wire up to a frame stays the beginning of the wire.      *)
LEMMA PartOfWire ==
  ASSUME Lines, NEW n \in 0..Measured
  PROVE  /\ n \in 0..Len(lens) /\ EndOf[n] \in Nat /\ EndOf[n] <= FramedSize
         /\ Part(n) \in Seq(Nat \X Nat) /\ Len(Part(n)) = EndOf[n]
         /\ \A i \in 1..EndOf[n] : Wire[i] = Part(n)[i]
<1>1. Measured \in 0..Len(lens) /\ Len(lens) \in Nat /\ n \in 0..Len(lens)
  BY MeasuredIs DEF Lines
<1>2. EndOf[n] \in Nat /\ Part(n) \in Seq(Nat \X Nat) /\ Len(Part(n)) = EndOf[n]
  BY <1>1, Ends, PartType, PartLen
<1>3. Measured \in n..Len(Frames) /\ n \in 0..Len(Frames) /\ Frames \in Seq(Seq(Nat \X Nat))
  BY <1>1, FramesType
<1>4. /\ Len(Joined(Frames, n)) <= Len(Joined(Frames, Measured))
      /\ \A i \in 1..Len(Joined(Frames, n)) : Joined(Frames, Measured)[i] = Joined(Frames, n)[i]
  BY <1>3, JoinKeeps
<1>5. /\ Len(Part(n)) <= Len(Part(Measured))
      /\ \A i \in 1..Len(Part(n)) : Part(Measured)[i] = Part(n)[i]
  BY <1>4 DEF Part
<1> QED
  BY <1>1, <1>2, <1>5, WireIs

-----------------------------------------------------------------------------
(* The walk: what has been written is what the frames it has passed put    *)
(* into the window, and it ends where the window or the wire does.         *)
Args ==
  /\ Lines
  /\ seek \in Nat /\ mtu \in Nat /\ pre \in Nat

Behind ==
  /\ rec \in 1..(Measured + 1)
  /\ base = EndOf[rec - 1]
  /\ out = SubSeq(Part(rec - 1), PageOffset + 1, AtMost(base, PageOffset + PageCap))

Reaches ==
  walking \/ rec = Measured + 1 \/ PageCap <= Len(out) \/ PageOffset >= FramedSize

PageInv == Args /\ Behind /\ Reaches /\ walking \in BOOLEAN

LEMMA Window ==
  ASSUME Args
  PROVE  /\ FramedSize \in Nat /\ PageOffset \in 0..FramedSize /\ PageCap \in Nat
         /\ MaxPayload \in Nat /\ (MaxPayload # 0 => pre + Header + MaxPayload = MaxValue)
<1>1. FramedSize \in Nat
  BY WireIs DEF Args
<1>2. PageOffset \in 0..FramedSize
  BY <1>1 DEF Args, PageOffset, AtMost
<1>3. PageCap \in Nat
  BY Sizes DEF Args, PageCap, AtMost, AtLeast0
<1>4. MaxPayload \in Nat /\ (MaxPayload # 0 => pre + Header + MaxPayload = MaxValue)
  BY Sizes DEF Args, MaxPayload, AtLeast0
<1> QED
  BY <1>1, <1>2, <1>3, <1>4

(* How much has been written, and that all of it has been on the wire.     *)
LEMMA Written ==
  ASSUME PageInv
  PROVE  /\ rec - 1 \in 0..Measured /\ base \in Nat /\ base <= FramedSize
         /\ out \in Seq(Nat \X Nat)
         /\ Len(out) = AtLeast0(AtMost(base, PageOffset + PageCap) - PageOffset)
         /\ \A i \in 1..Len(out) : out[i] = Wire[PageOffset + i]
<1>1. Measured \in Nat /\ rec - 1 \in 0..Measured
  BY MeasuredIs DEF PageInv, Args, Lines, Behind
<1> DEFINE n == rec - 1
           e == AtMost(base, PageOffset + PageCap)
<1>2. /\ base = EndOf[n] /\ base \in Nat /\ base <= FramedSize
      /\ Part(n) \in Seq(Nat \X Nat) /\ Len(Part(n)) = base
      /\ \A i \in 1..base : Wire[i] = Part(n)[i]
  BY <1>1, PartOfWire DEF PageInv, Args, Behind
<1>3. PageOffset \in Nat /\ PageCap \in Nat
  BY Window DEF PageInv
<1>4. e \in Nat /\ e <= base
  BY <1>2, <1>3 DEF AtMost
<1>5. out = SubSeq(Part(n), PageOffset + 1, e)
  BY DEF PageInv, Behind
<1> HIDE DEF n, e
<1>6. /\ out \in Seq(Nat \X Nat)
      /\ Len(out) = IF PageOffset + 1 <= e THEN e - PageOffset ELSE 0
      /\ \A i \in 1..Len(out) : out[i] = Part(n)[PageOffset + i]
  BY <1>2, <1>3, <1>4, <1>5
<1>7. Len(out) = AtLeast0(e - PageOffset)
  BY <1>3, <1>4, <1>6 DEF AtLeast0
<1>8. \A i \in 1..Len(out) : PageOffset + i \in 1..base
  BY <1>2, <1>3, <1>4, <1>6
<1> QED
  BY <1>1, <1>2, <1>6, <1>7, <1>8 DEF n, e

LEMMA PageStart == ReadInit => PageInv
<1> SUFFICES ASSUME ReadInit PROVE PageInv
  OBVIOUS
<1>1. Lines
  <2>1. PICK m \in 0..MaxRecords : lens \in [1..m -> 1..MaxLen]
    BY DEF ReadInit, SeqOf
  <2>2. m \in Nat /\ 1..MaxLen \subseteq Nat
    BY Sizes
  <2> QED
    BY <2>1, <2>2 DEF Lines
<1>2. Args
  <2>1. seek \in Nat
    BY Sizes DEF ReadInit
  <2> QED
    BY <1>1, <2>1, Sizes DEF ReadInit, Args
<1>3. Measured \in Nat
  BY <1>1, MeasuredIs DEF Lines
<1>4. PageOffset \in Nat /\ PageCap \in Nat /\ FramedSize \in Nat
  BY <1>2, Window
<1>5. rec = 1 /\ base = 0 /\ out = <<>> /\ walking = (PageOffset < FramedSize /\ PageCap > 0)
  BY DEF ReadInit
<1>6. base = EndOf[rec - 1] /\ Part(rec - 1) = <<>>
  BY <1>1, <1>5, Ends, PartType
<1>7. SubSeq(Part(rec - 1), PageOffset + 1, AtMost(base, PageOffset + PageCap)) = <<>>
  <2>1. AtMost(base, PageOffset + PageCap) = 0
    BY <1>4, <1>5 DEF AtMost
  <2> QED
    BY <2>1, <1>4, SubSeqEmpty
<1>8. Behind
  <2>1. rec \in 1..(Measured + 1)
    BY <1>3, <1>5
  <2> QED
    BY <2>1, <1>5, <1>6, <1>7 DEF Behind
<1>9. Reaches /\ walking \in BOOLEAN
  <2>1. CASE PageOffset < FramedSize /\ PageCap > 0
    BY <2>1, <1>5 DEF Reaches
  <2>2. CASE ~(PageOffset < FramedSize)
    BY <2>2, <1>4, <1>5 DEF Reaches
  <2>3. CASE ~(PageCap > 0)
    <3>1. Len(out) = 0 /\ PageCap = 0
      BY <2>3, <1>4, <1>5
    <3> QED
      BY <3>1, <1>5 DEF Reaches
  <2> QED
    BY <2>1, <2>2, <2>3
<1> QED
  BY <1>2, <1>8, <1>9 DEF PageInv

(* The two copies together are one slice of the frame.                     *)
LEMMA Copied ==
  ASSUME PageInv, rec \in 1..Len(lens), Room > 0, ~BeforeWindow
  PROVE  /\ PrefixPart \in Seq(Nat \X Nat) /\ BodyPart \in Seq(Nat \X Nat)
         /\ PrefixPart \o BodyPart =
              SubSeq(WireFrame(rec), Within + 1, AtMost(FrameSize(rec), Within + Room))
<1> DEFINE fs == FrameSize(rec)
           np == AtMost(AtLeast0(Prefix - Within), Room)
           skipped == Within + np
           nb == IF skipped < Prefix THEN 0 ELSE AtMost(fs - skipped, Room - np)
<1>1. /\ lens[rec] \in Nat /\ fs = lens[rec] + Prefix /\ Prefix \in Nat /\ fs \in Nat
      /\ WireFrame(rec) \in Seq(Nat \X Nat) /\ Len(WireFrame(rec)) = fs
      /\ \A k \in 1..fs : WireFrame(rec)[k] = <<rec, k>>
  <2>1. Lines /\ lens[rec] \in Nat /\ Prefix \in Nat
    BY Sizes DEF PageInv, Args, Lines
  <2>2. fs = lens[rec] + Prefix
    BY DEF FrameSize
  <2> HIDE DEF fs
  <2>3. /\ WireFrame(rec) \in Seq(Nat \X Nat) /\ Len(WireFrame(rec)) = fs /\ fs \in Nat
        /\ \A k \in 1..fs : WireFrame(rec)[k] = <<rec, k>>
    BY <2>1, FramesType DEF fs
  <2> QED
    BY <2>1, <2>2, <2>3
<1>2. base \in Nat /\ PageOffset \in Nat /\ PageCap \in Nat /\ Len(out) \in Nat
  BY Written, Window DEF PageInv
<1>3. Within \in Nat /\ (Within < fs \/ Within = 0)
  BY <1>1, <1>2 DEF Within, AtLeast0, BeforeWindow
<1>4. Within \in Nat /\ Within <= fs /\ Room \in Nat
  <2>1. fs \in Nat /\ Room \in Int
    BY <1>1, <1>2 DEF Room
  <2> HIDE DEF fs
  <2> QED
    BY <2>1, <1>3
<1>5. np \in Nat /\ np <= Room /\ skipped \in Nat /\ skipped <= fs
  BY <1>1, <1>4 DEF AtMost, AtLeast0
<1>6. nb \in Nat /\ np + nb = AtMost(fs - Within, Room)
  <2>1. Prefix \in Nat /\ fs \in Nat /\ Prefix <= fs
    BY <1>1
  <2> HIDE DEF fs
  <2>2. CASE skipped < Prefix
    <3>1. np = Room
      BY <2>1, <2>2, <1>4 DEF AtMost, AtLeast0
    <3>2. AtMost(fs - Within, Room) = Room
      <4>1. Within + Room < Prefix
        BY <2>2, <3>1
      <4> QED
        BY <2>1, <4>1, <1>4 DEF AtMost
    <3> QED
      BY <2>2, <3>1, <3>2, <1>4
  <2>3. CASE ~(skipped < Prefix)
    <3> HIDE DEF np
    <3>1. nb = AtMost(fs - (Within + np), Room - np)
      BY <2>3
    <3> QED
      BY <2>1, <3>1, <1>4, <1>5 DEF AtMost
  <2> QED
    BY <2>2, <2>3
<1>7. /\ PrefixPart \in Seq(Nat \X Nat) /\ Len(PrefixPart) = np
      /\ \A k \in 1..np : PrefixPart[k] = <<rec, Within + k>>
  <2> HIDE DEF np
  <2>1. PrefixPart = [k \in 1..np |-> <<rec, Within + k>>]
    BY DEF PrefixPart, np
  <2>2. \A k \in 1..np : <<rec, Within + k>> \in Nat \X Nat
    BY <1>4, <1>5
  <2> QED
    BY <2>1, <2>2, <1>5
<1>8. /\ BodyPart \in Seq(Nat \X Nat) /\ Len(BodyPart) = nb
      /\ \A k \in 1..nb : BodyPart[k] = <<rec, skipped + k>>
  <2>1. BodyPart = [k \in 1..nb |-> <<rec, skipped + k>>]
    <3>1. Len(PrefixPart) = np
      BY <1>7
    <3>2. CASE skipped < Prefix
      <4>1. BodyPart = <<>> /\ nb = 0
        BY <3>1, <3>2 DEF BodyPart
      <4> QED
        BY <4>1
    <3>3. CASE ~(skipped < Prefix)
      <4> HIDE DEF np
      <4> QED
        BY <3>1, <3>3 DEF BodyPart
    <3> QED
      BY <3>2, <3>3
  <2> HIDE DEF np, nb, skipped
  <2>2. \A k \in 1..nb : <<rec, skipped + k>> \in Nat \X Nat
    BY <1>5, <1>6
  <2> QED
    BY <2>1, <2>2, <1>6
<1> DEFINE e == AtMost(fs, Within + Room)
<1>9. e \in Nat /\ e <= fs /\ e = Within + (np + nb)
  <2>1. fs \in Nat /\ np + nb = AtMost(fs - Within, Room)
    BY <1>1, <1>6
  <2> HIDE DEF np, nb, fs
  <2> QED
    BY <2>1, <1>4 DEF AtMost
<1> DEFINE z == SubSeq(WireFrame(rec), Within + 1, e)
<1> HIDE DEF np, nb, e, fs
<1>10. /\ z \in Seq(Nat \X Nat) /\ Len(z) = np + nb
       /\ \A k \in 1..(np + nb) : z[k] = <<rec, Within + k>>
  <2>0. /\ WireFrame(rec) \in Seq(Nat \X Nat) /\ Within \in Nat /\ e \in Nat
        /\ e <= Len(WireFrame(rec)) /\ fs \in Nat
    BY <1>1, <1>4, <1>9
  <2>1. /\ z \in Seq(Nat \X Nat) /\ Len(z) = IF Within + 1 <= e THEN e - Within ELSE 0
        /\ \A k \in 1..Len(z) : z[k] = WireFrame(rec)[Within + k]
    BY <2>0, SliceIs
  <2>2. np + nb \in Nat /\ Len(z) = np + nb
    BY <2>0, <2>1, <1>5, <1>6, <1>9
  <2>3. \A k \in 1..(np + nb) : Within + k \in 1..fs
    <3>1. e = Within + (np + nb) /\ e <= fs
      BY <1>9
    <3> QED
      BY <2>0, <2>2, <3>1
  <2> QED
    BY <2>1, <2>2, <2>3, <1>1
<1>11. /\ PrefixPart \o BodyPart \in Seq(Nat \X Nat)
       /\ Len(PrefixPart \o BodyPart) = np + nb
       /\ \A k \in 1..(np + nb) : (PrefixPart \o BodyPart)[k] = <<rec, Within + k>>
  <2>1. /\ PrefixPart \o BodyPart \in Seq(Nat \X Nat)
        /\ Len(PrefixPart \o BodyPart) = np + nb
        /\ \A k \in 1..(np + nb) : (PrefixPart \o BodyPart)[k] =
              IF k <= np THEN PrefixPart[k] ELSE BodyPart[k - np]
    BY <1>7, <1>8, ConcatProperties
  <2>2. ASSUME NEW k \in 1..(np + nb), ~(k <= np)
        PROVE  k - np \in 1..nb /\ skipped + (k - np) = Within + k
    BY <2>2, <1>4, <1>5, <1>6
  <2> HIDE DEF skipped
  <2>3. ASSUME NEW k \in 1..(np + nb)
        PROVE  (PrefixPart \o BodyPart)[k] = <<rec, Within + k>>
    <3>1. CASE k <= np
      BY <3>1, <2>1, <1>7, <1>5
    <3>2. CASE ~(k <= np)
      <4>1. (PrefixPart \o BodyPart)[k] = BodyPart[k - np]
        BY <3>2, <2>1
      <4>2. BodyPart[k - np] = <<rec, skipped + (k - np)>>
        BY <3>2, <2>2, <1>8
      <4> QED
        BY <4>1, <4>2, <3>2, <2>2
    <3> QED
      BY <3>1, <3>2
  <2> QED
    BY <2>1, <2>3
<1> HIDE DEF z
<1>12. PrefixPart \o BodyPart = z
  BY <1>10, <1>11, SeqEqual
<1> QED
  BY <1>7, <1>8, <1>12 DEF z, e, fs

(* The frame the loop is at is a frame of the wire, and follows on.        *)
LEMMA OnTheWire ==
  ASSUME PageInv, AtFrame
  PROVE  /\ rec \in 1..Measured /\ rec \in 1..Len(lens) /\ Room > 0
         /\ EndOf[rec] = base + FrameSize(rec) /\ FrameSize(rec) \in Nat
         /\ Part(rec - 1) \in Seq(Nat \X Nat) /\ Len(Part(rec - 1)) = base
         /\ WireFrame(rec) \in Seq(Nat \X Nat) /\ Len(WireFrame(rec)) = FrameSize(rec)
         /\ Part(rec) = Part(rec - 1) \o WireFrame(rec)
<1>1. Lines /\ Measured \in 0..Len(lens) /\ Measurable = 1..Measured /\ Len(lens) \in Nat
  BY MeasuredIs DEF PageInv, Args, Lines
<1>2. rec \in 1..Len(lens) /\ Room > 0 /\ lens[rec] <= RecordMax
  BY <1>1 DEF AtFrame, Lines
<1>3. rec \in 1..Measured
  <2>1. CASE rec = Measured + 1
    <3>1. \A q \in 1..rec : q = rec \/ q \in Measurable
      BY <1>1, <2>1
    <3>2. \A q \in 1..rec : lens[q] <= RecordMax
      <4>1. ASSUME NEW q \in 1..rec, q \in Measurable PROVE lens[q] <= RecordMax
        <5>1. q \in 1..q
          BY <1>2
        <5> QED
          BY <4>1, <5>1 DEF Measurable
      <4> QED
        BY <1>2, <3>1, <4>1
    <3>3. rec \in Measurable
      BY <1>1, <1>2, <3>2 DEF Measurable, Lines
    <3> QED
      BY <2>1, <3>3, <1>1
  <2>2. CASE rec # Measured + 1
    BY <2>2, <1>1 DEF PageInv, Behind
  <2> QED
    BY <2>1, <2>2
<1>4. rec - 1 \in 0..Len(lens)
  BY <1>2
<1>5. EndOf[rec] = EndOf[rec - 1] + FrameSize(rec) /\ EndOf[rec - 1] = base
  BY <1>1, <1>2, Ends DEF PageInv, Behind
<1>6. /\ Part(rec - 1) \in Seq(Nat \X Nat) /\ Len(Part(rec - 1)) = base
      /\ Part(rec) = Part(rec - 1) \o WireFrame(rec)
  BY <1>1, <1>2, <1>4, <1>5, PartType, PartLen
<1> QED
  BY <1>1, <1>2, <1>3, <1>5, <1>6, FramesType

(* What the window lets through of the frames up to and including this one.*)
LEMMA ThroughFrame ==
  ASSUME PageInv, AtFrame
  PROVE  LET next == base + FrameSize(rec)
             e    == AtMost(next, PageOffset + PageCap)
         IN  /\ SubSeq(Part(rec), PageOffset + 1, e)
                  = out \o SubSeq(WireFrame(rec), Within + 1, e - base)
             /\ BeforeWindow => e - base <= Within
             /\ ~BeforeWindow => e - base = AtMost(FrameSize(rec), Within + Room)
<1> DEFINE fs == FrameSize(rec)
           e == AtMost(base + fs, PageOffset + PageCap)
<1>1. /\ fs \in Nat /\ Part(rec - 1) \in Seq(Nat \X Nat) /\ Len(Part(rec - 1)) = base
      /\ WireFrame(rec) \in Seq(Nat \X Nat) /\ Len(WireFrame(rec)) = fs
      /\ Part(rec) = Part(rec - 1) \o WireFrame(rec) /\ Room > 0
  BY OnTheWire
<1>2. /\ base \in Nat /\ PageOffset \in Nat /\ PageCap \in Nat
      /\ Len(out) = AtLeast0(AtMost(base, PageOffset + PageCap) - PageOffset)
      /\ out = SubSeq(Part(rec - 1), PageOffset + 1, AtMost(base, PageOffset + PageCap))
  BY Written, Window DEF PageInv, Behind
<1> HIDE DEF fs
<1>3. e \in Nat /\ e <= base + fs /\ AtMost(e, base) = AtMost(base, PageOffset + PageCap)
  BY <1>1, <1>2 DEF AtMost
<1> HIDE DEF e
<1>4. SubSeq(Part(rec), PageOffset + 1, e) =
        SubSeq(Part(rec - 1), PageOffset + 1, AtMost(e, base))
          \o SubSeq(WireFrame(rec), AtLeast0(PageOffset - base) + 1, e - base)
  <2> DEFINE s == Part(rec - 1)
             t == WireFrame(rec)
  <2>1. s \in Seq(Nat \X Nat) /\ t \in Seq(Nat \X Nat) /\ Part(rec) = s \o t /\ Len(s) = base
    BY <1>1
  <2>2. e <= Len(s) + Len(t)
    BY <1>1, <1>3
  <2>a. PageOffset \in Nat /\ e \in Nat
    BY <1>2, <1>3
  <2>b. s \in Seq(Nat \X Nat) /\ t \in Seq(Nat \X Nat)
    BY <2>1
  <2> HIDE DEF s, t
  <2>3. SubSeq(s \o t, PageOffset + 1, e) =
          SubSeq(s, PageOffset + 1, AtMost(e, Len(s)))
            \o SubSeq(t, AtLeast0(PageOffset - Len(s)) + 1, e - Len(s))
    BY <2>b, <2>2, <2>a, SliceOfConcat
  <2> QED
    BY <2>1, <2>3 DEF s, t
<1>5. SubSeq(Part(rec), PageOffset + 1, e)
        = out \o SubSeq(WireFrame(rec), Within + 1, e - base)
  BY <1>2, <1>3, <1>4 DEF Within
<1>6. e - base = AtMost(fs, PageOffset + PageCap - base)
  BY <1>1, <1>2 DEF e, AtMost
<1>7. ASSUME BeforeWindow PROVE e - base <= Within
  <2>1. PageOffset >= base + fs
    BY <1>7 DEF BeforeWindow, fs
  <2> QED
    BY <2>1, <1>1, <1>2, <1>6 DEF Within, AtMost, AtLeast0
<1>8. ASSUME ~BeforeWindow PROVE e - base = AtMost(fs, Within + Room)
  <2>1. Room = PageCap - Len(out)
    BY DEF Room
  <2>2. PageOffset + PageCap - base = Within + Room
    BY <2>1, <1>1, <1>2 DEF Within, AtMost, AtLeast0
  <2> QED
    BY <2>2, <1>6
<1> QED
  BY <1>5, <1>7, <1>8 DEF e, fs

(* Nothing of what the page is measured against moves during the walk.     *)
LEMMA SamePage ==
  ASSUME UNCHANGED args
  PROVE  /\ Args' <=> Args
         /\ Measured' = Measured /\ EndOf' = EndOf
         /\ FramedSize' = FramedSize /\ PageOffset' = PageOffset /\ PageCap' = PageCap
         /\ \A n : Part(n)' = Part(n)
<1>1. lens' = lens /\ seek' = seek /\ mtu' = mtu /\ pre' = pre
  BY DEF args
<1>2. Args' <=> Args
  BY <1>1 DEF Args, Lines
<1>3. Measured' = Measured
  BY <1>1 DEF Measured, Measurable
<1>4. EndOf' = EndOf
  BY <1>1 DEF EndOf, FrameSize
<1>5. FramedSize' = FramedSize
  BY <1>3, <1>4 DEF FramedSize
<1>6. PageOffset' = PageOffset /\ PageCap' = PageCap
  BY <1>1, <1>5 DEF PageOffset, PageCap
<1>7. ASSUME NEW n PROVE Part(n)' = Part(n)
  BY <1>1 DEF Part, Joined, Frames, WireFrame, FrameSize
<1> QED
  BY <1>2, <1>3, <1>4, <1>5, <1>6, <1>7

LEMMA PageStep == PageInv /\ [ReadNext]_readVars => PageInv'
<1> SUFFICES ASSUME PageInv, [ReadNext]_readVars PROVE PageInv'
  OBVIOUS
<1>1. ASSUME UNCHANGED args
      PROVE  /\ Args' /\ Measured' = Measured /\ Measured \in Nat /\ EndOf' = EndOf
             /\ FramedSize' = FramedSize /\ PageOffset' = PageOffset /\ PageCap' = PageCap
             /\ \A n : Part(n)' = Part(n)
  BY <1>1, SamePage, MeasuredIs DEF PageInv, Args, Lines
<1>2. CASE SkipFrame
  <2>1. AtFrame /\ BeforeWindow /\ NextFrame /\ out' = out /\ walking' = walking /\ UNCHANGED args
    BY <1>2 DEF SkipFrame
  <2>2. rec' \in 1..(Measured + 1) /\ rec' - 1 = rec /\ base' = EndOf[rec]
    <3>1. rec \in 1..Measured /\ EndOf[rec] = base + FrameSize(rec)
      BY <2>1, OnTheWire
    <3>2. rec' = rec + 1 /\ base' = base + FrameSize(rec)
      BY <2>1 DEF NextFrame
    <3> QED
      BY <1>1, <2>1, <3>1, <3>2
  <2>3. out = SubSeq(Part(rec), PageOffset + 1, AtMost(base', PageOffset + PageCap))
    <3> DEFINE e == AtMost(base + FrameSize(rec), PageOffset + PageCap)
    <3>1. /\ SubSeq(Part(rec), PageOffset + 1, e)
               = out \o SubSeq(WireFrame(rec), Within + 1, e - base)
          /\ e - base <= Within
      BY <2>1, ThroughFrame
    <3>2. base \in Nat /\ PageOffset \in Nat /\ PageCap \in Nat /\ FrameSize(rec) \in Nat
      BY <2>1, Written, Window, OnTheWire DEF PageInv
    <3>3. Within \in Int /\ e \in Int
      BY <3>2 DEF Within, AtLeast0, AtMost
    <3>4. SubSeq(WireFrame(rec), Within + 1, e - base) = <<>>
      <4> HIDE DEF e
      <4> QED
        BY <3>1, <3>2, <3>3, SubSeqEmpty
    <3>5. out \o <<>> = out
      BY Written, ConcatEmptySeq
    <3> QED
      BY <2>1, <3>1, <3>4, <3>5 DEF NextFrame
  <2>4. Behind'
    BY <2>1, <2>2, <2>3, <1>1 DEF Behind
  <2>5. Reaches' /\ walking' \in BOOLEAN
    BY <2>1 DEF Reaches, AtFrame
  <2> QED
    BY <2>1, <2>4, <2>5, <1>1 DEF PageInv
<1>3. CASE CopyFrame
  <2>1. /\ AtFrame /\ ~BeforeWindow /\ NextFrame /\ walking' = walking /\ UNCHANGED args
        /\ out' = out \o PrefixPart \o BodyPart
    BY <1>3 DEF CopyFrame
  <2>2. rec' \in 1..(Measured + 1) /\ rec' - 1 = rec /\ base' = EndOf[rec]
    <3>1. rec \in 1..Measured /\ EndOf[rec] = base + FrameSize(rec)
      BY <2>1, OnTheWire
    <3>2. rec' = rec + 1 /\ base' = base + FrameSize(rec)
      BY <2>1 DEF NextFrame
    <3> QED
      BY <1>1, <2>1, <3>1, <3>2
  <2>3. out' = SubSeq(Part(rec), PageOffset + 1, AtMost(base', PageOffset + PageCap))
    <3> DEFINE e == AtMost(base + FrameSize(rec), PageOffset + PageCap)
    <3>1. /\ SubSeq(Part(rec), PageOffset + 1, e)
               = out \o SubSeq(WireFrame(rec), Within + 1, e - base)
          /\ e - base = AtMost(FrameSize(rec), Within + Room)
      BY <2>1, ThroughFrame
    <3>2. rec \in 1..Len(lens) /\ Room > 0
      BY <2>1, OnTheWire
    <3>3. /\ PrefixPart \in Seq(Nat \X Nat) /\ BodyPart \in Seq(Nat \X Nat)
          /\ PrefixPart \o BodyPart =
               SubSeq(WireFrame(rec), Within + 1, AtMost(FrameSize(rec), Within + Room))
      BY <2>1, <3>2, Copied
    <3>4. (out \o PrefixPart) \o BodyPart = out \o (PrefixPart \o BodyPart)
      <4> DEFINE p == PrefixPart
                 b == BodyPart
      <4>1. out \in Seq(Nat \X Nat)
        BY Written
      <4>2. p \in Seq(Nat \X Nat) /\ b \in Seq(Nat \X Nat)
        BY <3>3
      <4> HIDE DEF p, b
      <4>3. (out \o p) \o b = out \o (p \o b)
        BY <4>1, <4>2, ConcatAssociative, SMTT(30)
      <4> QED
        BY <4>3 DEF p, b
    <3>5. base' = base + FrameSize(rec) /\ out' = (out \o PrefixPart) \o BodyPart
      BY <2>1 DEF NextFrame
    <3>6. SubSeq(Part(rec), PageOffset + 1, e) = out'
      BY <3>1, <3>3, <3>4, <3>5
    <3> QED
      BY <3>5, <3>6
  <2>4. Behind'
    BY <2>1, <2>2, <2>3, <1>1 DEF Behind
  <2>5. Reaches' /\ walking' \in BOOLEAN
    BY <2>1 DEF Reaches, AtFrame
  <2> QED
    BY <2>1, <2>4, <2>5, <1>1 DEF PageInv
<1>4. CASE EndWalk
  <2>1. /\ ~AtFrame /\ walking /\ ~walking' /\ walking' \in BOOLEAN
        /\ rec' = rec /\ base' = base /\ out' = out /\ UNCHANGED args
    BY <1>4 DEF EndWalk
  <2>2. Behind'
    BY <2>1, <1>1 DEF PageInv, Behind
  <2>3. rec = Measured + 1 \/ PageCap <= Len(out)
    <3>1. CASE ~(rec \in DOMAIN lens)
      BY <3>1, MeasuredIs DEF PageInv, Behind, Args, Lines
    <3>2. CASE ~(Room > 0)
      BY <3>2, Window, Written DEF PageInv, Room
    <3>3. CASE rec \in DOMAIN lens /\ ~(lens[rec] <= RecordMax)
      <4>1. ~(rec \in Measurable) /\ Measurable = 1..Measured /\ Measured \in Nat
        BY <3>3, MeasuredIs DEF Measurable, PageInv, Args, Lines
      <4> QED
        BY <4>1 DEF PageInv, Behind
    <3> QED
      BY <2>1, <3>1, <3>2, <3>3 DEF AtFrame
  <2>4. Reaches'
    BY <2>1, <2>3, <1>1 DEF Reaches
  <2> QED
    BY <2>1, <2>2, <2>4, <1>1 DEF PageInv
<1>5. CASE UNCHANGED readVars
  <2>1. /\ rec' = rec /\ base' = base /\ out' = out /\ walking' = walking
        /\ UNCHANGED args
    BY <1>5 DEF readVars, args
  <2>2. Behind' /\ Reaches'
    BY <2>1, <1>1 DEF PageInv, Behind, Reaches
  <2> QED
    BY <2>1, <2>2, <1>1 DEF PageInv
<1> QED
  BY <1>2, <1>3, <1>4, <1>5 DEF ReadNext

(* Where the walk ended, the page holds what the window and the buffer     *)
(* have room for, or all that the wire has left.                           *)
LEMMA Served ==
  ASSUME PageInv, ~walking
  PROVE  /\ Payload \in Seq(Nat \X Nat)
         /\ Len(Payload) = AtMost(AtMost(PageCap, MaxPayload), FramedSize - PageOffset)
         /\ \A i \in 1..Len(Payload) : Payload[i] = Wire[PageOffset + i]
<1>1. /\ FramedSize \in Nat /\ PageOffset \in Nat /\ PageOffset <= FramedSize
      /\ PageCap \in Nat /\ MaxPayload \in Nat
  BY Window DEF PageInv
<1>2. /\ base \in Nat /\ base <= FramedSize /\ out \in Seq(Nat \X Nat) /\ Len(out) \in Nat
      /\ Len(out) = AtLeast0(AtMost(base, PageOffset + PageCap) - PageOffset)
      /\ \A i \in 1..Len(out) : out[i] = Wire[PageOffset + i]
  BY Written
<1>3. rec = Measured + 1 \/ PageCap <= Len(out) \/ PageOffset >= FramedSize
  BY DEF PageInv, Reaches
<1>4. Len(out) = AtMost(PageCap, FramedSize - PageOffset)
  <2>1. CASE rec = Measured + 1
    <3>1. Measured \in Nat
      BY MeasuredIs DEF PageInv, Args, Lines
    <3>2. base = FramedSize
      BY <2>1, <3>1 DEF PageInv, Behind, FramedSize
    <3> QED
      BY <3>2, <1>1, <1>2 DEF AtMost, AtLeast0
  <2>2. CASE PageCap <= Len(out)
    BY <2>2, <1>1, <1>2 DEF AtMost, AtLeast0
  <2>3. CASE PageOffset >= FramedSize
    BY <2>3, <1>1, <1>2 DEF AtMost, AtLeast0
  <2> QED
    BY <1>3, <2>1, <2>2, <2>3
<1> DEFINE n == AtMost(Len(out), MaxPayload)
<1>5. n \in Nat /\ n <= Len(out) /\ Payload = SubSeq(out, 1, n)
  BY <1>1, <1>2 DEF AtMost, Payload
<1>6. n = AtMost(AtMost(PageCap, MaxPayload), FramedSize - PageOffset)
  BY <1>1, <1>4 DEF AtMost
<1> HIDE DEF n
<1>7. /\ Payload \in Seq(Nat \X Nat) /\ Len(Payload) = n
      /\ \A i \in 1..n : Payload[i] = out[i]
  BY <1>2, <1>5
<1>8. \A i \in 1..n : i \in 1..Len(out)
  BY <1>2, <1>5
<1> QED
  BY <1>2, <1>6, <1>7, <1>8

THEOREM PageInvariance == ReadSpec => []PageInv
BY PageStart, PageStep, PTL DEF ReadSpec

(* The types of the walk: the page never outgrows its cap.                 *)
THEOREM ReadTypeCorrect == ReadSpec => []ReadTypeOK
<1>1. PageInv => ReadTypeOK
  <2> SUFFICES ASSUME PageInv PROVE ReadTypeOK
    OBVIOUS
  <2>1. Measured \in 0..Len(lens) /\ Len(lens) \in Nat
    BY MeasuredIs DEF PageInv, Args, Lines
  <2>2. /\ base \in Nat
        /\ Len(out) = AtLeast0(AtMost(base, PageOffset + PageCap) - PageOffset)
    BY Written
  <2>3. PageOffset \in Nat /\ PageCap \in Nat
    BY Window DEF PageInv
  <2>4. Len(out) <= PageCap
    BY <2>2, <2>3 DEF AtMost, AtLeast0
  <2>5. rec \in 1..(Len(lens) + 1)
    <3>1. rec \in 1..(Measured + 1)
      BY DEF PageInv, Behind
    <3> QED
      BY <2>1, <3>1
  <2> QED
    BY <2>2, <2>4, <2>5 DEF PageInv, ReadTypeOK
<1> QED
  BY <1>1, PageInvariance, PTL

(* Whatever the lines, the position sought, the MTU and the buffer: a page *)
(* is the slice of the framed stream that starts where it says it does.    *)
THEOREM PageSlice == ReadSpec => []PageIsSlice
<1>1. PageInv => PageIsSlice
  <2> SUFFICES ASSUME PageInv, ~walking
               PROVE  Payload = SubSeq(Wire, PageOffset + 1,
                        AtMost(PageOffset + AtMost(PageCap, MaxPayload), FramedSize))
    BY DEF PageIsSlice
  <2> DEFINE e == AtMost(PageOffset + AtMost(PageCap, MaxPayload), FramedSize)
             z == SubSeq(Wire, PageOffset + 1, e)
  <2>1. /\ FramedSize \in Nat /\ PageOffset \in Nat /\ PageOffset <= FramedSize
        /\ PageCap \in Nat /\ MaxPayload \in Nat
    BY Window DEF PageInv
  <2>2. Wire \in Seq(Nat \X Nat) /\ Len(Wire) = FramedSize
    BY WireIs DEF PageInv, Args
  <2>3. /\ e \in Nat /\ PageOffset <= e /\ e <= FramedSize
        /\ e - PageOffset = AtMost(AtMost(PageCap, MaxPayload), FramedSize - PageOffset)
    BY <2>1 DEF AtMost
  <2> HIDE DEF e
  <2>4. /\ z \in Seq(Nat \X Nat) /\ Len(z) = e - PageOffset
        /\ \A i \in 1..Len(z) : z[i] = Wire[PageOffset + i]
    BY <2>1, <2>2, <2>3
  <2> HIDE DEF z
  <2>5. Payload = z
    BY <2>3, <2>4, Served, SeqEqual
  <2> QED
    BY <2>5 DEF z, e
<1> QED
  BY <1>1, PageInvariance, PTL

(* The MORE bit of a page is the truth about the stream behind it.         *)
THEOREM MoreTruth == ReadSpec => []MoreIsTruthful
<1>1. PageInv => MoreIsTruthful
  <2> SUFFICES ASSUME PageInv, ~walking
               PROVE  More <=> \E n \in 1..Len(Wire) : n > PageOffset + Len(Payload)
    BY DEF MoreIsTruthful
  <2>1. FramedSize \in Nat /\ PageOffset \in Nat
    BY Window DEF PageInv
  <2>2. Len(Wire) = FramedSize
    BY WireIs DEF PageInv, Args
  <2>3. Len(Payload) \in Nat
    BY Served
  <2> QED
    BY <2>1, <2>2, <2>3 DEF More
<1> QED
  BY <1>1, PageInvariance, PTL

(* No value outgrows the attribute, whatever the buffer already held.      *)
THEOREM ValueFit == ReadSpec => []ValueFits
<1>1. PageInv => ValueFits
  <2> SUFFICES ASSUME PageInv, ~walking
               PROVE  pre + Header + Len(Payload) <= MaxValue \/ Payload = <<>>
    BY DEF ValueFits
  <2>1. /\ FramedSize \in Nat /\ PageOffset \in Nat /\ PageOffset <= FramedSize
        /\ PageCap \in Nat /\ MaxPayload \in Nat
        /\ (MaxPayload # 0 => pre + Header + MaxPayload = MaxValue)
    BY Window DEF PageInv
  <2>2. /\ Payload \in Seq(Nat \X Nat) /\ Len(Payload) \in Nat
        /\ Len(Payload) = AtMost(AtMost(PageCap, MaxPayload), FramedSize - PageOffset)
    BY Served
  <2>3. Len(Payload) <= MaxPayload
    BY <2>1, <2>2 DEF AtMost
  <2>4. pre \in Nat /\ Header \in Nat /\ MaxValue \in Nat
    BY Sizes DEF PageInv, Args
  <2>5. CASE MaxPayload = 0
    <3>1. Len(Payload) = 0
      BY <2>2, <2>3, <2>5
    <3> QED
      BY <3>1, <2>2, EmptySeq
  <2>6. CASE MaxPayload # 0
    BY <2>1, <2>2, <2>3, <2>4, <2>6
  <2> QED
    BY <2>5, <2>6
<1> QED
  BY <1>1, PageInvariance, PTL

-----------------------------------------------------------------------------
(***************************************************************************)
(* The drain.                                                              *)
(***************************************************************************)
FramesOf(q) == [i \in 1..Len(q) |-> Frame(q[i])]

(* The stream up to the end of the n-th run's frame, and all of it.        *)
Sent(q, n) == Joined(FramesOf(q), n)

SentAll(q) == Sent(q, Len(q))

LEMMA RunSizes ==
  /\ \A r \in Runs : /\ Size[r] \in Nat /\ Size[r] >= 2
                     /\ Frame(r) \in Seq(Bytes) /\ Len(Frame(r)) = Size[r]
                     /\ \A k \in 1..Size[r] : Frame(r)[k] = <<r, k>>
  /\ Spliced \notin Runs /\ Caps \subseteq Nat /\ FarOffset \in Nat
<1>1. ASSUME NEW r \in Runs
      PROVE  /\ Size[r] \in Nat /\ Size[r] >= 2
             /\ Frame(r) \in Seq(Bytes) /\ Len(Frame(r)) = Size[r]
             /\ \A k \in 1..Size[r] : Frame(r)[k] = <<r, k>>
  <2>1. Size[r] \in Nat /\ Size[r] >= 2
    BY QueueDrainAssumption DEF QueueDrainAssumption
  <2>2. \A k \in 1..Size[r] : <<r, k>> \in Bytes
    BY <2>1 DEF Bytes
  <2> QED
    BY <2>1, <2>2 DEF Frame
<1> QED
  BY <1>1, QueueDrainAssumption DEF QueueDrainAssumption

LEMMA FramesOfType ==
  ASSUME NEW q \in Seq(Runs)
  PROVE  /\ FramesOf(q) \in Seq(Seq(Bytes)) /\ Len(FramesOf(q)) = Len(q) /\ Len(q) \in Nat
         /\ \A i \in 1..Len(q) : FramesOf(q)[i] = Frame(q[i]) /\ q[i] \in Runs
<1>1. \A i \in 1..Len(q) : q[i] \in Runs /\ Frame(q[i]) \in Seq(Bytes)
  BY RunSizes
<1> QED
  BY <1>1 DEF FramesOf

LEMMA SentType ==
  ASSUME NEW q \in Seq(Runs), NEW n \in 0..Len(q)
  PROVE  /\ Sent(q, n) \in Seq(Bytes) /\ SentAll(q) \in Seq(Bytes)
         /\ Len(Sent(q, n)) \in Nat /\ Len(SentAll(q)) \in Nat
         /\ Len(Sent(q, n)) <= Len(SentAll(q))
         /\ \A i \in 1..Len(Sent(q, n)) : SentAll(q)[i] = Sent(q, n)[i]
         /\ Sent(q, 0) = <<>>
<1>1. /\ FramesOf(q) \in Seq(Seq(Bytes)) /\ Len(FramesOf(q)) = Len(q) /\ Len(q) \in Nat
      /\ n \in 0..Len(FramesOf(q)) /\ Len(q) \in n..Len(FramesOf(q))
      /\ Len(q) \in 0..Len(FramesOf(q))
  BY FramesOfType
<1>2. Joined(FramesOf(q), n) \in Seq(Bytes) /\ Joined(FramesOf(q), Len(q)) \in Seq(Bytes)
      /\ Joined(FramesOf(q), 0) = <<>>
  BY <1>1, JoinGrows
<1>3. /\ Len(Joined(FramesOf(q), n)) <= Len(Joined(FramesOf(q), Len(q)))
      /\ \A i \in 1..Len(Joined(FramesOf(q), n)) :
           Joined(FramesOf(q), Len(q))[i] = Joined(FramesOf(q), n)[i]
  BY <1>1, JoinKeeps
<1> QED
  BY <1>2, <1>3 DEF Sent, SentAll

LEMMA NextSent ==
  ASSUME NEW q \in Seq(Runs), NEW n \in 0..Len(q), n # Len(q)
  PROVE  /\ n + 1 \in 1..Len(q) /\ n + 1 \in 0..Len(q) /\ q[n + 1] \in Runs
         /\ Sent(q, n + 1) = Sent(q, n) \o Frame(q[n + 1])
         /\ Len(Sent(q, n + 1)) = Len(Sent(q, n)) + Size[q[n + 1]]
         /\ \A k \in 1..Size[q[n + 1]] : Sent(q, n + 1)[Len(Sent(q, n)) + k] = <<q[n + 1], k>>
<1>1. n + 1 \in 1..Len(q) /\ n + 1 \in 0..Len(q) /\ (n + 1) - 1 = n
  OBVIOUS
<1>2. /\ FramesOf(q) \in Seq(Seq(Bytes)) /\ Len(FramesOf(q)) = Len(q)
      /\ FramesOf(q)[n + 1] = Frame(q[n + 1]) /\ q[n + 1] \in Runs
  BY <1>1, FramesOfType
<1>3. Joined(FramesOf(q), n + 1) = Joined(FramesOf(q), (n + 1) - 1) \o FramesOf(q)[n + 1]
  BY <1>1, <1>2, JoinGrows
<1>4. Sent(q, n + 1) = Sent(q, n) \o Frame(q[n + 1])
  BY <1>1, <1>2, <1>3 DEF Sent
<1> DEFINE s == Sent(q, n)
           f == Frame(q[n + 1])
           l == Size[q[n + 1]]
<1>5. s \in Seq(Bytes) /\ f \in Seq(Bytes) /\ Len(f) = l /\ l \in Nat
      /\ \A k \in 1..l : f[k] = <<q[n + 1], k>>
  BY <1>2, SentType, RunSizes
<1>6. Sent(q, n + 1) = s \o f
  BY <1>4
<1> HIDE DEF s, f, l
<1>7. /\ Len(s \o f) = Len(s) + l
      /\ \A i \in 1..(Len(s) + l) : (s \o f)[i] = IF i <= Len(s) THEN s[i] ELSE f[i - Len(s)]
  BY <1>5, ConcatProperties
<1>8. ASSUME NEW k \in 1..l PROVE (s \o f)[Len(s) + k] = <<q[n + 1], k>>
  <2>1. Len(s) \in Nat
    BY <1>5
  <2>2. Len(s) + k \in 1..(Len(s) + l) /\ ~(Len(s) + k <= Len(s)) /\ Len(s) + k - Len(s) = k
    BY <2>1, <1>5
  <2> QED
    BY <2>2, <1>5, <1>7
<1> QED
  BY <1>1, <1>2, <1>4, <1>6, <1>7, <1>8 DEF s, f, l

(* The frame after a place where a frame ends, cut out of the stream.      *)
LEMMA FrameInStream ==
  ASSUME NEW q \in Seq(Runs), NEW n \in 0..Len(q), n # Len(q)
  PROVE  LET start == Len(Sent(q, n))
             run   == q[n + 1]
         IN  /\ start + Size[run] <= Len(SentAll(q))
             /\ SentAll(q)[start + 1] = <<run, 1>>
             /\ SubSeq(SentAll(q), start + 1, start + Size[run]) = Frame(run)
<1> DEFINE start == Len(Sent(q, n))
           run == q[n + 1]
           all == SentAll(q)
           f == Frame(run)
           z == SubSeq(all, start + 1, start + Size[run])
<1>1. /\ n + 1 \in 0..Len(q) /\ run \in Runs
      /\ Len(Sent(q, n + 1)) = start + Size[run]
      /\ \A k \in 1..Size[run] : Sent(q, n + 1)[start + k] = <<run, k>>
  BY NextSent
<1>2. start \in Nat /\ all \in Seq(Bytes) /\ Len(all) \in Nat
  BY SentType
<1>3. /\ Len(Sent(q, n + 1)) <= Len(all)
      /\ \A i \in 1..Len(Sent(q, n + 1)) : all[i] = Sent(q, n + 1)[i]
  BY <1>1, SentType
<1>4. /\ Size[run] \in Nat /\ Size[run] >= 2 /\ f \in Seq(Bytes) /\ Len(f) = Size[run]
      /\ \A k \in 1..Size[run] : f[k] = <<run, k>>
  BY <1>1, RunSizes
<1> HIDE DEF start, run, all, f
<1>5. start + Size[run] <= Len(all) /\ \A k \in 1..Size[run] : all[start + k] = <<run, k>>
  <2>1. \A k \in 1..Size[run] : start + k \in 1..(start + Size[run])
    BY <1>2, <1>4
  <2> QED
    BY <2>1, <1>1, <1>3
<1>6. /\ z \in Seq(Bytes) /\ Len(z) = Size[run]
      /\ \A k \in 1..Size[run] : z[k] = all[start + k]
  BY <1>2, <1>4, <1>5
<1> HIDE DEF z
<1>7. z = f
  <2>1. Len(z) = Len(f) /\ \A k \in 1..Len(z) : z[k] = f[k]
    BY <1>4, <1>5, <1>6
  <2> QED
    BY <2>1, <1>4, <1>6, SeqEqual
<1>8. all[start + 1] = <<run, 1>>
  <2>1. 1 \in 1..Size[run]
    BY <1>4
  <2> QED
    BY <2>1, <1>5
<1> QED
  BY <1>5, <1>7, <1>8 DEF z, f, all, run, start

(* A run that ends leaves the stream it is appended to as it was.          *)
LEMMA SentGrows ==
  ASSUME NEW q \in Seq(Runs), NEW r \in Runs
  PROVE  /\ Append(q, r) \in Seq(Runs)
         /\ \A n \in 0..Len(q) : n \in 0..Len(Append(q, r)) /\ Sent(Append(q, r), n) = Sent(q, n)
         /\ Len(SentAll(q)) <= Len(SentAll(Append(q, r)))
         /\ \A i \in 1..Len(SentAll(q)) : SentAll(Append(q, r))[i] = SentAll(q)[i]
<1> DEFINE p == Append(q, r)
<1>1. p \in Seq(Runs) /\ Len(p) = Len(q) + 1 /\ Len(q) \in Nat /\ \A i \in 1..Len(q) : p[i] = q[i]
  OBVIOUS
<1> HIDE DEF p
<1>2. ASSUME NEW n \in 0..Len(q) PROVE n \in 0..Len(p) /\ Sent(p, n) = Sent(q, n)
  <2> DEFINE x == SubSeq(FramesOf(p), 1, n)
             y == SubSeq(FramesOf(q), 1, n)
  <2>1. /\ FramesOf(p) \in Seq(Seq(Bytes)) /\ Len(FramesOf(p)) = Len(p)
        /\ FramesOf(q) \in Seq(Seq(Bytes)) /\ Len(FramesOf(q)) = Len(q)
        /\ \A i \in 1..n : FramesOf(p)[i] = Frame(p[i]) /\ FramesOf(q)[i] = Frame(q[i])
    BY <1>1, FramesOfType
  <2>2. /\ x \in Seq(Seq(Bytes)) /\ Len(x) = n /\ \A i \in 1..n : x[i] = FramesOf(p)[i]
        /\ y \in Seq(Seq(Bytes)) /\ Len(y) = n /\ \A i \in 1..n : y[i] = FramesOf(q)[i]
    BY <1>1, <2>1
  <2> HIDE DEF x, y
  <2>3. \A i \in 1..n : FramesOf(p)[i] = FramesOf(q)[i]
    BY <2>1, <1>1
  <2>4. x = y
    BY <2>2, <2>3, SeqEqual
  <2>5. FlattenSeq(SubSeq(FramesOf(p), 1, n)) = FlattenSeq(SubSeq(FramesOf(q), 1, n))
    BY <2>4 DEF x, y
  <2>6. Sent(p, n) = Sent(q, n)
    BY <2>5 DEF Sent, Joined
  <2> QED
    BY <2>6, <1>1
<1>3. Len(q) \in 0..Len(q)
  BY <1>1
<1>4. Sent(p, Len(q)) = SentAll(q)
  BY <1>2, <1>3 DEF SentAll
<1>5. Len(q) \in 0..Len(p)
  BY <1>1
<1>6. /\ Len(Sent(p, Len(q))) <= Len(SentAll(p))
      /\ \A i \in 1..Len(Sent(p, Len(q))) : SentAll(p)[i] = Sent(p, Len(q))[i]
  BY <1>1, <1>5, SentType
<1> QED
  BY <1>1, <1>2, <1>4, <1>6 DEF p

(* A slice of what is there is the same slice of whatever it becomes.      *)
LEMMA SliceStays ==
  ASSUME NEW S, NEW s \in Seq(S), NEW t \in Seq(S), Len(s) <= Len(t),
         \A i \in 1..Len(s) : t[i] = s[i],
         NEW a \in Nat, NEW e \in Nat, e <= Len(s)
  PROVE  SubSeq(t, a + 1, e) = SubSeq(s, a + 1, e)
<1> DEFINE x == SubSeq(t, a + 1, e)
           y == SubSeq(s, a + 1, e)
<1>1. /\ x \in Seq(S) /\ Len(x) = IF a + 1 <= e THEN e - a ELSE 0
      /\ \A i \in 1..Len(x) : x[i] = t[a + i]
  OBVIOUS
<1>2. /\ y \in Seq(S) /\ Len(y) = IF a + 1 <= e THEN e - a ELSE 0
      /\ \A i \in 1..Len(y) : y[i] = s[a + i]
  OBVIOUS
<1>3. \A i \in 1..Len(y) : a + i \in 1..Len(s)
  BY <1>2
<1> HIDE DEF x, y
<1>4. x = y
  BY <1>1, <1>2, <1>3, SeqEqual
<1> QED
  BY <1>4 DEF x, y

(***************************************************************************)
(* The phone's tail ends where its position is and starts where a frame    *)
(* ends; a page is a slice of the stream.                                  *)
(***************************************************************************)
Aligned(q, w, t) ==
  \E n \in 0..Len(q) :
    /\ Len(Sent(q, n)) + Len(t) = w
    /\ w <= Len(SentAll(q))
    /\ t = SubSeq(SentAll(q), Len(Sent(q, n)) + 1, w)

IsSlice(q, p) ==
  /\ p.offset \in Nat /\ p.bytes \in Seq(Bytes)
  /\ p.offset + Len(p.bytes) <= Len(SentAll(q))
  /\ p.bytes = SubSeq(SentAll(q), p.offset + 1, p.offset + Len(p.bytes))

LEMMA AlignedAtStart ==
  ASSUME NEW q \in Seq(Runs)
  PROVE  Aligned(q, 0, <<>>)
<1>1. 0 \in 0..Len(q) /\ Len(q) \in Nat
  OBVIOUS
<1>2. SentAll(q) \in Seq(Bytes) /\ Len(SentAll(q)) \in Nat /\ Sent(q, 0) = <<>>
  BY <1>1, SentType
<1>3. Len(Sent(q, 0)) = 0 /\ Len(<<>>) = 0
  BY <1>2
<1>4. SubSeq(SentAll(q), 0 + 1, 0) = <<>>
  BY <1>2, SubSeqEmpty
<1> QED
  BY <1>1, <1>2, <1>3, <1>4 DEF Aligned

LEMMA AlignedGrows ==
  ASSUME NEW q \in Seq(Runs), NEW r \in Runs, NEW w \in Nat, NEW t \in Seq(Bytes),
         Aligned(q, w, t)
  PROVE  Aligned(Append(q, r), w, t)
<1>1. PICK n \in 0..Len(q) : /\ Len(Sent(q, n)) + Len(t) = w /\ w <= Len(SentAll(q))
                             /\ t = SubSeq(SentAll(q), Len(Sent(q, n)) + 1, w)
  BY DEF Aligned
<1> DEFINE p == Append(q, r)
<1>2. /\ p \in Seq(Runs) /\ n \in 0..Len(p) /\ Sent(p, n) = Sent(q, n)
      /\ Len(SentAll(q)) <= Len(SentAll(p))
      /\ \A i \in 1..Len(SentAll(q)) : SentAll(p)[i] = SentAll(q)[i]
  BY SentGrows
<1> HIDE DEF p
<1>3. /\ SentAll(q) \in Seq(Bytes) /\ SentAll(p) \in Seq(Bytes)
      /\ Len(SentAll(q)) \in Nat /\ Len(SentAll(p)) \in Nat /\ Len(Sent(q, n)) \in Nat
  BY <1>2, SentType
<1>4. SubSeq(SentAll(p), Len(Sent(q, n)) + 1, w) = SubSeq(SentAll(q), Len(Sent(q, n)) + 1, w)
  BY <1>1, <1>2, <1>3, SliceStays
<1>5. w <= Len(SentAll(p))
  BY <1>1, <1>2, <1>3
<1>6. Aligned(p, w, t)
  BY <1>1, <1>2, <1>4, <1>5 DEF Aligned
<1> QED
  BY <1>6 DEF p

LEMMA SliceGrows ==
  ASSUME NEW q \in Seq(Runs), NEW r \in Runs, NEW p, IsSlice(q, p)
  PROVE  IsSlice(Append(q, r), p)
<1> DEFINE g == Append(q, r)
           e == p.offset + Len(p.bytes)
<1>1. /\ p.offset \in Nat /\ p.bytes \in Seq(Bytes) /\ Len(p.bytes) \in Nat
      /\ e <= Len(SentAll(q)) /\ p.bytes = SubSeq(SentAll(q), p.offset + 1, e)
  BY DEF IsSlice
<1>2. /\ g \in Seq(Runs) /\ Len(SentAll(q)) <= Len(SentAll(g))
      /\ \A i \in 1..Len(SentAll(q)) : SentAll(g)[i] = SentAll(q)[i]
  BY SentGrows
<1> HIDE DEF g
<1>3. 0 \in 0..Len(q) /\ 0 \in 0..Len(g)
  BY <1>2
<1>4. /\ SentAll(q) \in Seq(Bytes) /\ SentAll(g) \in Seq(Bytes)
      /\ Len(SentAll(q)) \in Nat /\ Len(SentAll(g)) \in Nat
  BY <1>2, <1>3, SentType
<1>5. e \in Nat
  BY <1>1
<1>6. SubSeq(SentAll(g), p.offset + 1, e) = SubSeq(SentAll(q), p.offset + 1, e)
  <2> DEFINE o == p.offset
  <2>1. o \in Nat /\ e <= Len(SentAll(q))
    BY <1>1
  <2> HIDE DEF o, e
  <2>2. SubSeq(SentAll(g), o + 1, e) = SubSeq(SentAll(q), o + 1, e)
    BY <2>1, <1>2, <1>4, <1>5, SliceStays
  <2> QED
    BY <2>2 DEF o
<1> HIDE DEF e
<1>7. e <= Len(SentAll(g))
  BY <1>1, <1>2, <1>4, <1>5
<1> QED
  BY <1>1, <1>6, <1>7 DEF IsSlice, e, g

LEMMA StreamIs ==
  ASSUME queue \in Seq(Runs)
  PROVE  Stream = SentAll(queue) /\ Total = Len(SentAll(queue)) /\ Total \in Nat
<1>1. DOMAIN queue = 1..Len(queue) /\ 0 \in 0..Len(queue)
  OBVIOUS
<1>2. Stream = FlattenSeq(FramesOf(queue))
  BY <1>1 DEF Stream, FramesOf
<1>3. FramesOf(queue) \in Seq(Seq(Bytes)) /\ Len(FramesOf(queue)) = Len(queue)
  BY FramesOfType
<1>4. FlattenSeq(FramesOf(queue)) = Joined(FramesOf(queue), Len(FramesOf(queue)))
  BY <1>3, JoinGrows
<1>5. Stream = SentAll(queue)
  BY <1>2, <1>3, <1>4 DEF SentAll, Sent
<1>6. Len(SentAll(queue)) \in Nat
  BY <1>1, SentType
<1> QED
  BY <1>5, <1>6 DEF Total

LEMMA PageIs ==
  ASSUME queue \in Seq(Runs), pull \in Nat, NEW cap \in Nat
  PROVE  IsSlice(queue, Page(cap)) /\ Page(cap).offset = AtMost(pull, Len(SentAll(queue)))
<1> DEFINE all == SentAll(queue)
           end == IF Offset + cap > Total THEN Total ELSE Offset + cap
<1>1. Stream = all /\ Total = Len(all) /\ Total \in Nat
  BY StreamIs
<1>2. all \in Seq(Bytes)
  <2>1. 0 \in 0..Len(queue)
    OBVIOUS
  <2> QED
    BY <2>1, SentType
<1>3. Offset = AtMost(pull, Total) /\ Offset \in Nat /\ Offset <= Total
  BY <1>1 DEF Offset, AtMost
<1>4. end \in Nat /\ Offset <= end /\ end <= Total
  BY <1>1, <1>3
<1>5. Page(cap) = [offset |-> Offset, bytes |-> SubSeq(all, Offset + 1, end), more |-> end < Total]
  BY <1>1 DEF Page
<1> HIDE DEF all, end
<1>6. SubSeq(all, Offset + 1, end) \in Seq(Bytes) /\ Len(SubSeq(all, Offset + 1, end)) = end - Offset
  BY <1>1, <1>2, <1>3, <1>4
<1>7. Page(cap).offset = Offset /\ Page(cap).bytes = SubSeq(all, Offset + 1, end)
  <2> DEFINE b == SubSeq(all, Offset + 1, end)
             m == end < Total
  <2>1. Page(cap) = [offset |-> Offset, bytes |-> b, more |-> m]
    BY <1>5
  <2> HIDE DEF b, m
  <2>2. Page(cap).offset = Offset /\ Page(cap).bytes = b
    BY <2>1
  <2> QED
    BY <2>2 DEF b
<1>8. Page(cap).offset + Len(Page(cap).bytes) = end
  BY <1>3, <1>4, <1>6, <1>7
<1> QED
  BY <1>1, <1>3, <1>4, <1>6, <1>7, <1>8 DEF IsSlice, all

(* A page that starts at the position carries the tail on.                 *)
LEMMA PageJoins ==
  ASSUME NEW q \in Seq(Runs), NEW w \in Nat, NEW t \in Seq(Bytes), Aligned(q, w, t),
         NEW p, IsSlice(q, p), p.offset = w
  PROVE  /\ w + Len(p.bytes) \in Nat /\ t \o p.bytes \in Seq(Bytes)
         /\ Aligned(q, w + Len(p.bytes), t \o p.bytes)
<1>1. PICK n \in 0..Len(q) : /\ Len(Sent(q, n)) + Len(t) = w /\ w <= Len(SentAll(q))
                             /\ t = SubSeq(SentAll(q), Len(Sent(q, n)) + 1, w)
  BY DEF Aligned
<1> DEFINE all == SentAll(q)
           a == Len(Sent(q, n))
           b == p.bytes
           e == w + Len(b)
<1>2. all \in Seq(Bytes) /\ Len(all) \in Nat /\ a \in Nat
  BY SentType
<1>3. b \in Seq(Bytes) /\ e <= Len(all) /\ b = SubSeq(all, w + 1, e)
  BY DEF IsSlice
<1> HIDE DEF a, all, b
<1>4. a + Len(t) = w /\ w <= Len(all) /\ t = SubSeq(all, a + 1, w)
  BY <1>1 DEF a, all
<1>5. Len(b) \in Nat /\ Len(t) \in Nat /\ e \in Nat
  BY <1>3
<1>6. t \o b \in Seq(Bytes) /\ Len(t \o b) = Len(t) + Len(b)
  BY <1>3, ConcatProperties
<1> HIDE DEF e
<1>7. SubSeq(all, a + 1, w) \o SubSeq(all, w + 1, e) = SubSeq(all, a + 1, e)
  <2>1. a + 1 \in 1..(Len(all) + 1) /\ w \in ((a + 1) - 1)..Len(all)
    <3>1. a \in Nat /\ a <= w /\ Len(all) \in Nat /\ w <= Len(all)
      BY <1>2, <1>4, <1>5
    <3> QED
      BY <3>1
  <2>2. e \in w..Len(all)
    BY <1>2, <1>3, <1>4, <1>5 DEF e
  <2> QED
    BY <1>2, <2>1, <2>2, ConcatAdjacentSubSeq
<1>8. t \o b = SubSeq(all, a + 1, e)
  BY <1>3, <1>4, <1>7
<1>9. a + Len(t \o b) = e
  <2>1. e = w + Len(b) /\ w = a + Len(t)
    BY <1>4 DEF e
  <2>2. a + (Len(t) + Len(b)) = (a + Len(t)) + Len(b)
    BY <1>2, <1>5
  <2> QED
    BY <2>1, <2>2, <1>6
<1>10. Aligned(q, e, t \o b)
  BY <1>3, <1>8, <1>9 DEF Aligned, a, all
<1> QED
  BY <1>5, <1>6, <1>10 DEF e, b

(* The frame the tail starts with is a run's, and what follows it starts   *)
(* where that run's frame ends.                                            *)
LEMMA FrameDecodes ==
  ASSUME NEW q \in Seq(Runs), NEW w \in Nat, NEW t \in Seq(Bytes), Aligned(q, w, t),
         Len(t) >= 2, Len(t) >= Size[t[1][1]]
  PROVE  LET run == t[1][1]
         IN  /\ run \in Runs /\ SubSeq(t, 1, Size[run]) = Frame(run)
             /\ SubSeq(t, Size[run] + 1, Len(t)) \in Seq(Bytes)
             /\ Aligned(q, w, SubSeq(t, Size[run] + 1, Len(t)))
<1>1. PICK n \in 0..Len(q) : /\ Len(Sent(q, n)) + Len(t) = w /\ w <= Len(SentAll(q))
                             /\ t = SubSeq(SentAll(q), Len(Sent(q, n)) + 1, w)
  BY DEF Aligned
<1> DEFINE all == SentAll(q)
           a == Len(Sent(q, n))
           run == q[n + 1]
           l == Size[run]
           u == SubSeq(t, l + 1, Len(t))
<1>2. all \in Seq(Bytes) /\ Len(all) \in Nat /\ a \in Nat /\ Len(t) \in Nat /\ Len(q) \in Nat
  BY SentType
<1>3. n # Len(q)
  <2>1. Sent(q, Len(q)) = all
    BY DEF SentAll
  <2> QED
    BY <1>1, <1>2, <2>1
<1>4. /\ n + 1 \in 0..Len(q) /\ run \in Runs /\ l \in Nat /\ l >= 2
      /\ Len(Sent(q, n + 1)) = a + l
  BY <1>3, NextSent, RunSizes
<1>5. a + l <= Len(all) /\ all[a + 1] = <<run, 1>> /\ SubSeq(all, a + 1, a + l) = Frame(run)
  BY <1>3, FrameInStream
<1> HIDE DEF a, all, run, l
<1>6. a + Len(t) = w /\ w <= Len(all) /\ t = SubSeq(all, a + 1, w)
  BY <1>1 DEF a, all
<1>7. \A i \in 1..Len(t) : t[i] = all[a + i]
  BY <1>2, <1>6
<1>8. t[1][1] = run
  <2>1. t[1] = <<run, 1>>
    <3>1. 1 \in 1..Len(t)
      BY <1>2
    <3> QED
      BY <3>1, <1>5, <1>7
  <2> QED
    BY <2>1
<1>9. l <= Len(t)
  BY <1>8 DEF l
<1>10. SubSeq(t, 1, l) = Frame(run)
  <2> DEFINE x == SubSeq(t, 1, l)
             y == SubSeq(all, a + 1, a + l)
  <2>1. x \in Seq(Bytes) /\ Len(x) = l /\ \A i \in 1..l : x[i] = t[i]
    BY <1>2, <1>4, <1>9
  <2>2. y \in Seq(Bytes) /\ Len(y) = l /\ \A i \in 1..l : y[i] = all[a + i]
    BY <1>2, <1>4, <1>5
  <2> HIDE DEF x, y
  <2>3. \A i \in 1..l : i \in 1..Len(t)
    BY <1>2, <1>4, <1>9
  <2>4. \A i \in 1..l : x[i] = y[i]
    BY <2>1, <2>2, <2>3, <1>7
  <2>5. x = y
    BY <2>1, <2>2, <2>4, SeqEqual
  <2> QED
    BY <2>5, <1>5 DEF x, y
<1>11. /\ u \in Seq(Bytes) /\ Len(u) = Len(t) - l
       /\ \A i \in 1..Len(u) : u[i] = t[l + i]
  BY <1>2, <1>4, <1>9
<1>12. u = SubSeq(all, (a + l) + 1, w)
  <2> DEFINE y == SubSeq(all, (a + l) + 1, w)
  <2>1. w \in Nat /\ a + l <= w /\ w - (a + l) = Len(t) - l
    BY <1>2, <1>4, <1>6, <1>9
  <2>2. y \in Seq(Bytes) /\ Len(y) = w - (a + l) /\ \A i \in 1..Len(y) : y[i] = all[(a + l) + i]
    BY <2>1, <1>2, <1>4, <1>6
  <2> HIDE DEF y, u
  <2>3. \A i \in 1..Len(u) : l + i \in 1..Len(t) /\ a + (l + i) = (a + l) + i
    BY <1>2, <1>4, <1>9, <1>11
  <2>4. \A i \in 1..Len(u) : u[i] = y[i]
    BY <2>1, <2>2, <2>3, <1>7, <1>11
  <2>5. u = y
    BY <2>1, <2>2, <2>4, <1>11, SeqEqual
  <2> QED
    BY <2>5 DEF y
<1>13. Aligned(q, w, u)
  <2>1. Len(Sent(q, n + 1)) + Len(u) = w
    <3>1. (a + l) + (Len(t) - l) = w
      BY <1>2, <1>4, <1>6
    <3> HIDE DEF u
    <3> QED
      BY <3>1, <1>4, <1>11
  <2> QED
    BY <2>1, <1>4, <1>6, <1>12 DEF Aligned, all
<1> QED
  BY <1>4, <1>8, <1>10, <1>11, <1>13 DEF l

(* The watch's side, the phone's, and what lies between them: a page that  *)
(* is out is a slice of the stream, and a read that was sought is served   *)
(* from the position the phone wants.                                      *)
StoreInv ==
  /\ queue \in Seq(Runs) /\ passed \in Seq(Runs)
  /\ retired \subseteq Runs /\ relayed \subseteq Runs
  /\ pull \in Nat /\ link \in BOOLEAN

PhoneInv ==
  /\ phone \in Phones /\ phone.inbox \in Seq(Runs)
  /\ Aligned(queue, phone.want, phone.tail)
  /\ ~link => phone.at = "idle"

ReadInv ==
  /\ phone.at \in {"idle", "sought"} => page = NoPage
  /\ phone.at \in {"reading", "decoding"} => IsSlice(queue, page)
  /\ phone.at \in {"sought", "reading"} /\ phone.sought => pull = phone.want
  /\ phone.at = "reading" /\ phone.sought => page.offset = phone.want

DrainInv == StoreInv /\ PhoneInv /\ ReadInv

LEMMA PhoneFields ==
  ASSUME NEW p \in Phones
  PROVE  /\ p.at \in {"idle", "sought", "reading", "decoding"} /\ p.sought \in BOOLEAN
         /\ p.want \in Nat /\ p.tail \in Seq(Bytes) /\ p.told \in Nat
         /\ p.inbox \in Seq(Runs \cup {Spliced})
BY DEF Phones

LEMMA Restarted ==
  ASSUME NEW p \in Phones
  PROVE  /\ Restart(p) \in Phones /\ Restart(p).at = "idle" /\ Restart(p).want = 0
         /\ Restart(p).tail = <<>> /\ Restart(p).inbox = p.inbox
<1>1. <<>> \in Seq(Bytes)
  OBVIOUS
<1> QED
  BY <1>1 DEF Phones, Restart

LEMMA Rested ==
  ASSUME StoreInv', phone' \in Phones, phone'.at = "idle", phone'.want = 0,
         phone'.tail = <<>>, phone'.inbox \in Seq(Runs), page' = NoPage
  PROVE  DrainInv'
<1>1. queue' \in Seq(Runs)
  BY DEF StoreInv
<1>2. Aligned(queue', 0, <<>>)
  BY <1>1, AlignedAtStart
<1>3. PhoneInv'
  BY <1>2 DEF PhoneInv
<1>4. ReadInv'
  BY DEF ReadInv
<1> QED
  BY <1>3, <1>4 DEF DrainInv

LEMMA DrainStart == Init => DrainInv
<1> SUFFICES ASSUME Init PROVE DrainInv
  OBVIOUS
<1>1. StoreInv
  <2>1. <<>> \in Seq(Runs)
    OBVIOUS
  <2> QED
    BY <2>1 DEF Init, StoreInv
<1>2. phone \in Phones /\ phone.at = "idle" /\ phone.want = 0 /\ phone.tail = <<>>
      /\ phone.inbox = <<>> /\ page = NoPage
  BY DEF Init, Phones
<1>3. <<>> \in Seq(Runs)
  OBVIOUS
<1>4. Aligned(queue, 0, <<>>)
  BY <1>1, AlignedAtStart DEF StoreInv
<1> QED
  BY <1>1, <1>2, <1>3, <1>4 DEF DrainInv, PhoneInv, ReadInv

LEMMA RoutineEndsKeeps ==
  ASSUME DrainInv, NEW r \in Runs, RoutineEnds(r)
  PROVE  DrainInv'
<1>1. /\ queue' = Append(queue, r) /\ passed' = passed /\ retired' = retired
      /\ relayed' = relayed /\ pull' = pull /\ link' = link /\ phone' = phone /\ page' = page
  BY DEF RoutineEnds
<1>2. queue \in Seq(Runs) /\ queue' \in Seq(Runs)
  BY <1>1 DEF DrainInv, StoreInv
<1>3. phone.want \in Nat /\ phone.tail \in Seq(Bytes) /\ Aligned(queue, phone.want, phone.tail)
  BY PhoneFields DEF DrainInv, PhoneInv
<1>4. Aligned(queue', phone.want, phone.tail)
  BY <1>1, <1>2, <1>3, AlignedGrows
<1>5. IsSlice(queue, page) => IsSlice(queue', page)
  BY <1>1, <1>2, SliceGrows
<1>6. StoreInv'
  BY <1>1, <1>2 DEF DrainInv, StoreInv
<1>7. PhoneInv'
  BY <1>1, <1>4 DEF DrainInv, PhoneInv
<1>8. ReadInv'
  BY <1>1, <1>5 DEF DrainInv, ReadInv
<1> QED
  BY <1>6, <1>7, <1>8 DEF DrainInv

LEMMA ConnectKeeps == ASSUME DrainInv, Connect PROVE DrainInv'
<1>1. /\ phone \in Phones /\ phone.inbox \in Seq(Runs) /\ page = NoPage
      /\ queue \in Seq(Runs) /\ StoreInv
  BY DEF Connect, DrainInv, StoreInv, PhoneInv, ReadInv
<1>2. StoreInv'
  BY <1>1 DEF Connect, StoreInv, store
<1>3. page' = NoPage /\ phone' = [Restart(phone) EXCEPT !.told = Len(queue)]
  BY <1>1 DEF Connect
<1>4. Len(queue) \in Nat
  BY <1>1
<1>5. /\ phone' \in Phones /\ phone'.at = "idle" /\ phone'.want = 0 /\ phone'.tail = <<>>
      /\ phone'.inbox = phone.inbox
  BY <1>1, <1>3, <1>4, Restarted DEF Phones
<1> QED
  BY <1>1, <1>2, <1>3, <1>5, Rested

LEMMA LinkLostKeeps ==
  ASSUME DrainInv, NEW inbox \in Seq(Runs), LinkLost(inbox), relayed' = relayed,
         queue' \in Seq(Runs), passed' \in Seq(Runs), retired' \subseteq Runs
  PROVE  DrainInv'
<1>1. phone \in Phones /\ StoreInv
  BY DEF DrainInv, PhoneInv
<1>2. StoreInv'
  BY <1>1 DEF StoreInv, LinkLost
<1>3. page' = NoPage /\ phone' = [Restart(phone) EXCEPT !.told = 0, !.inbox = inbox]
  BY DEF LinkLost
<1>4. inbox \in Seq(Runs \cup {Spliced}) /\ <<>> \in Seq(Bytes)
  OBVIOUS
<1>5. /\ phone' \in Phones /\ phone'.at = "idle" /\ phone'.want = 0 /\ phone'.tail = <<>>
      /\ phone'.inbox = inbox
  BY <1>1, <1>3, <1>4, Restarted DEF Phones
<1> QED
  BY <1>2, <1>3, <1>5, Rested

LEMMA DropKeeps == ASSUME DrainInv, Drop \/ HangUp PROVE DrainInv'
<1>1. queue' \in Seq(Runs) /\ passed' \in Seq(Runs) /\ retired' \subseteq Runs /\ relayed' = relayed
  BY DEF Drop, HangUp, DrainInv, StoreInv, store
<1>2. PICK kept \in {phone.inbox, <<>>} : LinkLost(kept)
  BY DEF Drop, HangUp
<1>3. kept \in Seq(Runs)
  <2>1. <<>> \in Seq(Runs)
    OBVIOUS
  <2> QED
    BY <1>2, <2>1 DEF DrainInv, PhoneInv
<1> QED
  BY <1>1, <1>2, <1>3, LinkLostKeeps

LEMMA SeekKeeps == ASSUME DrainInv, Seek \/ StraySeek PROVE DrainInv'
<1>1. /\ UNCHANGED <<store, link, page, relayed>> /\ WantsPage
      /\ \E s \in BOOLEAN : /\ phone' = [phone EXCEPT !.at = "sought", !.sought = s]
                            /\ s => pull' = phone.want
                            /\ pull' \in {phone.want, pull, FarOffset}
  BY DEF Seek, StraySeek
<1>2. PICK s \in BOOLEAN : /\ phone' = [phone EXCEPT !.at = "sought", !.sought = s]
                           /\ s => pull' = phone.want
                           /\ pull' \in {phone.want, pull, FarOffset}
  BY <1>1
<1>3. phone \in Phones /\ phone.want \in Nat /\ FarOffset \in Nat
  BY PhoneFields, RunSizes DEF DrainInv, PhoneInv
<1>4. /\ phone' \in Phones /\ phone'.at = "sought" /\ phone'.sought = s
      /\ phone'.want = phone.want /\ phone'.tail = phone.tail /\ phone'.inbox = phone.inbox
  BY <1>2, <1>3 DEF Phones
<1>5. StoreInv'
  BY <1>1, <1>2, <1>3 DEF DrainInv, StoreInv, store
<1>6. PhoneInv'
  BY <1>1, <1>4 DEF DrainInv, PhoneInv, store, WantsPage
<1>7. ReadInv'
  BY <1>1, <1>2, <1>4 DEF DrainInv, ReadInv, WantsPage
<1> QED
  BY <1>5, <1>6, <1>7 DEF DrainInv

LEMMA ServeKeeps ==
  ASSUME DrainInv, NEW cap \in Caps, Serve(cap)
  PROVE  DrainInv'
<1>1. /\ UNCHANGED <<store, link, relayed>> /\ link /\ phone.at \in {"sought", "reading"}
      /\ page' = Page(cap) /\ pull' = pull /\ phone' = [phone EXCEPT !.at = "reading"]
  BY DEF Serve, PullAfter
<1>2. phone \in Phones /\ queue \in Seq(Runs) /\ pull \in Nat /\ cap \in Nat
  BY RunSizes DEF DrainInv, StoreInv, PhoneInv
<1>3. /\ phone' \in Phones /\ phone'.at = "reading" /\ phone'.sought = phone.sought
      /\ phone'.want = phone.want /\ phone'.tail = phone.tail /\ phone'.inbox = phone.inbox
  BY <1>1, <1>2 DEF Phones
<1>4. IsSlice(queue, Page(cap)) /\ Page(cap).offset = AtMost(pull, Len(SentAll(queue)))
  BY <1>2, PageIs
<1>5. ASSUME phone.sought PROVE Page(cap).offset = phone.want
  <2>1. pull = phone.want
    BY <1>1, <1>5 DEF DrainInv, ReadInv
  <2>2. phone.want <= Len(SentAll(queue)) /\ Len(SentAll(queue)) \in Nat /\ phone.want \in Nat
    <3>1. 0 \in 0..Len(queue)
      BY <1>2
    <3> QED
      BY <3>1, <1>2, SentType, PhoneFields DEF DrainInv, PhoneInv, Aligned
  <2> QED
    BY <1>4, <2>1, <2>2 DEF AtMost
<1>6. StoreInv'
  BY <1>1 DEF DrainInv, StoreInv, store
<1>7. PhoneInv'
  BY <1>1, <1>3 DEF DrainInv, PhoneInv, store
<1>8. ReadInv'
  BY <1>1, <1>3, <1>4, <1>5 DEF DrainInv, ReadInv, store
<1> QED
  BY <1>6, <1>7, <1>8 DEF DrainInv

LEMMA AcceptKeeps == ASSUME DrainInv, Accept PROVE DrainInv'
<1>1. /\ UNCHANGED <<store, pull, link, page, relayed>> /\ link /\ phone.at = "reading"
      /\ page.offset = phone.want
      /\ phone' = [phone EXCEPT !.at = "decoding", !.want = @ + Len(page.bytes),
                                !.tail = @ \o page.bytes]
  BY DEF Accept
<1>2. phone \in Phones /\ queue \in Seq(Runs) /\ phone.want \in Nat /\ phone.tail \in Seq(Bytes)
  BY PhoneFields DEF DrainInv, StoreInv, PhoneInv
<1> DEFINE w == phone.want + Len(page.bytes)
           t == phone.tail \o page.bytes
<1>3. w \in Nat /\ t \in Seq(Bytes) /\ Aligned(queue, w, t)
  BY <1>1, <1>2, PageJoins DEF DrainInv, PhoneInv, ReadInv
<1>4. phone' = [phone EXCEPT !.at = "decoding", !.want = w, !.tail = t]
  BY <1>1
<1> HIDE DEF w, t
<1>5. /\ phone' \in Phones /\ phone'.at = "decoding" /\ phone'.want = w /\ phone'.tail = t
      /\ phone'.inbox = phone.inbox
  BY <1>2, <1>3, <1>4 DEF Phones
<1>6. StoreInv'
  BY <1>1 DEF DrainInv, StoreInv, store
<1>7. PhoneInv'
  BY <1>1, <1>3, <1>5 DEF DrainInv, PhoneInv, store
<1>8. ReadInv'
  BY <1>1, <1>5 DEF DrainInv, ReadInv, store
<1> QED
  BY <1>6, <1>7, <1>8 DEF DrainInv

LEMMA EndPassKeeps == ASSUME DrainInv, Desync \/ PageDone PROVE DrainInv'
<1>1. UNCHANGED <<store, pull, link, relayed>> /\ page' = NoPage
  BY DEF Desync, PageDone
<1>2. StoreInv'
  BY <1>1 DEF DrainInv, StoreInv, store
<1>3. phone \in Phones /\ phone.inbox \in Seq(Runs)
  BY DEF DrainInv, PhoneInv
<1>4. CASE phone' = Restart(phone) \/ phone' = [Restart(phone) EXCEPT !.told = 0]
  <2>1. /\ phone' \in Phones /\ phone'.at = "idle" /\ phone'.want = 0 /\ phone'.tail = <<>>
        /\ phone'.inbox = phone.inbox
    BY <1>3, <1>4, Restarted DEF Phones
  <2> QED
    BY <1>1, <1>2, <1>3, <2>1, Rested
<1>5. CASE phone' = [phone EXCEPT !.at = "idle"]
  <2>1. /\ phone' \in Phones /\ phone'.at = "idle" /\ phone'.want = phone.want
        /\ phone'.tail = phone.tail /\ phone'.inbox = phone.inbox
    BY <1>3, <1>5 DEF Phones
  <2>2. PhoneInv'
    BY <1>1, <2>1 DEF DrainInv, PhoneInv, store
  <2>3. ReadInv'
    BY <1>1, <2>1 DEF ReadInv
  <2> QED
    BY <1>2, <2>2, <2>3 DEF DrainInv
<1> QED
  BY <1>4, <1>5 DEF Desync, PageDone

LEMMA DecodeKeeps == ASSUME DrainInv, Decode PROVE DrainInv'
<1> DEFINE t == phone.tail
           run == t[1][1]
           rest == SubSeq(t, Size[run] + 1, Len(t))
<1>1. /\ UNCHANGED <<store, pull, link, page, relayed>> /\ phone.at = "decoding"
      /\ Len(t) >= 2 /\ Len(t) >= Size[run]
  BY DEF Decode, HasFrame, Length
<1>2. phone \in Phones /\ queue \in Seq(Runs) /\ phone.want \in Nat /\ t \in Seq(Bytes)
      /\ phone.inbox \in Seq(Runs) /\ Aligned(queue, phone.want, t)
  BY PhoneFields DEF DrainInv, StoreInv, PhoneInv
<1>3. /\ run \in Runs /\ SubSeq(t, 1, Size[run]) = Frame(run)
      /\ rest \in Seq(Bytes) /\ Aligned(queue, phone.want, rest)
  BY <1>1, <1>2, FrameDecodes
<1>4. SubSeq(t, 1, Size[run])[1][1] = run
  <2> DEFINE r == run
  <2>1. r \in Runs /\ SubSeq(t, 1, Size[r]) = Frame(r)
    BY <1>3
  <2> HIDE DEF r
  <2>2. 1 \in 1..Size[r] /\ Frame(r)[1] = <<r, 1>>
    BY <2>1, RunSizes
  <2> DEFINE x == SubSeq(t, 1, Size[r])
  <2>3. x[1] = <<r, 1>>
    BY <2>1, <2>2
  <2> HIDE DEF x
  <2>4. x[1][1] = r
    BY <2>3
  <2> QED
    BY <2>4 DEF x, r
<1>5. phone' = [phone EXCEPT !.inbox = Append(@, run), !.tail = rest]
  <2>1. /\ phone' = [phone EXCEPT
             !.inbox = Append(@, IF SubSeq(t, 1, Size[run]) = Frame(SubSeq(t, 1, Size[run])[1][1])
                                 THEN SubSeq(t, 1, Size[run])[1][1] ELSE Spliced),
             !.tail  = rest]
    BY DEF Decode, Length
  <2> QED
    BY <2>1, <1>3, <1>4
<1> HIDE DEF t, run, rest
<1>6. Append(phone.inbox, run) \in Seq(Runs) /\ Append(phone.inbox, run) \in Seq(Runs \cup {Spliced})
  BY <1>2, <1>3
<1>7. /\ phone' \in Phones /\ phone'.at = "decoding" /\ phone'.want = phone.want
      /\ phone'.tail = rest /\ phone'.inbox = Append(phone.inbox, run)
  BY <1>1, <1>2, <1>3, <1>5, <1>6 DEF Phones
<1>8. StoreInv'
  BY <1>1 DEF DrainInv, StoreInv, store
<1>9. PhoneInv'
  BY <1>1, <1>3, <1>6, <1>7 DEF DrainInv, PhoneInv, store
<1>10. ReadInv'
  BY <1>1, <1>7 DEF DrainInv, ReadInv, store
<1> QED
  BY <1>8, <1>9, <1>10 DEF DrainInv

LEMMA RelayKeeps == ASSUME DrainInv, RelayHead PROVE DrainInv'
<1>1. UNCHANGED <<store, pull, link, page, phone>> /\ relayed' \subseteq Runs
  BY DEF RelayHead, DrainInv, StoreInv
<1>2. StoreInv'
  BY <1>1 DEF DrainInv, StoreInv, store
<1>3. PhoneInv' /\ ReadInv'
  BY <1>1 DEF DrainInv, PhoneInv, ReadInv, store
<1> QED
  BY <1>2, <1>3 DEF DrainInv

(* Whatever a RUN_ACK names, the queue stays a queue of runs.              *)
LEMMA AckedStore ==
  ASSUME StoreInv, NEW r, NEW charged, RunAck(r, charged)
  PROVE  queue' \in Seq(Runs) /\ passed' \in Seq(Runs) /\ retired' \subseteq Runs
<1>1. queue \in Seq(Runs) /\ passed \in Seq(Runs) /\ retired \subseteq Runs
  BY DEF StoreInv
<1>2. CASE UNCHANGED store
  BY <1>1, <1>2 DEF store
<1>3. CASE AcksHead(r) /\ Retire(charged)
  <2>1. Head(queue) \in Runs /\ Tail(queue) \in Seq(Runs)
    BY <1>1, <1>3 DEF AcksHead
  <2>2. retired' \subseteq Runs
    BY <1>1, <1>3, <2>1 DEF Retire
  <2>3. Append(passed, Head(queue)) \in Seq(Runs) /\ <<>> \in Seq(Runs)
    BY <1>1, <2>1
  <2>4. \/ queue' = Tail(queue) /\ passed' = Append(passed, Head(queue))
        \/ queue' = <<>> /\ passed' = <<>>
        \/ queue' = Append(passed, Head(queue)) /\ passed' = <<>>
    BY <1>3 DEF Retire
  <2> QED
    BY <2>1, <2>2, <2>3, <2>4
<1> QED
  BY <1>2, <1>3 DEF RunAck

LEMMA AckKeeps == ASSUME DrainInv, Ack PROVE DrainInv'
<1>1. /\ UNCHANGED <<link, page, relayed>> /\ pull' = 0
      /\ RunAck(Head(phone.inbox), spent) /\ phone.inbox # <<>>
      /\ phone.at \in {"idle", "sought"}
      /\ phone' = [Restart(phone) EXCEPT !.inbox = Tail(@), !.told = Len(queue')]
  BY DEF Ack, CanAck
<1>2. phone \in Phones /\ phone.inbox \in Seq(Runs) /\ StoreInv
  BY DEF DrainInv, PhoneInv
<1>3. queue' \in Seq(Runs) /\ passed' \in Seq(Runs) /\ retired' \subseteq Runs
  BY <1>1, <1>2, AckedStore
<1>4. StoreInv'
  BY <1>1, <1>2, <1>3 DEF StoreInv
<1>5. page' = NoPage
  BY <1>1 DEF DrainInv, ReadInv
<1>6. Tail(phone.inbox) \in Seq(Runs) /\ Len(queue') \in Nat
  BY <1>1, <1>2, <1>3
<1>7. Restart(phone).inbox = phone.inbox
  BY <1>2 DEF Restart, Phones
<1>8. phone' = [Restart(phone) EXCEPT !.inbox = Tail(phone.inbox), !.told = Len(queue')]
  BY <1>1, <1>7
<1>9. Tail(phone.inbox) \in Seq(Runs \cup {Spliced})
  BY <1>6
<1>10. /\ phone' \in Phones /\ phone'.at = "idle" /\ phone'.want = 0 /\ phone'.tail = <<>>
      /\ phone'.inbox = Tail(phone.inbox)
  BY <1>2, <1>6, <1>8, <1>9, Restarted DEF Phones
<1> QED
  BY <1>4, <1>5, <1>6, <1>10, Rested

LEMMA AckUnansweredKeeps == ASSUME DrainInv, AckUnanswered PROVE DrainInv'
<1>1. /\ relayed' = relayed /\ LinkLost(phone.inbox)
      /\ RunAck(Head(phone.inbox), [spent EXCEPT !.drops = @ + 1])
  BY DEF AckUnanswered
<1>2. phone.inbox \in Seq(Runs) /\ StoreInv
  BY DEF DrainInv, PhoneInv
<1>3. queue' \in Seq(Runs) /\ passed' \in Seq(Runs) /\ retired' \subseteq Runs
  BY <1>1, <1>2, AckedStore
<1> QED
  BY <1>1, <1>2, <1>3, LinkLostKeeps

LEMMA DrainStep == DrainInv /\ [Next]_vars => DrainInv'
<1> SUFFICES ASSUME DrainInv, [Next]_vars PROVE DrainInv'
  OBVIOUS
<1>1. CASE \E r \in Runs : RoutineEnds(r)
  BY <1>1, RoutineEndsKeeps
<1>2. CASE Connect
  BY <1>2, ConnectKeeps
<1>3. CASE Drop \/ HangUp
  BY <1>3, DropKeeps
<1>4. CASE Seek \/ StraySeek
  BY <1>4, SeekKeeps
<1>5. CASE \E cap \in Caps : Serve(cap)
  BY <1>5, ServeKeeps
<1>6. CASE Accept
  BY <1>6, AcceptKeeps
<1>7. CASE Desync \/ PageDone
  BY <1>7, EndPassKeeps
<1>8. CASE Decode
  BY <1>8, DecodeKeeps
<1>9. CASE RelayHead
  BY <1>9, RelayKeeps
<1>10. CASE Ack
  BY <1>10, AckKeeps
<1>11. CASE AckUnanswered
  BY <1>11, AckUnansweredKeeps
<1>12. CASE UNCHANGED vars
  BY <1>12 DEF vars, DrainInv, StoreInv, PhoneInv, ReadInv
<1> QED
  BY <1>1, <1>2, <1>3, <1>4, <1>5, <1>6, <1>7, <1>8, <1>9, <1>10, <1>11, <1>12 DEF Next

THEOREM DrainInvariance == Spec => []DrainInv
BY DrainStart, DrainStep, PTL DEF Spec

(* The state of a drain: positions are numbers, and a page never claims to *)
(* start behind the end of the stream.                                     *)
THEOREM DrainTypeCorrect == Spec => []TypeOK
<1>1. DrainInv => TypeOK
  <2> SUFFICES ASSUME DrainInv PROVE TypeOK
    OBVIOUS
  <2>1. Total = Len(SentAll(queue)) /\ Total \in Nat
    BY StreamIs DEF DrainInv, StoreInv
  <2>2. page = NoPage \/ page.offset \in 0..Total
    <3>1. CASE phone.at \in {"idle", "sought"}
      BY <3>1 DEF DrainInv, ReadInv
    <3>2. CASE phone.at \in {"reading", "decoding"}
      BY <3>2, <2>1 DEF DrainInv, ReadInv, IsSlice
    <3> QED
      BY <3>1, <3>2, PhoneFields DEF DrainInv, PhoneInv
  <2> QED
    BY <2>2 DEF DrainInv, StoreInv, PhoneInv, TypeOK
<1> QED
  BY <1>1, DrainInvariance, PTL

(* A drain that follows the contract is never turned away: whatever was    *)
(* queued, acknowledged, repeated or dropped before, the page that answers *)
(* a seek starts where the seek said.                                      *)
THEOREM SoughtServed == Spec => []SoughtPageIsServed
<1>1. DrainInv => SoughtPageIsServed
  BY DEF DrainInv, ReadInv, SoughtPageIsServed
<1> QED
  BY <1>1, DrainInvariance, PTL

(* No page boundary, repeated read, stray seek, drop, append or            *)
(* acknowledgement makes the phone take a frame that is not a whole run.   *)
THEOREM NothingIsSpliced == Spec => []NothingSpliced
<1>1. DrainInv => NothingSpliced
  <2> SUFFICES ASSUME DrainInv PROVE Spliced \notin ToSet(phone.inbox)
    BY DEF NothingSpliced
  <2>1. phone.inbox \in Seq(Runs)
    BY DEF DrainInv, PhoneInv
  <2>2. ToSet(phone.inbox) \subseteq Runs
    BY <2>1 DEF ToSet
  <2> QED
    BY <2>2, RunSizes
<1> QED
  BY <1>1, DrainInvariance, PTL

-----------------------------------------------------------------------------
(* The queue under the drain.  What the log still holds ahead of the       *)
(* cursor was retired, so that what a rewind shows again has been          *)
(* delivered before.                                                       *)
Replayable == passed \in Seq(retired)

LEMMA Widen ==
  ASSUME NEW S, NEW T, S \subseteq T, NEW s \in Seq(S)
  PROVE  s \in Seq(T)
OBVIOUS

LEMMA Whole ==
  ASSUME NEW S, NEW s \in Seq(S), NEW x \in S
  PROVE  LET q == Append(s, x)
         IN  /\ Len(q) \in 1..Len(q)
             /\ SubSeq(q, 1, Len(q)) \in Seq(S) /\ SubSeq(q, Len(q) + 1, Len(q)) = <<>>
<1> DEFINE q == Append(s, x)
<1>1. q \in Seq(S) /\ Len(q) \in Nat /\ Len(q) >= 1
  OBVIOUS
<1> HIDE DEF q
<1>2. SubSeq(q, 0 + 1, Len(q)) \in Seq(S)
  BY <1>1, SliceIs
<1>3. SubSeq(q, Len(q) + 1, Len(q)) = <<>>
  BY <1>1, SubSeqEmpty
<1> QED
  BY <1>1, <1>2, <1>3 DEF q

(* An acknowledgement is one step of the queue, or none.                   *)
LEMMA RefineAck ==
  ASSUME StoreInv, Replayable, NEW r, NEW charged, RunAck(r, charged)
  PROVE  Replayable' /\ (FIFO!Next \/ UNCHANGED FIFO!vars)
<1>0. queue \in Seq(Runs) /\ passed \in Seq(retired)
  BY DEF StoreInv, Replayable
<1>1. CASE UNCHANGED store
  BY <1>0, <1>1 DEF store, FIFO!vars, Replayable
<1>2. CASE AcksHead(r) /\ Retire(charged)
  <2> DEFINE h == Head(queue)
  <2>1. queue # <<>> /\ retired' = retired \cup {h}
    BY <1>2 DEF AcksHead, Retire
  <2>7. ASSUME Len(queue) = 1 PROVE Tail(queue) = <<>>
    <3>1. Tail(queue) \in Seq(Runs) /\ Len(Tail(queue)) = 0
      BY <1>0, <2>1, <2>7, HeadTailProperties
    <3> QED
      BY <3>1, EmptySeq
  <2>2. h \in retired' /\ passed \in Seq(retired')
    <3>1. retired \subseteq retired' /\ h \in retired'
      BY <2>1
    <3> QED
      BY <1>0, <3>1, Widen
  <2>3. Append(passed, h) \in Seq(retired') /\ <<>> \in Seq(retired')
    BY <2>2
  <2>4. CASE queue' = Tail(queue) /\ passed' = Append(passed, h)
    BY <2>1, <2>3, <2>4 DEF Replayable, FIFO!Next, FIFO!RetireHead
  <2>5. CASE Len(queue) = 1 /\ queue' = <<>> /\ passed' = <<>>
    BY <2>1, <2>3, <2>5, <2>7 DEF Replayable, FIFO!Next, FIFO!RetireHead
  <2>6. CASE Len(queue) = 1 /\ queue' = Append(passed, h) /\ passed' = <<>>
    <3>1. /\ Len(queue') \in 1..Len(queue')
          /\ SubSeq(queue', 1, Len(queue')) \in Seq(retired')
          /\ SubSeq(queue', Len(queue') + 1, Len(queue')) = Tail(queue)
      BY <1>0, <2>2, <2>6, <2>7, Whole
    <3>2. FIFO!RetireAndRedeliver
      BY <2>1, <3>1 DEF FIFO!RetireAndRedeliver
    <3> QED
      BY <2>3, <2>6, <3>2 DEF Replayable, FIFO!Next
  <2> QED
    BY <1>2, <2>4, <2>5, <2>6 DEF Retire
<1> QED
  BY <1>1, <1>2 DEF RunAck

LEMMA RefineStep ==
  ASSUME StoreInv, Replayable, [Next]_vars
  PROVE  Replayable' /\ (FIFO!Next \/ UNCHANGED FIFO!vars)
<1>1. CASE UNCHANGED store
  BY <1>1 DEF store, FIFO!vars, Replayable
<1>2. ASSUME NEW r \in Runs, RoutineEnds(r)
      PROVE  Replayable' /\ FIFO!Next
  BY <1>2 DEF RoutineEnds, Replayable, FIFO!Next, FIFO!Enqueue
<1>3. CASE Ack
  BY <1>3, RefineAck DEF Ack
<1>4. CASE AckUnanswered
  BY <1>4, RefineAck DEF AckUnanswered
<1>5. CASE Connect \/ Drop \/ HangUp \/ Seek \/ StraySeek
  BY <1>1, <1>5 DEF Connect, Drop, HangUp, Seek, StraySeek
<1>6. CASE \E cap \in Caps : Serve(cap)
  BY <1>1, <1>6 DEF Serve
<1>7. CASE Accept \/ Desync \/ Decode \/ PageDone \/ RelayHead
  BY <1>1, <1>7 DEF Accept, Desync, Decode, PageDone, RelayHead, store
<1>8. CASE UNCHANGED vars
  BY <1>1, <1>8 DEF vars, store
<1> QED
  BY <1>2, <1>3, <1>4, <1>5, <1>6, <1>7, <1>8 DEF Next

(* The drain keeps the promise of the queue it is built on: runs are taken *)
(* from the head, in order, whatever the phone and the link do, and what   *)
(* comes back was retired before and comes ahead of the others.            *)
THEOREM DrainImplementsQueue == Spec => ImplementsFIFO
<1>1. Init => FIFO!Init /\ Replayable
  BY DEF Init, FIFO!Init, Replayable
<1>2. DrainInv /\ Replayable /\ [Next]_vars => Replayable' /\ [FIFO!Next]_(FIFO!vars)
  BY RefineStep DEF DrainInv
<1> QED
  BY <1>1, <1>2, DrainInvariance, PTL DEF Spec, ImplementsFIFO, FIFO!Spec

=============================================================================
